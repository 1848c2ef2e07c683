---------------------------- MODULE MCResolutor ----------------------------
(* Two families of projects over four files, the entry is "a".              *)
EXTENDS ResolutorModulos, TLC

(* The pieces the files are put together from.                             *)

Publica(n) == [nombre |-> n, exportado |-> TRUE, esDefecto |-> FALSE]
Privada(n) == [nombre |-> n, exportado |-> FALSE, esDefecto |-> FALSE]
PorDefecto(n) == [nombre |-> n, exportado |-> TRUE, esDefecto |-> TRUE]

Nombrado(r, o, n) ==
  [forma |-> "nombrado", ruta |-> r, pares |-> <<[origen |-> o, alias |-> n]>>]
ImportaDefecto(r, n) ==
  [forma |-> "por_defecto", ruta |-> r, pares |-> <<[origen |-> "__defecto__", alias |-> n]>>]
Espacio(r, n) == [forma |-> "espacio", ruta |-> r, alias |-> n]
Reexporta(r) == [forma |-> "exportar_desde", ruta |-> r, pares |-> <<>>]

Valor(n) == [forma |-> "valor", nombre |-> n, sombreado |-> FALSE]
ValorLocal(n) == [forma |-> "valor", nombre |-> n, sombreado |-> TRUE]
Tipo(n) == [forma |-> "tipo", nombre |-> n, sombreado |-> TRUE]
Miembro(e, n) == [forma |-> "miembro", espacio |-> e, nombre |-> n, sombreado |-> FALSE]
MiembroLocal(e, n) == [forma |-> "miembro", espacio |-> e, nombre |-> n, sombreado |-> TRUE]
TipoDe(e, n) == [forma |-> "tipo_calificado", espacio |-> e, nombre |-> n, sombreado |-> FALSE]

Grafo(i) == [lectura |-> "abre", declara |-> <<Publica("f")>>, importa |-> i,
             usa |-> {Valor("f")}]
Archivo1(d, i, u) == [lectura |-> "abre", declara |-> d, importa |-> i, usa |-> u]
Roto(l) == [lectura |-> l, declara |-> <<Publica("f")>>, importa |-> <<>>, usa |-> {}]

-----------------------------------------------------------------------------
(* The instance.                                                            *)

(* Import graphs: every file imports up to two others or itself, so that    *)
(* there are chains, diamonds, shared and unreached files, circles of any   *)
(* length.                                                                  *)
Orden == [r \in Rutas |-> CASE r = "a" -> 1 [] r = "b" -> 2 [] r = "c" -> 3 [] r = "d" -> 4]
Uno == {<<Nombrado(x, "f", "f")>> : x \in Rutas}
Dos == {<<Nombrado(x[1], "f", "f"), Espacio(x[2], "e")>> :
          x \in {y \in Rutas \X Rutas : Orden[y[1]] > Orden[y[2]]}}
Grafos == [Rutas -> {Grafo(i) : i \in {<<>>} \cup Uno \cup Dos}]

(* Forms of import, names, references and broken files: "a" imports "b" and *)
(* "c", "b" may import "c", nobody "d".                                     *)
Formas(r) == {Nombrado(r, "f", "g"), Nombrado(r, "f", "f"), Espacio(r, "g"),
              ImportaDefecto(r, "f"), Reexporta(r)}
Usos == {{Valor("f"), ValorLocal("g"), Tipo("g")},
         {Miembro("g", "f"), Valor("f"), MiembroLocal("f", "g")},
         {TipoDe("g", "f"), Tipo("f")}}
Declaran == {<<Publica("f")>>, <<Privada("g"), Publica("f")>>}

Entradas ==
  {Archivo1(d, i, u) : d \in Declaran, u \in Usos,
     i \in {<<>>} \cup {<<x>> : x \in Formas("b")}
            \cup {<<x, y>> : x \in Formas("b"), y \in Formas("c")}}
Intermedios ==
  {Archivo1(<<Publica("f")>>, <<Espacio("c", "g")>>, {Miembro("g", "f")}),
   Archivo1(<<Publica("f"), PorDefecto("g")>>, <<Nombrado("c", "f", "g")>>, {Valor("g")}),
   Archivo1(<<PorDefecto("f")>>, <<>>, {Valor("f"), Valor("e")}),
   Archivo1(<<Privada("f")>>, <<>>, {}),
   Roto("no_abre"), Roto("sintaxis")}
Hojas ==
  {Archivo1(<<Publica("f"), PorDefecto("g")>>, <<>>, {Valor("g"), Tipo("e")}),
   Archivo1(<<Publica("g")>>, <<>>, {Valor("f")}),
   Roto("retornar_invalido")}
Enlaces ==
  {("a" :> x) @@ ("b" :> y) @@ ("c" :> z) @@ ("d" :> Grafo(<<>>)) :
     x \in Entradas, y \in Intermedios, z \in Hojas}

MCProyectos == Grafos \cup Enlaces
MCSlugDesdeRuta == [r \in Rutas |-> r]
=============================================================================
