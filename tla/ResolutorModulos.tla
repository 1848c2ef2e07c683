------------------------- MODULE ResolutorModulos -------------------------
(***************************************************************************)
(* The module resolver of the compiler (src/resolutor_modulos.cpp): from   *)
(* the entry file it walks the graph of `importar` declarations depth      *)
(* first, reads every module once, mangles its top-level names, binds the  *)
(* imported ones, rewrites the references and appends the module to the    *)
(* linked program after everything it imports.                             *)
(*                                                                         *)
(* A source file is abstracted to what the resolver looks at: whether it   *)
(* can be read, its top-level declarations, its imports in text order and  *)
(* the references its code makes.  A mangled name is the pair of the       *)
(* module's slug and the source name ("__mod_" slug "__" name).            *)
(***************************************************************************)
EXTENDS Naturals, Sequences, FiniteSets

CONSTANTS
  Rutas,          \* canonical paths a project can mention
  Entrada,        \* the file given on the command line
  Nombres,        \* source names, the key "__defecto__" among them
  Defecto,        \* the key "__defecto__" of an export table
  Slugs,          \* what slugDesdeRuta can return
  SlugDesdeRuta,  \* slugDesdeRuta(ruta)
  Libre,          \* marks a reference the resolver leaves as it is written
  Nulo,           \* "no entry" in a table
  Proyectos       \* the source trees on disk the resolver may meet

(* What happens when a file is fetched: it opens and parses, it cannot be   *)
(* opened, it has a syntax error, or its final `retornar { ... }` is wrong. *)
Lecturas == {"abre", "no_abre", "sintaxis", "retornar_invalido"}

Declaracion == [nombre : Nombres, exportado : BOOLEAN, esDefecto : BOOLEAN]

(* An `importar`.  The three forms bind <<exported name, local alias>>      *)
(* pairs or a namespace alias; "exportar ... desde" is the re-export.       *)
Par == [origen : Nombres, alias : Nombres]
Importacion ==
  [forma : {"nombrado", "por_defecto", "exportar_desde"}, ruta : Rutas, pares : Seq(Par)]
    \cup [forma : {"espacio"}, ruta : Rutas, alias : Nombres]

(* A reference: a plain value `n`, a member `ns.n`, a type `n` or a type    *)
(* `ns.n`; sombreado says a local of the enclosing function hides its root. *)
Uso ==
  [forma : {"valor", "tipo"}, nombre : Nombres, sombreado : BOOLEAN]
    \cup [forma : {"miembro", "tipo_calificado"}, espacio : Nombres,
          nombre : Nombres, sombreado : BOOLEAN]

Archivo == [lectura : Lecturas, declara : Seq(Declaracion),
            importa : Seq(Importacion), usa : SUBSET Uso]

Internos == (Slugs \cup {Libre}) \X Nombres

(* manglar(nombre) in manglarDeclaracionesPropias.                          *)
Manglar(r, n) == <<SlugDesdeRuta[r], n>>

ASSUME ConstantesAssumption ==
  /\ Entrada \in Rutas
  /\ Defecto \in Nombres
  /\ SlugDesdeRuta \in [Rutas -> Slugs]
  /\ Libre \notin Slugs
  /\ Nulo \notin Rutas
  /\ Nulo \notin (Slugs \cup {Libre}) \X Nombres

-----------------------------------------------------------------------------
(* Reading a module: pure functions of its file.                            *)

(* participaDeModulos: some import, re-export or exported declaration.      *)
Participa(a) ==
  \/ a.importa # <<>>
  \/ \E k \in 1 .. Len(a.declara) : a.declara[k].exportado

(* The file is only as good as main.cpp found it when it is the entry.      *)
EntradaValida(a) == a.lectura = "abre" /\ Participa(a)

ASSUME ProyectosAssumption ==
  /\ Proyectos \subseteq [Rutas -> Archivo]
  /\ \A p \in Proyectos : EntradaValida(p[Entrada])

(* DeclaracionesPropias.renombres: every top-level name, exported or not.   *)
RenombresPropios(a, r) ==
  [n \in Nombres |->
     IF \E k \in 1 .. Len(a.declara) : a.declara[k].nombre = n
     THEN Manglar(r, n) ELSE Nulo]

(* The position of the last `exportar por defecto`, whose entry wins.       *)
EsUltimoDefecto(a, k) ==
  /\ a.declara[k].esDefecto
  /\ \A j \in k + 1 .. Len(a.declara) : ~a.declara[j].esDefecto

(* DeclaracionesPropias.tabla: a default export is filed under Defecto only.*)
Exporta(a, r, n) ==
  LET porNombre == \E k \in 1 .. Len(a.declara) :
                     /\ a.declara[k].nombre = n
                     /\ a.declara[k].exportado
                     /\ ~a.declara[k].esDefecto
  IN  IF n = Defecto /\ \E k \in 1 .. Len(a.declara) : EsUltimoDefecto(a, k)
      THEN Manglar(r, a.declara[CHOOSE k \in 1 .. Len(a.declara) :
                                  EsUltimoDefecto(a, k)].nombre)
      ELSE IF porNombre THEN Manglar(r, n) ELSE Nulo

TablaExportacion(a, r) == [n \in Nombres |-> Exporta(a, r, n)]

TablaVacia == [n \in Nombres |-> Nulo]

-----------------------------------------------------------------------------
VARIABLES
  fuente,         \* the source tree on disk: Rutas -> Archivo
  estados,        \* estados_: "ausente" when the map has no entry
  exportaciones,  \* estados_[r].exportaciones
  pila,           \* the active procesarModulo calls, outermost first
  dependencias,   \* dependencias_: the linked modules in emission order
  ok,             \* ok_
  cadena,         \* the last chain of an "import circular detectado" message
  resultado       \* what resolverProyecto returned

vars == <<fuente, estados, exportaciones, pila, dependencias, ok, cadena, resultado>>

Fases == {"ausente", "en_proceso", "fallido", "listo"}

(* One activation of procesarModulo: the next import to look at and the two *)
(* maps it is filling for the reference rewriter.                           *)
Marco == [ruta : Rutas, pos : Nat \ {0},
          renombres : [Nombres -> Internos \cup {Nulo}],
          espacios : [Nombres -> Rutas \cup {Nulo}]]

(* A module in the linked program, mangled, rewritten, without its imports. *)
Enlazado == [ruta : Rutas, declara : SUBSET Internos, usa : SUBSET Internos]

MarcoNuevo(r) ==
  [ruta |-> r, pos |-> 1, renombres |-> RenombresPropios(fuente[r], r),
   espacios |-> [n \in Nombres |-> Nulo]]

Init ==
  /\ fuente \in Proyectos
  /\ estados = [r \in Rutas |-> "ausente"]
  /\ exportaciones = [r \in Rutas |-> TablaVacia]
  /\ pila = <<>>
  /\ dependencias = <<>>
  /\ ok = TRUE
  /\ cadena = <<>>
  /\ resultado = "pendiente"

Tope == pila[Len(pila)]
Importaciones(r) == fuente[r].importa
QuedanImportaciones == pila # <<>> /\ Tope.pos <= Len(Importaciones(Tope.ruta))
ImportacionActual == Importaciones(Tope.ruta)[Tope.pos]

(* The frame m with import i dealt with, bound against export table tabla   *)
(* (the body of the import loop of procesarModulo once tablaDestino is      *)
(* known).  A pair whose name is missing is reported and binds nothing.     *)
Enlazar(m, i, tabla) ==
  IF i.forma = "espacio"
  THEN [m EXCEPT !.pos = @ + 1, !.espacios[i.alias] = i.ruta]
  ELSE [m EXCEPT !.pos = @ + 1,
         !.renombres =
           [n \in Nombres |->
              LET gana == {k \in 1 .. Len(i.pares) :
                             i.pares[k].alias = n /\ tabla[i.pares[k].origen] # Nulo}
              IN  IF gana = {} THEN @[n]
                  ELSE tabla[i.pares[CHOOSE k \in gana : \A j \in gana : j <= k].origen]]]

(* Mutant: a pair whose name the module does not export is not reported.    *)
TodoVale(i, tabla) == TRUE

TodoExportado(i, tabla) ==
  i.forma # "espacio" => \A k \in 1 .. Len(i.pares) : tabla[i.pares[k].origen] # Nulo

-----------------------------------------------------------------------------
(* ReescritorReferencias, one reference at a time.                          *)

EsCalificado(u) == u.forma \in {"miembro", "tipo_calificado"}
Raiz(u) == IF EsCalificado(u) THEN u.espacio ELSE u.nombre

(* Locals hide values, never type names.                                    *)
Tapado(u) == u.sombreado /\ u.forma \in {"valor", "miembro"}

(* `ns.X` is looked up in the namespace's table when ns is a namespace.     *)
PorEspacio(m, u) == EsCalificado(u) /\ ~Tapado(u) /\ m.espacios[u.espacio] # Nulo

ErrorDeUso(m, tablas, u) ==
  \/ PorEspacio(m, u) /\ tablas[m.espacios[u.espacio]][u.nombre] = Nulo
  \/ u.forma = "tipo_calificado" /\ m.espacios[u.espacio] = Nulo
  \/ u.forma = "valor" /\ ~Tapado(u) /\ m.espacios[u.nombre] # Nulo

(* Mutant: the locals of the function are not looked at.                    *)
ReescribirSinLocales(m, tablas, u) ==
  IF EsCalificado(u) /\ m.espacios[u.espacio] # Nulo
  THEN tablas[m.espacios[u.espacio]][u.nombre]
  ELSE IF u.forma = "tipo_calificado" \/ m.renombres[Raiz(u)] = Nulo
  THEN <<Libre, Raiz(u)>>
  ELSE m.renombres[Raiz(u)]

(* The name a reference carries after the rewrite.                          *)
Reescribir(m, tablas, u) ==
  IF PorEspacio(m, u) THEN tablas[m.espacios[u.espacio]][u.nombre]
  ELSE IF Tapado(u) \/ u.forma = "tipo_calificado" \/ m.renombres[Raiz(u)] = Nulo
  THEN <<Libre, Raiz(u)>>
  ELSE m.renombres[Raiz(u)]

(* procesarModulo skips the rewriter when it has nothing to rename.         *)
HayQueReescribir(m) ==
  \/ \E n \in Nombres : m.renombres[n] # Nulo
  \/ \E n \in Nombres : m.espacios[n] # Nulo

(* Mutant: the errors of the rewriter are printed and forgotten.            *)
ReescrituraIndulgente(m) == FALSE

ReescrituraFalla(m) ==
  HayQueReescribir(m) /\ \E u \in fuente[m.ruta].usa : ErrorDeUso(m, exportaciones, u)

Enlace(m) ==
  LET a == fuente[m.ruta] IN
  [ruta    |-> m.ruta,
   declara |-> {Manglar(m.ruta, a.declara[k].nombre) : k \in 1 .. Len(a.declara)},
   usa     |-> IF HayQueReescribir(m)
               THEN {Reescribir(m, exportaciones, u) : u \in a.usa}
               ELSE {<<Libre, Raiz(u)>> : u \in a.usa}]
-----------------------------------------------------------------------------
(* resolverProyecto of an entry without imports: resolverModuloUnico.  The   *)
(* rewriter's errors are printed and do not stop the compilation.            *)
ResolverModuloUnico ==
  /\ resultado = "pendiente" /\ pila = <<>>
  /\ Importaciones(Entrada) = <<>>
  /\ dependencias' = <<Enlace(MarcoNuevo(Entrada))>>
  /\ resultado' = "programa"
  /\ UNCHANGED <<fuente, estados, exportaciones, pila, ok, cadena>>

(* ResolutorProyecto::resolver enters the entry file.                        *)
Comenzar ==
  /\ resultado = "pendiente" /\ pila = <<>>
  /\ Importaciones(Entrada) # <<>>
  /\ estados' = [estados EXCEPT ![Entrada] = "en_proceso"]
  /\ pila' = <<MarcoNuevo(Entrada)>>
  /\ UNCHANGED <<fuente, exportaciones, dependencias, ok, cadena, resultado>>

(* The frame on top goes past its current import without binding anything.   *)
Saltar == pila' = [pila EXCEPT ![Len(pila)].pos = @ + 1]

(* exportar { ... } desde "...": not implemented, an error.                  *)
RechazarReexport ==
  /\ QuedanImportaciones /\ ImportacionActual.forma = "exportar_desde"
  /\ ok' = FALSE
  /\ Saltar
  /\ UNCHANGED <<fuente, estados, exportaciones, dependencias, cadena, resultado>>

Importa == QuedanImportaciones /\ ImportacionActual.forma # "exportar_desde"
Destino == ImportacionActual.ruta

(* Mutants of DetectarCiclo: the error is not recorded; the whole stack is   *)
(* printed; the import is looked at again.                                   *)
CicloSinError ==
  /\ Importa /\ estados[Destino] = "en_proceso"
  /\ Saltar
  /\ UNCHANGED <<fuente, estados, exportaciones, dependencias, ok, cadena, resultado>>

CicloTodaLaPila ==
  /\ Importa /\ estados[Destino] = "en_proceso"
  /\ ok' = FALSE
  /\ cadena' = Append([k \in 1 .. Len(pila) |-> pila[k].ruta], Destino)
  /\ Saltar
  /\ UNCHANGED <<fuente, estados, exportaciones, dependencias, resultado>>

CicloSinAvanzar ==
  /\ Importa /\ estados[Destino] = "en_proceso"
  /\ ok' = FALSE
  /\ UNCHANGED <<fuente, estados, exportaciones, pila, dependencias, cadena, resultado>>

(* resolverDependencia meets a module that is still on the stack and prints  *)
(* the stack from that module on.                                            *)
DetectarCiclo ==
  /\ Importa /\ estados[Destino] = "en_proceso"
  /\ ok' = FALSE
  /\ LET desde == CHOOSE k \in 1 .. Len(pila) : pila[k].ruta = Destino
     IN  cadena' = [k \in 1 .. Len(pila) - desde + 2 |->
                      IF k = Len(pila) - desde + 2 THEN Destino
                      ELSE pila[desde + k - 1].ruta]
  /\ Saltar
  /\ UNCHANGED <<fuente, estados, exportaciones, dependencias, resultado>>

(* resolverDependencia finds the module in estados_, whole or failed, and    *)
(* hands out its export table (empty for a failed one).                      *)
UsarMemo ==
  /\ Importa /\ estados[Destino] \in {"fallido", "listo"}
  /\ LET tabla == exportaciones[Destino]
     IN  /\ pila' = [pila EXCEPT ![Len(pila)] = Enlazar(@, ImportacionActual, tabla)]
         /\ ok' = (ok /\ TodoExportado(ImportacionActual, tabla))
  /\ UNCHANGED <<fuente, estados, exportaciones, dependencias, cadena, resultado>>

(* A file resolverDependencia goes on with once it has been fetched.         *)
Importable(a) == a.lectura = "abre" /\ Participa(a)

(* resolverDependencia gives up on a file it has not met: unreadable, not    *)
(* parseable, or not a module.  It leaves no entry in estados_.              *)
NoResolver ==
  /\ Importa /\ estados[Destino] = "ausente" /\ ~Importable(fuente[Destino])
  /\ ok' = FALSE
  /\ Saltar
  /\ UNCHANGED <<fuente, estados, exportaciones, dependencias, cadena, resultado>>

(* Mutant: the module is not marked as being processed.                      *)
DescenderSinMarcar ==
  /\ Importa /\ estados[Destino] = "ausente" /\ Importable(fuente[Destino])
  /\ pila' = Append(pila, MarcoNuevo(Destino))
  /\ UNCHANGED <<fuente, estados, exportaciones, dependencias, ok, cadena, resultado>>

(* resolverDependencia enters a module for the first time, whatever ok_ is.  *)
Descender ==
  /\ Importa /\ estados[Destino] = "ausente" /\ Importable(fuente[Destino])
  /\ estados' = [estados EXCEPT ![Destino] = "en_proceso"]
  /\ pila' = Append(pila, MarcoNuevo(Destino))
  /\ UNCHANGED <<fuente, exportaciones, dependencias, ok, cadena, resultado>>

Agotado == pila # <<>> /\ Tope.pos > Len(Importaciones(Tope.ruta))

(* The stack without its top frame; the caller goes past its import.         *)
Desapilar == SubSeq(pila, 1, Len(pila) - 1)
Llamador == pila[Len(pila) - 1]

(* Mutant of RetornarFallido: the failed module is taken out of estados_. *)
FallidoBorrado ==
  /\ Agotado
  /\ ~ok \/ ReescrituraFalla(Tope)
  /\ ok' = FALSE
  /\ estados' = [estados EXCEPT ![Tope.ruta] = "ausente"]
  /\ IF Len(pila) = 1
     THEN pila' = <<>> /\ resultado' = "nulo"
     ELSE /\ pila' = [Desapilar EXCEPT ![Len(pila) - 1].pos = @ + 1]
          /\ UNCHANGED resultado
  /\ UNCHANGED <<fuente, exportaciones, dependencias, cadena>>

(* procesarModulo ends with ok_ false, or turns it false in the rewrite: the *)
(* module stays in estados_ without exports and its caller binds nothing.    *)
RetornarFallido ==
  /\ Agotado
  /\ ~ok \/ ReescrituraFalla(Tope)
  /\ ok' = FALSE
  /\ estados' = [estados EXCEPT ![Tope.ruta] = "fallido"]
  /\ IF Len(pila) = 1
     THEN pila' = <<>> /\ resultado' = "nulo"
     ELSE /\ pila' = [Desapilar EXCEPT ![Len(pila) - 1].pos = @ + 1]
          /\ UNCHANGED resultado
  /\ UNCHANGED <<fuente, exportaciones, dependencias, cadena>>

(* procesarModulo ends well: the module joins the program, its exports are   *)
(* published and the import that asked for it is bound to them.              *)
RetornarListo ==
  /\ Agotado
  /\ ok /\ ~ReescrituraFalla(Tope)
  /\ estados' = [estados EXCEPT ![Tope.ruta] = "listo"]
  /\ dependencias' = Append(dependencias, Enlace(Tope))
  /\ LET tabla == TablaExportacion(fuente[Tope.ruta], Tope.ruta)
         i == Importaciones(Llamador.ruta)[Llamador.pos]
     IN  /\ exportaciones' = [exportaciones EXCEPT ![Tope.ruta] = tabla]
         /\ IF Len(pila) = 1
            THEN pila' = <<>> /\ resultado' = "programa" /\ UNCHANGED ok
            ELSE /\ pila' = [Desapilar EXCEPT ![Len(pila) - 1] = Enlazar(@, i, tabla)]
                 /\ ok' = TodoExportado(i, tabla)
                 /\ UNCHANGED resultado
  /\ UNCHANGED <<fuente, cadena>>

(* The resolution is over; main.cpp goes on with what it returned.           *)
Terminado == resultado # "pendiente" /\ UNCHANGED vars

Next ==
  \/ ResolverModuloUnico
  \/ Comenzar
  \/ RechazarReexport
  \/ DetectarCiclo
  \/ UsarMemo
  \/ NoResolver
  \/ Descender
  \/ RetornarFallido
  \/ RetornarListo
  \/ Terminado

Spec == Init /\ [][Next]_vars

(* One thread runs the resolver to the end: it never stops on its own.       *)
FairSpec == Spec /\ WF_vars(Next)

-----------------------------------------------------------------------------
(* What a project on disk deserves, told without the walk.                   *)

(* The modules file r asks for.                                              *)
Pide(p, r) ==
  {p[r].importa[k].ruta : k \in {j \in 1 .. Len(p[r].importa) :
                                   p[r].importa[j].forma # "exportar_desde"}}

(* Every import of r is supported and names only what its target exports.    *)
ImportacionesSanas(p, r) ==
  \A k \in 1 .. Len(p[r].importa) :
    LET i == p[r].importa[k] IN
    /\ i.forma # "exportar_desde"
    /\ i.forma # "espacio" =>
         \A k2 \in 1 .. Len(i.pares) : TablaExportacion(p[i.ruta], i.ruta)[i.pares[k2].origen] # Nulo

(* The namespace an alias stands for after the first k imports of file a:    *)
(* the last one declared wins.                                               *)
EspaciosHasta(a, k) ==
  [n \in Nombres |->
     LET S == {j \in 1 .. k : a.importa[j].forma = "espacio" /\ a.importa[j].alias = n}
     IN  IF S = {} THEN Nulo
         ELSE a.importa[CHOOSE j \in S : \A l \in S : l <= j].ruta]

(* Every reference of r through a namespace names something it exports.      *)
UsosSanos(p, r) ==
  LET esp == EspaciosHasta(p[r], Len(p[r].importa)) IN
  \A u \in p[r].usa :
    /\ EsCalificado(u) /\ ~Tapado(u) /\ esp[u.espacio] # Nulo
         => TablaExportacion(p[esp[u.espacio]], esp[u.espacio])[u.nombre] # Nulo
    /\ u.forma = "tipo_calificado" => esp[u.espacio] # Nulo
    /\ u.forma = "valor" /\ ~Tapado(u) => esp[u.nombre] = Nulo

(* The rewriter has work to do: a name of its own, a pair or a namespace.    *)
ConRenombres(p, r) ==
  \/ p[r].declara # <<>>
  \/ \E k \in 1 .. Len(p[r].importa) :
       \/ p[r].importa[k].forma = "espacio"
       \/ p[r].importa[k].forma # "exportar_desde" /\ p[r].importa[k].pares # <<>>

(* Nothing in file r itself stops the resolver.  An entry without imports    *)
(* is resolved on its own and not refused for its references.                *)
Sano(p, r) ==
  /\ Importable(p[r])
  /\ ImportacionesSanas(p, r)
  /\ (r = Entrada /\ p[r].importa = <<>>) \/ ~ConRenombres(p, r) \/ UsosSanos(p, r)

(* A set of files that has what each of its readable members asks for.       *)
Cerrado(p, S) == \A r \in S : Importable(p[r]) => Pide(p, r) \subseteq S

(* The files the entry reaches: those of every such set the entry is in.  A  *)
(* file that is not importable is reached, never left.                       *)
Alcanzadas(p) ==
  {r \in Rutas : \A S \in SUBSET Rutas : Entrada \in S /\ Cerrado(p, S) => r \in S}

(* No set of reached files imports itself round in a circle.                 *)
SinCiclos(p) ==
  \A C \in (SUBSET Alcanzadas(p)) \ {{}} : \E r \in C : Pide(p, r) \cap C = {}

ProyectoValido(p) == SinCiclos(p) /\ \A r \in Alcanzadas(p) : Sano(p, r)

-----------------------------------------------------------------------------
(* Properties.                                                               *)

(* Types of the resolver's state.                                            *)
TypeOK ==
  /\ fuente \in Proyectos
  /\ estados \in [Rutas -> Fases]
  /\ exportaciones \in [Rutas -> [Nombres -> Internos \cup {Nulo}]]
  /\ pila \in Seq(Marco)
  /\ dependencias \in Seq(Enlazado)
  /\ ok \in BOOLEAN
  /\ cadena \in Seq(Rutas)
  /\ resultado \in {"pendiente", "nulo", "programa"}

Activas == {pila[k].ruta : k \in 1 .. Len(pila)}

(* Activation m, in project p, is at an import that asks for file q.         *)
Espera(p, m, q) ==
  /\ m.pos <= Len(p[m.ruta].importa)
  /\ p[m.ruta].importa[m.pos].forma # "exportar_desde"
  /\ p[m.ruta].importa[m.pos].ruta = q

(* The stack is a path of the import graph without repetitions, it holds     *)
(* exactly the modules "in process" (what cycle detection rests on), and     *)
(* every caller is waiting at the import that entered the next frame.        *)
PilaEsCamino ==
  /\ \A r \in Rutas : estados[r] = "en_proceso" <=> r \in Activas
  /\ \A j, k \in 1 .. Len(pila) : pila[j].ruta = pila[k].ruta => j = k
  /\ \A k \in 1 .. Len(pila) - 1 : Espera(fuente, pila[k], pila[k + 1].ruta)

(* A circular import is reported with a chain of files that do import each   *)
(* other and close the circle.                                               *)
CadenaEsCiclo ==
  cadena # <<>> =>
    /\ Len(cadena) > 1 /\ cadena[1] = cadena[Len(cadena)]
    /\ \A k \in 1 .. Len(cadena) - 1 : cadena[k + 1] \in Pide(fuente, cadena[k])

(* A module joins the program once, and after everything it imports.         *)
OrdenDeDependencias ==
  /\ \A j, k \in 1 .. Len(dependencias) :
       dependencias[j].ruta = dependencias[k].ruta => j = k
  /\ \A k \in 1 .. Len(dependencias) :
       \A q \in Pide(fuente, dependencias[k].ruta) :
         \E j \in 1 .. k - 1 : dependencias[j].ruta = q

(* What makes the order an inductive invariant: before the walk nothing is   *)
(* known; an entry without imports is not walked; while no error has been    *)
(* met no module has failed, and everything a frame has gone past is in the  *)
(* program; and the program is the modules marked as whole.                  *)
SinEmpezar ==
  resultado = "pendiente" /\ pila = <<>> =>
    dependencias = <<>> /\ \A r \in Rutas : estados[r] = "ausente"
SinRecorrido ==
  Importaciones(Entrada) = <<>> => pila = <<>> /\ \A r \in Rutas : estados[r] = "ausente"
SinFallidos == ok => \A r \in Rutas : estados[r] # "fallido"
LoPasadoEstaListo ==
  ok => \A k \in 1 .. Len(pila) : \A j \in 1 .. Len(Importaciones(pila[k].ruta)) :
          j < pila[k].pos =>
            /\ Importaciones(pila[k].ruta)[j].forma # "exportar_desde"
            /\ estados[Importaciones(pila[k].ruta)[j].ruta] = "listo"
EmitidosListos ==
  /\ \A r \in Rutas : estados[r] = "listo" => \E k \in 1 .. Len(dependencias) : dependencias[k].ruta = r
  /\ Importaciones(Entrada) # <<>> =>
       \A k \in 1 .. Len(dependencias) : estados[dependencias[k].ruta] = "listo"
OrdenInductivo ==
  /\ SinEmpezar /\ SinRecorrido /\ SinFallidos /\ LoPasadoEstaListo /\ EmitidosListos
  /\ OrdenDeDependencias

(* The resolver accepts the projects that deserve it and no others, however  *)
(* the errors of one module cascade over the modules read after it; an       *)
(* accepted program is the files reached, each of them once.                 *)
VeredictoCorrecto ==
  resultado # "pendiente" =>
    /\ resultado = "programa" <=> ProyectoValido(fuente)
    /\ resultado = "programa" =>
         {dependencias[k].ruta : k \in 1 .. Len(dependencias)} = Alcanzadas(fuente)

(* The pairs of the first k imports of file a that have alias n, each by the *)
(* positions of its import and of itself, and the last of some of them.      *)
Ligaduras(a, n, k) ==
  UNION {{<<h, j>> : j \in {l \in 1 .. Len(a.importa[h].pares) : a.importa[h].pares[l].alias = n}} :
         h \in {l \in 1 .. k : a.importa[l].forma # "espacio"}}
EsUltima(B, b) == b \in B /\ \A c \in B : c[1] < b[1] \/ (c[1] = b[1] /\ c[2] <= b[2])
Ultima(B) == CHOOSE b \in B : EsUltima(B, b)

(* The export that pair b of file a is bound to.                             *)
Ligado(p, a, b) ==
  LET i == a.importa[b[1]] IN TablaExportacion(p[i.ruta], i.ruta)[i.pares[b[2]].origen]

(* The file a reference of r means when r is read on its own: through a      *)
(* namespace, the file the namespace stands for; else the last import with   *)
(* that alias; else r itself when it declares the name.                      *)
Significado(p, r, u) ==
  LET a == p[r]
      esp == EspaciosHasta(a, Len(a.importa))
      raiz == Raiz(u)
      B == Ligaduras(a, raiz, Len(a.importa))
  IN  IF EsCalificado(u) /\ ~Tapado(u) /\ esp[u.espacio] # Nulo
      THEN TablaExportacion(p[esp[u.espacio]], esp[u.espacio])[u.nombre]
      ELSE IF Tapado(u) \/ u.forma = "tipo_calificado" THEN <<Libre, raiz>>
      ELSE IF B # {} THEN Ligado(p, a, Ultima(B))
      ELSE IF \E k \in 1 .. Len(a.declara) : a.declara[k].nombre = raiz
      THEN Manglar(r, raiz)
      ELSE <<Libre, raiz>>

(* Every reference of a linked module carries the name of the declaration it *)
(* meant in its own file, and that declaration is in the program already:    *)
(* nothing dangles, nothing is captured by another module.                   *)
ReferenciasResueltas ==
  \A k \in 1 .. Len(dependencias) :
    LET d == dependencias[k] IN
    /\ d.usa = {Significado(fuente, d.ruta, u) : u \in fuente[d.ruta].usa}
    /\ \A x \in d.usa :
         x[1] # Libre => \E j \in 1 .. k : x \in dependencias[j].declara

(* The table of a module that is done is final: namespaces keep pointers to  *)
(* it, and no module is read, entered or emitted a second time.              *)
MemoFinal ==
  [][\A r \in Rutas :
       /\ estados[r] \in {"fallido", "listo"}
            => estados'[r] = estados[r] /\ exportaciones'[r] = exportaciones[r]
       /\ estados[r] = "en_proceso" => estados'[r] # "ausente"]_vars

(* The resolver answers on every project, circular ones included.            *)
Termina == <>(resultado # "pendiente")

(* The walk implements the abstract linker.                                  *)
RutasEnlazadas == [k \in 1 .. Len(dependencias) |-> dependencias[k].ruta]
Abstracto == INSTANCE EnlaceAbstracto WITH
  proyecto <- fuente, enlazados <- RutasEnlazadas, veredicto <- resultado
ImplementaEnlace == Abstracto!ASpec
=============================================================================
