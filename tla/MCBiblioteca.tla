---------------------------- MODULE MCBiblioteca ----------------------------
(***************************************************************************)
(* Every call of the libraries with small arguments: patterns of up to     *)
(* three items over texts of up to three characters, texts with blanks,    *)
(* repetitions and escapes, positions on both sides of both ends, templates*)
(* of up to three pieces, and ranges around the largest numbers of a       *)
(* double of four digits.                                                  *)
(***************************************************************************)
EXTENDS Biblioteca, TLC

Hasta(S, n) == UNION {[1 .. k -> S] : k \in 0 .. n}

Atomo(e, son) == [escrito |-> e, son |-> son]
Todos == T!Range(T!Ascii)
Sencillos == {Atomo(<<"a">>, {"a"}), Atomo(<<".">>, Todos)}
Atomos == Sencillos \cup
  { Atomo(<<"[", "a", "-", "b", "]">>, {"a", "b"}), Atomo(<<"[", "^", "a", "]">>, Todos \ {"a"}),
    Atomo(<<"\\", "d">>, T!Digitos), Atomo(<<"\\", ".">>, {"."}),
    Atomo(<<"[", "\\", "W", "b", "]">>, (Todos \ T!Palabra) \cup {"b"}) }
Items(as, qs) == [atomo : as, q : qs]
Patrones(is, n) == [items : Hasta(is, n), ancla : BOOLEAN, fin : BOOLEAN]
Regulares ==
  [patron : Patrones(Items(Atomos, {"", "*", "+", "?"}), 2), texto : Hasta({"a", "b"}, 2) \cup {<<"1", "a">>, <<"a", "1", ".">>}]
  \cup [patron : Patrones(Items(Sencillos, {"", "*", "+", "?"}), 3), texto : Hasta({"a", "b"}, 3)]

Piezas(S) == Hasta(S, 3)
Literal(e, d) == [es |-> "literal", escrito |-> e, dice |-> d, n |-> 0]
Huecos ==
  {Literal(<<"a">>, <<"a">>), Literal(<<"{", "{">>, <<"{">>), Literal(<<"}", "}">>, <<"}">>),
   Literal(<<"\\", "n">>, <<"\\", "n">>), [es |-> "auto", escrito |-> <<"{", "}">>, dice |-> <<>>, n |-> 0]}
  \cup {[es |-> "indice", escrito |-> <<"{", c, "}">>, dice |-> <<>>, n |-> T!Codigo[c] - T!Codigo["0"]] : c \in T!Digitos}

Nombre(e, n) == [es |-> "nombre", escrito |-> e, dice |-> n, n |-> 0]
Sustituibles ==
  {Literal(<<"-">>, <<"-">>), Literal(<<"$", "$">>, <<"$">>), Literal(<<"$", "-">>, <<"$", "-">>),
   Literal(<<"$", "{", "a", "-">>, <<"$", "{", "a", "-">>), Literal(<<"$", "{", "}">>, <<"$", "{", "}">>),
   Nombre(<<"$", "a">>, <<"a">>), Nombre(<<"$", "a", "1">>, <<"a", "1">>),
   Nombre(<<"$", "{", "a", "}">>, <<"a">>), Nombre(<<"$", "{", "1", "}">>, <<"1">>)}

Posiciones == {Nulo} \cup -2 .. 5
Palabreja == {"a", "B", " ", "VT"}
ConBarra == {"a", " ", "\\", "n"}

(* Bounds that a double of Precision digits has, past the point where not   *)
(* every whole number is one.                                               *)
Dobles == {x \in -6 .. 44 : Exacto(x)}
Pasos == {x \in -7 .. 7 : Exacto(x)}

MC_Ops == {"regex", "separar", "reemplazar", "cortar", "insertar", "rellenar", "palabras", "recortar",
           "formatear", "plantilla", "rango"}
MC_Casos == [o \in MC_Ops |->
  CASE o = "regex" -> Regulares
    [] o = "separar" -> [s : Hasta({"a", "b"}, 5), sub : Hasta({"a", "b"}, 3)]
    [] o = "reemplazar" ->
         [s : Hasta({"a", "b"}, 4), viejo : Hasta({"a", "b"}, 2), nuevo : Hasta({"a", "\\", "n"}, 2)]
    [] o = "cortar" -> [s : Hasta({"a", "b"}, 3), i : Posiciones, f : Posiciones]
    [] o = "insertar" -> [s : Hasta({"a", "b"}, 3), i : Posiciones, sub : Hasta({"a"}, 2)]
    [] o = "rellenar" -> [s : Hasta({"a"}, 3), n : Posiciones, c : Hasta({"b", "."}, 2)]
    [] o = "palabras" -> [s : Hasta(Palabreja, 5)]
    [] o = "recortar" -> [s : Hasta(ConBarra, 5)]
    [] o = "formatear" -> [piezas : Piezas(Huecos), valores : {<<>>, <<<<"b">>>>, <<<<"b">>, <<"n", "B">>>>}]
    [] o = "plantilla" ->
         [piezas : Piezas(Sustituibles), dic : {(<<"a">> :> <<"B">>), (<<"a">> :> <<"\\">> @@ <<"1">> :> <<"n">>)},
          seguro : BOOLEAN]
    [] o = "rango" ->
         Hasta(Rechazados \cup {3}, 2) \cup [1 .. 4 -> {1}]
         \cup {<<i, f, p>> : i \in Dobles, f \in Dobles, p \in Pasos}]
=============================================================================
