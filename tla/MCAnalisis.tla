----------------------------- MODULE MCAnalisis -----------------------------
(* Vocabularies: the pieces a text is made of and how many of them.         *)
EXTENDS AnalisisReferencia

Textos(W) == {Caracteres(w) : w \in W}
De(W, n)  == [piezas |-> Textos(W), largo |-> n]

(* Operators without and with brackets. *)
Operadores == De({"a ", "- ", "^ ", ".. ", "+ ", "* ", "< "}, 6)
Logicos    == De({"a ", "== ", "&& ", "|| ", "? ", ": "}, 9)
Agrupados  == De({"a ", "- ", "^ ", "? ", ": ", "( ", ") "}, 6)
(* Statements with blocks. *)
Ramas      == De({"si a ", "osi a ", "sino ", "fin ", "elegir a\n", "caso 1 : ", "otro : ",
                  "x = a\n"}, 5)
Ciclos     == De({"desde ( i = 1 ; i < 2 ; i ++ ) ", "para x en l ", "mientras a ", "repetir ",
                  "hasta a\n", "inseguro romper\n", "fin "}, 4)
Funciones  == De({"fun f ( a , b : numero , ... ) : dic<a> ", "ret ", "fun ( ... ) ",
                  "fin ", "a ", "( ", ") "}, 5)
(* Classes, structures and interfaces. *)
Clases     == De({"clase A ", "abstracto ", "extiende B<T> implementa I , J<T> \n",
                  "c : g.C = 1\n", "prot estatico ", "fun m ( a : T, ... ) ",
                  "sobreescribir ", "fin "}, 5)
Tipos      == De({"estructura E<T> ", "interfaz F ", "c : numero\n", "base ( a )\n", "priv ", "fun m<T> ( ) ",
                  "donde T : C + D ", "donde U : C ", "fin ", "\n"}, 4)
(* Modules, variables and foreign functions. *)
Modulos    == De({"importar ", "exportar ", "{ ", "a ", "como b ", ", ", "} desde 'm' ", "* ",
                  "desde 'm' "}, 6)
Variables  == De({"exportar ", "var ", "const ", "global ", "a ", "= 1 ", "incluir 'm' ",
                  "f ( ) ", "por ", "defecto ", "fun g ( ) fin "}, 4)
Externas1  == De({"externo enlazar 'l'\n", "externo ", "fun f ( ", "a : entero32 ", ", ", ") ",
                  ": nulo ", "\n", "fin "}, 5)
(* Generics and the split of '>='. *)
Genericos  == De({"x : ", "P", "<", ">", ">=", ", ", "::", " es "}, 6)
(* Lists, dictionaries, accesses. *)
Datos      == De({"x ", "[ ", "{ ", ": ", ", ", "] ", "} ", "\n", ". ",
                  "incluir ( 'm' ) ", "nuevo A<B> ( ) "}, 4)
(* Characters. *)
Comentarios == De({"/", "*", "#", "\n", "a"}, 5)
Numeros     == De({"1", ".", "a", "=", "!", ">"}, 4)
Cadenas     == De({"\"", "'", "\\", "a", "\n"}, 4)

MCVocabularios == <<Operadores, Logicos, Agrupados, Ramas, Ciclos, Funciones, Clases, Tipos,
                   Modulos, Variables, Externas1, Genericos, Datos, Comentarios, Numeros,
                   Cadenas>>
=============================================================================
