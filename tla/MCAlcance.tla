------------------------------ MODULE MCAlcance ------------------------------
(* Something at the top level, a function, a method, a lambda, a loop or a  *)
(* lambda inside one of them, with a declaration and a use in it, and       *)
(* something after it.                                                      *)
EXTENDS Alcance

(* The pieces the programs are put together from.                          *)

MCNombres == {"x", "y", "K", "f", "g", "e", "escribir"}
MCMayusculas == {"K"}
MCIncorporadas == {"escribir"}

S(op, x, ps, n, marcas) == [op |-> op, x |-> x, ps |-> ps, n |-> n, marcas |-> marcas]
Lee(x) == <<S("lee", x, <<>>, 0, {})>>
Post(x) == <<S("post", x, <<>>, 0, {})>>
Llama(x, n) == <<S("llama", x, <<>>, n, {})>>
Asigna(x, marcas) == <<S("asigna", x, <<>>, 0, marcas)>>
Externa(x, n) == <<S("externa", x, <<>>, n, {})>>
Solo(op) == <<S(op, "", <<>>, 0, {})>>

Bloque(abre, cuerpo) == <<abre>> \o cuerpo \o Solo("fin")
Para(x, cuerpo) == Bloque(S("para", x, <<>>, 0, {}), cuerpo)
Bucle(cuerpo) == Bloque(S("bucle", "", <<>>, 0, {}), cuerpo)
Inseguro(cuerpo) == Bloque(S("inseguro", "", <<>>, 0, {}), cuerpo)
Funcion(x, ps, marcas, cuerpo) == Bloque(S("funcion", x, ps, 0, marcas), cuerpo)
Anonima(ps, marcas, cuerpo) == Bloque(S("anonima", "", ps, 0, marcas), cuerpo)
Metodo(ps, marcas, cuerpo) == Bloque(S("metodo", "", ps, 0, marcas), cuerpo)

-----------------------------------------------------------------------------
(* The instance.                                                            *)

Antes == {<<>>, Asigna("x", {}), Asigna("x", {"global"}), Asigna("x", {"const"}), Asigna("K", {}),
          Externa("e", 1), Funcion("f", <<"y">>, {}, Solo("retornar")),
          Funcion("f", <<>>, {"global", "variadico"}, <<>>)}

Declara == {<<>>, Asigna("x", {}), Asigna("K", {"const"}), Asigna("f", {}),
            Asigna("x", {"incremento"})}

Usa == {Lee("x"), Lee("f"), Lee("escribir"), Post("x"), Post("f"), Llama("f", 1), Llama("e", 1),
        Llama("x", 0), Llama("escribir", 2), Asigna("y", {"global"}), Asigna("K", {}), Para("x", Lee("x")),
        Para("K", Solo("romper")), Inseguro(Llama("e", 1)), Solo("romper"), Solo("retornar"),
        Solo("varargs"), Solo("este")}

Contenido(c) ==
  {Bucle(c), Inseguro(c), Funcion("g", <<>>, {}, c), Funcion("g", <<"x">>, {"variadico"}, c),
   Funcion("g", <<"f">>, {"inseguro"}, c), Anonima(<<>>, {}, c), Metodo(<<"K">>, {}, c),
   Metodo(<<"x">>, {"estatico"}, c),
   Funcion("g", <<"y">>, {"variadico"}, Asigna("x", {}) \o Bucle(Anonima(<<>>, {}, c))),
   Metodo(<<>>, {}, Anonima(<<"x">>, {"variadico"}, c))}

Despues == {Lee("x"), Asigna("K", {}), Funcion("f", <<"K">>, {}, Lee("K")), Funcion("e", <<"x", "x">>, {}, <<>>),
            Llama("e", 1), Metodo(<<>>, {}, Lee("x") \o Solo("varargs")), Solo("romper"), Solo("este"),
            Solo("retornar"), Asigna("x", {"global"}) \o Externa("e", 0)}

MCProgramas ==
  UNION {{a \o m : a \in Antes, m \in Contenido(d \o u)} : d \in Declara, u \in Usa}
  \cup UNION {{a \o m \o z : a \in Antes, m \in Contenido(d), z \in Despues} : d \in Declara}
=============================================================================
