--------------------------- MODULE MCReescritura ---------------------------
(* Files with a variable `a`, a function `f`, a class and imports from one  *)
(* other file, in which the same few names come back as parameters, locals, *)
(* nested functions, aliases and namespaces.                                *)
EXTENDS Reescritura, TLC

N(s) == <<s>>
MCTablaAjena == [x \in {N("t"), N("C")} |-> <<"otro">> \o x]

V(op, x, e, ps, marcas) == [op |-> op, x |-> x, e |-> e, ps |-> ps, marcas |-> marcas]
Usa(op, x) == <<V(op, N(x), <<>>, <<>>, {})>>
De(op, e, x) == <<V(op, N(x), N(e), <<>>, {})>>
Lee(x) == Usa("lee", x)
Dice(x) == <<V("lee", N(x), <<>>, <<>>, {"sentencia"})>>
Asigna(x, marcas) == <<V("asigna", N(x), <<>>, <<N(x)>>, marcas)>>
Ambas(x, y, marcas) ==
  <<V("asigna", N(x), <<>>, <<N(x), N(y)>>, marcas), V("asigna", N(y), <<>>, <<N(x), N(y)>>, marcas)>>
Retornar(xs, marcas) == <<V("retornar", <<>>, <<>>, [k \in DOMAIN xs |-> N(xs[k])], marcas)>>

Bloque(abre, cuerpo) == <<abre>> \o cuerpo \o <<V("fin", <<>>, <<>>, <<>>, {})>>
Fn(x, ps, marcas, cuerpo) ==
  Bloque(V("funcion", N(x), <<>>, [k \in DOMAIN ps |-> N(ps[k])], marcas), cuerpo)
Anonima(ps, cuerpo) == Bloque(V("anonima", <<>>, <<>>, [k \in DOMAIN ps |-> N(ps[k])], {}), cuerpo)
Bucle(cuerpo) == Bloque(V("bucle", <<>>, <<>>, <<>>, {}), cuerpo)
Para(x, cuerpo) == Bloque(V("para", N(x), <<>>, <<>>, {}), cuerpo)
Seguro(cuerpo) == Bloque(V("inseguro", <<>>, <<>>, <<>>, {}), cuerpo)
Clase(marcas, tipo, cuerpo) ==
  <<V("clase", N("K"), <<>>, <<>>, marcas)>> \o tipo
    \o Bloque(V("metodo", N("K"), N("K"), <<N("a")>>, {"constructor"}), cuerpo)

Numerada(p) == [i \in DOMAIN p |-> p[i] @@ [id |-> i]]

-----------------------------------------------------------------------------
Declaraciones ==
  {<<>>, Asigna("a", {}), Asigna("a", {"exportar"}), Asigna("a", {"global", "exportar"}),
   Ambas("a", "d", {}), Fn("a", <<>>, {"exportar", "defecto"}, Lee("a"))}
Imports == {<<>>, De("importa", "t", "b"), De("importa", "z", "b"), Usa("espacio", "m"), Usa("incluye", "m")}

(* What the body of `f` is made of.                                         *)
Piezas ==
  {Lee("a"), Dice("b"), De("miembro", "m", "t"), De("miembro", "m", "z"), De("miembro", "a", "x"),
   Lee("m"), Asigna("a", {}), Asigna("b", {}) \o Bucle(Asigna("b", {"incremento"})), Asigna("m", {}),
   Bucle(Asigna("a", {})), Para("a", Lee("a")), Para("b", <<>>),
   Seguro(Asigna("a", {})), Seguro(Lee("a")), De("tipo_ns", "m", "C"), Usa("tipo", "K"),
   Anonima(<<>>, Lee("a")), Anonima(<<"a">>, Lee("a") \o Lee("b")),
   Anonima(<<>>, Asigna("a", {}) \o Lee("a")),
   Fn("a", <<>>, {}, Lee("b")), Fn("g", <<"a">>, {}, Lee("a") \o Dice("g"))}
Finales == {<<>>, Lee("a") \o Lee("f"), Para("a", Lee("a")), Bucle(Asigna("a", {}) \o Lee("a")),
            Clase({}, Usa("tipo", "K"), Lee("a") \o Usa("tipo", "K"))}
Retornos == {<<>>, Retornar(<<"a">>, {}), Retornar(<<"f", "a">>, {})}

Modulos ==
  {d \o i \o Fn("f", ps, {}, x \o y) \o r :
     d \in Declaraciones, i \in Imports, ps \in {<<>>, <<"a">>}, x \in Piezas, y \in {Lee("a"), Lee("m")},
     r \in {<<>>, Retornar(<<"f", "a">>, {})}}
  \cup {d \o i \o t \o Fn("f", <<>>, {}, x) \o r :
     d \in Declaraciones, i \in Imports, t \in Finales, x \in {Lee("a"), Asigna("a", {}), Usa("tipo", "K")},
     r \in Retornos \cup {Retornar(<<"z">>, {}), Retornar(<<"a">>, {"dispar"})}}

(* Functions in functions: `f` holds `g`, `g` holds `h`; `a` is a variable, *)
(* a parameter or one more of them.                                         *)
Hondas == {<<>>, Lee("g") \o Lee("h"), Asigna("g", {}) \o Lee("g"), Fn("a", <<>>, {}, Lee("a") \o Lee("g")),
           Fn("g", <<>>, {}, Dice("h")), Anonima(<<"h">>, Lee("h") \o Lee("g"))}
Anidamientos ==
  {d \o Fn("f", <<>>, {}, x \o Fn("g", ps, {}, Fn("h", <<>>, {}, y) \o z) \o Fn("a", <<>>, {}, w) \o u) \o r :
     d \in {<<>>, Asigna("a", {"exportar"})}, x \in {<<>>, Asigna("a", {}), Lee("g")}, ps \in {<<>>, <<"a">>},
     y \in Hondas, z \in {Lee("h"), Lee("a") \o Lee("f"), Asigna("h", {}) \o Dice("h")},
     w \in {Lee("g"), Lee("a")}, u \in {<<>>, Dice("g")}, r \in {<<>>, Retornar(<<"f">>, {})}}

MCProgramas == {Numerada(p) : p \in Modulos \cup Anidamientos}
=============================================================================
