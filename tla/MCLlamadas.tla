---------------------------- MODULE MCLlamadas ----------------------------
(***************************************************************************)
(* Programs of one to three bodies around one call.                        *)
(*                                                                         *)
(* Valores_: a function of 0 to 2 parameters, variadic or not, or a lambda,*)
(* kept in a variable, a dictionary or a field and called with 0 to 3      *)
(* arguments; or called by its name.  Tempranas: a body uses another one   *)
(* as a value, both ways round.  Objetos: a class with its base, each with *)
(* or without constructor, methods, static methods and fields, made in     *)
(* main, in a function, in a lambda, in a method or as an argument.        *)
(* Homonimas, Genericas, Principales: the rest.  Functions do not call     *)
(* themselves, so no run is cut by MaxEntradas.                            *)
(* Left out: an operand that is a call beside another one that changes     *)
(* what it reads, and what is called being a call itself (the order of     *)
(* both is open, see Generacion); types that call themselves `wrapper`.    *)
(***************************************************************************)
EXTENDS Llamadas

f == <<"f">>  g == <<"g">>  x == <<"x">>  y == <<"y">>  m == <<"m">>  n == <<"n">>
s == <<"s">>  z == <<"z">>  A == <<"A">>  B == <<"B">>  a == <<"a">>  b == <<"b">>

Params(k)  == SubSeq(<<Param(a, ""), Param(b, "")>>, 1, k)
Nums(k)    == [i \in 1..k |-> Num(i)]
Funcion(nombre, k, v, sents) == Cuerpo(nombre, Params(k), v, {}, sents)
Anon(nombre, k, v, sents)    == Anonima(Cuerpo(nombre, Params(k), v, {}, sents))
(* What a body of k parameters does: nothing, gives one back, or the rest.  *)
Hace(k, v) == {<<>>} \cup (IF v THEN {<<Retorna(Resto)>>} ELSE {})
                     \cup (IF k > 0 THEN {<<Asigna(y, Id(a)), Retorna(Id(y))>>} ELSE {})
Legal(k, v) == IF v THEN k..3 ELSE {k}

Sueltas == {[k |-> k, v |-> v, h |-> h] : k \in 0..2, v \in BOOLEAN, h \in {<<>>}}
           \cup UNION {{[k |-> k, v |-> v, h |-> h] : h \in Hace(k, v)} : k \in 0..2, v \in BOOLEAN}

Valores_ ==
  UNION {LET fn == Funcion(f, c.k, c.v, c.h)
             lam == Anon(<<"l">>, c.k, c.v, c.h)
             llamar(e, j) == {<<Asigna(x, e), Expr(Llama(Id(x), Nums(j)))>>,
                              <<Asigna(x, Dic(m, e)), Expr(Llama(Miembro(Id(x), m), Nums(j)))>>}
         IN UNION {{Programa(<<fn>>, <<>>, ss) : ss \in llamar(Id(f), j)}
                   \cup {Programa(<<>>, <<>>, ss) : ss \in llamar(lam, j)} : j \in 0..3}
            \cup {Programa(<<fn>>, <<>>, <<Asigna(x, Llama(Id(f), Nums(j)))>>) : j \in Legal(c.k, c.v)}
         : c \in Sueltas}

Tempranas ==
  {LET fs == <<Funcion(f, 0, FALSE, <<Asigna(y, e)>>), Funcion(g, 1, FALSE, <<>>)>>
   IN Programa(IF vuelta THEN Reverse(fs) ELSE fs, <<>>, <<Expr(Llama(Id(f), <<>>))>>) :
     vuelta \in BOOLEAN,
     e \in {Id(g), Id(f), Llama(Id(g), <<Num(1)>>), Llama(Id(g), <<Id(g)>>), Dic(m, Id(g)),
            Anon(<<"l">>, 1, FALSE, <<Asigna(x, Id(g)), Expr(Llama(Id(x), <<Id(a)>>))>>)}}

-----------------------------------------------------------------------------
CtorA(k)  == Metodo(Funcion(A, k, FALSE, IF k = 0 THEN <<>> ELSE <<Pone(Este, x, Id(a))>>), {"ctor"})
CtorB(ss) == Metodo(Funcion(B, 1, FALSE, ss), {"ctor"})
De(nombre, k, marcas, ss) == Metodo(Funcion(nombre, k, FALSE, ss), marcas)
Clase(nombre, padre, campos, ms) == Tipo("clase", nombre, padre, campos, ms)

Padres == {Clase(A, <<>>, <<>>, ms) :
             ms \in {<<>>, <<De(m, 1, {}, <<Retorna(Este)>>)>>, <<CtorA(0)>>,
                     <<CtorA(1), De(m, 1, {}, <<Retorna(Id(a))>>)>>,
                     <<CtorA(1), De(m, 0, {}, <<>>), De(s, 0, {"estatico"}, <<>>)>>,
                     <<De(s, 2, {"estatico"}, <<Retorna(Id(b))>>)>>}}
Hijos(t) ==
  LET baseDe == IF CtorDe(t) = <<>> THEN <<>> ELSE Nums(Len(CtorDe(t)[1].ps))
  IN {Clase(B, A, <<>>, ms) :
        ms \in {<<>>, <<CtorB(<<Base(baseDe)>>)>>,
                <<CtorB(<<Pone(Este, x, Id(a)), Base(baseDe)>>), De(m, 1, {}, <<>>)>>,
                <<De(n, 0, {}, <<Expr(Llama(Miembro(Este, m), <<Num(2)>>))>>), De(m, 1, {}, <<>>)>>}}
ArgsDe(t) == IF CtorDe(t) = <<>> THEN <<>> ELSE Nums(Len(CtorDe(t)[1].ps))
Usos == {<<Expr(Llama(Miembro(Id(x), m), Nums(j)))>> : j \in 0..2}
        \cup {<<Expr(Llama(Miembro(Id(x), n), <<>>))>>,
              <<Asigna(x, Llama(Miembro(Id(B), s), Nums(2)))>>,
              <<Pone(Id(x), n, Anon(<<"l">>, 1, FALSE, <<>>)), Expr(Llama(Miembro(Id(x), n), <<Num(1)>>))>>}

Instancias ==
  UNION {UNION {LET nuevo == Nuevo(B, ArgsDe(hijo))
             ts == <<padre, hijo>>
         IN {Programa(<<>>, ts, <<Asigna(x, nuevo)>> \o uso) : uso \in Usos}
            \cup {Programa(<<Funcion(f, 0, FALSE, <<Retorna(nuevo)>>)>>, ts, <<Asigna(x, Llama(Id(f), <<>>))>>),
                  Programa(<<>>, ts, <<Asigna(y, Anon(<<"l">>, 0, FALSE, <<Retorna(nuevo)>>)),
                                       Asigna(x, Llama(Id(y), <<>>))>>)}
         : hijo \in Hijos(padre)} : padre \in Padres}

(* Made in a method of a class or a structure; fields; an argument that is  *)
(* a call.                                                                  *)
EnMetodo ==
  {Programa(<<>>, <<Clase(A, <<>>, <<>>, <<De(m, 0, {}, <<>>)>>),
                    Tipo(k, B, <<>>, <<>>, <<De(n, 0, marcas, <<Retorna(Nuevo(A, <<>>))>>)>>)>>,
            <<Asigna(x, Nuevo(B, <<>>)), Asigna(y, Llama(Miembro(Id(IF marcas = {} THEN x ELSE B), n), <<>>))>>) :
     k \in {"clase", "estructura"}, marcas \in {{}, {"estatico"}}}
ConCampos ==
  {Programa(<<Funcion(f, 0, FALSE, <<Asigna(y, Num(2)), Retorna(Nuevo(A, <<>>))>>)>>,
            <<Tipo(k, A, <<>>, <<Campo(m, e)>>, <<>>)>>,
            <<Asigna(y, Num(1)), Asigna(z, Num(1)), Asigna(x, IF dentro THEN Llama(Id(f), <<>>) ELSE Nuevo(A, <<>>))>>) :
     k \in {"clase", "estructura"}, e \in {Num(7), Id(y), Id(z)}, dentro \in BOOLEAN}
ConEfectos ==
  {Programa(<<Funcion(f, 1, FALSE, <<Retorna(Id(a))>>)>>, <<Clase(A, <<>>, <<>>, <<CtorA(1)>>)>> \o hijo,
            <<Asigna(x, e)>>) :
     hijo \in {<<>>, <<Clase(B, A, <<>>, <<CtorB(<<Base(<<Llama(Id(f), <<Id(a)>>)>>)>>)>>)>>},
     e \in {Nuevo(A, <<Llama(Id(f), <<Num(1)>>)>>), Llama(Id(f), <<Nuevo(A, <<Num(1)>>)>>)}}
  \cup {Programa(<<Funcion(f, 1, FALSE, <<Retorna(Id(a))>>)>>,
                 <<Clase(A, <<>>, <<>>, <<CtorA(1)>>),
                   Clase(B, A, <<>>, <<CtorB(<<Base(<<Llama(Id(f), <<Id(a)>>)>>)>>)>>)>>,
                 <<Asigna(x, Nuevo(B, <<Num(1)>>))>>)}

-----------------------------------------------------------------------------
Homonimas ==
  {Programa(<<Funcion(A \o m, 1, FALSE, <<>>)>>, <<Clase(A, <<>>, <<>>, <<De(m, 1, c.marcas, <<>>)>>)>>,
            <<Asigna(x, Nuevo(A, <<>>)), Expr(Llama(Miembro(Id(c.de), m), <<Num(1)>>))>>) :
     c \in {[marcas |-> {}, de |-> x], [marcas |-> {"estatico"}, de |-> A]}}
  \cup
  {Programa(<<Funcion(<<"modulo">> \o f, 0, FALSE, <<>>), Funcion(f, 0, FALSE, <<>>)>>, <<>>,
            <<Asigna(x, Id(f)), Expr(Llama(Id(x), <<>>))>>),
   Programa(<<Funcion(<<"anon", "0">>, 0, FALSE, <<>>)>>, <<>>,
            <<Asigna(x, Anon(<<"l">>, 0, FALSE, <<>>)), Expr(Llama(Id(x), <<>>)),
              Expr(Llama(Id(<<"anon", "0">>), <<>>))>>),
   Programa(<<>>, <<Clase(A, <<>>, <<>>, <<De(m \o n, 0, {}, <<>>)>>),
                    Clase(A \o m, <<>>, <<>>, <<De(n, 0, {}, <<>>)>>)>>,
            <<Asigna(x, Nuevo(A, <<>>)), Expr(Llama(Miembro(Id(x), m \o n), <<>>))>>)}

(* T is a generic of f, seen from the lambda in it.                         *)
Genericas ==
  {Programa(<<Cuerpo(f, <<Param(a, tipo)>>, FALSE, {"T"},
                     <<Asigna(y, Anonima(Cuerpo(<<"l">>, <<Param(b, otro)>>, FALSE, {"T"}, <<>>))),
                       Retorna(Llama(Id(y), <<arg>>))>>)>>,
            <<Clase(A, <<>>, <<>>, <<CtorA(0)>>)>>,
            <<Asigna(x, Nuevo(A, <<>>)), Expr(Llama(Id(f), <<arg2>>))>>) :
     tipo \in {"", "numero", "T"}, otro \in {"", "numero", "T"}, arg \in {Num(1), Id(a)},
     arg2 \in {Num(2), Id(x)}}

Principales ==
  {Programa(<<Funcion(<<p>>, k, v, <<>>)>> \o otra, <<>>, <<Asigna(x, Num(1))>>) :
     p \in {"principal", "inicio"}, k \in 0..2, v \in BOOLEAN,
     otra \in {<<>>, <<Funcion(<<"inicio">>, 0, FALSE, <<>>)>>}}
SinRepetir(ps) == {p \in ps : \A i, j \in DOMAIN p.funcs : p.funcs[i].nombre = p.funcs[j].nombre => i = j}

MCProgramas ==
  Valores_ \cup Tempranas \cup Instancias \cup EnMetodo \cup ConCampos \cup ConEfectos
  \cup Homonimas \cup Genericas \cup SinRepetir(Principales)

=============================================================================
