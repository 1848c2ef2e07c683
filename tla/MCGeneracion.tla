---------------------------- MODULE MCGeneracion ----------------------------
(***************************************************************************)
(* Programs on which the two back ends are meant to agree: every statement *)
(* that moves control, nested in every loop, with conditions that call the *)
(* program; and two loops whose condition is a dynamic call, which only    *)
(* the LLVM back end compiles as they are written.  No condition of a      *)
(* repetir, of an osi, of a second case nor a branch of a ternary holds a  *)
(* dynamic call (the C compiler rejects the first and runs the others      *)
(* early), no constructor has arguments with effects, and no expression    *)
(* has two operands with effects.                                          *)
(***************************************************************************)
EXTENDS Generacion

(* The pieces the programs are put together from.                          *)

MC_Vars == {Celda("x"), Celda("i"), Celda("j")}
MC_Guiones == {<<a, b, c, d>> : a, b, c, d \in {0, 1}}

X == Identificador(Celda("x"))
I == Identificador(Celda("i"))
J == Identificador(Celda("j"))
P == Llamada("p", <<>>)
Q(e) == ExprSentencia(Llamada("q", <<e>>))
Toca == ExprSentencia(Llamada("toca", <<>>))
Pone(v, e) == Asignacion(<<EnVariable(Celda(v))>>, <<e>>)
Final == <<ExprSentencia(Llamada("fin", <<X, I, J>>))>>

\* Every sequence f(a, b) with a in as and b in bs.
Pares(as, bs, f(_, _)) ==
    FlattenSeq([k \in DOMAIN as |-> [m \in DOMAIN bs |-> f(as[k], bs[m])]])

-----------------------------------------------------------------------------
(* The instance.                                                            *)

Saltos == <<Romper, Retornar(X), Q(I), Toca>>
Colas == <<Q(X), Romper>>

\* What the body of a loop may be.
Decide(a, b) == <<Si(P, <<a>>, <<>>, <<b>>), Q(I)>>
Muerto(a, c) == <<Si(P, <<a, Q(X)>>, <<Rama(P, <<c>>)>>, <<>>), c>>
Elige(a, b) == <<Elegir(P, <<Rama(LitNumero(0), <<a>>), Rama(X, <<b, Toca>>)>>,
                        <<Pone("j", I)>>), Q(J)>>
Cuerpos == Pares(Saltos, Saltos, Decide) \o Pares(Saltos, Colas, Muerto)
           \o Pares(Saltos, <<Romper, Toca>>, Elige)

\* The loops, each with the visible end of the program after it.
Cuenta(b) == Desde(Pone("i", LitNumero(0)),
                   Binaria("menor", I, LitNumero(2)),
                   ExprSentencia(PostOperador(Celda("i"))), b)
Bucle(n, b) ==
    CASE n = 1 -> Mientras(P, b)
      [] n = 2 -> Cuenta(b)
      [] n = 3 -> Repetir(b, Binaria("igual", P, LitNumero(0)))
      [] n = 4 -> Para(Celda("j"), LitNumero(2), b)
EnBucle(n, b) == <<Bucle(n, b)>> \o Final
Anida(n, m) ==
    <<Bucle(n, <<Bucle(m, <<Si(P, <<Romper>>, <<>>, <<Q(X)>>)>>), Q(J),
                 InseguroBloque(<<Si(X, <<Romper>>, <<>>, <<Toca>>)>>)>>)>> \o Final
Bucles == Pares(<<1, 2, 3, 4>>, Cuerpos, EnBucle)
          \o Pares(<<1, 2, 3, 4>>, <<1, 2, 3, 4>>, Anida)

\* Statements without loops, one of each kind of expression.
D(e) == LlamadaDinamica("d", <<e>>)
Masuno == ExprSentencia(PostOperador(Celda("i")))
Rectos == <<
    <<Pone("i", D(P)), Q(Binaria("sumar", I, D(J)))>>,
    <<Asignacion(<<EnVariable(Celda("i")), EnVariable(Celda("j"))>>, <<LitNumero(1), P>>),
      Asignacion(<<EnVariable(Celda("i")), EnVariable(Celda("j"))>>, <<J, I>>),
      Asignacion(<<EnVariable(Celda("i")), EnVariable(Celda("j"))>>, <<J>>)>>,
    <<Pone("i", Ternaria(P, Llamada("q", <<J>>), PostOperador(Celda("x"))))>>,
    <<ExprSentencia(D(Ternaria(P, X, LitNumero(2)))), Toca,
      Pone("j", NuevoExpr(<<X, I>>, TRUE))>>,
    <<Asignacion(<<EnElemento(X, J)>>, <<P>>), Toca,
      LlamadaBase(<<X>>, TRUE), LlamadaBase(<<P>>, FALSE),
      Pone("i", NuevoExpr(<<P>>, FALSE))>>,
    <<Si(D(P), <<Q(I)>>, <<>>, <<Retornar(D(X))>>)>>,
    <<Elegir(D(P), <<Rama(D(X), <<Retornar(J)>>)>>, <<Toca>>)>>,
    <<Elegir(P, <<>>, <<Toca>>)>>,
    <<Cuenta(<<Pone("j", I)>>), Q(I)>>,
    <<Mientras(P, <<Toca, Romper>>)>>,
    <<Mientras(D(I), <<Masuno>>)>>,
    <<Desde(Pone("i", LitNumero(0)), D(I), Masuno, <<Q(J)>>)>> >>

MC_Programas == Bucles \o [k \in DOMAIN Rectos |-> Rectos[k] \o Final]
MC_Ordenes == {"izq", "der"}
=============================================================================
