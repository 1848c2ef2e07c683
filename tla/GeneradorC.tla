----------------------------- MODULE GeneradorC -----------------------------
(***************************************************************************)
(* The C back end (src/compiler.cpp).  genExpr returns the text of a C     *)
(* expression, and while it builds that text it may also write statements  *)
(* to the output: the temporaries of a dynamic call, of rango, of a static *)
(* method or of `nuevo` are emitted where the output stands at that        *)
(* moment, which is before the statement the expression belongs to.  That  *)
(* is the whole point of this module: k is the generator, k.sal the output *)
(* written so far in the current C block, k.n the counter of temporaries   *)
(* and k.h the order in which the compiler that built latino evaluates the *)
(* two genExpr of `genExpr(a) + ", " + genExpr(b)`.                        *)
(***************************************************************************)
EXTENDS Maquina

(***************************************************************************)
(* The C that is written: expressions ...                                  *)
(***************************************************************************)
CLit(v) == [k |-> "lit", v |-> v]
CVar(x) == [k |-> "var", n |-> x]
CTemp(t) == [k |-> "temp", n |-> t]
CLlama(f, as) == [k |-> "llama", f |-> f, as |-> as]
CLlamaCon(t, f, as) == [k |-> "arreglo", t |-> t, f |-> f, as |-> as]
COpera(op, as) == [k |-> "opera", op |-> op, as |-> as]
CAsigna(x, e) == [k |-> "asigna", n |-> x, e |-> e]
CSegun(c, a, b) == [k |-> "segun", c |-> c, a |-> a, b |-> b]

(***************************************************************************)
(* ... and statements.  CPon is both `LatValor t = e;` and `t[i] = e;`: a  *)
(* name is in scope from there to the end of the C block.  CDeclara is     *)
(* `LatValor t[n];`, the array the elements t[i] live in.                  *)
(***************************************************************************)
CPon(t, e) == [k |-> "pon", n |-> t, e |-> e]
CDeclara(t) == [k |-> "declara", n |-> t]
CExpr(e) == [k |-> "expr", e |-> e]
CIf(ramas, sino) == [k |-> "if", ramas |-> ramas, sino |-> sino]
CWhile(c, b) == [k |-> "while", c |-> c, b |-> b]
CDoWhileNot(b, c) == [k |-> "do", c |-> c, b |-> b]
CBreak == [k |-> "break"]
CReturn(e) == [k |-> "return", e |-> e]
CBloque(b) == [k |-> "bloque", b |-> b]

Generador(h) == [sal |-> <<>>, n |-> 0, h |-> h]
Emitir(k, s) == [k EXCEPT !.sal = Append(@, s)]
SalidaNueva(k) == [k EXCEPT !.sal = <<>>]
ConSalida(k, s) == [k EXCEPT !.sal = s]
NuevoTemp(k) == [k EXCEPT !.n = @ + 1]
Temp(k) == <<"t", k.n, 0>>
Reservado(k) == Emitir(NuevoTemp(k), CDeclara(Temp(k)))
Casilla(t, i) == <<t[1], t[2], i>>

Exacto(k, x) == [k |-> k, x |-> x]
Casillas(t, as) == [i \in DOMAIN as |-> CTemp(Casilla(t, i))]

RECURSIVE GenExpr(_, _), GenTodas(_, _), GenArreglo(_, _, _, _)

\* The texts of several expressions, written one after the other.
GenTodas(es, k) ==
    IF es = <<>> THEN [k |-> k, xs |-> <<>>]
    ELSE LET p == GenExpr(Head(es), k)
             r == GenTodas(Tail(es), p.k)
         IN  [k |-> r.k, xs |-> <<p.x>> \o r.xs]

\* The texts of the operands of one C++ expression, in the order of the host.
GenJuntas(es, k) ==
    IF k.h = "izq" THEN GenTodas(es, k)
    ELSE LET r == GenTodas(Reverse(es), k)
         IN  [k |-> r.k, xs |-> Reverse(r.xs)]

\* `LatValor t[n]; t[0] = ...; t[1] = ...;`, the arguments of a call by array.
GenArreglo(t, es, i, k) ==
    IF i > Len(es) THEN k
    ELSE LET p == GenExpr(es[i], k)
         IN  GenArreglo(t, es, i + 1, Emitir(p.k, CPon(Casilla(t, i), p.x)))

\* The constructor: its arguments go to an array and, again, to the call.
GenConstructor(nombre, as, ctor, k) ==
    LET t == Temp(k)
        k1 == GenArreglo(t, as, 1, Reservado(k))
        r == GenTodas(as, k1)
    IN  IF ctor THEN Emitir(r.k, CExpr(CLlama(nombre, r.xs))) ELSE k1

GenExpr(e, k) ==
    CASE e.t = "LitNumero" -> Exacto(k, CLit(e.v))
      [] e.t = "Identificador" -> Exacto(k, CVar(e.n))
      [] e.t = "Binaria" ->
            LET r == GenJuntas(e.as, k) IN Exacto(r.k, COpera(e.op, r.xs))
      [] e.t = "PostOperador" ->
            Exacto(k, CAsigna(e.n, COpera("sumar", <<CVar(e.n), CLit(1)>>)))
      [] e.t = "Ternaria" ->
            LET r == GenJuntas(<<e.c, e.a, e.b>>, k)
            IN  Exacto(r.k, CSegun(r.xs[1], r.xs[2], r.xs[3]))
      [] e.t = "Llamada" ->
            LET r == GenTodas(e.as, k) IN Exacto(r.k, CLlama(e.f, r.xs))
      [] e.t = "LlamadaDinamica" ->
            Exacto(GenArreglo(Temp(k), e.as, 1, Reservado(k)),
                   CLlamaCon(Temp(k), e.f, Casillas(Temp(k), e.as)))
      [] e.t = "NuevoExpr" ->
            LET k1 == Emitir(NuevoTemp(k), CPon(Temp(k), COpera("objeto", <<>>)))
            IN  Exacto(IF e.ctor THEN GenConstructor("nuevo", e.as, TRUE, k1)
                       ELSE k1,
                       CTemp(Temp(k)))

\* An assignment: the value's text, then the destination's.
GenAsignacionDestino(d, x, k) ==
    IF d.oi = <<>> THEN Emitir(k, CExpr(CAsigna(d.n, x)))
    ELSE LET r == GenJuntas(d.oi, k)
         IN  Emitir(r.k, CExpr(CLlama("asignar_indice", Append(r.xs, x))))

\* Mutant: the values of a, b = b, a are used where they stand.
GenSinTemporales(vs, k) ==
    FoldLeft(LAMBDA r, v : LET p == GenExpr(v, r.k)
                           IN  [k |-> p.k, xs |-> Append(r.xs, p.x)],
             [k |-> k, xs |-> <<>>], vs)

\* Several values: all of them to temporaries, then to the destinations.
GenTemporales(vs, k) ==
    FoldLeft(LAMBDA r, v : LET p == GenExpr(v, r.k)
                           IN  [k |-> Emitir(NuevoTemp(p.k), CPon(Temp(r.k), p.x)),
                                xs |-> Append(r.xs, CTemp(Temp(r.k)))],
             [k |-> k, xs |-> <<>>], vs)

GenAsignacion(s, k) ==
    IF Len(s.ds) = 1 /\ Len(s.vs) = 1
    THEN LET p == GenExpr(s.vs[1], k)
         IN  GenAsignacionDestino(s.ds[1], p.x, p.k)
    ELSE LET r == GenTemporales(s.vs, k)
         IN  FoldLeft(LAMBDA k1, i :
                        GenAsignacionDestino(s.ds[i],
                            IF i <= Len(r.xs) THEN r.xs[i] ELSE CLit(0), k1),
                      r.k, [i \in DOMAIN s.ds |-> i])

RECURSIVE GenSentencia(_, _), GenBloque(_, _)

GenBloque(ss, k) ==
    IF ss = <<>> THEN k ELSE GenBloque(Tail(ss), GenSentencia(Head(ss), k))

(***************************************************************************)
(* if (c1) { b1 } else if (c2) { b2 } ... else { sino }.  The text of c2   *)
(* is asked for after b1 has been written and before its brace is closed:  *)
(* what c2 emits ends up inside the block of b1.  sw is the temporary that *)
(* `elegir` compares each case with, or <<>> for a `si`.                   *)
(***************************************************************************)
Condicion(sw, x) == IF sw = <<>> THEN x ELSE COpera("igual", <<CTemp(sw), x>>)

GenCadena(sw, ramas, sino, k) ==
    LET p == GenExpr(ramas[1].c, k)
        primera == [k |-> GenBloque(ramas[1].b, SalidaNueva(p.k)),
                    hechas |-> <<>>, c |-> Condicion(sw, p.x)]
        otra(r, rama) ==
            LET q == GenExpr(rama.c, r.k)
            IN  [k |-> GenBloque(rama.b, SalidaNueva(q.k)),
                 hechas |-> Append(r.hechas, Rama(r.c, q.k.sal)),
                 c |-> Condicion(sw, q.x)]
        r == FoldLeft(otra, primera, Tail(ramas))
        fin == GenBloque(sino, SalidaNueva(r.k))
    IN  ConSalida(fin, Append(p.k.sal,
                              CIf(Append(r.hechas, Rama(r.c, r.k.sal)), fin.sal)))

GenElegir(s, k) ==
    LET p == GenExpr(s.e, NuevoTemp(k))
        k1 == Emitir(p.k, CPon(Temp(k), p.x))
        def == GenBloque(s.sino, SalidaNueva(k1))
    IN  IF s.ramas # <<>> THEN GenCadena(Temp(k), s.ramas, s.sino, k1)
        ELSE ConSalida(def, Append(k1.sal, CBloque(def.sal)))

\* The condition's own statements go before the `while`, out of the loop.
GenMientras(s, k) ==
    LET p == GenExpr(s.c, k)
        b == GenBloque(s.b, SalidaNueva(p.k))
    IN  ConSalida(b, Append(p.k.sal, CWhile(p.x, b.sal)))

GenDesde(s, k) ==
    LET p == GenExpr(s.c, GenSentencia(s.ini, k))
        b == GenSentencia(s.inc, GenBloque(s.b, SalidaNueva(p.k)))
    IN  ConSalida(b, Append(p.k.sal, CWhile(p.x, b.sal)))

GenPara(s, k) ==
    LET rango == Temp(k)
        actual == Temp(NuevoTemp(k))
        p == GenExpr(s.e, NuevoTemp(NuevoTemp(k)))
        k1 == Emitir(Emitir(p.k, CPon(rango, p.x)),
                     CPon(actual, COpera("rango_inicio", <<CTemp(rango)>>)))
        ra == <<CTemp(rango), CTemp(actual)>>
        b == GenBloque(s.b, Emitir(SalidaNueva(k1),
                                   CExpr(CAsigna(s.n, CTemp(actual)))))
        cuerpo == Append(b.sal, CPon(actual, COpera("rango_siguiente", ra)))
    IN  ConSalida(b, Append(k1.sal, CWhile(COpera("rango_contiene", ra), cuerpo)))

\* ... and here inside the braces that the condition stands outside of.
GenRepetir(s, k) ==
    LET b == GenBloque(s.b, SalidaNueva(k))
        p == GenExpr(s.c, b)
    IN  ConSalida(p.k, Append(k.sal, CDoWhileNot(p.k.sal, p.x)))

GenSentencia(s, k) ==
    CASE s.t = "Asignacion" -> GenAsignacion(s, k)
      [] s.t = "ExprSentencia" ->
            LET p == GenExpr(s.e, k) IN Emitir(p.k, CExpr(p.x))
      [] s.t = "Si" -> GenCadena(<<>>, s.ramas, s.sino, k)
      [] s.t = "Elegir" -> GenElegir(s, k)
      [] s.t = "Desde" -> GenDesde(s, k)
      [] s.t = "Para" -> GenPara(s, k)
      [] s.t = "Mientras" -> GenMientras(s, k)
      [] s.t = "Repetir" -> GenRepetir(s, k)
      [] s.t = "Romper" -> Emitir(k, CBreak)
      [] s.t = "Retornar" ->
            LET p == GenExpr(s.e, k) IN Emitir(p.k, CReturn(p.x))
      [] s.t = "InseguroBloque" -> GenBloque(s.b, k)
      [] s.t = "LlamadaBase" -> GenConstructor("base", s.as, s.ctor, k)

\* The C body of the function, with the implicit return at its end.
GenFuncion(cuerpo, h) ==
    Emitir(GenBloque(cuerpo, Generador(h)), CReturn(CLit(0))).sal

-----------------------------------------------------------------------------
(***************************************************************************)
(* The C compiler the C back end relies on (invocador_c.cpp runs gcc,      *)
(* clang or MSVC), as far as the emitted C depends on it: a name must be   *)
(* declared in a block that is still open, `break` leaves the nearest      *)
(* loop, the operands of ?: are evaluated only when chosen, a variable is  *)
(* read when its operand is evaluated, and the order in which the          *)
(* arguments of a call are evaluated is the compiler's own (orden).        *)
(***************************************************************************)

RECURSIVE CompExpr(_, _, _), CompResto(_, _, _)

Anade(cs, p) == [g |-> p.g, cs |-> Append(cs, p.c)]
CompResto(xs, orden, r) ==
    IF xs = <<>> THEN r
    ELSE CompResto(Tail(xs), orden, Anade(r.cs, CompExpr(Head(xs), orden, r.g)))
CompTodas(xs, orden, g) == CompResto(xs, orden, [g |-> g, cs |-> <<>>])

CompArgs(xs, orden, g) ==
    IF orden = "izq" THEN CompTodas(xs, orden, g)
    ELSE LET r == CompTodas(Reverse(xs), orden, g)
         IN  [g |-> r.g, cs |-> Reverse(r.cs)]

EnAmbito(g, t) == [g EXCEPT !.ok = @ /\ t \in g.amb]
Declarada(g, t) == [g EXCEPT !.amb = @ \cup {t}]

\* The value of a new cell, given by one instruction.
Da(g, Instr(_)) == [g |-> Emite(Nueva(g).g, Instr(Nueva(g).c)), c |-> Nueva(g).c]

CompBrazo(p, c, fin) == Emite(Emite(p.g, Copia(c, p.c)), Br(fin))
CompBrazos(x, orden, cond, h) ==
    LET n == Len(h.g.bl)
        g1 == Emite(AbreN(h.g, 3), CondBr(cond, n + 1, n + 2))
        g2 == CompBrazo(CompExpr(x.a, orden, En(g1, n + 1)), h.c, n + 3)
        g3 == CompBrazo(CompExpr(x.b, orden, En(g2, n + 2)), h.c, n + 3)
    IN  [g |-> En(g3, n + 3), c |-> h.c]
CompSegun(x, orden, g) ==
    LET p == CompExpr(x.c, orden, g) IN CompBrazos(x, orden, p.c, Nueva(p.g))

CompExpr(x, orden, g) ==
    CASE x.k = "lit" -> Da(g, LAMBDA c : Lit(c, x.v))
      [] x.k = "var" -> Da(g, LAMBDA c : Copia(c, x.n))
      [] x.k = "temp" -> Da(EnAmbito(g, x.n), LAMBDA c : Copia(c, x.n))
      [] x.k = "llama" ->
            LET r == CompArgs(x.as, orden, g)
            IN  Da(r.g, LAMBDA c : Llama(c, x.f, r.cs))
      [] x.k = "arreglo" ->
            LET r == CompArgs(x.as, orden, EnAmbito(g, x.t))
            IN  Da(r.g, LAMBDA c : Llama(c, x.f, r.cs))
      [] x.k = "opera" ->
            LET r == CompArgs(x.as, orden, g)
            IN  Da(r.g, LAMBDA c : Opera(c, x.op, r.cs))
      [] x.k = "asigna" ->
            LET p == CompExpr(x.e, orden, g)
            IN  [g |-> Emite(p.g, Copia(x.n, p.c)), c |-> p.c]
      [] x.k = "segun" -> CompSegun(x, orden, g)

RECURSIVE CompSent(_, _, _), CompLista(_, _, _), CompRamas(_, _, _, _, _)

\* What follows a jump is compiled too, into a block nobody reaches.
Sigue(g) == IF BloqueTerminado(g) THEN En(Abre(g), Len(g.bl) + 1) ELSE g

CompLista(ss, orden, g) ==
    IF ss = <<>> THEN g
    ELSE CompLista(Tail(ss), orden, CompSent(Head(ss), orden, Sigue(g)))

CompBloque(ss, orden, g) ==
    [CompLista(ss, orden, g) EXCEPT !.amb = g.amb]

Cierra(g, b) == IF BloqueTerminado(g) THEN g ELSE Emite(g, Br(b))

CompRama(p, b, fin, orden) ==
    LET n == Len(p.g.bl)
        g == Emite(AbreN(p.g, 2), CondBr(p.c, n + 1, n + 2))
    IN  En(Cierra(CompBloque(b, orden, En(g, n + 1)), fin), n + 2)
CompRamas(ramas, sino, fin, orden, g) ==
    IF ramas = <<>> THEN Cierra(CompBloque(sino, orden, g), fin)
    ELSE CompRamas(Tail(ramas), sino, fin, orden,
                   CompRama(CompExpr(ramas[1].c, orden, g), ramas[1].b, fin, orden))

CompCuerpo(b, salida, orden, g) ==
    [CompBloque(b, orden, [g EXCEPT !.pila = Append(@, salida)])
        EXCEPT !.pila = g.pila]

\* A loop: blocks n+1 (condition), n+2 (body), n+3 (exit).
CompBucle(s, primero, orden, g) ==
    LET n == Len(g.bl)
        sale == s.k = "do"
        p == CompExpr(s.c, orden, En(Emite(AbreN(g, 3), Br(primero)), n + 1))
        g2 == Emite(p.g, IF sale THEN CondBr(p.c, n + 3, n + 2)
                         ELSE CondBr(p.c, n + 2, n + 3))
        g3 == Cierra(CompCuerpo(s.b, n + 3, orden, En(g2, n + 2)), n + 1)
    IN  En(g3, n + 3)

CompSent(s, orden, g) ==
    CASE s.k = "pon" ->
            LET p == CompExpr(s.e, orden, g)
            IN  Declarada(Emite(p.g, Copia(s.n, p.c)), s.n)
      [] s.k = "declara" -> Declarada(g, s.n)
      [] s.k = "expr" -> CompExpr(s.e, orden, g).g
      [] s.k = "if" ->
            LET n == Len(g.bl)
            IN  En(CompRamas(s.ramas, s.sino, n + 1, orden, Abre(g)), n + 1)
      [] s.k = "while" -> CompBucle(s, Len(g.bl) + 1, orden, g)
      [] s.k = "do" -> CompBucle(s, Len(g.bl) + 2, orden, g)
      [] s.k = "break" ->
            IF g.pila = <<>> THEN [g EXCEPT !.ok = FALSE]
            ELSE Emite(g, Br(Last(g.pila)))
      [] s.k = "return" ->
            LET p == CompExpr(s.e, orden, g)
            IN  Emite(Emite(p.g, Copia(Ret, p.c)), RetVoid)
      [] s.k = "bloque" -> CompBloque(s.b, orden, g)

\* The object code of a C function; ok says whether the compiler takes it.
Compilar(c, orden) ==
    LET g == CompBloque(c, orden, Constructor)
    IN  [bl |-> g.bl, ok |-> g.ok]
=============================================================================
