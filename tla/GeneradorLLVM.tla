---------------------------- MODULE GeneradorLLVM ----------------------------
(***************************************************************************)
(* The LLVM back end (src/compiler_llvm.cpp).  genExpr writes the          *)
(* instructions of an expression where the builder stands and returns the  *)
(* cell (an alloca) that holds the value; for a variable that is the cell  *)
(* of the variable itself, which whoever asked will read later.  Control   *)
(* flow is made of real blocks, so nothing is written out of its place;    *)
(* but every alloca is written where the builder stands too.               *)
(***************************************************************************)
EXTENDS Maquina

\* builder.CreateAlloca(tipoLatValor, n): a new cell, n LatValor of stack.
CreateAlloca(g, n) == [g |-> Emite(Nueva(g).g, Reserva(n)), c |-> Nueva(g).c]

\* A value in a cell of its own.
EnCelda(g, Instr(_)) ==
    [g |-> Emite(CreateAlloca(g, 1).g, Instr(Nueva(g).c)), c |-> Nueva(g).c]

RECURSIVE GenExpr(_, _), GenResto(_, _), GenEnArreglo(_, _, _, _)

\* The cells of several expressions, from left to right.
Anade(cs, p) == [g |-> p.g, cs |-> Append(cs, p.c)]
GenResto(es, r) ==
    IF es = <<>> THEN r
    ELSE GenResto(Tail(es), Anade(r.cs, GenExpr(Head(es), r.g)))
GenTodas(es, g) == GenResto(es, [g |-> g, cs |-> <<>>])

\* empaquetarLatValores: an array of copies, made when all are evaluated.
Casilla(a, i) == <<"slot", a[2], i>>
Casillas(a, as) == [i \in DOMAIN as |-> Casilla(a, i)]
CopiaEn(a, cs) ==
    FoldLeft(LAMBDA g, i : Emite(g, Copia(Casilla(a.c, i), cs[i])), a.g,
             [i \in DOMAIN cs |-> i])
EnArreglo(a, cs) == [g |-> CopiaEn(a, cs), cs |-> Casillas(a.c, cs)]
Empaquetar(r) ==
    EnArreglo(CreateAlloca(r.g, IF r.cs = <<>> THEN 1 ELSE Len(r.cs)), r.cs)

\* A value computed from the cells r.cs.
EnCeldaLlama(r, f) == EnCelda(r.g, LAMBDA c : Llama(c, f, r.cs))
EnCeldaOpera(r, op) == EnCelda(r.g, LAMBDA c : Opera(c, op, r.cs))

\* c ? a : b, the blocks n+1 (a), n+2 (b) and n+3; both leave their value in h.
GenBrazo(p, c, fin) == Emite(Emite(p.g, Copia(c, p.c)), Br(fin))
GenBrazos(e, cond, h) ==
    LET n == Len(h.g.bl)
        g1 == Emite(AbreN(h.g, 3), CondBr(cond, n + 1, n + 2))
        g2 == GenBrazo(GenExpr(e.a, En(g1, n + 1)), h.c, n + 3)
        g3 == GenBrazo(GenExpr(e.b, En(g2, n + 2)), h.c, n + 3)
    IN  [g |-> En(g3, n + 3), c |-> h.c]
GenTernaria(e, g) ==
    LET p == GenExpr(e.c, g) IN GenBrazos(e, p.c, CreateAlloca(p.g, 1))

\* x++: the sum goes to a temporary and from there to the variable's cell,
\* which is the value of the expression.
GenPostOperador(e, g) ==
    LET uno == EnCelda(g, LAMBDA c : Lit(c, 1))
        suma == EnCeldaOpera([g |-> uno.g, cs |-> <<e.n, uno.c>>], "sumar")
    IN  [g |-> Emite(suma.g, Copia(e.n, suma.c)), c |-> e.n]

\* A constructor: an array with the object and, each copied as soon as it is
\* evaluated, the arguments; then the call.
GenCasilla(a, i, p) == Emite(p.g, Copia(Casilla(a, i), p.c))
GenEnArreglo(a, es, i, g) ==
    IF i > Len(es) THEN g
    ELSE GenEnArreglo(a, es, i + 1, GenCasilla(a, i, GenExpr(es[i], g)))

GenConArreglo(nombre, as, ctor, a) ==
    LET g == GenEnArreglo(a.c, as, 1, a.g)
    IN  IF ctor THEN EnCeldaLlama([g |-> g, cs |-> Casillas(a.c, as)], nombre).g ELSE g
GenConstructor(nombre, as, ctor, g) ==
    GenConArreglo(nombre, as, ctor, CreateAlloca(g, Len(as) + 1))

GenNuevo(e, o) ==
    [g |-> IF e.ctor THEN GenConstructor("nuevo", e.as, TRUE, o.g) ELSE o.g,
     c |-> o.c]

GenExpr(e, g) ==
    CASE e.t = "LitNumero" -> EnCelda(g, LAMBDA c : Lit(c, e.v))
      [] e.t = "Identificador" -> [g |-> g, c |-> e.n]
      [] e.t = "Binaria" -> EnCeldaOpera(GenTodas(e.as, g), e.op)
      [] e.t = "PostOperador" -> GenPostOperador(e, g)
      [] e.t = "Ternaria" -> GenTernaria(e, g)
      [] e.t = "Llamada" -> EnCeldaLlama(GenTodas(e.as, g), e.f)
      [] e.t = "LlamadaDinamica" -> EnCeldaLlama(Empaquetar(GenTodas(e.as, g)), e.f)
      [] e.t = "NuevoExpr" -> GenNuevo(e, EnCeldaOpera([g |-> g, cs |-> <<>>], "objeto"))

GenElemento(r, valor) ==
    LET h == Nueva(r.g)
    IN  Emite(h.g, Llama(h.c, "asignar_indice", Append(r.cs, valor)))
GenAsignacionDestino(d, p) ==
    IF d.oi = <<>> THEN Emite(p.g, Copia(d.n, p.c))
    ELSE GenElemento(GenTodas(d.oi, p.g), p.c)

RECURSIVE GenTemporales(_, _), GenDestinos(_, _, _)

\* Every value to a temporary before any destination is written.
EnTemporal(p) == EnCelda(p.g, LAMBDA c : Copia(c, p.c))
GenTemporales(vs, r) ==
    IF vs = <<>> THEN r
    ELSE GenTemporales(Tail(vs), Anade(r.cs, EnTemporal(GenExpr(Head(vs), r.g))))

\* A destination without a value gets nulo.
ValorPara(cs, g) ==
    IF cs # <<>> THEN [g |-> g, c |-> Head(cs)] ELSE EnCelda(g, LAMBDA c : Lit(c, 0))
LosDemas(cs) == IF cs = <<>> THEN cs ELSE Tail(cs)
GenDestinos(ds, cs, g) ==
    IF ds = <<>> THEN g
    ELSE GenDestinos(Tail(ds), LosDemas(cs), GenAsignacionDestino(Head(ds), ValorPara(cs, g)))
GenVarias(ds, r) == GenDestinos(ds, r.cs, r.g)

GenAsignacion(s, g) ==
    IF Len(s.ds) = 1 /\ Len(s.vs) = 1
    THEN GenAsignacionDestino(s.ds[1], GenExpr(s.vs[1], g))
    ELSE GenVarias(s.ds, GenTemporales(s.vs, [g |-> g, cs |-> <<>>]))

RECURSIVE GenSentencia(_, _), GenBloque(_, _), GenRamas(_, _, _, _, _)

\* Mutant: what follows romper is written after it.
GenBloqueSinMirar(ss, g) ==
    IF ss = <<>> THEN g ELSE GenBloque(Tail(ss), GenSentencia(Head(ss), g))

\* A block that already ended (romper, retornar) takes nothing more.
GenBloque(ss, g) ==
    IF ss = <<>> \/ BloqueTerminado(g) THEN g
    ELSE GenBloque(Tail(ss), GenSentencia(Head(ss), g))

Cierra(g, b) == IF BloqueTerminado(g) THEN g ELSE Emite(g, Br(b))

\* Mutant: the exit is not pushed.
GenCuerpoSinSalida(b, salida, g) == GenBloque(b, g)
\* The body of a loop: romper jumps to the top of pilaSalidasBucle_.
GenCuerpo(b, salida, g) ==
    [GenBloque(b, [g EXCEPT !.pila = Append(@, salida)]) EXCEPT !.pila = g.pila]

\* The block with the condition p ends: b in one block, and the other is next.
GenRama(p, b, fin) ==
    LET n == Len(p.g.bl)
        g == Emite(AbreN(p.g, 2), CondBr(p.c, n + 1, n + 2))
    IN  En(Cierra(GenBloque(b, En(g, n + 1)), fin), n + 2)

\* si / osi / sino and the cases of elegir: each condition is written in the
\* block that the previous one reaches when it is false.
Condicion(opcion, p) ==
    IF opcion = <<>> THEN p
    ELSE EnCeldaOpera([g |-> p.g, cs |-> <<opcion[1], p.c>>], "igual")
GenRamas(ramas, sino, opcion, fin, g) ==
    IF ramas = <<>> THEN Cierra(GenBloque(sino, g), fin)
    ELSE GenRamas(Tail(ramas), sino, opcion, fin,
                  GenRama(Condicion(opcion, GenExpr(ramas[1].c, g)), ramas[1].b, fin))

GenSi(s, g) ==
    LET fin == Len(g.bl) + 1
    IN  En(GenRamas(s.ramas, s.sino, <<>>, fin, Abre(g)), fin)

GenCasos(s, p) ==
    LET fin == Len(p.g.bl) + 1
    IN  En(GenRamas(s.ramas, s.sino, <<p.c>>, fin, Abre(p.g)), fin)
GenElegir(s, g) == GenCasos(s, GenExpr(s.e, g))

\* The block of a condition ends: on to block a if it holds, to b if it does not.
Decide(p, a, b) == En(Emite(p.g, CondBr(p.c, a, b)), a)
\* k more blocks; the builder goes on in the first one.
Entra(g, k) == LET n == Len(g.bl) + 1 IN En(Emite(AbreN(g, k), Br(n)), n)

\* header n+1, body n+2, exit n+3.
GenMientras(s, g) ==
    LET n == Len(g.bl)
        g1 == Decide(GenExpr(s.c, Entra(g, 3)), n + 2, n + 3)
    IN  En(Cierra(GenCuerpo(s.b, n + 3, g1), n + 1), n + 3)

\* Mutant: the body goes back to the header without the increment.
GenVueltasSinIncremento(s, g) ==
    LET n == Len(g.bl)
        g1 == Decide(GenExpr(s.c, Entra(g, 4)), n + 2, n + 4)
        g2 == Cierra(GenCuerpo(s.b, n + 4, g1), n + 1)
    IN  En(Cierra(GenSentencia(s.inc, En(g2, n + 3)), n + 1), n + 4)

\* header n+1, body n+2, increment n+3, exit n+4.
GenVueltas(s, g) ==
    LET n == Len(g.bl)
        g1 == Decide(GenExpr(s.c, Entra(g, 4)), n + 2, n + 4)
        g2 == Cierra(GenCuerpo(s.b, n + 4, g1), n + 3)
    IN  En(Cierra(GenSentencia(s.inc, En(g2, n + 3)), n + 1), n + 4)
GenDesde(s, g) == GenVueltas(s, GenSentencia(s.ini, g))

\* para: d is the cell of the test, act and sig the current and next value.
ParaPrueba(d, rango, act) ==
    [g |-> Emite(d.g, Opera(d.c, "rango_contiene", <<rango, act>>)), c |-> d.c]
ParaSiguiente(g, rango, act, sig, n) ==
    Emite(Emite(Emite(g, Opera(sig, "rango_siguiente", <<rango, act>>)),
                Copia(act, sig)), Br(n))
ParaVueltas(s, rango, act, sig) ==
    LET n == Len(sig.g.bl)
        g1 == Entra(Emite(sig.g, Opera(act, "rango_inicio", <<rango>>)), 4)
        g2 == Decide(ParaPrueba(Nueva(g1), rango, act), n + 2, n + 4)
        g3 == Cierra(GenCuerpo(s.b, n + 4, Emite(g2, Copia(s.n, act))), n + 3)
    IN  En(ParaSiguiente(En(g3, n + 3), rango, act, sig.c, n + 1), n + 4)
ParaCeldas(s, rango, act) == ParaVueltas(s, rango, act.c, CreateAlloca(act.g, 1))
GenPara(s, g) ==
    LET r == GenExpr(s.e, g) IN ParaCeldas(s, r.c, CreateAlloca(r.g, 1))

\* body n+1, condition n+2, exit n+3.
GenRepetir(s, g) ==
    LET n == Len(g.bl)
        g1 == Cierra(GenCuerpo(s.b, n + 3, Entra(g, 3)), n + 2)
        p == GenExpr(s.c, En(g1, n + 2))
    IN  En(Emite(p.g, CondBr(p.c, n + 3, n + 1)), n + 3)

GenRetornar(s, g) ==
    LET p == GenExpr(s.e, g) IN Emite(Emite(p.g, Copia(Ret, p.c)), RetVoid)

GenSentencia(s, g) ==
    CASE s.t = "Asignacion" -> GenAsignacion(s, g)
      [] s.t = "ExprSentencia" -> GenExpr(s.e, g).g
      [] s.t = "Si" -> GenSi(s, g)
      [] s.t = "Elegir" -> GenElegir(s, g)
      [] s.t = "Desde" -> GenDesde(s, g)
      [] s.t = "Para" -> GenPara(s, g)
      [] s.t = "Mientras" -> GenMientras(s, g)
      [] s.t = "Repetir" -> GenRepetir(s, g)
      [] s.t = "Romper" ->
            IF g.pila = <<>> THEN g ELSE Emite(g, Br(Last(g.pila)))
      [] s.t = "Retornar" -> GenRetornar(s, g)
      [] s.t = "InseguroBloque" -> GenBloque(s.b, g)
      [] s.t = "LlamadaBase" -> GenConstructor("base", s.as, s.ctor, g)

\* The function: a cell for every local, the body, and the implicit return.
GenFuncion(cuerpo, locales) ==
    LET g0 == FoldLeft(LAMBDA g, x : Emite(g, Reserva(1)), Constructor, locales)
        g1 == GenBloque(cuerpo, g0)
    IN  (IF BloqueTerminado(g1) THEN g1
         ELSE Emite(Emite(g1, Lit(Ret, 0)), RetVoid)).bl
=============================================================================
