----------------------------- MODULE Generacion -----------------------------
(***************************************************************************)
(* One function of a program goes through both back ends and both results  *)
(* run against the same script of answers.  The LLVM back end writes the   *)
(* code that runs; the C back end writes C, and a C compiler writes the    *)
(* code that runs.  The question is whether the program that runs is the   *)
(* program that was written, whatever the back end.                        *)
(***************************************************************************)
EXTENDS Maquina

CONSTANTS Programas,    \* a sequence of function bodies
          Vars,         \* their variables, Global one of them
          Guiones,      \* the scripts of answers
          Ordenes       \* the orders of evaluation of the C and C++ compilers

ASSUME ProgramasAssumption == /\ Len(Programas) > 0
                              /\ Global \in Vars
                              /\ Ordenes \subseteq {"izq", "der"}

C == INSTANCE GeneradorC
L == INSTANCE GeneradorLLVM

VARIABLES prog,     \* the program, as an index
          guion,    \* its script
          codigo,   \* [c, llvm]: what each back end has made: the blocks, empty
                    \* until then, and whether the C compiler took them
          maq       \* [c, llvm]: the run of each

vars == <<prog, guion, codigo, maq>>

Extremos == {"c", "llvm"}
Cuerpo == Programas[prog]

Init ==
    /\ prog \in DOMAIN Programas
    /\ guion \in Guiones
    /\ codigo = [b \in Extremos |-> [bl |-> <<>>, ok |-> TRUE]]
    /\ maq = [b \in Extremos |-> Arranque(Vars \cup {Ret}, guion)]

Hecho(b) == codigo[b].bl # <<>>
Rechazado(b) == ~codigo[b].ok

\* latino --backend=c: GeneradorC with the host's order, then the C compiler
\* with its own.  A program it rejects has no code and never runs.
CompilaConC ==
    /\ ~Hecho("c")
    /\ \E host \in Ordenes, orden \in Ordenes :
          codigo' = [codigo EXCEPT !["c"] =
                        C!Compilar(C!GenFuncion(Cuerpo, host), orden)]
    /\ UNCHANGED <<prog, guion, maq>>

\* latino --backend=llvm.
CompilaConLLVM ==
    /\ ~Hecho("llvm")
    /\ codigo' = [codigo EXCEPT !["llvm"].bl = L!GenFuncion(Cuerpo, SetToSeq(Vars \ {Global}))]
    /\ UNCHANGED <<prog, guion, maq>>

\* The executable goes on by one block.
Corre(b) ==
    /\ Hecho(b) /\ ~Rechazado(b) /\ ~Parada(maq[b])
    /\ maq' = [maq EXCEPT ![b] = CorreBloque(@, codigo[b].bl)]
    /\ UNCHANGED <<prog, guion, codigo>>

\* Both executables have ended.
Acabado == \A b \in Extremos : Rechazado(b) \/ Parada(maq[b])
Fin == Acabado /\ UNCHANGED vars

\* Nothing is shared between the two, so that one after the other is enough.
Next ==
    \/ CompilaConLLVM
    \/ Hecho("llvm") /\ Corre("llvm")
    \/ Parada(maq["llvm"]) /\ CompilaConC
    \/ Corre("c")
    \/ Fin

\* The compilers and the executables do not stop by themselves.  This is
\* WF_vars(Next) with its ENABLED written out: a step that changes something is
\* possible as long as not everything has ended, and only then.
Avanza == []<>Acabado \/ []<><<TRUE>>_vars

Spec == Init /\ [][Next]_vars /\ Avanza

-----------------------------------------------------------------------------
\* What a program means, whatever back end translates it: operands from left to
\* right, each one once, its value taken when it is its turn; a condition every
\* time the loop asks for it; romper leaves the nearest loop at once and retornar
\* the function.  The state is what is visible: the variables, the calls made and
\* the answers left; modo says whether execution goes on ("sigue"), leaves a loop
\* ("rompe"), leaves the function ("retorna") or was cut after MaxSucesos calls
\* ("tope").

Sigue(st) == st.modo = "sigue"

RECURSIVE Ev(_, _), EvTodas(_, _)

EvTodas(es, st) ==
    IF es = <<>> THEN [st |-> st, vs |-> <<>>]
    ELSE LET p == Ev(Head(es), st)
             r == EvTodas(Tail(es), p.st)
         IN  [st |-> r.st, vs |-> <<p.v>> \o r.vs]

\* A call whose arguments are known; nothing is observed after MaxSucesos.
Invoca(f, vs, st) ==
    IF ~Sigue(st) THEN [st |-> st, v |-> 0]
    ELSE LET s == Suceso(st, f, vs)
         IN  [st |-> IF Len(s.traza) >= MaxSucesos THEN [s EXCEPT !.modo = "tope"]
                     ELSE s,
              v |-> Respuesta(st)]

Escribe(st, x, v) == IF Sigue(st) THEN [st EXCEPT !.cel[x] = v] ELSE st

Ev(e, st) ==
    IF ~Sigue(st) THEN [st |-> st, v |-> 0] ELSE
    CASE e.t = "LitNumero" -> [st |-> st, v |-> e.v]
      [] e.t = "Identificador" -> [st |-> st, v |-> st.cel[e.n]]
      [] e.t = "Binaria" ->
            LET r == EvTodas(e.as, st)
            IN  [st |-> r.st, v |-> IF Sigue(r.st) THEN ValorDe(e.op, r.vs) ELSE 0]
      [] e.t = "PostOperador" ->
            LET v == ValorDe("sumar", <<st.cel[e.n], 1>>)
            IN  [st |-> Escribe(st, e.n, v), v |-> v]
      [] e.t = "Ternaria" ->
            LET p == Ev(e.c, st) IN Ev(IF p.v # 0 THEN e.a ELSE e.b, p.st)
      [] e.t \in {"Llamada", "LlamadaDinamica"} ->
            LET r == EvTodas(e.as, st) IN Invoca(e.f, r.vs, r.st)
      [] e.t = "NuevoExpr" ->
            LET r == EvTodas(e.as, st)
            IN  [st |-> IF e.ctor THEN Invoca("nuevo", r.vs, r.st).st ELSE st,
                 v |-> 1]

RECURSIVE Ej(_, _), EjBucle(_, _, _, _), EjRamas(_, _, _, _), EjPara(_, _, _, _)

EjTodas(ss, st) ==
    FoldLeft(LAMBDA s1, s : IF Sigue(s1) THEN Ej(s, s1) ELSE s1, st, ss)

SinRomper(st) == IF st.modo = "rompe" THEN [st EXCEPT !.modo = "sigue"] ELSE st

\* while (c) { b; inc }
EjBucle(c, b, inc, st) ==
    LET p == Ev(c, st)
        s == EjTodas(b, p.st)
    IN  IF ~Sigue(p.st) \/ p.v = 0 THEN p.st
        ELSE IF Sigue(s) THEN EjBucle(c, b, inc, EjTodas(inc, s))
        ELSE SinRomper(s)

EjPara(x, veces, s, st) ==
    LET s1 == EjTodas(s.b, Escribe(st, s.n, x))
    IN  IF x >= veces \/ ~Sigue(st) THEN st
        ELSE IF Sigue(s1) THEN EjPara(x + 1, veces, s, s1) ELSE SinRomper(s1)

\* The first branch whose condition holds, or equals the value op of elegir.
EjRamas(ramas, sino, op, st) ==
    IF ramas = <<>> THEN EjTodas(sino, st)
    ELSE LET p == Ev(ramas[1].c, st)
             si == IF op = <<>> THEN p.v # 0 ELSE p.v = op[1]
         IN  IF ~Sigue(p.st) THEN p.st
             ELSE IF si THEN EjTodas(ramas[1].b, p.st)
             ELSE EjRamas(Tail(ramas), sino, op, p.st)

Asigna(d, v, st) ==
    IF d.oi = <<>> THEN Escribe(st, d.n, v)
    ELSE LET r == EvTodas(d.oi, st)
         IN  Invoca("asignar_indice", Append(r.vs, v), r.st).st

Ej(s, st) ==
    CASE s.t = "Asignacion" ->
            LET r == EvTodas(s.vs, st)
            IN  FoldLeft(LAMBDA s1, i :
                            Asigna(s.ds[i], IF i <= Len(r.vs) THEN r.vs[i] ELSE 0, s1),
                         r.st, [i \in DOMAIN s.ds |-> i])
      [] s.t = "ExprSentencia" -> Ev(s.e, st).st
      [] s.t = "Si" -> EjRamas(s.ramas, s.sino, <<>>, st)
      [] s.t = "Elegir" ->
            LET p == Ev(s.e, st) IN EjRamas(s.ramas, s.sino, <<p.v>>, p.st)
      [] s.t = "Desde" -> EjBucle(s.c, s.b, <<s.inc>>, Ej(s.ini, st))
      [] s.t = "Para" -> LET p == Ev(s.e, st) IN EjPara(0, p.v, s, p.st)
      [] s.t = "Mientras" -> EjBucle(s.c, s.b, <<>>, st)
      [] s.t = "Repetir" ->
            LET s1 == EjTodas(s.b, st)
            IN  IF ~Sigue(s1) THEN SinRomper(s1)
                ELSE EjBucle(Binaria("igual", s.c, LitNumero(0)), s.b, <<>>, s1)
      [] s.t = "Romper" -> [st EXCEPT !.modo = "rompe"]
      [] s.t = "Retornar" ->
            LET p == Ev(s.e, st)
            IN  IF Sigue(p.st) THEN [p.st EXCEPT !.modo = "retorna", !.ret = p.v]
                ELSE p.st
      [] s.t = "InseguroBloque" -> EjTodas(s.b, st)
      [] s.t = "LlamadaBase" ->
            LET r == EvTodas(s.as, st)
            IN  IF s.ctor THEN Invoca("base", r.vs, r.st).st ELSE r.st

\* Everything a run of the program shows, and the value it returns.
Significado(cuerpo, xs, respuestas) ==
    EjTodas(cuerpo, [cel |-> [x \in xs |-> 0], traza |-> <<>>, guion |-> respuestas,
                     modo |-> "sigue", ret |-> 0])

-----------------------------------------------------------------------------
\* Every jump goes to a block of the function, and every answer that was taken
\* from the script belongs to a call that was seen.
TypeOK ==
    /\ prog \in DOMAIN Programas
    /\ guion \in Guiones
    /\ \A b \in Extremos :
          /\ maq[b].pc \in 0..Len(codigo[b].bl) \cup {1}
          /\ Len(maq[b].traza) >= Len(guion) - Len(maq[b].guion)

\* Each block of the LLVM code ends in one terminator and has no other: what
\* llvm::verifyModule demands, after romper, retornar, nested loops and all.
BloquesCerrados ==
    \A n \in DOMAIN codigo["llvm"].bl :
        LET b == codigo["llvm"].bl[n]
        IN  /\ b # <<>>
            /\ \A i \in DOMAIN b : EsTerminador(b[i]) <=> i = Len(b)

Querido == Significado(Cuerpo, Vars \cup {Ret}, guion)

\* A run shows calls of the program in the program's order with the program's
\* values, and when it ends it has shown them all and returns the same value.
EsElPrograma(b) ==
    Hecho(b) =>
        LET q == Querido
            v == Visible(maq[b])
        IN  /\ ~Rechazado(b)
            /\ IsPrefix(v, q.traza)
            /\ Parada(maq[b]) => /\ v = q.traza
                                 /\ q.modo # "tope" => maq[b].ret = q.ret

\* The executable of the LLVM back end does what the program says.
LLVMEsElPrograma == EsElPrograma("llvm")

\* A loop of the body asks its condition of a dynamic call.  The C back end
\* writes the argument of that call into a temporary while it builds the text of
\* the condition (src/compiler.cpp:968, 993), so before the loop and once:
\* `mientras f(i) ... i++ ... fin` asks f(0) again and again, where SINTAXIS.md:342
\* and input/PLAN_LLVM.md:575 have it asked anew each turn.
CondicionUnaVez(b) ==
    \E k \in DOMAIN b : b[k].t \in {"Mientras", "Desde"} /\ b[k].c.t = "LlamadaDinamica"

\* The executable of the C back end does, whatever order the C compiler and the
\* compiler of latino itself evaluate operands in; but for those conditions.
CEsElPrograma == CondicionUnaVez(Cuerpo) \/ EsElPrograma("c")

\* A program whose loops end does end, in both executables.
Termina == <>(\A b \in Extremos : Parada(maq[b]))
=============================================================================
