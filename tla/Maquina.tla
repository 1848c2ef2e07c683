------------------------------ MODULE Maquina ------------------------------
(***************************************************************************)
(* The target both back ends are compared on: a function made of basic     *)
(* blocks, as in LLVM IR, the builder that fills them, and the machine     *)
(* that runs them.  A block is a sequence of instructions whose last one,  *)
(* and no other, must be a terminator.  What a run shows to the outside is *)
(* the sequence of its calls with the values of their arguments; the       *)
(* answers of the calls come from a script (guion) chosen beforehand, so   *)
(* that a call made too early, too late, once too often or with an old     *)
(* value changes everything after it.                                      *)
(*                                                                         *)
(* The programs that are translated, trees of include/ast.h, are at the    *)
(* end.                                                                    *)
(***************************************************************************)
EXTENDS Integers, SequencesExt, TLC

CONSTANT MaxSucesos   \* a run is observed up to this many calls

ASSUME CotasAssumption == MaxSucesos \in Nat \ {0}

\* A cell is the name of a variable or a counter (Nueva): the global variable
\* that the function "toca" changes, and the value the function returns.
Celda(x) == <<"v", x>>
Global == Celda("x")
Ret == Celda("ret")

(***************************************************************************)
(* Instructions.                                                           *)
(***************************************************************************)
Lit(d, v) == [o |-> "lit", d |-> d, v |-> v]
Copia(d, s) == [o |-> "copia", d |-> d, s |-> s]
Opera(d, op, as) == [o |-> "opera", d |-> d, op |-> op, as |-> as]
Llama(d, f, as) == [o |-> "llama", d |-> d, f |-> f, as |-> as]
Reserva(n) == [o |-> "alloca", n |-> n]
Br(b) == [o |-> "br", b |-> b]
CondBr(c, a, b) == [o |-> "cond", c |-> c, a |-> a, b |-> b]
RetVoid == [o |-> "ret"]

EsTerminador(i) == i.o \in {"br", "cond", "ret"}

(***************************************************************************)
(* The builder (llvm::IRBuilder): the blocks so far, the block it inserts  *)
(* in, the exits of the loops it is inside of, a counter for fresh cells,  *)
(* the temporaries in scope and whether the input was legal (the last two  *)
(* are only used for C).                                                   *)
(***************************************************************************)
Constructor ==
    [bl |-> << <<>> >>, act |-> 1, pila |-> <<>>, n |-> 0,
     amb |-> {}, ok |-> TRUE]

Emite(g, i) == [g EXCEPT !.bl[g.act] = Append(@, i)]
Abre(g) == [g EXCEPT !.bl = Append(@, <<>>)]
AbreN(g, n) == [g EXCEPT !.bl = @ \o [k \in 1..n |-> <<>>]]
En(g, b) == [g EXCEPT !.act = b]
Nueva(g) == [g |-> [g EXCEPT !.n = @ + 1], c |-> <<"c", g.n>>]

BloqueTerminado(g) ==
    LET b == g.bl[g.act] IN b # <<>> /\ EsTerminador(Last(b))

(***************************************************************************)
(* What the runtime's operations compute, on the values the runs use: 0 is *)
(* false and any other value true.                                         *)
(***************************************************************************)
Logico(b) == IF b THEN 1 ELSE 0
ValorDe(op, vs) ==
    CASE op = "sumar" -> (vs[1] + vs[2]) % 3
      [] op = "igual" -> Logico(vs[1] = vs[2])
      [] op = "menor" -> Logico(vs[1] < vs[2])
      [] op = "objeto" -> 1
      [] op = "rango_inicio" -> 0
      [] op = "rango_contiene" -> Logico(vs[2] < vs[1])
      [] op = "rango_siguiente" -> vs[2] + 1

(***************************************************************************)
(* A call: its name and arguments are observed, its answer is the next of  *)
(* the script, and the function called "toca" changes the global.          *)
(***************************************************************************)
Respuesta(m) == IF m.guion = <<>> THEN 0 ELSE Head(m.guion)
Suceso(m, f, vs) ==
    [m EXCEPT !.traza = Append(@, <<f, vs>>),
              !.guion = IF @ = <<>> THEN @ ELSE Tail(@),
              !.cel = IF f = "toca" THEN [@ EXCEPT ![Global] = 1 - @] ELSE @]

Arranque(vars, guion) ==
    [cel |-> [x \in vars |-> 0], pc |-> 1, traza |-> <<>>, guion |-> guion,
     ret |-> 0]

Pon(m, d, v) == [m EXCEPT !.cel = (d :> v) @@ @]

Paso(m, i) ==
    CASE i.o = "lit" -> Pon(m, i.d, i.v)
      [] i.o = "copia" -> Pon(m, i.d, m.cel[i.s])
      [] i.o = "opera" ->
            Pon(m, i.d, ValorDe(i.op, [k \in DOMAIN i.as |-> m.cel[i.as[k]]]))
      [] i.o = "llama" ->
            Pon(Suceso(m, i.f, [k \in DOMAIN i.as |-> m.cel[i.as[k]]]),
                i.d, Respuesta(m))
      [] i.o = "alloca" -> m   \* the space on the stack is not counted
      [] i.o = "br" -> [m EXCEPT !.pc = i.b]
      [] i.o = "cond" -> [m EXCEPT !.pc = IF m.cel[i.c] # 0 THEN i.a ELSE i.b]
      [] i.o = "ret" -> [m EXCEPT !.pc = 0, !.ret = m.cel[Ret]]

\* One block is run; a run that has shown MaxSucesos calls is cut there.
CorreBloque(m, codigo) ==
    LET s == FoldLeft(Paso, m, codigo[m.pc])
    IN  IF Len(s.traza) >= MaxSucesos THEN [s EXCEPT !.pc = 0] ELSE s

Parada(m) == m.pc = 0
Visible(m) == IF Len(m.traza) > MaxSucesos THEN SubSeq(m.traza, 1, MaxSucesos) ELSE m.traza

-----------------------------------------------------------------------------
(***************************************************************************)
(* The part of the syntax tree (include/ast.h) that decides in which order *)
(* the generated program does things.  Nodes are records whose field t     *)
(* names the class of the node.  Every expression that both back ends turn *)
(* into one call of the runtime or of the program with its operands as     *)
(* arguments (a named function, a library function, a method, a list, an   *)
(* index) is a Llamada: the name called is its observable effect.  Binaria *)
(* stands for the operators of fnBinaria, which have no effect to observe. *)
(***************************************************************************)

LitNumero(v) == [t |-> "LitNumero", v |-> v]
Identificador(x) == [t |-> "Identificador", n |-> x]
Binaria(op, a, b) == [t |-> "Binaria", op |-> op, as |-> <<a, b>>]
PostOperador(x) == [t |-> "PostOperador", n |-> x]
Ternaria(c, a, b) == [t |-> "Ternaria", c |-> c, a |-> a, b |-> b]
Llamada(f, as) == [t |-> "Llamada", f |-> f, as |-> as]

\* A call whose destination is not the name of a function of the program: a
\* variable, an element of a list, a parameter, an anonymous function.
LlamadaDinamica(f, as) == [t |-> "LlamadaDinamica", f |-> f, as |-> as]

\* nuevo Clase(as); ctor says whether the class declares a constructor.
NuevoExpr(as, ctor) == [t |-> "NuevoExpr", as |-> as, ctor |-> ctor]

ExprSentencia(e) == [t |-> "ExprSentencia", e |-> e]

\* A destination is a variable or an element: <<>> for a variable, <<o, i>>
\* for o[i].
EnVariable(x) == [n |-> x, oi |-> <<>>]
EnElemento(o, i) == [n |-> "", oi |-> <<o, i>>]
Asignacion(ds, vs) == [t |-> "Asignacion", ds |-> ds, vs |-> vs]

Rama(c, b) == [c |-> c, b |-> b]
Si(c, entonces, osis, sino) ==
    [t |-> "Si", ramas |-> <<Rama(c, entonces)>> \o osis, sino |-> sino]
Elegir(e, casos, defecto) ==
    [t |-> "Elegir", e |-> e, ramas |-> casos, sino |-> defecto]
Desde(ini, c, inc, b) ==
    [t |-> "Desde", ini |-> ini, c |-> c, inc |-> inc, b |-> b]
Para(x, e, b) == [t |-> "Para", n |-> x, e |-> e, b |-> b]
Mientras(c, b) == [t |-> "Mientras", c |-> c, b |-> b]
Repetir(b, c) == [t |-> "Repetir", c |-> c, b |-> b]
Romper == [t |-> "Romper"]
Retornar(e) == [t |-> "Retornar", e |-> e]
InseguroBloque(b) == [t |-> "InseguroBloque", b |-> b]

\* base(as); ctor says whether the parent class has a constructor to run.
LlamadaBase(as, ctor) == [t |-> "LlamadaBase", as |-> as, ctor |-> ctor]
=============================================================================
