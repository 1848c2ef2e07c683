----------------------------- MODULE Biblioteca -----------------------------
(***************************************************************************)
(* One call of a function of the libraries, with the arguments a program   *)
(* may give it, and what it answers.  The properties tell the answer again *)
(* without the loops, indices and flags that found it.                     *)
(*                                                                         *)
(* The ranges of the runtime are here too: rango(...), the loop `para x en *)
(* rango`, and lista.a_lista.  Bounds and steps are doubles that hold      *)
(* whole numbers: a sum is rounded to Precision significant binary digits, *)
(* to the nearest and to the even one of two (53 in a double; a few show   *)
(* the same).                                                              *)
(***************************************************************************)
EXTENDS Integers, Sequences, FiniteSetsExt

CONSTANTS
  Precision,   \* binary digits of a double
  Rechazados,  \* arguments that are no number, not finite or have a fraction
  Aborta,      \* the program ends with an error
  Nulo,
  Casos        \* for each kind of call, its arguments

ASSUME PrecisionAssumption == Precision \in Nat \ {0}

Valor(x) == IF x < 0 THEN -x ELSE x

(* The distance between two neighbours of the size of x.                    *)
Ulp(x) == 2 ^ Min({e \in 0 .. Precision : Valor(x) < 2 ^ (Precision + e)})

(* x rounded, for |x| < 2^(2 Precision).                                    *)
Redondea(x) ==
  LET u == Ulp(x)
      q == Valor(x) \div u
      r == Valor(x) % u
      m == IF 2 * r > u \/ (2 * r = u /\ q % 2 = 1) THEN q + 1 ELSE q
  IN  IF x < 0 THEN -(m * u) ELSE m * u

Exacto(x) == Redondea(x) = x

(* rango(args).                                                             *)
Rango(args) ==
  IF Len(args) \notin 1 .. 3 \/ \E k \in DOMAIN args : args[k] \in Rechazados THEN Aborta
  ELSE IF Len(args) = 3 /\ args[3] = 0 THEN Aborta
  ELSE [inicio |-> IF Len(args) = 1 THEN 0 ELSE args[1],
        fin    |-> IF Len(args) = 1 THEN args[1] ELSE args[2],
        paso   |-> IF Len(args) = 3 THEN args[3] ELSE 1]

Contiene(r, x) == IF r.paso > 0 THEN x < r.fin ELSE x > r.fin

(* The number after x, which must be another.                               *)
Avanzado(r, x) == IF Redondea(x + r.paso) = x THEN Aborta ELSE Redondea(x + r.paso)

(* The turns of `para`: its values, and whether it ends with an error.      *)
RECURSIVE Vueltas(_, _)
Vueltas(r, x) ==
  IF ~Contiene(r, x) THEN [son |-> <<>>, aborta |-> FALSE]
  ELSE IF Avanzado(r, x) = Aborta THEN [son |-> <<x>>, aborta |-> TRUE]
  ELSE LET v == Vueltas(r, Avanzado(r, x)) IN [v EXCEPT !.son = <<x>> \o @]
Para(r) == Vueltas(r, r.inicio)

(* How many cells lista.a_lista asks for: from the distance and the step,   *)
(* in long double, which has them exactly.                                  *)
Distancia(r) == IF r.paso > 0 THEN r.fin - r.inicio ELSE r.inicio - r.fin

(* Mutant: the part of a step at the end is not counted.                    *)
CantidadSinTecho(r) ==
  IF Distancia(r) <= 0 THEN 0 ELSE Distancia(r) \div Valor(r.paso)

Cantidad(r) ==
  IF Distancia(r) <= 0 THEN 0 ELSE (Distancia(r) + Valor(r.paso) - 1) \div Valor(r.paso)

(* The loop that fills them; it does not ask for the number after the last  *)
(* cell.                                                                    *)
RECURSIVE Llena(_, _, _)
Llena(r, n, x) ==
  IF n = 0 \/ ~Contiene(r, x) THEN [son |-> <<>>, aborta |-> FALSE]
  ELSE IF n = 1 THEN [son |-> <<x>>, aborta |-> FALSE]
  ELSE IF Avanzado(r, x) = Aborta THEN [son |-> <<>>, aborta |-> TRUE]
  ELSE LET v == Llena(r, n - 1, Avanzado(r, x)) IN [v EXCEPT !.son = <<x>> \o @]
ALista(r) == Llena(r, Cantidad(r), r.inicio)

-----------------------------------------------------------------------------
(* The numbers of a range: inicio, inicio + paso, ... before fin.           *)
Numeros(r) ==
  LET n == Max({k \in 0 .. Valor(r.fin - r.inicio) : \A m \in 0 .. k - 1 : Contiene(r, r.inicio + m * r.paso)})
  IN  [k \in 1 .. n |-> r.inicio + (k - 1) * r.paso]

-----------------------------------------------------------------------------
T == INSTANCE Textos

VARIABLES caso, hecho, da

vars == <<caso, hecho, da>>

Init ==
  /\ \E o \in DOMAIN Casos : \E a \in Casos[o] : caso = [op |-> o, a |-> a]
  /\ hecho = FALSE
  /\ da = Nulo

A == caso.a

(* cadena.regex, ~= and cadena.regexl with the same pattern and text.       *)
Buscar ==
  LET re == T!Escrito(A.patron)
  IN  [una |-> T!Regex(A.texto, re), hay |-> T!Coincide(A.texto, re), todas |-> T!Regexl(A.texto, re, 1)]

(* What the caller writes for a sequence of pieces, each with its text.     *)
Junta(piezas) == T!FlattenSeq([k \in DOMAIN piezas |-> piezas[k].escrito])

Responde ==
  CASE caso.op = "regex" -> Buscar
    [] caso.op = "separar" ->
         [son |-> T!Separar(A.s, A.sub), cuantas |-> T!Contar(A.s, A.sub),
          primera |-> T!Encontrar(A.s, A.sub), ultima |-> T!UltimoIndice(A.s, A.sub)]
    [] caso.op = "reemplazar" ->
         [da |-> T!Reemplazar(A.s, A.viejo, A.nuevo), bloque |-> T!TamanoReemplazo(A.s, A.viejo, A.nuevo)]
    [] caso.op = "cortar" -> T!Subcadena(A.s, A.i, A.f)
    [] caso.op = "insertar" -> T!Insertar(A.s, A.i, A.sub)
    [] caso.op = "rellenar" ->
         [der |-> T!RellenarDerecha(A.s, A.n, A.c), izq |-> T!RellenarIzquierda(A.s, A.n, A.c)]
    [] caso.op = "palabras" ->
         [titulo |-> T!Titulo(A.s), palabras |-> T!PalabrasCapital(A.s), capital |-> T!Capitalizar(A.s)]
    [] caso.op = "recortar" ->
         [izq |-> T!RecortarIzq(A.s), der |-> T!RecortarDer(A.s), ambos |-> T!Recortar(A.s)]
    [] caso.op = "formatear" -> T!Formatear(Junta(A.piezas), A.valores)
    [] caso.op = "plantilla" -> T!PlantillaSustituir(Junta(A.piezas), A.dic, A.seguro)
    [] caso.op = "rango" ->
         LET r == Rango(A) IN
         IF r = Aborta THEN Aborta ELSE [para |-> Para(r), lista |-> ALista(r)]

Llama ==
  /\ ~hecho
  /\ hecho' = TRUE
  /\ da' = Responde
  /\ UNCHANGED caso

Fin == hecho /\ UNCHANGED vars

Next == Llama \/ Fin
Spec == Init /\ [][Next]_vars

-----------------------------------------------------------------------------
(* Properties.                                                              *)

(* The matcher of the runtime, which walks the text of the pattern and goes *)
(* back when it has taken too much, finds what the pattern means: the first *)
(* place where it fits, as long as greedy items make it; ~= tells whether   *)
(* there is one, and cadena.regexl gives them all from left to right.       *)
ExpresionesFieles ==
  hecho /\ caso.op = "regex" =>
    LET p == A.patron
        m == T!PrimeraDe(p, A.texto, 1)
    IN  /\ da.una = m
        /\ da.hay <=> m # T!Nada
        /\ T!NadaAlFinal(p, A.texto) => da.todas = T!TodasDe(p, A.texto, 1)

(* The blocks of the text that are sub, and the largest number of them that *)
(* do not overlap.                                                          *)
Lugares(s, sub) == {k \in 1 .. Len(s) : T!Aqui(s, sub, k)}
SinSolapar(s, sub) ==
  Max({T!Cardinality(ks) : ks \in {x \in SUBSET Lugares(s, sub) :
         \A j, k \in x : j < k => j + Len(sub) <= k}})

Une(ts, d) ==
  T!FlattenSeq([k \in DOMAIN ts |-> IF k = 1 THEN ts[k] ELSE d \o ts[k]])

(* cadena.separar gives pieces that, joined, are the text again, and none   *)
(* holds the delimiter; contar is the most there can be of it; encontrar    *)
(* and ultimo_indice the first and the last place, unless sub overlaps      *)
(* itself: the last place is looked for from the left in whole steps, so    *)
(* that it is 0 for "aa" in "aaa" (runtime/libs/cadena.c:243; cadena.h:29   *)
(* and input/PLAN_LIBS.md:186 call it the last occurrence).                 *)
SeSolapa(sub) == \E k \in 2 .. Len(sub) : SubSeq(sub, k, Len(sub)) = SubSeq(sub, 1, Len(sub) - k + 1)

SeparaBien ==
  IF A.sub = <<>> THEN da.son = [k \in DOMAIN A.s |-> <<A.s[k]>>] /\ da.cuantas = 0 /\ da.ultima = Len(A.s)
  ELSE LET ls == Lugares(A.s, A.sub) IN
       /\ Une(da.son, A.sub) = A.s
       /\ \A k \in DOMAIN da.son : Lugares(da.son[k], A.sub) = {}
       /\ da.cuantas = SinSolapar(A.s, A.sub) /\ Len(da.son) = da.cuantas + 1
       /\ da.primera = (IF ls = {} THEN -1 ELSE Min(ls) - 1)
       /\ ~SeSolapa(A.sub) => da.ultima = (IF ls = {} THEN -1 ELSE Max(ls) - 1)

(* cadena.reemplazar puts nuevo between the same pieces, and the block it   *)
(* asked for is what it fills.                                              *)
ReemplazaBien ==
  IF A.viejo = <<>> THEN da.da = A.s
  ELSE /\ da.da = T!LatCadena(Une(T!Separar(A.s, A.viejo), A.nuevo))
       /\ Len(Une(T!Separar(A.s, A.viejo), A.nuevo)) + 1 = da.bloque

(* The characters between two positions, the second not in; a negative one  *)
(* is the beginning, and as an end the end.                                 *)
CortaBien ==
  LET dentro == {k \in DOMAIN A.s : /\ A.i # Nulo => k > A.i
                                    /\ A.f # Nulo /\ A.f >= 0 => k <= A.f}
  IN  da = [k \in 1 .. T!Cardinality(dentro) |-> A.s[Min(dentro) + k - 1]]

(* The text with sub in it, as near the position as there is.               *)
InsertaBien ==
  \E k \in 0 .. Len(A.s) :
    /\ da = SubSeq(A.s, 1, k) \o A.sub \o SubSeq(A.s, k + 1, Len(A.s))
    /\ \A m \in 0 .. Len(A.s) : Valor(k - (IF A.i = Nulo THEN 0 ELSE A.i)) <= Valor(m - (IF A.i = Nulo THEN 0 ELSE A.i))

RellenaBien ==
  LET n == Max({Len(A.s), IF A.n = Nulo THEN 0 ELSE A.n})
      c == IF A.c = <<>> THEN " " ELSE A.c[1]
  IN  /\ da.der = [k \in 1 .. n |-> IF k <= Len(A.s) THEN A.s[k] ELSE c]
      /\ da.izq = [k \in 1 .. n |-> IF k > n - Len(A.s) THEN A.s[k - n + Len(A.s)] ELSE c]

(* The first letter of each word is large and the others small; the blanks  *)
(* stay (titulo) or are one space between words (palabras_capital).  For    *)
(* titulo a vertical tab is no blank.                                       *)
EmpiezaPalabra(s, k) == k = 1 \/ s[k - 1] \in T!Espacios
PalabrasBien ==
  LET s == A.s
      bien(k) == IF EmpiezaPalabra(s, k) THEN T!Mayuscula(s[k]) ELSE T!Minuscula(s[k])
      anteriores(k) == {m \in 1 .. k - 1 : s[m] \notin T!Espacios}
  IN  /\ "VT" \notin T!Range(s) => da.titulo = [k \in DOMAIN s |-> bien(k)]
      /\ da.palabras = T!FlattenSeq([k \in DOMAIN s |->
           IF s[k] \in T!Espacios THEN <<>>
           ELSE (IF anteriores(k) # {} /\ EmpiezaPalabra(s, k) THEN <<" ">> ELSE <<>>) \o <<bien(k)>>])
      /\ T!Range(s) \cap T!Espacios = {} => da.capital = da.palabras

Limpio(r) == r = <<>> \/ (r[1] \notin T!Espacios /\ r[Len(r)] \notin T!Espacios)
RecortaBien ==
  \E i, j \in 0 .. Len(A.s) :
    /\ i <= j /\ \A k \in DOMAIN A.s : k <= i \/ k > j => A.s[k] \in T!Espacios
    /\ Limpio(SubSeq(A.s, i + 1, j))
    /\ T!LatCadena(SubSeq(A.s, i + 1, j)) = da.ambos
    /\ T!LatCadena(SubSeq(A.s, i + 1, Len(A.s))) = da.izq \/ da.ambos = <<>>
    /\ T!LatCadena(SubSeq(A.s, 1, j)) = da.der \/ da.ambos = <<>>

(* A template says what its pieces say: each literal itself, each {} the    *)
(* next of the values that no number asks for, {n} the value n or nothing.  *)
FormateaBien ==
  LET autos(k) == T!Cardinality({m \in 1 .. k - 1 : A.piezas[m].es = "auto"})
      valor(n) == IF n < Len(A.valores) THEN A.valores[n + 1] ELSE <<>>
      dice(k)  == LET z == A.piezas[k] IN
                  IF z.es = "auto" THEN valor(autos(k)) ELSE IF z.es = "indice" THEN valor(z.n) ELSE z.dice
  IN  da = T!LatCadena(T!FlattenSeq([k \in DOMAIN A.piezas |-> dice(k)]))

SustituyeBien ==
  LET z(k) == A.piezas[k]
      falta(k) == z(k).es = "nombre" /\ z(k).dice \notin DOMAIN A.dic
      dice(k) == IF falta(k) THEN z(k).escrito ELSE IF z(k).es = "nombre" THEN A.dic[z(k).dice] ELSE z(k).dice
  IN  IF ~A.seguro /\ \E k \in DOMAIN A.piezas : falta(k) THEN da = Aborta
      ELSE da = T!LatCadena(T!FlattenSeq([k \in DOMAIN A.piezas |-> dice(k)]))

(* What each function on texts answers is what its description says; but    *)
(* for the escapes, which every answer has read once more by lat_cadena     *)
(* (runtime/latino.c:190): c:\nuevo, trimmed, has a new line in it.         *)
TextosFieles ==
  hecho =>
    CASE caso.op = "separar" -> SeparaBien
      [] caso.op = "reemplazar" -> ReemplazaBien
      [] caso.op = "cortar" -> CortaBien
      [] caso.op = "insertar" -> InsertaBien
      [] caso.op = "rellenar" -> RellenaBien
      [] caso.op = "palabras" -> PalabrasBien
      [] caso.op = "recortar" -> RecortaBien
      [] caso.op = "formatear" -> FormateaBien
      [] caso.op = "plantilla" -> SustituyeBien
      [] OTHER -> TRUE

(* para goes over the numbers of the range and lista.a_lista holds them, as *)
(* long as doubles have them all (SINTAXIS.md:299-305).  Beyond that para   *)
(* goes on from rounded numbers and the list, whose length was computed     *)
(* without them, may end before; it never holds anything para does not pass *)
(* through, and ends with an error only where para does.                    *)
RangosFieles ==
  hecho /\ caso.op = "rango" =>
    LET r == Rango(A) IN
    IF r = Aborta THEN da = Aborta
    ELSE /\ Len(da.lista.son) <= Len(da.para.son)
         /\ da.lista.son = SubSeq(da.para.son, 1, Len(da.lista.son))
         /\ da.lista.aborta => da.para.aborta
         /\ (\A k \in DOMAIN Numeros(r) : Exacto(Numeros(r)[k])) =>
              /\ da.para = [son |-> Numeros(r), aborta |-> FALSE]
              /\ da.lista = da.para
=============================================================================
