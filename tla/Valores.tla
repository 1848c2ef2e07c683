---- MODULE Valores ----
(*************************************************************************)
(* The values a Latino program holds (LatValor, runtime/latino.h) and    *)
(* the comparisons of the runtime on them (num, comparar, son_iguales,   *)
(* runtime/latino.c).  A scalar is an element of one of the constant     *)
(* sets below; a list is the address of its block.                       *)
(*************************************************************************)
EXTENDS Integers

CONSTANTS
  Numeros,    \* numbers and the two logical values: num() gives both a number
  NaNs,       \* the numbers that are "not a number", as (0-8)^0.5
  Cadenas,    \* texts
  Nulo,       \* nulo
  Peso,       \* the magnitude of a number; of a text, its place for strcmp
  Ids         \* addresses of the blocks the program can allocate

Escalares == Numeros \cup Cadenas \cup {Nulo}

Valores == Escalares \cup Ids

(* A text or a container counts as 0 in arithmetic and in order. *)
Num(v) == IF v \in Numeros THEN Peso[v] ELSE 0

(* x < y on doubles is false when one of them is a NaN. *)
NumMenor(a, b) == a \notin NaNs /\ b \notin NaNs /\ Num(a) < Num(b)

(* comparar(a, b) < 0: two texts by strcmp, anything else by num. *)
Menor(a, b) ==
  IF a \in Cadenas /\ b \in Cadenas THEN Peso[a] < Peso[b] ELSE NumMenor(a, b)

(* nulo only equals nulo, texts compare as texts and numbers as numbers;
   every other pair is different: a list is not even equal to itself. *)
SonIguales(a, b) ==
  \/ a = Nulo /\ b = Nulo
  \/ a \in Cadenas /\ a = b
  \/ a \in Numeros \ NaNs /\ b \in Numeros \ NaNs /\ Peso[a] = Peso[b]

(* comparador_qsort: the order lista.ordenar hands to qsort. *)
Comparador(a, b) ==
  IF SonIguales(a, b) THEN 0 ELSE IF Menor(a, b) THEN -1 ELSE 1

(* qsort needs an order; on any other relation its result is unspecified. *)
EsOrden(S) ==
  /\ \A a, b \in S : Comparador(a, b) = -Comparador(b, a)
  /\ \A a, b, c \in S :
       Comparador(a, b) <= 0 /\ Comparador(b, c) <= 0 => Comparador(a, c) <= 0

(* An index counted from the end when it is negative. *)
Desplazar(i, n) == IF i < 0 THEN i + n ELSE i

(* An index forced into lo..hi. *)
Recortar(i, lo, hi) == IF i < lo THEN lo ELSE IF i > hi THEN hi ELSE i

(* The orders of the positions lo..hi that leave the values d[k] sorted; when
   the comparison is no order on them, every order is possible. *)
Ordenaciones(d, lo, hi) ==
  { p \in [lo..hi -> lo..hi] :
      /\ \A i, j \in lo..hi : i # j => p[i] # p[j]
      /\ EsOrden({d[k] : k \in lo..hi}) =>
           \A i, j \in lo..hi : i < j => Comparador(d[p[i]], d[p[j]]) <= 0 }

(* The positions of d that lista.unico keeps: those whose value equals none
   of the values already kept. *)
SinRepetir(d, lo, hi) ==
  { K \in SUBSET (lo..hi) :
      \A i \in lo..hi :
        i \in K <=> ~\E j \in K : j < i /\ SonIguales(d[i], d[j]) }

(* K listed from the least to the greatest, from place `base` on. *)
Enumeraciones(K, base, n) ==
  { f \in [base..(base + n - 1) -> K] :
      /\ \A i, j \in DOMAIN f : i < j => f[i] < f[j]
      /\ \A k \in K : \E i \in DOMAIN f : f[i] = k }
====
