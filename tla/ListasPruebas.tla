---- MODULE ListasPruebas ----
(*************************************************************************)
(* Proofs about the lists of the runtime, for every set of values,       *)
(* addresses and indices: no operation leaves a block, no program reads  *)
(* a cell nobody wrote, and the blocks implement the abstract sequences. *)
(*************************************************************************)
EXTENDS Listas, SequenceTheorems, WellFoundedInduction, TLAPS

(* An array of c cells whose first n hold values of V. *)
EsArreglo(o, c, n, V) ==
  /\ c \in Nat /\ n \in Nat /\ n <= c
  /\ o \in [0..(c - 1) -> Celda]
  /\ \A k \in 0..(n - 1) : o[k] \in V

(* A well formed block whose elements are in V. *)
EsBloque(l, V) ==
  /\ l = [longitud |-> l.longitud, capacidad |-> l.capacidad, datos |-> l.datos]
  /\ l.capacidad > 0
  /\ EsArreglo(l.datos, l.capacidad, l.longitud, V)

(* The inductive invariant: well formed blocks with live elements. *)
Inv ==
  /\ estado \in {"corre", "abortado"}
  /\ DOMAIN listas \subseteq Ids
  /\ listas = [a \in DOMAIN listas |-> listas[a]]
  /\ \A a \in DOMAIN listas : EsBloque(listas[a], Vivos)

(* The first n cells as a sequence. *)
Elems(o, n) == [k \in 1..n |-> o[k - 1]]

(* The array o with the value v in the cell k. *)
Escrita(o, k, v) == [o EXCEPT ![k] = v]

(* Sequence operations under a name: the provers match a lemma on names. *)
Anexa(s, v) == Append(s, v)

Unida(s, t) == s \o t

Permutada(s, n, p) == [k \in 1..n |-> s[p[k - 1] + 1]]

(* The array o with the m cells of w from its cell n on. *)
Pegada(o, n, w, m) == Copiar(o, n, w, 0, m)

(* A new array of c cells with m of o, from its cell i on. *)
Trozo(c, o, i, m) == Copiar(EnBlanco(c), 0, o, i, m)

(* A new array of c cells, the first n with the elements of v. *)
Rellena(c, n, v) == [k \in 0..(c - 1) |-> IF k < n THEN v[k + 1] ELSE Basura]

(* The array o with the value of the cell p[k] in each cell k below n. *)
Reordenada(o, n, p) == [k \in DOMAIN o |-> o[IF k < n THEN p[k] ELSE k]]

-----------------------------------------------------------------------------
(* Arrays and sequences *)

(* The elements of an array are a sequence.                                *)
LEMMA ElemsSeq ==
  ASSUME NEW o, NEW c, NEW n, NEW V, EsArreglo(o, c, n, V)
  PROVE  /\ Elems(o, n) \in Seq(V)
         /\ Len(Elems(o, n)) = n
         /\ \A k \in 1..n : Elems(o, n)[k] = o[k - 1]
<1>1. n \in Nat /\ \A k \in 0..(n - 1) : o[k] \in V
  BY DEF EsArreglo
<1>2. \A k \in 1..n : k - 1 \in 0..(n - 1)
  BY <1>1
<1>3. Elems(o, n) \in [1..n -> V]
  BY <1>1, <1>2 DEF Elems
<1>4. Elems(o, n) \in Seq(V)
  BY <1>1, <1>3, SeqDef
<1>5. DOMAIN Elems(o, n) = 1..n
  BY DEF Elems
<1>6. Len(Elems(o, n)) = n
  BY <1>1, <1>4, <1>5, LenProperties
<1> QED BY <1>4, <1>6 DEF Elems

(* An array holds the sequence whose elements its cells are. *)
LEMMA ElemsEs ==
  ASSUME NEW o, NEW c, NEW n, NEW V, EsArreglo(o, c, n, V),
         NEW s \in Seq(V), Len(s) = n, \A k \in 1..n : s[k] = o[k - 1]
  PROVE  Elems(o, n) = s
BY ElemsSeq, SeqEqual

(* Removing an element of a sequence moves the later ones one place down. *)
LEMMA RemoveAtProps ==
  ASSUME NEW V, NEW s \in Seq(V), NEW i \in 1..Len(s)
  PROVE  /\ Abstracta!RemoveAt(s, i) \in Seq(V)
         /\ Len(Abstracta!RemoveAt(s, i)) = Len(s) - 1
         /\ \A k \in 1..(Len(s) - 1) :
              Abstracta!RemoveAt(s, i)[k] = IF k < i THEN s[k] ELSE s[k + 1]
<1> DEFINE n == Len(s)
           u == SubSeq(s, 1, i - 1)
           w == SubSeq(s, i + 1, n)
<1>1. n \in Nat /\ \A k \in 1..n : s[k] \in V
  BY LenProperties, ElementOfSeq
<1>2. /\ u \in Seq(V) /\ Len(u) = i - 1
      /\ \A k \in 1..(i - 1) : u[k] = s[k]
  <2>1. 1 \in Int /\ i - 1 \in Int /\ \A k \in 1..(i - 1) : s[k] \in V
    BY <1>1
  <2>2. /\ u \in Seq(V) /\ Len(u) = IF 1 <= i - 1 THEN (i - 1) - 1 + 1 ELSE 0
        /\ \A k \in 1..((i - 1) - 1 + 1) : u[k] = s[1 + k - 1]
    BY <2>1, SubSeqProperties
  <2> HIDE DEF u
  <2> QED BY <1>1, <2>2
<1>3. /\ w \in Seq(V) /\ Len(w) = n - i
      /\ \A k \in 1..(n - i) : w[k] = s[i + k]
  <2>1. i + 1 \in Int /\ n \in Int /\ \A k \in (i + 1)..n : s[k] \in V
    BY <1>1
  <2>2. /\ w \in Seq(V) /\ Len(w) = IF i + 1 <= n THEN n - (i + 1) + 1 ELSE 0
        /\ \A k \in 1..(n - (i + 1) + 1) : w[k] = s[(i + 1) + k - 1]
    BY <2>1, SubSeqProperties
  <2> HIDE DEF w
  <2> QED BY <1>1, <2>2
<1>4. Abstracta!RemoveAt(s, i) = u \o w
  BY DEF Abstracta!RemoveAt
<1> HIDE DEF u, w
<1>5. /\ u \o w \in Seq(V) /\ Len(u \o w) = Len(u) + Len(w)
      /\ \A k \in 1..(Len(u) + Len(w)) :
           (u \o w)[k] = IF k <= Len(u) THEN u[k] ELSE w[k - Len(u)]
  BY <1>2, <1>3, ConcatProperties
<1>6. ASSUME NEW k \in 1..(n - 1)
      PROVE  (u \o w)[k] = IF k < i THEN s[k] ELSE s[k + 1]
  <2>1. CASE k < i
    BY <1>1, <1>2, <1>3, <1>5, <2>1
  <2>2. CASE ~(k < i)
    <3>1. k - (i - 1) \in 1..(n - i) /\ i + (k - (i - 1)) = k + 1
      BY <1>1, <2>2
    <3>2. (u \o w)[k] = w[k - (i - 1)]
      BY <1>1, <1>2, <1>3, <1>5, <2>2
    <3>3. w[k - (i - 1)] = s[i + (k - (i - 1))]
      BY <1>3, <3>1
    <3> QED BY <2>2, <3>1, <3>2, <3>3
  <2> QED BY <2>1, <2>2
<1> QED BY <1>1, <1>2, <1>3, <1>4, <1>5, <1>6

(* Inserting an element moves the later ones one place up. *)
LEMMA InsertAtProps ==
  ASSUME NEW V, NEW s \in Seq(V), NEW i \in 1..(Len(s) + 1), NEW e \in V
  PROVE  /\ Abstracta!InsertAt(s, i, e) \in Seq(V)
         /\ Len(Abstracta!InsertAt(s, i, e)) = Len(s) + 1
         /\ \A k \in 1..(Len(s) + 1) :
              Abstracta!InsertAt(s, i, e)[k] =
                IF k < i THEN s[k] ELSE IF k = i THEN e ELSE s[k - 1]
<1> DEFINE n == Len(s)
           u == SubSeq(s, 1, i - 1)
           w == SubSeq(s, i, n)
           m == <<e>>
<1>1. n \in Nat /\ i \in Int /\ \A k \in 1..n : s[k] \in V
  BY LenProperties, ElementOfSeq
<1>2. /\ u \in Seq(V) /\ Len(u) = i - 1
      /\ \A k \in 1..(i - 1) : u[k] = s[k]
  <2>1. 1 \in Int /\ i - 1 \in Int /\ \A k \in 1..(i - 1) : s[k] \in V
    BY <1>1
  <2>2. /\ u \in Seq(V) /\ Len(u) = IF 1 <= i - 1 THEN (i - 1) - 1 + 1 ELSE 0
        /\ \A k \in 1..((i - 1) - 1 + 1) : u[k] = s[1 + k - 1]
    BY <2>1, SubSeqProperties
  <2> HIDE DEF u
  <2> QED BY <1>1, <2>2
<1>3. /\ w \in Seq(V) /\ Len(w) = n - i + 1
      /\ \A k \in 1..(n - i + 1) : w[k] = s[i + k - 1]
  <2>1. i \in Int /\ n \in Int /\ \A k \in i..n : s[k] \in V
    BY <1>1
  <2>2. /\ w \in Seq(V) /\ Len(w) = IF i <= n THEN n - i + 1 ELSE 0
        /\ \A k \in 1..(n - i + 1) : w[k] = s[i + k - 1]
    BY <2>1, SubSeqProperties
  <2> HIDE DEF w
  <2> QED BY <1>1, <2>2
<1>4. m \in Seq(V) /\ Len(m) = 1 /\ m[1] = e
  OBVIOUS
<1>5. Abstracta!InsertAt(s, i, e) = (u \o m) \o w
  BY DEF Abstracta!InsertAt
<1> HIDE DEF u, w, m
<1>6. /\ u \o m \in Seq(V) /\ Len(u \o m) = i
      /\ \A k \in 1..i : (u \o m)[k] = IF k <= i - 1 THEN s[k] ELSE e
  <2>1. /\ u \o m \in Seq(V) /\ Len(u \o m) = Len(u) + Len(m)
        /\ \A k \in 1..(Len(u) + Len(m)) :
             (u \o m)[k] = IF k <= Len(u) THEN u[k] ELSE m[k - Len(u)]
    BY <1>2, <1>4, ConcatProperties
  <2> QED BY <1>1, <1>2, <1>4, <2>1
<1> DEFINE um == u \o m
<1>9. /\ um \in Seq(V) /\ Len(um) = i
      /\ \A k \in 1..i : um[k] = IF k <= i - 1 THEN s[k] ELSE e
  BY <1>6
<1> HIDE DEF um
<1>7. /\ um \o w \in Seq(V) /\ Len(um \o w) = Len(um) + Len(w)
      /\ \A k \in 1..(Len(um) + Len(w)) :
           (um \o w)[k] = IF k <= Len(um) THEN um[k] ELSE w[k - Len(um)]
  BY <1>3, <1>9, ConcatProperties
<1>8. ASSUME NEW k \in 1..(n + 1)
      PROVE  (um \o w)[k] = IF k < i THEN s[k] ELSE IF k = i THEN e ELSE s[k - 1]
  <2>1. CASE k <= i
    BY <1>1, <1>3, <1>9, <1>7, <2>1
  <2>2. CASE ~(k <= i)
    <3>1. k - i \in 1..(n - i + 1) /\ i + (k - i) - 1 = k - 1
      BY <1>1, <2>2
    <3>2. (um \o w)[k] = w[k - i]
      BY <1>1, <1>3, <1>9, <1>7, <2>2
    <3>3. w[k - i] = s[i + (k - i) - 1]
      BY <1>3, <3>1
    <3> QED BY <1>1, <2>2, <3>1, <3>2, <3>3
  <2> QED BY <1>1, <2>1, <2>2
<1> QED BY <1>1, <1>3, <1>5, <1>9, <1>7, <1>8 DEF um

-----------------------------------------------------------------------------
(* Every operation on an array is the operation on sequences it stands for. *)

(* Writing after the last cell is appending.                               *)
LEMMA ArregloFinal ==
  ASSUME NEW V \in SUBSET Celda, NEW o, NEW c, NEW n, EsArreglo(o, c, n, V),
         n + 1 <= c, NEW v \in V
  PROVE  /\ EsArreglo(Escrita(o, n, v), c, n + 1, V)
         /\ Elems(Escrita(o, n, v), n + 1) = Anexa(Elems(o, n), v)
<1> DEFINE d == Escrita(o, n, v)
           s == Append(Elems(o, n), v)
<1>1. /\ n \in Nat /\ c \in Nat /\ o \in [0..(c - 1) -> Celda] /\ v \in Celda
      /\ \A k \in 0..(n - 1) : o[k] \in V
  BY DEF EsArreglo
<1>2. /\ d \in [0..(c - 1) -> Celda] /\ d[n] = v
      /\ \A k \in 0..(n - 1) : d[k] = o[k]
  BY <1>1 DEF Escrita
<1> HIDE DEF d
<1>3. EsArreglo(d, c, n + 1, V)
  BY <1>1, <1>2 DEF EsArreglo
<1>4. /\ Elems(o, n) \in Seq(V) /\ Len(Elems(o, n)) = n
      /\ \A k \in 1..n : Elems(o, n)[k] = o[k - 1]
  BY ElemsSeq
<1>5. /\ s \in Seq(V) /\ Len(s) = n + 1 /\ s[n + 1] = v
      /\ \A k \in 1..n : s[k] = o[k - 1]
  BY <1>4, AppendProperties
<1> HIDE DEF s
<1>6. \A k \in 1..(n + 1) : s[k] = d[k - 1]
  BY <1>1, <1>2, <1>5
<1>7. Elems(d, n + 1) = s
  BY <1>3, <1>5, <1>6, ElemsEs
<1> QED BY <1>3, <1>7 DEF d, s, Anexa

(* Moving the cells after the i-th down is removing it.                    *)
LEMMA ArregloQuitar ==
  ASSUME NEW V \in SUBSET Celda, NEW o, NEW c, NEW n, EsArreglo(o, c, n, V),
         NEW i \in 0..(n - 1)
  PROVE  LET d == Copiar(o, i, o, i + 1, n - i - 1)
         IN /\ EsArreglo(d, c, n - 1, V)
            /\ Elems(d, n - 1) = Abstracta!RemoveAt(Elems(o, n), i + 1)
<1> DEFINE d == Copiar(o, i, o, i + 1, n - i - 1)
           s == Abstracta!RemoveAt(Elems(o, n), i + 1)
<1>1. /\ n \in Nat /\ c \in Nat /\ n <= c /\ o \in [0..(c - 1) -> Celda]
      /\ \A k \in 0..(n - 1) : o[k] \in V
  BY DEF EsArreglo
<1>2. /\ d \in [0..(c - 1) -> Celda]
      /\ \A k \in 0..(n - 2) : d[k] = IF k < i THEN o[k] ELSE o[k + 1]
  <2>1. d = [k \in 0..(c - 1) |-> IF i <= k /\ k < n - 1 THEN o[k + 1] ELSE o[k]]
    BY <1>1 DEF Copiar
  <2> HIDE DEF d
  <2> QED BY <1>1, <2>1
<1> HIDE DEF d
<1>3. EsArreglo(d, c, n - 1, V)
  <2>1. \A k \in 0..((n - 1) - 1) : d[k] \in V
    BY <1>1, <1>2
  <2> QED BY <1>1, <1>2, <2>1 DEF EsArreglo
<1>4. /\ Elems(o, n) \in Seq(V) /\ Len(Elems(o, n)) = n
      /\ \A k \in 1..n : Elems(o, n)[k] = o[k - 1]
  BY ElemsSeq
<1>5. /\ s \in Seq(V) /\ Len(s) = n - 1
      /\ \A k \in 1..(n - 1) :
           s[k] = IF k < i + 1 THEN Elems(o, n)[k] ELSE Elems(o, n)[k + 1]
  <2>1. i + 1 \in 1..Len(Elems(o, n))
    BY <1>1, <1>4
  <2> QED BY <1>4, <2>1, RemoveAtProps
<1> HIDE DEF s
<1>6. ASSUME NEW k \in 1..(n - 1)
      PROVE  s[k] = d[k - 1]
  <2>1. k - 1 \in 0..(n - 2) /\ k \in 1..n /\ k + 1 \in 1..n
    BY <1>1
  <2>2. d[k - 1] = IF k - 1 < i THEN o[k - 1] ELSE o[(k - 1) + 1]
    BY <1>2, <2>1
  <2>3. Elems(o, n)[k] = o[k - 1] /\ Elems(o, n)[k + 1] = o[(k + 1) - 1]
    BY <1>4, <2>1
  <2> QED BY <1>5, <2>1, <2>2, <2>3
<1>7. Elems(d, n - 1) = s
  BY <1>3, <1>5, <1>6, ElemsEs
<1> QED BY <1>3, <1>7 DEF d, s

(* Moving cells up and writing the gap is inserting.                       *)
LEMMA ArregloHueco ==
  ASSUME NEW V \in SUBSET Celda, NEW o, NEW c, NEW n, EsArreglo(o, c, n, V),
         n + 1 <= c, NEW v \in V, NEW p \in 0..n
  PROVE  LET d == [Copiar(o, p + 1, o, p, n - p) EXCEPT ![p] = v]
         IN /\ EsArreglo(d, c, n + 1, V)
            /\ Elems(d, n + 1) = Abstracta!InsertAt(Elems(o, n), p + 1, v)
<1> DEFINE m == Copiar(o, p + 1, o, p, n - p)
           d == [m EXCEPT ![p] = v]
           s == Abstracta!InsertAt(Elems(o, n), p + 1, v)
<1>1. /\ n \in Nat /\ c \in Nat /\ o \in [0..(c - 1) -> Celda] /\ v \in Celda
      /\ \A k \in 0..(n - 1) : o[k] \in V
  BY DEF EsArreglo
<1>2. /\ m \in [0..(c - 1) -> Celda]
      /\ \A k \in 0..n : m[k] = IF k < p + 1 THEN o[k] ELSE o[k - 1]
  <2>1. m = [k \in 0..(c - 1) |-> IF p + 1 <= k /\ k < n + 1 THEN o[k - 1] ELSE o[k]]
    BY <1>1 DEF Copiar
  <2> HIDE DEF m
  <2> QED BY <1>1, <2>1
<1> HIDE DEF m
<1>3. /\ d \in [0..(c - 1) -> Celda] /\ d[p] = v
      /\ \A k \in 0..n : k # p => d[k] = m[k]
  BY <1>1, <1>2
<1> HIDE DEF d
<1>4. EsArreglo(d, c, n + 1, V)
  <2>1. \A k \in 0..((n + 1) - 1) : d[k] \in V
    BY <1>1, <1>2, <1>3
  <2> QED BY <1>1, <1>3, <2>1 DEF EsArreglo
<1>5. /\ Elems(o, n) \in Seq(V) /\ Len(Elems(o, n)) = n
      /\ \A k \in 1..n : Elems(o, n)[k] = o[k - 1]
  BY ElemsSeq
<1>6. /\ s \in Seq(V) /\ Len(s) = n + 1
      /\ \A k \in 1..(n + 1) :
           s[k] = IF k < p + 1 THEN Elems(o, n)[k] ELSE
                  IF k = p + 1 THEN v ELSE Elems(o, n)[k - 1]
  <2>1. p + 1 \in 1..(Len(Elems(o, n)) + 1)
    BY <1>1, <1>5
  <2> QED BY <1>5, <2>1, InsertAtProps
<1> HIDE DEF s
<1>7. \A k \in 1..(n + 1) : s[k] = d[k - 1]
  BY <1>1, <1>2, <1>3, <1>5, <1>6
<1>8. Elems(d, n + 1) = s
  BY <1>4, <1>6, <1>7, ElemsEs
<1> QED BY <1>4, <1>8 DEF d, s, m

(* The second sequence after the first one, when there is room for both. *)
LEMMA ArregloUnion ==
  ASSUME NEW V \in SUBSET Celda, NEW o, NEW c, NEW n, EsArreglo(o, c, n, V),
         NEW w, NEW e, NEW m, EsArreglo(w, e, m, V), n + m <= c
  PROVE  /\ EsArreglo(Pegada(o, n, w, m), c, n + m, V)
         /\ Elems(Pegada(o, n, w, m), n + m) = Unida(Elems(o, n), Elems(w, m))
<1> DEFINE d == Copiar(o, n, w, 0, m)
           s == Elems(o, n) \o Elems(w, m)
<1>1. /\ n \in Nat /\ c \in Nat /\ o \in [0..(c - 1) -> Celda] /\ m \in Nat
      /\ \A k \in 0..(n - 1) : o[k] \in V
      /\ \A k \in 0..(m - 1) : w[k] \in V
  BY DEF EsArreglo
<1>2. /\ d \in [0..(c - 1) -> Celda]
      /\ \A k \in 0..(n - 1) : d[k] = o[k]
      /\ \A k \in n..(n + m - 1) : d[k] = w[k - n]
  <2>1. d = [k \in 0..(c - 1) |-> IF n <= k /\ k < n + m THEN w[k - n] ELSE o[k]]
    BY <1>1 DEF Copiar
  <2>2. \A k \in 0..(c - 1) : n <= k /\ k < n + m => w[k - n] \in Celda
    BY <1>1
  <2> HIDE DEF d
  <2> QED BY <1>1, <2>1, <2>2
<1> HIDE DEF d
<1>3. EsArreglo(d, c, n + m, V)
  <2>1. ASSUME NEW k \in 0..(n + m - 1)
        PROVE  d[k] \in V
    <3>1. CASE k < n
      BY <1>1, <1>2, <3>1
    <3>2. CASE ~(k < n)
      <4>1. k \in n..(n + m - 1) /\ k - n \in 0..(m - 1)
        BY <1>1, <3>2
      <4> QED BY <1>1, <1>2, <4>1
    <3> QED BY <3>1, <3>2
  <2> QED BY <1>1, <1>2, <2>1 DEF EsArreglo
<1>4. /\ Elems(o, n) \in Seq(V) /\ Len(Elems(o, n)) = n
      /\ \A k \in 1..n : Elems(o, n)[k] = o[k - 1]
      /\ Elems(w, m) \in Seq(V) /\ Len(Elems(w, m)) = m
      /\ \A k \in 1..m : Elems(w, m)[k] = w[k - 1]
  BY ElemsSeq
<1>5. /\ s \in Seq(V) /\ Len(s) = n + m
      /\ \A k \in 1..(n + m) :
           s[k] = IF k <= n THEN Elems(o, n)[k] ELSE Elems(w, m)[k - n]
  <2> DEFINE x == Elems(o, n)
             y == Elems(w, m)
  <2>1. x \in Seq(V) /\ Len(x) = n /\ y \in Seq(V) /\ Len(y) = m
    BY <1>4
  <2> HIDE DEF x, y
  <2>2. /\ x \o y \in Seq(V) /\ Len(x \o y) = Len(x) + Len(y)
        /\ \A k \in 1..(Len(x) + Len(y)) :
             (x \o y)[k] = IF k <= Len(x) THEN x[k] ELSE y[k - Len(x)]
    BY <2>1, ConcatProperties
  <2> QED BY <2>1, <2>2 DEF x, y
<1> HIDE DEF s
<1>6. ASSUME NEW k \in 1..(n + m)
      PROVE  s[k] = d[k - 1]
  <2>1. CASE k <= n
    BY <1>1, <1>2, <1>4, <1>5, <2>1
  <2>2. CASE ~(k <= n)
    <3>1. k - 1 \in n..(n + m - 1) /\ k - n \in 1..m /\ (k - 1) - n = (k - n) - 1
      BY <1>1, <2>2
    <3>2. s[k] = Elems(w, m)[k - n]
      BY <1>5, <2>2
    <3>3. Elems(w, m)[k - n] = w[(k - n) - 1]
      BY <1>4, <3>1
    <3>4. d[k - 1] = w[(k - 1) - n]
      BY <1>2, <3>1
    <3> QED BY <3>1, <3>2, <3>3, <3>4
  <2> QED BY <2>1, <2>2
<1>7. Elems(d, n + m) = s
  BY <1>3, <1>5, <1>6, ElemsEs
<1> QED BY <1>3, <1>7 DEF d, s, Pegada, Unida

(* m elements from the cell i on, copied to a new array. *)
LEMMA ArregloTrozo ==
  ASSUME NEW V \in SUBSET Celda, NEW o, NEW e, NEW n, EsArreglo(o, e, n, V),
         NEW c \in Nat, NEW i \in Nat, NEW m \in Nat, i + m <= n, m <= c
  PROVE  /\ EsArreglo(Trozo(c, o, i, m), c, m, V)
         /\ \A k \in 0..(m - 1) : Trozo(c, o, i, m)[k] = o[k + i]
<1> DEFINE d == Trozo(c, o, i, m)
<1>1. n \in Nat /\ \A k \in 0..(n - 1) : o[k] \in V
  BY DEF EsArreglo
<1>2. DOMAIN EnBlanco(c) = 0..(c - 1) /\ \A k \in 0..(c - 1) : EnBlanco(c)[k] = Basura
  BY DEF EnBlanco
<1>3. d = [k \in 0..(c - 1) |-> IF k < m THEN o[k + i] ELSE Basura]
  BY <1>2 DEF Trozo, Copiar
<1>4. \A k \in 0..(m - 1) : k + i \in 0..(n - 1)
  BY <1>1
<1> HIDE DEF d
<1>5. Basura \in Celda
  BY DEF Celda
<1>6. \A k \in 0..(c - 1) : d[k] \in Celda
  BY <1>1, <1>3, <1>4, <1>5
<1>7. d \in [0..(c - 1) -> Celda] /\ \A k \in 0..(m - 1) : d[k] = o[k + i] /\ d[k] \in V
  BY <1>1, <1>3, <1>4, <1>6
<1>8. EsArreglo(d, c, m, V)
  BY <1>7 DEF EsArreglo
<1> QED BY <1>7, <1>8 DEF d

(* A copy of all the elements in a new array. *)
LEMMA ArregloCopia ==
  ASSUME NEW V \in SUBSET Celda, NEW o, NEW e, NEW n, EsArreglo(o, e, n, V),
         NEW c \in Nat, n <= c
  PROVE  /\ EsArreglo(Trozo(c, o, 0, n), c, n, V)
         /\ Elems(Trozo(c, o, 0, n), n) = Elems(o, n)
<1> DEFINE d == Trozo(c, o, 0, n)
<1>1. n \in Nat /\ 0 \in Nat /\ 0 + n <= n
  BY DEF EsArreglo
<1>2. EsArreglo(d, c, n, V) /\ \A k \in 0..(n - 1) : d[k] = o[k + 0]
  BY <1>1, ArregloTrozo
<1> HIDE DEF d
<1>3. \A k \in 1..n : d[k - 1] = o[k - 1]
  BY <1>1, <1>2
<1>4. Elems(d, n) = Elems(o, n)
  BY <1>3 DEF Elems
<1> QED BY <1>2, <1>4 DEF d

(* A copy of the elements from i + 1 to j of the sequence. *)
Parte(s, i, j) == SubSeq(s, i + 1, j)

(* Copying cells out is taking a part of the sequence.                     *)
LEMMA ArregloParte ==
  ASSUME NEW V \in SUBSET Celda, NEW o, NEW e, NEW n, EsArreglo(o, e, n, V),
         NEW c \in Nat, NEW i \in Nat, NEW m \in Nat, NEW j, j = i + m, j <= n, m <= c
  PROVE  /\ EsArreglo(Trozo(c, o, i, m), c, m, V)
         /\ Elems(Trozo(c, o, i, m), m) = Parte(Elems(o, n), i, j)
<1> DEFINE d == Trozo(c, o, i, m)
           s == Elems(o, n)
           t == SubSeq(s, i + 1, j)
<1>1. /\ s \in Seq(V) /\ Len(s) = n /\ n \in Nat
      /\ \A k \in 1..n : s[k] = o[k - 1] /\ s[k] \in V
  <2>1. n \in Nat /\ s \in Seq(V) /\ Len(s) = n /\ \A k \in 1..n : s[k] = o[k - 1]
    BY ElemsSeq DEF EsArreglo
  <2> HIDE DEF s
  <2> QED BY <2>1, ElementOfSeq
<1>2. i + m <= n
  OBVIOUS
<1>3. EsArreglo(d, c, m, V) /\ \A k \in 0..(m - 1) : d[k] = o[k + i]
  BY <1>2, ArregloTrozo
<1> HIDE DEF d, s
<1>4. t \in Seq(V) /\ Len(t) = m /\ \A k \in 1..m : t[k] = s[i + k]
  <2>1. i + 1 \in Int /\ j \in Int /\ \A k \in (i + 1)..j : s[k] \in V
    BY <1>1
  <2>2. /\ t \in Seq(V)
        /\ Len(t) = IF i + 1 <= j THEN j - (i + 1) + 1 ELSE 0
        /\ \A k \in 1..(j - (i + 1) + 1) : t[k] = s[(i + 1) + k - 1]
    BY <2>1, SubSeqProperties
  <2> HIDE DEF t
  <2>3. j - (i + 1) + 1 = m /\ (m = 0 => ~ i + 1 <= j)
    OBVIOUS
  <2>4. m # 0 => i + 1 <= j
    OBVIOUS
  <2>5. Len(t) = m
    BY <2>2, <2>3, <2>4
  <2>6. ASSUME NEW k \in 1..m
        PROVE  t[k] = s[i + k]
    <3>1. k \in 1..(j - (i + 1) + 1)
      BY <2>3
    <3>2. (i + 1) + k - 1 = i + k
      OBVIOUS
    <3> QED BY <2>2, <3>1, <3>2
  <2> QED BY <2>2, <2>5, <2>6
<1> HIDE DEF t
<1>5. ASSUME NEW k \in 1..m
      PROVE  t[k] = d[k - 1]
  <2>1. k - 1 \in 0..(m - 1) /\ i + k \in 1..n /\ (k - 1) + i = (i + k) - 1
    BY <1>1
  <2>2. d[k - 1] = o[(k - 1) + i] /\ t[k] = s[i + k] /\ s[i + k] = o[(i + k) - 1]
    BY <1>1, <1>3, <1>4, <2>1
  <2> QED BY <2>1, <2>2
<1>6. Elems(d, m) = t
  BY <1>3, <1>4, <1>5, ElemsEs
<1> QED BY <1>3, <1>6 DEF d, s, t, Parte

(* Nothing copied to a new array: an empty sequence. *)
LEMMA ArregloVacio ==
  ASSUME NEW V, NEW o, NEW i, NEW c \in Nat
  PROVE  EsArreglo(Trozo(c, o, i, 0), c, 0, V) /\ Elems(Trozo(c, o, i, 0), 0) = <<>>
<1> DEFINE d == Trozo(c, o, i, 0)
<1>1. d = [k \in 0..(c - 1) |-> Basura]
  BY DEF Trozo, Copiar, EnBlanco
<1> HIDE DEF d
<1>2. EsArreglo(d, c, 0, V)
  BY <1>1 DEF EsArreglo, Celda
<1>3. <<>> \in Seq(V) /\ Len(<<>>) = 0 /\ \A k \in 1..0 : <<>>[k] = d[k - 1]
  OBVIOUS
<1>4. Elems(d, 0) = <<>>
  BY <1>2, <1>3, ElemsEs
<1> QED BY <1>2, <1>4 DEF d

(* A new block has room for its elements, and for one at least.            *)
LEMMA ReservaTipo ==
  ASSUME NEW n \in Nat
  PROVE  Reserva(n) \in Nat /\ Reserva(n) > 0 /\ n <= Reserva(n)
BY DEF Reserva

(* realloc keeps every cell. *)
LEMMA ArregloCrecido ==
  ASSUME NEW V \in SUBSET Celda, NEW o, NEW c, NEW n, EsArreglo(o, c, n, V),
         NEW m \in Nat, c <= m
  PROVE  LET d == Copiar(EnBlanco(m), 0, o, 0, c)
         IN EsArreglo(d, m, n, V) /\ Elems(d, n) = Elems(o, n)
<1> DEFINE d == Copiar(EnBlanco(m), 0, o, 0, c)
<1>1. /\ n \in Nat /\ c \in Nat /\ n <= c /\ o \in [0..(c - 1) -> Celda]
      /\ \A k \in 0..(n - 1) : o[k] \in V
  BY DEF EsArreglo
<1>2. DOMAIN EnBlanco(m) = 0..(m - 1) /\ \A k \in 0..(m - 1) : EnBlanco(m)[k] = Basura
  BY DEF EnBlanco
<1>3. d = [k \in 0..(m - 1) |-> IF k < c THEN o[k] ELSE Basura]
  BY <1>1, <1>2 DEF Copiar
<1> HIDE DEF d
<1>4. d \in [0..(m - 1) -> Celda] /\ \A k \in 0..(n - 1) : d[k] = o[k]
  BY <1>1, <1>3 DEF Celda
<1>5. EsArreglo(d, m, n, V)
  BY <1>1, <1>4 DEF EsArreglo
<1>6. \A k \in 1..n : k - 1 \in 0..(n - 1)
  BY <1>1
<1>7. Elems(d, n) = Elems(o, n)
  BY <1>4, <1>6 DEF Elems
<1> QED BY <1>5, <1>7 DEF d

(* A new array: n cells hold v[1], ..., v[n]; the rest is garbage. *)
LEMMA ArregloNuevo ==
  ASSUME NEW V \in SUBSET Celda, NEW n \in Nat, NEW c \in Nat, n <= c,
         NEW v \in [1..n -> V]
  PROVE  EsArreglo(Rellena(c, n, v), c, n, V) /\ Elems(Rellena(c, n, v), n) = v
<1> DEFINE d == Rellena(c, n, v)
<1>1. \A k \in 0..(n - 1) : v[k + 1] \in V
  OBVIOUS
<1>2. d \in [0..(c - 1) -> Celda] /\ \A k \in 0..(n - 1) : d[k] = v[k + 1]
  BY <1>1 DEF Celda, Rellena
<1> HIDE DEF d
<1>3. EsArreglo(d, c, n, V)
  BY <1>1, <1>2 DEF EsArreglo
<1>4. \A k \in 1..n : d[k - 1] = v[k]
  BY <1>2
<1>5. Elems(d, n) = v
  BY <1>4 DEF Elems
<1> QED BY <1>3, <1>5 DEF d

(* Writing a cell is replacing an element.                                 *)
LEMMA ArregloPoner ==
  ASSUME NEW V \in SUBSET Celda, NEW o, NEW c, NEW n, EsArreglo(o, c, n, V),
         NEW v \in V, NEW p \in 0..(n - 1)
  PROVE  /\ EsArreglo(Escrita(o, p, v), c, n, V)
         /\ Elems(Escrita(o, p, v), n) = Escrita(Elems(o, n), p + 1, v)
<1> DEFINE d == Escrita(o, p, v)
<1>1. /\ n \in Nat /\ c \in Nat /\ n <= c /\ o \in [0..(c - 1) -> Celda] /\ v \in Celda
      /\ \A k \in 0..(n - 1) : o[k] \in V
  BY DEF EsArreglo
<1>2. /\ d \in [0..(c - 1) -> Celda] /\ d[p] = v
      /\ \A k \in 0..(n - 1) : k # p => d[k] = o[k]
  BY <1>1 DEF Escrita
<1> HIDE DEF d
<1>3. EsArreglo(d, c, n, V)
  BY <1>1, <1>2 DEF EsArreglo
<1>4. \A k \in 1..n : d[k - 1] = IF k = p + 1 THEN v ELSE o[k - 1]
  BY <1>1, <1>2
<1>5. Elems(d, n) = Escrita(Elems(o, n), p + 1, v)
  BY <1>1, <1>4 DEF Elems, Escrita
<1> QED BY <1>3, <1>5 DEF d

(* Reading the cells in another order. *)
LEMMA ArregloPermutado ==
  ASSUME NEW V \in SUBSET Celda, NEW o, NEW c, NEW n, EsArreglo(o, c, n, V),
         NEW p \in [0..(n - 1) -> 0..(n - 1)]
  PROVE  /\ EsArreglo(Reordenada(o, n, p), c, n, V)
         /\ Elems(Reordenada(o, n, p), n) = Permutada(Elems(o, n), n, p)
<1> DEFINE d == Reordenada(o, n, p)
<1>1. /\ n \in Nat /\ c \in Nat /\ n <= c /\ o \in [0..(c - 1) -> Celda]
      /\ \A k \in 0..(n - 1) : o[k] \in V
  BY DEF EsArreglo
<1>2. \A k \in 0..(n - 1) : p[k] \in 0..(n - 1) /\ p[k] \in 0..(c - 1)
  BY <1>1
<1>3. d \in [0..(c - 1) -> Celda] /\ \A k \in 0..(n - 1) : d[k] = o[p[k]]
  BY <1>1, <1>2 DEF Reordenada
<1> HIDE DEF d
<1>4. EsArreglo(d, c, n, V)
  BY <1>1, <1>2, <1>3 DEF EsArreglo
<1>5. ASSUME NEW k \in 1..n
      PROVE  d[k - 1] = Elems(o, n)[p[k - 1] + 1]
  <2>1. k - 1 \in 0..(n - 1)
    BY <1>1
  <2>2. p[k - 1] + 1 \in 1..n /\ (p[k - 1] + 1) - 1 = p[k - 1]
    BY <1>1, <1>2, <2>1
  <2>3. Elems(o, n)[p[k - 1] + 1] = o[(p[k - 1] + 1) - 1]
    BY <2>2, ElemsSeq
  <2> QED BY <1>3, <2>1, <2>2, <2>3
<1>6. Elems(d, n) = [k \in 1..n |-> Elems(o, n)[p[k - 1] + 1]]
  BY <1>5 DEF Elems
<1> QED BY <1>4, <1>6 DEF d, Permutada

-----------------------------------------------------------------------------
(* Blocks *)

(* A block of an array has the elements of the array.                      *)
LEMMA BloqueCon ==
  ASSUME NEW V, NEW d, NEW c, NEW n, EsArreglo(d, c, n, V), c > 0
  PROVE  LET l == [longitud |-> n, capacidad |-> c, datos |-> d]
         IN EsBloque(l, V) /\ Contenido(l) = Elems(d, n)
BY DEF EsBloque, Contenido, Elems

(* So does a block whose array is replaced in place.                       *)
LEMMA EnElSitioCon ==
  ASSUME NEW V, NEW g, NEW n, NEW d, EsBloque(g, V), EsArreglo(d, g.capacidad, n, V)
  PROVE  /\ EsBloque(EnElSitio(g, n, d), V)
         /\ Contenido(EnElSitio(g, n, d)) = Elems(d, n)
<1>1. g.capacidad > 0
  BY DEF EsBloque
<1> QED BY <1>1, BloqueCon DEF EnElSitio

(* The elements of a block are a sequence of values of V. *)
LEMMA ContenidoSeq ==
  ASSUME NEW V, NEW l, EsBloque(l, V)
  PROVE  /\ l.longitud \in Nat /\ l.capacidad \in Nat
         /\ EsArreglo(l.datos, l.capacidad, l.longitud, V)
         /\ Contenido(l) = Elems(l.datos, l.longitud)
         /\ Contenido(l) \in Seq(V)
         /\ Len(Contenido(l)) = l.longitud
<1>1. EsArreglo(l.datos, l.capacidad, l.longitud, V)
  BY DEF EsBloque
<1>2. Contenido(l) = Elems(l.datos, l.longitud)
  BY DEF Contenido, Elems
<1>3. l.longitud \in Nat /\ l.capacidad \in Nat
  BY <1>1 DEF EsArreglo
<1> QED BY <1>1, <1>2, <1>3, ElemsSeq

(* A block of some values is a block of more.                              *)
LEMMA BloqueMayor ==
  ASSUME NEW l, NEW V, NEW W, EsBloque(l, V), V \subseteq W
  PROVE  EsBloque(l, W)
BY DEF EsBloque, EsArreglo

(* lista_crecer leaves room for the elements to come and keeps the rest. *)
LEMMA CrecidaBloque ==
  ASSUME NEW V \in SUBSET Celda, NEW l, EsBloque(l, V), NEW extra \in Nat,
         NEW g \in Crecidas(l, extra)
  PROVE  /\ EsBloque(g, V)
         /\ g.longitud = l.longitud
         /\ g.longitud + extra <= g.capacidad
         /\ Contenido(g) = Contenido(l)
<1>1. /\ EsArreglo(l.datos, l.capacidad, l.longitud, V) /\ l.capacidad > 0
      /\ l.longitud \in Nat /\ l.capacidad \in Nat
      /\ Contenido(l) = Elems(l.datos, l.longitud)
  BY ContenidoSeq DEF EsBloque
<1>2. CASE l.longitud + extra <= l.capacidad
  BY <1>1, <1>2 DEF Crecidas
<1>3. CASE ~(l.longitud + extra <= l.capacidad)
  <2>1. PICK n \in (l.longitud + extra)..(2 * (l.longitud + extra)) : g = Realojar(l, n)
    BY <1>3 DEF Crecidas
  <2>2. n \in Nat /\ l.capacidad <= n /\ l.longitud + extra <= n /\ n > 0
    BY <1>1, <1>3
  <2> DEFINE d == Copiar(EnBlanco(n), 0, l.datos, 0, l.capacidad)
  <2>3. EsArreglo(d, n, l.longitud, V) /\ Elems(d, l.longitud) = Elems(l.datos, l.longitud)
    BY <1>1, <2>2, ArregloCrecido
  <2>4. g = [longitud |-> l.longitud, capacidad |-> n, datos |-> d]
    BY <2>1 DEF Realojar
  <2> HIDE DEF d
  <2>5. EsBloque(g, V) /\ Contenido(g) = Elems(d, l.longitud)
    BY <2>2, <2>3, <2>4, BloqueCon
  <2> QED BY <1>1, <2>2, <2>3, <2>4, <2>5
<1> QED BY <1>2, <1>3

(* Adding at the end of a block with room is appending.                    *)
LEMMA AlFinalBloque ==
  ASSUME NEW V \in SUBSET Celda, NEW g, EsBloque(g, V), NEW v \in V,
         g.longitud + 1 <= g.capacidad
  PROVE  /\ EsBloque(AlFinal(g, v), V)
         /\ Contenido(AlFinal(g, v)) = Anexa(Contenido(g), v)
<1> DEFINE d == Escrita(g.datos, g.longitud, v)
           s == Anexa(Elems(g.datos, g.longitud), v)
<1>1. /\ EsArreglo(g.datos, g.capacidad, g.longitud, V)
      /\ Contenido(g) = Elems(g.datos, g.longitud)
  BY ContenidoSeq
<1>2. EsArreglo(d, g.capacidad, g.longitud + 1, V) /\ Elems(d, g.longitud + 1) = s
  BY <1>1, ArregloFinal
<1> HIDE DEF d, s
<1>3. EsBloque(EnElSitio(g, g.longitud + 1, d), V) /\ Contenido(EnElSitio(g, g.longitud + 1, d)) = s
  BY <1>2, EnElSitioCon
<1> QED BY <1>1, <1>3 DEF AlFinal, Escrita, d, s

(* Removing a cell of a block is removing an element.                      *)
LEMMA QuitarBloque ==
  ASSUME NEW V \in SUBSET Celda, NEW l, EsBloque(l, V), NEW i \in 0..(l.longitud - 1)
  PROVE  /\ EsBloque(Quitar(l, i), V)
         /\ Contenido(Quitar(l, i)) = Abstracta!RemoveAt(Contenido(l), i + 1)
<1> DEFINE d == Copiar(l.datos, i, l.datos, i + 1, l.longitud - i - 1)
           s == Abstracta!RemoveAt(Elems(l.datos, l.longitud), i + 1)
<1>1. /\ EsArreglo(l.datos, l.capacidad, l.longitud, V)
      /\ Contenido(l) = Elems(l.datos, l.longitud)
  BY ContenidoSeq
<1>2. EsArreglo(d, l.capacidad, l.longitud - 1, V) /\ Elems(d, l.longitud - 1) = s
  BY <1>1, ArregloQuitar
<1> HIDE DEF d, s
<1>3. EsBloque(EnElSitio(l, l.longitud - 1, d), V) /\ Contenido(EnElSitio(l, l.longitud - 1, d)) = s
  BY <1>2, EnElSitioCon
<1> QED BY <1>1, <1>3 DEF Quitar, d, s

(* Inserting in a block with room is inserting an element.                 *)
LEMMA HuecoBloque ==
  ASSUME NEW V \in SUBSET Celda, NEW g, EsBloque(g, V), NEW v \in V,
         g.longitud + 1 <= g.capacidad, NEW p \in 0..g.longitud
  PROVE  /\ EsBloque(ConHueco(g, p, v), V)
         /\ Contenido(ConHueco(g, p, v)) = Abstracta!InsertAt(Contenido(g), p + 1, v)
<1> DEFINE d == [Copiar(g.datos, p + 1, g.datos, p, g.longitud - p) EXCEPT ![p] = v]
           s == Abstracta!InsertAt(Elems(g.datos, g.longitud), p + 1, v)
<1>1. /\ EsArreglo(g.datos, g.capacidad, g.longitud, V)
      /\ Contenido(g) = Elems(g.datos, g.longitud)
  BY ContenidoSeq
<1>2. EsArreglo(d, g.capacidad, g.longitud + 1, V) /\ Elems(d, g.longitud + 1) = s
  BY <1>1, ArregloHueco
<1> HIDE DEF d, s
<1>3. EsBloque(EnElSitio(g, g.longitud + 1, d), V) /\ Contenido(EnElSitio(g, g.longitud + 1, d)) = s
  BY <1>2, EnElSitioCon
<1> QED BY <1>1, <1>3 DEF ConHueco, d, s

(* Writing a cell of a block is replacing an element.                      *)
LEMMA PonerBloque ==
  ASSUME NEW V \in SUBSET Celda, NEW l, EsBloque(l, V), NEW v \in V,
         NEW p \in 0..(l.longitud - 1)
  PROVE  LET r == EnElSitio(l, l.longitud, Escrita(l.datos, p, v))
         IN EsBloque(r, V) /\ Contenido(r) = Escrita(Contenido(l), p + 1, v)
<1> DEFINE d == Escrita(l.datos, p, v)
           s == Escrita(Elems(l.datos, l.longitud), p + 1, v)
<1>1. /\ EsArreglo(l.datos, l.capacidad, l.longitud, V)
      /\ Contenido(l) = Elems(l.datos, l.longitud)
  BY ContenidoSeq
<1>2. EsArreglo(d, l.capacidad, l.longitud, V) /\ Elems(d, l.longitud) = s
  BY <1>1, ArregloPoner
<1> HIDE DEF d, s
<1>3. EsBloque(EnElSitio(l, l.longitud, d), V) /\ Contenido(EnElSitio(l, l.longitud, d)) = s
  BY <1>2, EnElSitioCon
<1> QED BY <1>1, <1>3 DEF d, s

(* Copying a block after another is concatenating.                         *)
LEMMA SeguidoBloque ==
  ASSUME NEW V \in SUBSET Celda, NEW g, EsBloque(g, V), NEW l, EsBloque(l, V),
         g.longitud + l.longitud <= g.capacidad
  PROVE  /\ EsBloque(Seguido(g, l), V)
         /\ Contenido(Seguido(g, l)) = Unida(Contenido(g), Contenido(l))
<1> DEFINE d == Pegada(g.datos, g.longitud, l.datos, l.longitud)
           s == Unida(Elems(g.datos, g.longitud), Elems(l.datos, l.longitud))
<1>1. /\ EsArreglo(g.datos, g.capacidad, g.longitud, V)
      /\ Contenido(g) = Elems(g.datos, g.longitud)
      /\ EsArreglo(l.datos, l.capacidad, l.longitud, V)
      /\ Contenido(l) = Elems(l.datos, l.longitud)
  BY ContenidoSeq
<1>2. EsArreglo(d, g.capacidad, g.longitud + l.longitud, V) /\ Elems(d, g.longitud + l.longitud) = s
  BY <1>1, ArregloUnion
<1> HIDE DEF d, s
<1>3. EsBloque(EnElSitio(g, g.longitud + l.longitud, d), V) /\ Contenido(EnElSitio(g, g.longitud + l.longitud, d)) = s
  BY <1>2, EnElSitioCon
<1> QED BY <1>1, <1>3 DEF Seguido, Pegada, d, s

(* Permuting the cells of a block permutes the elements.                   *)
LEMMA PermutadoBloque ==
  ASSUME NEW V \in SUBSET Celda, NEW l, EsBloque(l, V),
         NEW p \in [0..(l.longitud - 1) -> 0..(l.longitud - 1)]
  PROVE  /\ EsBloque(Permutado(l, p), V)
         /\ Contenido(Permutado(l, p)) = Permutada(Contenido(l), l.longitud, p)
<1> DEFINE d == Reordenada(l.datos, l.longitud, p)
           s == Permutada(Elems(l.datos, l.longitud), l.longitud, p)
<1>1. /\ EsArreglo(l.datos, l.capacidad, l.longitud, V)
      /\ Contenido(l) = Elems(l.datos, l.longitud)
  BY ContenidoSeq
<1>2. EsArreglo(d, l.capacidad, l.longitud, V) /\ Elems(d, l.longitud) = s
  BY <1>1, ArregloPermutado
<1> HIDE DEF d, s
<1>3. EsBloque(EnElSitio(l, l.longitud, d), V) /\ Contenido(EnElSitio(l, l.longitud, d)) = s
  BY <1>2, EnElSitioCon
<1> QED BY <1>1, <1>3 DEF Permutado, Reordenada, d, s

-------------------------------------------------------------------------
(*************************************************************************)
(* Every operation of the list library keeps the blocks well formed and  *)
(* does to them what the operation of ListasAbstractas does to sequences *)
(* whatever lists are shared.                                            *)
(*************************************************************************)

(* What the invariant says of one list and of its sequence. *)
LEMMA DeSec ==
  ASSUME Inv, NEW a \in DOMAIN listas
  PROVE  /\ a \in DOMAIN Sec /\ a \in Ids
         /\ Sec[a] = Contenido(listas[a])
         /\ EsBloque(listas[a], Vivos)
         /\ listas[a].longitud \in Nat
         /\ Sec[a] \in Seq(Vivos)
         /\ Len(Sec[a]) = listas[a].longitud
<1>1. Sec[a] = Contenido(listas[a]) /\ a \in DOMAIN Sec
  BY DEF Sec
<1>2. EsBloque(listas[a], Vivos) /\ a \in Ids
  BY DEF Inv
<1> QED BY <1>1, <1>2, ContenidoSeq

(* The abstract lists are those alive.                                     *)
LEMMA DeVivos ==
  ASSUME Inv
  PROVE  /\ DOMAIN Sec = DOMAIN listas
         /\ Abstracta!Vivos = Vivos
         /\ Vivos \in SUBSET Celda
<1>1. DOMAIN Sec = DOMAIN listas
  BY DEF Sec
<1>2. Abstracta!Vivos = Vivos
  BY <1>1 DEF Abstracta!Vivos, Vivos, Abstracta!Escalares, Escalares
<1>3. Vivos \in SUBSET Celda
  BY DEF Inv, Vivos, Celda, Valores
<1> QED BY <1>1, <1>2, <1>3

(* A list changes and the rest stay. *)
LEMMA PasoCambia ==
  ASSUME Inv, NEW a \in DOMAIN listas, NEW l, EsBloque(l, Vivos), Cambia(a, l)
  PROVE  Inv' /\ Abstracta!Cambia(a, Contenido(l))
<1>1. /\ listas' = [x \in DOMAIN listas |-> IF x = a THEN l ELSE listas[x]]
      /\ estado' = estado
  BY DEF Cambia, Inv
<1>2. DOMAIN listas' = DOMAIN listas
  BY <1>1
<1>3. Vivos' = Vivos
  BY <1>2 DEF Vivos
<1>4. \A x \in DOMAIN listas' : EsBloque(listas'[x], Vivos')
  BY <1>1, <1>2, <1>3 DEF Inv
<1>5. Inv'
  <2>1. listas' = [x \in DOMAIN listas' |-> listas'[x]]
    BY <1>1
  <2>2. estado' \in {"corre", "abortado"} /\ DOMAIN listas' \subseteq Ids
    BY <1>1, <1>2 DEF Inv
  <2> QED BY <1>4, <2>1, <2>2 DEF Inv, EsBloque, EsArreglo
<1>6. Sec' = [x \in DOMAIN listas |-> IF x = a THEN Contenido(l) ELSE Contenido(listas[x])]
  BY <1>1, <1>2 DEF Sec
<1>7. Sec' = [Sec EXCEPT ![a] = Contenido(l)]
  BY <1>6 DEF Sec
<1> QED BY <1>1, <1>5, <1>7 DEF Abstracta!Cambia

(* A new list at a free address. *)
LEMMA PasoNueva ==
  ASSUME Inv, NEW id \in Ids, id \notin DOMAIN listas, NEW l, EsBloque(l, Vivos),
         Nueva(id, l)
  PROVE  Inv' /\ Abstracta!Nueva(id, Contenido(l))
<1>1. /\ listas' = [x \in DOMAIN listas \cup {id} |-> IF x = id THEN l ELSE listas[x]]
      /\ estado' = estado
  BY DEF Nueva
<1>2. DOMAIN listas' = DOMAIN listas \cup {id}
  BY <1>1
<1>3. Vivos \subseteq Vivos'
  BY <1>2 DEF Vivos
<1>4. \A x \in DOMAIN listas' : EsBloque(listas'[x], Vivos')
  <2>1. \A x \in DOMAIN listas' : EsBloque(listas'[x], Vivos)
    BY <1>1, <1>2 DEF Inv
  <2> QED BY <2>1, <1>3, BloqueMayor
<1>5. Inv'
  <2>1. listas' = [x \in DOMAIN listas' |-> listas'[x]]
    BY <1>1
  <2>2. estado' \in {"corre", "abortado"} /\ DOMAIN listas' \subseteq Ids
    BY <1>1, <1>2 DEF Inv
  <2> QED BY <1>4, <2>1, <2>2 DEF Inv, EsBloque, EsArreglo
<1>6. Sec' = [x \in DOMAIN listas \cup {id} |->
                IF x = id THEN Contenido(l) ELSE Contenido(listas[x])]
  BY <1>1, <1>2 DEF Sec
<1>7. Sec' = [x \in DOMAIN Sec \cup {id} |-> IF x = id THEN Contenido(l) ELSE Sec[x]]
  <2>1. DOMAIN Sec = DOMAIN listas /\ \A x \in DOMAIN listas : Sec[x] = Contenido(listas[x])
    BY DEF Sec
  <2> QED BY <1>6, <2>1
<1> QED BY <1>1, <1>5, <1>7 DEF Abstracta!Nueva

-----------------------------------------------------------------------------
(* The operations that modify a list *)

(* Each operation that modifies a list does what the sequence does: agregar. *)
LEMMA PasoAgregar ==
  ASSUME Inv, NEW a \in DOMAIN listas, Agregar(a)
  PROVE  Inv' /\ Abstracta!Agregar(a)
<1>1. PICK v \in Vivos : \E g \in Crecidas(listas[a], 1) : Cambia(a, AlFinal(g, v))
  BY DEF Agregar
<1>2. PICK g \in Crecidas(listas[a], 1) : Cambia(a, AlFinal(g, v))
  BY <1>1
<1>3. /\ EsBloque(g, Vivos) /\ g.longitud + 1 <= g.capacidad
      /\ Contenido(g) = Sec[a]
  BY DeSec, DeVivos, CrecidaBloque
<1>4. EsBloque(AlFinal(g, v), Vivos) /\ Contenido(AlFinal(g, v)) = Anexa(Sec[a], v)
  BY <1>3, DeVivos, AlFinalBloque
<1>5. Inv' /\ Abstracta!Cambia(a, Anexa(Sec[a], v))
  BY <1>2, <1>4, PasoCambia
<1> QED BY <1>5, DeVivos DEF Abstracta!Agregar, Anexa

(* eliminar.                                                               *)
LEMMA PasoEliminar ==
  ASSUME Inv, NEW a \in DOMAIN listas, Eliminar(a)
  PROVE  Inv' /\ Abstracta!Eliminar(a)
<1> DEFINE n == listas[a].longitud
           d == listas[a].datos
<1>0. PICK v \in Vivos : \E i \in Primeras(listas[a], v) : Cambia(a, Quitar(listas[a], i))
  BY DEF Eliminar
<1>1. PICK i \in Primeras(listas[a], v) : Cambia(a, Quitar(listas[a], i))
  BY <1>0
<1>2. /\ i \in 0..(n - 1) /\ SonIguales(d[i], v)
      /\ \A j \in 0..(i - 1) : ~SonIguales(d[j], v)
  BY DEF Primeras
<1>3. EsBloque(Quitar(listas[a], i), Vivos)
      /\ Contenido(Quitar(listas[a], i)) = Abstracta!RemoveAt(Sec[a], i + 1)
  BY <1>2, DeSec, DeVivos, QuitarBloque
<1>4. Inv' /\ Abstracta!Cambia(a, Abstracta!RemoveAt(Sec[a], i + 1))
  BY <1>1, <1>3, PasoCambia
<1>5. /\ n \in Nat /\ DOMAIN Sec[a] = 1..n
      /\ \A k \in 1..n : Sec[a][k] = d[k - 1]
  BY DeSec DEF Contenido
<1> HIDE DEF n, d
<1>6. i + 1 \in DOMAIN Sec[a] /\ Abstracta!SonIguales(Sec[a][i + 1], v)
  BY <1>2, <1>5 DEF SonIguales, Abstracta!SonIguales
<1>7. ASSUME NEW j \in 1..((i + 1) - 1)
      PROVE  ~Abstracta!SonIguales(Sec[a][j], v)
  <2>1. j - 1 \in 0..(i - 1) /\ j \in 1..n
    BY <1>2, <1>5
  <2>2. Sec[a][j] = d[j - 1] /\ ~SonIguales(d[j - 1], v)
    BY <1>2, <1>5, <2>1
  <2> QED BY <2>2 DEF SonIguales, Abstracta!SonIguales
<1> QED BY <1>4, <1>6, <1>7, DeVivos DEF Abstracta!Eliminar

(* eliminar_indice.                                                        *)
LEMMA PasoEliminarIndice ==
  ASSUME Inv, NEW a \in DOMAIN listas, EliminarIndice(a)
  PROVE  Inv' /\ Abstracta!EliminarIndice(a)
<1> DEFINE n == listas[a].longitud
<1>1. PICK i \in Indices : /\ Desplazar(i, n) \in 0..(n - 1)
                           /\ Cambia(a, Quitar(listas[a], Desplazar(i, n)))
  BY DEF EliminarIndice
<1> DEFINE k == Desplazar(i, n)
<1>2. EsBloque(Quitar(listas[a], k), Vivos)
      /\ Contenido(Quitar(listas[a], k)) = Abstracta!RemoveAt(Sec[a], k + 1)
  BY <1>1, DeSec, DeVivos, QuitarBloque
<1>3. Inv' /\ Abstracta!Cambia(a, Abstracta!RemoveAt(Sec[a], k + 1))
  BY <1>1, <1>2, PasoCambia
<1>4. Len(Sec[a]) = n /\ n \in Nat /\ DOMAIN Sec[a] = 1..n
  BY DeSec DEF Contenido
<1>5. Abstracta!Desplazar(i, Len(Sec[a])) = k
  BY <1>4 DEF Desplazar, Abstracta!Desplazar
<1> HIDE DEF n, k
<1>6. k \in 0..(n - 1)
  BY <1>1 DEF k
<1>7. k + 1 \in DOMAIN Sec[a]
  BY <1>4, <1>6
<1> QED BY <1>3, <1>5, <1>7 DEF Abstracta!EliminarIndice

(* extender.                                                               *)
LEMMA PasoExtender ==
  ASSUME Inv, NEW a \in DOMAIN listas, Extender(a)
  PROVE  Inv' /\ Abstracta!Extender(a)
<1>0. PICK b \in DOMAIN listas : \E g \in Crecidas(listas[a], listas[b].longitud) :
        Cambia(a, Seguido(g, IF a = b THEN g ELSE listas[b]))
  BY DEF Extender
<1>1. PICK g \in Crecidas(listas[a], listas[b].longitud) :
        Cambia(a, Seguido(g, IF a = b THEN g ELSE listas[b]))
  BY <1>0
<1> DEFINE l2 == IF a = b THEN g ELSE listas[b]
<1>2. /\ EsBloque(g, Vivos) /\ g.longitud = listas[a].longitud
      /\ g.longitud + listas[b].longitud <= g.capacidad
      /\ Contenido(g) = Contenido(listas[a])
  BY DeSec, DeVivos, CrecidaBloque
<1>3. /\ EsBloque(l2, Vivos) /\ l2.longitud = listas[b].longitud
      /\ Contenido(l2) = Contenido(listas[b])
  BY <1>2, DeSec
<1>4. Cambia(a, Seguido(g, l2))
  BY <1>1
<1> HIDE DEF l2
<1>5. EsBloque(Seguido(g, l2), Vivos) /\ Contenido(Seguido(g, l2)) = Unida(Sec[a], Sec[b])
  <2>1. Contenido(g) = Sec[a] /\ Contenido(l2) = Sec[b] /\ g.longitud + l2.longitud <= g.capacidad
    BY <1>2, <1>3, DeSec
  <2> QED BY <1>2, <1>3, <2>1, DeVivos, SeguidoBloque
<1>6. Inv' /\ Abstracta!Cambia(a, Unida(Sec[a], Sec[b]))
  BY <1>4, <1>5, PasoCambia
<1> QED BY <1>6, DeVivos DEF Abstracta!Extender, Unida

(* insertar.                                                               *)
LEMMA PasoInsertar ==
  ASSUME Inv, NEW a \in DOMAIN listas, Insertar(a)
  PROVE  Inv' /\ Abstracta!Insertar(a)
<1>1. PICK v \in Vivos, i \in Indices, g \in Crecidas(listas[a], 1) :
        Cambia(a, ConHueco(g, Recortar(Desplazar(i, g.longitud), 0, g.longitud), v))
  BY DEF Insertar
<1> DEFINE n == listas[a].longitud
           p == Recortar(Desplazar(i, n), 0, n)
<1>2. /\ EsBloque(g, Vivos) /\ g.longitud = n /\ n \in Nat
      /\ g.longitud + 1 <= g.capacidad
      /\ Contenido(g) = Sec[a] /\ Len(Sec[a]) = n
  BY DeSec, DeVivos, CrecidaBloque
<1>3. Cambia(a, ConHueco(g, p, v))
  BY <1>1, <1>2
<1>4. p \in 0..g.longitud
  BY <1>2, IndicesAssumption DEF Recortar, Desplazar
<1>5. p = Abstracta!Recortar(Abstracta!Desplazar(i, Len(Sec[a])), 0, Len(Sec[a]))
  BY <1>2 DEF Recortar, Desplazar, Abstracta!Recortar, Abstracta!Desplazar
<1> HIDE DEF p, n
<1>6. EsBloque(ConHueco(g, p, v), Vivos)
      /\ Contenido(ConHueco(g, p, v)) = Abstracta!InsertAt(Sec[a], p + 1, v)
  BY <1>2, <1>4, DeVivos, HuecoBloque
<1>7. Inv' /\ Abstracta!Cambia(a, Abstracta!InsertAt(Sec[a], p + 1, v))
  BY <1>3, <1>6, PasoCambia
<1> QED BY <1>5, <1>7, DeVivos DEF Abstracta!Insertar

(* invertir.                                                               *)
LEMMA PasoInvertir ==
  ASSUME Inv, NEW a \in DOMAIN listas, Invertir(a)
  PROVE  Inv' /\ Abstracta!Invertir(a)
<1> DEFINE n == listas[a].longitud
           p == [k \in 0..(n - 1) |-> n - 1 - k]
           s == Permutada(Sec[a], n, p)
<1>1. Cambia(a, Permutado(listas[a], p))
  BY DEF Invertir
<1>2. n \in Nat /\ Len(Sec[a]) = n
  BY DeSec
<1>3. p \in [0..(n - 1) -> 0..(n - 1)]
  BY <1>2
<1>4. \A k \in 1..n : p[k - 1] + 1 = (n - k) + 1
  BY <1>2
<1> HIDE DEF p
<1>5. s = Abstracta!Reverse(Sec[a])
  BY <1>2, <1>4 DEF Permutada, Abstracta!Reverse
<1>6. EsBloque(Permutado(listas[a], p), Vivos) /\ Contenido(Permutado(listas[a], p)) = s
  BY <1>3, DeSec, DeVivos, PermutadoBloque
<1> HIDE DEF s
<1>7. Inv' /\ Abstracta!Cambia(a, s)
  BY <1>1, <1>6, PasoCambia
<1> QED BY <1>5, <1>7 DEF Abstracta!Invertir

(* The two modules compare values alike. *)
LEMMA MismasComparaciones ==
  /\ \A x, y : Abstracta!SonIguales(x, y) <=> SonIguales(x, y)
  /\ \A x, y : Abstracta!Comparador(x, y) = Comparador(x, y)
  /\ \A S : Abstracta!EsOrden(S) <=> EsOrden(S)
<1>1. \A x, y : Abstracta!SonIguales(x, y) <=> SonIguales(x, y)
  BY DEF SonIguales, Abstracta!SonIguales
<1>2. \A x : Abstracta!Num(x) = Num(x)
  BY DEF Num, Abstracta!Num
<1>3. \A x, y : Abstracta!Menor(x, y) <=> Menor(x, y)
  BY <1>2 DEF Menor, Abstracta!Menor, NumMenor, Abstracta!NumMenor
<1>4. \A x, y : Abstracta!Comparador(x, y) = Comparador(x, y)
  BY <1>1, <1>3 DEF Comparador, Abstracta!Comparador
<1>5. \A S : Abstracta!EsOrden(S) <=> EsOrden(S)
  BY <1>4 DEF EsOrden, Abstracta!EsOrden
<1> QED BY <1>1, <1>4, <1>5

(* A sorted order of the cells is one of the elements, counted from 1. *)
LEMMA OrdenacionDesdeUno ==
  ASSUME NEW d, NEW s, NEW n \in Nat, \A k \in 1..n : s[k] = d[k - 1],
         NEW p \in Ordenaciones(d, 0, n - 1)
  PROVE  /\ p \in [0..(n - 1) -> 0..(n - 1)]
         /\ [k \in 1..n |-> p[k - 1] + 1] \in Abstracta!Ordenaciones(s, 1, n)
<1> DEFINE q == [k \in 1..n |-> p[k - 1] + 1]
           S == {d[k] : k \in 0..(n - 1)}
<1>1. /\ p \in [0..(n - 1) -> 0..(n - 1)]
      /\ \A i, j \in 0..(n - 1) : i # j => p[i] # p[j]
      /\ EsOrden(S) => \A i, j \in 0..(n - 1) : i < j => Comparador(d[p[i]], d[p[j]]) <= 0
  BY DEF Ordenaciones
<1>2. \A k \in 1..n : k - 1 \in 0..(n - 1) /\ q[k] \in 1..n /\ q[k] = p[k - 1] + 1
                      /\ q[k] - 1 = p[k - 1]
  BY <1>1
<1>3. q \in [1..n -> 1..n]
  BY <1>2
<1> HIDE DEF q
<1>4. \A k \in 1..n : s[q[k]] = d[p[k - 1]]
  BY <1>2
<1>5. {s[k] : k \in 1..n} = S
  <2>1. \A k \in 0..(n - 1) : k + 1 \in 1..n /\ s[k + 1] = d[k]
    OBVIOUS
  <2>2. \A k \in 1..n : s[k] \in S
    BY <1>2
  <2>3. \A x \in S : \E k \in 1..n : x = s[k]
    BY <2>1
  <2> QED BY <2>2, <2>3
<1> HIDE DEF S
<1>6. \A i, j \in 1..n : i # j => q[i] # q[j]
  <2> SUFFICES ASSUME NEW i \in 1..n, NEW j \in 1..n, i # j PROVE q[i] # q[j]
    OBVIOUS
  <2>1. i - 1 # j - 1 /\ i - 1 \in 0..(n - 1) /\ j - 1 \in 0..(n - 1)
    OBVIOUS
  <2>2. p[i - 1] # p[j - 1] /\ p[i - 1] \in Int /\ p[j - 1] \in Int
    BY <1>1, <2>1
  <2> QED BY <1>2, <2>2
<1>7. ASSUME EsOrden(S), NEW i \in 1..n, NEW j \in 1..n, i < j
      PROVE  Comparador(s[q[i]], s[q[j]]) <= 0
  <2>1. i - 1 < j - 1 /\ i - 1 \in 0..(n - 1) /\ j - 1 \in 0..(n - 1)
    BY <1>7
  <2>2. Comparador(d[p[i - 1]], d[p[j - 1]]) <= 0
    BY <1>1, <1>7, <2>1
  <2> QED BY <1>4, <2>2
<1>8. q \in Abstracta!Ordenaciones(s, 1, n)
  BY <1>3, <1>5, <1>6, <1>7, MismasComparaciones DEF Abstracta!Ordenaciones
<1> QED BY <1>1, <1>8 DEF q

(* ordenar.                                                                *)
LEMMA PasoOrdenar ==
  ASSUME Inv, NEW a \in DOMAIN listas, Ordenar(a)
  PROVE  Inv' /\ Abstracta!Ordenar(a)
<1> DEFINE n == listas[a].longitud
           d == listas[a].datos
<1>1. PICK p \in Ordenaciones(d, 0, n - 1) : Cambia(a, Permutado(listas[a], p))
  BY DEF Ordenar
<1>2. /\ n \in Nat /\ Len(Sec[a]) = n
      /\ \A k \in 1..n : Sec[a][k] = d[k - 1]
  BY DeSec DEF Contenido
<1> DEFINE q == [k \in 1..n |-> p[k - 1] + 1]
<1>3. p \in [0..(n - 1) -> 0..(n - 1)] /\ q \in Abstracta!Ordenaciones(Sec[a], 1, n)
  BY <1>2, OrdenacionDesdeUno
<1>4. EsBloque(Permutado(listas[a], p), Vivos)
      /\ Contenido(Permutado(listas[a], p)) = Permutada(Sec[a], n, p)
  BY <1>3, DeSec, DeVivos, PermutadoBloque
<1>5. Inv' /\ Abstracta!Cambia(a, Permutada(Sec[a], n, p))
  BY <1>1, <1>4, PasoCambia
<1>6. Permutada(Sec[a], n, p) = [k \in 1..n |-> Sec[a][q[k]]]
  BY DEF Permutada
<1> HIDE DEF n, q
<1> QED BY <1>2, <1>3, <1>5, <1>6 DEF Abstracta!Ordenar

(* The assignment to an index.                                             *)
LEMMA PasoAsignarIndice ==
  ASSUME Inv, NEW a \in DOMAIN listas, AsignarIndice(a)
  PROVE  Inv' /\ Abstracta!AsignarIndice(a)
<1> DEFINE l == listas[a]
           n == listas[a].longitud
<1>1. PICK v \in Vivos, i \in Indices :
        \/ Desplazar(i, n) = n /\ \E g \in Crecidas(l, 1) : Cambia(a, AlFinal(g, v))
        \/ /\ Desplazar(i, n) \in 0..(n - 1)
           /\ Cambia(a, EnElSitio(l, n, [l.datos EXCEPT ![Desplazar(i, n)] = v]))
  BY DEF AsignarIndice
<1> DEFINE k == Desplazar(i, n)
<1>2. n \in Nat /\ Len(Sec[a]) = n
  BY DeSec
<1>3. Abstracta!Desplazar(i, Len(Sec[a])) = k
  BY <1>2 DEF Desplazar, Abstracta!Desplazar
<1>4. CASE k = n /\ \E g \in Crecidas(l, 1) : Cambia(a, AlFinal(g, v))
  <2>1. PICK g \in Crecidas(l, 1) : Cambia(a, AlFinal(g, v))
    BY <1>4
  <2>2. EsBloque(g, Vivos) /\ g.longitud + 1 <= g.capacidad /\ Contenido(g) = Sec[a]
    BY DeSec, DeVivos, CrecidaBloque
  <2>3. EsBloque(AlFinal(g, v), Vivos) /\ Contenido(AlFinal(g, v)) = Anexa(Sec[a], v)
    BY <2>2, DeVivos, AlFinalBloque
  <2>4. Inv' /\ Abstracta!Cambia(a, Anexa(Sec[a], v))
    BY <2>1, <2>3, PasoCambia
  <2> HIDE DEF k
  <2> QED BY <1>2, <1>3, <1>4, <2>4, DeVivos DEF Abstracta!AsignarIndice, Anexa
<1>5. CASE k \in 0..(n - 1) /\ Cambia(a, EnElSitio(l, n, [l.datos EXCEPT ![k] = v]))
  <2> DEFINE r == EnElSitio(l, n, Escrita(l.datos, k, v))
  <2>1. EsBloque(r, Vivos) /\ Contenido(r) = Escrita(Sec[a], k + 1, v)
    BY <1>5, DeSec, DeVivos, PonerBloque
  <2>2. Cambia(a, r)
    BY <1>5 DEF Escrita
  <2> HIDE DEF r
  <2>3. Inv' /\ Abstracta!Cambia(a, Escrita(Sec[a], k + 1, v))
    BY <2>1, <2>2, PasoCambia
  <2> HIDE DEF k
  <2> QED BY <1>2, <1>3, <1>5, <2>3, DeVivos DEF Abstracta!AsignarIndice, Escrita
<1> QED BY <1>1, <1>4, <1>5

(* An index out of range.                                                  *)
LEMMA PasoIndiceInvalido ==
  ASSUME Inv, NEW a \in DOMAIN listas, IndiceInvalido(a)
  PROVE  Inv' /\ Abstracta!IndiceInvalido(a)
<1>1. estado' = "abortado" /\ listas' = listas
  BY DEF IndiceInvalido
<1>2. Vivos' = Vivos /\ Sec' = Sec
  BY <1>1 DEF Vivos, Sec
<1>3. Inv'
  BY <1>1, <1>2 DEF Inv, EsBloque, EsArreglo
<1> QED BY <1>1, <1>2, <1>3 DEF Abstracta!IndiceInvalido, Abstracta!Aborta

-----------------------------------------------------------------------------
(* The operations that build a list *)

(* A new block with its elements.                                          *)
LEMMA ConDatosBloque ==
  ASSUME NEW V, NEW n \in Nat, NEW d, EsArreglo(d, Reserva(n), n, V)
  PROVE  EsBloque(ConDatos(n, d), V) /\ Contenido(ConDatos(n, d)) = Elems(d, n)
BY ReservaTipo, BloqueCon DEF ConDatos

(* A block whose first n cells were just written with the elements of v. *)
LEMMA PasoCon ==
  ASSUME Inv, NEW id \in Ids, id \notin DOMAIN listas,
         NEW n \in Nat, NEW v \in [1..n -> Vivos],
         Nueva(id, ConDatos(n, Rellena(Reserva(n), n, v)))
  PROVE  Inv' /\ Abstracta!Nueva(id, v)
<1> DEFINE c == Reserva(n)
           d == Rellena(c, n, v)
<1>1. c \in Nat /\ n <= c
  BY ReservaTipo
<1> HIDE DEF c
<1>2. EsArreglo(d, c, n, Vivos) /\ Elems(d, n) = v
  BY <1>1, DeVivos, ArregloNuevo
<1>3. Nueva(id, ConDatos(n, d))
  BY DEF c
<1> HIDE DEF d
<1>4. EsBloque(ConDatos(n, d), Vivos) /\ Contenido(ConDatos(n, d)) = v
  BY <1>2, ConDatosBloque DEF c
<1> QED BY <1>3, <1>4, PasoNueva

(* Each operation that builds a list builds the sequence: a literal.       *)
LEMMA PasoLiteral ==
  ASSUME Inv, NEW id \in Ids, id \notin DOMAIN listas, Literal(id)
  PROVE  Inv' /\ Abstracta!Literal(id)
<1>1. PICK n \in 0..MaxArgs : \E args \in [1..n -> Vivos] :
        Nueva(id, ConDatos(n, Rellena(Reserva(n), n, args)))
  BY DEF Literal, Rellena
<1>2. PICK args \in [1..n -> Vivos] : Nueva(id, ConDatos(n, Rellena(Reserva(n), n, args)))
  BY <1>1
<1>3. Inv' /\ Abstracta!Nueva(id, args)
  BY <1>2, PasoCon
<1> QED BY <1>3, DeVivos DEF Abstracta!Literal

(* crear.                                                                  *)
LEMMA PasoCrear ==
  ASSUME Inv, NEW id \in Ids, id \notin DOMAIN listas, Crear(id)
  PROVE  Inv' /\ Abstracta!Crear(id)
<1>1. PICK i \in Indices, v \in Vivos :
        LET n == IF i < 0 THEN 0 ELSE i
        IN Nueva(id, ConDatos(n, [k \in 0..(Reserva(n) - 1) |->
                                    IF k < n THEN v ELSE Basura]))
  BY DEF Crear
<1> DEFINE n == IF i < 0 THEN 0 ELSE i
           s == [k \in 1..n |-> v]
           c == Reserva(n)
<1>2. n \in Nat
  BY IndicesAssumption
<1>3. s \in [1..n -> Vivos]
  OBVIOUS
<1>4. Nueva(id, ConDatos(n, [k \in 0..(c - 1) |-> IF k < n THEN v ELSE Basura]))
  BY <1>1
<1>5. Abstracta!Nueva(id, s) => Abstracta!Crear(id)
  BY DeVivos DEF Abstracta!Crear
<1>6. c \in Nat
  BY <1>2, ReservaTipo
<1> HIDE DEF n, c
<1>7. \A k \in 0..(c - 1) : k < n => s[k + 1] = v
  BY <1>2, <1>6
<1> HIDE DEF s
<1>8. [k \in 0..(c - 1) |-> IF k < n THEN v ELSE Basura] = Rellena(c, n, s)
  BY <1>7 DEF Rellena
<1>9. Nueva(id, ConDatos(n, Rellena(Reserva(n), n, s)))
  BY <1>4, <1>8 DEF c
<1>10. Inv' /\ Abstracta!Nueva(id, s)
  BY <1>2, <1>3, <1>9, PasoCon
<1> QED BY <1>5, <1>10

(* concatenar.                                                             *)
LEMMA PasoConcatenar ==
  ASSUME Inv, NEW id \in Ids, id \notin DOMAIN listas, Concatenar(id)
  PROVE  Inv' /\ Abstracta!Concatenar(id)
<1>1. PICK a \in DOMAIN listas, b \in Vivos : Nueva(id, ConDatosDe(a, b))
  BY DEF Concatenar
<1> DEFINE n1 == Longitud(a)
           n2 == Longitud(b)
           r == Reserva(n1 + n2)
           x == listas[a].datos
           primera == Trozo(r, x, 0, n1)
<1>2. /\ n1 \in Nat /\ Sec[a] = Elems(x, n1)
      /\ EsArreglo(x, listas[a].capacidad, n1, Vivos)
  BY DeSec, ContenidoSeq DEF Longitud
<1>3. n2 \in Nat
  BY DeSec DEF Longitud
<1>4. r \in Nat /\ n1 + n2 <= r /\ n1 <= r
  BY <1>2, <1>3, ReservaTipo
<1>5. ConDatosDe(a, b) = ConDatos(n1 + n2,
        IF b \in DOMAIN listas THEN Pegada(primera, n1, listas[b].datos, n2) ELSE primera)
  BY DEF ConDatosDe, Pegada, Trozo
<1> HIDE DEF n1, n2, r, x
<1>6. EsArreglo(primera, r, n1, Vivos) /\ Elems(primera, n1) = Elems(x, n1)
  BY <1>2, <1>4, DeVivos, ArregloCopia
<1> HIDE DEF primera
<1>7. CASE b \in DOMAIN listas
  <2> DEFINE y == listas[b].datos
  <2>1. /\ n2 = listas[b].longitud /\ Sec[b] = Elems(y, n2)
        /\ EsArreglo(y, listas[b].capacidad, n2, Vivos)
    BY <1>7, DeSec, ContenidoSeq DEF Longitud, n2
  <2> HIDE DEF y
  <2> DEFINE d == Pegada(primera, n1, y, n2)
             s == Unida(Sec[a], Sec[b])
  <2>2. EsArreglo(d, r, n1 + n2, Vivos) /\ Elems(d, n1 + n2) = s
    BY <1>2, <1>4, <1>6, <2>1, DeVivos, ArregloUnion
  <2>3. ConDatosDe(a, b) = ConDatos(n1 + n2, d)
    BY <1>5, <1>7 DEF y
  <2> HIDE DEF d, s
  <2>4. EsBloque(ConDatos(n1 + n2, d), Vivos) /\ Contenido(ConDatos(n1 + n2, d)) = s
    <3>1. n1 + n2 \in Nat
      BY <1>2, <1>3
    <3> QED BY <2>2, <3>1, ConDatosBloque DEF r
  <2>5. Inv' /\ Abstracta!Nueva(id, s)
    BY <1>1, <2>3, <2>4, PasoNueva
  <2> QED BY <1>7, <2>5, DeVivos DEF Abstracta!Concatenar, Abstracta!Elementos, Unida, s
<1>8. CASE b \notin DOMAIN listas
  <2>1. n2 = 0 /\ n1 + n2 = n1
    BY <1>2, <1>8 DEF Longitud, n2
  <2>2. ConDatosDe(a, b) = ConDatos(n1, primera)
    BY <1>5, <1>8, <2>1
  <2>3. EsBloque(ConDatos(n1, primera), Vivos) /\ Contenido(ConDatos(n1, primera)) = Sec[a]
    BY <1>2, <1>6, <2>1, ConDatosBloque DEF r
  <2>4. Inv' /\ Abstracta!Nueva(id, Sec[a])
    BY <1>1, <2>2, <2>3, PasoNueva
  <2>5. Sec[a] \o <<>> = Sec[a]
    BY DeSec, ConcatEmptySeq
  <2>6. Abstracta!Elementos(b) = <<>>
    BY <1>8, DeVivos DEF Abstracta!Elementos
  <2>7. Abstracta!Nueva(id, Sec[a] \o Abstracta!Elementos(b))
    BY <2>4, <2>5, <2>6
  <2> QED BY <2>4, <2>7, DeVivos DEF Abstracta!Concatenar
<1> QED BY <1>7, <1>8

(* A slice.                                                                *)
LEMMA PasoRebanada ==
  ASSUME Inv, NEW id \in Ids, id \notin DOMAIN listas, Rebanada(id)
  PROVE  Inv' /\ Abstracta!Rebanada(id)
<1>1. PICK a \in DOMAIN listas, i \in Indices, j \in Indices :
    LET n == listas[a].longitud
        ini == IF Desplazar(i, n) < 0 THEN 0 ELSE Desplazar(i, n)
        fin == IF Desplazar(j, n) > n THEN n ELSE Desplazar(j, n)
        tam == IF fin > ini THEN fin - ini ELSE 0
    IN Nueva(id, ConDatos(tam, Copiar(EnBlanco(Reserva(tam)), 0,
                                      listas[a].datos, ini, tam)))
  BY DEF Rebanada
<1> DEFINE n == listas[a].longitud
           x == listas[a].datos
           di == Desplazar(i, n)
           dj == Desplazar(j, n)
           ini == IF di < 0 THEN 0 ELSE di
           fin == IF dj > n THEN n ELSE dj
           tam == IF fin > ini THEN fin - ini ELSE 0
           r == Reserva(tam)
           d == Trozo(r, x, ini, tam)
           s == IF ini < fin THEN Parte(Sec[a], ini, fin) ELSE <<>>
<1>2. /\ n \in Nat /\ Len(Sec[a]) = n /\ Sec[a] = Elems(x, n)
      /\ EsArreglo(x, listas[a].capacidad, n, Vivos)
  BY DeSec, ContenidoSeq
<1>3. Nueva(id, ConDatos(tam, d))
  BY <1>1 DEF Trozo
<1>4. Abstracta!Nueva(id, s) => Abstracta!Rebanada(id)
  <2>1. Abstracta!Desplazar(i, Len(Sec[a])) = di /\ Abstracta!Desplazar(j, Len(Sec[a])) = dj
    BY <1>2 DEF Desplazar, Abstracta!Desplazar
  <2> HIDE DEF di, dj
  <2> QED BY <1>2, <2>1, DeVivos DEF Abstracta!Rebanada, Parte
<1>5. di \in Int /\ dj \in Int
  BY <1>2, IndicesAssumption DEF Desplazar
<1> HIDE DEF n, x, di, dj
<1>6. /\ ini \in Nat /\ fin \in Int /\ fin <= n /\ tam \in Nat
      /\ ini < fin => fin = ini + tam
      /\ ~(ini < fin) => tam = 0
  BY <1>2, <1>5
<1> HIDE DEF ini, fin, tam
<1>7. r \in Nat /\ tam <= r
  BY <1>6, ReservaTipo
<1> HIDE DEF r
<1>8. EsArreglo(d, r, tam, Vivos) /\ Elems(d, tam) = s
  <2>1. CASE ini < fin
    <3>1. fin = ini + tam /\ fin <= n
      BY <1>6, <2>1
    <3> DEFINE V == Vivos
    <3>2. V \in SUBSET Celda /\ EsArreglo(x, listas[a].capacidad, n, V)
      BY <1>2, DeVivos
    <3> HIDE DEF V
    <3>3. EsArreglo(Trozo(r, x, ini, tam), r, tam, V)
          /\ Elems(Trozo(r, x, ini, tam), tam) = Parte(Elems(x, n), ini, fin)
      BY ONLY <1>6, <1>7, <3>1, <3>2, ArregloParte
    <3> QED BY <1>2, <2>1, <3>3 DEF V
  <2>2. CASE ~(ini < fin)
    <3>1. tam = 0
      BY <1>6, <2>2
    <3>2. EsArreglo(Trozo(r, x, ini, 0), r, 0, Vivos) /\ Elems(Trozo(r, x, ini, 0), 0) = <<>>
      BY <1>7, ArregloVacio
    <3> QED BY <2>2, <3>1, <3>2
  <2> QED BY <2>1, <2>2
<1> HIDE DEF d, s
<1>9. EsBloque(ConDatos(tam, d), Vivos) /\ Contenido(ConDatos(tam, d)) = s
  BY <1>6, <1>8, ConDatosBloque DEF r
<1> QED BY <1>3, <1>4, <1>9, PasoNueva

(* The positions lista.unico keeps, counted from 1. *)
LEMMA UnicosDesdeUno ==
  ASSUME NEW d, NEW s, NEW n \in Nat, \A k \in 1..n : s[k] = d[k - 1],
         NEW K \in SinRepetir(d, 0, n - 1)
  PROVE  {k \in 1..n : k - 1 \in K} \in Abstracta!SinRepetir(s, 1, n)
<1> DEFINE J == {k \in 1..n : k - 1 \in K}
<1>1. /\ K \subseteq 0..(n - 1)
      /\ \A i \in 0..(n - 1) : i \in K <=> ~\E j \in K : j < i /\ SonIguales(d[i], d[j])
  BY DEF SinRepetir
<1>2. ASSUME NEW i \in 1..n
      PROVE  i \in J <=> ~\E j \in J : j < i /\ Abstracta!SonIguales(s[i], s[j])
  <2>1. i - 1 \in 0..(n - 1)
    OBVIOUS
  <2>2. i \in J <=> ~\E j \in K : j < i - 1 /\ SonIguales(d[i - 1], d[j])
    BY <1>1, <2>1
  <2>3. ASSUME NEW j \in K, j < i - 1, SonIguales(d[i - 1], d[j])
        PROVE  \E k \in J : k < i /\ Abstracta!SonIguales(s[i], s[k])
    <3>1. j \in 0..(n - 1) /\ j + 1 \in 1..n /\ (j + 1) - 1 = j /\ j + 1 < i
      BY <1>1, <2>3
    <3>2. j + 1 \in J /\ s[j + 1] = d[j] /\ s[i] = d[i - 1]
      BY <3>1
    <3> QED BY <2>3, <3>1, <3>2, MismasComparaciones
  <2>4. ASSUME NEW k \in J, k < i, Abstracta!SonIguales(s[i], s[k])
        PROVE  \E j \in K : j < i - 1 /\ SonIguales(d[i - 1], d[j])
    <3>1. k - 1 \in K /\ k - 1 < i - 1 /\ s[k] = d[k - 1] /\ s[i] = d[i - 1]
      BY <2>4
    <3>2. SonIguales(d[i - 1], d[k - 1])
      BY <2>4, <3>1, MismasComparaciones
    <3> QED BY <3>1, <3>2
  <2> QED BY <2>2, <2>3, <2>4
<1> HIDE DEF J
<1>3. J \in SUBSET (1..n)
  BY DEF J
<1>4. J \in Abstracta!SinRepetir(s, 1, n)
  BY <1>2, <1>3 DEF Abstracta!SinRepetir
<1> QED BY <1>4 DEF J

(* An enumeration of indices from 0 is one of places from 1.               *)
LEMMA EnumeracionDesdeUno ==
  ASSUME NEW n \in Nat, NEW m \in Nat, NEW K \in SUBSET (0..(n - 1)),
         NEW f \in Enumeraciones(K, 0, m)
  PROVE  [k \in 1..m |-> f[k - 1] + 1]
           \in Abstracta!Enumeraciones({k \in 1..n : k - 1 \in K}, 1, m)
<1> DEFINE J == {k \in 1..n : k - 1 \in K}
           g == [k \in 1..m |-> f[k - 1] + 1]
<1>1. /\ f \in [0..(m - 1) -> K]
      /\ \A i, j \in 0..(m - 1) : i < j => f[i] < f[j]
      /\ \A k \in K : \E i \in 0..(m - 1) : f[i] = k
  <2>1. 0 + m - 1 = m - 1
    OBVIOUS
  <2>2. /\ f \in [0..(m - 1) -> K]
        /\ \A i, j \in DOMAIN f : i < j => f[i] < f[j]
        /\ \A k \in K : \E i \in DOMAIN f : f[i] = k
    BY <2>1 DEF Enumeraciones
  <2> QED BY <2>2
<1>2. \A k \in 1..m : k - 1 \in 0..(m - 1) /\ f[k - 1] \in K /\ f[k - 1] \in 0..(n - 1)
  <2>1. \A k \in 1..m : k - 1 \in 0..(m - 1)
    OBVIOUS
  <2>2. \A k \in 0..(m - 1) : f[k] \in K /\ f[k] \in 0..(n - 1)
    BY <1>1
  <2> QED BY <2>1, <2>2
<1>3. DOMAIN g = 1..m /\ g = [k \in 1..m |-> g[k]] /\ \A k \in 1..m : g[k] = f[k - 1] + 1
  OBVIOUS
<1> HIDE DEF g
<1>4. \A k \in 1..m : g[k] \in J
  BY <1>2, <1>3
<1>5. \A i, j \in 1..m : i < j => g[i] < g[j]
  <2> SUFFICES ASSUME NEW i \in 1..m, NEW j \in 1..m, i < j PROVE g[i] < g[j]
    OBVIOUS
  <2>1. f[i - 1] < f[j - 1]
    BY <1>1, <1>2
  <2> QED BY <1>2, <1>3, <2>1
<1>6. ASSUME NEW k \in J
      PROVE  \E i \in 1..m : g[i] = k
  <2>1. PICK i \in 0..(m - 1) : f[i] = k - 1
    BY <1>1
  <2>2. i + 1 \in 1..m /\ (i + 1) - 1 = i /\ (k - 1) + 1 = k
    OBVIOUS
  <2>3. g[i + 1] = k
    BY <1>3, <2>1, <2>2
  <2> QED BY <2>2, <2>3
<1> HIDE DEF J
<1>7. g \in [1..m -> J]
  BY <1>3, <1>4
<1>8. 1 + m - 1 = m
  OBVIOUS
<1>9. g \in Abstracta!Enumeraciones(J, 1, m)
  BY <1>3, <1>5, <1>6, <1>7, <1>8 DEF Abstracta!Enumeraciones
<1> QED BY <1>9 DEF g, J

(* unico.                                                                  *)
LEMMA PasoUnico ==
  ASSUME Inv, NEW id \in Ids, id \notin DOMAIN listas, Unico(id)
  PROVE  Inv' /\ Abstracta!Unico(id)
<1>1. PICK a \in DOMAIN listas :
        \E K \in SinRepetir(listas[a].datos, 0, listas[a].longitud - 1),
           m \in 0..listas[a].longitud :
          \E f \in Enumeraciones(K, 0, m) :
            Nueva(id, [longitud |-> m, capacidad |-> Reserva(listas[a].longitud),
                       datos |-> [k \in 0..(Reserva(listas[a].longitud) - 1) |->
                                    IF k < m THEN listas[a].datos[f[k]] ELSE Basura]])
  BY DEF Unico
<1> DEFINE n == listas[a].longitud
           x == listas[a].datos
           r == Reserva(n)
<1>2. PICK K \in SinRepetir(x, 0, n - 1), m \in 0..n :
        \E f \in Enumeraciones(K, 0, m) :
          Nueva(id, [longitud |-> m, capacidad |-> r,
                     datos |-> [k \in 0..(r - 1) |-> IF k < m THEN x[f[k]] ELSE Basura]])
  BY <1>1
<1>3. PICK f \in Enumeraciones(K, 0, m) :
        Nueva(id, [longitud |-> m, capacidad |-> r,
                   datos |-> [k \in 0..(r - 1) |-> IF k < m THEN x[f[k]] ELSE Basura]])
  BY <1>2
<1> DEFINE J == {k \in 1..n : k - 1 \in K}
           g == [k \in 1..m |-> f[k - 1] + 1]
           s == [k \in 1..m |-> Sec[a][g[k]]]
<1>4. /\ n \in Nat /\ Len(Sec[a]) = n /\ Sec[a] \in Seq(Vivos)
      /\ \A k \in 1..n : Sec[a][k] = x[k - 1]
  BY DeSec DEF Contenido
<1>5. /\ r \in Nat /\ r > 0 /\ n <= r
  BY <1>4, ReservaTipo
<1>6. J \in Abstracta!SinRepetir(Sec[a], 1, n)
  BY <1>4, UnicosDesdeUno
<1>7. K \in SUBSET (0..(n - 1))
  BY DEF SinRepetir
<1>8. m \in Nat /\ m <= n /\ m <= r
  BY <1>4, <1>5
<1>9. g \in Abstracta!Enumeraciones(J, 1, m)
  BY <1>4, <1>7, <1>8, EnumeracionDesdeUno
<1>10. f \in [0..(m - 1) -> K]
  <2>1. 0 + m - 1 = m - 1
    BY <1>8
  <2> QED BY <2>1 DEF Enumeraciones
<1>11. Abstracta!Nueva(id, s) => Abstracta!Unico(id)
  <2> SUFFICES ASSUME Abstracta!Nueva(id, s) PROVE Abstracta!Unico(id)
    OBVIOUS
  <2>1. a \in DOMAIN Sec /\ m \in 0..Len(Sec[a]) /\ J \in Abstracta!SinRepetir(Sec[a], 1, Len(Sec[a]))
    BY <1>4, <1>6, DeVivos
  <2>2. Abstracta!Nueva(id, [k \in 1..m |-> Sec[a][g[k]]])
    OBVIOUS
  <2> HIDE DEF J, g, n, s
  <2>3. \E f1 \in Abstracta!Enumeraciones(J, 1, m) :
          Abstracta!Nueva(id, [k \in 1..m |-> Sec[a][f1[k]]])
    BY <1>9, <2>2
  <2> QED BY <2>1, <2>3 DEF Abstracta!Unico
<1>12. \A k \in 1..m : g[k] \in 1..n /\ g[k] - 1 = f[k - 1] /\ k - 1 \in 0..(m - 1)
  <2>1. \A k \in 1..m : k - 1 \in 0..(m - 1)
    BY <1>8
  <2>2. \A k \in 0..(m - 1) : f[k] \in 0..(n - 1)
    BY <1>7, <1>10
  <2> QED BY <2>1, <2>2, <1>4
<1> HIDE DEF n, x, r, J, g
<1>13. \A k \in 1..m : s[k] = x[f[k - 1]] /\ s[k] \in Vivos
  <2>1. \A k \in 1..n : Sec[a][k] \in Vivos
    BY <1>4, ElementOfSeq
  <2> QED BY <1>4, <1>12, <2>1
<1>14. s \in [1..m -> Vivos]
  BY <1>13
<1>15. \A k \in 0..(m - 1) : s[k + 1] = x[f[k]]
  <2>1. \A k \in 0..(m - 1) : k + 1 \in 1..m /\ (k + 1) - 1 = k
    BY <1>8
  <2> HIDE DEF s
  <2> QED BY <1>13, <2>1
<1> HIDE DEF s
<1>16. [k \in 0..(r - 1) |-> IF k < m THEN x[f[k]] ELSE Basura] = Rellena(r, m, s)
  <2>1. \A k \in 0..(r - 1) : k < m => k \in 0..(m - 1)
    BY <1>8
  <2> QED BY <1>15, <2>1 DEF Rellena
<1> DEFINE d == Rellena(r, m, s)
           l == [longitud |-> m, capacidad |-> r, datos |-> d]
<1>17. EsArreglo(d, r, m, Vivos) /\ Elems(d, m) = s
  BY <1>5, <1>8, <1>14, DeVivos, ArregloNuevo
<1>18. Nueva(id, l)
  BY <1>3, <1>16
<1> HIDE DEF d
<1>19. EsBloque(l, Vivos) /\ Contenido(l) = s
  BY <1>5, <1>17, BloqueCon
<1> HIDE DEF l
<1> QED BY <1>11, <1>18, <1>19, PasoNueva

-----------------------------------------------------------------------------
(* The theorems *)

(* The blocks begin as the abstract lists do.                              *)
LEMMA Inicio == Init => Inv /\ Abstracta!Init
<1> SUFFICES ASSUME Init PROVE Inv /\ Abstracta!Init
  OBVIOUS
<1>1. listas = [a \in {} |-> {}] /\ estado = "corre" /\ DOMAIN listas = {}
  BY DEF Init
<1>2. Inv
  BY <1>1 DEF Inv
<1>3. Sec = [a \in {} |-> <<>>]
  BY <1>1 DEF Sec
<1> QED BY <1>1, <1>2, <1>3 DEF Abstracta!Init

(* Every step is one of the abstract lists, or changes nothing of them.    *)
LEMMA Paso ==
  ASSUME Inv, [Next]_vars
  PROVE  Inv' /\ [Abstracta!Next]_(Abstracta!vars)
<1>1. CASE UNCHANGED vars
  <2>1. listas' = listas /\ estado' = estado
    BY <1>1 DEF vars
  <2>2. Vivos' = Vivos /\ Sec' = Sec
    BY <2>1 DEF Vivos, Sec
  <2>3. Inv'
    BY <2>1, <2>2 DEF Inv, EsBloque, EsArreglo
  <2> QED BY <2>1, <2>2, <2>3 DEF Abstracta!vars
<1>2. CASE \E id \in Ids \ DOMAIN listas :
             estado = "corre" /\ (Literal(id) \/ Crear(id) \/ Concatenar(id)
                                    \/ Rebanada(id) \/ Unico(id))
  <2>1. PICK id \in Ids \ DOMAIN listas :
          Literal(id) \/ Crear(id) \/ Concatenar(id) \/ Rebanada(id) \/ Unico(id)
    BY <1>2
  <2>2. Inv' /\ (\/ Abstracta!Literal(id) \/ Abstracta!Crear(id) \/ Abstracta!Concatenar(id)
                 \/ Abstracta!Rebanada(id) \/ Abstracta!Unico(id))
    BY <2>1, PasoLiteral, PasoCrear, PasoConcatenar, PasoRebanada, PasoUnico
  <2>3. id \in Ids \ DOMAIN Sec
    BY DeVivos
  <2> QED BY <1>2, <2>2, <2>3 DEF Abstracta!Next
<1>3. CASE \E a \in DOMAIN listas :
             estado = "corre" /\ (Agregar(a) \/ Eliminar(a) \/ EliminarIndice(a)
                        \/ Extender(a) \/ Insertar(a) \/ Invertir(a) \/ Ordenar(a)
                        \/ AsignarIndice(a) \/ IndiceInvalido(a))
  <2>1. PICK a \in DOMAIN listas :
          Agregar(a) \/ Eliminar(a) \/ EliminarIndice(a) \/ Extender(a) \/ Insertar(a)
            \/ Invertir(a) \/ Ordenar(a) \/ AsignarIndice(a) \/ IndiceInvalido(a)
    BY <1>3
  <2>2. Inv' /\ (\/ Abstracta!Agregar(a) \/ Abstracta!Eliminar(a)
                 \/ Abstracta!EliminarIndice(a) \/ Abstracta!Extender(a)
                 \/ Abstracta!Insertar(a) \/ Abstracta!Invertir(a) \/ Abstracta!Ordenar(a)
                 \/ Abstracta!AsignarIndice(a) \/ Abstracta!IndiceInvalido(a))
    BY <2>1, PasoAgregar, PasoEliminar, PasoEliminarIndice, PasoExtender, PasoInsertar,
       PasoInvertir, PasoOrdenar, PasoAsignarIndice, PasoIndiceInvalido
  <2>3. a \in DOMAIN Sec
    BY DeVivos
  <2> QED BY <1>3, <2>2, <2>3 DEF Abstracta!Next
<1> QED BY <1>1, <1>2, <1>3 DEF Next

(* In every state of every program the blocks are well formed and hold live
   values below their length (latino.c lista_nueva, lista.c lista_crecer). *)
THEOREM InvSiempre == Spec => []Inv
<1>1. Init => Inv
  BY Inicio
<1>2. Inv /\ [Next]_vars => Inv'
  BY Paso
<1> QED BY <1>1, <1>2, PTL DEF Spec

(* Under the invariant the types hold, and no cell in use is garbage.      *)
LEMMA InvDaTipos == Inv => TypeOK /\ SinBasura
<1> SUFFICES ASSUME Inv, NEW a \in DOMAIN listas
             PROVE  /\ estado \in {"corre", "abortado"} /\ DOMAIN listas \subseteq Ids
                    /\ listas[a].longitud \in 0..listas[a].capacidad
                    /\ listas[a].capacidad > 0
                    /\ listas[a].datos \in [0..(listas[a].capacidad - 1) -> Celda]
                    /\ \A k \in Usadas(a) : listas[a].datos[k] \in Vivos
  BY DEF TypeOK, SinBasura, Inv
<1>1. EsBloque(listas[a], Vivos)
  BY DEF Inv
<1> QED BY <1>1 DEF Inv, EsBloque, EsArreglo, Usadas

(* No operation reads or writes a cell out of the array it has. *)
THEOREM TiposSiempre == Spec => []TypeOK
BY InvSiempre, InvDaTipos, PTL

(* No program reads a cell nobody wrote, however it shares its lists. *)
THEOREM NuncaBasura == Spec => []SinBasura
BY InvSiempre, InvDaTipos, PTL

(* The blocks behave as the sequences of ListasAbstractas, aliases included:
   every step of the library is the step of the sequence operation. *)
THEOREM BloquesSonSecuencias == Spec => Secuencias
<1>1. Init => Inv /\ Abstracta!Init
  BY Inicio
<1>2. Inv /\ [Next]_vars => Inv' /\ [Abstracta!Next]_(Abstracta!vars)
  BY Paso
<1> QED BY <1>1, <1>2, PTL DEF Spec, Secuencias, Abstracta!Spec

-----------------------------------------------------------------------------
(* What the library answers by comparing elements *)

(* A set of natural numbers that is not empty has a least member. *)
LEMMA HayMinimo ==
  ASSUME NEW S \in SUBSET Nat, S # {}
  PROVE  \E i \in S : \A j \in S : i <= j
<1>1. IsWellFoundedOn(OpToRel(<, Nat), Nat)
  BY NatLessThanWellFounded
<1>2. PICK i \in S : \A j \in S : <<j, i>> \notin OpToRel(<, Nat)
  BY <1>1, WFMin
<1>3. \A j \in S : ~(j < i)
  BY <1>2 DEF OpToRel
<1> QED BY <1>3

(* == of the language is symmetric and transitive; a list is not even equal to
   itself, so it is no equivalence. *)
LEMMA IgualesEs ==
  ASSUME NEW x, NEW y, NEW z
  PROVE  /\ SonIguales(x, y) = SonIguales(y, x)
         /\ SonIguales(x, y) /\ SonIguales(y, z) => SonIguales(x, z)
BY DEF SonIguales

(* The elements lista.unico keeps are the first of each group of equal ones. *)
LEMMA UnicosPrimeros ==
  ASSUME NEW d, NEW n \in Nat
  PROVE  SinRepetir(d, 0, n - 1) =
           {{i \in 0..(n - 1) : ~\E j \in 0..(i - 1) : SonIguales(d[i], d[j])}}
<1> DEFINE P == {i \in 0..(n - 1) : ~\E j \in 0..(i - 1) : SonIguales(d[i], d[j])}
<1>1. ASSUME NEW i \in 0..(n - 1), i \notin P
      PROVE  \E j \in P : j < i /\ SonIguales(d[i], d[j])
  <2> DEFINE S == {j \in 0..(i - 1) : SonIguales(d[i], d[j])}
  <2>1. S \in SUBSET Nat /\ S # {}
    BY <1>1
  <2>2. PICK j \in S : \A k \in S : j <= k
    BY <2>1, HayMinimo
  <2>3. ASSUME NEW k \in 0..(j - 1), SonIguales(d[j], d[k])
        PROVE  FALSE
    <3>1. SonIguales(d[i], d[k]) /\ k \in 0..(i - 1)
      BY <2>3, IgualesEs
    <3> QED BY <2>2, <2>3, <3>1
  <2> QED BY <2>2, <2>3
<1>2. P \in SinRepetir(d, 0, n - 1)
  <2>1. ASSUME NEW i \in 0..(n - 1)
        PROVE  i \in P <=> ~\E j \in P : j < i /\ SonIguales(d[i], d[j])
    BY <1>1
  <2> QED BY <2>1 DEF SinRepetir
<1>3. ASSUME NEW K \in SinRepetir(d, 0, n - 1)
      PROVE  K = P
  <2>1. K \subseteq 0..(n - 1)
    BY <1>3 DEF SinRepetir
  <2>2. \A i \in 0..(n - 1) : i \in K <=> ~\E j \in K : j < i /\ SonIguales(d[i], d[j])
    BY <1>3 DEF SinRepetir
  <2>3. P \subseteq K
    BY <2>1, <2>2
  <2>4. ASSUME NEW i \in K, i \notin P
        PROVE  FALSE
    <3>1. PICK j \in P : j < i /\ SonIguales(d[i], d[j])
      BY <1>1, <2>1, <2>4
    <3> QED BY <2>1, <2>2, <2>3, <3>1
  <2> QED BY <2>3, <2>4
<1> QED BY <1>2, <1>3

(* Of two numbers, or two texts, that are not equal exactly one is the less. *)
LEMMA MenorEs ==
  ASSUME NEW S, S \subseteq Numeros \ NaNs \/ S \subseteq Cadenas,
         NEW x \in S, NEW y \in S, ~SonIguales(x, y)
  PROVE  Menor(x, y) = ~Menor(y, x)
<1>1. CASE S \subseteq Cadenas
  <2>1. Peso[x] \in Int /\ Peso[y] \in Int /\ Peso[x] # Peso[y]
    BY <1>1, PesoAssumption DEF SonIguales
  <2> QED BY <1>1, <2>1 DEF Menor
<1>2. CASE S \subseteq Numeros \ NaNs
  <2>1. Peso[x] \in Int /\ Peso[y] \in Int /\ Peso[x] # Peso[y] /\ x \notin Cadenas
    BY <1>2, PesoAssumption DEF SonIguales
  <2> QED BY <1>2, <2>1 DEF Menor, NumMenor, Num
<1> QED BY <1>1, <1>2

(* lista.comparar takes the first place where the elements differ, whichever
   of the two lists is asked. *)
LEMMA CompararDe ==
  ASSUME NEW a, NEW b, Usadas(a) \in SUBSET Nat,
         NEW S, S \subseteq Numeros \ NaNs \/ S \subseteq Cadenas,
         \A k \in Usadas(a) : listas[a].datos[k] \in S,
         \A k \in Usadas(b) : listas[b].datos[k] \in S,
         listas[a].longitud \in Nat, listas[b].longitud \in Nat
  PROVE  /\ Comparar(a, b) = -Comparar(b, a)
         /\ Comparar(a, b) = 0 =>
              /\ Usadas(a) = Usadas(b)
              /\ \A k \in Usadas(a) : SonIguales(listas[a].datos[k], listas[b].datos[k])
<1> DEFINE x == listas[a].datos
           y == listas[b].datos
           D == {k \in Usadas(a) \cap Usadas(b) : ~SonIguales(x[k], y[k])}
           E == {k \in Usadas(b) \cap Usadas(a) : ~SonIguales(y[k], x[k])}
           P == {k \in D : \A j \in D : k <= j}
           Q == {k \in E : \A j \in E : k <= j}
<1>1. Comparar(a, b) = IF \E k \in P : Menor(x[k], y[k]) THEN -1
                       ELSE IF P # {} THEN 1
                       ELSE IF listas[a].longitud < listas[b].longitud THEN -1
                       ELSE IF listas[a].longitud > listas[b].longitud THEN 1 ELSE 0
  BY DEF Comparar
<1>2. Comparar(b, a) = IF \E k \in Q : Menor(y[k], x[k]) THEN -1
                       ELSE IF Q # {} THEN 1
                       ELSE IF listas[b].longitud < listas[a].longitud THEN -1
                       ELSE IF listas[b].longitud > listas[a].longitud THEN 1 ELSE 0
  BY DEF Comparar
<1>3. D = E /\ P = Q
  <2>1. \A k : SonIguales(x[k], y[k]) = SonIguales(y[k], x[k])
    BY IgualesEs
  <2>2. D = E
    BY <2>1
  <2> QED BY <2>2
<1>4. \A k \in P : Menor(x[k], y[k]) = ~Menor(y[k], x[k])
  BY MenorEs
<1>5. \A k, j \in P : k = j
  BY DEF Usadas
<1>6. D # {} => P # {}
  <2>1. D \in SUBSET Nat
    OBVIOUS
  <2> QED BY <2>1, HayMinimo
<1> HIDE DEF P, Q
<1>7. CASE P # {}
  <2>1. PICK k : k \in P
    BY <1>7
  <2>2. P = {k}
    BY <1>5, <2>1
  <2>3. Menor(x[k], y[k]) = ~Menor(y[k], x[k])
    BY <1>4, <2>1
  <2>4. /\ Comparar(a, b) = IF Menor(x[k], y[k]) THEN -1 ELSE 1
        /\ Comparar(b, a) = IF Menor(y[k], x[k]) THEN -1 ELSE 1
    BY <1>1, <1>2, <1>3, <2>2
  <2>5. \/ Comparar(a, b) = -1 /\ Comparar(b, a) = 1
        \/ Comparar(a, b) = 1 /\ Comparar(b, a) = -1
    BY <2>3, <2>4
  <2> QED BY <2>5
<1>8. CASE P = {}
  <2>1. Comparar(a, b) = IF listas[a].longitud < listas[b].longitud THEN -1
                         ELSE IF listas[a].longitud > listas[b].longitud THEN 1 ELSE 0
    BY <1>1, <1>8
  <2>2. Comparar(b, a) = IF listas[b].longitud < listas[a].longitud THEN -1
                         ELSE IF listas[b].longitud > listas[a].longitud THEN 1 ELSE 0
    BY <1>2, <1>3, <1>8
  <2>3. D = {}
    BY <1>6, <1>8
  <2>4. Comparar(a, b) = 0 => Usadas(a) = Usadas(b)
    BY <2>1 DEF Usadas
  <2> QED BY <2>1, <2>2, <2>3, <2>4
<1> QED BY <1>7, <1>8

(* lista.unico keeps the first of every group of equal elements, and
   lista.comparar is an order on lists of numbers and on lists of texts. *)
THEOREM BusquedasSiempre == Spec => []BusquedasFieles
<1>1. ASSUME Inv, NEW a \in DOMAIN listas
      PROVE  listas[a].longitud \in Nat
  BY <1>1 DEF Inv, EsBloque, EsArreglo
<1>2. Inv => UnicoPrimeras
  BY <1>1, UnicosPrimeros DEF UnicoPrimeras, Usadas
<1>3. Inv => CompararEsOrden
  <2> SUFFICES ASSUME Inv, NEW a \in DOMAIN listas, NEW b \in DOMAIN listas,
                      NEW S, S = {listas[a].datos[k] : k \in Usadas(a)}
                                   \cup {listas[b].datos[k] : k \in Usadas(b)},
                      S \subseteq Numeros \ NaNs \/ S \subseteq Cadenas
               PROVE  /\ Comparar(a, b) = -Comparar(b, a)
                      /\ Comparar(a, b) = 0 =>
                           /\ Usadas(a) = Usadas(b)
                           /\ \A k \in Usadas(a) : SonIguales(listas[a].datos[k], listas[b].datos[k])
    BY DEF CompararEsOrden
  <2>1. Usadas(a) \in SUBSET Nat /\ listas[a].longitud \in Nat /\ listas[b].longitud \in Nat
    BY <1>1 DEF Usadas
  <2> QED BY <2>1, CompararDe
<1> QED BY <1>2, <1>3, InvSiempre, PTL DEF BusquedasFieles
====
