------------------------- MODULE InclusionesPruebas -------------------------
(***************************************************************************)
(* Proofs about the expansion of includes, whatever the files: one that is *)
(* known by a single text is not entered while it is being expanded; only a*)
(* circle of relative includes through "." or ".." meets the limits of the *)
(* system, and it ends in an error; without one the program has what the   *)
(* files reached have, in its order.                                       *)
(***************************************************************************)
EXTENDS Inclusiones, SequenceTheorems, FiniteSetTheorems, WellFoundedInduction, TLAPS

-----------------------------------------------------------------------------
(* Numbers and sequences.                                                  *)

(* Induction, told of a set of numbers.                                    *)
LEMMA PorNumeros ==
  ASSUME NEW T, 0 \in T, \A n \in Nat : n \in T => n + 1 \in T
  PROVE  \A n \in Nat : n \in T
<1> DEFINE R == OpToRel(<, Nat)
           F == Nat \ T
<1>1. IsWellFoundedOn(R, Nat)
  BY NatLessThanWellFounded
<1>2. SUFFICES ASSUME F # {} PROVE FALSE
  OBVIOUS
<1>3. PICK x \in F : \A y \in F : ~(<<y, x>> \in R)
  <2> HIDE DEF R
  <2> QED BY <1>1, <1>2, WFMin
<1>4. x \in Nat /\ x \notin T /\ x # 0
  BY <1>3
<1>5. x - 1 \in Nat /\ x - 1 + 1 = x
  BY <1>4
<1>6. x - 1 \in F /\ x - 1 < x
  BY <1>4, <1>5
<1>7. <<x - 1, x>> \in R
  BY <1>4, <1>5, <1>6 DEF OpToRel
<1> HIDE DEF R, F
<1> QED BY <1>3, <1>6, <1>7

(* A sequence that is not empty is its front and its last element.         *)
LEMMA FrenteYUltimo ==
  ASSUME NEW T, NEW s \in Seq(T), s # <<>>
  PROVE  /\ Len(s) \in Nat \ {0} /\ Front(s) \in Seq(T) /\ Last(s) \in T
         /\ Len(Front(s)) = Len(s) - 1 /\ s = Append(Front(s), Last(s))
         /\ \A k \in 1 .. Len(s) - 1 : Front(s)[k] = s[k]
<1>1. Len(s) \in Nat \ {0}
  BY EmptySeq
<1>2. \A k \in 1 .. Len(s) - 1 : s[k] \in T
  BY <1>1
<1>3. Front(s) = [k \in 1 .. Len(s) - 1 |-> s[k]]
  BY <1>1 DEF Front
<1>4. Front(s) \in Seq(T) /\ Len(Front(s)) = Len(s) - 1
  BY <1>1, <1>2, <1>3
<1>5. Last(s) \in T /\ Last(s) = s[Len(s)]
  BY <1>1 DEF Last
<1>6. /\ Append(Front(s), Last(s)) \in Seq(T) /\ Len(Append(Front(s), Last(s))) = Len(s)
      /\ \A k \in 1 .. Len(s) : Append(Front(s), Last(s))[k] = s[k]
  BY <1>1, <1>3, <1>4, <1>5
<1>7. s = Append(Front(s), Last(s))
  BY <1>6, SeqEqual
<1> QED BY <1>1, <1>3, <1>4, <1>5, <1>7

(* The beginning of a sequence.                                            *)
LEMMA Principio ==
  ASSUME NEW T, NEW s \in Seq(T), NEW m \in 0 .. Len(s)
  PROVE  /\ SubSeq(s, 1, m) \in Seq(T) /\ Len(SubSeq(s, 1, m)) = m
         /\ \A k \in 1 .. m : SubSeq(s, 1, m)[k] = s[k]
OBVIOUS

(* Two sequences that give the same after another.                         *)
LEMMA Cancelar ==
  ASSUME NEW T, NEW p \in Seq(T), NEW s \in Seq(T), NEW q \in Seq(T), p \o s = p \o q
  PROVE  s = q
<1>1. Len(s) = Len(q)
  OBVIOUS
<1>2. \A k \in 1 .. Len(s) : s[k] = q[k]
  <2>1. ASSUME NEW k \in 1 .. Len(s)
        PROVE  s[k] = (p \o s)[Len(p) + k] /\ q[k] = (p \o q)[Len(p) + k]
    BY <1>1
  <2> QED BY <2>1
<1> QED BY <1>1, <1>2, SeqEqual

(* Putting sequences together.                                             *)
LEMMA Juntar ==
  ASSUME NEW T, NEW p \in Seq(T), NEW s \in Seq(T)
  PROVE  /\ p \o s \in Seq(T) /\ Len(p \o s) = Len(p) + Len(s)
         /\ p \o <<>> = p /\ <<>> \o p = p
         /\ \A x \in T : p \o Append(s, x) = Append(p \o s, x)
         /\ \A q \in Seq(T) : (p \o s) \o q = p \o (s \o q)
         /\ s # <<>> => p \o s # <<>> /\ Front(p \o s) = p \o Front(s)
<1>1. p \o s \in Seq(T) /\ Len(p \o s) = Len(p) + Len(s)
  OBVIOUS
<1>2. p \o <<>> = p /\ <<>> \o p = p
  OBVIOUS
<1>3. \A x \in T : p \o Append(s, x) = Append(p \o s, x)
  OBVIOUS
<1>4. \A q \in Seq(T) : (p \o s) \o q = p \o (s \o q)
  OBVIOUS
<1>5. ASSUME s # <<>>
      PROVE  p \o s # <<>> /\ Front(p \o s) = p \o Front(s)
  <2> DEFINE z == p \o s
             f == Front(s)
             w == p \o f
  <2>1. /\ Len(s) \in Nat \ {0} /\ f \in Seq(T) /\ Len(f) = Len(s) - 1
        /\ \A k \in 1 .. Len(s) - 1 : f[k] = s[k]
    BY <1>5, FrenteYUltimo
  <2>2. z # <<>>
    BY <1>1, <2>1, EmptySeq
  <2>3. z \in Seq(T) /\ Len(z) = Len(p) + Len(s)
    BY <1>1
  <2> HIDE DEF f
  <2>4. \A k \in 1 .. Len(p) + Len(s) : z[k] = IF k <= Len(p) THEN p[k] ELSE s[k - Len(p)]
    OBVIOUS
  <2>0. f \in Seq(T)
    BY <2>1
  <2>5. w \in Seq(T) /\ Len(w) = Len(p) + Len(f)
    BY <2>0
  <2>6. \A k \in 1 .. Len(p) + Len(f) : w[k] = IF k <= Len(p) THEN p[k] ELSE f[k - Len(p)]
    BY <2>0
  <2>7. Len(p) \in Nat /\ Len(s) \in Nat
    OBVIOUS
  <2> HIDE DEF z, w
  <2>8. \A k \in 1 .. Len(w) : w[k] = z[k]
    <3>1. ASSUME NEW k \in 1 .. Len(w)
          PROVE  w[k] = z[k]
      <4>1. k \in 1 .. Len(p) + Len(f) /\ k \in 1 .. Len(p) + Len(s)
        BY <2>1, <2>5, <2>7
      <4>2. CASE k <= Len(p)
        BY <2>4, <2>6, <4>1, <4>2
      <4>3. CASE ~(k <= Len(p))
        <5>1. k - Len(p) \in 1 .. Len(s) - 1
          BY <2>1, <2>5, <2>7, <4>3
        <5>2. w[k] = f[k - Len(p)] /\ z[k] = s[k - Len(p)]
          BY <2>4, <2>6, <4>1, <4>3
        <5> QED BY <2>1, <5>1, <5>2
      <4> QED BY <4>2, <4>3
    <3> QED BY <3>1
  <2>9. /\ Front(z) \in Seq(T) /\ Len(Front(z)) = Len(z) - 1
        /\ \A k \in 1 .. Len(z) - 1 : Front(z)[k] = z[k]
    BY <2>2, <2>3, FrenteYUltimo
  <2>10. Len(w) = Len(z) - 1
    BY <2>1, <2>3, <2>5, <2>7
  <2>11. Front(z) = w
    BY <2>5, <2>8, <2>9, <2>10, SeqEqual
  <2> QED BY <2>2, <2>11 DEF z, w, f
<1> QED BY <1>1, <1>2, <1>3, <1>4, <1>5

-----------------------------------------------------------------------------
(* The file opened for a path.                                             *)

(* f is the function by which Camina goes along the segments s from d.      *)
EsPaso(f, d, s) ==
  f = [n \in 0 .. Len(s) |-> IF n = 0 THEN d ELSE Entra(f[n - 1], s[n])]

(* There is one for every sequence.                                        *)
LEMMA HayPaso ==
  ASSUME NEW W, NEW d, NEW s \in Seq(W)
  PROVE  \E f : EsPaso(f, d, s)
<1> DEFINE Parcial(f, n) == f = [k \in 0 .. n |-> IF k = 0 THEN d ELSE Entra(f[k - 1], s[k])]
           T == {n \in Nat : \E f : Parcial(f, n)}
<1>1. 0 \in T
  <2>1. Parcial([k \in 0 .. 0 |-> d], 0)
    OBVIOUS
  <2> QED BY <2>1
<1>2. ASSUME NEW n \in Nat, n \in T
      PROVE  n + 1 \in T
  <2>1. PICK f : Parcial(f, n)
    BY <1>2
  <2> DEFINE g == [k \in 0 .. n + 1 |-> IF k = n + 1 THEN Entra(f[n], s[n + 1]) ELSE f[k]]
  <2>2. \A k \in 0 .. n : g[k] = f[k] /\ f[k] = IF k = 0 THEN d ELSE Entra(f[k - 1], s[k])
    BY <2>1
  <2>3. \A k \in 0 .. n + 1 : g[k] = IF k = 0 THEN d ELSE Entra(g[k - 1], s[k])
    <3>1. ASSUME NEW k \in 0 .. n + 1 PROVE g[k] = IF k = 0 THEN d ELSE Entra(g[k - 1], s[k])
      <4>1. CASE k = n + 1
        <5>1. g[k] = Entra(f[n], s[n + 1]) /\ k # 0 /\ k - 1 = n /\ n \in 0 .. n
          BY <4>1
        <5> QED BY <4>1, <5>1, <2>2
      <4>2. CASE k = 0
        <5>3. k \in 0 .. n /\ k # n + 1
          BY <4>2
        <5>1. k \in 0 .. n /\ k # n + 1 /\ f[k] = d
          <6> HIDE DEF g
          <6> QED BY <4>2, <5>3, <2>2
        <5>2. g[k] = f[k]
          BY <5>1, <2>2
        <5> HIDE DEF g
        <5> QED BY <4>2, <5>1, <5>2
      <4>3. CASE k # 0 /\ k # n + 1
        <5>1. k \in 0 .. n /\ k - 1 \in 0 .. n
          BY <4>3
        <5> HIDE DEF g
        <5> QED BY <4>3, <5>1, <2>2
      <4> QED BY <4>1, <4>2, <4>3
    <3> QED BY <3>1
  <2>4. g = [k \in 0 .. n + 1 |-> g[k]]
    OBVIOUS
  <2>5. Parcial(g, n + 1)
    <3> HIDE DEF g
    <3> QED BY <2>3, <2>4
  <2> HIDE DEF g
  <2>6. \E h : Parcial(h, n + 1)
    BY <2>5
  <2> HIDE DEF Parcial
  <2> QED BY <2>6
<1>3. \A n \in Nat : n \in T
  <2> HIDE DEF T
  <2> QED BY <1>1, <1>2, PorNumeros
<1>4. Len(s) \in Nat
  OBVIOUS
<1> QED BY <1>3, <1>4 DEF EsPaso

(* The steps along the beginning of a sequence are those along all of it.   *)
LEMMA PasosIguales ==
  ASSUME NEW W, NEW d, NEW s \in Seq(W), NEW z \in Seq(W), NEW f, NEW g,
         EsPaso(f, d, s), EsPaso(g, d, z),
         Len(s) <= Len(z), \A k \in 1 .. Len(s) : s[k] = z[k]
  PROVE  \A n \in 0 .. Len(s) : f[n] = g[n]
<1> DEFINE T == {n \in Nat : n <= Len(s) => f[n] = g[n]}
<1>1. /\ \A n \in 0 .. Len(s) : f[n] = IF n = 0 THEN d ELSE Entra(f[n - 1], s[n])
      /\ \A n \in 0 .. Len(z) : g[n] = IF n = 0 THEN d ELSE Entra(g[n - 1], z[n])
  BY DEF EsPaso
<1>2. 0 \in T
  BY <1>1
<1>3. ASSUME NEW n \in Nat, n \in T
      PROVE  n + 1 \in T
  <2>1. SUFFICES ASSUME n + 1 <= Len(s) PROVE f[n + 1] = g[n + 1]
    OBVIOUS
  <2>2. n + 1 \in 1 .. Len(s) /\ n + 1 \in 0 .. Len(s) /\ n + 1 \in 0 .. Len(z) /\ n + 1 - 1 = n /\ n + 1 # 0
    BY <2>1
  <2>3. f[n] = g[n] /\ s[n + 1] = z[n + 1]
    BY <1>3, <2>1, <2>2
  <2>4. f[n + 1] = Entra(f[n], s[n + 1]) /\ g[n + 1] = Entra(g[n], z[n + 1])
    BY <1>1, <2>2
  <2> QED BY <2>3, <2>4
<1>4. \A n \in Nat : n \in T
  <2> HIDE DEF T
  <2> QED BY <1>2, <1>3, PorNumeros
<1> QED BY <1>4

(* Camina is the end of such a function.                                   *)
LEMMA CaminaPaso ==
  ASSUME NEW W, NEW d, NEW s \in Seq(W)
  PROVE  \E f : EsPaso(f, d, s) /\ Camina(d, s) = f[Len(s)]
<1> DEFINE paso == CHOOSE f : EsPaso(f, d, s)
<1>1. EsPaso(paso, d, s)
  BY HayPaso
<1>2. Camina(d, s) = paso[Len(s)]
  BY DEF Camina, EsPaso
<1> QED BY <1>1, <1>2

(* Nothing to go along.                                                    *)
LEMMA CaminaVacio ==
  ASSUME NEW d
  PROVE  Camina(d, <<>>) = d
<1>1. <<>> \in Seq({}) /\ Len(<<>>) = 0
  OBVIOUS
<1>2. PICK f : EsPaso(f, d, <<>>) /\ Camina(d, <<>>) = f[0]
  BY <1>1, CaminaPaso
<1> QED BY <1>1, <1>2 DEF EsPaso

(* One segment more.                                                       *)
LEMMA CaminaUno ==
  ASSUME NEW W, NEW d, NEW s \in Seq(W), NEW x \in W
  PROVE  Camina(d, Append(s, x)) = Entra(Camina(d, s), x)
<1> DEFINE z == Append(s, x)
<1>1. /\ z \in Seq(W) /\ Len(z) = Len(s) + 1 /\ z[Len(s) + 1] = x /\ Len(s) \in Nat
      /\ \A k \in 1 .. Len(s) : s[k] = z[k]
  OBVIOUS
<1> HIDE DEF z
<1>2. PICK f : EsPaso(f, d, s) /\ Camina(d, s) = f[Len(s)]
  BY CaminaPaso
<1>3. PICK g : EsPaso(g, d, z) /\ Camina(d, z) = g[Len(z)]
  BY <1>1, CaminaPaso
<1>4. f[Len(s)] = g[Len(s)]
  <2>0. ASSUME NEW y \in Seq(W), EsPaso(g, d, y), Len(s) <= Len(y), \A k \in 1 .. Len(s) : s[k] = y[k]
        PROVE  \A n \in 0 .. Len(s) : f[n] = g[n]
    BY <2>0, <1>2, PasosIguales
  <2>1. Len(s) <= Len(z) /\ Len(s) \in 0 .. Len(s)
    BY <1>1
  <2>2. \A n \in 0 .. Len(s) : f[n] = g[n]
    <3>1. EsPaso(f, d, s) /\ EsPaso(g, d, z) /\ z \in Seq(W)
      BY <1>1, <1>2, <1>3
    <3>2. \A k \in 1 .. Len(s) : s[k] = z[k]
      BY <1>1
    <3> QED BY <2>1, <3>1, <3>2, <2>0, Zenon
  <2> QED BY <2>1, <2>2
<1>5. g[Len(s) + 1] = Entra(g[Len(s)], x)
  <2>1. \A n \in 0 .. Len(z) : g[n] = IF n = 0 THEN d ELSE Entra(g[n - 1], z[n])
    BY <1>3 DEF EsPaso
  <2>2. Len(s) + 1 \in 0 .. Len(z) /\ Len(s) + 1 # 0 /\ Len(s) + 1 - 1 = Len(s)
    BY <1>1
  <2>3. g[Len(s) + 1] = Entra(g[Len(s) + 1 - 1], z[Len(s) + 1])
    BY <2>1, <2>2
  <2> QED BY <1>1, <2>2, <2>3
<1>6. Camina(d, z) = Entra(Camina(d, s), x)
  BY <1>1, <1>2, <1>3, <1>4, <1>5
<1> QED BY <1>6 DEF z

(* Induction on sequences, told of a set of them.                          *)
LEMMA PorSecuencias ==
  ASSUME NEW T, NEW P, <<>> \in P, \A s \in Seq(T), x \in T : s \in P => Append(s, x) \in P
  PROVE  \A s \in Seq(T) : s \in P
<1> DEFINE N == {n \in Nat : \A s \in Seq(T) : Len(s) = n => s \in P}
<1>1. 0 \in N
  <2>1. \A s \in Seq(T) : Len(s) = 0 => s = <<>>
    BY EmptySeq
  <2> QED BY <2>1
<1>2. ASSUME NEW n \in Nat, n \in N
      PROVE  n + 1 \in N
  <2>1. SUFFICES ASSUME NEW s \in Seq(T), Len(s) = n + 1 PROVE s \in P
    OBVIOUS
  <2>2. s # <<>>
    BY <2>1
  <2>3. Front(s) \in Seq(T) /\ Last(s) \in T /\ Len(Front(s)) = Len(s) - 1 /\ s = Append(Front(s), Last(s))
    BY <2>2, FrenteYUltimo
  <2>4. Len(Front(s)) = n
    BY <2>1, <2>3
  <2>5. Front(s) \in P
    BY <1>2, <2>3, <2>4
  <2> QED BY <2>3, <2>5
<1>3. \A n \in Nat : n \in N
  <2> HIDE DEF N
  <2> QED BY <1>1, <1>2, PorNumeros
<1>4. \A s \in Seq(T) : Len(s) \in Nat
  OBVIOUS
<1> QED BY <1>3, <1>4

(* Going along two sequences is going along one after the other.           *)
LEMMA CaminaSeguido ==
  ASSUME NEW W, NEW d, NEW p \in Seq(W), NEW s \in Seq(W)
  PROVE  Camina(d, p \o s) = Camina(Camina(d, p), s)
<1> DEFINE P == {q \in Seq(W) : Camina(d, p \o q) = Camina(Camina(d, p), q)}
<1>0. /\ \A e : \A y \in Seq(W), x \in W : Append(y, x) \in Seq(W) /\ Camina(e, Append(y, x)) = Entra(Camina(e, y), x)
      /\ \A y \in Seq(W), x \in W : p \o y \in Seq(W) /\ p \o Append(y, x) = Append(p \o y, x)
  <2>1. \A e : \A y \in Seq(W), x \in W : Camina(e, Append(y, x)) = Entra(Camina(e, y), x)
    BY CaminaUno
  <2>2. \A y \in Seq(W), x \in W : p \o y \in Seq(W) /\ p \o Append(y, x) = Append(p \o y, x)
    BY Juntar
  <2>3. \A y \in Seq(W), x \in W : Append(y, x) \in Seq(W)
    OBVIOUS
  <2> QED BY <2>1, <2>2, <2>3
<1>1. <<>> \in P
  <2>1. Camina(Camina(d, p), <<>>) = Camina(d, p) /\ p \o <<>> = p /\ <<>> \in Seq(W)
    BY CaminaVacio
  <2> QED BY <2>1
<1>2. ASSUME NEW q \in Seq(W), NEW x \in W, q \in P
      PROVE  Append(q, x) \in P
  <2>1. /\ Append(q, x) \in Seq(W) /\ p \o q \in Seq(W)
        /\ p \o Append(q, x) = Append(p \o q, x)
    BY <1>0
  <2>2. Camina(d, Append(p \o q, x)) = Entra(Camina(d, p \o q), x)
    BY <1>0, <2>1
  <2>3. Camina(Camina(d, p), Append(q, x)) = Entra(Camina(Camina(d, p), q), x)
    BY <1>0
  <2> QED BY <1>2, <2>1, <2>2, <2>3
<1> HIDE DEF P
<1>3. s \in P
  BY <1>1, <1>2, PorSecuencias
<1> QED BY <1>3 DEF P

(* From a directory with names only (V, the words W but the dots), the file *)
(* has names only; along names, nothing but them is added.                 *)
LEMMA CaminaNombres ==
  ASSUME NEW W, NEW V, V \subseteq W, V \cap Puntos = {}, W \ Puntos \subseteq V, NEW d \in Seq(V)
  PROVE  /\ \A s \in Seq(W) : Camina(d, s) \in Seq(V)
         /\ \A s \in Seq(V) : s \in Seq(W) /\ Camina(d, s) = d \o s
<1> DEFINE P == {q \in Seq(W) : Camina(d, q) \in Seq(V)}
           Q == {q \in Seq(V) : q \in Seq(W) /\ Camina(d, q) = d \o q}
<1>0. /\ \A e : \A y \in Seq(W), x \in W : Camina(e, Append(y, x)) = Entra(Camina(e, y), x)
      /\ \A y \in Seq(W), x \in W : Append(y, x) \in Seq(W)
  BY CaminaUno
<1>1. <<>> \in P
  BY CaminaVacio
<1>2. ASSUME NEW q \in Seq(W), NEW x \in W, q \in P
      PROVE  Append(q, x) \in P
  <2> DEFINE c == Camina(d, q)
  <2>1. c \in Seq(V) /\ Append(q, x) \in Seq(W) /\ Camina(d, Append(q, x)) = Entra(c, x)
    BY <1>0, <1>2
  <2> HIDE DEF c
  <2>2. Entra(c, x) \in Seq(V)
    <3>1. c # <<>> => Front(c) \in Seq(V)
      BY <2>1, FrenteYUltimo
    <3>2. x \notin Puntos => Append(c, x) \in Seq(V)
      BY <2>1
    <3> QED BY <2>1, <3>1, <3>2 DEF Entra, Puntos
  <2>3. Camina(d, Append(q, x)) \in Seq(V)
    BY <2>1, <2>2
  <2> DEFINE y == Append(q, x)
  <2>4. y \in Seq(W) /\ Camina(d, y) \in Seq(V)
    BY <2>1, <2>3
  <2> HIDE DEF y
  <2>5. y \in P
    BY <2>4
  <2> QED BY <2>5 DEF y
<1>3. <<>> \in Q
  <2>1. d \o <<>> = d
    OBVIOUS
  <2> QED BY <2>1, CaminaVacio
<1>4. ASSUME NEW q \in Seq(V), NEW x \in V, q \in Q
      PROVE  Append(q, x) \in Q
  <2>1. x \in W /\ x \notin Puntos
    OBVIOUS
  <2>2. q \in Seq(W) /\ Camina(d, q) = d \o q
    BY <1>4
  <2>3. Append(q, x) \in Seq(V) /\ Append(q, x) \in Seq(W)
    <3>1. Append(q, x) \in Seq(V)
      BY AppendProperties
    <3>2. Append(q, x) \in Seq(W)
      BY <2>1, <2>2, AppendProperties
    <3> QED BY <3>1, <3>2
  <2>4. Camina(d, Append(q, x)) = Append(d \o q, x)
    <3>1. Camina(d, Append(q, x)) = Entra(Camina(d, q), x)
      BY <1>0, <2>1, <2>2
    <3>2. \A c : Entra(c, x) = Append(c, x)
      BY <2>1 DEF Entra, Puntos
    <3> QED BY <2>2, <3>1, <3>2
  <2>5. d \o Append(q, x) = Append(d \o q, x)
    BY Juntar
  <2>6. Camina(d, Append(q, x)) = d \o Append(q, x)
    BY <2>4, <2>5
  <2> DEFINE y == Append(q, x)
  <2>7. y \in Seq(V) /\ y \in Seq(W) /\ Camina(d, y) = d \o y
    BY <2>3, <2>6
  <2> HIDE DEF y
  <2>8. y \in Q
    BY <2>7
  <2> QED BY <2>8 DEF y
<1> HIDE DEF P, Q
<1>5. \A s \in Seq(W) : s \in P
  BY <1>1, <1>2, PorSecuencias
<1>6. \A s \in Seq(V) : s \in Q
  BY <1>3, <1>4, PorSecuencias
<1> QED BY <1>5, <1>6 DEF P, Q

(* The same, of the names of files.                                        *)
LEMMA CaminaPorNombres ==
  ASSUME NEW d \in Seq(Nombre)
  PROVE  /\ \A s \in Seq(STRING) : Camina(d, s) \in Seq(Nombre)
         /\ \A s \in Seq(Nombre) : s \in Seq(STRING) /\ Camina(d, s) = d \o s
         /\ \A p, s \in Seq(STRING) : p \o s \in Seq(STRING) /\ Camina(d, p \o s) = Camina(Camina(d, p), s)
<1> DEFINE W == STRING
           V == Nombre
<1>1. V \subseteq W /\ V \cap Puntos = {} /\ W \ Puntos \subseteq V /\ d \in Seq(V)
  BY DEF Nombre
<1>2. SUFFICES /\ \A s \in Seq(W) : Camina(d, s) \in Seq(V)
               /\ \A s \in Seq(V) : s \in Seq(W) /\ Camina(d, s) = d \o s
               /\ \A p, s \in Seq(W) : p \o s \in Seq(W) /\ Camina(d, p \o s) = Camina(Camina(d, p), s)
  OBVIOUS
<1> HIDE DEF W, V
<1>3. \A p, s \in Seq(W) : p \o s \in Seq(W) /\ Camina(d, p \o s) = Camina(Camina(d, p), s)
  BY CaminaSeguido, Juntar
<1> QED BY <1>1, <1>3, CaminaNombres

-----------------------------------------------------------------------------
(* The texts of the files.  When a file is known by one text, that of each  *)
(* is the text the entry's directory has (or the root, when the entry is    *)
(* absolute and has no dots) and the names from there to the file.          *)

Base(e) == IF Canonica(e) THEN [absoluta |-> TRUE, segs |-> <<>>] ELSE Padre(e)
Texto(e, s) == [absoluta |-> Base(e).absoluta, segs |-> Base(e).segs \o s]

(* A call as it should be: the k-th of the stack.                           *)
EsMarco(d, e, v, c, k) ==
  /\ c.archivo \in Alcanzados(d, e)
  /\ \E s \in Seq(Nombre) :
       /\ s # <<>> /\ c.archivo = Abre(Base(e)) \o s /\ c.dirBase = Texto(e, Front(s))
       /\ (k = 1 /\ ~e.absoluta) \/ Texto(e, s) \in v

(* A path given or included, its front and its last segment.               *)
LEMMA RutaDada ==
  ASSUME NEW r \in Principales \cup Incluibles
  PROVE  /\ r \in Ruta /\ r.segs # <<>> /\ Last(r.segs) \in Nombre
         /\ r.absoluta \in BOOLEAN /\ r.segs \in Seq(STRING) /\ Front(r.segs) \in Seq(STRING)
         /\ Padre(r) \in Ruta /\ Padre(r) = [absoluta |-> r.absoluta, segs |-> Front(r.segs)]
         /\ Limpia(r) => r.segs \in Seq(Nombre)
<1>1. r \in Ruta /\ r.segs # <<>> /\ Last(r.segs) \in Nombre
  BY ConstantesAssumption
<1>2. r.absoluta \in BOOLEAN /\ r.segs \in Seq(STRING)
  BY <1>1 DEF Ruta
<1>3. Front(r.segs) \in Seq(STRING)
  <2> DEFINE W == STRING
  <2>1. r.segs \in Seq(W)
    BY <1>2
  <2> HIDE DEF W
  <2>2. Front(r.segs) \in Seq(W)
    BY <1>1, <2>1, FrenteYUltimo
  <2> QED BY <2>2 DEF W
<1>4. Padre(r) = [absoluta |-> r.absoluta, segs |-> Front(r.segs)]
  BY <1>1 DEF Ruta, Padre
<1>5. Padre(r) \in Ruta
  BY <1>2, <1>3, <1>4 DEF Ruta
<1>6. ASSUME Limpia(r)
      PROVE  r.segs \in Seq(Nombre)
  <2>1. \A k \in 1 .. Len(r.segs) : r.segs[k] \in STRING
    BY <1>2
  <2>2. \A k \in 1 .. Len(r.segs) : r.segs[k] \notin Puntos
    <3> DEFINE z == r.segs
    <3>1. DOMAIN z = 1 .. Len(z) /\ Range(z) \cap Puntos = {}
      BY <1>2, <1>6 DEF Limpia
    <3> HIDE DEF z
    <3>2. \A k \in 1 .. Len(z) : z[k] \in Range(z)
      BY <3>1 DEF Range
    <3>3. \A k \in 1 .. Len(z) : z[k] \notin Puntos
      BY <3>1, <3>2
    <3> QED BY <3>3 DEF z
  <2>3. \A k \in 1 .. Len(r.segs) : r.segs[k] \in Nombre
    BY <2>1, <2>2 DEF Nombre
  <2> DEFINE W == STRING
             V == Nombre
             z == r.segs
  <2>4. z \in Seq(W) /\ \A k \in 1 .. Len(z) : z[k] \in V
    BY <1>2, <2>3
  <2> HIDE DEF W, V, z
  <2>5. z \in Seq(V)
    BY <2>4
  <2> QED BY <2>5 DEF V, z
<1> QED BY <1>1, <1>2, <1>3, <1>4, <1>5, <1>6

(* What a text opens.                                                      *)
LEMMA AbreTexto ==
  ASSUME NEW e \in Principales
  PROVE  /\ Base(e) \in Ruta /\ Base(e).absoluta \in BOOLEAN /\ Base(e).segs \in Seq(STRING)
         /\ Abre(Base(e)) \in Seq(Nombre)
         /\ \A s \in Seq(Nombre) : /\ Texto(e, s) \in Ruta /\ s \in Seq(STRING)
                                   /\ Abre(Texto(e, s)) = Abre(Base(e)) \o s
<1>1. Base(e) \in Ruta /\ Base(e).absoluta \in BOOLEAN /\ Base(e).segs \in Seq(STRING)
  <2>1. CASE Canonica(e)
    <3>1. <<>> \in Seq(STRING)
      OBVIOUS
    <3> QED BY <2>1, <3>1 DEF Base, Ruta
  <2>2. CASE ~Canonica(e)
    <3>1. Padre(e) \in Ruta
      BY RutaDada
    <3> QED BY <2>2, <3>1 DEF Base, Ruta
  <2> QED BY <2>1, <2>2
<1> DEFINE d == IF Base(e).absoluta THEN <<>> ELSE Cwd
           b == Base(e).segs
<1>2. d \in Seq(Nombre)
  BY ConstantesAssumption
<1>3. Abre(Base(e)) = Camina(d, b)
  BY DEF Abre
<1>4. \A s : Abre(Texto(e, s)) = Camina(d, b \o s)
  BY DEF Abre, Texto
<1>5. b \in Seq(STRING)
  BY <1>1
<1> HIDE DEF d, b
<1>6. Camina(d, b) \in Seq(Nombre)
  BY <1>2, <1>5, CaminaPorNombres
<1>7. ASSUME NEW s \in Seq(Nombre)
      PROVE  Texto(e, s) \in Ruta /\ s \in Seq(STRING) /\ Abre(Texto(e, s)) = Abre(Base(e)) \o s
  <2>1. s \in Seq(STRING)
    BY <1>2, CaminaPorNombres
  <2>2. b \o s \in Seq(STRING) /\ Camina(d, b \o s) = Camina(Camina(d, b), s)
    BY <1>2, <1>5, <2>1, CaminaPorNombres
  <2>3. Camina(Camina(d, b), s) = Camina(d, b) \o s
    BY <1>6, CaminaPorNombres
  <2>4. Texto(e, s) \in Ruta
    BY <1>1, <2>2 DEF b, Texto, Ruta
  <2> QED BY <1>3, <1>4, <2>1, <2>2, <2>3, <2>4
<1> QED BY <1>1, <1>3, <1>6, <1>7

(* What is reached can be read, and is closed under the includes.           *)
LEMMA AlcanzaCerrado ==
  ASSUME NEW d, NEW I, NEW a
  PROVE  /\ Alcanza(d, I, a) \subseteq Abribles(d)
         /\ a \in Abribles(d) => a \in Alcanza(d, I, a)
         /\ \A c \in I : c[1] \in Alcanza(d, I, a) /\ Incluye(d, c) \in Abribles(d)
                           => Incluye(d, c) \in Alcanza(d, I, a)
<1> DEFINE A == Abribles(d)
           lleva == [c \in I |-> Incluye(d, c)]
           Cerrado(H) == /\ {a} \cap A \subseteq H
                         /\ \A c \in I : c[1] \in H => {lleva[c]} \cap A \subseteq H
<1>1. Alcanza(d, I, a) = {b \in A : \A H \in SUBSET A : Cerrado(H) => b \in H}
  BY DEF Alcanza
<1>2. \A c \in I : lleva[c] = Incluye(d, c)
  OBVIOUS
<1> HIDE DEF A, lleva
<1>3. Alcanza(d, I, a) \subseteq A
  BY <1>1
<1>4. a \in A => a \in Alcanza(d, I, a)
  BY <1>1
<1>5. ASSUME NEW c \in I, c[1] \in Alcanza(d, I, a), Incluye(d, c) \in A
      PROVE  Incluye(d, c) \in Alcanza(d, I, a)
  <2>1. ASSUME NEW H \in SUBSET A, Cerrado(H)
        PROVE  Incluye(d, c) \in H
    <3>1. c[1] \in H
      BY <1>1, <1>5, <2>1
    <3> QED BY <1>2, <1>5, <2>1, <3>1
  <2> HIDE DEF Cerrado
  <2> QED BY <1>1, <1>5, <2>1
<1> QED BY <1>3, <1>4, <1>5 DEF A

(* A file of the disk and its statements.                                  *)
LEMMA DiscoTipo ==
  ASSUME NEW d \in Discos, NEW a \in Archivos
  PROVE  /\ d[a].sents \in Seq(Sentencia) /\ Len(d[a].sents) \in Nat
         /\ \A p \in 1 .. Len(d[a].sents) : d[a].sents[p] \in Sentencia
         /\ \A p \in Inclusiones(d, a) : Mod(d, <<a, p>>) \in Incluibles
<1>1. d[a] \in Contenido
  BY ConstantesAssumption
<1>2. d[a].sents \in Seq(Sentencia)
  BY <1>1 DEF Contenido
<1>3. \A p \in 1 .. Len(d[a].sents) : d[a].sents[p] \in Sentencia
  BY <1>2
<1>4. ASSUME NEW p \in Inclusiones(d, a)
      PROVE  Mod(d, <<a, p>>) \in Incluibles
  <2>1. d[a].sents[p] \in Sentencia /\ d[a].sents[p].tipo = "incluir"
    BY <1>3 DEF Inclusiones
  <2>2. d[a].sents[p].mod \in Incluibles
    BY <2>1 DEF Sentencia
  <2> QED BY <2>2 DEF Mod
<1> QED BY <1>2, <1>3, <1>4

(* The entry is the first call, as it should be.                           *)
LEMMA EntradaMarco ==
  ASSUME NEW d \in Discos, NEW e \in Principales
  PROVE  EsMarco(d, e, {Absoluta(e)}, Llamar(Abre(e), Padre(e)), 1)
<1>1. /\ e \in Ruta /\ e.segs # <<>> /\ Last(e.segs) \in Nombre /\ Front(e.segs) \in Seq(STRING)
      /\ Padre(e) = [absoluta |-> e.absoluta, segs |-> Front(e.segs)]
      /\ Limpia(e) => e.segs \in Seq(Nombre)
      /\ e.absoluta \in BOOLEAN /\ e.segs \in Seq(STRING)
  BY RutaDada
<1>2. e = [absoluta |-> e.absoluta, segs |-> e.segs]
  BY <1>1 DEF Ruta
<1>3. Abre(e) \in Abribles(d)
  BY ConstantesAssumption DEF Abribles
<1>4. Abre(e) \in Alcanzados(d, e)
  BY <1>3, AlcanzaCerrado DEF Alcanzados
<1>5. e.absoluta => Absoluta(e) = e
  BY DEF Absoluta, Dividir
<1>6. \E s \in Seq(Nombre) : s # <<>> /\ Texto(e, s) = e /\ Padre(e) = Texto(e, Front(s))
  <2>1. CASE Canonica(e)
    <3>1. Base(e) = [absoluta |-> TRUE, segs |-> <<>>] /\ e.absoluta = TRUE /\ e.segs \in Seq(Nombre)
      BY <1>1, <2>1 DEF Base, Canonica
    <3>2. <<>> \o e.segs = e.segs /\ <<>> \o Front(e.segs) = Front(e.segs)
      BY <1>1, Juntar
    <3>3. Texto(e, e.segs) = e /\ Padre(e) = Texto(e, Front(e.segs))
      <4>1. \A z : Texto(e, z) = [absoluta |-> TRUE, segs |-> <<>> \o z]
        BY <3>1 DEF Texto
      <4>2. Texto(e, e.segs) = [absoluta |-> TRUE, segs |-> e.segs]
        BY <3>2, <4>1
      <4>3. Texto(e, Front(e.segs)) = [absoluta |-> TRUE, segs |-> Front(e.segs)]
        BY <3>2, <4>1
      <4> QED BY <1>1, <1>2, <3>1, <4>2, <4>3
    <3> QED BY <1>1, <3>1, <3>3
  <2>2. CASE ~Canonica(e)
    <3> DEFINE x == Last(e.segs)
               s == Append(<<>>, x)
               f == Front(e.segs)
               W == STRING
    <3>1. Base(e) = Padre(e)
      BY <2>2 DEF Base
    <3>2. f \in Seq(W) /\ x \in W /\ x \in Nombre /\ e.segs = Append(f, x)
      <4>1. e.segs \in Seq(W)
        BY <1>1
      <4>2. x \in Nombre /\ f \in Seq(W) /\ x \in W
        BY <1>1 DEF Nombre
      <4> HIDE DEF W
      <4> QED BY <1>1, <4>1, <4>2, FrenteYUltimo
    <3> HIDE DEF W, x, f
    <3>3. s \in Seq(Nombre) /\ s # <<>> /\ Front(s) = <<>> /\ s \in Seq(W)
      <4>1. s \in Seq(Nombre) /\ s \in Seq(W) /\ Len(s) = 1
        BY <3>2
      <4>2. s # <<>>
        BY <4>1
      <4> HIDE DEF s
      <4>3. Front(s) \in Seq(Nombre) /\ Len(Front(s)) = 0
        BY <4>1, <4>2, FrenteYUltimo
      <4> QED BY <4>1, <4>2, <4>3, EmptySeq
    <3>4. f \o s = Append(f, x) /\ f \o <<>> = f
      <4>1. f \o Append(<<>>, x) = Append(f \o <<>>, x) /\ f \o <<>> = f
        BY <3>2
      <4> QED BY <4>1
    <3>5. Texto(e, s) = e
      <4>1. \A z : Texto(e, z) = [absoluta |-> e.absoluta, segs |-> f \o z]
        BY <1>1, <3>1 DEF Texto, f
      <4>2. f \o s = e.segs
        BY <3>2, <3>4
      <4> HIDE DEF s
      <4> QED BY <1>2, <4>1, <4>2
    <3>6. Padre(e) = Texto(e, Front(s))
      <4>1. \A z : Texto(e, z) = [absoluta |-> e.absoluta, segs |-> f \o z]
        BY <1>1, <3>1 DEF Texto, f
      <4>2. Texto(e, <<>>) = [absoluta |-> e.absoluta, segs |-> f]
        BY <3>4, <4>1
      <4> HIDE DEF s
      <4> QED BY <1>1, <3>3, <4>2 DEF f
    <3> QED BY <3>3, <3>5, <3>6
  <2> QED BY <2>1, <2>2
<1>7. PICK s \in Seq(Nombre) : s # <<>> /\ Texto(e, s) = e /\ Padre(e) = Texto(e, Front(s))
  BY <1>6
<1>8. Abre(e) = Abre(Base(e)) \o s
  BY <1>7, AbreTexto
<1>9. Llamar(Abre(e), Padre(e)).archivo = Abre(e) /\ Llamar(Abre(e), Padre(e)).dirBase = Padre(e)
  BY DEF Llamar
<1>10. (1 = 1 /\ ~e.absoluta) \/ Texto(e, s) \in {Absoluta(e)}
  BY <1>5, <1>7
<1> QED BY <1>4, <1>7, <1>8, <1>9, <1>10 DEF EsMarco

(* D is the text of the file it opens.                                     *)
ConSuTexto(e, D) == \E s \in Seq(Nombre) : D = Texto(e, s) /\ Abre(D) = Abre(Base(e)) \o s

(* The k-th call, as it should be, meets an include, the p-th statement of  *)
(* its file, of the text D of a file that can be read.                      *)
Encuentra(d, e, v, c, k, p, D) ==
  /\ d \in Discos /\ e \in Principales /\ UnTexto(d, e)
  /\ c \in Llamada /\ EsMarco(d, e, v, c, k) /\ p \in Inclusiones(d, c.archivo)
  /\ D = Dividir(c.dirBase, Mod(d, <<c.archivo, p>>)) /\ Abre(D) \in Abribles(d)

(* An include of a call that is as it should be: its text is that of the    *)
(* file it opens, and the call it makes is as it should be.                 *)
LEMMA IncluyeMarco ==
  ASSUME NEW d, NEW e, NEW v, NEW c, NEW k, NEW p, NEW D, Encuentra(d, e, v, c, k, p, D)
  PROVE  /\ EsMarco(d, e, v \cup {D}, Llamar(Abre(D), Padre(D)), k + 1)
         /\ ConSuTexto(e, D)
<1>0. /\ d \in Discos /\ e \in Principales /\ UnTexto(d, e)
      /\ c \in Llamada /\ EsMarco(d, e, v, c, k) /\ p \in Inclusiones(d, c.archivo)
      /\ D = Dividir(c.dirBase, Mod(d, <<c.archivo, p>>)) /\ Abre(D) \in Abribles(d)
  BY DEF Encuentra
<1> USE <1>0
<1> DEFINE m == Mod(d, <<c.archivo, p>>)
           q == <<c.archivo, p>>
<1>1. c.archivo \in Archivos /\ c.archivo \in Alcanzados(d, e) /\ c.archivo \in Abribles(d)
  BY AlcanzaCerrado DEF EsMarco, Alcanzados, Llamada
<1>2. m \in Incluibles
  BY <1>1, DiscoTipo
<1>3. q \in Pasos(d) /\ q \in Pasados(d, e) /\ q[1] = c.archivo /\ Mod(d, q) = m
  <2>1. q \in Pasos(d)
    BY <1>1 DEF Pasos
  <2> QED BY <1>1, <2>1 DEF Pasados
<1>4. Limpia(m) /\ (Canonica(e) \/ ~m.absoluta)
  <2>1. q \notin ConPuntos(d, e)
    BY DEF UnTexto
  <2>2. Canonica(e) \/ q \in Relativos(d)
    BY <1>3 DEF UnTexto
  <2> QED BY <1>3, <2>1, <2>2 DEF ConPuntos, Relativos
<1> HIDE DEF q, m
<1>5. /\ m.segs \in Seq(Nombre) /\ m.segs # <<>> /\ m.absoluta \in BOOLEAN
      /\ m = [absoluta |-> m.absoluta, segs |-> m.segs]
  BY <1>2, <1>4, RutaDada DEF Ruta
<1>6. PICK s \in Seq(Nombre) : s # <<>> /\ c.archivo = Abre(Base(e)) \o s /\ c.dirBase = Texto(e, Front(s))
  BY DEF EsMarco
<1>7. Front(s) \in Seq(Nombre)
  BY <1>6, FrenteYUltimo
<1> DEFINE z == IF m.absoluta THEN m.segs ELSE Front(s) \o m.segs
           b == Base(e).segs
           a == Abre(Base(e))
<1>8. z \in Seq(Nombre) /\ z # <<>> /\ Front(z) \in Seq(Nombre)
  <2>1. Front(s) \o m.segs \in Seq(Nombre) /\ Front(s) \o m.segs # <<>>
    BY <1>5, <1>7, Juntar
  <2>2. z \in Seq(Nombre) /\ z # <<>>
    BY <1>5, <2>1
  <2> HIDE DEF z
  <2> QED BY <2>2, FrenteYUltimo
<1>9. /\ b \in Seq(STRING) /\ a \in Seq(Nombre) /\ m.segs \in Seq(STRING) /\ Front(s) \in Seq(STRING)
      /\ z \in Seq(STRING) /\ Abre(Texto(e, z)) = a \o z
  BY <1>5, <1>7, <1>8, AbreTexto
<1>10. D = Texto(e, z)
  <2>1. CASE m.absoluta
    <3>1. Base(e) = [absoluta |-> TRUE, segs |-> <<>>]
      BY <1>4, <2>1 DEF Base
    <3>2. <<>> \o m.segs = m.segs
      BY <1>5
    <3>3. D = m /\ z = m.segs /\ m = [absoluta |-> TRUE, segs |-> m.segs]
      BY <1>5, <2>1 DEF Dividir, m, q
    <3>4. \A y : Texto(e, y) = [absoluta |-> TRUE, segs |-> <<>> \o y]
      BY <3>1 DEF Texto
    <3> HIDE DEF z
    <3>5. Texto(e, z) = [absoluta |-> TRUE, segs |-> m.segs]
      BY <3>2, <3>3, <3>4
    <3> QED BY <3>3, <3>5
  <2>2. CASE ~m.absoluta
    <3>1. D = [absoluta |-> Base(e).absoluta, segs |-> (b \o Front(s)) \o m.segs]
      BY <1>6, <2>2 DEF Dividir, Texto, m, q
    <3>2. (b \o Front(s)) \o m.segs = b \o (Front(s) \o m.segs)
      <4> DEFINE f == Front(s)
                 g == m.segs
                 T == STRING
      <4>1. b \in Seq(T) /\ f \in Seq(T) /\ g \in Seq(T)
        BY <1>9
      <4>2. (b \o f) \o g = b \o (f \o g)
        <5> HIDE DEF b, f, g, T
        <5> QED BY <4>1
      <4> QED BY <4>2
    <3>3. z = Front(s) \o m.segs
      BY <2>2
    <3> QED BY <3>1, <3>2, <3>3 DEF Texto
  <2> QED BY <2>1, <2>2
<1>11. Padre(D) = Texto(e, Front(z))
  <2> HIDE DEF z
  <2>1. Front(b \o z) = b \o Front(z)
    <3> DEFINE W == STRING
    <3>1. b \in Seq(W) /\ z \in Seq(W)
      BY <1>9
    <3> HIDE DEF W, b
    <3>2. \A x \in Seq(W) : x # <<>> => Front(b \o x) = b \o Front(x)
      BY <3>1, Juntar
    <3> QED BY <1>8, <3>1, <3>2
  <2>2. \A y : Texto(e, y) = [absoluta |-> Base(e).absoluta, segs |-> b \o y]
    BY DEF Texto
  <2>3. Padre(D) = [absoluta |-> Base(e).absoluta, segs |-> Front(b \o z)]
    <3>1. D = [absoluta |-> Base(e).absoluta, segs |-> b \o z]
      BY <1>10, <2>2
    <3>2. \A u, w : Padre([absoluta |-> u, segs |-> w]) = [absoluta |-> u, segs |-> Front(w)]
      BY DEF Padre
    <3> HIDE DEF b
    <3> QED BY <3>1, <3>2
  <2> QED BY <2>1, <2>2, <2>3
<1>12. Incluye(d, q) = Abre(D)
  <2>1. Incluye(d, q) = Abre(Dividir([absoluta |-> TRUE, segs |-> Front(c.archivo)], m))
    BY <1>3 DEF Incluye
  <2>2. CASE m.absoluta
    BY <2>1, <2>2 DEF Dividir, m, q
  <2>3. CASE ~m.absoluta
    <3>1. Front(c.archivo) = a \o Front(s)
      BY <1>6, <1>9, Juntar
    <3>2. Dividir([absoluta |-> TRUE, segs |-> Front(c.archivo)], m)
            = [absoluta |-> TRUE, segs |-> (a \o Front(s)) \o m.segs]
      BY <2>3, <3>1 DEF Dividir
    <3>3. (a \o Front(s)) \o m.segs = a \o z /\ a \o z \in Seq(Nombre)
      <4>1. z = Front(s) \o m.segs
        BY <2>3
      <4> DEFINE f == Front(s)
                 g == m.segs
                 T == Nombre
      <4>2. a \in Seq(T) /\ f \in Seq(T) /\ g \in Seq(T)
        BY <1>5, <1>7, <1>9
      <4>3. (a \o f) \o g = a \o (f \o g) /\ a \o (f \o g) \in Seq(T)
        <5> HIDE DEF a, f, g, T
        <5> QED BY <4>2
      <4> QED BY <4>1, <4>3
    <3>4. Abre([absoluta |-> TRUE, segs |-> a \o z]) = Camina(<<>>, a \o z)
      BY DEF Abre
    <3>5. <<>> \in Seq(Nombre)
      OBVIOUS
    <3>6. Camina(<<>>, a \o z) = <<>> \o (a \o z)
      BY <3>3, <3>5, CaminaPorNombres
    <3>7. <<>> \o (a \o z) = a \o z
      BY <3>3, Juntar
    <3> QED BY <1>9, <1>10, <2>1, <3>2, <3>3, <3>4, <3>6, <3>7
  <2> QED BY <2>2, <2>3
<1>13. Abre(D) \in Alcanzados(d, e)
  <2>1. Incluye(d, q) \in Abribles(d) /\ q[1] \in Alcanza(d, Pasos(d), Abre(e))
    BY <1>1, <1>3, <1>12 DEF Alcanzados
  <2>2. Incluye(d, q) \in Alcanza(d, Pasos(d), Abre(e))
    BY <1>3, <2>1, AlcanzaCerrado
  <2> QED BY <1>12, <2>2 DEF Alcanzados
<1>14. Llamar(Abre(D), Padre(D)).archivo = Abre(D) /\ Llamar(Abre(D), Padre(D)).dirBase = Padre(D)
  BY DEF Llamar
<1>15. Abre(D) = a \o z /\ Texto(e, z) \in v \cup {D}
  BY <1>9, <1>10
<1> HIDE DEF z
<1>16. EsMarco(d, e, v \cup {D}, Llamar(Abre(D), Padre(D)), k + 1)
  BY <1>8, <1>11, <1>13, <1>14, <1>15 DEF EsMarco
<1> QED BY <1>8, <1>10, <1>15, <1>16 DEF ConSuTexto

-----------------------------------------------------------------------------
(* The invariant: the first call expands the entry, and, when files are     *)
(* known by one text, every call is as it should be.                        *)

Primera == pila # <<>> => pila[1].archivo = Abre(entrada)
Marcos ==
  UnTexto(disco, entrada) =>
    \A k \in DOMAIN pila : EsMarco(disco, entrada, visitados, pila[k], k)
Inv == TypeOK /\ Primera /\ Marcos /\ SinCirculos

(* The call on top, and what is under it.                                  *)
LEMMA TopeTipo ==
  ASSUME TypeOK, pila # <<>>
  PROVE  /\ Len(pila) \in Nat \ {0} /\ Len(pila) \in DOMAIN pila /\ DOMAIN pila = 1 .. Len(pila)
         /\ Tope = pila[Len(pila)] /\ Tope \in Llamada /\ Tope.archivo \in Archivos
         /\ Tope.pos \in Nat \ {0} /\ Tope.dirBase \in Ruta /\ Tope.nueva \in Seq(Origen)
         /\ Front(pila) \in Seq(Llamada) /\ Len(Front(pila)) = Len(pila) - 1
         /\ \A k \in 1 .. Len(pila) - 1 : Front(pila)[k] = pila[k]
<1>1. pila \in Seq(Llamada)
  BY DEF TypeOK
<1>2. /\ Len(pila) \in Nat \ {0} /\ Front(pila) \in Seq(Llamada) /\ Last(pila) \in Llamada
      /\ Len(Front(pila)) = Len(pila) - 1 /\ \A k \in 1 .. Len(pila) - 1 : Front(pila)[k] = pila[k]
  BY <1>1, FrenteYUltimo
<1>3. DOMAIN pila = 1 .. Len(pila) /\ Len(pila) \in DOMAIN pila
  BY <1>1, <1>2
<1>4. Tope = pila[Len(pila)]
  BY DEF Tope, Last
<1>5. Tope \in Llamada
  BY <1>2 DEF Tope
<1>6. /\ Tope.archivo \in Archivos /\ Tope.pos \in Nat \ {0} /\ Tope.dirBase \in Ruta
      /\ Tope.nueva \in Seq(Origen)
  BY <1>5 DEF Llamada
<1> QED BY <1>2, <1>3, <1>4, <1>5, <1>6

(* The statement being expanded.                                           *)
LEMMA ActualTipo ==
  ASSUME TypeOK, EnInclusion
  PROVE  /\ pila # <<>> /\ disco \in Discos /\ entrada \in Principales
         /\ Tope.pos \in Inclusiones(disco, Tope.archivo)
         /\ Actual.mod = Mod(disco, <<Tope.archivo, Tope.pos>>) /\ Actual.mod \in Incluibles
         /\ Destino \in Ruta /\ Padre(Destino) \in Ruta
<1>1. pila # <<>> /\ Tope.pos <= Len(disco[Tope.archivo].sents) /\ Actual.tipo = "incluir"
  BY DEF EnInclusion, Quedan, Sentencias
<1>2. disco \in Discos /\ entrada \in Principales
  BY DEF TypeOK
<1>3. Tope.archivo \in Archivos /\ Tope.pos \in Nat \ {0} /\ Tope.dirBase \in Ruta
  BY <1>1, TopeTipo
<1>4. Len(disco[Tope.archivo].sents) \in Nat
  BY <1>2, <1>3, DiscoTipo
<1>5. Actual = disco[Tope.archivo].sents[Tope.pos]
  BY DEF Actual, Sentencias
<1>6. Tope.pos \in Inclusiones(disco, Tope.archivo)
  BY <1>1, <1>3, <1>4, <1>5 DEF Inclusiones
<1>7. Actual.mod = Mod(disco, <<Tope.archivo, Tope.pos>>)
  BY <1>5 DEF Mod
<1>8. Actual.mod \in Incluibles
  BY <1>2, <1>3, <1>6, <1>7, DiscoTipo
<1> DEFINE m == Actual.mod
           t == Tope.dirBase
           D == Dividir(t, m)
<1>9. /\ m \in Ruta /\ m.segs \in Seq(STRING) /\ m.segs # <<>> /\ t \in Ruta
      /\ t.segs \in Seq(STRING) /\ t.absoluta \in BOOLEAN /\ m.absoluta \in BOOLEAN
  BY <1>3, <1>8, RutaDada DEF Ruta
<1> HIDE DEF m, t
<1>10. /\ D.absoluta \in BOOLEAN /\ D.segs \in Seq(STRING) /\ D.segs # <<>>
       /\ D = [absoluta |-> D.absoluta, segs |-> D.segs]
  <2>1. CASE m.absoluta
    BY <1>9, <2>1 DEF Dividir, Ruta
  <2>2. CASE ~m.absoluta
    <3>1. D = [absoluta |-> t.absoluta, segs |-> t.segs \o m.segs]
      BY <2>2 DEF Dividir
    <3>2. t.segs \o m.segs \in Seq(STRING) /\ t.segs \o m.segs # <<>>
      <4> DEFINE W == STRING
      <4>1. t.segs \in Seq(W) /\ m.segs \in Seq(W)
        BY <1>9
      <4> HIDE DEF W
      <4>2. t.segs \o m.segs \in Seq(W) /\ t.segs \o m.segs # <<>>
        BY <1>9, <4>1, Juntar
      <4> QED BY <4>2 DEF W
    <3> QED BY <1>9, <3>1, <3>2
  <2> QED BY <2>1, <2>2
<1> HIDE DEF D
<1>11. Front(D.segs) \in Seq(STRING)
  <2> DEFINE W == STRING
  <2>1. D.segs \in Seq(W)
    BY <1>10
  <2> HIDE DEF W
  <2>2. Front(D.segs) \in Seq(W)
    BY <1>10, <2>1, FrenteYUltimo
  <2> QED BY <2>2 DEF W
<1>12. D \in Ruta /\ Padre(D) \in Ruta
  <2>1. \A u, w : Padre([absoluta |-> u, segs |-> w]) = [absoluta |-> u, segs |-> Front(w)]
    BY DEF Padre
  <2>2. Padre(D) = [absoluta |-> D.absoluta, segs |-> Front(D.segs)]
    BY <1>10, <2>1
  <2> QED BY <1>10, <1>11, <2>2 DEF Ruta
<1>13. Destino = D
  BY DEF D, m, t, Destino
<1> QED BY <1>1, <1>2, <1>6, <1>7, <1>8, <1>12, <1>13

(* The calls that stay keep their file and their directory, whatever else   *)
(* of them a step changes.                                                  *)
LEMMA PilaSigue ==
  ASSUME Inv, disco' = disco, entrada' = entrada,
         visitados \subseteq visitados', visitados' \subseteq Ruta,
         resultado' \in {"pendiente", "ok", "error"}, programa' \in Seq(Origen),
         pila' \in Seq(Llamada), Len(pila') <= Len(pila),
         \A k \in 1 .. Len(pila') : /\ pila'[k].archivo = pila[k].archivo
                                    /\ pila'[k].dirBase = pila[k].dirBase
  PROVE  Inv'
<1>1. pila \in Seq(Llamada) /\ DOMAIN pila = 1 .. Len(pila) /\ Len(pila) \in Nat
  BY DEF Inv, TypeOK
<1>2. DOMAIN pila' = 1 .. Len(pila') /\ Len(pila') \in Nat /\ (pila' # <<>> => Len(pila') # 0)
  BY EmptySeq
<1>3. \A k \in DOMAIN pila' : k \in DOMAIN pila
  BY <1>1, <1>2
<1>4. TypeOK'
  BY DEF Inv, TypeOK
<1>5. Primera'
  <2>1. SUFFICES ASSUME pila' # <<>> PROVE pila'[1].archivo = Abre(entrada)
    BY DEF Primera
  <2>2. 1 \in DOMAIN pila' /\ 1 \in DOMAIN pila /\ 1 \in 1 .. Len(pila')
    BY <1>2, <1>3, <2>1
  <2>3. pila # <<>>
    BY <2>2
  <2> QED BY <2>2, <2>3 DEF Inv, Primera
<1>6. Marcos'
  <2>1. SUFFICES ASSUME UnTexto(disco, entrada), NEW k \in DOMAIN pila'
                 PROVE  EsMarco(disco, entrada, visitados', pila'[k], k)
    BY DEF Marcos
  <2>2. EsMarco(disco, entrada, visitados, pila[k], k)
    BY <1>3, <2>1 DEF Inv, Marcos
  <2>3. pila'[k].archivo = pila[k].archivo /\ pila'[k].dirBase = pila[k].dirBase
    BY <1>2
  <2> QED BY <2>2, <2>3 DEF EsMarco
<1>7. SinCirculos'
  <2>1. SUFFICES ASSUME UnTexto(disco, entrada), NEW j \in DOMAIN pila', NEW k \in DOMAIN pila',
                        j < k, pila'[j].archivo = pila'[k].archivo
                 PROVE  j = 1 /\ ~entrada.absoluta /\ pila'[k].archivo = Abre(entrada)
    BY DEF SinCirculos, Repetible
  <2>2. pila'[k].archivo = pila[k].archivo /\ pila'[j].archivo = pila[j].archivo
    BY <1>2
  <2> QED BY <1>3, <2>1, <2>2 DEF Inv, SinCirculos, Repetible
<1> QED BY <1>4, <1>5, <1>6, <1>7 DEF Inv

(* The call on top replaced by another of the same file.                   *)
LEMMA ConTopeSigue ==
  ASSUME Inv, pila # <<>>, disco' = disco, entrada' = entrada, NEW n \in 1 .. Len(pila),
         NEW c \in Llamada, c.archivo = pila[n].archivo, c.dirBase = pila[n].dirBase,
         NEW p \in Seq(Llamada), Len(p) = n - 1, \A k \in 1 .. n - 1 : p[k] = pila[k],
         pila' = Append(p, c),
         visitados \subseteq visitados', visitados' \subseteq Ruta,
         resultado' \in {"pendiente", "ok", "error"}, programa' \in Seq(Origen)
  PROVE  Inv'
<1> DEFINE q == Append(p, c)
<1>1. Len(pila) \in Nat
  BY DEF Inv, TypeOK
<1>2. q \in Seq(Llamada) /\ Len(q) = n /\ q[n] = c /\ \A k \in 1 .. n - 1 : q[k] = p[k]
  OBVIOUS
<1> HIDE DEF q
<1>3. \A k \in 1 .. n : q[k].archivo = pila[k].archivo /\ q[k].dirBase = pila[k].dirBase
  <2>1. ASSUME NEW k \in 1 .. n
        PROVE  q[k].archivo = pila[k].archivo /\ q[k].dirBase = pila[k].dirBase
    <3>1. CASE k = n
      BY <1>2, <3>1
    <3>2. CASE k # n
      <4>1. k \in 1 .. n - 1
        BY <3>2
      <4>2. q[k] = pila[k]
        BY <1>2, <4>1
      <4> QED BY <4>2
    <3> QED BY <3>1, <3>2
  <2> QED BY <2>1
<1>4. pila' = q
  BY DEF q
<1>5. pila' \in Seq(Llamada) /\ Len(pila') <= Len(pila)
  BY <1>1, <1>2, <1>4
<1>6. \A k \in 1 .. Len(pila') : pila'[k].archivo = pila[k].archivo /\ pila'[k].dirBase = pila[k].dirBase
  BY <1>2, <1>3, <1>4
<1> QED BY <1>5, <1>6, PilaSigue

(* The same for the steps of the call on top.                              *)
LEMMA PasoDelTope ==
  ASSUME Inv, pila # <<>>, disco' = disco, entrada' = entrada,
         NEW c \in Llamada, c.archivo = Tope.archivo, c.dirBase = Tope.dirBase, pila' = ConTope(c),
         visitados \subseteq visitados', visitados' \subseteq Ruta,
         resultado' = resultado, programa' = programa
  PROVE  Inv'
<1>1. TypeOK
  BY DEF Inv
<1>2. /\ Len(pila) \in 1 .. Len(pila) /\ Tope = pila[Len(pila)]
      /\ Front(pila) \in Seq(Llamada) /\ Len(Front(pila)) = Len(pila) - 1
      /\ \A k \in 1 .. Len(pila) - 1 : Front(pila)[k] = pila[k]
  BY <1>1, TopeTipo
<1>3. resultado' \in {"pendiente", "ok", "error"} /\ programa' \in Seq(Origen)
  BY <1>1 DEF TypeOK
<1>4. pila' = Append(Front(pila), c)
  BY DEF ConTope
<1>5. c.archivo = pila[Len(pila)].archivo /\ c.dirBase = pila[Len(pila)].dirBase
  BY <1>2
<1> QED BY <1>2, <1>3, <1>4, <1>5, ConTopeSigue

(* A call with some of its fields changed.                                 *)
LEMMA LlamadaTipo ==
  ASSUME NEW c \in Llamada, NEW n \in Seq(Origen), NEW b \in BOOLEAN
  PROVE  LET e == [c EXCEPT !.pos = @ + 1, !.nueva = n, !.ok = b]
         IN  e \in Llamada /\ e.archivo = c.archivo /\ e.dirBase = c.dirBase
<1>1. c.pos \in Nat \ {0} /\ c.pos + 1 \in Nat \ {0}
  BY DEF Llamada
<1> QED BY <1>1 DEF Llamada

(* A statement copied.                                                     *)
LEMMA CopiarSigue ==
  ASSUME Inv, Copiar
  PROVE  Inv'
<1>1. TypeOK /\ pila # <<>> /\ disco' = disco /\ entrada' = entrada /\ visitados' = visitados
      /\ resultado' = resultado /\ programa' = programa
  BY DEF Inv, Copiar, Quedan
<1>2. Tope \in Llamada /\ Tope.archivo \in Archivos /\ Tope.pos \in Nat \ {0} /\ Tope.nueva \in Seq(Origen)
  BY <1>1, TopeTipo
<1> DEFINE o == [archivo |-> Tope.archivo, pos |-> Tope.pos]
           t == Tope
           c == [t EXCEPT !.pos = @ + 1, !.nueva = Append(@, o)]
<1>3. pila' = ConTope(c)
  BY DEF Copiar
<1>4. o \in Origen
  BY <1>2 DEF Origen
<1>5. c \in Llamada /\ c.archivo = t.archivo /\ c.dirBase = t.dirBase
  <2>1. Append(t.nueva, o) \in Seq(Origen)
    BY <1>2, <1>4
  <2>2. t \in Llamada
    BY <1>2
  <2> DEFINE w == Append(t.nueva, o)
  <2>3. w \in Seq(Origen) /\ t.pos + 1 \in Nat \ {0} /\ c = [t EXCEPT !.pos = @ + 1, !.nueva = w]
    BY <1>2, <2>1
  <2> HIDE DEF t, o, w, c
  <2> QED BY <2>2, <2>3 DEF Llamada
<1>6. visitados' \subseteq Ruta
  BY <1>1 DEF TypeOK
<1> HIDE DEF c
<1> QED BY <1>1, <1>3, <1>5, <1>6, PasoDelTope

(* An include left out.                                                    *)
LEMMA OmitirSigue ==
  ASSUME Inv, Omitir
  PROVE  Inv'
<1>1. TypeOK /\ pila # <<>> /\ disco' = disco /\ entrada' = entrada /\ visitados' = visitados
      /\ resultado' = resultado /\ programa' = programa
  BY DEF Inv, Omitir, EnInclusion, Quedan
<1> DEFINE t == Tope
           c == [t EXCEPT !.pos = @ + 1]
<1>2. pila' = ConTope(c)
  BY DEF Omitir
<1>3. t \in Llamada
  BY <1>1, TopeTipo
<1>4. c \in Llamada /\ c.archivo = t.archivo /\ c.dirBase = t.dirBase
  <2> HIDE DEF t
  <2> QED BY <1>3 DEF Llamada
<1>5. visitados' \subseteq Ruta
  BY <1>1 DEF TypeOK
<1> HIDE DEF c
<1> QED BY <1>1, <1>2, <1>4, <1>5, PasoDelTope

(* An include that cannot be read.                                         *)
LEMMA FallarSigue ==
  ASSUME Inv, Fallar
  PROVE  Inv'
<1>1. TypeOK /\ pila # <<>> /\ EnInclusion /\ disco' = disco /\ entrada' = entrada
      /\ visitados' = visitados \cup {Destino} /\ resultado' = resultado /\ programa' = programa
  BY DEF Inv, Fallar, EnInclusion, Quedan
<1> DEFINE t == Tope
           c == [t EXCEPT !.pos = @ + 1, !.ok = FALSE]
<1>2. pila' = ConTope(c)
  BY DEF Fallar
<1>3. t \in Llamada
  BY <1>1, TopeTipo
<1>4. c \in Llamada /\ c.archivo = t.archivo /\ c.dirBase = t.dirBase
  <2>1. t.pos + 1 \in Nat \ {0} /\ FALSE \in BOOLEAN
    BY <1>3 DEF Llamada
  <2>2. c = [t EXCEPT !.pos = @ + 1, !.ok = FALSE]
    OBVIOUS
  <2> HIDE DEF t, c
  <2> QED BY <1>3, <2>1, <2>2 DEF Llamada
<1>5. visitados' \subseteq Ruta /\ visitados \subseteq visitados'
  <2>1. Destino \in Ruta
    BY <1>1, ActualTipo
  <2> QED BY <1>1, <2>1 DEF TypeOK
<1> HIDE DEF c
<1> QED BY <1>1, <1>2, <1>4, <1>5, PasoDelTope

(* A call that ends, and its caller.                                       *)
LEMMA VolverSigue ==
  ASSUME Inv, Volver
  PROVE  Inv'
<1>1. TypeOK /\ pila # <<>> /\ Len(pila) > 1 /\ disco' = disco /\ entrada' = entrada
      /\ visitados' = visitados /\ resultado' = resultado /\ programa' = programa
  BY DEF Inv, Volver, Acabada
<1>2. /\ pila \in Seq(Llamada) /\ Len(pila) \in Nat /\ Tope.nueva \in Seq(Origen)
      /\ Tope \in Llamada /\ Tope.ok \in BOOLEAN
  BY <1>1, TopeTipo DEF TypeOK, Llamada
<1> DEFINE n == Len(pila) - 1
           u == pila[n]
           t == Tope
           c == [u EXCEPT !.pos = @ + 1, !.nueva = @ \o t.nueva, !.ok = @ /\ t.ok]
           p == SubSeq(pila, 1, Len(pila) - 2)
<1>3. n \in 1 .. Len(pila) /\ u \in Llamada
  BY <1>1, <1>2
<1>4. pila' = Append(p, c)
  BY DEF Volver
<1>5. p \in Seq(Llamada) /\ Len(p) = n - 1 /\ \A k \in 1 .. n - 1 : p[k] = pila[k]
  <2> DEFINE m == Len(pila) - 2
  <2>1. m \in 0 .. Len(pila) /\ m = n - 1 /\ p = SubSeq(pila, 1, m)
    BY <1>1, <1>2
  <2> HIDE DEF m, p, n
  <2> QED BY <1>2, <2>1, Principio
<1>6. c \in Llamada /\ c.archivo = u.archivo /\ c.dirBase = u.dirBase
  <2>1. u.nueva \in Seq(Origen) /\ u.ok \in BOOLEAN
    BY <1>3 DEF Llamada
  <2>2. u.nueva \o t.nueva \in Seq(Origen) /\ t.ok \in BOOLEAN
    BY <1>2, <2>1
  <2>3. (u.ok /\ t.ok) \in BOOLEAN
    BY <2>1, <2>2
  <2>4. c = [u EXCEPT !.pos = @ + 1, !.nueva = u.nueva \o t.nueva, !.ok = u.ok /\ t.ok]
    OBVIOUS
  <2> HIDE DEF u, t, c
  <2> DEFINE b == u.ok /\ t.ok
             w == u.nueva \o t.nueva
  <2>5. b \in BOOLEAN /\ w \in Seq(Origen) /\ c = [u EXCEPT !.pos = @ + 1, !.nueva = w, !.ok = b]
    BY <2>2, <2>3, <2>4
  <2> HIDE DEF b, w
  <2> QED BY <1>3, <2>5, LlamadaTipo
<1>7. visitados' \subseteq Ruta /\ resultado' \in {"pendiente", "ok", "error"}
      /\ programa' \in Seq(Origen)
  BY <1>1 DEF TypeOK
<1> HIDE DEF c, p, n
<1> QED BY <1>1, <1>3, <1>4, <1>5, <1>6, <1>7, ConTopeSigue DEF u

(* The outermost call ends.                                                *)
LEMMA FinSigue ==
  ASSUME Inv, Terminar
  PROVE  Inv'
<1>1. /\ TypeOK /\ pila' = <<>> /\ disco' = disco /\ entrada' = entrada /\ visitados' = visitados
      /\ resultado' \in {"ok", "error"} /\ programa' = Tope.nueva /\ pila # <<>>
  BY DEF Inv, Terminar, Acabada
<1>2. programa' \in Seq(Origen)
  BY <1>1, TopeTipo
<1>3. pila' \in Seq(Llamada) /\ Len(pila') = 0 /\ Len(pila) \in Nat
  BY <1>1 DEF TypeOK
<1>4. visitados' \subseteq Ruta
  BY <1>1 DEF TypeOK
<1>5. \A k \in 1 .. Len(pila') : pila'[k].archivo = pila[k].archivo /\ pila'[k].dirBase = pila[k].dirBase
  BY <1>3
<1> QED BY <1>1, <1>2, <1>3, <1>4, <1>5, PilaSigue

(* A file entered: it is not one of those being expanded, but for the entry *)
(* given by a relative path.                                               *)
LEMMA EntrarSigue ==
  ASSUME Inv, Entrar
  PROVE  Inv'
<1> DEFINE D == Destino
           d == disco
           e == entrada
           n == Len(pila)
           c == Llamar(Abre(D), Padre(D))
           q == Append(pila, c)
<1>1. /\ TypeOK /\ EnInclusion /\ D \notin visitados /\ Abierto /\ disco' = disco /\ entrada' = entrada
      /\ visitados' = visitados \cup {D} /\ pila' = q /\ resultado' = resultado /\ programa' = programa
  BY DEF Inv, Entrar
<1>2. /\ pila # <<>> /\ d \in Discos /\ e \in Principales /\ Tope.pos \in Inclusiones(d, Tope.archivo)
      /\ Actual.mod = Mod(d, <<Tope.archivo, Tope.pos>>) /\ D \in Ruta /\ Padre(D) \in Ruta
  BY <1>1, ActualTipo
<1>3. Abre(D) \in Archivos /\ Abre(D) \in Abribles(d)
  BY <1>1 DEF Abierto, Legible, Abribles
<1>4. D = Dividir(Tope.dirBase, Mod(d, <<Tope.archivo, Tope.pos>>))
  BY <1>2 DEF Destino
<1>5. pila \in Seq(Llamada) /\ n \in Nat \ {0} /\ n \in DOMAIN pila /\ DOMAIN pila = 1 .. n
      /\ Tope = pila[n] /\ Tope \in Llamada
  BY <1>1, <1>2, TopeTipo DEF TypeOK
<1> HIDE DEF D, d, e
<1>6. c \in Llamada /\ c.archivo = Abre(D)
  <2>1. c = [archivo |-> Abre(D), dirBase |-> Padre(D), pos |-> 1, nueva |-> <<>>, ok |-> TRUE]
    BY DEF Llamar
  <2>2. <<>> \in Seq(Origen)
    OBVIOUS
  <2> QED BY <1>2, <1>3, <2>1, <2>2 DEF Llamada
<1> HIDE DEF c, n
<1>7. q \in Seq(Llamada) /\ Len(q) = n + 1 /\ q[n + 1] = c /\ (\A k \in 1 .. n : q[k] = pila[k])
      /\ DOMAIN q = 1 .. n + 1
  BY <1>5, <1>6 DEF n
<1> HIDE DEF q
<1>8. TypeOK'
  BY <1>1, <1>2, <1>7 DEF TypeOK
<1>9. Primera'
  <2>1. q[1] = pila[1] /\ pila[1].archivo = Abre(entrada)
    BY <1>2, <1>5, <1>7 DEF Inv, Primera
  <2> QED BY <1>1, <2>1 DEF Primera
<1>10. ASSUME UnTexto(d, e)
       PROVE  /\ EsMarco(d, e, visitados \cup {D}, c, n + 1)
              /\ ConSuTexto(e, D)
              /\ \A k \in 1 .. n : EsMarco(d, e, visitados, pila[k], k)
  <2>1. \A k \in 1 .. n : EsMarco(d, e, visitados, pila[k], k)
    BY <1>5, <1>10 DEF Inv, Marcos, d, e
  <2>2. EsMarco(d, e, visitados, Tope, n)
    BY <1>5, <2>1
  <2>3. /\ EsMarco(d, e, visitados \cup {D}, Llamar(Abre(D), Padre(D)), n + 1)
        /\ ConSuTexto(e, D)
    <3> DEFINE t == Tope
               p == Tope.pos
    <3>1. /\ t \in Llamada /\ EsMarco(d, e, visitados, t, n) /\ p \in Inclusiones(d, t.archivo)
          /\ D = Dividir(t.dirBase, Mod(d, <<t.archivo, p>>))
      BY <1>2, <1>4, <1>5, <2>2
    <3> HIDE DEF t, p
    <3>2. Encuentra(d, e, visitados, t, n, p, D)
      BY <1>2, <1>3, <1>10, <3>1 DEF Encuentra
    <3> QED BY <3>2, IncluyeMarco
  <2> QED BY <2>1, <2>3 DEF c
<1>11. Marcos'
  <2>1. SUFFICES ASSUME UnTexto(d, e), NEW k \in 1 .. n + 1
                 PROVE  EsMarco(d, e, visitados \cup {D}, q[k], k)
    BY <1>1, <1>7 DEF Marcos, d, e
  <2>2. CASE k = n + 1
    BY <1>7, <1>10, <2>1, <2>2
  <2>3. CASE k # n + 1
    <3>1. k \in 1 .. n
      BY <1>5, <2>3
    <3>2. EsMarco(d, e, visitados, pila[k], k) /\ q[k] = pila[k]
      BY <1>7, <1>10, <2>1, <3>1
    <3> QED BY <3>2 DEF EsMarco
  <2> QED BY <2>2, <2>3
<1>12. SinCirculos'
  <2>1. SUFFICES ASSUME UnTexto(d, e), NEW j \in 1 .. n + 1, NEW k \in 1 .. n + 1,
                        j < k, q[j].archivo = q[k].archivo
                 PROVE  j = 1 /\ ~e.absoluta /\ q[k].archivo = Abre(e)
    BY <1>1, <1>7 DEF SinCirculos, Repetible, d, e
  <2>2. j \in 1 .. n /\ q[j] = pila[j]
    BY <1>5, <1>7, <2>1
  <2>3. CASE k # n + 1
    <3>1. k \in 1 .. n /\ q[k] = pila[k]
      BY <1>5, <1>7, <2>1, <2>3
    <3> QED BY <1>5, <2>1, <2>2, <3>1 DEF Inv, SinCirculos, Repetible, d, e
  <2>4. CASE k = n + 1
    <3>1. pila[j].archivo = Abre(D) /\ q[k].archivo = Abre(D)
      BY <1>6, <1>7, <2>1, <2>2, <2>4
    <3>2. PICK z \in Seq(Nombre) : D = Texto(e, z) /\ Abre(D) = Abre(Base(e)) \o z
      BY <1>10, <2>1 DEF ConSuTexto
    <3>3. EsMarco(d, e, visitados, pila[j], j)
      BY <1>10, <2>1, <2>2
    <3>4. PICK s \in Seq(Nombre) : /\ pila[j].archivo = Abre(Base(e)) \o s
                                   /\ (j = 1 /\ ~e.absoluta) \/ Texto(e, s) \in visitados
      BY <3>3 DEF EsMarco
    <3>5. s = z
      <4>1. Abre(Base(e)) \in Seq(Nombre)
        BY <1>2, AbreTexto
      <4> DEFINE a == Abre(Base(e))
      <4>2. a \o s = a \o z /\ a \in Seq(Nombre)
        BY <3>1, <3>2, <3>4, <4>1
      <4> HIDE DEF a
      <4>3. \A x, y \in Seq(Nombre) : a \o x = a \o y => x = y
        BY <4>2, Cancelar
      <4> QED BY <4>2, <4>3
    <3>6. j = 1 /\ ~e.absoluta
      BY <1>1, <3>2, <3>4, <3>5
    <3>7. pila[1].archivo = Abre(e)
      BY <1>2 DEF Inv, Primera, e
    <3> QED BY <3>1, <3>6, <3>7
  <2> QED BY <2>3, <2>4
<1> QED BY <1>8, <1>9, <1>11, <1>12 DEF Inv

(* The invariant holds at first.                                           *)
LEMMA InvInicial ==
  ASSUME Init
  PROVE  Inv
<1> DEFINE c == Llamar(Abre(entrada), Padre(entrada))
<1>1. disco \in Discos /\ entrada \in Principales /\ Abre(entrada) \in Archivos
  BY ConstantesAssumption DEF Init
<1>2. /\ Padre(entrada) \in Ruta /\ entrada \in Ruta /\ entrada.segs \in Seq(STRING)
      /\ entrada.absoluta \in BOOLEAN
  BY <1>1, RutaDada
<1>3. c \in Llamada /\ c.archivo = Abre(entrada)
  <2>1. <<>> \in Seq(Origen)
    OBVIOUS
  <2> QED BY <1>1, <1>2, <2>1 DEF Llamar, Llamada
<1>4. EsMarco(disco, entrada, visitados, c, 1)
  <2>1. EsMarco(disco, entrada, {Absoluta(entrada)}, c, 1)
    BY <1>1, EntradaMarco
  <2> QED BY <2>1 DEF Init
<1>5. Absoluta(entrada) \in Ruta
  <2>1. CASE entrada.absoluta
    BY <1>2, <2>1 DEF Absoluta, Dividir
  <2>2. CASE ~entrada.absoluta
    <3>1. Absoluta(entrada) = [absoluta |-> TRUE, segs |-> Cwd \o entrada.segs]
      BY <2>2 DEF Absoluta, Dividir
    <3>2. Cwd \o entrada.segs \in Seq(STRING)
      <4>1. Cwd \in Seq(Nombre)
        BY ConstantesAssumption
      <4>2. Cwd \in Seq(STRING)
        BY <4>1, CaminaPorNombres
      <4> QED BY <1>2, <4>1, <4>2, CaminaPorNombres
    <3> QED BY <3>1, <3>2 DEF Ruta
  <2> QED BY <2>1, <2>2
<1>6. pila = <<c>> /\ visitados = {Absoluta(entrada)} /\ resultado = "pendiente" /\ programa = <<>>
  BY DEF Init
<1> HIDE DEF c
<1>7. pila \in Seq(Llamada) /\ pila[1] = c /\ DOMAIN pila = {1}
  BY <1>3, <1>6
<1>8. programa \in Seq(Origen)
  BY <1>6
<1>9. TypeOK
  BY <1>1, <1>5, <1>6, <1>7, <1>8 DEF TypeOK
<1>10. Primera
  BY <1>3, <1>7 DEF Primera
<1>11. Marcos
  BY <1>4, <1>7 DEF Marcos
<1>12. SinCirculos
  BY <1>7 DEF SinCirculos
<1> QED BY <1>9, <1>10, <1>11, <1>12 DEF Inv

(* Every step keeps it.                                                    *)
LEMMA InvSigue ==
  ASSUME Inv, [Next]_vars
  PROVE  Inv'
<1>1. CASE Copiar
  BY <1>1, CopiarSigue
<1>2. CASE Omitir
  BY <1>2, OmitirSigue
<1>3. CASE Fallar
  BY <1>3, FallarSigue
<1>4. CASE Entrar
  BY <1>4, EntrarSigue
<1>5. CASE Terminar
  BY <1>5, FinSigue
<1>6. CASE Volver
  BY <1>6, VolverSigue
<1>7. CASE UNCHANGED vars
  <2>1. TypeOK' /\ Primera'
    BY <1>7 DEF Inv, TypeOK, Primera, vars
  <2>2. Marcos'
    BY <1>7 DEF Inv, Marcos, vars
  <2>3. SinCirculos'
    BY <1>7 DEF Inv, SinCirculos, Repetible, vars
  <2> QED BY <2>1, <2>2, <2>3 DEF Inv
<1> QED BY <1>1, <1>2, <1>3, <1>4, <1>5, <1>6, <1>7 DEF Next

(* The invariant holds of every state.                                     *)
THEOREM InvSiempre == Spec => []Inv
BY InvInicial, InvSigue, PTL DEF Spec

(* The state has its types.                                                *)
THEOREM TiposSiempre == Spec => []TypeOK
<1>1. Inv => TypeOK
  BY DEF Inv
<1> QED BY <1>1, InvSiempre, PTL

(* No file known by one text is entered while it is being expanded, but for *)
(* the entry given by a relative path.  (Code: `visitados` of               *)
(* procesarInclusioneesLat.)                                                *)
THEOREM CirculosSiempre == Spec => []SinCirculos
<1>1. Inv => SinCirculos
  BY DEF Inv
<1> QED BY <1>1, InvSiempre, PTL

-----------------------------------------------------------------------------
(* The texts the expansion meets, and the files they open.                  *)

(* A text that is opened: it ends in a name.                                *)
Textos == {r \in Ruta : r.segs # <<>> /\ Last(r.segs) \in Nombre}

(* Segments, whatever they are: words.                                     *)
LEMMA FrenteDeSegmentos ==
  ASSUME NEW s \in Seq(STRING), s # <<>>
  PROVE  /\ Front(s) \in Seq(STRING) /\ Last(s) \in STRING /\ s = Append(Front(s), Last(s))
         /\ Len(s) \in Nat \ {0} /\ Len(Front(s)) = Len(s) - 1 /\ Last(s) = s[Len(s)]
<1> DEFINE W == STRING
<1>1. s \in Seq(W)
  OBVIOUS
<1> HIDE DEF W
<1>2. /\ Front(s) \in Seq(W) /\ Last(s) \in W /\ s = Append(Front(s), Last(s))
      /\ Len(s) \in Nat \ {0} /\ Len(Front(s)) = Len(s) - 1
  BY <1>1, FrenteYUltimo
<1>3. Last(s) = s[Len(s)]
  BY DEF Last
<1> QED BY <1>2, <1>3 DEF W

(* The last element of a sequence, and the rest.                           *)
LEMMA UltimoDe ==
  ASSUME NEW T, NEW s \in Seq(T), NEW x \in T
  PROVE  /\ Append(s, x) # <<>> /\ Last(Append(s, x)) = x /\ Front(Append(s, x)) = s
<1> DEFINE z == Append(s, x)
<1>1. z \in Seq(T) /\ Len(z) = Len(s) + 1 /\ z[Len(s) + 1] = x /\ \A k \in 1 .. Len(s) : z[k] = s[k]
  OBVIOUS
<1> HIDE DEF z
<1>2. z # <<>>
  BY <1>1, EmptySeq
<1>3. Last(z) = x
  BY <1>1 DEF Last
<1>4. Front(z) = s
  <2>1. /\ Front(z) \in Seq(T) /\ Len(Front(z)) = Len(z) - 1
        /\ \A k \in 1 .. Len(z) - 1 : Front(z)[k] = z[k]
    BY <1>1, <1>2, FrenteYUltimo
  <2>2. Len(s) \in Nat
    OBVIOUS
  <2>3. Len(Front(z)) = Len(s) /\ \A k \in 1 .. Len(s) : Front(z)[k] = s[k]
    BY <1>1, <2>1, <2>2
  <2> QED BY <2>1, <2>3, SeqEqual
<1> QED BY <1>2, <1>3, <1>4 DEF z

(* The last element of two sequences together.                             *)
LEMMA UltimoJunto ==
  ASSUME NEW T, NEW s \in Seq(T), NEW p \in Seq(T), s # <<>>
  PROVE  /\ p \o s \in Seq(T) /\ Len(p \o s) = Len(p) + Len(s)
         /\ p \o s # <<>> /\ Last(p \o s) = Last(s)
<1>1. Len(s) \in Nat \ {0}
  BY EmptySeq
<1>2. /\ p \o s \in Seq(T) /\ Len(p \o s) = Len(p) + Len(s)
      /\ (p \o s)[Len(p) + Len(s)] = s[Len(s)] /\ Len(p) \in Nat
  BY <1>1
<1>3. p \o s # <<>>
  BY <1>1, <1>2
<1> QED BY <1>2, <1>3 DEF Last

(* A text, the directory it is in and the file it opens, which is there.    *)
LEMMA TextoPartido ==
  ASSUME NEW r \in Textos
  PROVE  /\ r \in Ruta /\ r.absoluta \in BOOLEAN /\ r.segs \in Seq(STRING) /\ Len(r.segs) \in Nat \ {0}
         /\ Padre(r) \in Ruta /\ Padre(r) = [absoluta |-> r.absoluta, segs |-> Front(r.segs)]
         /\ Len(Front(r.segs)) = Len(r.segs) - 1 /\ Front(r.segs) \in Seq(STRING)
         /\ Abre(r) \in Seq(Nombre) /\ Abre(r) # <<>> /\ Abre(Padre(r)) \in Seq(Nombre)
         /\ Front(Abre(r)) = Abre(Padre(r)) /\ Last(Abre(r)) = Last(r.segs)
<1>1. r \in Ruta /\ r.segs # <<>> /\ Last(r.segs) \in Nombre /\ r.absoluta \in BOOLEAN /\ r.segs \in Seq(STRING)
  BY DEF Textos, Ruta
<1> DEFINE f == Front(r.segs)
           x == Last(r.segs)
           d == IF r.absoluta THEN <<>> ELSE Cwd
<1>2. /\ f \in Seq(STRING) /\ x \in STRING /\ r.segs = Append(f, x)
      /\ Len(r.segs) \in Nat \ {0} /\ Len(f) = Len(r.segs) - 1
  BY <1>1, FrenteDeSegmentos
<1>3. Padre(r) = [absoluta |-> r.absoluta, segs |-> f]
  BY <1>1 DEF Padre, Ruta
<1>4. Padre(r) \in Ruta
  BY <1>1, <1>2, <1>3 DEF Ruta
<1>5. d \in Seq(Nombre)
  BY ConstantesAssumption
<1>6. Abre(r) = Camina(d, r.segs) /\ Abre(Padre(r)) = Camina(d, f)
  BY <1>3 DEF Abre
<1>7. x \in Nombre
  BY <1>1
<1> HIDE DEF f, x, d
<1>8. Camina(d, f) \in Seq(Nombre)
  BY <1>2, <1>5, CaminaPorNombres
<1>9. Camina(d, Append(f, x)) = Append(Camina(d, f), x)
  <2>1. Camina(d, Append(f, x)) = Entra(Camina(d, f), x)
    BY <1>2, CaminaUno
  <2>2. \A c : Entra(c, x) = Append(c, x)
    BY <1>7 DEF Entra, Nombre, Puntos
  <2> QED BY <2>1, <2>2
<1> DEFINE c == Camina(d, f)
<1>10. Append(c, x) # <<>> /\ Front(Append(c, x)) = c /\ Append(c, x) \in Seq(Nombre) /\ Last(Append(c, x)) = x
  <2>1. c \in Seq(Nombre)
    BY <1>8
  <2> HIDE DEF c
  <2>2. Append(c, x) # <<>> /\ Front(Append(c, x)) = c /\ Last(Append(c, x)) = x
    BY <1>7, <2>1, UltimoDe
  <2>3. Append(c, x) \in Seq(Nombre)
    BY <1>7, <2>1, AppendProperties
  <2> QED BY <2>2, <2>3
<1>11. Abre(r) = Append(c, x) /\ Abre(Padre(r)) = c
  BY <1>2, <1>6, <1>9
<1> HIDE DEF c
<1>12. Abre(r) \in Seq(Nombre) /\ Abre(r) # <<>> /\ Front(Abre(r)) = Abre(Padre(r)) /\ Last(Abre(r)) = x
  BY <1>10, <1>11
<1>13. Abre(Padre(r)) \in Seq(Nombre)
  BY <1>6, <1>8
<1> QED BY <1>1, <1>2, <1>3, <1>4, <1>12, <1>13 DEF f, x

(* What a path given or included is.                                       *)
LEMMA TextoDado ==
  ASSUME NEW r \in Principales \cup Incluibles
  PROVE  /\ r \in Textos /\ (~Limpia(r) => Len(r.segs) > 1)
         /\ Absoluta(r) \in Textos /\ Abre(Absoluta(r)) = Abre(r) /\ Absoluta(r).absoluta
         /\ r.absoluta => Absoluta(r) = r
<1>1. /\ r \in Ruta /\ r.segs # <<>> /\ Last(r.segs) \in Nombre
      /\ r.absoluta \in BOOLEAN /\ r.segs \in Seq(STRING)
  BY RutaDada
<1>2. r \in Textos
  BY <1>1 DEF Textos
<1>3. /\ Len(r.segs) \in Nat \ {0} /\ Last(r.segs) = r.segs[Len(r.segs)]
  BY <1>1, FrenteDeSegmentos
<1>4. ASSUME ~Limpia(r)
      PROVE  Len(r.segs) > 1
  <2> DEFINE z == r.segs
  <2>0. SUFFICES ASSUME ~(Len(r.segs) > 1) PROVE FALSE
    OBVIOUS
  <2>1. Len(r.segs) = 1
    <3> DEFINE n == Len(r.segs)
    <3>1. n \in Nat \ {0} /\ ~(n > 1)
      BY <1>3, <2>0
    <3> HIDE DEF n
    <3>2. n = 1
      BY <3>1
    <3> QED BY <3>2 DEF n
  <2>2. DOMAIN z = {1} /\ z[1] \notin Puntos /\ Range(z) \cap Puntos # {}
    BY <1>1, <1>3, <1>4, <2>1 DEF Limpia, Nombre
  <2> HIDE DEF z
  <2>3. Range(z) = {z[1]}
    BY <2>2 DEF Range
  <2> QED BY <2>2, <2>3
<1>5. r.absoluta => Absoluta(r) = r
  BY DEF Absoluta, Dividir
<1>6. Absoluta(r) \in Textos /\ Abre(Absoluta(r)) = Abre(r) /\ Absoluta(r).absoluta
  <2>1. CASE r.absoluta
    BY <1>2, <1>5, <2>1
  <2>2. CASE ~r.absoluta
    <3>1. Absoluta(r) = [absoluta |-> TRUE, segs |-> Cwd \o r.segs]
      BY <2>2 DEF Absoluta, Dividir
    <3>2. Cwd \in Seq(Nombre) /\ <<>> \in Seq(Nombre)
      BY ConstantesAssumption
    <3>3. Cwd \in Seq(STRING) /\ Camina(<<>>, Cwd) = <<>> \o Cwd
      BY <3>2, CaminaPorNombres
    <3>4. Cwd \o r.segs \in Seq(STRING) /\ Camina(<<>>, Cwd \o r.segs) = Camina(Camina(<<>>, Cwd), r.segs)
      BY <1>1, <3>2, <3>3, CaminaPorNombres
    <3>5. <<>> \o Cwd = Cwd
      BY <3>2
    <3>6. Abre(Absoluta(r)) = Camina(<<>>, Cwd \o r.segs) /\ Abre(r) = Camina(Cwd, r.segs)
      BY <2>2, <3>1 DEF Abre
    <3>7. Cwd \o r.segs # <<>> /\ Last(Cwd \o r.segs) = Last(r.segs)
      <4> DEFINE W == STRING
                 z == r.segs
      <4>1. Cwd \in Seq(W) /\ z \in Seq(W) /\ z # <<>>
        BY <1>1, <3>3
      <4> HIDE DEF W, z
      <4>2. Cwd \o z # <<>> /\ Last(Cwd \o z) = Last(z)
        BY <4>1, UltimoJunto
      <4> QED BY <4>2 DEF z
    <3>8. Absoluta(r) \in Ruta
      BY <3>1, <3>4 DEF Ruta
    <3>9. Absoluta(r).segs = Cwd \o r.segs /\ Absoluta(r).absoluta
      BY <3>1
    <3> QED BY <1>1, <3>3, <3>4, <3>5, <3>6, <3>7, <3>8, <3>9 DEF Textos
  <2> QED BY <2>1, <2>2
<1> QED BY <1>2, <1>4, <1>5, <1>6

(* The text of an include is looked for where its file is: in the directory *)
(* of the text r of the file that has it.                                   *)
LEMMA TextoSigue ==
  ASSUME NEW r \in Textos, NEW m \in Incluibles
  PROVE  LET D == Dividir(Padre(r), m)
         IN  /\ D \in Textos
             /\ Abre(D) = Abre(Dividir([absoluta |-> TRUE, segs |-> Front(Abre(r))], m))
             /\ m.absoluta => D = m
             /\ ~m.absoluta => /\ D.absoluta = r.absoluta
                               /\ D.segs = Front(r.segs) \o m.segs
                               /\ Len(D.segs) = Len(r.segs) - 1 + Len(m.segs)
<1> DEFINE D == Dividir(Padre(r), m)
           f == Front(r.segs)
           g == m.segs
<1>1. /\ m \in Textos /\ m \in Ruta /\ g \in Seq(STRING) /\ g # <<>> /\ Last(g) \in Nombre
      /\ m.absoluta \in BOOLEAN
  BY TextoDado, RutaDada
<1>2. /\ r.absoluta \in BOOLEAN /\ f \in Seq(STRING) /\ Len(f) = Len(r.segs) - 1
      /\ Padre(r) = [absoluta |-> r.absoluta, segs |-> f] /\ Len(r.segs) \in Nat
      /\ Abre(Padre(r)) \in Seq(Nombre) /\ Front(Abre(r)) = Abre(Padre(r))
  BY TextoPartido
<1>3. CASE m.absoluta
  BY <1>1, <1>3 DEF Dividir
<1>4. CASE ~m.absoluta
  <2>0. f = Front(r.segs) /\ g = m.segs
    OBVIOUS
  <2> HIDE DEF f, g
  <2>1. D = [absoluta |-> r.absoluta, segs |-> f \o g]
    BY <1>2, <1>4, <2>0 DEF Dividir
  <2> HIDE DEF D
  <2>2. f \o g \in Seq(STRING) /\ f \o g # <<>> /\ Last(f \o g) = Last(g) /\ Len(f \o g) = Len(f) + Len(g)
    <3> DEFINE W == STRING
    <3>1. f \in Seq(W) /\ g \in Seq(W)
      BY <1>1, <1>2
    <3> HIDE DEF W
    <3>2. f \o g \in Seq(W) /\ f \o g # <<>> /\ Last(f \o g) = Last(g) /\ Len(f \o g) = Len(f) + Len(g)
      BY <1>1, <3>1, UltimoJunto
    <3> QED BY <3>2 DEF W
  <2>3. D \in Ruta /\ D.segs = f \o g /\ D.absoluta = r.absoluta
    BY <1>2, <2>1, <2>2 DEF Ruta
  <2>4. D \in Textos
    BY <1>1, <2>2, <2>3 DEF Textos
  <2> DEFINE d == IF r.absoluta THEN <<>> ELSE Cwd
             c == Camina(d, f)
  <2>5. d \in Seq(Nombre) /\ <<>> \in Seq(Nombre)
    BY ConstantesAssumption
  <2>6. Abre(D) = Camina(d, f \o g) /\ Abre(Padre(r)) = c
    BY <1>2, <2>1 DEF Abre
  <2>7. Camina(d, f \o g) = Camina(c, g)
    <3> HIDE DEF d
    <3> QED BY <1>1, <1>2, <2>5, CaminaPorNombres
  <2>8. Dividir([absoluta |-> TRUE, segs |-> Front(Abre(r))], m) = [absoluta |-> TRUE, segs |-> c \o g]
    BY <1>2, <1>4, <2>0, <2>6 DEF Dividir
  <2>9. Abre([absoluta |-> TRUE, segs |-> c \o g]) = Camina(<<>>, c \o g)
    BY DEF Abre
  <2>10. c \in Seq(Nombre)
    BY <1>2, <2>6
  <2> HIDE DEF c, d
  <2>11. c \in Seq(STRING) /\ Camina(<<>>, c) = <<>> \o c
    BY <2>5, <2>10, CaminaPorNombres
  <2>12. <<>> \o c = c
    BY <2>10
  <2>13. Camina(<<>>, c \o g) = Camina(c, g)
    <3>1. \A u \in Seq(Nombre) : \A p, q \in Seq(STRING) : Camina(u, p \o q) = Camina(Camina(u, p), q)
      BY CaminaPorNombres
    <3>2. Camina(<<>>, c) = c
      BY <2>11, <2>12
    <3> DEFINE o == <<>>
    <3>3. o \in Seq(Nombre) /\ Camina(o, c) = c
      BY <2>5, <3>2
    <3> HIDE DEF o
    <3>4. Camina(o, c \o g) = Camina(Camina(o, c), g)
      BY <1>1, <2>11, <3>1, <3>3
    <3>5. Camina(o, c \o g) = Camina(c, g)
      BY <3>3, <3>4
    <3> QED BY <3>5 DEF o
  <2>14. Abre(D) = Abre(Dividir([absoluta |-> TRUE, segs |-> Front(Abre(r))], m))
    BY <2>6, <2>7, <2>8, <2>9, <2>13
  <2> QED BY <1>2, <1>4, <2>0, <2>2, <2>3, <2>4, <2>14 DEF D
<1> QED BY <1>3, <1>4

-----------------------------------------------------------------------------
(* What every call of the stack s has done, and what is left to it: told of *)
(* the disk d, the entry e, the texts v met and the stack s.                *)

Vistos(v) == {Abre(D) : D \in v}

(* The texts that were expanded: the entry by its own.                     *)
Expandidos(e, v) == (v \ {Absoluta(e)}) \cup {e}

(* The text of the include the k-th call is at, and of one of its includes. *)
PideEn(d, c, p) == Dividir(c.dirBase, Mod(d, <<c.archivo, p>>))
Pide(d, s, k) == PideEn(d, s[k], s[k].pos)

(* The call c expands the file of the text D.                              *)
Expande(c, D) == c.archivo = Abre(D) /\ c.dirBase = Padre(D)

(* Every text comes of an include passed; every call but the first is one   *)
(* that the call under it waits for, and of a text no other call has.       *)
Cadena(d, e, v, s) ==
  /\ v \subseteq Textos /\ Absoluta(e) \in v
  /\ \A D \in v : Abre(D) = Abre(e) \/ \E c \in Pasados(d, e) : Abre(D) = Incluye(d, c)
  /\ \E N \in Nat : \A D \in v : Len(D.segs) <= N
  /\ Expande(s[1], e)
  /\ \A k \in DOMAIN s : \E D \in Expandidos(e, v) : Expande(s[k], D) /\ Abre(D) \in Abribles(d)
  /\ \A k \in DOMAIN s : k + 1 \in DOMAIN s =>
       /\ s[k].pos \in Inclusiones(d, s[k].archivo)
       /\ Pide(d, s, k) \in v \ {Absoluta(e)} /\ Expande(s[k + 1], Pide(d, s, k))
       /\ \A j \in DOMAIN s : j < k => Pide(d, s, j) # Pide(d, s, k)

(* The includes of what was expanded were met, but for those some call has  *)
(* still to come to.                                                       *)
Recorrida(d, e, v, s) ==
  /\ \A D \in Expandidos(e, v) : Abre(D) \in Abribles(d) =>
       \A p \in Inclusiones(d, Abre(D)) :
         \/ Dividir(Padre(D), Mod(d, <<Abre(D), p>>)) \in v
         \/ \E k \in DOMAIN s : Expande(s[k], D) /\ s[k].pos <= p
  /\ \A k \in DOMAIN s : \A p \in Inclusiones(d, s[k].archivo) :
       p < s[k].pos => PideEn(d, s[k], p) \in v

(* The places of the lists being built, in the order their statements will  *)
(* have in the end, and the statement at each.                             *)
Lugares(s) == UNION {{k} \X DOMAIN s[k].nueva : k \in DOMAIN s}
En(s, l) == s[l[1]].nueva[l[2]]
Antes(l, m) == l[1] < m[1] \/ (l[1] = m[1] /\ l[2] < m[2])

Declaradas(d, a) == DOMAIN d[a].sents \ Inclusiones(d, a)

(* What was expanded is in the lists, but for what some call has still to   *)
(* come to, and nothing else is.                                           *)
Dicha(d, v, s) ==
  /\ \A b \in Vistos(v) \cap Abribles(d) : \A p \in Declaradas(d, b) :
       \/ \E l \in Lugares(s) : En(s, l) = [archivo |-> b, pos |-> p]
       \/ \E k \in DOMAIN s : s[k].archivo = b /\ s[k].pos <= p
  /\ \A l \in Lugares(s) :
       En(s, l).archivo \in Vistos(v) \cap Abribles(d) /\ En(s, l).pos \in Declaradas(d, En(s, l).archivo)

(* No call has failed exactly when every text met could be read.            *)
Lograda(d, v, s) == (\A k \in DOMAIN s : s[k].ok) <=> (\A D \in v : Abre(D) \in Abribles(d))

Camino(d, e, v, s) == Cadena(d, e, v, s) /\ Recorrida(d, e, v, s) /\ Dicha(d, v, s) /\ Lograda(d, v, s)

(* The file that may be expanded twice.                                    *)
Doble(e, a) == ~e.absoluta /\ a = Abre(e)

Debajo(d, c) == Alcanza(d, Pasos(d), Incluye(d, c))

(* The statement y comes after an include that reaches the file a and not   *)
(* its own.                                                                *)
Tras(d, a, y) ==
  \E i \in Inclusiones(d, y.archivo) :
    i < y.pos /\ y.archivo \notin Debajo(d, <<y.archivo, i>>) /\ a \in Debajo(d, <<y.archivo, i>>)

(* What is asked of two statements, at the same place or one before.       *)
Precede(d, e, x, y, igual, antes) ==
  /\ x = y => igual \/ Doble(e, x.archivo)
  /\ x.archivo = y.archivo /\ x.pos < y.pos => antes \/ Doble(e, x.archivo)
  /\ Tras(d, x.archivo, y) => antes

(* The lists are in order.                                                 *)
Colocada(d, e, s) ==
  \A l, m \in Lugares(s) : Precede(d, e, En(s, l), En(s, m), l = m, Antes(l, m))

(* What a file being expanded has given is before its next statement.       *)
Superada(e, s) ==
  \A l \in Lugares(s), k \in DOMAIN s :
    En(s, l).archivo = s[k].archivo => En(s, l).pos < s[k].pos \/ Doble(e, s[k].archivo)

(* What was to come before a statement of the lists is over.                *)
Agotada(d, v, s) ==
  \A l \in Lugares(s), b \in Abribles(d) :
    Tras(d, b, En(s, l)) => b \in Vistos(v) /\ \A k \in DOMAIN s : s[k].archivo # b

EnOrden(d, e, v, s) == Colocada(d, e, s) /\ Superada(e, s) /\ Agotada(d, v, s)

-----------------------------------------------------------------------------
(* The steps of the stack.                                                  *)

(* The call n goes on to its next statement; the one over it, if any, had   *)
(* no more.                                                                *)
Adelanta(d, s, n, q) ==
  /\ d \in Discos /\ s \in Seq(Llamada) /\ q \in Seq(Llamada)
  /\ n \in 1 .. Len(s) /\ Len(q) = n /\ Len(s) <= n + 1
  /\ \A k \in 1 .. n - 1 : q[k] = s[k]
  /\ q[n].archivo = s[n].archivo /\ q[n].dirBase = s[n].dirBase /\ q[n].pos = s[n].pos + 1
  /\ n < Len(s) => Len(d[s[n + 1].archivo].sents) < s[n + 1].pos

(* A call more, for the text D, which was not met.                          *)
Mete(d, v, s, D, q) ==
  /\ d \in Discos /\ s \in Seq(Llamada) /\ s # <<>> /\ q \in Seq(Llamada)
  /\ s[Len(s)].pos \in Inclusiones(d, s[Len(s)].archivo)
  /\ D = Pide(d, s, Len(s)) /\ D \notin v /\ Abre(D) \in Abribles(d)
  /\ q = Append(s, Llamar(Abre(D), Padre(D)))

(* The calls after a call goes on.                                         *)
LEMMA AdelantaQue ==
  ASSUME NEW d, NEW s, NEW n, NEW q, Adelanta(d, s, n, q)
  PROVE  /\ d \in Discos /\ n \in Nat \ {0} /\ Len(s) \in Nat
         /\ DOMAIN s = 1 .. Len(s) /\ DOMAIN q = 1 .. n /\ n \in DOMAIN s /\ s # <<>> /\ q # <<>>
         /\ \A k \in DOMAIN q : /\ k \in DOMAIN s /\ q[k].archivo = s[k].archivo /\ q[k].dirBase = s[k].dirBase
                                /\ (k # n => q[k] = s[k]) /\ s[k].pos \in Nat \ {0} /\ s[k].pos <= q[k].pos
         /\ q[n].pos = s[n].pos + 1
         /\ \A k \in DOMAIN s : \A p \in Nat :
              s[k].pos <= p /\ p <= Len(d[s[k].archivo].sents)
                => (k \in DOMAIN q /\ q[k].pos <= p) \/ (k = n /\ p = s[n].pos)
<1>1. /\ d \in Discos /\ s \in Seq(Llamada) /\ q \in Seq(Llamada)
      /\ n \in 1 .. Len(s) /\ Len(q) = n /\ Len(s) <= n + 1
      /\ \A k \in 1 .. n - 1 : q[k] = s[k]
      /\ q[n].archivo = s[n].archivo /\ q[n].dirBase = s[n].dirBase /\ q[n].pos = s[n].pos + 1
      /\ n < Len(s) => Len(d[s[n + 1].archivo].sents) < s[n + 1].pos
  BY DEF Adelanta
<1>2. Len(s) \in Nat /\ n \in Nat \ {0} /\ DOMAIN s = 1 .. Len(s) /\ DOMAIN q = 1 .. n
  BY <1>1
<1>3. \A k \in DOMAIN s : s[k] \in Llamada
  BY <1>1
<1>4. \A k \in DOMAIN s : s[k].pos \in Nat \ {0} /\ s[k].archivo \in Archivos
  BY <1>3 DEF Llamada
<1>5. s # <<>> /\ q # <<>> /\ n \in DOMAIN s
  BY <1>1, <1>2
<1>6. ASSUME NEW k \in DOMAIN q
      PROVE  /\ k \in DOMAIN s /\ q[k].archivo = s[k].archivo /\ q[k].dirBase = s[k].dirBase
             /\ (k # n => q[k] = s[k]) /\ s[k].pos \in Nat \ {0} /\ s[k].pos <= q[k].pos
  <2>1. k \in DOMAIN s /\ s[k].pos \in Nat \ {0}
    BY <1>1, <1>2, <1>4
  <2>2. CASE k = n
    BY <1>1, <2>1, <2>2
  <2>3. CASE k # n
    <3>1. k \in 1 .. n - 1
      BY <1>2, <2>3
    <3>2. q[k] = s[k]
      BY <1>1, <3>1
    <3> QED BY <2>1, <3>2
  <2> QED BY <2>2, <2>3
<1>7. ASSUME NEW k \in DOMAIN s, NEW p \in Nat, s[k].pos <= p, p <= Len(d[s[k].archivo].sents)
      PROVE  (k \in DOMAIN q /\ q[k].pos <= p) \/ (k = n /\ p = s[n].pos)
  <2>1. Len(d[s[k].archivo].sents) \in Nat /\ s[k].pos \in Nat
    BY <1>1, <1>4, DiscoTipo
  <2>2. CASE k = n
    BY <1>1, <1>2, <1>7, <2>1, <2>2
  <2>3. CASE k = n + 1
    BY <1>1, <1>2, <1>7, <2>1, <2>3
  <2>4. CASE k < n
    <3>1. k \in 1 .. n - 1 /\ k \in DOMAIN q
      BY <1>2, <2>4
    <3> QED BY <1>1, <1>7, <3>1
  <2>5. k = n \/ k = n + 1 \/ k < n
    BY <1>1, <1>2
  <2> QED BY <2>2, <2>3, <2>4, <2>5
<1> QED BY <1>1, <1>2, <1>5, <1>6, <1>7

(* The calls after one more.                                               *)
LEMMA MeteQue ==
  ASSUME NEW d, NEW v, NEW s, NEW D, NEW q, Mete(d, v, s, D, q), NEW n, n = Len(s)
  PROVE  /\ d \in Discos /\ n \in Nat \ {0} /\ n \in DOMAIN s /\ s # <<>> /\ q # <<>>
         /\ DOMAIN s = 1 .. n /\ DOMAIN q = 1 .. n + 1 /\ Len(q) = n + 1
         /\ \A k \in DOMAIN s : k \in DOMAIN q /\ q[k] = s[k] /\ s[k].pos \in Nat \ {0}
         /\ Expande(q[n + 1], D) /\ q[n + 1].pos = 1 /\ q[n + 1].nueva = <<>>
         /\ q[n + 1].ok
<1> DEFINE c == Llamar(Abre(D), Padre(D))
<1>1. d \in Discos /\ s \in Seq(Llamada) /\ s # <<>> /\ q \in Seq(Llamada) /\ q = Append(s, c)
  BY DEF Mete
<1>2. c.archivo = Abre(D) /\ c.dirBase = Padre(D) /\ c.pos = 1 /\ c.nueva = <<>> /\ c.ok = TRUE
  BY DEF Llamar
<1> HIDE DEF c
<1>3. /\ n \in Nat \ {0} /\ DOMAIN s = 1 .. n /\ Len(q) = n + 1 /\ q[n + 1] = c
      /\ \A k \in 1 .. n : q[k] = s[k]
  BY <1>1, EmptySeq
<1>4. DOMAIN q = 1 .. n + 1 /\ q # <<>> /\ n \in DOMAIN s
  BY <1>1, <1>3
<1>5. \A k \in DOMAIN s : k \in DOMAIN q /\ q[k] = s[k]
  BY <1>3, <1>4
<1>6. \A k \in DOMAIN s : s[k].pos \in Nat \ {0}
  <2>1. \A k \in DOMAIN s : s[k] \in Llamada
    BY <1>1
  <2> QED BY <2>1 DEF Llamada
<1>7. Expande(q[n + 1], D)
  BY <1>2, <1>3 DEF Expande
<1> QED BY <1>1, <1>2, <1>3, <1>4, <1>5, <1>6, <1>7

-----------------------------------------------------------------------------
(* The calls and the texts.                                                 *)

(* An expanded text and the file it opens.                                 *)
LEMMA ExpandidoEs ==
  ASSUME NEW d \in Discos, NEW e \in Principales, NEW v, NEW s, Cadena(d, e, v, s),
         NEW D \in Expandidos(e, v)
  PROVE  /\ D \in Textos /\ (D \in v \/ D = e)
         /\ Abre(D) \in Vistos(v)
         /\ Abre(D) \in Abribles(d) => Abre(D) \in Alcanzados(d, e)
<1>1. /\ v \subseteq Textos /\ Absoluta(e) \in v
      /\ \A x \in v : Abre(x) = Abre(e) \/ \E c \in Pasados(d, e) : Abre(x) = Incluye(d, c)
  BY DEF Cadena
<1>2. e \in Textos /\ Abre(Absoluta(e)) = Abre(e)
  BY TextoDado
<1>3. D \in Textos /\ (D \in v \/ D = e)
  BY <1>1, <1>2 DEF Expandidos
<1>4. Abre(D) \in Vistos(v)
  BY <1>1, <1>2, <1>3 DEF Vistos
<1>5. ASSUME Abre(D) \in Abribles(d)
      PROVE  Abre(D) \in Alcanzados(d, e)
  <2>1. CASE Abre(D) = Abre(e)
    BY <1>5, <2>1, AlcanzaCerrado DEF Alcanzados
  <2>2. CASE Abre(D) # Abre(e)
    <3>1. PICK c \in Pasados(d, e) : Abre(D) = Incluye(d, c)
      BY <1>1, <1>3, <2>2
    <3>2. c \in Pasos(d) /\ c[1] \in Alcanza(d, Pasos(d), Abre(e))
      BY <3>1 DEF Pasados, Alcanzados
    <3>3. Incluye(d, c) \in Abribles(d)
      BY <1>5, <3>1
    <3>4. Incluye(d, c) \in Alcanza(d, Pasos(d), Abre(e))
      BY <3>2, <3>3, AlcanzaCerrado
    <3> QED BY <3>1, <3>4 DEF Alcanzados
  <2> QED BY <2>1, <2>2
<1> QED BY <1>3, <1>4, <1>5

(* A file met is that of a text expanded.                                  *)
LEMMA VistoExpandido ==
  ASSUME NEW e \in Principales, NEW v, NEW b \in Vistos(v)
  PROVE  \E D \in Expandidos(e, v) : Abre(D) = b
<1>1. PICK D \in v : Abre(D) = b
  BY DEF Vistos
<1>2. Abre(Absoluta(e)) = Abre(e)
  BY TextoDado
<1>3. CASE D = Absoluta(e)
  BY <1>1, <1>2, <1>3 DEF Expandidos
<1>4. CASE D # Absoluta(e)
  BY <1>1, <1>4 DEF Expandidos
<1> QED BY <1>3, <1>4

(* An include of a text expanded: its text, and the file it opens.          *)
LEMMA IncluyeTexto ==
  ASSUME NEW d \in Discos, NEW e \in Principales, NEW v, NEW s, Cadena(d, e, v, s),
         NEW D \in Expandidos(e, v), Abre(D) \in Abribles(d), NEW p \in Inclusiones(d, Abre(D))
  PROVE  LET m == Mod(d, <<Abre(D), p>>)
             x == Dividir(Padre(D), m)
         IN  /\ m \in Incluibles /\ x \in Textos /\ Abre(x) = Incluye(d, <<Abre(D), p>>)
             /\ <<Abre(D), p>> \in Pasos(d) /\ <<Abre(D), p>> \in Pasados(d, e)
<1> DEFINE a == Abre(D)
           m == Mod(d, <<a, p>>)
           x == Dividir(Padre(D), m)
<1>1. D \in Textos /\ a \in Alcanzados(d, e)
  BY ExpandidoEs
<1>2. a \in Archivos
  BY DEF Abribles
<1>3. m \in Incluibles
  BY <1>2, DiscoTipo
<1>4. <<a, p>> \in Pasos(d) /\ <<a, p>> \in Pasados(d, e)
  BY <1>1 DEF Pasos, Pasados
<1>5. x \in Textos /\ Abre(x) = Abre(Dividir([absoluta |-> TRUE, segs |-> Front(a)], m))
  <2> HIDE DEF m
  <2> QED BY <1>1, <1>3, TextoSigue
<1>6. Incluye(d, <<a, p>>) = Abre(Dividir([absoluta |-> TRUE, segs |-> Front(a)], m))
  BY DEF Incluye
<1> QED BY <1>3, <1>4, <1>5, <1>6

(* An include of a call.                                                   *)
LEMMA PideBien ==
  ASSUME NEW d \in Discos, NEW e \in Principales, NEW v, NEW s, Cadena(d, e, v, s),
         NEW k \in DOMAIN s, NEW p \in Inclusiones(d, s[k].archivo)
  PROVE  LET x == PideEn(d, s[k], p)
             c == <<s[k].archivo, p>>
         IN  /\ s[k].archivo \in Abribles(d) /\ s[k].archivo \in Alcanzados(d, e)
             /\ Mod(d, c) \in Incluibles /\ x \in Textos /\ Abre(x) = Incluye(d, c)
             /\ c \in Pasos(d) /\ c \in Pasados(d, e)
<1>1. PICK D \in Expandidos(e, v) : Expande(s[k], D) /\ Abre(D) \in Abribles(d)
  BY DEF Cadena
<1>2. s[k].archivo = Abre(D) /\ s[k].dirBase = Padre(D)
  BY <1>1 DEF Expande
<1>3. p \in Inclusiones(d, Abre(D))
  BY <1>2
<1>4. Abre(D) \in Alcanzados(d, e)
  BY <1>1, ExpandidoEs
<1>5. PideEn(d, s[k], p) = Dividir(Padre(D), Mod(d, <<Abre(D), p>>))
  BY <1>2 DEF PideEn
<1> QED BY <1>1, <1>2, <1>3, <1>4, <1>5, IncluyeTexto

(* The texts met and one more: an include of a call.                       *)
LEMMA TextosSiguen ==
  ASSUME NEW d \in Discos, NEW e \in Principales, NEW v, NEW s, Cadena(d, e, v, s),
         NEW k \in DOMAIN s, s[k].pos \in Inclusiones(d, s[k].archivo),
         NEW v2, v \subseteq v2, v2 \subseteq v \cup {Pide(d, s, k)}
  PROVE  /\ v2 \subseteq Textos /\ Absoluta(e) \in v2
         /\ \A D \in v2 : Abre(D) = Abre(e) \/ \E c \in Pasados(d, e) : Abre(D) = Incluye(d, c)
         /\ \E N \in Nat : \A D \in v2 : Len(D.segs) <= N
<1> DEFINE x == Pide(d, s, k)
           c == <<s[k].archivo, s[k].pos>>
<1>1. x \in Textos /\ Abre(x) = Incluye(d, c) /\ c \in Pasados(d, e)
  BY PideBien DEF Pide
<1>2. PICK N \in Nat : \A D \in v : Len(D.segs) <= N
  BY DEF Cadena
<1>3. /\ v \subseteq Textos /\ Absoluta(e) \in v
      /\ \A D \in v : Abre(D) = Abre(e) \/ \E y \in Pasados(d, e) : Abre(D) = Incluye(d, y)
  BY DEF Cadena
<1>4. \A D \in v2 : D \in v \/ D = x
  OBVIOUS
<1> HIDE DEF x, c
<1>5. Len(x.segs) \in Nat /\ \A D \in v : Len(D.segs) \in Nat
  BY <1>1, <1>3, TextoPartido
<1>6. \A D \in v2 : Len(D.segs) <= N + Len(x.segs)
  <2>1. \A D \in v : Len(D.segs) <= N + Len(x.segs)
    BY <1>2, <1>5
  <2>2. Len(x.segs) <= N + Len(x.segs)
    BY <1>2, <1>5
  <2> QED BY <1>4, <2>1, <2>2
<1>7. N + Len(x.segs) \in Nat
  BY <1>2, <1>5
<1>8. \E M \in Nat : \A D \in v2 : Len(D.segs) <= M
  BY <1>6, <1>7
<1>9. v2 \subseteq Textos /\ Absoluta(e) \in v2
  BY <1>1, <1>3, <1>4
<1>10. \A D \in v2 : Abre(D) = Abre(e) \/ \E y \in Pasados(d, e) : Abre(D) = Incluye(d, y)
  BY <1>1, <1>3, <1>4
<1> QED BY <1>8, <1>9, <1>10

(* A call goes on.                                                         *)
LEMMA CadenaAdelanta ==
  ASSUME NEW d, NEW e \in Principales, NEW v, NEW s, Cadena(d, e, v, s),
         NEW n, NEW q, Adelanta(d, s, n, q),
         NEW v2, v \subseteq v2, v2 \subseteq v \cup {Pide(d, s, n)},
         v2 # v => s[n].pos \in Inclusiones(d, s[n].archivo)
  PROVE  Cadena(d, e, v2, q)
<1>1. /\ d \in Discos /\ n \in Nat \ {0} /\ Len(s) \in Nat /\ n \in DOMAIN s
      /\ DOMAIN s = 1 .. Len(s) /\ DOMAIN q = 1 .. n
      /\ \A k \in DOMAIN q : /\ k \in DOMAIN s /\ q[k].archivo = s[k].archivo /\ q[k].dirBase = s[k].dirBase
                             /\ (k # n => q[k] = s[k])
  BY AdelantaQue
<1>2. /\ v2 \subseteq Textos /\ Absoluta(e) \in v2
      /\ \A D \in v2 : Abre(D) = Abre(e) \/ \E c \in Pasados(d, e) : Abre(D) = Incluye(d, c)
      /\ \E N \in Nat : \A D \in v2 : Len(D.segs) <= N
  <2>1. CASE v2 = v
    BY <2>1 DEF Cadena
  <2>2. CASE v2 # v
    BY <1>1, <2>2, TextosSiguen
  <2> QED BY <2>1, <2>2
<1>3. \A k \in DOMAIN q : \A D : Expande(q[k], D) <=> Expande(s[k], D)
  BY <1>1 DEF Expande
<1>4. Expande(q[1], e)
  BY <1>1, <1>3 DEF Cadena
<1>5. \A k \in DOMAIN q : \E D \in Expandidos(e, v2) : Expande(q[k], D) /\ Abre(D) \in Abribles(d)
  BY <1>1, <1>3 DEF Cadena, Expandidos
<1>6. \A k \in DOMAIN q : k + 1 \in DOMAIN q => k # n /\ k + 1 \in DOMAIN s
  BY <1>1
<1>7. \A k \in DOMAIN q : k # n => Pide(d, q, k) = Pide(d, s, k)
  BY <1>1 DEF Pide
<1>8. ASSUME NEW k \in DOMAIN q, k + 1 \in DOMAIN q
      PROVE  /\ q[k].pos \in Inclusiones(d, q[k].archivo)
             /\ Pide(d, q, k) \in v2 \ {Absoluta(e)} /\ Expande(q[k + 1], Pide(d, q, k))
             /\ \A j \in DOMAIN q : j < k => Pide(d, q, j) # Pide(d, q, k)
  <2>1. k # n /\ k + 1 \in DOMAIN s /\ k \in DOMAIN s /\ q[k] = s[k] /\ Pide(d, q, k) = Pide(d, s, k)
    BY <1>1, <1>6, <1>7, <1>8
  <2>2. /\ s[k].pos \in Inclusiones(d, s[k].archivo)
        /\ Pide(d, s, k) \in v \ {Absoluta(e)} /\ Expande(s[k + 1], Pide(d, s, k))
        /\ \A j \in DOMAIN s : j < k => Pide(d, s, j) # Pide(d, s, k)
    BY <2>1 DEF Cadena
  <2>3. \A j \in DOMAIN q : j < k => Pide(d, q, j) # Pide(d, q, k)
    <3>1. \A j \in DOMAIN q : j < k => j # n /\ j \in DOMAIN s
      BY <1>1, <2>1
    <3> QED BY <1>7, <2>1, <2>2, <3>1
  <2> QED BY <1>3, <1>8, <2>1, <2>2, <2>3
<1> QED BY <1>2, <1>4, <1>5, <1>8 DEF Cadena

(* A call more.                                                            *)
LEMMA CadenaMete ==
  ASSUME NEW d, NEW e \in Principales, NEW v, NEW s, Cadena(d, e, v, s),
         NEW D, NEW q, Mete(d, v, s, D, q)
  PROVE  Cadena(d, e, v \cup {D}, q)
<1> DEFINE n == Len(s)
           v2 == v \cup {D}
<1>0. n = Len(s)
  OBVIOUS
<1> HIDE DEF n, v2
<1>1. /\ d \in Discos /\ n \in Nat \ {0} /\ n \in DOMAIN s
      /\ DOMAIN s = 1 .. n /\ DOMAIN q = 1 .. n + 1
      /\ \A k \in DOMAIN s : k \in DOMAIN q /\ q[k] = s[k]
      /\ Expande(q[n + 1], D)
  BY <1>0, MeteQue
<1>2. /\ s[n].pos \in Inclusiones(d, s[n].archivo) /\ D = Pide(d, s, n) /\ D \notin v
      /\ Abre(D) \in Abribles(d)
  BY <1>0 DEF Mete
<1>3. v \subseteq v2 /\ v2 \subseteq v \cup {Pide(d, s, n)}
  BY <1>2 DEF v2
<1>4. /\ v2 \subseteq Textos /\ Absoluta(e) \in v2
      /\ \A x \in v2 : Abre(x) = Abre(e) \/ \E c \in Pasados(d, e) : Abre(x) = Incluye(d, c)
      /\ \E N \in Nat : \A x \in v2 : Len(x.segs) <= N
  BY <1>1, <1>2, <1>3, TextosSiguen
<1>5. Absoluta(e) \in v /\ D # Absoluta(e)
  BY <1>2 DEF Cadena
<1>6. D \in v2 \ {Absoluta(e)} /\ D \in Expandidos(e, v2) /\ Expandidos(e, v) \subseteq Expandidos(e, v2)
  BY <1>5 DEF v2, Expandidos
<1>7. Expande(q[1], e)
  BY <1>1 DEF Cadena
<1>8. ASSUME NEW k \in DOMAIN q
      PROVE  \E x \in Expandidos(e, v2) : Expande(q[k], x) /\ Abre(x) \in Abribles(d)
  <2>1. CASE k = n + 1
    BY <1>1, <1>2, <1>6, <2>1
  <2>2. CASE k # n + 1
    <3>1. k \in DOMAIN s
      BY <1>1, <2>2
    <3>2. PICK x \in Expandidos(e, v) : Expande(s[k], x) /\ Abre(x) \in Abribles(d)
      BY <3>1 DEF Cadena
    <3> QED BY <1>1, <1>6, <3>1, <3>2
  <2> QED BY <2>1, <2>2
<1>9. \A k \in DOMAIN s : Pide(d, q, k) = Pide(d, s, k)
  BY <1>1 DEF Pide
<1>10. ASSUME NEW k \in DOMAIN q, k + 1 \in DOMAIN q
       PROVE  /\ q[k].pos \in Inclusiones(d, q[k].archivo)
              /\ Pide(d, q, k) \in v2 \ {Absoluta(e)} /\ Expande(q[k + 1], Pide(d, q, k))
              /\ \A j \in DOMAIN q : j < k => Pide(d, q, j) # Pide(d, q, k)
  <2>1. k \in DOMAIN s /\ q[k] = s[k] /\ Pide(d, q, k) = Pide(d, s, k)
    BY <1>1, <1>9, <1>10
  <2>2. \A j \in DOMAIN q : j < k => j \in DOMAIN s /\ Pide(d, q, j) = Pide(d, s, j)
    <3>1. \A j \in DOMAIN q : j < k => j \in DOMAIN s
      BY <1>1, <2>1
    <3> QED BY <1>9, <3>1
  <2>3. CASE k = n
    <3>1. \A j \in DOMAIN s : j < n => Pide(d, s, j) # D
      <4>1. \A j \in DOMAIN s : j < n => j + 1 \in DOMAIN s
        BY <1>1
      <4>2. \A j \in DOMAIN s : j < n => Pide(d, s, j) \in v
        BY <4>1 DEF Cadena
      <4> QED BY <1>2, <4>2
    <3> QED BY <1>1, <1>2, <1>6, <2>1, <2>2, <2>3, <3>1
  <2>4. CASE k # n
    <3>1. k + 1 \in DOMAIN s /\ q[k + 1] = s[k + 1]
      BY <1>1, <1>10, <2>1, <2>4
    <3>2. /\ s[k].pos \in Inclusiones(d, s[k].archivo)
          /\ Pide(d, s, k) \in v \ {Absoluta(e)} /\ Expande(s[k + 1], Pide(d, s, k))
          /\ \A j \in DOMAIN s : j < k => Pide(d, s, j) # Pide(d, s, k)
      BY <2>1, <3>1 DEF Cadena
    <3>3. v \subseteq v2
      BY <1>3
    <3> QED BY <2>1, <2>2, <3>1, <3>2, <3>3
  <2> QED BY <2>3, <2>4
<1>11. Cadena(d, e, v2, q)
  BY <1>4, <1>7, <1>8, <1>10 DEF Cadena
<1> QED BY <1>11 DEF v2

-----------------------------------------------------------------------------
(* The includes met.                                                        *)

(* A place of a file is one of its statements.                             *)
LEMMA LugarDe ==
  ASSUME NEW d \in Discos, NEW a \in Archivos
  PROVE  /\ DOMAIN d[a].sents = 1 .. Len(d[a].sents) /\ Len(d[a].sents) \in Nat
         /\ \A p \in Inclusiones(d, a) : p \in Nat \ {0} /\ p <= Len(d[a].sents)
         /\ \A p \in Declaradas(d, a) : p \in Nat \ {0} /\ p <= Len(d[a].sents) /\ p \notin Inclusiones(d, a)
<1>1. d[a].sents \in Seq(Sentencia) /\ Len(d[a].sents) \in Nat
  BY DiscoTipo
<1>2. DOMAIN d[a].sents = 1 .. Len(d[a].sents)
  BY <1>1
<1>3. \A p \in 1 .. Len(d[a].sents) : p \in Nat \ {0} /\ p <= Len(d[a].sents)
  BY <1>1
<1>4. Inclusiones(d, a) \subseteq 1 .. Len(d[a].sents)
  BY DEF Inclusiones
<1> QED BY <1>1, <1>2, <1>3, <1>4 DEF Declaradas

(* A call goes on: what it leaves behind, if it is an include, was met.     *)
LEMMA RecorridaAdelanta ==
  ASSUME NEW d, NEW e \in Principales, NEW v, NEW s, Cadena(d, e, v, s), Recorrida(d, e, v, s),
         NEW n, NEW q, Adelanta(d, s, n, q),
         NEW v2, v \subseteq v2, \A D \in v2 \ v : Abre(D) \notin Abribles(d),
         s[n].pos \in Inclusiones(d, s[n].archivo) => Pide(d, s, n) \in v2
  PROVE  Recorrida(d, e, v2, q)
<1>1. /\ d \in Discos /\ n \in Nat \ {0} /\ n \in DOMAIN s
      /\ \A k \in DOMAIN q : /\ k \in DOMAIN s /\ q[k].archivo = s[k].archivo /\ q[k].dirBase = s[k].dirBase
                             /\ (k # n => q[k] = s[k]) /\ s[k].pos \in Nat \ {0}
      /\ q[n].pos = s[n].pos + 1
      /\ \A k \in DOMAIN s : \A p \in Nat :
           s[k].pos <= p /\ p <= Len(d[s[k].archivo].sents)
             => (k \in DOMAIN q /\ q[k].pos <= p) \/ (k = n /\ p = s[n].pos)
  BY AdelantaQue
<1>2. \A a \in Abribles(d) : \A p \in Inclusiones(d, a) : p \in Nat \ {0} /\ p <= Len(d[a].sents)
  BY <1>1, LugarDe DEF Abribles
<1>3. ASSUME NEW D \in Expandidos(e, v2), Abre(D) \in Abribles(d), NEW p \in Inclusiones(d, Abre(D))
      PROVE  \/ Dividir(Padre(D), Mod(d, <<Abre(D), p>>)) \in v2
             \/ \E k \in DOMAIN q : Expande(q[k], D) /\ q[k].pos <= p
  <2>1. D \in Expandidos(e, v)
    BY <1>3 DEF Expandidos
  <2>2. CASE Dividir(Padre(D), Mod(d, <<Abre(D), p>>)) \in v
    BY <2>2
  <2>3. CASE \E k \in DOMAIN s : Expande(s[k], D) /\ s[k].pos <= p
    <3>1. PICK k \in DOMAIN s : Expande(s[k], D) /\ s[k].pos <= p
      BY <2>3
    <3>2. s[k].archivo = Abre(D) /\ s[k].dirBase = Padre(D)
      BY <3>1 DEF Expande
    <3>3. p \in Nat /\ p <= Len(d[s[k].archivo].sents)
      BY <1>2, <1>3, <3>2
    <3>4. CASE k \in DOMAIN q /\ q[k].pos <= p
      BY <1>1, <3>1, <3>4 DEF Expande
    <3>5. CASE k = n /\ p = s[n].pos
      <4>1. s[n].pos \in Inclusiones(d, s[n].archivo)
        BY <1>3, <3>2, <3>5
      <4>2. Pide(d, s, n) = Dividir(Padre(D), Mod(d, <<Abre(D), p>>))
        BY <3>2, <3>5 DEF Pide, PideEn
      <4> QED BY <4>1, <4>2
    <3> QED BY <1>1, <3>1, <3>3, <3>4, <3>5
  <2> QED BY <1>3, <2>1, <2>2, <2>3 DEF Recorrida
<1>4. ASSUME NEW k \in DOMAIN q, NEW p \in Inclusiones(d, q[k].archivo), p < q[k].pos
      PROVE  PideEn(d, q[k], p) \in v2
  <2>1. k \in DOMAIN s /\ p \in Inclusiones(d, s[k].archivo) /\ PideEn(d, q[k], p) = PideEn(d, s[k], p)
    BY <1>1, <1>4 DEF PideEn
  <2>2. CASE p < s[k].pos
    BY <2>1, <2>2 DEF Recorrida
  <2>3. CASE ~(p < s[k].pos)
    <3>1. p \in Nat /\ s[k].pos \in Nat
      BY <1>1, <1>2, <2>1, PideBien
    <3>2. k = n
      BY <1>1, <1>4, <2>3
    <3>3. p = s[n].pos
      BY <1>1, <1>4, <2>3, <3>1, <3>2
    <3> QED BY <2>1, <3>2, <3>3 DEF Pide
  <2> QED BY <2>2, <2>3
<1> QED BY <1>3, <1>4 DEF Recorrida

(* A call more.                                                            *)
LEMMA RecorridaMete ==
  ASSUME NEW d, NEW e \in Principales, NEW v, NEW s, Cadena(d, e, v, s), Recorrida(d, e, v, s),
         NEW D, NEW q, Mete(d, v, s, D, q)
  PROVE  Recorrida(d, e, v \cup {D}, q)
<1> DEFINE n == Len(s)
           v2 == v \cup {D}
<1>0. n = Len(s) /\ v \subseteq v2 /\ v2 = v \cup {D}
  OBVIOUS
<1> HIDE DEF n, v2
<1>1. /\ d \in Discos /\ n \in Nat \ {0} /\ n \in DOMAIN s
      /\ DOMAIN s = 1 .. n /\ DOMAIN q = 1 .. n + 1
      /\ \A k \in DOMAIN s : k \in DOMAIN q /\ q[k] = s[k]
      /\ Expande(q[n + 1], D) /\ q[n + 1].pos = 1
  BY <1>0, MeteQue
<1>2. \A a \in Abribles(d) : \A p \in Inclusiones(d, a) : p \in Nat \ {0} /\ p <= Len(d[a].sents)
  BY <1>1, LugarDe DEF Abribles
<1>3. ASSUME NEW x \in Expandidos(e, v2), Abre(x) \in Abribles(d), NEW p \in Inclusiones(d, Abre(x))
      PROVE  \/ Dividir(Padre(x), Mod(d, <<Abre(x), p>>)) \in v2
             \/ \E k \in DOMAIN q : Expande(q[k], x) /\ q[k].pos <= p
  <2>1. CASE x = D
    <3>1. 1 <= p /\ n + 1 \in DOMAIN q
      BY <1>1, <1>2, <1>3
    <3> QED BY <1>1, <2>1, <3>1
  <2>2. CASE x # D
    <3>1. x \in Expandidos(e, v)
      BY <1>0, <1>3, <2>2 DEF Expandidos
    <3>2. \/ Dividir(Padre(x), Mod(d, <<Abre(x), p>>)) \in v
          \/ \E k \in DOMAIN s : Expande(s[k], x) /\ s[k].pos <= p
      BY <1>3, <3>1 DEF Recorrida
    <3>3. CASE \E k \in DOMAIN s : Expande(s[k], x) /\ s[k].pos <= p
      <4>1. PICK k \in DOMAIN s : Expande(s[k], x) /\ s[k].pos <= p
        BY <3>3
      <4>2. k \in DOMAIN q /\ q[k] = s[k]
        BY <1>1
      <4> QED BY <4>1, <4>2
    <3> QED BY <1>0, <3>2, <3>3
  <2> QED BY <2>1, <2>2
<1>4. ASSUME NEW k \in DOMAIN q, NEW p \in Inclusiones(d, q[k].archivo), p < q[k].pos
      PROVE  PideEn(d, q[k], p) \in v2
  <2>1. CASE k = n + 1
    <3>1. q[k].archivo = Abre(D) /\ Abre(D) \in Abribles(d)
      BY <1>1, <2>1 DEF Expande, Mete
    <3>2. p \in Nat \ {0} /\ p < 1
      BY <1>1, <1>2, <1>4, <2>1, <3>1
    <3> QED BY <3>2
  <2>2. CASE k # n + 1
    <3>1. k \in DOMAIN s
      BY <1>1, <2>2
    <3>2. q[k] = s[k]
      BY <1>1, <3>1
    <3>3. PideEn(d, s[k], p) \in v
      BY <1>4, <3>1, <3>2 DEF Recorrida
    <3> QED BY <1>0, <3>2, <3>3
  <2> QED BY <2>1, <2>2
<1> QED BY <1>0, <1>3, <1>4 DEF Recorrida

-----------------------------------------------------------------------------
(* The lists being built.                                                   *)

(* Each place of q that is not in X comes of one of s, with its statement;  *)
(* none is left out; and those of X are the last.                          *)
Lleva(s, q, X, h) ==
  /\ X \subseteq Lugares(q)
  /\ \A m \in Lugares(q) \ X : h[m] \in Lugares(s) /\ En(s, h[m]) = En(q, m)
  /\ \A l \in Lugares(s) : \E m \in Lugares(q) \ X : h[m] = l
  /\ \A l, m \in Lugares(q) \ X : (h[l] = h[m] => l = m) /\ (Antes(h[l], h[m]) => Antes(l, m))
  /\ \A l \in Lugares(q) \ X, x \in X : Antes(l, x) /\ l # x
  /\ \A x, y \in X : x = y
Conserva(s, q, X) == \E h : Lleva(s, q, X, h)

(* A place, by its call and its place in the call's list.                  *)
LEMMA LugaresDe ==
  ASSUME NEW s
  PROVE  /\ \A l \in Lugares(s) : l = <<l[1], l[2]>> /\ l[1] \in DOMAIN s /\ l[2] \in DOMAIN s[l[1]].nueva
         /\ \A k \in DOMAIN s : \A i \in DOMAIN s[k].nueva :
              <<k, i>> \in Lugares(s) /\ En(s, <<k, i>>) = s[k].nueva[i]
BY DEF Lugares, En

(* The lists do not change: a call goes on without a word.                  *)
LEMMA ConservaIgual ==
  ASSUME NEW s, NEW q, DOMAIN q = DOMAIN s, \A k \in DOMAIN s : q[k].nueva = s[k].nueva
  PROVE  Conserva(s, q, {})
<1>1. Lugares(q) = Lugares(s)
  BY DEF Lugares
<1>2. \A l \in Lugares(s) : En(q, l) = En(s, l)
  BY LugaresDe DEF En
<1> DEFINE h == [l \in Lugares(s) |-> l]
<1>3. \A l \in Lugares(s) : h[l] = l
  OBVIOUS
<1> HIDE DEF h
<1>4. Lleva(s, q, {}, h)
  BY <1>1, <1>2, <1>3 DEF Lleva
<1> QED BY <1>4 DEF Conserva

(* A call more, with nothing in its list.                                  *)
LEMMA ConservaMete ==
  ASSUME NEW d, NEW v, NEW s, NEW D, NEW q, Mete(d, v, s, D, q)
  PROVE  Conserva(s, q, {})
<1> DEFINE n == Len(s)
<1>0. n = Len(s)
  OBVIOUS
<1> HIDE DEF n
<1>1. /\ n \in Nat \ {0} /\ DOMAIN s = 1 .. n /\ DOMAIN q = 1 .. n + 1
      /\ \A k \in DOMAIN s : k \in DOMAIN q /\ q[k] = s[k]
      /\ q[n + 1].nueva = <<>>
  BY <1>0, MeteQue
<1>2. \A k \in DOMAIN q : k \in DOMAIN s \/ k = n + 1
  BY <1>1
<1>3. \A l \in Lugares(s) : l \in Lugares(q) /\ En(q, l) = En(s, l)
  <2>1. ASSUME NEW l \in Lugares(s)
        PROVE  l \in Lugares(q) /\ En(q, l) = En(s, l)
    <3>1. l = <<l[1], l[2]>> /\ l[1] \in DOMAIN s /\ l[2] \in DOMAIN s[l[1]].nueva
      BY LugaresDe
    <3>2. l[1] \in DOMAIN q /\ q[l[1]] = s[l[1]]
      BY <1>1, <3>1
    <3>3. <<l[1], l[2]>> \in Lugares(q)
      BY <3>1, <3>2, LugaresDe
    <3> QED BY <3>1, <3>2, <3>3 DEF En
  <2> QED BY <2>1
<1>4. \A l \in Lugares(q) : l \in Lugares(s)
  <2>1. ASSUME NEW l \in Lugares(q)
        PROVE  l \in Lugares(s)
    <3>1. l = <<l[1], l[2]>> /\ l[1] \in DOMAIN q /\ l[2] \in DOMAIN q[l[1]].nueva
      BY LugaresDe
    <3>2. l[1] # n + 1
      BY <1>1, <3>1
    <3>3. l[1] \in DOMAIN s /\ q[l[1]] = s[l[1]]
      BY <1>1, <1>2, <3>1, <3>2
    <3>4. <<l[1], l[2]>> \in Lugares(s)
      BY <3>1, <3>3, LugaresDe
    <3> QED BY <3>1, <3>4
  <2> QED BY <2>1
<1> DEFINE h == [l \in Lugares(s) |-> l]
<1>5. \A l \in Lugares(s) : h[l] = l
  OBVIOUS
<1> HIDE DEF h
<1>6. Lleva(s, q, {}, h)
  BY <1>3, <1>4, <1>5 DEF Lleva
<1> QED BY <1>6 DEF Conserva

(* The lists of a stack of calls.                                          *)
LEMMA ListasDe ==
  ASSUME NEW s \in Seq(Llamada)
  PROVE  \A k \in DOMAIN s : /\ s[k].nueva \in Seq(Origen) /\ Len(s[k].nueva) \in Nat
                             /\ DOMAIN s[k].nueva = 1 .. Len(s[k].nueva)
<1>1. \A k \in DOMAIN s : s[k] \in Llamada
  OBVIOUS
<1>2. \A k \in DOMAIN s : s[k].nueva \in Seq(Origen)
  BY <1>1 DEF Llamada
<1>3. \A z \in Seq(Origen) : Len(z) \in Nat /\ DOMAIN z = 1 .. Len(z)
  OBVIOUS
<1> QED BY <1>2, <1>3

(* A call that ends: its list goes after that of the call under it.         *)
LEMMA ConservaVuelve ==
  ASSUME NEW d, NEW s, NEW n, NEW q, Adelanta(d, s, n, q), n < Len(s),
         q[n].nueva = s[n].nueva \o s[n + 1].nueva
  PROVE  Conserva(s, q, {})
<1> DEFINE a == s[n].nueva
           b == s[n + 1].nueva
           c == q[n].nueva
           L == Len(a)
<1>1. /\ n \in Nat \ {0} /\ Len(s) \in Nat /\ Len(s) = n + 1
      /\ DOMAIN s = 1 .. Len(s) /\ DOMAIN q = 1 .. n
      /\ \A k \in DOMAIN q : k \in DOMAIN s /\ (k # n => q[k] = s[k])
  BY AdelantaQue DEF Adelanta
<1>2. n \in DOMAIN s /\ n + 1 \in DOMAIN s /\ n \in DOMAIN q
  BY <1>1
<1>3. /\ a \in Seq(Origen) /\ b \in Seq(Origen) /\ L \in Nat /\ Len(b) \in Nat
      /\ DOMAIN a = 1 .. L /\ DOMAIN b = 1 .. Len(b)
  BY <1>2, ListasDe DEF Adelanta
<1>4. c = a \o b
  OBVIOUS
<1> HIDE DEF a, b, c
<1>5. /\ DOMAIN c = 1 .. L + Len(b)
      /\ \A i \in 1 .. L : c[i] = a[i]
      /\ \A i \in 1 .. Len(b) : c[L + i] = b[i]
  BY <1>3, <1>4
<1> HIDE DEF L
<1> DEFINE h == [m \in Lugares(q) |-> IF m[1] = n /\ L < m[2] THEN <<n + 1, m[2] - L>> ELSE m]
(* Where each place comes from.                                            *)
<1>6. ASSUME NEW m \in Lugares(q)
      PROVE  /\ m = <<m[1], m[2]>> /\ m[1] \in Nat /\ m[1] <= n
             /\ \/ m[1] = n /\ m[2] \in Nat /\ L < m[2] /\ m[2] - L \in 1 .. Len(b) /\ h[m] = <<n + 1, m[2] - L>>
                \/ m[1] = n /\ m[2] \in 1 .. L /\ h[m] = m
                \/ m[1] < n /\ m[1] \in DOMAIN s /\ q[m[1]] = s[m[1]] /\ m[2] \in DOMAIN s[m[1]].nueva /\ h[m] = m
  <2>1. m = <<m[1], m[2]>> /\ m[1] \in DOMAIN q /\ m[2] \in DOMAIN q[m[1]].nueva
    BY LugaresDe
  <2>2. m[1] \in Nat /\ m[1] <= n
    BY <1>1, <2>1
  <2>3. h[m] = IF m[1] = n /\ L < m[2] THEN <<n + 1, m[2] - L>> ELSE m
    OBVIOUS
  <2> HIDE DEF h
  <2>4. CASE m[1] = n
    <3>1. m[2] \in 1 .. L + Len(b)
      BY <1>5, <2>1, <2>4 DEF c
    <3>2. CASE L < m[2]
      <4>1. m[2] - L \in 1 .. Len(b) /\ m[2] \in Nat
        BY <1>3, <3>1, <3>2
      <4> QED BY <2>1, <2>2, <2>3, <2>4, <3>2, <4>1
    <3>3. CASE ~(L < m[2])
      <4>1. m[2] \in 1 .. L
        BY <1>3, <3>1, <3>3
      <4> QED BY <2>1, <2>2, <2>3, <2>4, <3>3, <4>1
    <3> QED BY <3>2, <3>3
  <2>5. CASE m[1] # n
    <3>1. m[1] < n /\ m[1] \in DOMAIN s /\ q[m[1]] = s[m[1]]
      BY <1>1, <2>1, <2>2, <2>5
    <3> QED BY <2>1, <2>2, <2>3, <2>5, <3>1
  <2> QED BY <2>4, <2>5
<1>7. ASSUME NEW m \in Lugares(q)
      PROVE  h[m] \in Lugares(s) /\ En(s, h[m]) = En(q, m)
  <2> HIDE DEF h
  <2>1. En(q, m) = q[m[1]].nueva[m[2]]
    BY DEF En
  <2>2. CASE m[1] = n /\ m[2] \in Nat /\ L < m[2] /\ m[2] - L \in 1 .. Len(b) /\ h[m] = <<n + 1, m[2] - L>>
    <3> DEFINE i == m[2] - L
    <3>1. i \in 1 .. Len(b) /\ m[2] = L + i /\ h[m] = <<n + 1, i>>
      BY <1>3, <2>2
    <3> HIDE DEF i
    <3>2. En(q, m) = b[i]
      BY <1>5, <2>1, <2>2, <3>1 DEF c
    <3>3. i \in DOMAIN s[n + 1].nueva
      BY <1>3, <3>1 DEF b
    <3>4. <<n + 1, i>> \in Lugares(s) /\ En(s, <<n + 1, i>>) = s[n + 1].nueva[i]
      BY <1>2, <3>3, LugaresDe
    <3> QED BY <3>1, <3>2, <3>4 DEF b
  <2>3. CASE m[1] = n /\ m[2] \in 1 .. L /\ h[m] = m
    <3>1. En(q, m) = a[m[2]]
      BY <1>5, <2>1, <2>3 DEF c
    <3>2. m[2] \in DOMAIN s[n].nueva
      BY <1>3, <2>3 DEF a
    <3>3. <<n, m[2]>> \in Lugares(s) /\ En(s, <<n, m[2]>>) = s[n].nueva[m[2]]
      BY <1>2, <3>2, LugaresDe
    <3>4. m = <<n, m[2]>>
      BY <1>6, <2>3
    <3>5. En(s, m) = s[n].nueva[m[2]] /\ m \in Lugares(s)
      BY <3>3, <3>4
    <3> QED BY <2>3, <3>1, <3>5 DEF a
  <2>4. CASE m[1] < n /\ m[1] \in DOMAIN s /\ q[m[1]] = s[m[1]] /\ m[2] \in DOMAIN s[m[1]].nueva /\ h[m] = m
    <3> DEFINE k == m[1]
               i == m[2]
    <3>1. <<k, i>> \in Lugares(s) /\ En(s, <<k, i>>) = s[k].nueva[i] /\ m = <<k, i>>
      BY <1>6, <2>4, LugaresDe
    <3>2. m \in Lugares(s) /\ En(s, m) = s[k].nueva[i]
      BY <3>1
    <3> QED BY <2>1, <2>4, <3>2
  <2> QED BY <1>6, <2>2, <2>3, <2>4
<1>8. ASSUME NEW l \in Lugares(s)
      PROVE  \E m \in Lugares(q) : h[m] = l
  <2>1. l = <<l[1], l[2]>> /\ l[1] \in DOMAIN s /\ l[2] \in DOMAIN s[l[1]].nueva
    BY LugaresDe
  <2>2. \A m \in Lugares(q) : h[m] = IF m[1] = n /\ L < m[2] THEN <<n + 1, m[2] - L>> ELSE m
    OBVIOUS
  <2> HIDE DEF h
  <2>3. CASE l[1] = n + 1
    <3> DEFINE i == l[2]
    <3>1. i \in 1 .. Len(b)
      BY <1>3, <2>1, <2>3 DEF b
    <3>2. L + i \in DOMAIN q[n].nueva /\ L < L + i /\ L + i - L = i
      BY <1>3, <1>5, <3>1 DEF c
    <3>3. <<n, L + i>> \in Lugares(q)
      BY <1>2, <3>2, LugaresDe
    <3> DEFINE t == <<n, L + i>>
    <3>4. t \in Lugares(q) /\ t[1] = n /\ t[2] = L + i
      BY <3>3
    <3> HIDE DEF t
    <3>5. h[t] = <<n + 1, t[2] - L>>
      BY <2>2, <3>2, <3>4
    <3>6. h[t] = l
      <4>1. t[2] - L = l[2]
        BY <1>3, <3>1, <3>4
      <4>2. l = <<n + 1, l[2]>>
        BY <2>1, <2>3
      <4> QED BY <3>5, <4>1, <4>2
    <3> QED BY <3>4, <3>6
  <2>4. CASE l[1] = n
    <3> DEFINE i == l[2]
    <3>1. i \in 1 .. L /\ ~(L < i)
      BY <1>3, <2>1, <2>4 DEF a
    <3>2. i \in DOMAIN q[n].nueva
      BY <1>3, <1>5, <3>1 DEF c
    <3>3. <<n, i>> \in Lugares(q)
      BY <1>2, <3>2, LugaresDe
    <3>4. l \in Lugares(q) /\ ~(L < l[2])
      BY <2>1, <2>4, <3>1, <3>3
    <3>5. h[l] = l
      BY <2>2, <3>4
    <3> QED BY <3>4, <3>5
  <2>5. CASE l[1] # n /\ l[1] # n + 1
    <3>1. l[1] \in DOMAIN q /\ q[l[1]] = s[l[1]]
      BY <1>1, <2>1, <2>5
    <3>2. <<l[1], l[2]>> \in Lugares(q)
      BY <2>1, <3>1, LugaresDe
    <3>3. l \in Lugares(q)
      BY <2>1, <3>2
    <3>4. h[l] = l
      BY <2>2, <2>5, <3>3
    <3> QED BY <3>3, <3>4
  <2> QED BY <2>3, <2>4, <2>5
<1>9. ASSUME NEW l \in Lugares(q), NEW m \in Lugares(q)
      PROVE  (h[l] = h[m] => l = m) /\ (Antes(h[l], h[m]) => Antes(l, m))
  <2> HIDE DEF h
  <2> DEFINE Tarde(x) == x[1] = n /\ x[2] \in Nat /\ L < x[2] /\ x[2] - L \in 1 .. Len(b) /\ h[x] = <<n + 1, x[2] - L>>
             Igual(x) == ((x[1] = n /\ x[2] \in 1 .. L) \/ x[1] < n) /\ h[x] = x
  <2>1. \A x \in Lugares(q) : x = <<x[1], x[2]>> /\ x[1] \in Nat /\ (Tarde(x) \/ Igual(x))
    BY <1>6
  <2>2. CASE Igual(l) /\ Igual(m)
    BY <2>2
  <2>3. CASE Tarde(l) /\ Tarde(m)
    <3>1. l[1] = n /\ m[1] = n /\ l[2] \in Nat /\ m[2] \in Nat
      BY <2>3
    <3>2. h[l][1] = n + 1 /\ h[l][2] = l[2] - L /\ h[m][1] = n + 1 /\ h[m][2] = m[2] - L
      BY <2>3
    <3>3. h[l] = h[m] => l[2] = m[2]
      BY <1>3, <3>1, <3>2
    <3>4. Antes(h[l], h[m]) => l[2] < m[2]
      BY <1>1, <1>3, <3>1, <3>2 DEF Antes
    <3>5. h[l] = h[m] => l = m
      BY <2>1, <3>1, <3>3
    <3> QED BY <3>1, <3>4, <3>5 DEF Antes
  <2>4. CASE Igual(l) /\ Tarde(m)
    <3>1. h[l] = l /\ h[m][1] = n + 1 /\ l[1] <= n /\ l[1] \in Nat /\ m[1] = n /\ m[2] \in Nat /\ L < m[2]
      BY <1>1, <2>1, <2>4
    <3>2. h[l] # h[m]
      BY <1>1, <3>1
    <3>3. Antes(l, m)
      <4>1. CASE l[1] < n
        BY <3>1, <4>1 DEF Antes
      <4>2. CASE l[1] = n
        <5>1. l[2] \in 1 .. L
          BY <1>1, <2>4, <4>2
        <5> QED BY <1>3, <3>1, <4>2, <5>1 DEF Antes
      <4> QED BY <1>1, <3>1, <4>1, <4>2
    <3> QED BY <3>2, <3>3
  <2>5. CASE Tarde(l) /\ Igual(m)
    <3>1. h[m] = m /\ h[l][1] = n + 1 /\ m[1] <= n /\ m[1] \in Nat
      BY <1>1, <2>1, <2>5
    <3>2. h[l] # h[m] /\ ~Antes(h[l], h[m])
      BY <1>1, <3>1 DEF Antes
    <3> QED BY <3>2
  <2> QED BY <2>1, <2>2, <2>3, <2>4, <2>5
<1> HIDE DEF h
<1>10. Lleva(s, q, {}, h)
  BY <1>7, <1>8, <1>9 DEF Lleva
<1> QED BY <1>10 DEF Conserva

(* The call on top goes on after the statement o, which it puts in its list.*)
Copia(d, s, n, q, o) ==
  Adelanta(d, s, n, q) /\ n = Len(s) /\ o \in Origen /\ q[n].nueva = Append(s[n].nueva, o)

(* The lists of q are those of s and one statement more, o.                 *)
Agrega(s, q, o) == \E x \in Lugares(q) : Conserva(s, q, {x}) /\ En(q, x) = o

(* A statement copied: it is the last.                                     *)
LEMMA ConservaCopia ==
  ASSUME NEW d, NEW s, NEW n, NEW q, NEW o, Copia(d, s, n, q, o)
  PROVE  Agrega(s, q, o)
<1> DEFINE a == s[n].nueva
           L == Len(a)
           x == <<n, L + 1>>
<1>0. Adelanta(d, s, n, q) /\ n = Len(s) /\ o \in Origen /\ q[n].nueva = Append(a, o)
  BY DEF Copia
<1>1. /\ n \in Nat \ {0} /\ DOMAIN s = 1 .. n /\ DOMAIN q = 1 .. n /\ n \in DOMAIN s
      /\ \A k \in DOMAIN s : (k # n => q[k] = s[k])
  BY <1>0, AdelantaQue
<1>2. a \in Seq(Origen) /\ L \in Nat /\ DOMAIN a = 1 .. L
  BY <1>0, <1>1, ListasDe DEF Adelanta
<1>3. q[n].nueva = Append(a, o) /\ o \in Origen
  BY <1>0
<1> HIDE DEF a
<1>4. DOMAIN q[n].nueva = 1 .. L + 1 /\ q[n].nueva[L + 1] = o /\ \A i \in 1 .. L : q[n].nueva[i] = a[i]
  BY <1>2, <1>3
<1> HIDE DEF L
<1>5. x \in Lugares(q) /\ En(q, x) = o
  BY <1>1, <1>2, <1>4, LugaresDe
<1>6. ASSUME NEW m \in Lugares(q), m # x
      PROVE  m \in Lugares(s) /\ En(s, m) = En(q, m) /\ Antes(m, x)
  <2>1. m = <<m[1], m[2]>> /\ m[1] \in DOMAIN q /\ m[2] \in DOMAIN q[m[1]].nueva
    BY LugaresDe
  <2>2. CASE m[1] = n
    <3>1. m[2] \in 1 .. L + 1 /\ m[2] # L + 1
      BY <1>4, <1>6, <2>1, <2>2
    <3>2. m[2] \in 1 .. L /\ m[2] < L + 1
      BY <1>2, <3>1
    <3>3. m[2] \in DOMAIN s[n].nueva
      BY <1>2, <3>2 DEF a
    <3>4. <<n, m[2]>> \in Lugares(s) /\ En(s, <<n, m[2]>>) = s[n].nueva[m[2]]
      BY <1>1, <3>3, LugaresDe
    <3>5. m \in Lugares(s) /\ En(s, m) = a[m[2]]
      <4>1. m = <<n, m[2]>>
        BY <2>1, <2>2
      <4> QED BY <3>4, <4>1 DEF a
    <3>6. En(q, m) = a[m[2]]
      <4>1. En(q, m) = q[n].nueva[m[2]]
        BY <2>2 DEF En
      <4> QED BY <1>4, <3>2, <4>1
    <3> QED BY <2>2, <3>2, <3>5, <3>6 DEF Antes
  <2>3. CASE m[1] # n
    <3>1. q[m[1]] = s[m[1]] /\ m[1] \in DOMAIN s /\ m[1] < n
      BY <1>1, <2>1, <2>3
    <3>2. <<m[1], m[2]>> \in Lugares(s)
      BY <2>1, <3>1, LugaresDe
    <3>3. m \in Lugares(s)
      BY <2>1, <3>2
    <3> QED BY <3>1, <3>3 DEF En, Antes
  <2> QED BY <2>2, <2>3
<1>7. ASSUME NEW l \in Lugares(s)
      PROVE  l \in Lugares(q) /\ l # x
  <2>1. l = <<l[1], l[2]>> /\ l[1] \in DOMAIN s /\ l[2] \in DOMAIN s[l[1]].nueva
    BY LugaresDe
  <2>2. CASE l[1] = n
    <3>1. l[2] \in 1 .. L
      BY <1>2, <2>1, <2>2 DEF a
    <3>2. l[2] \in DOMAIN q[n].nueva /\ l[2] # L + 1
      BY <1>2, <1>4, <3>1
    <3>3. <<n, l[2]>> \in Lugares(q)
      BY <1>1, <3>2, LugaresDe
    <3> QED BY <2>1, <2>2, <3>2, <3>3
  <2>3. CASE l[1] # n
    <3>1. q[l[1]] = s[l[1]] /\ l[1] \in DOMAIN q
      BY <1>1, <2>1, <2>3
    <3>2. <<l[1], l[2]>> \in Lugares(q)
      BY <2>1, <3>1, LugaresDe
    <3> QED BY <2>1, <2>3, <3>2
  <2> QED BY <2>2, <2>3
<1> DEFINE h == [m \in Lugares(q) |-> m]
<1>8. \A m \in Lugares(q) : h[m] = m
  OBVIOUS
<1> HIDE DEF h, x
<1>9. Lleva(s, q, {x}, h)
  BY <1>5, <1>6, <1>7, <1>8 DEF Lleva
<1> QED BY <1>5, <1>9 DEF Conserva, Agrega

(* A place that is not new has the statement of an old one.                *)
LEMMA LugarViejo ==
  ASSUME NEW s, NEW q, NEW X, Conserva(s, q, X), NEW m \in Lugares(q) \ X
  PROVE  \E l \in Lugares(s) : En(s, l) = En(q, m)
BY DEF Conserva, Lleva

(* The lists and what is left to say, after a step.                        *)
LEMMA DichaSigue ==
  ASSUME NEW d, NEW v, NEW s, Dicha(d, v, s), NEW q, NEW X, Conserva(s, q, X),
         NEW v2, v \subseteq v2,
         \A k \in DOMAIN s : \A p \in Declaradas(d, s[k].archivo) :
           s[k].archivo \in Abribles(d) /\ s[k].pos <= p =>
             \/ \E j \in DOMAIN q : q[j].archivo = s[k].archivo /\ q[j].pos <= p
             \/ \E x \in X : En(q, x) = [archivo |-> s[k].archivo, pos |-> p],
         \A D \in v2 \ v : Abre(D) \in Abribles(d) =>
           \E j \in DOMAIN q : q[j].archivo = Abre(D) /\ \A p \in Declaradas(d, Abre(D)) : q[j].pos <= p,
         \A x \in X : /\ En(q, x).archivo \in Vistos(v2) \cap Abribles(d)
                      /\ En(q, x).pos \in Declaradas(d, En(q, x).archivo)
  PROVE  Dicha(d, v2, q)
<1>1. PICK h : Lleva(s, q, X, h)
  BY DEF Conserva
<1>2. /\ X \subseteq Lugares(q)
      /\ \A l \in Lugares(s) : \E m \in Lugares(q) : En(q, m) = En(s, l)
  BY <1>1 DEF Lleva
<1>3. Vistos(v) \subseteq Vistos(v2)
  BY DEF Vistos
<1>4. ASSUME NEW b \in Vistos(v2) \cap Abribles(d), NEW p \in Declaradas(d, b)
      PROVE  \/ \E l \in Lugares(q) : En(q, l) = [archivo |-> b, pos |-> p]
             \/ \E k \in DOMAIN q : q[k].archivo = b /\ q[k].pos <= p
  <2>1. CASE b \in Vistos(v)
    <3>1. CASE \E l \in Lugares(s) : En(s, l) = [archivo |-> b, pos |-> p]
      BY <1>2, <3>1
    <3>2. CASE \E k \in DOMAIN s : s[k].archivo = b /\ s[k].pos <= p
      <4>1. PICK k \in DOMAIN s : s[k].archivo = b /\ s[k].pos <= p
        BY <3>2
      <4>2. \/ \E j \in DOMAIN q : q[j].archivo = b /\ q[j].pos <= p
            \/ \E x \in X : En(q, x) = [archivo |-> b, pos |-> p]
        BY <1>4, <4>1
      <4> QED BY <1>2, <4>2
    <3> QED BY <1>4, <2>1, <3>1, <3>2 DEF Dicha
  <2>2. CASE b \notin Vistos(v)
    <3>1. PICK D \in v2 : Abre(D) = b
      BY <1>4 DEF Vistos
    <3>2. D \notin v
      BY <2>2, <3>1 DEF Vistos
    <3>3. PICK j \in DOMAIN q : q[j].archivo = Abre(D) /\ \A y \in Declaradas(d, Abre(D)) : q[j].pos <= y
      BY <1>4, <3>1, <3>2
    <3> QED BY <1>4, <3>1, <3>3
  <2> QED BY <2>1, <2>2
<1>5. ASSUME NEW m \in Lugares(q)
      PROVE  /\ En(q, m).archivo \in Vistos(v2) \cap Abribles(d)
             /\ En(q, m).pos \in Declaradas(d, En(q, m).archivo)
  <2>1. CASE m \in X
    BY <2>1
  <2>2. CASE m \notin X
    <3>1. PICK l \in Lugares(s) : En(s, l) = En(q, m)
      BY <2>2, LugarViejo
    <3> QED BY <1>3, <3>1 DEF Dicha
  <2> QED BY <2>1, <2>2
<1> QED BY <1>4, <1>5 DEF Dicha

(* A call goes on: a declaration was copied, or it was at an include.       *)
LEMMA DichaAdelanta ==
  ASSUME NEW d, NEW e \in Principales, NEW v, NEW s, Dicha(d, v, s), NEW n, NEW q, Adelanta(d, s, n, q),
         NEW X, Conserva(s, q, X), NEW v2, v \subseteq v2, \A D \in v2 \ v : Abre(D) \notin Abribles(d),
         \/ X = {} /\ s[n].pos \in Inclusiones(d, s[n].archivo)
         \/ /\ s[n].archivo \in Vistos(v) \cap Abribles(d) /\ s[n].pos \in Declaradas(d, s[n].archivo)
            /\ \E x : X = {x} /\ En(q, x) = [archivo |-> s[n].archivo, pos |-> s[n].pos]
  PROVE  Dicha(d, v2, q)
<1>1. /\ d \in Discos /\ n \in DOMAIN s
      /\ \A k \in DOMAIN q : q[k].archivo = s[k].archivo
      /\ \A k \in DOMAIN s : \A p \in Nat :
           s[k].pos <= p /\ p <= Len(d[s[k].archivo].sents)
             => (k \in DOMAIN q /\ q[k].pos <= p) \/ (k = n /\ p = s[n].pos)
  BY AdelantaQue
<1>2. \A a \in Abribles(d) : \A p \in Declaradas(d, a) :
        p \in Nat /\ p <= Len(d[a].sents) /\ p \notin Inclusiones(d, a)
  BY <1>1, LugarDe DEF Abribles
<1>3. ASSUME NEW k \in DOMAIN s, NEW p \in Declaradas(d, s[k].archivo), s[k].archivo \in Abribles(d), s[k].pos <= p
      PROVE  \/ \E j \in DOMAIN q : q[j].archivo = s[k].archivo /\ q[j].pos <= p
             \/ \E x \in X : En(q, x) = [archivo |-> s[k].archivo, pos |-> p]
  <2>1. p \in Nat /\ p <= Len(d[s[k].archivo].sents) /\ p \notin Inclusiones(d, s[k].archivo)
    BY <1>2, <1>3
  <2>2. CASE k \in DOMAIN q /\ q[k].pos <= p
    BY <1>1, <2>2
  <2>3. CASE k = n /\ p = s[n].pos
    BY <2>1, <2>3
  <2> QED BY <1>1, <1>3, <2>1, <2>2, <2>3
<1>4. Vistos(v) \subseteq Vistos(v2)
  BY DEF Vistos
<1>5. \A x \in X : /\ En(q, x).archivo \in Vistos(v2) \cap Abribles(d)
                   /\ En(q, x).pos \in Declaradas(d, En(q, x).archivo)
  <2>1. CASE X = {}
    BY <2>1
  <2>2. CASE /\ s[n].archivo \in Vistos(v) \cap Abribles(d) /\ s[n].pos \in Declaradas(d, s[n].archivo)
             /\ \E x : X = {x} /\ En(q, x) = [archivo |-> s[n].archivo, pos |-> s[n].pos]
    <3>1. \A x \in X : En(q, x).archivo = s[n].archivo /\ En(q, x).pos = s[n].pos
      BY <2>2
    <3> QED BY <1>4, <2>2, <3>1
  <2> QED BY <2>1, <2>2
<1>6. \A k \in DOMAIN s : \A p \in Declaradas(d, s[k].archivo) :
        s[k].archivo \in Abribles(d) /\ s[k].pos <= p =>
          \/ \E j \in DOMAIN q : q[j].archivo = s[k].archivo /\ q[j].pos <= p
          \/ \E x \in X : En(q, x) = [archivo |-> s[k].archivo, pos |-> p]
  BY <1>3
<1>7. \A D \in v2 \ v : Abre(D) \in Abribles(d) =>
        \E j \in DOMAIN q : q[j].archivo = Abre(D) /\ \A p \in Declaradas(d, Abre(D)) : q[j].pos <= p
  OBVIOUS
<1> QED BY <1>5, <1>6, <1>7, DichaSigue

(* A call more.                                                            *)
LEMMA DichaMete ==
  ASSUME NEW d, NEW v, NEW s, Dicha(d, v, s), NEW D, NEW q, Mete(d, v, s, D, q)
  PROVE  Dicha(d, v \cup {D}, q)
<1> DEFINE n == Len(s)
           v2 == v \cup {D}
<1>0. n = Len(s) /\ v \subseteq v2 /\ v2 = v \cup {D}
  OBVIOUS
<1> HIDE DEF n, v2
<1>1. /\ d \in Discos /\ n \in Nat \ {0}
      /\ DOMAIN s = 1 .. n /\ DOMAIN q = 1 .. n + 1
      /\ \A k \in DOMAIN s : k \in DOMAIN q /\ q[k] = s[k]
      /\ Expande(q[n + 1], D) /\ q[n + 1].pos = 1
  BY <1>0, MeteQue
<1>2. Conserva(s, q, {}) /\ Abre(D) \in Abribles(d)
  BY ConservaMete DEF Mete
<1>3. \A p \in Declaradas(d, Abre(D)) : 1 <= p
  BY <1>1, <1>2, LugarDe DEF Abribles
<1>4. n + 1 \in DOMAIN q /\ q[n + 1].archivo = Abre(D)
  BY <1>1 DEF Expande
<1>5. \A x \in v2 \ v : Abre(x) \in Abribles(d) =>
        \E j \in DOMAIN q : q[j].archivo = Abre(x) /\ \A p \in Declaradas(d, Abre(x)) : q[j].pos <= p
  BY <1>0, <1>1, <1>3, <1>4
<1>6. \A k \in DOMAIN s : \A p \in Declaradas(d, s[k].archivo) :
        s[k].archivo \in Abribles(d) /\ s[k].pos <= p =>
          \/ \E j \in DOMAIN q : q[j].archivo = s[k].archivo /\ q[j].pos <= p
          \/ \E x \in {} : En(q, x) = [archivo |-> s[k].archivo, pos |-> p]
  BY <1>1
<1>7. Dicha(d, v2, q)
  BY <1>0, <1>2, <1>5, <1>6, DichaSigue
<1> QED BY <1>0, <1>7

-----------------------------------------------------------------------------
(* Whether something failed.                                                *)

(* A call goes on; what it is at was met, or cannot be read.                *)
LEMMA LogradaAdelanta ==
  ASSUME NEW d, NEW v, NEW s, Lograda(d, v, s), NEW n, NEW q, Adelanta(d, s, n, q),
         q[n].ok <=> s[n].ok /\ (n < Len(s) => s[n + 1].ok),
         \A k \in DOMAIN q : k < n => (q[k].ok <=> s[k].ok)
  PROVE  Lograda(d, v, q)
<1>1. /\ n \in Nat \ {0} /\ Len(s) \in Nat /\ DOMAIN s = 1 .. Len(s) /\ DOMAIN q = 1 .. n
      /\ \A k \in DOMAIN q : k \in DOMAIN s
  BY AdelantaQue
<1>2. n \in 1 .. Len(s) /\ Len(s) <= n + 1
  BY DEF Adelanta
<1>3. ASSUME \A k \in DOMAIN s : s[k].ok
      PROVE  \A k \in DOMAIN q : q[k].ok
  <2>1. ASSUME NEW k \in DOMAIN q
        PROVE  q[k].ok
    <3>1. CASE k = n
      <4>1. s[n].ok /\ (n < Len(s) => s[n + 1].ok)
        <5>1. n \in DOMAIN s /\ (n < Len(s) => n + 1 \in DOMAIN s)
          BY <1>1, <1>2
        <5> QED BY <1>3, <5>1
      <4> QED BY <3>1, <4>1
    <3>2. CASE k # n
      <4>1. k < n /\ k \in DOMAIN s
        BY <1>1, <3>2
      <4>2. s[k].ok
        BY <1>3, <4>1
      <4> QED BY <2>1, <4>1, <4>2
    <3> QED BY <3>1, <3>2
  <2> QED BY <2>1
<1>4. ASSUME \A k \in DOMAIN q : q[k].ok
      PROVE  \A k \in DOMAIN s : s[k].ok
  <2>1. ASSUME NEW k \in DOMAIN s
        PROVE  s[k].ok
    <3>0. n \in DOMAIN q /\ q[n].ok
      <4>1. n \in DOMAIN q
        BY <1>1
      <4> QED BY <1>4, <4>1
    <3>1. CASE k = n
      BY <3>0, <3>1
    <3>2. CASE k < n
      <4>1. k \in DOMAIN q
        BY <1>1, <3>2
      <4>2. q[k].ok
        BY <1>4, <4>1
      <4> QED BY <3>2, <4>1, <4>2
    <3>3. CASE k = n + 1
      <4>1. n < Len(s)
        BY <1>1, <3>3
      <4> QED BY <3>0, <3>3, <4>1
    <3>4. k = n \/ k < n \/ k = n + 1
      BY <1>1, <1>2
    <3> QED BY <3>1, <3>2, <3>3, <3>4
  <2> QED BY <2>1
<1> QED BY <1>3, <1>4 DEF Lograda

(* A text that cannot be read, and a call that has failed.                  *)
LEMMA LogradaFalla ==
  ASSUME NEW d, NEW v2, NEW q, NEW k \in DOMAIN q, ~q[k].ok, NEW D \in v2, Abre(D) \notin Abribles(d)
  PROVE  Lograda(d, v2, q)
BY DEF Lograda

(* A call more.                                                            *)
LEMMA LogradaMete ==
  ASSUME NEW d, NEW v, NEW s, Lograda(d, v, s), NEW D, NEW q, Mete(d, v, s, D, q)
  PROVE  Lograda(d, v \cup {D}, q)
<1> DEFINE n == Len(s)
<1>0. n = Len(s)
  OBVIOUS
<1> HIDE DEF n
<1>1. /\ n \in Nat \ {0} /\ DOMAIN s = 1 .. n /\ DOMAIN q = 1 .. n + 1
      /\ \A k \in DOMAIN s : k \in DOMAIN q /\ q[k] = s[k]
      /\ q[n + 1].ok
  BY <1>0, MeteQue
<1>2. Abre(D) \in Abribles(d)
  BY DEF Mete
<1>3. ASSUME \A k \in DOMAIN s : s[k].ok
      PROVE  \A k \in DOMAIN q : q[k].ok
  <2>1. ASSUME NEW k \in DOMAIN q
        PROVE  q[k].ok
    <3>1. CASE k = n + 1
      BY <1>1, <3>1
    <3>2. CASE k # n + 1
      <4>1. k \in DOMAIN s
        BY <1>1, <3>2
      <4>2. s[k].ok /\ q[k] = s[k]
        BY <1>1, <1>3, <4>1
      <4> QED BY <4>2
    <3> QED BY <3>1, <3>2
  <2> QED BY <2>1
<1>4. ASSUME \A k \in DOMAIN q : q[k].ok
      PROVE  \A k \in DOMAIN s : s[k].ok
  <2>1. ASSUME NEW k \in DOMAIN s
        PROVE  s[k].ok
    <3>1. k \in DOMAIN q /\ q[k] = s[k]
      BY <1>1
    <3>2. q[k].ok
      BY <1>4, <3>1
    <3> QED BY <3>1, <3>2
  <2> QED BY <2>1
<1>5. (\A x \in v \cup {D} : Abre(x) \in Abribles(d)) <=> \A x \in v : Abre(x) \in Abribles(d)
  BY <1>2
<1> QED BY <1>3, <1>4, <1>5 DEF Lograda

-----------------------------------------------------------------------------
(* The end.                                                                 *)

(* What is reached is in every set closed under the includes.              *)
LEMMA AlcanzaMinimo ==
  ASSUME NEW d, NEW I, NEW a, NEW H, H \subseteq Abribles(d), a \in Abribles(d) => a \in H,
         \A c \in I : c[1] \in H /\ Incluye(d, c) \in Abribles(d) => Incluye(d, c) \in H
  PROVE  Alcanza(d, I, a) \subseteq H
<1> DEFINE A == Abribles(d)
           lleva == [c \in I |-> Incluye(d, c)]
           Cerrado(J) == /\ {a} \cap A \subseteq J
                         /\ \A c \in I : c[1] \in J => {lleva[c]} \cap A \subseteq J
<1>1. Alcanza(d, I, a) = {b \in A : \A J \in SUBSET A : Cerrado(J) => b \in J}
  BY DEF Alcanza
<1>2. \A c \in I : lleva[c] = Incluye(d, c)
  OBVIOUS
<1>3. H \subseteq A /\ (a \in A => a \in H) /\ \A c \in I : c[1] \in H /\ Incluye(d, c) \in A => Incluye(d, c) \in H
  OBVIOUS
<1> HIDE DEF A, lleva
<1>4. {a} \cap A \subseteq H
  BY <1>3
<1>5. \A c \in I : c[1] \in H => {lleva[c]} \cap A \subseteq H
  BY <1>2, <1>3
<1>6. Cerrado(H)
  BY <1>4, <1>5
<1> HIDE DEF Cerrado
<1> QED BY <1>1, <1>3, <1>6

(* The includes of the files met lead to files met, when no call has any of *)
(* them left.                                                              *)
LEMMA VistosCerrados ==
  ASSUME NEW d \in Discos, NEW e \in Principales, NEW v, NEW s, Cadena(d, e, v, s), Recorrida(d, e, v, s),
         NEW b \in Vistos(v) \cap Abribles(d), NEW p \in Inclusiones(d, b),
         \A k \in DOMAIN s : s[k].archivo = b => ~(s[k].pos <= p)
  PROVE  Incluye(d, <<b, p>>) \in Vistos(v)
<1>1. PICK D \in Expandidos(e, v) : Abre(D) = b
  BY VistoExpandido
<1>2. \/ Dividir(Padre(D), Mod(d, <<Abre(D), p>>)) \in v
      \/ \E k \in DOMAIN s : Expande(s[k], D) /\ s[k].pos <= p
  BY <1>1 DEF Recorrida
<1>3. ~\E k \in DOMAIN s : Expande(s[k], D) /\ s[k].pos <= p
  BY <1>1 DEF Expande
<1>4. Abre(Dividir(Padre(D), Mod(d, <<Abre(D), p>>))) = Incluye(d, <<b, p>>)
  <2>1. Abre(D) \in Abribles(d) /\ p \in Inclusiones(d, Abre(D))
    BY <1>1
  <2>2. Abre(Dividir(Padre(D), Mod(d, <<Abre(D), p>>))) = Incluye(d, <<Abre(D), p>>)
    BY <2>1, IncluyeTexto
  <2> QED BY <1>1, <2>2
<1> QED BY <1>2, <1>3, <1>4 DEF Vistos

(* The files met and read are those reached.                               *)
LEMMA VistosAlcanzados ==
  ASSUME NEW d \in Discos, NEW e \in Principales, NEW v, NEW s, Cadena(d, e, v, s)
  PROVE  Vistos(v) \cap Abribles(d) \subseteq Alcanzados(d, e)
<1>1. SUFFICES ASSUME NEW b \in Vistos(v), b \in Abribles(d) PROVE b \in Alcanzados(d, e)
  OBVIOUS
<1>2. PICK D \in Expandidos(e, v) : Abre(D) = b
  BY VistoExpandido
<1> QED BY <1>1, <1>2, ExpandidoEs

(* When the first call has no statement left, all that is reached was met,  *)
(* said and, if nothing failed, read.                                      *)
LEMMA AlFinal ==
  ASSUME NEW d \in Discos, NEW e \in Principales, NEW v, NEW s \in Seq(Llamada), Camino(d, e, v, s),
         DOMAIN s = {1}, s[1].pos \in Nat, Len(d[s[1].archivo].sents) < s[1].pos
  PROVE  /\ Vistos(v) \cap Abribles(d) = Alcanzados(d, e)
         /\ Range(s[1].nueva) =
              UNION {[archivo : {a}, pos : DOMAIN d[a].sents \ Inclusiones(d, a)] : a \in Alcanzados(d, e)}
         /\ s[1].ok <=> \A c \in Pasados(d, e) : Incluye(d, c) \in Abribles(d)
<1>1. Cadena(d, e, v, s) /\ Recorrida(d, e, v, s) /\ Dicha(d, v, s) /\ Lograda(d, v, s)
  BY DEF Camino
<1> DEFINE V == Vistos(v) \cap Abribles(d)
<1>2. ASSUME NEW b \in Abribles(d), NEW p \in Nat, p <= Len(d[b].sents), NEW k \in DOMAIN s, s[k].archivo = b
      PROVE  ~(s[k].pos <= p)
  <2>1. Len(d[b].sents) \in Nat
    BY DiscoTipo DEF Abribles
  <2>2. s[k].pos = s[1].pos /\ Len(d[b].sents) < s[1].pos
    <3>1. k = 1
      BY <1>2
    <3> QED BY <1>2, <3>1
  <2> DEFINE L == Len(d[b].sents)
             x == s[1].pos
  <2>3. L \in Nat /\ x \in Nat /\ p \in Nat /\ p <= L /\ L < x /\ s[k].pos = x
    BY <1>2, <2>1, <2>2
  <2> HIDE DEF L, x
  <2> QED BY <2>3
<1>3. \A b \in V : \A p \in Inclusiones(d, b) : Incluye(d, <<b, p>>) \in Vistos(v)
  <2>1. ASSUME NEW b \in V, NEW p \in Inclusiones(d, b)
        PROVE  Incluye(d, <<b, p>>) \in Vistos(v)
    <3>1. p \in Nat /\ p <= Len(d[b].sents)
      BY LugarDe DEF Abribles
    <3>2. \A k \in DOMAIN s : s[k].archivo = b => ~(s[k].pos <= p)
      BY <1>2, <3>1
    <3> QED BY <1>1, <3>2, VistosCerrados
  <2> QED BY <2>1
<1>4. \A c \in Pasos(d) : c = <<c[1], c[2]>> /\ c[1] \in Abribles(d) /\ c[2] \in Inclusiones(d, c[1])
  BY DEF Pasos
<1>5. V \subseteq Alcanzados(d, e)
  BY <1>1, VistosAlcanzados
<1>6. Alcanzados(d, e) \subseteq V
  <2>1. Abre(e) \in V
    <3>1. Absoluta(e) \in v /\ Abre(Absoluta(e)) = Abre(e)
      BY <1>1, TextoDado DEF Cadena
    <3>2. Abre(e) \in Vistos(v)
      BY <3>1 DEF Vistos
    <3>3. Abre(e) \in Abribles(d)
      BY ConstantesAssumption DEF Abribles
    <3> QED BY <3>2, <3>3
  <2>2. \A c \in Pasos(d) : c[1] \in V /\ Incluye(d, c) \in Abribles(d) => Incluye(d, c) \in V
    <3>1. ASSUME NEW c \in Pasos(d), c[1] \in V, Incluye(d, c) \in Abribles(d)
          PROVE  Incluye(d, c) \in V
      <4>1. Incluye(d, <<c[1], c[2]>>) \in Vistos(v)
        BY <1>3, <1>4, <3>1
      <4>2. c = <<c[1], c[2]>>
        BY <1>4
      <4>3. Incluye(d, c) \in Vistos(v)
        BY <4>1, <4>2
      <4> QED BY <3>1, <4>3
    <3> QED BY <3>1
  <2>3. V \subseteq Abribles(d)
    OBVIOUS
  <2> HIDE DEF V
  <2> QED BY <2>1, <2>2, <2>3, AlcanzaMinimo DEF Alcanzados
<1>7. V = Alcanzados(d, e)
  BY <1>5, <1>6
<1>8. Range(s[1].nueva) =
        UNION {[archivo : {a}, pos : DOMAIN d[a].sents \ Inclusiones(d, a)] : a \in Alcanzados(d, e)}
  <2> DEFINE D(a) == [archivo : {a}, pos : DOMAIN d[a].sents \ Inclusiones(d, a)]
             z == s[1].nueva
  <2>1. \A x : x \in Range(z) <=> \E i \in DOMAIN z : z[i] = x
    BY DEF Range
  <2>2. ASSUME NEW x \in Range(z)
        PROVE  \E a \in Alcanzados(d, e) : x \in D(a)
    <3>1. PICK i \in DOMAIN z : z[i] = x
      BY <2>1
    <3>2. <<1, i>> \in Lugares(s) /\ En(s, <<1, i>>) = x
      BY <3>1, LugaresDe
    <3> DEFINE a == x.archivo
    <3>3. a \in V /\ x.pos \in Declaradas(d, a)
      BY <1>1, <3>2 DEF Dicha
    <3>4. x = [archivo |-> x.archivo, pos |-> x.pos]
      <4>1. z \in Seq(Origen)
        BY ListasDe
      <4>2. x \in Origen
        BY <3>1, <4>1
      <4> QED BY <4>2 DEF Origen
    <3>5. x \in D(a)
      BY <3>3, <3>4 DEF Declaradas
    <3> QED BY <1>7, <3>3, <3>5
  <2>3. ASSUME NEW a \in Alcanzados(d, e), NEW x \in D(a)
        PROVE  x \in Range(z)
    <3>1. x = [archivo |-> a, pos |-> x.pos] /\ x.pos \in Declaradas(d, a)
      BY DEF Declaradas
    <3>2. a \in V
      BY <1>7
    <3>3. x.pos \in Nat /\ x.pos <= Len(d[a].sents)
      BY <3>1, <3>2, LugarDe DEF Abribles
    <3>4. ~\E k \in DOMAIN s : s[k].archivo = a /\ s[k].pos <= x.pos
      BY <1>2, <3>2, <3>3
    <3>5. PICK l \in Lugares(s) : En(s, l) = [archivo |-> a, pos |-> x.pos]
      BY <1>1, <3>1, <3>2, <3>4 DEF Dicha
    <3>6. l[1] = 1 /\ l[2] \in DOMAIN z
      BY LugaresDe
    <3>7. z[l[2]] = x
      BY <3>1, <3>5, <3>6 DEF En
    <3> QED BY <2>1, <3>6, <3>7
  <2> HIDE DEF D, z
  <2>4. Range(z) = UNION {D(a) : a \in Alcanzados(d, e)}
    BY <2>2, <2>3
  <2> QED BY <2>4 DEF D, z
<1>9. (\A D \in v : Abre(D) \in Abribles(d)) <=> \A c \in Pasados(d, e) : Incluye(d, c) \in Abribles(d)
  <2>1. ASSUME \A D \in v : Abre(D) \in Abribles(d), NEW c \in Pasados(d, e)
        PROVE  Incluye(d, c) \in Abribles(d)
    <3>1. c \in Pasos(d) /\ c[1] \in V
      BY <1>7 DEF Pasados
    <3>2. c = <<c[1], c[2]>> /\ c[2] \in Inclusiones(d, c[1])
      BY <1>4, <3>1
    <3>3. Incluye(d, <<c[1], c[2]>>) \in Vistos(v)
      BY <1>3, <3>1, <3>2
    <3>4. Incluye(d, c) \in Vistos(v)
      BY <3>2, <3>3
    <3> QED BY <2>1, <3>4 DEF Vistos
  <2>2. ASSUME \A c \in Pasados(d, e) : Incluye(d, c) \in Abribles(d), NEW D \in v
        PROVE  Abre(D) \in Abribles(d)
    <3>1. Abre(e) \in Abribles(d)
      BY ConstantesAssumption DEF Abribles
    <3> QED BY <1>1, <2>2, <3>1 DEF Cadena
  <2> QED BY <2>1, <2>2
<1>10. (\A k \in DOMAIN s : s[k].ok) <=> s[1].ok
  OBVIOUS
<1> QED BY <1>1, <1>7, <1>8, <1>9, <1>10 DEF Lograda

-----------------------------------------------------------------------------
(* The order.                                                               *)

(* What the calls of the stack wait for ends in the file of the last one.   *)
LEMMA PilaAlcanza ==
  ASSUME NEW d \in Discos, NEW e \in Principales, NEW v, NEW s, Cadena(d, e, v, s),
         NEW n \in Nat, DOMAIN s = 1 .. n, NEW k \in DOMAIN s, NEW c, s[k].archivo \in Debajo(d, c)
  PROVE  s[n].archivo \in Debajo(d, c)
<1> DEFINE X == Debajo(d, c)
           T == {m \in Nat : k + m \in DOMAIN s => s[k + m].archivo \in X}
<1>0. k \in Nat /\ k >= 1 /\ k <= n
  OBVIOUS
<1>1. 0 \in T
  <2>1. k + 0 = k
    BY <1>0
  <2> QED BY <2>1
<1>2. \A a \in X, i \in Nat : i \in DOMAIN s /\ i + 1 \in DOMAIN s /\ s[i].archivo = a => s[i + 1].archivo \in X
  <2>1. ASSUME NEW a \in X, NEW i \in DOMAIN s, i + 1 \in DOMAIN s, s[i].archivo = a
        PROVE  s[i + 1].archivo \in X
    <3>1. s[i].pos \in Inclusiones(d, s[i].archivo) /\ Expande(s[i + 1], Pide(d, s, i))
      BY <2>1 DEF Cadena
    <3>2. /\ Abre(Pide(d, s, i)) = Incluye(d, <<s[i].archivo, s[i].pos>>)
          /\ <<s[i].archivo, s[i].pos>> \in Pasos(d)
      BY <3>1, PideBien DEF Pide
    <3>3. s[i + 1].archivo \in Abribles(d)
      BY <2>1 DEF Cadena, Expande
    <3>4. s[i + 1].archivo = Incluye(d, <<s[i].archivo, s[i].pos>>)
      BY <3>1, <3>2 DEF Expande
    <3> DEFINE y == <<s[i].archivo, s[i].pos>>
    <3>5. y \in Pasos(d) /\ y[1] \in X /\ s[i + 1].archivo = Incluye(d, y)
      BY <2>1, <3>2, <3>4
    <3> HIDE DEF y
    <3> QED BY <3>3, <3>5, AlcanzaCerrado DEF Debajo
  <2> QED BY <2>1
<1>3. ASSUME NEW m \in Nat, m \in T
      PROVE  m + 1 \in T
  <2>1. SUFFICES ASSUME k + (m + 1) \in DOMAIN s PROVE s[k + (m + 1)].archivo \in X
    OBVIOUS
  <2> DEFINE i == k + m
  <2>2. i \in Nat /\ i \in DOMAIN s /\ k + (m + 1) = i + 1
    BY <1>0, <2>1
  <2>3. s[i].archivo \in X
    BY <1>3, <2>2
  <2> HIDE DEF i, X
  <2>4. i + 1 \in DOMAIN s
    BY <2>1, <2>2
  <2> QED BY <1>2, <2>2, <2>3, <2>4
<1>4. \A m \in Nat : m \in T
  <2> HIDE DEF T
  <2> QED BY <1>1, <1>3, PorNumeros
<1>5. n - k \in Nat /\ k + (n - k) = n
  BY <1>0
<1>6. n \in DOMAIN s
  BY <1>0
<1> QED BY <1>4, <1>5, <1>6

(* What an include passed by the last call reaches is over, unless it       *)
(* reaches the file it is written in.                                      *)
LEMMA Agota ==
  ASSUME NEW d \in Discos, NEW e \in Principales, NEW v, NEW s, Cadena(d, e, v, s), Recorrida(d, e, v, s),
         NEW n \in Nat \ {0}, DOMAIN s = 1 .. n,
         NEW i \in Inclusiones(d, s[n].archivo), i < s[n].pos,
         s[n].archivo \notin Debajo(d, <<s[n].archivo, i>>), NEW b \in Debajo(d, <<s[n].archivo, i>>)
  PROVE  b \in Vistos(v) /\ \A k \in DOMAIN s : s[k].archivo # b
<1> DEFINE c == <<s[n].archivo, i>>
           X == Debajo(d, c)
           H == X \cap Vistos(v)
<1>0. n \in DOMAIN s
  OBVIOUS
<1>1. \A k \in DOMAIN s : s[k].archivo \notin X
  <2>1. ASSUME NEW k \in DOMAIN s, s[k].archivo \in X PROVE FALSE
    BY <2>1, PilaAlcanza
  <2> QED BY <2>1
<1>2. /\ X \subseteq Abribles(d) /\ (Incluye(d, c) \in Abribles(d) => Incluye(d, c) \in X)
      /\ \A y \in Pasos(d) : y[1] \in X /\ Incluye(d, y) \in Abribles(d) => Incluye(d, y) \in X
  BY AlcanzaCerrado DEF Debajo
<1>3. Incluye(d, c) \in Vistos(v)
  <2>1. PideEn(d, s[n], i) \in v
    BY <1>0 DEF Recorrida
  <2>2. Abre(PideEn(d, s[n], i)) = Incluye(d, c)
    BY <1>0, PideBien
  <2> QED BY <2>1, <2>2 DEF Vistos
<1> HIDE DEF X
<1>4. ASSUME NEW y \in Pasos(d), y[1] \in H, Incluye(d, y) \in Abribles(d)
      PROVE  Incluye(d, y) \in H
  <2>1. y = <<y[1], y[2]>> /\ y[1] \in Abribles(d) /\ y[2] \in Inclusiones(d, y[1])
    BY DEF Pasos
  <2>2. y[1] \in Vistos(v) \cap Abribles(d) /\ y[1] \in X
    BY <1>4, <2>1
  <2>3. \A k \in DOMAIN s : s[k].archivo = y[1] => ~(s[k].pos <= y[2])
    BY <1>1, <2>2
  <2>4. Incluye(d, <<y[1], y[2]>>) \in Vistos(v)
    BY <2>1, <2>2, <2>3, VistosCerrados
  <2>5. Incluye(d, y) \in Vistos(v)
    BY <2>1, <2>4
  <2> QED BY <1>2, <1>4, <2>2, <2>5
<1>5. H \subseteq Abribles(d) /\ (Incluye(d, c) \in Abribles(d) => Incluye(d, c) \in H)
  BY <1>2, <1>3
<1> HIDE DEF H, c
<1>6. Debajo(d, c) \subseteq H
  BY <1>4, <1>5, AlcanzaMinimo DEF Debajo
<1>7. b \in H
  BY <1>6 DEF c
<1> QED BY <1>1, <1>7 DEF H

(* The places that were there keep their order.                            *)
LEMMA OrdenViejo ==
  ASSUME NEW d, NEW e, NEW s, Colocada(d, e, s), NEW q, NEW X, NEW h, Lleva(s, q, X, h),
         NEW l \in Lugares(q) \ X, NEW m \in Lugares(q) \ X
  PROVE  Precede(d, e, En(q, l), En(q, m), l = m, Antes(l, m))
<1>1. /\ h[l] \in Lugares(s) /\ En(s, h[l]) = En(q, l)
      /\ h[m] \in Lugares(s) /\ En(s, h[m]) = En(q, m)
      /\ h[l] = h[m] => l = m
      /\ Antes(h[l], h[m]) => Antes(l, m)
  BY DEF Lleva
<1>2. Precede(d, e, En(s, h[l]), En(s, h[m]), h[l] = h[m], Antes(h[l], h[m]))
  BY <1>1 DEF Colocada
<1>3. Precede(d, e, En(q, l), En(q, m), h[l] = h[m], Antes(h[l], h[m]))
  BY <1>1, <1>2
<1> QED BY <1>1, <1>3 DEF Precede

(* The statement at a place.                                               *)
LEMMA LugarEs ==
  ASSUME NEW s \in Seq(Llamada), NEW l \in Lugares(s)
  PROVE  En(s, l) \in Origen /\ En(s, l).pos \in Nat /\ En(s, l).archivo \in Archivos
<1>1. l[1] \in DOMAIN s /\ l[2] \in DOMAIN s[l[1]].nueva
  BY LugaresDe
<1> DEFINE z == s[l[1]].nueva
<1>2. z \in Seq(Origen) /\ l[2] \in DOMAIN z
  BY <1>1, ListasDe
<1>3. z[l[2]] \in Origen
  <2> HIDE DEF z
  <2> QED BY <1>2
<1> QED BY <1>3 DEF En, Origen

(* A call that goes on, and says nothing more.                             *)
LEMMA EnOrdenAdelanta ==
  ASSUME NEW d, NEW e, NEW v, NEW s, EnOrden(d, e, v, s), NEW n, NEW q, Adelanta(d, s, n, q),
         Conserva(s, q, {}), NEW v2, v \subseteq v2
  PROVE  EnOrden(d, e, v2, q)
<1>1. /\ \A k \in DOMAIN q : /\ k \in DOMAIN s /\ q[k].archivo = s[k].archivo
                             /\ s[k].pos \in Nat \ {0} /\ s[k].pos <= q[k].pos
  BY AdelantaQue
<1>2. s \in Seq(Llamada) /\ q \in Seq(Llamada)
  BY DEF Adelanta
<1>3. \A k \in DOMAIN q : q[k].pos \in Nat
  <2>1. \A k \in DOMAIN q : q[k] \in Llamada
    BY <1>2
  <2> QED BY <2>1 DEF Llamada
<1>4. Colocada(d, e, s) /\ Superada(e, s) /\ Agotada(d, v, s)
  BY DEF EnOrden
<1>5. \A l \in Lugares(q) : \E x \in Lugares(s) : En(s, x) = En(q, l)
  BY LugarViejo
<1>6. Colocada(d, e, q)
  <2>1. PICK h : Lleva(s, q, {}, h)
    BY DEF Conserva
  <2>2. ASSUME NEW l \in Lugares(q), NEW m \in Lugares(q)
        PROVE  Precede(d, e, En(q, l), En(q, m), l = m, Antes(l, m))
    <3>1. l \in Lugares(q) \ {} /\ m \in Lugares(q) \ {}
      OBVIOUS
    <3> QED BY <1>4, <2>1, <3>1, OrdenViejo
  <2> QED BY <2>2 DEF Colocada
<1>7. Superada(e, q)
  <2>1. ASSUME NEW l \in Lugares(q), NEW k \in DOMAIN q, En(q, l).archivo = q[k].archivo,
               ~Doble(e, q[k].archivo)
        PROVE  En(q, l).pos < q[k].pos
    <3>1. PICK x \in Lugares(s) : En(s, x) = En(q, l)
      BY <1>5
    <3>2. k \in DOMAIN s /\ s[k].archivo = q[k].archivo
      BY <1>1
    <3>3. En(s, x).pos < s[k].pos
      BY <1>4, <2>1, <3>1, <3>2 DEF Superada
    <3>4. En(q, l).pos \in Nat
      BY <1>2, LugarEs
    <3> DEFINE a == En(q, l).pos
               b == s[k].pos
               c == q[k].pos
    <3>5. a \in Nat /\ b \in Nat /\ c \in Nat /\ a < b /\ b <= c
      BY <1>1, <1>3, <3>1, <3>3, <3>4
    <3> HIDE DEF a, b, c
    <3>6. a < c
      BY <3>5
    <3> QED BY <3>6 DEF a, c
  <2> QED BY <2>1 DEF Superada
<1>8. Agotada(d, v2, q)
  <2>1. ASSUME NEW l \in Lugares(q), NEW b \in Abribles(d), Tras(d, b, En(q, l))
        PROVE  b \in Vistos(v2) /\ \A k \in DOMAIN q : q[k].archivo # b
    <3>1. PICK x \in Lugares(s) : En(s, x) = En(q, l)
      BY <1>5
    <3>2. b \in Vistos(v) /\ \A k \in DOMAIN s : s[k].archivo # b
      BY <1>4, <2>1, <3>1 DEF Agotada
    <3> QED BY <1>1, <3>2 DEF Vistos
  <2> QED BY <2>1 DEF Agotada
<1> QED BY <1>6, <1>7, <1>8 DEF EnOrden

(* A statement copied by the last call, of a file no other is expanding     *)
(* but the one that may be expanded twice.                                 *)
LEMMA EnOrdenCopia ==
  ASSUME NEW d, NEW e \in Principales, NEW v, NEW s, Cadena(d, e, v, s), Recorrida(d, e, v, s),
         EnOrden(d, e, v, s), NEW n, NEW q, Adelanta(d, s, n, q), n = Len(s), NEW x, Conserva(s, q, {x}),
         En(q, x) = [archivo |-> s[n].archivo, pos |-> s[n].pos],
         \A j, k \in DOMAIN s : j < k /\ s[j].archivo = s[k].archivo => Doble(e, s[k].archivo)
  PROVE  EnOrden(d, e, v, q)
<1> DEFINE o == [archivo |-> s[n].archivo, pos |-> s[n].pos]
           f == s[n].archivo
           P == s[n].pos
<1>0. /\ d \in Discos /\ n \in Nat \ {0} /\ n \in DOMAIN s /\ DOMAIN s = 1 .. Len(s) /\ DOMAIN q = 1 .. n
      /\ \A k \in DOMAIN q : /\ k \in DOMAIN s /\ q[k].archivo = s[k].archivo
                             /\ s[k].pos \in Nat \ {0} /\ s[k].pos <= q[k].pos
      /\ q[n].pos = s[n].pos + 1
  BY AdelantaQue
<1>1. /\ d \in Discos /\ n \in Nat \ {0} /\ n \in DOMAIN s /\ DOMAIN s = 1 .. n /\ n \in DOMAIN q
      /\ \A k \in DOMAIN q : /\ k \in DOMAIN s /\ q[k].archivo = s[k].archivo
                             /\ s[k].pos \in Nat \ {0} /\ s[k].pos <= q[k].pos
      /\ q[n].pos = s[n].pos + 1
  <2>1. DOMAIN s = 1 .. n
    BY <1>0
  <2>2. n \in DOMAIN q
    BY <1>0
  <2> QED BY <1>0, <2>1, <2>2
<1>2. s \in Seq(Llamada) /\ q \in Seq(Llamada)
  BY DEF Adelanta
<1>3. \A k \in DOMAIN q : q[k].pos \in Nat
  <2>1. \A k \in DOMAIN q : q[k] \in Llamada
    BY <1>2
  <2> QED BY <2>1 DEF Llamada
<1>4. Colocada(d, e, s) /\ Superada(e, s) /\ Agotada(d, v, s)
  BY DEF EnOrden
<1>5. \A l \in Lugares(q) \ {x} : \E y \in Lugares(s) : En(s, y) = En(q, l)
  BY LugarViejo
<1>6. PICK h : Lleva(s, q, {x}, h)
  BY DEF Conserva
<1>7. /\ x \in Lugares(q) /\ \A l \in Lugares(q) \ {x} : Antes(l, x) /\ l # x
  BY <1>6 DEF Lleva
<1>8. En(q, x) = o /\ o.archivo = f /\ o.pos = P /\ P \in Nat
  BY <1>1
<1>9. f \in Abribles(d)
  BY <1>1, PideBien DEF Cadena, Expande
(* What was there of the file is before.                                   *)
<1>10. ASSUME NEW l \in Lugares(q) \ {x}, En(q, l).archivo = f, ~Doble(e, f)
       PROVE  En(q, l).pos \in Nat /\ En(q, l).pos < P
  <2>1. PICK y \in Lugares(s) : En(s, y) = En(q, l)
    BY <1>5
  <2>2. En(q, l).pos \in Nat
    BY <1>2, LugarEs
  <2> QED BY <1>1, <1>4, <1>10, <2>1, <2>2 DEF Superada
<1> HIDE DEF o, f, P
<1>11. Colocada(d, e, q)
  <2>1. ASSUME NEW l \in Lugares(q) \ {x}
        PROVE  Precede(d, e, En(q, l), o, l = x, Antes(l, x))
    <3>1. ASSUME En(q, l) = o, ~Doble(e, En(q, l).archivo) PROVE FALSE
      <4>1. En(q, l).archivo = f /\ En(q, l).pos = P
        BY <1>8, <3>1
      <4> QED BY <1>8, <1>10, <3>1, <4>1
    <3> QED BY <1>7, <3>1 DEF Precede
  <2>2. ASSUME NEW m \in Lugares(q) \ {x}
        PROVE  Precede(d, e, o, En(q, m), x = m, Antes(x, m))
    <3>1. ASSUME o = En(q, m), ~Doble(e, o.archivo) PROVE FALSE
      <4>1. En(q, m).archivo = f /\ En(q, m).pos = P
        BY <1>8, <3>1
      <4> QED BY <1>8, <1>10, <3>1, <4>1
    <3>2. ASSUME o.archivo = En(q, m).archivo, o.pos < En(q, m).pos, ~Doble(e, o.archivo) PROVE FALSE
      <4>1. En(q, m).pos \in Nat /\ En(q, m).pos < P /\ P < En(q, m).pos
        BY <1>8, <1>10, <3>2
      <4> QED BY <1>8, <4>1
    <3>3. ~Tras(d, o.archivo, En(q, m))
      <4>1. PICK y \in Lugares(s) : En(s, y) = En(q, m)
        BY <1>5
      <4>2. ~Tras(d, f, En(s, y))
        BY <1>1, <1>4, <1>9 DEF Agotada, f
      <4> QED BY <1>8, <4>1, <4>2
    <3> QED BY <3>1, <3>2, <3>3 DEF Precede
  <2>3. Precede(d, e, o, o, x = x, Antes(x, x))
    <3>1. ~(o.pos < o.pos)
      BY <1>8
    <3>2. ~Tras(d, o.archivo, o)
      BY DEF Tras
    <3> QED BY <3>1, <3>2 DEF Precede
  <2>4. ASSUME NEW l \in Lugares(q), NEW m \in Lugares(q)
        PROVE  Precede(d, e, En(q, l), En(q, m), l = m, Antes(l, m))
    <3>1. CASE l # x /\ m # x
      <4>1. l \in Lugares(q) \ {x} /\ m \in Lugares(q) \ {x}
        BY <3>1
      <4> QED BY <1>4, <1>6, <4>1, OrdenViejo
    <3>2. CASE l # x /\ m = x
      <4>1. l \in Lugares(q) \ {x}
        BY <3>2
      <4> QED BY <1>8, <2>1, <3>2, <4>1
    <3>3. CASE l = x /\ m # x
      <4>1. m \in Lugares(q) \ {x}
        BY <3>3
      <4> QED BY <1>8, <2>2, <3>3, <4>1
    <3>4. CASE l = x /\ m = x
      BY <1>8, <2>3, <3>4
    <3> QED BY <3>1, <3>2, <3>3, <3>4
  <2> QED BY <2>4 DEF Colocada
<1>12. Superada(e, q)
  <2>1. ASSUME NEW l \in Lugares(q), NEW k \in DOMAIN q, En(q, l).archivo = q[k].archivo,
               ~Doble(e, q[k].archivo)
        PROVE  En(q, l).pos < q[k].pos
    <3>1. k \in DOMAIN s /\ s[k].archivo = q[k].archivo
      BY <1>1
    <3>2. CASE l # x
      <4>1. PICK y \in Lugares(s) : En(s, y) = En(q, l)
        BY <1>5, <3>2
      <4>2. En(s, y).pos < s[k].pos
        BY <1>4, <2>1, <3>1, <4>1 DEF Superada
      <4>3. En(q, l).pos \in Nat
        BY <1>2, LugarEs
      <4> DEFINE a == En(q, l).pos
                 b == s[k].pos
                 c == q[k].pos
      <4>4. a \in Nat /\ b \in Nat /\ c \in Nat /\ a < b /\ b <= c
        BY <1>1, <1>3, <4>1, <4>2, <4>3
      <4> HIDE DEF a, b, c
      <4>5. a < c
        BY <4>4
      <4> QED BY <4>5 DEF a, c
    <3>3. CASE l = x
      <4>1. s[k].archivo = s[n].archivo
        BY <1>8, <2>1, <3>1, <3>3 DEF f
      <4>2. ~(k < n)
        BY <1>1, <2>1, <3>1, <4>1
      <4>3. k = n
        BY <1>1, <3>1, <4>2
      <4>4. En(q, l).pos = P /\ q[k].pos = P + 1
        BY <1>1, <1>8, <3>3, <4>3 DEF P
      <4> QED BY <1>8, <4>4
    <3> QED BY <3>2, <3>3
  <2> QED BY <2>1 DEF Superada
<1>13. Agotada(d, v, q)
  <2>1. ASSUME NEW l \in Lugares(q), NEW b \in Abribles(d), Tras(d, b, En(q, l))
        PROVE  b \in Vistos(v) /\ \A k \in DOMAIN s : s[k].archivo # b
    <3>1. CASE l # x
      <4>1. PICK y \in Lugares(s) : En(s, y) = En(q, l)
        BY <1>5, <3>1
      <4> QED BY <1>4, <2>1, <4>1 DEF Agotada
    <3>2. CASE l = x
      <4>1. PICK i \in Inclusiones(d, f) : i < P /\ f \notin Debajo(d, <<f, i>>) /\ b \in Debajo(d, <<f, i>>)
        BY <1>8, <2>1, <3>2 DEF Tras
      <4> QED BY <1>1, <4>1, Agota DEF f, P
    <3> QED BY <3>1, <3>2
  <2> QED BY <1>1, <2>1 DEF Agotada
<1> QED BY <1>11, <1>12, <1>13 DEF EnOrden

(* A call more, of a file not met but for the one that may be expanded      *)
(* twice.                                                                  *)
LEMMA EnOrdenMete ==
  ASSUME NEW d, NEW e \in Principales, NEW v, NEW s, Cadena(d, e, v, s), Dicha(d, v, s),
         EnOrden(d, e, v, s), NEW D, NEW q, Mete(d, v, s, D, q),
         Abre(D) \in Vistos(v) => Doble(e, Abre(D))
  PROVE  EnOrden(d, e, v \cup {D}, q)
<1> DEFINE n == Len(s)
           b == Abre(D)
<1>0. n = Len(s)
  OBVIOUS
<1> HIDE DEF n
<1>1. /\ n \in Nat \ {0} /\ DOMAIN s = 1 .. n /\ DOMAIN q = 1 .. n + 1
      /\ \A k \in DOMAIN s : k \in DOMAIN q /\ q[k] = s[k]
      /\ Expande(q[n + 1], D)
  BY <1>0, MeteQue
<1>2. q[n + 1].archivo = b /\ 1 \in DOMAIN s
  BY <1>1 DEF Expande
<1>3. Colocada(d, e, s) /\ Superada(e, s) /\ Agotada(d, v, s)
  BY DEF EnOrden
<1>4. Conserva(s, q, {})
  BY ConservaMete
<1>5. \A l \in Lugares(q) : \E x \in Lugares(s) : En(s, x) = En(q, l)
  BY <1>4, LugarViejo
<1>6. s[1].archivo = Abre(e)
  BY DEF Cadena, Expande
<1>7. \A k \in DOMAIN q : (k \in DOMAIN s /\ q[k] = s[k]) \/ k = n + 1
  BY <1>1
<1> HIDE DEF b
<1>8. Colocada(d, e, q)
  <2>1. PICK h : Lleva(s, q, {}, h)
    BY <1>4 DEF Conserva
  <2>2. ASSUME NEW l \in Lugares(q), NEW m \in Lugares(q)
        PROVE  Precede(d, e, En(q, l), En(q, m), l = m, Antes(l, m))
    <3>1. l \in Lugares(q) \ {} /\ m \in Lugares(q) \ {}
      OBVIOUS
    <3> QED BY <1>3, <2>1, <3>1, OrdenViejo
  <2> QED BY <2>2 DEF Colocada
<1>9. Superada(e, q)
  <2>1. ASSUME NEW l \in Lugares(q), NEW k \in DOMAIN q, En(q, l).archivo = q[k].archivo,
               ~Doble(e, q[k].archivo)
        PROVE  En(q, l).pos < q[k].pos
    <3>1. PICK x \in Lugares(s) : En(s, x) = En(q, l)
      BY <1>5
    <3>2. CASE k \in DOMAIN s /\ q[k] = s[k]
      BY <1>3, <2>1, <3>1, <3>2 DEF Superada
    <3>3. CASE k = n + 1
      <4>1. En(s, x).archivo \in Vistos(v)
        BY <3>1 DEF Dicha
      <4>2. b \in Vistos(v) /\ ~Doble(e, b)
        BY <1>2, <2>1, <3>1, <3>3, <4>1
      <4> QED BY <4>2 DEF b
    <3> QED BY <1>7, <3>2, <3>3
  <2> QED BY <2>1 DEF Superada
<1>10. Agotada(d, v \cup {D}, q)
  <2>1. ASSUME NEW l \in Lugares(q), NEW a \in Abribles(d), Tras(d, a, En(q, l))
        PROVE  a \in Vistos(v \cup {D}) /\ \A k \in DOMAIN q : q[k].archivo # a
    <3>1. PICK x \in Lugares(s) : En(s, x) = En(q, l)
      BY <1>5
    <3>2. a \in Vistos(v) /\ \A k \in DOMAIN s : s[k].archivo # a
      BY <1>3, <2>1, <3>1 DEF Agotada
    <3>3. a # b
      <4>1. SUFFICES ASSUME a = b PROVE FALSE
        OBVIOUS
      <4>2. a = Abre(e)
        BY <3>2, <4>1 DEF Doble, b
      <4> QED BY <1>2, <1>6, <3>2, <4>2
    <3> QED BY <1>2, <1>7, <3>2, <3>3 DEF Vistos
  <2> QED BY <2>1 DEF Agotada
<1> QED BY <1>8, <1>9, <1>10 DEF EnOrden

-----------------------------------------------------------------------------
(* A single text.                                                           *)

(* The file b, met and read, is known by its text; or may be expanded twice.*)
Conocido(e, v, b) ==
  \E z \in Seq(Nombre) : b = Abre(Base(e)) \o z /\ (Texto(e, z) \in v \/ Doble(e, b))
Conocidos(d, e, v) == \A b \in Vistos(v) \cap Abribles(d) : Conocido(e, v, b)

(* The entry.                                                              *)
LEMMA ConocidaLaEntrada ==
  ASSUME NEW d \in Discos, NEW e \in Principales
  PROVE  Conocidos(d, e, {Absoluta(e)})
<1> DEFINE v == {Absoluta(e)}
           c == Llamar(Abre(e), Padre(e))
<1>1. EsMarco(d, e, v, c, 1)
  BY EntradaMarco
<1>2. c.archivo = Abre(e)
  BY DEF Llamar
<1> HIDE DEF c, v
<1>3. PICK z \in Seq(Nombre) : Abre(e) = Abre(Base(e)) \o z /\ (~e.absoluta \/ Texto(e, z) \in v)
  BY <1>1, <1>2 DEF EsMarco
<1>4. Conocido(e, v, Abre(e))
  BY <1>3 DEF Conocido, Doble
<1>5. Vistos(v) = {Abre(e)}
  BY TextoDado DEF Vistos, v
<1> QED BY <1>4, <1>5 DEF Conocidos, v

(* A text more, that of the file it opens if it can be read.                *)
LEMMA ConocidosCrecen ==
  ASSUME NEW d, NEW e, NEW v, Conocidos(d, e, v), NEW D, Abre(D) \in Abribles(d) => ConSuTexto(e, D)
  PROVE  Conocidos(d, e, v \cup {D})
<1>1. SUFFICES ASSUME NEW b \in Vistos(v \cup {D}), b \in Abribles(d) PROVE Conocido(e, v \cup {D}, b)
  BY DEF Conocidos
<1>2. CASE b \in Vistos(v)
  <2>1. Conocido(e, v, b)
    BY <1>1, <1>2 DEF Conocidos
  <2> QED BY <2>1 DEF Conocido
<1>3. CASE b = Abre(D)
  <2>1. ConSuTexto(e, D)
    BY <1>1, <1>3
  <2>2. PICK z \in Seq(Nombre) : D = Texto(e, z) /\ Abre(D) = Abre(Base(e)) \o z
    BY <2>1 DEF ConSuTexto
  <2>3. Texto(e, z) \in v \cup {D}
    BY <2>2
  <2> QED BY <1>3, <2>2, <2>3 DEF Conocido
<1> QED BY <1>1, <1>2, <1>3 DEF Vistos

(* A text not met of a file met.                                           *)
LEMMA ConocidoRepetido ==
  ASSUME NEW d, NEW e \in Principales, NEW v, Conocidos(d, e, v), NEW D, ConSuTexto(e, D), D \notin v,
         Abre(D) \in Abribles(d), Abre(D) \in Vistos(v)
  PROVE  Doble(e, Abre(D))
<1> DEFINE a == Abre(Base(e))
<1>1. PICK z \in Seq(Nombre) : D = Texto(e, z) /\ Abre(D) = a \o z
  BY DEF ConSuTexto
<1>2. PICK y \in Seq(Nombre) : Abre(D) = a \o y /\ (Texto(e, y) \in v \/ Doble(e, Abre(D)))
  BY DEF Conocidos, Conocido
<1>3. a \in Seq(Nombre)
  BY AbreTexto
<1> HIDE DEF a
<1>4. y = z
  <2>1. a \o y = a \o z
    BY <1>1, <1>2
  <2>2. \A p, q \in Seq(Nombre) : a \o p = a \o q => p = q
    BY <1>3, Cancelar
  <2> QED BY <2>1, <2>2
<1> QED BY <1>1, <1>2, <1>4

-----------------------------------------------------------------------------
(* The circle of relative includes with "." or "..".                        *)

(* A set of numbers with a bound has a greatest one.                        *)
LEMMA HayMayor ==
  ASSUME NEW T, T \subseteq Nat, NEW N \in Nat, \A x \in T : x <= N, NEW a \in T
  PROVE  \E x \in T : \A y \in T : y <= x
<1> DEFINE P == {k \in Nat : \E x \in T : k <= x}
<1>1. SUFFICES ASSUME \A x \in T : \E y \in T : ~(y <= x) PROVE FALSE
  OBVIOUS
<1>2. 0 \in P
  <2>1. a \in Nat /\ 0 <= a
    OBVIOUS
  <2> QED BY <2>1
<1>3. ASSUME NEW k \in Nat, k \in P
      PROVE  k + 1 \in P
  <2>1. PICK x \in T : k <= x
    BY <1>3
  <2>2. PICK y \in T : ~(y <= x)
    BY <1>1
  <2>3. k + 1 <= y /\ k + 1 \in Nat
    <3>1. x \in Nat /\ y \in Nat
      OBVIOUS
    <3> QED BY <2>1, <2>2, <3>1
  <2> QED BY <2>3
<1>4. \A k \in Nat : k \in P
  <2> HIDE DEF P
  <2> QED BY <1>2, <1>3, PorNumeros
<1>5. N + 1 \in P
  BY <1>4
<1>6. PICK x \in T : N + 1 <= x
  BY <1>5
<1>7. x \in Nat /\ x <= N
  BY <1>6
<1> QED BY <1>6, <1>7

(* When the expansion ends, a relative include of an expanded text leads to *)
(* an expanded text that is no shorter, longer if the include has dots; or  *)
(* else from an absolute text to the relative one of the entry.             *)
LEMMA Crece ==
  ASSUME NEW d \in Discos, NEW e \in Principales, NEW v, NEW s, Cadena(d, e, v, s),
         NEW D \in Expandidos(e, v), Abre(D) \in Abribles(d), NEW p \in Inclusiones(d, Abre(D)),
         ~Mod(d, <<Abre(D), p>>).absoluta,
         Dividir(Padre(D), Mod(d, <<Abre(D), p>>)) \in v
  PROVE  \E x \in Expandidos(e, v) :
           /\ Abre(x) = Incluye(d, <<Abre(D), p>>)
           /\ \/ /\ x.absoluta = D.absoluta /\ Len(D.segs) <= Len(x.segs)
                 /\ ~Limpia(Mod(d, <<Abre(D), p>>)) => Len(D.segs) < Len(x.segs)
              \/ D.absoluta /\ ~x.absoluta
<1> DEFINE m == Mod(d, <<Abre(D), p>>)
           x == Dividir(Padre(D), m)
<1>1. /\ m \in Incluibles /\ x \in Textos /\ Abre(x) = Incluye(d, <<Abre(D), p>>)
  BY IncluyeTexto
<1>2. D \in Textos
  BY ExpandidoEs
<1>3. x.absoluta = D.absoluta /\ Len(x.segs) = Len(D.segs) - 1 + Len(m.segs)
  BY <1>1, <1>2, TextoSigue
<1>4. Len(D.segs) \in Nat \ {0} /\ Len(m.segs) \in Nat \ {0} /\ (~Limpia(m) => Len(m.segs) > 1)
  <2>1. m \in Textos /\ (~Limpia(m) => Len(m.segs) > 1)
    BY <1>1, TextoDado
  <2> QED BY <1>2, <2>1, TextoPartido
<1>5. x \in v
  OBVIOUS
<1> HIDE DEF m, x
<1>6. Len(D.segs) <= Len(x.segs) /\ (~Limpia(m) => Len(D.segs) < Len(x.segs))
  <2> DEFINE a == Len(D.segs)
             b == Len(m.segs)
             z == Len(x.segs)
  <2>1. a \in Nat \ {0} /\ b \in Nat \ {0} /\ z = a - 1 + b /\ (~Limpia(m) => b > 1)
    BY <1>3, <1>4
  <2> HIDE DEF a, b, z
  <2>2. a <= z /\ (b > 1 => a < z)
    BY <2>1
  <2> QED BY <2>1, <2>2 DEF a, z
<1>7. CASE x \in Expandidos(e, v)
  BY <1>1, <1>3, <1>6, <1>7 DEF m
<1>8. CASE x \notin Expandidos(e, v)
  <2>1. x = Absoluta(e) /\ x # e
    BY <1>5, <1>8 DEF Expandidos
  <2>2. x.absoluta /\ Abre(x) = Abre(e) /\ ~e.absoluta
    <3>1. /\ Abre(Absoluta(e)) = Abre(e) /\ Absoluta(e).absoluta
          /\ e.absoluta => Absoluta(e) = e
      BY TextoDado
    <3> QED BY <2>1, <3>1
  <2>3. e \in Expandidos(e, v)
    BY DEF Expandidos
  <2> QED BY <1>1, <1>3, <2>2, <2>3
<1> QED BY <1>7, <1>8

(* When the expansion ends, there is no such circle.                        *)
LEMMA SinCirculoAlFinal ==
  ASSUME NEW d \in Discos, NEW e \in Principales, NEW v, NEW s \in Seq(Llamada), Camino(d, e, v, s),
         DOMAIN s = {1}, s[1].pos \in Nat, Len(d[s[1].archivo].sents) < s[1].pos
  PROVE  ~CirculoConPuntos(d, e)
<1> DEFINE E == Expandidos(e, v)
           A == Abribles(d)
<1>1. Cadena(d, e, v, s) /\ Recorrida(d, e, v, s)
  BY DEF Camino
<1>2. SUFFICES ASSUME NEW c \in ConPuntos(d, e) \cap Relativos(d),
                      c[1] \in Alcanza(d, Relativos(d), Incluye(d, c))
               PROVE  FALSE
  BY DEF CirculoConPuntos
(* Everything expanded has had its includes met.                            *)
<1>3. ASSUME NEW D \in E, Abre(D) \in A, NEW p \in Inclusiones(d, Abre(D))
      PROVE  Dividir(Padre(D), Mod(d, <<Abre(D), p>>)) \in v
  <2>1. \/ Dividir(Padre(D), Mod(d, <<Abre(D), p>>)) \in v
        \/ \E k \in DOMAIN s : Expande(s[k], D) /\ s[k].pos <= p
    BY <1>1, <1>3 DEF Recorrida
  <2>2. ASSUME Expande(s[1], D), s[1].pos <= p PROVE FALSE
    <3>1. s[1].archivo = Abre(D)
      BY <2>2 DEF Expande
    <3>2. p \in Nat /\ p <= Len(d[Abre(D)].sents) /\ Len(d[Abre(D)].sents) \in Nat
      BY <1>3, LugarDe DEF Abribles
    <3> DEFINE L == Len(d[Abre(D)].sents)
               x == s[1].pos
    <3>3. L \in Nat /\ x \in Nat /\ p \in Nat /\ p <= L /\ L < x /\ x <= p
      BY <2>2, <3>1, <3>2
    <3> HIDE DEF L, x
    <3> QED BY <3>3
  <2> QED BY <2>1, <2>2
<1>4. ASSUME NEW D \in E, Abre(D) \in A, NEW p \in Inclusiones(d, Abre(D)), ~Mod(d, <<Abre(D), p>>).absoluta
      PROVE  \E x \in E : /\ Abre(x) = Incluye(d, <<Abre(D), p>>)
                          /\ \/ /\ x.absoluta = D.absoluta /\ Len(D.segs) <= Len(x.segs)
                                /\ ~Limpia(Mod(d, <<Abre(D), p>>)) => Len(D.segs) < Len(x.segs)
                             \/ D.absoluta /\ ~x.absoluta
  BY <1>1, <1>3, <1>4, Crece
<1>5. \A y \in Relativos(d) : /\ y = <<y[1], y[2]>> /\ y[1] \in A /\ y[2] \in Inclusiones(d, y[1])
                              /\ ~Mod(d, y).absoluta
  BY DEF Relativos, Pasos
<1>6. c \in Relativos(d) /\ c[1] \in Alcanzados(d, e) /\ ~Limpia(Mod(d, c))
  BY DEF ConPuntos, Pasados
<1>7. c[1] \in Vistos(v) /\ c[1] \in A
  BY <1>6, AlFinal
(* The texts of its file, the relative ones if there are any.               *)
<1> DEFINE R == {D \in E : Abre(D) = c[1]}
           Q == IF \E D \in R : ~D.absoluta THEN {D \in R : ~D.absoluta} ELSE R
           T == {Len(D.segs) : D \in Q}
<1>8. \A D \in E : D \in Textos /\ D.absoluta \in BOOLEAN /\ Len(D.segs) \in Nat
  <2>1. \A D \in E : D \in Textos
    BY <1>1, ExpandidoEs
  <2> QED BY <2>1, TextoPartido
<1>9. Q # {} /\ Q \subseteq R /\ R \subseteq E
  <2>1. \E D \in E : Abre(D) = c[1]
    BY <1>7, VistoExpandido
  <2> QED BY <2>1
<1>10. \E N \in Nat : \A x \in T : x <= N
  <2>1. PICK N \in Nat : \A D \in v : Len(D.segs) <= N
    BY <1>1 DEF Cadena
  <2> DEFINE n == Len(e.segs)
             M == N + n
  <2>2. n \in Nat
    <3>1. e \in Textos
      BY TextoDado
    <3> QED BY <3>1, TextoPartido
  <2> HIDE DEF n
  <2>3. \A D \in E : Len(D.segs) <= M
    <3>1. ASSUME NEW D \in E PROVE Len(D.segs) <= M
      <4>1. Len(D.segs) \in Nat /\ (Len(D.segs) <= N \/ Len(D.segs) = n)
        BY <1>8, <2>1 DEF Expandidos, n
      <4> QED BY <2>2, <4>1
    <3> QED BY <3>1
  <2>4. M \in Nat
    BY <2>2
  <2> HIDE DEF M
  <2> QED BY <1>9, <2>3, <2>4
<1>11. PICK D0 \in Q : \A D \in Q : Len(D.segs) <= Len(D0.segs)
  <2>1. T \subseteq Nat /\ T # {}
    <3>1. \A D \in Q : Len(D.segs) \in Nat
      BY <1>8, <1>9
    <3>2. Q # {}
      BY <1>9
    <3> HIDE DEF Q
    <3> QED BY <3>1, <3>2
  <2>2. \E x \in T : \A y \in T : y <= x
    <3> HIDE DEF T
    <3> QED BY <1>10, <2>1, HayMayor
  <2> QED BY <2>2
(* What is reached from it by relative includes has a text that is better.  *)
<1> DEFINE n == Len(D0.segs)
           t == D0.absoluta
           Mejor(D) == (D.absoluta /\ t /\ n < Len(D.segs)) \/ (~D.absoluta /\ (t \/ n < Len(D.segs)))
           H == {b \in A : \E D \in E : Abre(D) = b /\ Mejor(D)}
<1>12. D0 \in E /\ Abre(D0) = c[1] /\ n \in Nat /\ t \in BOOLEAN
  BY <1>8, <1>9
<1>13. ASSUME NEW D \in E, NEW x \in E, Mejor(D),
              \/ x.absoluta = D.absoluta /\ Len(D.segs) <= Len(x.segs)
              \/ D.absoluta /\ ~x.absoluta
       PROVE  Mejor(x)
  <2>1. Len(D.segs) \in Nat /\ Len(x.segs) \in Nat
    BY <1>8
  <2>2. n < Len(D.segs) /\ Len(D.segs) <= Len(x.segs) => n < Len(x.segs)
    <3> DEFINE i == Len(D.segs)
               j == Len(x.segs)
    <3> HIDE DEF n, i, j
    <3>1. i \in Nat /\ j \in Nat /\ n \in Nat
      BY <1>12, <2>1 DEF i, j
    <3>2. n < i /\ i <= j => n < j
      BY <3>1
    <3> QED BY <3>2 DEF i, j
  <2> HIDE DEF n, t
  <2> QED BY <1>13, <2>2
<1>14. ASSUME Incluye(d, c) \in A
       PROVE  Incluye(d, c) \in H
  <2> DEFINE p == c[2]
  <2>1. c = <<Abre(D0), p>> /\ p \in Inclusiones(d, Abre(D0)) /\ Abre(D0) \in A /\ ~Mod(d, <<Abre(D0), p>>).absoluta
    BY <1>5, <1>6, <1>12
  <2>2. PICK x \in E : /\ Abre(x) = Incluye(d, <<Abre(D0), p>>)
                       /\ \/ /\ x.absoluta = D0.absoluta /\ Len(D0.segs) <= Len(x.segs)
                             /\ ~Limpia(Mod(d, <<Abre(D0), p>>)) => Len(D0.segs) < Len(x.segs)
                          \/ D0.absoluta /\ ~x.absoluta
    BY <1>4, <1>12, <2>1
  <2>3. ~Limpia(Mod(d, <<Abre(D0), p>>)) /\ Abre(x) = Incluye(d, c)
    BY <1>6, <2>1, <2>2
  <2>4. (x.absoluta = t /\ n < Len(x.segs)) \/ (t /\ ~x.absoluta)
    BY <2>2, <2>3
  <2>5. Mejor(x)
    <3> HIDE DEF n, t
    <3> QED BY <2>4, <1>8
  <2> HIDE DEF Mejor
  <2> QED BY <1>14, <2>3, <2>5
<1>15. ASSUME NEW y \in Relativos(d), y[1] \in H, Incluye(d, y) \in A
       PROVE  Incluye(d, y) \in H
  <2>1. PICK D \in E : Abre(D) = y[1] /\ Mejor(D)
    BY <1>15
  <2> HIDE DEF Mejor
  <2> DEFINE p == y[2]
  <2>2. y = <<Abre(D), p>> /\ p \in Inclusiones(d, Abre(D)) /\ Abre(D) \in A /\ ~Mod(d, <<Abre(D), p>>).absoluta
    BY <1>5, <1>15, <2>1
  <2>3. PICK x \in E : /\ Abre(x) = Incluye(d, <<Abre(D), p>>)
                       /\ \/ /\ x.absoluta = D.absoluta /\ Len(D.segs) <= Len(x.segs)
                             /\ ~Limpia(Mod(d, <<Abre(D), p>>)) => Len(D.segs) < Len(x.segs)
                          \/ D.absoluta /\ ~x.absoluta
    BY <1>4, <2>2
  <2>4. Mejor(x)
    BY <1>13, <2>1, <2>3
  <2>5. Abre(x) = Incluye(d, y)
    BY <2>2, <2>3
  <2> QED BY <1>15, <2>4, <2>5
<1>16. c[1] \in H
  <2>1. H \subseteq A
    OBVIOUS
  <2> HIDE DEF H
  <2>2. Alcanza(d, Relativos(d), Incluye(d, c)) \subseteq H
    BY <1>14, <1>15, <2>1, AlcanzaMinimo
  <2> QED BY <1>2, <2>2
<1>17. PICK D \in E : Abre(D) = c[1] /\ Mejor(D)
  BY <1>16
<1>18. D \in R /\ Len(D.segs) \in Nat
  BY <1>8, <1>17
<1>19. CASE D \in Q
  <2>1. Len(D.segs) <= n /\ Len(D.segs) \in Nat /\ n \in Nat
    BY <1>11, <1>12, <1>18, <1>19
  <2>2. ~D.absoluta /\ t
    <3> HIDE DEF n, t
    <3> QED BY <1>17, <2>1
  <2>3. D0 \in {x \in R : ~x.absoluta}
    BY <1>18, <2>2
  <2> QED BY <2>2, <2>3
<1>20. CASE D \notin Q
  <2>1. D.absoluta /\ \E x \in R : ~x.absoluta
    BY <1>8, <1>18, <1>20
  <2>2. ~t
    BY <2>1
  <2> HIDE DEF n, t
  <2> QED BY <1>17, <2>1, <2>2
<1> QED BY <1>19, <1>20

-----------------------------------------------------------------------------
(* The length of the stack.                                                 *)

(* A text is told by the file it opens and by its directory.                *)
LEMMA TextoIgual ==
  ASSUME NEW r \in Textos, NEW t \in Textos, Abre(r) = Abre(t), Padre(r) = Padre(t)
  PROVE  r = t
<1>1. /\ r \in Ruta /\ Padre(r) = [absoluta |-> r.absoluta, segs |-> Front(r.segs)]
      /\ Last(Abre(r)) = Last(r.segs)
      /\ t \in Ruta /\ Padre(t) = [absoluta |-> t.absoluta, segs |-> Front(t.segs)]
      /\ Last(Abre(t)) = Last(t.segs)
  BY TextoPartido
<1>2. Padre(r).absoluta = r.absoluta /\ Padre(r).segs = Front(r.segs)
      /\ Padre(t).absoluta = t.absoluta /\ Padre(t).segs = Front(t.segs)
  <2>1. \A x : Padre(x) = [absoluta |-> x.absoluta, segs |-> Front(x.segs)]
                 => Padre(x).absoluta = x.absoluta /\ Padre(x).segs = Front(x.segs)
    OBVIOUS
  <2> QED BY <1>1, <2>1
<1>3. r.absoluta = t.absoluta /\ Front(r.segs) = Front(t.segs) /\ Last(r.segs) = Last(t.segs)
  BY <1>1, <1>2
<1>4. r.segs = Append(Front(r.segs), Last(r.segs)) /\ t.segs = Append(Front(t.segs), Last(t.segs))
  <2>1. r.segs \in Seq(STRING) /\ r.segs # <<>> /\ t.segs \in Seq(STRING) /\ t.segs # <<>>
    BY DEF Textos, Ruta
  <2> QED BY <2>1, FrenteDeSegmentos
<1>5. r.segs = t.segs
  BY <1>3, <1>4
<1> QED BY <1>1, <1>3, <1>5 DEF Ruta

(* A relative include without dots leads from a file to one that is no less *)
(* deep; if it is no deeper, the directory is the same.                     *)
LEMMA TextoLimpio ==
  ASSUME NEW r \in Textos, NEW m \in Incluibles, ~m.absoluta, Limpia(m)
  PROVE  LET D == Dividir(Padre(r), m)
         IN  /\ Len(Abre(r)) \in Nat /\ Len(Abre(D)) \in Nat /\ Len(Abre(r)) <= Len(Abre(D))
             /\ Len(Abre(r)) = Len(Abre(D)) => Padre(D) = Padre(r)
<1> DEFINE D == Dividir(Padre(r), m)
           f == Front(Abre(r))
           g == m.segs
           h == Front(r.segs)
<1>1. /\ D \in Textos /\ Abre(D) = Abre(Dividir([absoluta |-> TRUE, segs |-> f], m))
      /\ D.absoluta = r.absoluta /\ D.segs = h \o g
  BY TextoSigue
<1>2. /\ g \in Seq(Nombre) /\ g \in Seq(STRING) /\ g # <<>>
  BY RutaDada
<1>3. /\ Abre(r) \in Seq(Nombre) /\ Abre(r) # <<>> /\ h \in Seq(STRING)
      /\ Padre(r) = [absoluta |-> r.absoluta, segs |-> h]
  BY TextoPartido
<1>4. /\ f \in Seq(Nombre) /\ Len(f) = Len(Abre(r)) - 1 /\ Len(Abre(r)) \in Nat \ {0}
  BY <1>3, FrenteYUltimo
<1>5. Len(g) \in Nat \ {0} /\ Front(g) \in Seq(STRING) /\ Len(Front(g)) = Len(g) - 1
  BY <1>2, FrenteDeSegmentos
<1>6. Abre(D) = f \o g
  <2>1. Dividir([absoluta |-> TRUE, segs |-> f], m) = [absoluta |-> TRUE, segs |-> f \o g]
    BY DEF Dividir
  <2>2. Abre(D) = Camina(<<>>, f \o g)
    <3> DEFINE x == [absoluta |-> TRUE, segs |-> f \o g]
    <3>1. x.absoluta /\ x.segs = f \o g /\ Abre(D) = Abre(x)
      BY <1>1, <2>1
    <3> HIDE DEF x, D
    <3>2. Abre(x) = Camina(<<>>, x.segs)
      BY <3>1 DEF Abre
    <3> QED BY <3>1, <3>2
  <2>3. <<>> \in Seq(Nombre)
    OBVIOUS
  <2> HIDE DEF f, g, D
  <2>4. f \o g \in Seq(Nombre)
    <3> DEFINE W == Nombre
    <3>1. f \in Seq(W) /\ g \in Seq(W)
      BY <1>2, <1>4
    <3> HIDE DEF W
    <3>2. f \o g \in Seq(W)
      BY <3>1, Juntar
    <3> QED BY <3>2 DEF W
  <2>5. Camina(<<>>, f \o g) = <<>> \o (f \o g)
    BY <2>3, <2>4, CaminaPorNombres
  <2>6. <<>> \o (f \o g) = f \o g
    <3> DEFINE W == Nombre
    <3>1. f \in Seq(W) /\ g \in Seq(W)
      BY <1>2, <1>4
    <3> HIDE DEF W
    <3>2. f \o g \in Seq(W)
      BY <3>1, Juntar
    <3> QED BY <3>2, Juntar
  <2> QED BY <2>2, <2>5, <2>6
<1> DEFINE lr == Len(Abre(r))
           ld == Len(Abre(D))
           lg == Len(g)
<1>7. ld = lr - 1 + lg /\ lr \in Nat \ {0} /\ lg \in Nat \ {0}
  <2> DEFINE W == Nombre
  <2>1. f \in Seq(W) /\ g \in Seq(W)
    BY <1>2, <1>4
  <2> HIDE DEF W, f, g, D
  <2>2. Len(f \o g) = Len(f) + Len(g)
    BY <2>1, Juntar
  <2> QED BY <1>4, <1>5, <1>6, <2>2
<1>8. ASSUME lr = ld
      PROVE  Padre(D) = Padre(r)
  <2> HIDE DEF lr, ld, lg
  <2>1. lg = 1
    BY <1>7, <1>8
  <2>2. Front(g) = <<>>
    <3> DEFINE z == Front(g)
    <3>1. Len(z) = 0 /\ z \in Seq(STRING)
      BY <1>5, <2>1 DEF lg
    <3> HIDE DEF z
    <3>2. z = <<>>
      BY <3>1, EmptySeq
    <3> QED BY <3>2 DEF z
  <2>3. Front(h \o g) = h
    <3> DEFINE W == STRING
    <3>1. h \in Seq(W) /\ g \in Seq(W) /\ g # <<>>
      BY <1>2, <1>3
    <3> HIDE DEF W, h, g
    <3>2. Front(h \o g) = h \o Front(g) /\ h \o <<>> = h
      BY <3>1, Juntar
    <3> QED BY <2>2, <3>2
  <2>4. Padre(D) = [absoluta |-> D.absoluta, segs |-> Front(D.segs)]
    BY <1>1, TextoPartido
  <2> QED BY <1>1, <1>3, <2>3, <2>4
<1>9. lr \in Nat /\ ld \in Nat /\ lr <= ld
  <2> HIDE DEF lr, ld, lg
  <2> QED BY <1>7
<1> QED BY <1>8, <1>9

(* What a call waits for: the path of the include.                         *)
Con(d, s, k) == Mod(d, <<s[k].archivo, s[k].pos>>)

(* Two calls, one on the other.                                            *)
LEMMA PasoDePila ==
  ASSUME NEW d \in Discos, NEW e \in Principales, NEW v, NEW s, Cadena(d, e, v, s),
         NEW k \in DOMAIN s, k + 1 \in DOMAIN s
  PROVE  LET c == <<s[k].archivo, s[k].pos>>
             D == Pide(d, s, k)
         IN  /\ c \in Pasados(d, e) /\ c \in Pasos(d) /\ Con(d, s, k) \in Incluibles
             /\ s[k + 1].archivo = Incluye(d, c) /\ s[k + 1].archivo \in Abribles(d)
             /\ D \in Textos /\ s[k + 1].archivo = Abre(D) /\ s[k + 1].dirBase = Padre(D)
             /\ \A j \in DOMAIN s : j < k => Pide(d, s, j) # D
             /\ Con(d, s, k).absoluta => D = Con(d, s, k)
             /\ ~Con(d, s, k).absoluta /\ Limpia(Con(d, s, k)) =>
                  /\ Len(s[k].archivo) \in Nat /\ Len(s[k + 1].archivo) \in Nat
                  /\ Len(s[k].archivo) <= Len(s[k + 1].archivo)
                  /\ Len(s[k].archivo) = Len(s[k + 1].archivo) => s[k + 1].dirBase = s[k].dirBase
<1> DEFINE c == <<s[k].archivo, s[k].pos>>
           D == Pide(d, s, k)
           m == Con(d, s, k)
<1>1. /\ s[k].pos \in Inclusiones(d, s[k].archivo) /\ Expande(s[k + 1], D)
      /\ \A j \in DOMAIN s : j < k => Pide(d, s, j) # D
  BY DEF Cadena
<1>2. /\ m \in Incluibles /\ D \in Textos /\ Abre(D) = Incluye(d, c) /\ c \in Pasos(d) /\ c \in Pasados(d, e)
  BY <1>1, PideBien DEF Pide, Con
<1>3. s[k + 1].archivo \in Abribles(d)
  BY DEF Cadena, Expande
<1>4. PICK r \in Expandidos(e, v) : Expande(s[k], r)
  BY DEF Cadena
<1>5. r \in Textos /\ D = Dividir(Padre(r), m) /\ s[k].archivo = Abre(r) /\ s[k].dirBase = Padre(r)
  BY <1>4, ExpandidoEs DEF Expande, Pide, PideEn, Con
<1>6. m.absoluta => D = m
  BY <1>2, <1>5, TextoSigue
<1>7. s[k + 1].archivo = Abre(D) /\ s[k + 1].dirBase = Padre(D)
  BY <1>1 DEF Expande
<1>8. ASSUME ~m.absoluta, Limpia(m)
      PROVE  /\ Len(s[k].archivo) \in Nat /\ Len(s[k + 1].archivo) \in Nat
             /\ Len(s[k].archivo) <= Len(s[k + 1].archivo)
             /\ Len(s[k].archivo) = Len(s[k + 1].archivo) => s[k + 1].dirBase = s[k].dirBase
  <2> HIDE DEF m, D
  <2>1. LET x == Dividir(Padre(r), m)
        IN  /\ Len(Abre(r)) \in Nat /\ Len(Abre(x)) \in Nat /\ Len(Abre(r)) <= Len(Abre(x))
            /\ Len(Abre(r)) = Len(Abre(x)) => Padre(x) = Padre(r)
    BY <1>2, <1>5, <1>8, TextoLimpio
  <2> QED BY <1>5, <1>7, <2>1
<1> HIDE DEF m, D, c
<1>9. /\ c \in Pasados(d, e) /\ c \in Pasos(d) /\ m \in Incluibles
      /\ s[k + 1].archivo = Incluye(d, c) /\ s[k + 1].archivo \in Abribles(d)
      /\ D \in Textos /\ s[k + 1].archivo = Abre(D) /\ s[k + 1].dirBase = Padre(D)
      /\ \A j \in DOMAIN s : j < k => Pide(d, s, j) # D
      /\ m.absoluta => D = m
  BY <1>1, <1>2, <1>3, <1>6, <1>7
<1> QED BY <1>8, <1>9 DEF c, D, m

(* The calls from j to k, each by a relative include of the one under it.   *)
Relativa(d, s, j, k) == j \in DOMAIN s /\ k \in DOMAIN s /\ j <= k /\ \A i \in j .. k - 1 : ~Con(d, s, i).absoluta

(* What relative includes reach.                                           *)
LEMMA SubeRelativa ==
  ASSUME NEW d \in Discos, NEW e \in Principales, NEW v, NEW s, Cadena(d, e, v, s), NEW n \in Nat, DOMAIN s = 1 .. n,
         NEW j, NEW k, Relativa(d, s, j, k), NEW X, s[j].archivo \in X,
         \A y \in Relativos(d) : y[1] \in X /\ Incluye(d, y) \in Abribles(d) => Incluye(d, y) \in X
  PROVE  s[k].archivo \in X
<1> DEFINE T == {m \in Nat : j + m <= k => s[j + m].archivo \in X}
<1>0. j \in Nat /\ k \in Nat /\ j >= 1 /\ k <= n /\ j <= k
  BY DEF Relativa
<1>1. 0 \in T
  <2>1. j + 0 = j
    BY <1>0
  <2> QED BY <2>1
<1>2. ASSUME NEW m \in Nat, m \in T
      PROVE  m + 1 \in T
  <2>1. SUFFICES ASSUME j + (m + 1) <= k PROVE s[j + (m + 1)].archivo \in X
    OBVIOUS
  <2> DEFINE i == j + m
  <2>2. i \in Nat /\ i \in DOMAIN s /\ i + 1 \in DOMAIN s /\ i \in j .. k - 1 /\ j + (m + 1) = i + 1 /\ i <= k
    BY <1>0, <2>1
  <2>3. s[i].archivo \in X
    BY <1>2, <2>2
  <2> HIDE DEF i
  <2> DEFINE y == <<s[i].archivo, s[i].pos>>
  <2>4. y \in Pasos(d) /\ s[i + 1].archivo = Incluye(d, y) /\ s[i + 1].archivo \in Abribles(d)
    <3>1. i \in DOMAIN s /\ i + 1 \in DOMAIN s
      BY <2>2
    <3> HIDE DEF T
    <3> QED BY <3>1, PasoDePila
  <2>5. ~Mod(d, y).absoluta
    BY <2>2 DEF Relativa, Con
  <2>6. y[1] \in X
    BY <2>3
  <2> HIDE DEF y
  <2>7. y \in Relativos(d)
    BY <2>4, <2>5 DEF Relativos
  <2>8. s[i + 1].archivo \in X
    BY <2>4, <2>6, <2>7
  <2> QED BY <2>2, <2>8
<1>3. \A m \in Nat : m \in T
  <2> HIDE DEF T
  <2> QED BY <1>1, <1>2, PorNumeros
<1>4. k - j \in Nat /\ j + (k - j) = k
  BY <1>0
<1>5. k - j \in T
  <2> HIDE DEF T
  <2> QED BY <1>3, <1>4
<1> QED BY <1>0, <1>4, <1>5

(* The text of a call.                                                     *)
LEMMA TextoDePila ==
  ASSUME NEW d \in Discos, NEW e \in Principales, NEW v, NEW s, Cadena(d, e, v, s),
         NEW k \in DOMAIN s, k + 1 \in DOMAIN s, NEW D, D = Pide(d, s, k)
  PROVE  /\ D \in Textos /\ s[k + 1].archivo = Abre(D) /\ s[k + 1].dirBase = Padre(D)
         /\ \A j \in DOMAIN s : j < k => Pide(d, s, j) # D
<1>1. /\ v \subseteq Textos /\ D \in v /\ Expande(s[k + 1], D)
      /\ \A j \in DOMAIN s : j < k => Pide(d, s, j) # D
  BY DEF Cadena
<1> QED BY <1>1 DEF Expande

(* Of two calls of the same file, with relative includes between them, one  *)
(* of them with dots: a circle.                                            *)
LEMMA CirculoEnPila ==
  ASSUME NEW d \in Discos, NEW e \in Principales, NEW v, NEW s, Cadena(d, e, v, s), NEW n \in Nat, DOMAIN s = 1 .. n,
         NEW j, NEW k, Relativa(d, s, j, k), s[j].archivo = s[k].archivo,
         NEW i \in j .. k - 1, ~Limpia(Con(d, s, i))
  PROVE  CirculoConPuntos(d, e)
<1> DEFINE c == <<s[i].archivo, s[i].pos>>
           X == Alcanza(d, Relativos(d), Incluye(d, c))
<1>0. /\ j \in Nat /\ k \in Nat /\ i \in Nat /\ j >= 1 /\ k <= n /\ j <= k /\ j <= i /\ i + 1 <= k
      /\ i \in DOMAIN s /\ i + 1 \in DOMAIN s /\ j \in DOMAIN s /\ k \in DOMAIN s
  BY DEF Relativa
<1>1. /\ c \in Pasados(d, e) /\ c \in Pasos(d) /\ s[i + 1].archivo = Incluye(d, c)
      /\ s[i + 1].archivo \in Abribles(d)
  <2>1. i \in DOMAIN s /\ i + 1 \in DOMAIN s
    BY <1>0
  <2> QED BY <2>1, PasoDePila
<1>2. ~Mod(d, c).absoluta /\ ~Limpia(Mod(d, c)) /\ c[1] = s[i].archivo
  BY DEF Relativa, Con
<1> HIDE DEF c
<1>3. /\ Incluye(d, c) \in X
      /\ \A y \in Relativos(d) : y[1] \in X /\ Incluye(d, y) \in Abribles(d) => Incluye(d, y) \in X
  BY <1>1, AlcanzaCerrado
<1> HIDE DEF X
<1>4. s[k].archivo \in X
  <2>1. Relativa(d, s, i + 1, k)
    BY <1>0 DEF Relativa
  <2> QED BY <1>1, <1>3, <2>1, SubeRelativa
<1>5. s[i].archivo \in X
  <2>1. Relativa(d, s, j, i)
    BY <1>0 DEF Relativa
  <2>2. s[j].archivo \in X
    BY <1>4
  <2> QED BY <1>3, <2>1, <2>2, SubeRelativa
<1>6. c \in ConPuntos(d, e) /\ c \in Relativos(d) /\ c[1] \in X
  BY <1>1, <1>2, <1>5 DEF ConPuntos, Relativos
<1> QED BY <1>6 DEF CirculoConPuntos, X

(* Of two calls, with relative includes without dots between them, the one  *)
(* above is no less deep; if it is no deeper, its directory is the same.    *)
LEMMA SubeLimpia ==
  ASSUME NEW d \in Discos, NEW e \in Principales, NEW v, NEW s, Cadena(d, e, v, s), NEW n \in Nat, DOMAIN s = 1 .. n,
         NEW j, NEW k, Relativa(d, s, j, k), \A i \in j .. k - 1 : Limpia(Con(d, s, i)),
         s[j].archivo = s[k].archivo
  PROVE  s[j].dirBase = s[k].dirBase
<1> DEFINE L(i) == Len(s[i].archivo)
           T == {m \in Nat : j + m <= k => /\ L(j) <= L(j + m)
                                           /\ L(j) = L(j + m) => s[j + m].dirBase = s[j].dirBase}
<1>0. j \in Nat /\ k \in Nat /\ j >= 1 /\ k <= n /\ j <= k
  BY DEF Relativa
<1>1. \A i \in DOMAIN s : L(i) \in Nat
  <2>1. \A i \in DOMAIN s : s[i].archivo \in Seq(Nombre)
    <3>1. \A i \in DOMAIN s : s[i].archivo \in Archivos
      BY DEF Cadena, Expande, Abribles
    <3> QED BY <3>1, ConstantesAssumption
  <2>2. \A x \in Seq(Nombre) : Len(x) \in Nat
    OBVIOUS
  <2> QED BY <2>1, <2>2
<1>2. 0 \in T
  <2>1. j + 0 = j /\ L(j) \in Nat
    BY <1>0, <1>1
  <2> HIDE DEF L
  <2> QED BY <2>1
<1>3. ASSUME NEW m \in Nat, m \in T
      PROVE  m + 1 \in T
  <2>1. SUFFICES ASSUME j + (m + 1) <= k
                 PROVE  /\ L(j) <= L(j + (m + 1))
                        /\ L(j) = L(j + (m + 1)) => s[j + (m + 1)].dirBase = s[j].dirBase
    OBVIOUS
  <2> DEFINE i == j + m
  <2>2. i \in DOMAIN s /\ i + 1 \in DOMAIN s /\ i \in j .. k - 1 /\ j + (m + 1) = i + 1 /\ i <= k /\ j \in DOMAIN s
    BY <1>0, <2>1
  <2>3. L(j) <= L(i) /\ (L(j) = L(i) => s[i].dirBase = s[j].dirBase)
    <3> HIDE DEF L
    <3> QED BY <1>3, <2>2
  <2> HIDE DEF i
  <2>4. ~Con(d, s, i).absoluta /\ Limpia(Con(d, s, i))
    BY <2>2 DEF Relativa
  <2>5. L(i) <= L(i + 1) /\ (L(i) = L(i + 1) => s[i + 1].dirBase = s[i].dirBase)
    <3>1. i \in DOMAIN s /\ i + 1 \in DOMAIN s
      BY <2>2
    <3> HIDE DEF T
    <3> QED BY <2>4, <3>1, PasoDePila
  <2>6. L(i) \in Nat /\ L(i + 1) \in Nat /\ L(j) \in Nat
    BY <1>1, <2>2
  <2> DEFINE a == L(j)
             b == L(i)
             z == L(i + 1)
  <2> HIDE DEF L, a, b, z
  <2>7. a <= z /\ (a = z => a = b /\ b = z)
    <3>1. a \in Nat /\ b \in Nat /\ z \in Nat /\ a <= b /\ b <= z
      BY <2>3, <2>5, <2>6 DEF a, b, z
    <3> QED BY <3>1
  <2>8. L(j) <= L(i + 1) /\ (L(j) = L(i + 1) => s[i + 1].dirBase = s[j].dirBase)
    BY <2>3, <2>5, <2>7 DEF a, b, z
  <2> QED BY <2>2, <2>8
<1>4. \A m \in Nat : m \in T
  <2> HIDE DEF T
  <2> QED BY <1>2, <1>3, PorNumeros
<1>5. k - j \in Nat /\ j + (k - j) = k /\ k <= k
  BY <1>0
<1> DEFINE m == k - j
<1>6. m \in T /\ j + m = k /\ k <= k
  <2> HIDE DEF T
  <2> QED BY <1>4, <1>5
<1> HIDE DEF m
<1> QED BY <1>6

(* There are no two calls of the same file, but the first, with relative    *)
(* includes between them, unless there is such a circle.                   *)
LEMMA SinRepetir ==
  ASSUME NEW d \in Discos, NEW e \in Principales, NEW v, NEW s, Cadena(d, e, v, s), NEW n \in Nat, DOMAIN s = 1 .. n,
         NEW j, NEW k, Relativa(d, s, j, k), s[j].archivo = s[k].archivo, 1 < j, j < k
  PROVE  CirculoConPuntos(d, e)
<1>0. j \in Nat /\ k \in Nat /\ k <= n
  BY DEF Relativa
<1>1. CASE \E i \in j .. k - 1 : ~Limpia(Con(d, s, i))
  BY <1>1, CirculoEnPila
<1>2. CASE \A i \in j .. k - 1 : Limpia(Con(d, s, i))
  <2> DEFINE a == j - 1
             b == k - 1
             x == Pide(d, s, a)
             y == Pide(d, s, b)
  <2>1. /\ a \in DOMAIN s /\ a + 1 \in DOMAIN s /\ b \in DOMAIN s /\ b + 1 \in DOMAIN s
        /\ a < b /\ a + 1 = j /\ b + 1 = k
    BY <1>0
  <2>2. s[j].dirBase = s[k].dirBase
    BY <1>2, SubeLimpia
  <2> HIDE DEF a, b
  <2>3. x \in Textos /\ s[a + 1].archivo = Abre(x) /\ s[a + 1].dirBase = Padre(x)
    <3>1. a \in DOMAIN s /\ a + 1 \in DOMAIN s
      BY <2>1
    <3>2. x = Pide(d, s, a)
      OBVIOUS
    <3> HIDE DEF x
    <3> QED BY <3>1, <3>2, TextoDePila
  <2>4. /\ y \in Textos /\ s[b + 1].archivo = Abre(y) /\ s[b + 1].dirBase = Padre(y)
        /\ x # y
    <3>1. b \in DOMAIN s /\ b + 1 \in DOMAIN s
      BY <2>1
    <3>2. a \in DOMAIN s /\ a < b
      BY <2>1
    <3>3. /\ y \in Textos /\ s[b + 1].archivo = Abre(y) /\ s[b + 1].dirBase = Padre(y)
          /\ \A i \in DOMAIN s : i < b => Pide(d, s, i) # y
      <4>1. y = Pide(d, s, b)
        OBVIOUS
      <4> HIDE DEF y
      <4> QED BY <3>1, <4>1, TextoDePila
    <3> QED BY <3>2, <3>3
  <2> HIDE DEF x, y
  <2>5. Abre(x) = Abre(y) /\ Padre(x) = Padre(y)
    BY <2>1, <2>2, <2>3, <2>4
  <2> QED BY <2>3, <2>4, <2>5, TextoIgual
<1> QED BY <1>1, <1>2

(* Where the text of the k-th call begins: the last absolute include at the *)
(* calls under it, or the entry.                                           *)
SinRaiz == [absoluta |-> FALSE, segs |-> <<>>]
EsRaiz(d, s, k, r) ==
  \/ r = SinRaiz /\ \A i \in 1 .. k - 1 : ~Con(d, s, i).absoluta
  \/ \E j \in 1 .. k - 1 :
       r = Con(d, s, j) /\ r.absoluta /\ \A i \in j + 1 .. k - 1 : ~Con(d, s, i).absoluta

(* It is an absolute include, or the entry.                                *)
LEMMA HayRaiz ==
  ASSUME NEW d \in Discos, NEW e \in Principales, NEW v, NEW s, Cadena(d, e, v, s), NEW n \in Nat, DOMAIN s = 1 .. n,
         NEW k \in 1 .. n
  PROVE  \E r \in Absolutas \cup {SinRaiz} : EsRaiz(d, s, k, r)
<1> DEFINE J == {i \in 1 .. k - 1 : Con(d, s, i).absoluta}
<1>1. CASE J = {}
  BY <1>1 DEF EsRaiz
<1>2. CASE J # {}
  <2>1. J \subseteq Nat /\ \A i \in J : i <= k
    OBVIOUS
  <2>2. k \in Nat
    OBVIOUS
  <2>3. PICK j \in J : \A i \in J : i <= j
    <3> HIDE DEF J
    <3> QED BY <1>2, <2>1, <2>2, HayMayor
  <2> DEFINE r == Con(d, s, j)
  <2>4. j \in 1 .. k - 1 /\ r.absoluta /\ j \in DOMAIN s /\ j + 1 \in DOMAIN s
    BY <2>3
  <2>5. \A i \in j + 1 .. k - 1 : ~Con(d, s, i).absoluta
    <3>1. ASSUME NEW i \in j + 1 .. k - 1, Con(d, s, i).absoluta PROVE FALSE
      <4>1. i \in 1 .. k - 1 /\ ~(i <= j)
        BY <2>4
      <4> QED BY <2>3, <3>1, <4>1
    <3> QED BY <3>1
  <2>6. r \in Incluibles
    BY <2>4, PasoDePila
  <2> HIDE DEF r
  <2>7. EsRaiz(d, s, k, r)
    BY <2>4, <2>5 DEF EsRaiz, r
  <2>8. r \in Absolutas
    BY <2>4, <2>6 DEF Absolutas
  <2> QED BY <2>7, <2>8
<1> QED BY <1>1, <1>2

(* Between two calls of the same one, the includes are relative.            *)
LEMMA MismaRaiz ==
  ASSUME NEW d \in Discos, NEW e \in Principales, NEW v, NEW s, Cadena(d, e, v, s), NEW n \in Nat, DOMAIN s = 1 .. n,
         NEW j \in 1 .. n, NEW k \in 1 .. n, j < k, NEW r, EsRaiz(d, s, j, r), EsRaiz(d, s, k, r)
  PROVE  Relativa(d, s, j, k)
<1>1. SUFFICES ASSUME NEW i \in j .. k - 1 PROVE ~Con(d, s, i).absoluta
  BY DEF Relativa
<1>2. i \in 1 .. k - 1 /\ j <= i
  OBVIOUS
<1>3. CASE r = SinRaiz
  <2>1. ~r.absoluta
    BY <1>3 DEF SinRaiz
  <2> QED BY <1>2, <2>1 DEF EsRaiz
<1>4. CASE r # SinRaiz
  <2>1. PICK b \in 1 .. k - 1 :
           r = Con(d, s, b) /\ r.absoluta /\ \A m \in b + 1 .. k - 1 : ~Con(d, s, m).absoluta
    BY <1>4 DEF EsRaiz
  <2>2. PICK a \in 1 .. j - 1 : r = Con(d, s, a)
    BY <1>4 DEF EsRaiz
  <2>3. CASE b < j
    <3>1. i \in b + 1 .. k - 1
      BY <1>2, <2>3
    <3> QED BY <2>1, <3>1
  <2>4. CASE ~(b < j)
    <3>1. /\ a \in DOMAIN s /\ a + 1 \in DOMAIN s /\ b \in DOMAIN s /\ b + 1 \in DOMAIN s /\ a < b
      BY <2>4
    <3>2. Pide(d, s, b) = r /\ Pide(d, s, a) # Pide(d, s, b)
      BY <2>1, <3>1, PasoDePila
    <3>3. Pide(d, s, a) = r
      BY <2>1, <2>2, <3>1, PasoDePila
    <3> QED BY <3>2, <3>3
  <2> QED BY <2>3, <2>4
<1> QED BY <1>3, <1>4

(* Without such a circle the stack is no longer than one file for each path *)
(* that begins a text, and the entry.                                      *)
LEMMA PilaCorta ==
  ASSUME NEW d \in Discos, NEW e \in Principales, NEW v, NEW s, Cadena(d, e, v, s), NEW n \in Nat, DOMAIN s = 1 .. n,
         ~CirculoConPuntos(d, e)
  PROVE  n <= Holgura /\ Holgura \in Nat
<1> DEFINE A == Absolutas \cup {SinRaiz}
           S == 2 .. n
           T == A \X Archivos
           g(k) == CHOOSE r \in A : EsRaiz(d, s, k, r)
           f == [k \in S |-> <<g(k), s[k].archivo>>]
           a == Cardinality(Absolutas)
           c == Cardinality(Archivos)
<1>2. /\ IsFiniteSet(Absolutas) /\ IsFiniteSet(Archivos) /\ a \in Nat /\ c \in Nat
      /\ Holgura = (a + 1) * c + 1
  BY ConstantesAssumption, FS_CardinalityType DEF Holgura
<1>15. Holgura \in Nat
  <2> HIDE DEF a, c
  <2> QED BY <1>2
<1>1. SUFFICES ASSUME n > Holgura PROVE FALSE
  BY <1>15
<1>3. IsFiniteSet(A) /\ Cardinality(A) = a + 1
  <2>1. SinRaiz \notin Absolutas
    BY DEF SinRaiz, Absolutas
  <2> QED BY <1>2, <2>1, FS_AddElement
<1>4. IsFiniteSet(T) /\ Cardinality(T) = (a + 1) * c
  <2> HIDE DEF A
  <2>1. IsFiniteSet(T) /\ Cardinality(T) = Cardinality(A) * c
    BY <1>2, <1>3, FS_Product
  <2> QED BY <1>3, <2>1
<1>5. (a + 1) * c \in Nat
  <2> HIDE DEF a, c
  <2> QED BY <1>2
<1>6. n > 1
  <2> DEFINE p == (a + 1) * c
  <2> HIDE DEF p
  <2>1. p \in Nat /\ Holgura = p + 1
    BY <1>2, <1>5 DEF p
  <2> QED BY <1>1, <2>1
<1>7. IsFiniteSet(S) /\ Cardinality(S) = n - 1
  <2>1. 2 \in Int /\ n \in Int /\ ~(2 > n)
    BY <1>6
  <2>2. IsFiniteSet(2 .. n) /\ Cardinality(2 .. n) = n - 2 + 1
    BY <2>1, FS_Interval
  <2> QED BY <2>2
<1>8. Cardinality(T) < Cardinality(S)
  <2> DEFINE p == (a + 1) * c
  <2> HIDE DEF p
  <2>1. p \in Nat /\ Holgura = p + 1 /\ Cardinality(T) = p
    BY <1>2, <1>4, <1>5 DEF p
  <2> QED BY <1>1, <1>7, <2>1
<1>9. \A k \in S : \E r \in A : EsRaiz(d, s, k, r)
  <2>1. \A k \in S : k \in 1 .. n
    OBVIOUS
  <2> QED BY <2>1, HayRaiz
<1>10. \A k \in S : s[k].archivo \in Archivos
  BY DEF Cadena, Expande, Abribles
<1>11. f \in [S -> T]
  <2>1. \A k \in S : g(k) \in A
    BY <1>9
  <2> HIDE DEF g, A, S
  <2> QED BY <1>10, <2>1
<1>12. PICK j, k \in S : j # k /\ f[j] = f[k]
  <2> HIDE DEF S, T, f
  <2> QED BY <1>4, <1>7, <1>8, <1>11, FS_PigeonHole
<1>13. ASSUME NEW x \in S, NEW y \in S, x < y, f[x] = f[y]
       PROVE  FALSE
  <2> DEFINE r == g(x)
  <2>1. s[x].archivo = s[y].archivo /\ r = g(y)
    <3>1. f[x] = <<g(x), s[x].archivo>> /\ f[y] = <<g(y), s[y].archivo>>
      OBVIOUS
    <3>2. \A p, q, u, w : <<p, u>> = <<q, w>> => p = q /\ u = w
      OBVIOUS
    <3> HIDE DEF f, g
    <3>3. <<g(x), s[x].archivo>> = <<g(y), s[y].archivo>>
      BY <1>13, <3>1
    <3> QED BY <3>2, <3>3, Zenon
  <2>2. EsRaiz(d, s, x, g(x)) /\ EsRaiz(d, s, y, g(y))
    BY <1>9
  <2> HIDE DEF g
  <2>5. EsRaiz(d, s, x, r) /\ EsRaiz(d, s, y, r)
    BY <2>1, <2>2
  <2>3. x \in 1 .. n /\ y \in 1 .. n /\ 1 < x
    OBVIOUS
  <2> HIDE DEF r, f, S, T, A
  <2>4. Relativa(d, s, x, y)
    BY <1>13, <2>3, <2>5, MismaRaiz
  <2> QED BY <1>13, <2>1, <2>3, <2>4, SinRepetir
<1>14. j < k \/ k < j
  BY <1>12
<1> HIDE DEF f, g, S, T, A
<1> QED BY <1>12, <1>13, <1>14

(* Steps of m, one for each call of at most h.                             *)
LEMMA PorCadaLlamada ==
  ASSUME NEW m \in Nat, NEW h \in Nat, NEW k \in Nat, k <= h
  PROVE  k * m \in Nat /\ (k + 1) * m = k * m + m /\ k * m <= h * m
<1> DEFINE j == h - k
<1>1. j \in Nat /\ h = k + j
  OBVIOUS
<1> HIDE DEF j
<1>2. k * m \in Nat /\ j * m \in Nat /\ (k + 1) * m = k * m + m
  BY <1>1
<1>3. h * m = k * m + j * m
  BY <1>1
<1> QED BY <1>2, <1>3

(* The segments with which a text begins, and what an include adds.        *)
Empieza(b) == b \in Nat /\ \A r \in Principales \cup Absolutas : Len(r.segs) <= b + 1
Agranda(m) == m \in Nat /\ \A r \in Incluibles \ Absolutas : Len(r.segs) <= m + 1

(* The text of an include: no longer than the beginning of one, or than    *)
(* what it adds to its directory.                                          *)
LEMMA LargoSigue ==
  ASSUME NEW b, NEW m, Empieza(b), Agranda(m), NEW r \in Textos, NEW x \in Incluibles,
         NEW l \in Nat, b <= l, Len(Padre(r).segs) <= l
  PROVE  LET D == Dividir(Padre(r), x)
         IN  /\ Len(D.segs) \in Nat \ {0} /\ Len(D.segs) <= l + m + 1
             /\ Len(Padre(D).segs) = Len(D.segs) - 1
<1> DEFINE D == Dividir(Padre(r), x)
<1>1. /\ D \in Textos /\ (x.absoluta => D = x)
      /\ ~x.absoluta => Len(D.segs) = Len(r.segs) - 1 + Len(x.segs)
  BY TextoSigue
<1>2. x \in Textos /\ b \in Nat /\ m \in Nat
  BY TextoDado DEF Empieza, Agranda
<1>3. Len(x.segs) \in Nat \ {0} /\ Len(r.segs) \in Nat \ {0} /\ Len(Padre(r).segs) = Len(r.segs) - 1
  BY <1>2, TextoPartido
<1> HIDE DEF D
<1>4. Len(D.segs) \in Nat \ {0} /\ Len(Padre(D).segs) = Len(D.segs) - 1
  <2>1. D \in Textos
    BY <1>1
  <2>2. /\ Len(D.segs) \in Nat \ {0} /\ Len(Front(D.segs)) = Len(D.segs) - 1
        /\ Padre(D) = [absoluta |-> D.absoluta, segs |-> Front(D.segs)]
    BY <2>1, TextoPartido
  <2>3. Padre(D).segs = Front(D.segs)
    BY <2>2
  <2> QED BY <2>2, <2>3
<1>5. Len(D.segs) <= l + m + 1
  <2>1. CASE x.absoluta
    <3>1. x \in Absolutas
      BY <2>1 DEF Absolutas
    <3>2. Len(x.segs) <= b + 1
      BY <3>1 DEF Empieza
    <3> QED BY <1>1, <1>2, <1>3, <2>1, <3>2
  <2>2. CASE ~x.absoluta
    <3>1. x \in Incluibles \ Absolutas
      BY <2>2 DEF Absolutas
    <3>2. Len(x.segs) <= m + 1
      BY <3>1 DEF Agranda
    <3> DEFINE ld == Len(D.segs)
               lr == Len(r.segs)
               lx == Len(x.segs)
    <3>3. ld = lr - 1 + lx /\ lr - 1 <= l /\ lx <= m + 1 /\ lr \in Nat /\ lx \in Nat /\ m \in Nat
      BY <1>1, <1>2, <1>3, <2>2, <3>2
    <3> HIDE DEF ld, lr, lx
    <3>4. ld <= l + m + 1
      BY <3>3
    <3> QED BY <3>4 DEF ld
  <2> QED BY <2>1, <2>2
<1> QED BY <1>4, <1>5 DEF D

(* The directories of the calls.                                           *)
LEMMA LargoDePila ==
  ASSUME NEW d \in Discos, NEW e \in Principales, NEW v, NEW s, Cadena(d, e, v, s), NEW n \in Nat, DOMAIN s = 1 .. n,
         NEW b, NEW m, Empieza(b), Agranda(m)
  PROVE  \A k \in Nat : k + 1 \in 1 .. n => Len(s[k + 1].dirBase.segs) <= b + k * m
<1> DEFINE T == {k \in Nat : k + 1 \in 1 .. n => Len(s[k + 1].dirBase.segs) <= b + k * m}
<1>0. b \in Nat /\ m \in Nat
  BY DEF Empieza, Agranda
<1>1. 0 \in T
  <2>1. s[1].dirBase = Padre(e) /\ e \in Textos
    BY TextoDado DEF Cadena, Expande
  <2>2. Len(Padre(e).segs) = Len(e.segs) - 1 /\ Len(e.segs) \in Nat
    BY <2>1, TextoPartido
  <2>3. Len(e.segs) <= b + 1
    BY DEF Empieza
  <2>4. Len(s[1].dirBase.segs) <= b + 0 * m
    BY <1>0, <2>1, <2>2, <2>3
  <2> QED BY <2>4
<1>2. ASSUME NEW k \in Nat, k \in T PROVE k + 1 \in T
  <2>1. SUFFICES ASSUME k + 2 \in 1 .. n
                 PROVE  Len(s[k + 2].dirBase.segs) <= b + (k + 1) * m
    <3>1. k + 1 + 1 = k + 2 /\ k + 1 \in Nat
      OBVIOUS
    <3> QED BY <3>1
  <2> DEFINE i == k + 1
             l == b + k * m
  <2>2. i \in DOMAIN s /\ i + 1 \in DOMAIN s /\ i + 1 = k + 2 /\ i \in 1 .. n
    BY <2>1
  <2>3. l \in Nat /\ b <= l /\ l + m = b + (k + 1) * m
    <3>1. k * m \in Nat /\ (k + 1) * m = k * m + m
      BY <1>0, PorCadaLlamada
    <3> QED BY <1>0, <3>1
  <2>4. Len(s[i].dirBase.segs) <= l
    BY <1>2, <2>2
  <2>5. PICK r \in Expandidos(e, v) : Expande(s[i], r)
    BY <2>2 DEF Cadena
  <2>6. r \in Textos /\ s[i].dirBase = Padre(r) /\ Pide(d, s, i) = Dividir(Padre(r), Con(d, s, i))
    BY <2>2, <2>5, ExpandidoEs DEF Expande, Pide, PideEn, Con
  <2> HIDE DEF i, l, T
  <2>7. Con(d, s, i) \in Incluibles /\ s[i + 1].dirBase = Padre(Pide(d, s, i))
    <3>1. Con(d, s, i) \in Incluibles
      BY <2>2, PasoDePila
    <3>2. Expande(s[i + 1], Pide(d, s, i))
      BY <2>2 DEF Cadena
    <3> QED BY <3>1, <3>2 DEF Expande
  <2>8. /\ Len(Pide(d, s, i).segs) \in Nat \ {0} /\ Len(Pide(d, s, i).segs) <= l + m + 1
        /\ Len(Padre(Pide(d, s, i)).segs) = Len(Pide(d, s, i).segs) - 1
    BY <2>3, <2>4, <2>6, <2>7, LargoSigue
  <2>9. Len(s[i + 1].dirBase.segs) <= l + m
    BY <1>0, <2>3, <2>7, <2>8
  <2> QED BY <2>2, <2>3, <2>9
<1> HIDE DEF T
<1>3. \A k \in Nat : k \in T
  BY <1>1, <1>2, PorNumeros
<1> QED BY <1>3 DEF T

(* Without such a circle the system opens the include on top: it is no     *)
(* longer than it can be, and neither is the stack.                        *)
LEMMA SinCirculoCabe ==
  ASSUME NEW d \in Discos, NEW e \in Principales, NEW v, NEW s, Cadena(d, e, v, s), NEW n \in Nat, DOMAIN s = 1 .. n,
         n \in DOMAIN s, s[n].pos \in Inclusiones(d, s[n].archivo), ~CirculoConPuntos(d, e)
  PROVE  Len(Pide(d, s, n).segs) <= MaxRuta /\ n < MaxAbiertos
<1>1. n <= Holgura /\ Holgura \in Nat
  BY PilaCorta
<1>2. n < MaxAbiertos
  BY <1>1, ConstantesAssumption
<1>3. PICK b, m \in 0 .. MaxRuta :
        /\ \A r \in Principales \cup Absolutas : Len(r.segs) <= b + 1
        /\ \A r \in Incluibles \ Absolutas : Len(r.segs) <= m + 1
        /\ b + m * Holgura < MaxRuta
  BY ConstantesAssumption
<1>4. Empieza(b) /\ Agranda(m) /\ b \in Nat /\ m \in Nat /\ MaxRuta \in Nat
  BY <1>3, ConstantesAssumption DEF Empieza, Agranda
<1> DEFINE k == n - 1
           l == b + k * m
<1>5. k \in Nat /\ k + 1 = n /\ k + 1 \in 1 .. n
  OBVIOUS
<1> HIDE DEF k
<1>6. Len(s[n].dirBase.segs) <= l
  BY <1>4, <1>5, LargoDePila
<1>7. l \in Nat /\ b <= l /\ l + m < MaxRuta
  <2>1. k * m \in Nat /\ (k + 1) * m = k * m + m
    BY <1>4, <1>5, PorCadaLlamada
  <2>2. n * m <= Holgura * m
    BY <1>1, <1>4, PorCadaLlamada
  <2>3. m * Holgura = Holgura * m /\ Holgura * m \in Nat
    BY <1>1, <1>4
  <2> DEFINE f == k * m
             g == n * m
             h == Holgura * m
  <2>4. f \in Nat /\ g = f + m /\ g <= h /\ h \in Nat /\ b + h < MaxRuta /\ l = b + f
    BY <1>3, <1>5, <2>1, <2>2, <2>3
  <2> HIDE DEF f, g, h, l
  <2> QED BY <1>4, <2>4
<1> HIDE DEF l
<1>8. PICK r \in Expandidos(e, v) : Expande(s[n], r)
  BY DEF Cadena
<1>9. r \in Textos /\ s[n].dirBase = Padre(r) /\ Pide(d, s, n) = Dividir(Padre(r), Con(d, s, n))
  BY <1>8, ExpandidoEs DEF Expande, Pide, PideEn, Con
<1>10. Con(d, s, n) \in Incluibles
  BY PideBien DEF Con
<1>11. Len(Pide(d, s, n).segs) \in Nat /\ Len(Pide(d, s, n).segs) <= l + m + 1
  <2> DEFINE x == Con(d, s, n)
  <2>1. x \in Incluibles /\ Len(Padre(r).segs) <= l /\ Pide(d, s, n) = Dividir(Padre(r), x)
    BY <1>6, <1>9, <1>10
  <2> HIDE DEF x
  <2>2. Len(Dividir(Padre(r), x).segs) \in Nat /\ Len(Dividir(Padre(r), x).segs) <= l + m + 1
    BY <1>4, <1>7, <1>9, <2>1, LargoSigue
  <2> QED BY <2>1, <2>2
<1> QED BY <1>2, <1>4, <1>7, <1>11

-----------------------------------------------------------------------------
(* The steps.                                                               *)

Todo(d, e, v, s) ==
  /\ Camino(d, e, v, s)
  /\ UnTexto(d, e) => Conocidos(d, e, v) /\ EnOrden(d, e, v, s)

(* The call on top, the n-th of s, becomes c, past its statement.           *)
Avanza(d, s, n, c, q) ==
  /\ d \in Discos /\ s \in Seq(Llamada) /\ s # <<>> /\ n = Len(s)
  /\ c \in Llamada /\ c.archivo = s[n].archivo /\ c.dirBase = s[n].dirBase /\ c.pos = s[n].pos + 1
  /\ q = Append(Front(s), c)

(* The stack goes on.                                                      *)
LEMMA TopeAdelanta ==
  ASSUME NEW d, NEW s, NEW n, NEW c, NEW q, Avanza(d, s, n, c, q)
  PROVE  Adelanta(d, s, n, q) /\ n \in Nat \ {0} /\ q[n] = c /\ DOMAIN s = 1 .. n /\ DOMAIN q = 1 .. n
         /\ \A k \in 1 .. n - 1 : q[k] = s[k]
<1> DEFINE f == Front(s)
<1>0. /\ d \in Discos /\ s \in Seq(Llamada) /\ s # <<>> /\ n = Len(s)
      /\ c \in Llamada /\ c.archivo = s[n].archivo /\ c.dirBase = s[n].dirBase /\ c.pos = s[n].pos + 1
      /\ q = Append(Front(s), c)
  BY DEF Avanza
<1>1. n \in Nat \ {0} /\ f \in Seq(Llamada) /\ Len(f) = n - 1 /\ \A k \in 1 .. n - 1 : f[k] = s[k]
  BY <1>0, FrenteYUltimo
<1> HIDE DEF f
<1>2. q = Append(f, c) /\ c \in Llamada
  BY <1>0 DEF f
<1>3. q \in Seq(Llamada) /\ Len(q) = n /\ q[n] = c /\ \A k \in 1 .. n - 1 : q[k] = f[k]
  BY <1>1, <1>2
<1>4. DOMAIN q = 1 .. n /\ DOMAIN s = 1 .. n
  BY <1>0, <1>3
<1>5. \A k \in 1 .. n - 1 : q[k] = s[k]
  BY <1>1, <1>3
<1>6. n \in 1 .. Len(s) /\ Len(s) <= n + 1 /\ ~(n < Len(s))
  BY <1>0, <1>1
<1>7. Adelanta(d, s, n, q)
  BY <1>0, <1>3, <1>5, <1>6 DEF Adelanta
<1> QED BY <1>1, <1>3, <1>4, <1>5, <1>7

(* The file of a call was met and read.                                    *)
LEMMA LlamadaVista ==
  ASSUME NEW d \in Discos, NEW e \in Principales, NEW v, NEW s, Cadena(d, e, v, s), NEW k \in DOMAIN s
  PROVE  s[k].archivo \in Vistos(v) \cap Abribles(d)
<1>1. PICK D \in Expandidos(e, v) : Expande(s[k], D) /\ Abre(D) \in Abribles(d)
  BY DEF Cadena
<1> QED BY <1>1, ExpandidoEs DEF Expande

(* Copiar keeps what is told of the stack, the texts and the lists.         *)
LEMMA TodoCopia ==
  ASSUME NEW d \in Discos, NEW e \in Principales, NEW v, NEW s, Todo(d, e, v, s),
         NEW n, NEW o, o = [archivo |-> s[n].archivo, pos |-> s[n].pos], o \in Origen,
         s[n].pos \in Declaradas(d, s[n].archivo),
         UnTexto(d, e) => \A j, k \in DOMAIN s : j < k /\ s[j].archivo = s[k].archivo => Doble(e, s[k].archivo),
         NEW c, c.nueva = Append(s[n].nueva, o), c.ok <=> s[n].ok,
         NEW q, Avanza(d, s, n, c, q)
  PROVE  Todo(d, e, v, q)
<1>1. Adelanta(d, s, n, q) /\ n \in Nat \ {0} /\ q[n] = c /\ DOMAIN s = 1 .. n /\ DOMAIN q = 1 .. n
      /\ \A k \in 1 .. n - 1 : q[k] = s[k]
  BY TopeAdelanta
<1>2. Cadena(d, e, v, s) /\ Recorrida(d, e, v, s) /\ Dicha(d, v, s) /\ Lograda(d, v, s)
  BY DEF Todo, Camino
<1>3. PICK x \in Lugares(q) : Conserva(s, q, {x}) /\ En(q, x) = o
  <2>1. q[n].nueva = Append(s[n].nueva, o)
    BY <1>1
  <2>2. n = Len(s)
    BY DEF Avanza
  <2>3. Copia(d, s, n, q, o)
    BY <1>1, <2>1, <2>2 DEF Copia
  <2>4. Agrega(s, q, o)
    BY <2>3, ConservaCopia
  <2> QED BY <2>4 DEF Agrega
<1>4. Cadena(d, e, v, q)
  BY <1>1, <1>2, CadenaAdelanta
<1>5. s[n].pos \notin Inclusiones(d, s[n].archivo)
  BY DEF Declaradas
<1>6. Recorrida(d, e, v, q)
  <2>1. \A D \in v \ v : Abre(D) \notin Abribles(d)
    OBVIOUS
  <2> QED BY <1>1, <1>2, <1>5, <2>1, RecorridaAdelanta
<1>7. Dicha(d, v, q)
  <2>1. s[n].archivo \in Vistos(v) \cap Abribles(d)
    BY <1>1, <1>2, LlamadaVista
  <2> DEFINE X == {x}
  <2>2. /\ \E y : X = {y} /\ En(q, y) = [archivo |-> s[n].archivo, pos |-> s[n].pos]
        /\ Conserva(s, q, X) /\ \A D \in v \ v : Abre(D) \notin Abribles(d)
    BY <1>3
  <2> HIDE DEF X
  <2> QED BY <1>1, <1>2, <2>1, <2>2, DichaAdelanta
<1>8. Lograda(d, v, q)
  <2>1. q[n].ok <=> s[n].ok /\ (n < Len(s) => s[n + 1].ok)
    BY <1>1
  <2>2. \A k \in DOMAIN q : k < n => (q[k].ok <=> s[k].ok)
    BY <1>1
  <2> QED BY <1>1, <1>2, <2>1, <2>2, LogradaAdelanta
<1>9. ASSUME UnTexto(d, e)
      PROVE  Conocidos(d, e, v) /\ EnOrden(d, e, v, q)
  <2>1. Conocidos(d, e, v) /\ EnOrden(d, e, v, s)
    BY <1>9 DEF Todo
  <2>2. En(q, x) = [archivo |-> s[n].archivo, pos |-> s[n].pos] /\ Conserva(s, q, {x})
    BY <1>3
  <2>3. \A j, k \in DOMAIN s : j < k /\ s[j].archivo = s[k].archivo => Doble(e, s[k].archivo)
    BY <1>9
  <2> QED BY <1>1, <1>2, <2>1, <2>2, <2>3, EnOrdenCopia
<1> QED BY <1>4, <1>6, <1>7, <1>8, <1>9 DEF Todo, Camino

(* A call goes on past its include, whose text is met or cannot be read.    *)
LEMMA TodoAvanza ==
  ASSUME NEW d \in Discos, NEW e \in Principales, NEW v, NEW s, Todo(d, e, v, s), NEW n, NEW q,
         Adelanta(d, s, n, q), Conserva(s, q, {}), s[n].pos \in Inclusiones(d, s[n].archivo),
         NEW v2, v \subseteq v2, v2 \subseteq v \cup {Pide(d, s, n)}, Pide(d, s, n) \in v2,
         \A D \in v2 \ v : Abre(D) \notin Abribles(d), Lograda(d, v2, q)
  PROVE  Todo(d, e, v2, q)
<1>1. Cadena(d, e, v, s) /\ Recorrida(d, e, v, s) /\ Dicha(d, v, s)
  BY DEF Todo, Camino
<1>2. Cadena(d, e, v2, q)
  BY <1>1, CadenaAdelanta
<1>3. Recorrida(d, e, v2, q)
  BY <1>1, RecorridaAdelanta
<1>4. Dicha(d, v2, q)
  <2> DEFINE X == {}
  <2>1. X = {} /\ Conserva(s, q, X)
    OBVIOUS
  <2> HIDE DEF X
  <2> QED BY <1>1, <2>1, DichaAdelanta
<1>5. ASSUME UnTexto(d, e)
      PROVE  Conocidos(d, e, v2) /\ EnOrden(d, e, v2, q)
  <2>1. Conocidos(d, e, v) /\ EnOrden(d, e, v, s)
    BY <1>5 DEF Todo
  <2>2. EnOrden(d, e, v2, q)
    BY <2>1, EnOrdenAdelanta
  <2>3. Conocidos(d, e, v2)
    <3>1. v2 = v \/ (v2 = v \cup {Pide(d, s, n)} /\ Pide(d, s, n) \notin v)
      OBVIOUS
    <3>2. CASE v2 = v
      BY <2>1, <3>2
    <3>3. CASE v2 = v \cup {Pide(d, s, n)} /\ Pide(d, s, n) \notin v
      <4>1. Abre(Pide(d, s, n)) \notin Abribles(d)
        BY <3>3
      <4> QED BY <2>1, <3>3, <4>1, ConocidosCrecen
    <3> QED BY <3>1, <3>2, <3>3
  <2> QED BY <2>2, <2>3
<1> QED BY <1>2, <1>3, <1>4, <1>5 DEF Todo, Camino

(* Omitir keeps what is told of the stack, the texts and the lists.         *)
LEMMA TodoOmite ==
  ASSUME NEW d \in Discos, NEW e \in Principales, NEW v, NEW s, Todo(d, e, v, s),
         NEW n, s[n].pos \in Inclusiones(d, s[n].archivo), Pide(d, s, n) \in v,
         NEW c, c.nueva = s[n].nueva, c.ok <=> s[n].ok,
         NEW q, Avanza(d, s, n, c, q)
  PROVE  Todo(d, e, v, q)
<1>1. Adelanta(d, s, n, q) /\ n \in Nat \ {0} /\ q[n] = c /\ DOMAIN s = 1 .. n /\ DOMAIN q = 1 .. n
      /\ \A k \in 1 .. n - 1 : q[k] = s[k]
  BY TopeAdelanta
<1>2. Conserva(s, q, {})
  <2>1. \A k \in DOMAIN s : k \in 1 .. n - 1 \/ k = n
    BY <1>1
  <2>2. \A k \in DOMAIN s : q[k].nueva = s[k].nueva
    BY <1>1, <2>1
  <2> QED BY <1>1, <2>2, ConservaIgual
<1>3. Lograda(d, v, q)
  <2>1. q[n].ok <=> s[n].ok /\ (n < Len(s) => s[n + 1].ok)
    BY <1>1
  <2>2. \A k \in DOMAIN q : k < n => (q[k].ok <=> s[k].ok)
    BY <1>1
  <2>3. Lograda(d, v, s)
    BY DEF Todo, Camino
  <2> QED BY <1>1, <2>1, <2>2, <2>3, LogradaAdelanta
<1>4. v \subseteq v \cup {Pide(d, s, n)} /\ \A D \in v \ v : Abre(D) \notin Abribles(d)
  OBVIOUS
<1> QED BY <1>1, <1>2, <1>3, <1>4, TodoAvanza

(* Fallar keeps what is told of the stack, the texts and the lists.         *)
LEMMA TodoFalla ==
  ASSUME NEW d \in Discos, NEW e \in Principales, NEW v, NEW s, Todo(d, e, v, s),
         NEW n, s[n].pos \in Inclusiones(d, s[n].archivo), Abre(Pide(d, s, n)) \notin Abribles(d),
         NEW c, c.nueva = s[n].nueva, ~c.ok,
         NEW q, Avanza(d, s, n, c, q)
  PROVE  Todo(d, e, v \cup {Pide(d, s, n)}, q)
<1> DEFINE D == Pide(d, s, n)
           v2 == v \cup {D}
<1>1. Adelanta(d, s, n, q) /\ n \in Nat \ {0} /\ q[n] = c /\ DOMAIN s = 1 .. n /\ DOMAIN q = 1 .. n
      /\ \A k \in 1 .. n - 1 : q[k] = s[k]
  BY TopeAdelanta
<1>2. Conserva(s, q, {})
  <2>1. \A k \in DOMAIN s : k \in 1 .. n - 1 \/ k = n
    BY <1>1
  <2>2. \A k \in DOMAIN s : q[k].nueva = s[k].nueva
    BY <1>1, <2>1
  <2> QED BY <1>1, <2>2, ConservaIgual
<1>3. D \in v2 /\ v \subseteq v2 /\ v2 \subseteq v \cup {D} /\ \A x \in v2 \ v : Abre(x) \notin Abribles(d)
  OBVIOUS
<1> HIDE DEF v2
<1>4. Lograda(d, v2, q)
  <2>1. n \in DOMAIN q /\ ~q[n].ok
    BY <1>1
  <2> QED BY <1>3, <2>1, LogradaFalla
<1>5. Todo(d, e, v2, q)
  BY <1>1, <1>2, <1>3, <1>4, TodoAvanza
<1> QED BY <1>5 DEF v2

(* Volver keeps what is told of the stack, the texts and the lists.         *)
LEMMA TodoVuelve ==
  ASSUME NEW d \in Discos, NEW e \in Principales, NEW v, NEW s \in Seq(Llamada), Todo(d, e, v, s),
         NEW n \in Nat \ {0}, Len(s) = n + 1, Len(d[s[n + 1].archivo].sents) < s[n + 1].pos,
         NEW c \in Llamada, c.archivo = s[n].archivo, c.dirBase = s[n].dirBase, c.pos = s[n].pos + 1,
         c.nueva = s[n].nueva \o s[n + 1].nueva, c.ok <=> s[n].ok /\ s[n + 1].ok,
         NEW p \in Seq(Llamada), Len(p) = n - 1, \A k \in 1 .. n - 1 : p[k] = s[k],
         NEW q, q = Append(p, c)
  PROVE  Todo(d, e, v, q)
<1>1. q \in Seq(Llamada) /\ Len(q) = n /\ q[n] = c /\ \A k \in 1 .. n - 1 : q[k] = s[k]
  OBVIOUS
<1>2. Adelanta(d, s, n, q)
  BY <1>1 DEF Adelanta
<1>3. Conserva(s, q, {})
  <2>0. n < Len(s)
    OBVIOUS
  <2>1. n < Len(s) /\ q[n].nueva = s[n].nueva \o s[n + 1].nueva
    BY <1>1, <2>0, Zenon
  <2> QED BY <1>2, <2>1, ConservaVuelve
<1>4. n \in DOMAIN s /\ n + 1 \in DOMAIN s /\ DOMAIN q = 1 .. n
  BY <1>1
<1>5. s[n].pos \in Inclusiones(d, s[n].archivo) /\ Pide(d, s, n) \in v
  BY <1>4 DEF Todo, Camino, Cadena
<1>6. Lograda(d, v, q)
  <2>1. q[n].ok <=> s[n].ok /\ (n < Len(s) => s[n + 1].ok)
    BY <1>1
  <2>2. \A k \in DOMAIN q : k < n => (q[k].ok <=> s[k].ok)
    BY <1>1, <1>4
  <2>3. Lograda(d, v, s)
    BY DEF Todo, Camino
  <2> QED BY <1>2, <2>1, <2>2, <2>3, LogradaAdelanta
<1>7. v \subseteq v \cup {Pide(d, s, n)} /\ \A D \in v \ v : Abre(D) \notin Abribles(d)
  OBVIOUS
<1> QED BY <1>2, <1>3, <1>5, <1>6, <1>7, TodoAvanza

(* Entrar keeps what is told of the stack, the texts and the lists.         *)
LEMMA TodoMete ==
  ASSUME NEW d \in Discos, NEW e \in Principales, NEW v, NEW s, Todo(d, e, v, s),
         NEW D, NEW q, Mete(d, v, s, D, q), UnTexto(d, e) => ConSuTexto(e, D)
  PROVE  Todo(d, e, v \cup {D}, q)
<1>1. Cadena(d, e, v, s) /\ Recorrida(d, e, v, s) /\ Dicha(d, v, s) /\ Lograda(d, v, s)
  BY DEF Todo, Camino
<1>2. /\ Cadena(d, e, v \cup {D}, q) /\ Recorrida(d, e, v \cup {D}, q)
      /\ Dicha(d, v \cup {D}, q) /\ Lograda(d, v \cup {D}, q)
  BY <1>1, CadenaMete, RecorridaMete, DichaMete, LogradaMete
<1>3. ASSUME UnTexto(d, e)
      PROVE  Conocidos(d, e, v \cup {D}) /\ EnOrden(d, e, v \cup {D}, q)
  <2>1. Conocidos(d, e, v) /\ EnOrden(d, e, v, s) /\ ConSuTexto(e, D)
    BY <1>3 DEF Todo
  <2>2. D \notin v /\ Abre(D) \in Abribles(d)
    BY DEF Mete
  <2>3. Abre(D) \in Vistos(v) => Doble(e, Abre(D))
    BY <2>1, <2>2, ConocidoRepetido
  <2> QED BY <1>1, <2>1, <2>3, ConocidosCrecen, EnOrdenMete
<1> QED BY <1>2, <1>3 DEF Todo, Camino

(* It holds of the first call.                                              *)
LEMMA TodoEmpieza ==
  ASSUME NEW d \in Discos, NEW e \in Principales
  PROVE  Todo(d, e, {Absoluta(e)}, <<Llamar(Abre(e), Padre(e))>>)
<1> DEFINE v == {Absoluta(e)}
           c == Llamar(Abre(e), Padre(e))
           s == <<c>>
<1>1. /\ Absoluta(e) \in Textos /\ Abre(Absoluta(e)) = Abre(e) /\ Abre(e) \in Abribles(d) /\ Abre(e) \in Archivos
  <2>1. Abre(e) \in Archivos /\ d[Abre(e)].lectura = "abre"
    BY ConstantesAssumption
  <2> QED BY <2>1, TextoDado DEF Abribles
<1>2. DOMAIN s = {1} /\ s[1] = c
  OBVIOUS
<1>3. c.archivo = Abre(e) /\ c.dirBase = Padre(e) /\ c.pos = 1 /\ c.nueva = <<>> /\ c.ok
  BY DEF Llamar
<1>4. v = {Absoluta(e)} /\ Expandidos(e, v) = {e}
  BY DEF Expandidos
<1> HIDE DEF c, s, v
<1>5. Expande(s[1], e)
  BY <1>2, <1>3 DEF Expande
<1>6. Cadena(d, e, v, s)
  <2>1. Len(Absoluta(e).segs) \in Nat
    BY <1>1, TextoPartido
  <2>2. \E N \in Nat : \A D \in v : Len(D.segs) <= N
    BY <1>4, <2>1
  <2>3. \A k \in DOMAIN s : k = 1 /\ k + 1 \notin DOMAIN s
    BY <1>2
  <2>4. v \subseteq Textos /\ Absoluta(e) \in v /\ \A D \in v : Abre(D) = Abre(e)
    BY <1>1, <1>4
  <2>5. \A k \in DOMAIN s : \E D \in Expandidos(e, v) : Expande(s[k], D) /\ Abre(D) \in Abribles(d)
    BY <1>1, <1>4, <1>5, <2>3
  <2> QED BY <1>5, <2>2, <2>3, <2>4, <2>5 DEF Cadena
<1>7. Recorrida(d, e, v, s)
  <2>1. \A p \in Inclusiones(d, Abre(e)) : p \in Nat \ {0}
    BY <1>1, LugarDe
  <2>2. \A p \in Inclusiones(d, Abre(e)) : s[1].pos <= p /\ ~(p < s[1].pos)
    BY <1>2, <1>3, <2>1
  <2>3. \A k \in DOMAIN s : k = 1 /\ s[k].archivo = Abre(e)
    BY <1>2, <1>3
  <2> QED BY <1>2, <1>4, <1>5, <2>2, <2>3 DEF Recorrida
<1>8. Lugares(s) = {}
  <2>1. DOMAIN s[1].nueva = {}
    BY <1>2, <1>3
  <2> QED BY <1>2, <2>1 DEF Lugares
<1>9. Dicha(d, v, s)
  <2>1. Vistos(v) = {Abre(e)}
    BY <1>1, <1>4 DEF Vistos
  <2>2. \A p \in Declaradas(d, Abre(e)) : p \in Nat \ {0}
    BY <1>1, LugarDe
  <2>3. \A p \in Declaradas(d, Abre(e)) : s[1].pos <= p
    BY <1>2, <1>3, <2>2
  <2>4. 1 \in DOMAIN s /\ s[1].archivo = Abre(e)
    BY <1>2, <1>3
  <2> QED BY <1>8, <2>1, <2>3, <2>4 DEF Dicha
<1>10. Lograda(d, v, s)
  BY <1>1, <1>2, <1>3, <1>4 DEF Lograda
<1>11. Conocidos(d, e, v) /\ EnOrden(d, e, v, s)
  BY <1>4, <1>8, ConocidaLaEntrada DEF EnOrden, Colocada, Superada, Agotada
<1>12. Todo(d, e, v, s)
  BY <1>6, <1>7, <1>9, <1>10, <1>11 DEF Todo, Camino
<1> QED BY <1>12 DEF v, c, s

-----------------------------------------------------------------------------
(* The invariant.                                                           *)

Entera == resultado = "pendiente" <=> pila # <<>>

(* A text of a circle that the system did not open.                        *)
Fallida == CirculoConPuntos(disco, entrada) /\ \E k \in DOMAIN pila : ~pila[k].ok
Recorrido == pila # <<>> => Todo(disco, entrada, visitados, pila) \/ Fallida
InvFiel == Inv /\ Entera /\ Recorrido /\ ExpansionFiel

(* The expansion goes on.                                                  *)
LEMMA SiguePendiente ==
  ASSUME InvFiel, pila # <<>>, resultado' = resultado, pila' # <<>>,
         Todo(disco', entrada', visitados', pila') \/ Fallida'
  PROVE  Entera' /\ Recorrido' /\ ExpansionFiel'
<1>1. resultado = "pendiente"
  BY DEF InvFiel, Entera
<1>2. resultado' = "pendiente"
  BY <1>1
<1>3. Entera' /\ Recorrido'
  BY <1>2 DEF Entera, Recorrido
<1>4. ExpansionFiel'
  BY <1>2 DEF ExpansionFiel
<1> QED BY <1>3, <1>4

(* What the types say of the call on top.                                  *)
LEMMA TopeEs ==
  ASSUME InvFiel, pila # <<>>
  PROVE  /\ disco \in Discos /\ entrada \in Principales /\ pila \in Seq(Llamada)
         /\ Len(pila) \in Nat \ {0} /\ Len(pila) \in DOMAIN pila /\ DOMAIN pila = 1 .. Len(pila)
         /\ Tope = pila[Len(pila)] /\ Tope \in Llamada /\ Tope.archivo \in Archivos
         /\ Tope.pos \in Nat \ {0} /\ Tope.nueva \in Seq(Origen) /\ Tope.ok \in BOOLEAN
         /\ Todo(disco, entrada, visitados, pila) \/ Fallida
<1>1. TypeOK
  BY DEF InvFiel, Inv
<1>2. Todo(disco, entrada, visitados, pila) \/ Fallida
  BY DEF InvFiel, Recorrido
<1>3. /\ Len(pila) \in Nat \ {0} /\ Len(pila) \in DOMAIN pila /\ DOMAIN pila = 1 .. Len(pila)
      /\ Tope = pila[Len(pila)] /\ Tope \in Llamada /\ Tope.archivo \in Archivos
      /\ Tope.pos \in Nat \ {0} /\ Tope.nueva \in Seq(Origen)
  BY <1>1, TopeTipo
<1>4. Tope.ok \in BOOLEAN
  BY <1>3 DEF Llamada
<1>5. disco \in Discos /\ entrada \in Principales /\ pila \in Seq(Llamada)
  BY <1>1 DEF TypeOK
<1> QED BY <1>2, <1>3, <1>4, <1>5

(* The path of the include on top.                                         *)
LEMMA DestinoEs ==
  ASSUME InvFiel, EnInclusion, NEW n, n = Len(pila)
  PROVE  /\ Destino = Pide(disco, pila, n) /\ pila[n].pos \in Inclusiones(disco, pila[n].archivo)
         /\ Legible <=> Abre(Destino) \in Abribles(disco)
<1>1. pila # <<>>
  BY DEF EnInclusion, Quedan
<1>2. TypeOK /\ Tope = pila[n]
  BY <1>1, TopeEs DEF InvFiel, Inv
<1>3. /\ Tope.pos \in Inclusiones(disco, Tope.archivo)
      /\ Actual.mod = Mod(disco, <<Tope.archivo, Tope.pos>>)
  BY <1>2, ActualTipo
<1>4. Destino = Dividir(Tope.dirBase, Mod(disco, <<Tope.archivo, Tope.pos>>))
  BY <1>3 DEF Destino
<1>5. Destino = Pide(disco, pila, n)
  BY <1>2, <1>4 DEF Pide, PideEn
<1>6. pila[n].pos \in Inclusiones(disco, pila[n].archivo)
  BY <1>2, <1>3
<1> QED BY <1>5, <1>6 DEF Legible, Abribles

(* The call on top gives up a text of a circle.                            *)
LEMMA FallidaEmpieza ==
  ASSUME CirculoConPuntos(disco, entrada), disco' = disco, entrada' = entrada,
         NEW n, NEW c, Avanza(disco, pila, n, c, pila'), ~c.ok
  PROVE  Fallida'
<1>1. n \in Nat \ {0} /\ pila'[n] = c /\ DOMAIN pila' = 1 .. n
  BY TopeAdelanta
<1>2. n \in DOMAIN pila' /\ ~pila'[n].ok
  BY <1>1
<1> QED BY <1>2 DEF Fallida

(* The call on top goes on: one of the circle still has a false `ok`.      *)
LEMMA FallidaAdelanta ==
  ASSUME Fallida, disco' = disco, entrada' = entrada,
         NEW n, NEW c, Avanza(disco, pila, n, c, pila'), c.ok => pila[n].ok
  PROVE  Fallida'
<1>1. /\ n \in Nat \ {0} /\ pila'[n] = c /\ DOMAIN pila = 1 .. n /\ DOMAIN pila' = 1 .. n
      /\ \A k \in 1 .. n - 1 : pila'[k] = pila[k]
  BY TopeAdelanta
<1>2. PICK k \in DOMAIN pila : ~pila[k].ok
  BY DEF Fallida
<1>3. k = n \/ k \in 1 .. n - 1
  BY <1>1
<1>4. k \in DOMAIN pila' /\ ~pila'[k].ok
  BY <1>1, <1>2, <1>3
<1> QED BY <1>4 DEF Fallida

(* A statement copied.                                                     *)
LEMMA CopiarFiel ==
  ASSUME InvFiel, Copiar
  PROVE  Entera' /\ Recorrido' /\ ExpansionFiel'
<1> DEFINE n == Len(pila)
           t == Tope
           o == [archivo |-> t.archivo, pos |-> t.pos]
           c == [t EXCEPT !.pos = @ + 1, !.nueva = Append(@, o)]
<1>1. /\ pila # <<>> /\ t.pos <= Len(Sentencias(t.archivo)) /\ Actual.tipo # "incluir"
      /\ pila' = ConTope(c)
      /\ disco' = disco /\ entrada' = entrada /\ visitados' = visitados /\ resultado' = resultado
  BY DEF Copiar, Quedan
<1>2. /\ disco \in Discos /\ entrada \in Principales /\ pila \in Seq(Llamada)
      /\ n \in Nat \ {0} /\ DOMAIN pila = 1 .. n /\ t = pila[n] /\ t \in Llamada /\ t.archivo \in Archivos
      /\ t.pos \in Nat \ {0} /\ t.nueva \in Seq(Origen) /\ t.ok \in BOOLEAN
      /\ Todo(disco, entrada, visitados, pila) \/ Fallida
  BY <1>1, TopeEs
<1>3. n = Len(pila)
  OBVIOUS
<1>4. t.pos \in Declaradas(disco, t.archivo)
  <2>1. t.pos \in DOMAIN disco[t.archivo].sents
    <3>1. DOMAIN disco[t.archivo].sents = 1 .. Len(disco[t.archivo].sents) /\ Len(disco[t.archivo].sents) \in Nat
      BY <1>2, LugarDe
    <3>2. t.pos <= Len(disco[t.archivo].sents)
      BY <1>1 DEF Sentencias
    <3> QED BY <1>2, <3>1, <3>2
  <2>2. disco[t.archivo].sents[t.pos].tipo # "incluir"
    BY <1>1 DEF Actual, Sentencias
  <2> QED BY <2>1, <2>2 DEF Declaradas, Inclusiones
<1>5. o \in Origen
  BY <1>2 DEF Origen
<1> HIDE DEF t, n
<1>6. /\ c \in Llamada /\ c.archivo = t.archivo /\ c.dirBase = t.dirBase /\ c.pos = t.pos + 1
      /\ c.nueva = Append(t.nueva, o) /\ (c.ok <=> t.ok)
  <2> DEFINE w == Append(t.nueva, o)
  <2>1. w \in Seq(Origen) /\ t.pos + 1 \in Nat \ {0}
    <3> HIDE DEF o
    <3> QED BY <1>2, <1>5
  <2>2. c = [t EXCEPT !.pos = @ + 1, !.nueva = w]
    OBVIOUS
  <2> HIDE DEF o, w, c
  <2>3. /\ c \in Llamada /\ c.archivo = t.archivo /\ c.dirBase = t.dirBase /\ c.pos = t.pos + 1
        /\ c.nueva = w /\ c.ok = t.ok
    BY <1>2, <2>1, <2>2 DEF Llamada
  <2> QED BY <2>3 DEF w
<1> HIDE DEF c
<1>7. Avanza(disco, pila, n, c, pila')
  BY <1>1, <1>2, <1>3, <1>6 DEF Avanza, ConTope
<1>8. ASSUME UnTexto(disco, entrada), NEW j \in DOMAIN pila, NEW k \in DOMAIN pila,
             j < k, pila[j].archivo = pila[k].archivo
      PROVE  Doble(entrada, pila[k].archivo)
  BY <1>8 DEF InvFiel, Inv, SinCirculos, Repetible, Doble
<1>9. o = [archivo |-> pila[n].archivo, pos |-> pila[n].pos]
  BY <1>2
<1> HIDE DEF o
<1>10. ASSUME Todo(disco, entrada, visitados, pila)
       PROVE  Todo(disco, entrada, visitados, pila')
  <2>1. pila[n].pos \in Declaradas(disco, pila[n].archivo)
    BY <1>2, <1>4
  <2>2. c.nueva = Append(pila[n].nueva, o) /\ (c.ok <=> pila[n].ok)
    BY <1>2, <1>6
  <2>3. UnTexto(disco, entrada) =>
          \A j, k \in DOMAIN pila : j < k /\ pila[j].archivo = pila[k].archivo => Doble(entrada, pila[k].archivo)
    BY <1>8
  <2> QED BY <1>2, <1>5, <1>7, <1>9, <1>10, <2>1, <2>2, <2>3, TodoCopia
<1>11. pila' # <<>>
  <2>1. pila' = Append(Front(pila), c) /\ Front(pila) \in Seq(Llamada) /\ c \in Llamada
    BY <1>1, <1>2, <1>6, FrenteYUltimo DEF ConTope
  <2> QED BY <2>1
<1>12. ASSUME Fallida
       PROVE  Fallida'
  BY <1>1, <1>2, <1>6, <1>7, <1>12, FallidaAdelanta
<1>13. Todo(disco', entrada', visitados', pila') \/ Fallida'
  BY <1>1, <1>2, <1>10, <1>12
<1> QED BY <1>1, <1>11, <1>13, SiguePendiente

(* An include left out.                                                    *)
LEMMA OmitirFiel ==
  ASSUME InvFiel, Omitir
  PROVE  Entera' /\ Recorrido' /\ ExpansionFiel'
<1> DEFINE n == Len(pila)
           t == Tope
           c == [t EXCEPT !.pos = @ + 1]
<1>1. /\ pila # <<>> /\ EnInclusion /\ Destino \in visitados /\ pila' = ConTope(c)
      /\ disco' = disco /\ entrada' = entrada /\ visitados' = visitados /\ resultado' = resultado
  BY DEF Omitir, EnInclusion, Quedan
<1>2. /\ disco \in Discos /\ entrada \in Principales /\ pila \in Seq(Llamada)
      /\ t = pila[n] /\ t \in Llamada /\ t.pos \in Nat \ {0}
      /\ Todo(disco, entrada, visitados, pila) \/ Fallida
  BY <1>1, TopeEs
<1>3. n = Len(pila)
  OBVIOUS
<1> HIDE DEF t, n
<1>4. /\ c \in Llamada /\ c.archivo = t.archivo /\ c.dirBase = t.dirBase /\ c.pos = t.pos + 1
      /\ c.nueva = t.nueva /\ c.ok = t.ok
  <2>1. t.pos + 1 \in Nat \ {0}
    BY <1>2
  <2>2. c = [t EXCEPT !.pos = @ + 1]
    OBVIOUS
  <2> HIDE DEF c
  <2> QED BY <1>2, <2>1, <2>2 DEF Llamada
<1> HIDE DEF c
<1>5. Avanza(disco, pila, n, c, pila')
  BY <1>1, <1>2, <1>3, <1>4 DEF Avanza, ConTope
<1>6. Pide(disco, pila, n) \in visitados /\ pila[n].pos \in Inclusiones(disco, pila[n].archivo)
  BY <1>1, <1>3, DestinoEs
<1>7. ASSUME Todo(disco, entrada, visitados, pila)
      PROVE  Todo(disco, entrada, visitados, pila')
  <2>1. c.nueva = pila[n].nueva /\ (c.ok <=> pila[n].ok)
    BY <1>2, <1>4
  <2> QED BY <1>2, <1>5, <1>6, <1>7, <2>1, TodoOmite
<1>8. pila' # <<>>
  <2>1. pila' = Append(Front(pila), c) /\ Front(pila) \in Seq(Llamada) /\ c \in Llamada
    BY <1>1, <1>2, <1>4, FrenteYUltimo DEF ConTope
  <2> QED BY <2>1
<1>9. ASSUME Fallida
      PROVE  Fallida'
  BY <1>1, <1>2, <1>4, <1>5, <1>9, FallidaAdelanta
<1>10. Todo(disco', entrada', visitados', pila') \/ Fallida'
  BY <1>1, <1>2, <1>7, <1>9
<1> QED BY <1>1, <1>8, <1>10, SiguePendiente

(* An include that cannot be read, or one of a circle that the system does *)
(* not open.                                                               *)
LEMMA FallarFiel ==
  ASSUME InvFiel, Fallar
  PROVE  Entera' /\ Recorrido' /\ ExpansionFiel'
<1> DEFINE n == Len(pila)
           t == Tope
           c == [t EXCEPT !.pos = @ + 1, !.ok = FALSE]
<1>1. /\ pila # <<>> /\ EnInclusion /\ ~Abierto /\ pila' = ConTope(c)
      /\ disco' = disco /\ entrada' = entrada /\ visitados' = visitados \cup {Destino} /\ resultado' = resultado
  BY DEF Fallar, EnInclusion, Quedan
<1>2. /\ disco \in Discos /\ entrada \in Principales /\ pila \in Seq(Llamada)
      /\ t = pila[n] /\ t \in Llamada /\ t.pos \in Nat \ {0}
      /\ Todo(disco, entrada, visitados, pila) \/ Fallida
  BY <1>1, TopeEs
<1>3. n = Len(pila)
  OBVIOUS
<1> HIDE DEF t, n
<1>4. /\ c \in Llamada /\ c.archivo = t.archivo /\ c.dirBase = t.dirBase /\ c.pos = t.pos + 1
      /\ c.nueva = t.nueva /\ ~c.ok
  <2>1. FALSE \in BOOLEAN /\ t.pos + 1 \in Nat \ {0}
    BY <1>2
  <2>2. c = [t EXCEPT !.pos = @ + 1, !.ok = FALSE]
    OBVIOUS
  <2> HIDE DEF c
  <2>3. /\ c \in Llamada /\ c.archivo = t.archivo /\ c.dirBase = t.dirBase /\ c.pos = t.pos + 1
        /\ c.nueva = t.nueva /\ c.ok = FALSE
    BY <1>2, <2>1, <2>2 DEF Llamada
  <2> QED BY <2>3
<1> HIDE DEF c
<1>5. Avanza(disco, pila, n, c, pila')
  BY <1>1, <1>2, <1>3, <1>4 DEF Avanza, ConTope
<1>6. /\ Destino = Pide(disco, pila, n) /\ pila[n].pos \in Inclusiones(disco, pila[n].archivo)
      /\ Legible <=> Abre(Pide(disco, pila, n)) \in Abribles(disco)
  BY <1>1, <1>3, DestinoEs
<1>7. ASSUME Todo(disco, entrada, visitados, pila), ~Legible
      PROVE  Todo(disco, entrada, visitados \cup {Pide(disco, pila, n)}, pila')
  <2>1. c.nueva = pila[n].nueva /\ ~c.ok
    BY <1>2, <1>4
  <2> QED BY <1>2, <1>5, <1>6, <1>7, <2>1, TodoFalla
<1>8. pila' # <<>>
  <2>1. pila' = Append(Front(pila), c) /\ Front(pila) \in Seq(Llamada) /\ c \in Llamada
    BY <1>1, <1>2, <1>4, FrenteYUltimo DEF ConTope
  <2> QED BY <2>1
<1>9. ASSUME Todo(disco, entrada, visitados, pila), Legible
      PROVE  CirculoConPuntos(disco, entrada)
  <2>1. SUFFICES ASSUME ~CirculoConPuntos(disco, entrada) PROVE FALSE
    OBVIOUS
  <2>2. n \in Nat /\ n \in DOMAIN pila /\ DOMAIN pila = 1 .. n
    BY <1>1, TopeEs DEF n
  <2>3. Cadena(disco, entrada, visitados, pila)
    BY <1>9 DEF Todo, Camino
  <2>4. Len(Pide(disco, pila, n).segs) <= MaxRuta /\ n < MaxAbiertos
    BY <1>2, <1>6, <2>1, <2>2, <2>3, SinCirculoCabe
  <2>5. Cabe
    BY <1>3, <1>6, <2>4 DEF Cabe
  <2> QED BY <1>1, <1>9, <2>5 DEF Abierto
<1>10. ASSUME CirculoConPuntos(disco, entrada)
       PROVE  Fallida'
  BY <1>1, <1>4, <1>5, <1>10, FallidaEmpieza
<1>11. CirculoConPuntos(disco, entrada) \/ (Todo(disco, entrada, visitados, pila) /\ ~Legible)
  BY <1>2, <1>9 DEF Fallida
<1>12. Todo(disco', entrada', visitados', pila') \/ Fallida'
  BY <1>1, <1>6, <1>7, <1>10, <1>11
<1> QED BY <1>1, <1>8, <1>12, SiguePendiente

(* A call that ends, and its caller.                                       *)
LEMMA VolverFiel ==
  ASSUME InvFiel, Volver
  PROVE  Entera' /\ Recorrido' /\ ExpansionFiel'
<1> DEFINE n == Len(pila) - 1
           u == pila[n]
           t == Tope
           c == [u EXCEPT !.pos = @ + 1, !.nueva = @ \o t.nueva, !.ok = @ /\ t.ok]
           p == SubSeq(pila, 1, Len(pila) - 2)
<1>1. /\ pila # <<>> /\ t.pos > Len(Sentencias(t.archivo)) /\ Len(pila) > 1 /\ pila' = Append(p, c)
      /\ disco' = disco /\ entrada' = entrada /\ visitados' = visitados /\ resultado' = resultado
  BY DEF Volver, Acabada
<1>2. /\ disco \in Discos /\ entrada \in Principales /\ pila \in Seq(Llamada) /\ Len(pila) \in Nat \ {0}
      /\ DOMAIN pila = 1 .. Len(pila) /\ t = pila[Len(pila)] /\ t \in Llamada /\ t.archivo \in Archivos
      /\ t.pos \in Nat \ {0} /\ t.nueva \in Seq(Origen) /\ t.ok \in BOOLEAN
      /\ Todo(disco, entrada, visitados, pila) \/ Fallida
  BY <1>1, TopeEs
<1>3. n \in Nat \ {0} /\ Len(pila) = n + 1 /\ n \in DOMAIN pila /\ u \in Llamada /\ t = pila[n + 1]
  BY <1>1, <1>2
<1>4. p \in Seq(Llamada) /\ Len(p) = n - 1 /\ \A k \in 1 .. n - 1 : p[k] = pila[k]
  <2> DEFINE m == Len(pila) - 2
  <2>1. m \in 0 .. Len(pila) /\ m = n - 1 /\ p = SubSeq(pila, 1, m)
    BY <1>1, <1>2
  <2> HIDE DEF m, p, n
  <2> QED BY <1>2, <2>1, Principio
<1>5. Len(disco[t.archivo].sents) < t.pos
  <2>1. Len(disco[t.archivo].sents) \in Nat
    BY <1>2, LugarDe
  <2> HIDE DEF t
  <2> QED BY <1>1, <1>2, <2>1 DEF Sentencias
<1> HIDE DEF n, t, p
<1>6. u = pila[n]
  OBVIOUS
<1> HIDE DEF u
<1>7. /\ c \in Llamada /\ c.archivo = u.archivo /\ c.dirBase = u.dirBase /\ c.pos = u.pos + 1
      /\ c.nueva = u.nueva \o t.nueva /\ (c.ok <=> u.ok /\ t.ok)
  <2>1. u.nueva \in Seq(Origen) /\ u.ok \in BOOLEAN /\ u.pos \in Nat \ {0} /\ u.pos + 1 \in Nat \ {0}
    BY <1>3 DEF Llamada
  <2> DEFINE b == u.ok /\ t.ok
             w == u.nueva \o t.nueva
  <2>2. b \in BOOLEAN /\ w \in Seq(Origen) /\ c = [u EXCEPT !.pos = @ + 1, !.nueva = w, !.ok = b]
    BY <1>2, <2>1
  <2> HIDE DEF b, w, c
  <2>3. /\ c \in Llamada /\ c.archivo = u.archivo /\ c.dirBase = u.dirBase /\ c.pos = u.pos + 1
        /\ c.nueva = w /\ c.ok = b
    BY <1>3, <2>1, <2>2 DEF Llamada
  <2> QED BY <2>3 DEF b, w
<1> HIDE DEF c
<1>8. ASSUME Todo(disco, entrada, visitados, pila)
      PROVE  Todo(disco, entrada, visitados, pila')
  <2>1. /\ c.archivo = pila[n].archivo /\ c.dirBase = pila[n].dirBase /\ c.pos = pila[n].pos + 1
        /\ c.nueva = pila[n].nueva \o pila[n + 1].nueva /\ (c.ok <=> pila[n].ok /\ pila[n + 1].ok)
        /\ Len(disco[pila[n + 1].archivo].sents) < pila[n + 1].pos
    BY <1>3, <1>5, <1>6, <1>7
  <2> QED BY <1>1, <1>2, <1>3, <1>4, <1>7, <1>8, <2>1, TodoVuelve
<1>9. pila' # <<>>
  BY <1>1, <1>4, <1>7
<1>10. ASSUME Fallida
       PROVE  Fallida'
  <2>1. PICK k \in DOMAIN pila : ~pila[k].ok
    BY <1>10 DEF Fallida
  <2>2. k \in 1 .. n - 1 \/ k = n \/ k = n + 1
    BY <1>2, <1>3
  <2>3. DOMAIN pila' = 1 .. n /\ pila'[n] = c /\ \A i \in 1 .. n - 1 : pila'[i] = p[i]
    BY <1>1, <1>3, <1>4, <1>7
  <2>4. CASE k \in 1 .. n - 1
    <3>1. k \in DOMAIN pila' /\ ~pila'[k].ok
      BY <1>3, <1>4, <2>1, <2>3, <2>4
    <3> QED BY <1>1, <1>10, <3>1 DEF Fallida
  <2>5. CASE k = n \/ k = n + 1
    <3>1. n \in DOMAIN pila' /\ ~pila'[n].ok
      BY <1>3, <1>6, <1>7, <2>1, <2>3, <2>5
    <3> QED BY <1>1, <1>10, <3>1 DEF Fallida
  <2> QED BY <2>2, <2>4, <2>5
<1>11. Todo(disco', entrada', visitados', pila') \/ Fallida'
  BY <1>1, <1>2, <1>8, <1>10
<1> QED BY <1>1, <1>9, <1>11, SiguePendiente

(* A file entered.                                                         *)
LEMMA EntrarFiel ==
  ASSUME InvFiel, Entrar
  PROVE  Entera' /\ Recorrido' /\ ExpansionFiel'
<1> DEFINE n == Len(pila)
           D == Destino
           c == Llamar(Abre(D), Padre(D))
<1>1. /\ pila # <<>> /\ EnInclusion /\ D \notin visitados /\ Abierto
      /\ disco' = disco /\ entrada' = entrada /\ visitados' = visitados \cup {D} /\ resultado' = resultado
      /\ pila' = Append(pila, c)
  BY DEF Entrar, EnInclusion, Quedan
<1>2. /\ disco \in Discos /\ entrada \in Principales /\ pila \in Seq(Llamada)
      /\ n \in Nat \ {0} /\ n \in DOMAIN pila /\ Tope = pila[n] /\ Tope \in Llamada
      /\ Todo(disco, entrada, visitados, pila) \/ Fallida
  BY <1>1, TopeEs
<1>3. n = Len(pila)
  OBVIOUS
<1>4. /\ D = Pide(disco, pila, n) /\ pila[n].pos \in Inclusiones(disco, pila[n].archivo)
      /\ Abre(D) \in Abribles(disco)
  BY <1>1, <1>3, DestinoEs DEF Abierto
<1>7. TypeOK
  BY DEF InvFiel, Inv
<1>8. Padre(D) \in Ruta
  BY <1>1, <1>2, <1>7, ActualTipo
<1> HIDE DEF D, n
<1>5. c \in Llamada
  <2>1. Padre(D) \in Ruta /\ Abre(D) \in Archivos
    BY <1>4, <1>8 DEF Abribles
  <2>2. <<>> \in Seq(Origen)
    OBVIOUS
  <2> QED BY <2>1, <2>2 DEF Llamar, Llamada
<1>6. pila' \in Seq(Llamada) /\ pila' # <<>>
  <2> HIDE DEF c
  <2> QED BY <1>1, <1>2, <1>5
<1>9. ASSUME Todo(disco, entrada, visitados, pila)
       PROVE  Todo(disco, entrada, visitados \cup {D}, pila')
  <2>1. Mete(disco, visitados, pila, D, pila')
    BY <1>1, <1>2, <1>3, <1>4, <1>6 DEF Mete
  <2>2. ASSUME UnTexto(disco, entrada)
        PROVE  ConSuTexto(entrada, D)
    <3> DEFINE t == pila[n]
               p == t.pos
    <3>1. EsMarco(disco, entrada, visitados, t, n)
      BY <1>2, <2>2 DEF InvFiel, Inv, Marcos
    <3>2. /\ t \in Llamada /\ p \in Inclusiones(disco, t.archivo)
          /\ D = Dividir(t.dirBase, Mod(disco, <<t.archivo, p>>))
      BY <1>2, <1>4 DEF Pide, PideEn
    <3> HIDE DEF t, p
    <3>3. Encuentra(disco, entrada, visitados, t, n, p, D)
      BY <1>2, <1>4, <2>2, <3>1, <3>2 DEF Encuentra
    <3> QED BY <3>3, IncluyeMarco
  <2> QED BY <1>2, <1>9, <2>1, <2>2, TodoMete
<1>10. ASSUME Fallida
       PROVE  Fallida'
  <2>1. PICK k \in DOMAIN pila : ~pila[k].ok
    BY <1>10 DEF Fallida
  <2> HIDE DEF c
  <2>2. k \in DOMAIN pila' /\ pila'[k] = pila[k]
    BY <1>1, <1>2, <1>5, <2>1
  <2> QED BY <1>1, <1>10, <2>1, <2>2 DEF Fallida
<1>11. Todo(disco', entrada', visitados', pila') \/ Fallida'
  BY <1>1, <1>2, <1>9, <1>10
<1> QED BY <1>1, <1>6, <1>11, SiguePendiente

(* The program is in order when each two of its statements are.            *)
EnSuOrden ==
  \A j, k \in DOMAIN programa : Precede(disco, entrada, programa[j], programa[k], j = k, j < k)

(* It is what is asked of the program.                                     *)
LEMMA OrdenDeDos == EnSuOrden => Ordenada
<1> SUFFICES ASSUME EnSuOrden,
                    NEW j \in DOMAIN programa, NEW k \in DOMAIN programa
             PROVE  /\ programa[j] = programa[k] => j = k \/ Repetible(programa[j].archivo)
                    /\ programa[j].archivo = programa[k].archivo /\ programa[j].pos < programa[k].pos
                         => j < k \/ Repetible(programa[j].archivo)
                    /\ (\E i \in Inclusiones(disco, programa[k].archivo) :
                          LET debajo == Alcanza(disco, Pasos(disco), Incluye(disco, <<programa[k].archivo, i>>))
                          IN  /\ i < programa[k].pos /\ programa[k].archivo \notin debajo
                              /\ programa[j].archivo \in debajo)
                         => j < k
  BY DEF Ordenada
<1>1. Precede(disco, entrada, programa[j], programa[k], j = k, j < k)
  BY DEF EnSuOrden
<1>2. \A a : Doble(entrada, a) <=> Repetible(a)
  BY DEF Doble, Repetible
<1> DEFINE x == programa[j]
           y == programa[k]
<1>3. /\ x = y => j = k \/ Repetible(x.archivo)
      /\ x.archivo = y.archivo /\ x.pos < y.pos => j < k \/ Repetible(x.archivo)
      /\ Tras(disco, x.archivo, y) => j < k
  <2>1. Precede(disco, entrada, x, y, j = k, j < k)
    BY <1>1
  <2> HIDE DEF x, y
  <2>2. x = y => j = k \/ Repetible(x.archivo)
    BY <1>2, <2>1 DEF Precede
  <2>3. x.archivo = y.archivo /\ x.pos < y.pos => j < k \/ Repetible(x.archivo)
    BY <1>2, <2>1 DEF Precede
  <2>4. Tras(disco, x.archivo, y) => j < k
    BY <2>1 DEF Precede
  <2> QED BY <2>2, <2>3, <2>4
<1>4. (\E i \in Inclusiones(disco, y.archivo) :
          LET debajo == Alcanza(disco, Pasos(disco), Incluye(disco, <<y.archivo, i>>))
          IN  i < y.pos /\ y.archivo \notin debajo /\ x.archivo \in debajo)
      => Tras(disco, x.archivo, y)
  BY DEF Tras, Debajo
<1> QED BY <1>3, <1>4

(* The outermost call ends without a text given up in a circle.            *)
LEMMA TerminarFiel ==
  ASSUME InvFiel, Terminar, Todo(disco, entrada, visitados, pila)
  PROVE  Entera' /\ Recorrido' /\ ExpansionFiel'
<1> DEFINE s == pila
           t == Tope
<1>1. /\ pila # <<>> /\ t.pos > Len(Sentencias(t.archivo)) /\ Len(pila) = 1 /\ pila' = <<>>
      /\ resultado' = (IF t.ok THEN "ok" ELSE "error") /\ programa' = t.nueva
      /\ disco' = disco /\ entrada' = entrada
  BY DEF Terminar, Acabada
<1>2. /\ disco \in Discos /\ entrada \in Principales /\ s \in Seq(Llamada)
      /\ DOMAIN s = {1} /\ t = s[1] /\ t.archivo \in Archivos
      /\ t.pos \in Nat \ {0} /\ t.nueva \in Seq(Origen) /\ t.ok \in BOOLEAN
      /\ Todo(disco, entrada, visitados, s)
  BY <1>1, TopeEs
<1>3. Len(disco[t.archivo].sents) < t.pos
  <2>1. Len(disco[t.archivo].sents) \in Nat
    BY <1>2, LugarDe
  <2> HIDE DEF t
  <2> QED BY <1>1, <1>2, <2>1 DEF Sentencias
<1>4. Camino(disco, entrada, visitados, s) /\ s[1].pos \in Nat /\ Len(disco[s[1].archivo].sents) < s[1].pos
  BY <1>2, <1>3 DEF Todo
<1> DEFINE leidos == Alcanzados(disco, entrada)
<1>5. /\ Range(s[1].nueva) =
           UNION {[archivo : {a}, pos : DOMAIN disco[a].sents \ Inclusiones(disco, a)] : a \in leidos}
      /\ s[1].ok <=> \A c \in Pasados(disco, entrada) : Incluye(disco, c) \in Abribles(disco)
  BY <1>2, <1>4, AlFinal
<1>6. ~CirculoConPuntos(disco, entrada)
  BY <1>2, <1>4, SinCirculoAlFinal
<1>7. resultado' \in {"ok", "error"} /\ (resultado' = "ok" <=> t.ok)
  BY <1>1
<1>8. Completa'
  <2>1. programa' = s[1].nueva
    BY <1>1, <1>2
  <2>2. resultado' = "ok" <=> \A c \in Pasados(disco, entrada) : Incluye(disco, c) \in Abribles(disco)
    BY <1>2, <1>5, <1>7
  <2> HIDE DEF s, t
  <2> QED BY <1>1, <1>5, <2>1, <2>2 DEF Completa
<1>9. ASSUME UnTexto(disco, entrada)
      PROVE  Ordenada'
  <2> DEFINE z == t.nueva
  <2>1. Colocada(disco, entrada, s)
    BY <1>2, <1>9 DEF Todo, EnOrden
  <2>2. \A j \in DOMAIN z : <<1, j>> \in Lugares(s) /\ En(s, <<1, j>>) = z[j]
    BY <1>2, LugaresDe
  <2>3. z \in Seq(Origen)
    BY <1>2
  <2> HIDE DEF s, t, z
  <2>4. ASSUME NEW j \in DOMAIN z, NEW k \in DOMAIN z
        PROVE  Precede(disco, entrada, z[j], z[k], j = k, j < k)
    <3> DEFINE l == <<1, j>>
               m == <<1, k>>
    <3>1. l \in Lugares(s) /\ m \in Lugares(s) /\ En(s, l) = z[j] /\ En(s, m) = z[k]
      BY <2>2
    <3>2. (l = m => j = k) /\ (Antes(l, m) => j < k)
      BY DEF Antes
    <3> HIDE DEF l, m
    <3>3. Precede(disco, entrada, En(s, l), En(s, m), l = m, Antes(l, m))
      BY <2>1, <3>1 DEF Colocada
    <3> QED BY <3>1, <3>2, <3>3 DEF Precede
  <2>5. programa' = z
    BY <1>1 DEF z
  <2>6. EnSuOrden'
    BY <1>1, <2>4, <2>5 DEF EnSuOrden
  <2>7. (EnSuOrden => Ordenada)'
    BY OrdenDeDos, PTL
  <2> QED BY <2>6, <2>7
<1>10. ~CirculoConPuntos(disco', entrada')
  BY <1>1, <1>6
<1>11. UnTexto(disco', entrada') => Ordenada'
  BY <1>1, <1>9
<1>12. ExpansionFiel'
  <2> HIDE DEF s, t
  <2> QED BY <1>8, <1>10, <1>11 DEF ExpansionFiel
<1>13. Entera' /\ Recorrido'
  BY <1>1, <1>7 DEF Entera, Recorrido
<1> QED BY <1>12, <1>13

(* It ends with one: an error.                                             *)
LEMMA TerminarFallida ==
  ASSUME InvFiel, Terminar, Fallida
  PROVE  Entera' /\ Recorrido' /\ ExpansionFiel'
<1>1. /\ pila # <<>> /\ Len(pila) = 1 /\ pila' = <<>> /\ disco' = disco /\ entrada' = entrada
      /\ resultado' = (IF Tope.ok THEN "ok" ELSE "error")
  BY DEF Terminar, Acabada
<1>2. DOMAIN pila = {1} /\ Tope = pila[1]
  BY <1>1, TopeEs
<1>3. CirculoConPuntos(disco', entrada') /\ ~Tope.ok
  BY <1>1, <1>2 DEF Fallida
<1>4. resultado' = "error"
  BY <1>1, <1>3
<1> QED BY <1>1, <1>3, <1>4 DEF Entera, Recorrido, ExpansionFiel

(* The invariant holds of every state.                                     *)
THEOREM InvFielSiempre == Spec => []InvFiel
<1>1. Init => InvFiel
  <2> SUFFICES ASSUME Init PROVE InvFiel
    OBVIOUS
  <2>1. Inv
    BY InvInicial
  <2>2. disco \in Discos /\ entrada \in Principales /\ resultado = "pendiente"
        /\ pila = <<Llamar(Abre(entrada), Padre(entrada))>> /\ visitados = {Absoluta(entrada)}
    BY DEF Init
  <2>3. Todo(disco, entrada, visitados, pila)
    BY <2>2, TodoEmpieza
  <2>4. pila # <<>>
    BY <2>2
  <2> QED BY <2>1, <2>2, <2>3, <2>4 DEF InvFiel, Entera, Recorrido, ExpansionFiel
<1>2. InvFiel /\ [Next]_vars => InvFiel'
  <2> SUFFICES ASSUME InvFiel, [Next]_vars PROVE InvFiel'
    OBVIOUS
  <2>0. Inv
    BY DEF InvFiel
  <2>1. Inv'
    BY <2>0, InvSigue
  <2>2. Entera' /\ Recorrido' /\ ExpansionFiel'
    <3>1. CASE Copiar
      BY <3>1, CopiarFiel
    <3>2. CASE Omitir
      BY <3>2, OmitirFiel
    <3>3. CASE Fallar
      BY <3>3, FallarFiel
    <3>4. CASE Entrar
      BY <3>4, EntrarFiel
    <3>5. CASE Volver
      BY <3>5, VolverFiel
    <3>6. CASE Terminar
      <4>1. pila # <<>>
        BY <3>6 DEF Terminar, Acabada
      <4>2. Todo(disco, entrada, visitados, pila) \/ Fallida
        BY <4>1, TopeEs
      <4> QED BY <3>6, <4>2, TerminarFiel, TerminarFallida
    <3>7. CASE UNCHANGED vars
      <4>1. /\ disco' = disco /\ entrada' = entrada /\ pila' = pila /\ visitados' = visitados
            /\ resultado' = resultado /\ programa' = programa
        BY <3>7 DEF vars
      <4>2. Entera'
        BY <4>1 DEF InvFiel, Entera
      <4>3. Recorrido'
        <5>1. pila # <<>> => Todo(disco', entrada', visitados', pila') \/ Fallida
          BY <4>1 DEF InvFiel, Recorrido
        <5>2. Fallida <=> Fallida'
          BY <4>1 DEF Fallida
        <5> QED BY <4>1, <5>1, <5>2 DEF Recorrido
      <4>4. ExpansionFiel'
        BY <4>1 DEF InvFiel, ExpansionFiel, Completa, Ordenada, Repetible
      <4> QED BY <4>2, <4>3, <4>4
    <3> QED BY <3>1, <3>2, <3>3, <3>4, <3>5, <3>6, <3>7 DEF Next
  <2> QED BY <2>1, <2>2 DEF InvFiel
<1> QED BY <1>1, <1>2, PTL DEF Spec

(* Whatever the files, and whatever the lengths and the open files of the   *)
(* system if they are enough when no circle makes a text grow: a circle of  *)
(* relative includes that passes one with "." or ".." ends in an error;     *)
(* otherwise the program has the statements of every file reached, in their *)
(* order, and is accepted exactly when all of them can be read.  (Code: the *)
(* splicing, the `ok` and `visitados` of procesarInclusioneesLat.)          *)
THEOREM ExpansionSiempreFiel == Spec => []ExpansionFiel
<1>1. InvFiel => ExpansionFiel
  BY DEF InvFiel
<1> QED BY <1>1, InvFielSiempre, PTL

=============================================================================
