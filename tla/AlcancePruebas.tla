-------------------------- MODULE AlcancePruebas --------------------------
(***************************************************************************)
(* Proofs about names and contexts: what the analyzer keeps while it walks *)
(* is what the tree says, its verdict is the one the rules give, and what  *)
(* it accepts goes to the same cells in both back ends, for every program. *)
(***************************************************************************)
EXTENDS Alcance, FiniteSetTheorems, SequenceTheorems, WellFoundedInduction, TLAPS

(* The stack of blocks under way is that of the tree, each at its depth.    *)
PilaFiel ==
  /\ Len(abiertos) = Nivel(programa, pos - 1)
  /\ \A k \in DOMAIN abiertos :
       abiertos[k] \in Abiertos(programa, pos) /\ Nivel(programa, abiertos[k]) = k
  /\ \A j \in Abiertos(programa, pos) : \E k \in DOMAIN abiertos : abiertos[k] = j

(* The counters count the open blocks of their kind, there is a scope for   *)
(* every frame, and `este` is the object of a method that is open.          *)
Sena(c) == IF c = "bucle" THEN Bucles ELSE IF c = "funcion" THEN Funcionales
           ELSE IF c = "variadica" THEN {"variadico"} ELSE {"inseguro"}
Aporta(s) == {c \in Cuentas : Sena(c) \cap ({s.op} \cup s.marcas) # {}}
Cuantos(p, S, c) == Cardinality({j \in S : c \in Aporta(p[j])})
CuentasFieles ==
  /\ profundidad = [c \in Cuentas |-> Cuantos(programa, Abiertos(programa, pos), c)]
  /\ Len(ambitos) = Cardinality(Marcos(programa, pos))
  /\ instancia <=> \E j \in Abiertos(programa, pos) : MetodoDeInstancia(programa, j)

(* What recolectarFunciones leaves.                                         *)
TablasFieles ==
  /\ funciones = Tabla("funcion") /\ externas = Tabla("externa")
  /\ errores = {} => \A j, k \in DOMAIN programa :
       programa[j].op \in Definiciones /\ programa[k].op \in Definiciones
         /\ programa[j].x = programa[k].x => j = k

(* No rule is broken at visit i.                                            *)
Sana(p, i) == (ReglaRota(p, i) => ContextoPrestado(p, i)) /\ ~ ConstanteAjena(p, i)

(* The names declared before visit i in one of the frames ds.               *)
DeclaradasEn(p, i, ds) == {x \in Nombres : \E d \in Declaraciones(p, x) : d[1] < i /\ d[2] \in ds}

(* The scopes are the frames around the visit, outermost first, and each    *)
(* adds to those before it what its frame declares anew.                    *)
AmbitosDe(ms) ==
  /\ DOMAIN ms = DOMAIN ambitos
  /\ \A k \in DOMAIN ms : ms[k] \in Marcos(programa, pos)
  /\ \A d \in Marcos(programa, pos) : \E k \in DOMAIN ms : ms[k] = d
  /\ \A j, k \in DOMAIN ms : j < k => ms[j] < ms[k]
  /\ \A k \in DOMAIN ms :
       UNION {ambitos[j] : j \in 1 .. k} = DeclaradasEn(programa, pos, {ms[j] : j \in 1 .. k})
AmbitosFieles == \E ms \in [DOMAIN ambitos -> 0 .. Len(programa)] : AmbitosDe(ms)

(* As long as nothing has been reported.                                    *)
SinErrores ==
  /\ \A i \in 1 .. pos - 1 : Sana(programa, i)
  /\ constantes = {x \in Nombres : \E j \in 1 .. pos - 1 : HaceConstante(programa, j, x)}
  /\ AmbitosFieles

Inv ==
  /\ TypeOK /\ programa \in Programas
  /\ fase = "recolectar" =>
       /\ pos = 1 /\ abiertos = <<>> /\ ambitos = <<>> /\ constantes = {} /\ errores = {}
       /\ profundidad = [c \in Cuentas |-> 0] /\ instancia = FALSE
  /\ fase = "visitar" => PilaFiel /\ CuentasFieles /\ TablasFieles /\ (errores = {} => SinErrores)
  /\ fase = "fin" /\ errores = {} => \A i \in DOMAIN programa : Sana(programa, i)
  /\ errores # {} => \E i \in DOMAIN programa : ~ Sana(programa, i)

(* A nonempty set of natural numbers has a least element.                   *)
LEMMA Minimo ==
  ASSUME NEW T \in SUBSET Nat, T # {}
  PROVE  Min(T) \in T /\ \A y \in T : Min(T) <= y
<1> DEFINE R == OpToRel(<, Nat)
<1>1. IsWellFoundedOn(R, Nat)
  BY NatLessThanWellFounded
<1>2. PICK x \in T : \A y \in T : ~ (<<y, x>> \in R)
  <2> HIDE DEF R
  <2> QED BY <1>1, WFMin
<1>3. \A y \in T : ~ (y < x)
  BY <1>2 DEF OpToRel
<1>4. \A y \in T : x <= y
  BY <1>3
<1> QED BY <1>4 DEF Min

(* A nonempty set of naturals with a bound has a greatest element.          *)
LEMMA Maximo ==
  ASSUME NEW n \in Nat, NEW T \in SUBSET (0 .. n), T # {}
  PROVE  Max(T) \in T /\ \A y \in T : y <= Max(T)
<1> DEFINE U == {n - k : k \in T}
<1> HIDE DEF U
<1>1. \A k \in T : k \in Nat /\ k <= n /\ n - k \in Nat
  OBVIOUS
<1>2. U \in SUBSET Nat /\ U # {}
  BY <1>1 DEF U
<1>3. PICK u \in U : \A v \in U : u <= v
  BY <1>2, Minimo
<1>4. PICK x \in T : u = n - x
  BY <1>3 DEF U
<1>5. \A y \in T : x >= y
  <2> TAKE y \in T
  <2>1. n - x <= n - y
    BY <1>3, <1>4 DEF U
  <2> QED BY <1>1, <2>1
<1>6. Max(T) \in T /\ \A y \in T : Max(T) >= y
  BY <1>5 DEF Max
<1>7. \A y \in T : y \in Int
  BY <1>1
<1> QED BY <1>6, <1>7

(* A sequence without its last element.                                     *)
LEMMA SinElUltimo ==
  ASSUME NEW S, NEW s \in Seq(S), Len(s) # 0
  PROVE  /\ Len(s) \in Nat /\ Len(s) # 0 /\ Front(s) \in Seq(S) /\ Len(Front(s)) = Len(s) - 1
         /\ \A k \in 1 .. Len(s) - 1 : Front(s)[k] = s[k]
<1>1. Len(s) \in Nat /\ Len(s) # 0 /\ Len(s) - 1 \in Int /\ 1 \in Int
  BY LenProperties
<1>2. \A k \in 1 .. Len(s) - 1 : s[k] \in S
  BY <1>1, ElementOfSeq
<1>3. /\ SubSeq(s, 1, Len(s) - 1) \in Seq(S)
      /\ Len(SubSeq(s, 1, Len(s) - 1)) = IF 1 <= Len(s) - 1 THEN Len(s) - 1 - 1 + 1 ELSE 0
      /\ \A i \in 1 .. Len(s) - 1 - 1 + 1 : SubSeq(s, 1, Len(s) - 1)[i] = s[1 + i - 1]
  BY <1>1, <1>2, SubSeqProperties
<1>4. Len(SubSeq(s, 1, Len(s) - 1)) = Len(s) - 1
  <2>1. Len(SubSeq(s, 1, Len(s) - 1)) = IF 1 <= Len(s) - 1 THEN Len(s) - 1 - 1 + 1 ELSE 0
    BY <1>3
  <2>2. (IF 1 <= Len(s) - 1 THEN Len(s) - 1 - 1 + 1 ELSE 0) = Len(s) - 1
    <3>1. \A n \in Nat \ {0} : (IF 1 <= n - 1 THEN n - 1 - 1 + 1 ELSE 0) = n - 1
      OBVIOUS
    <3> QED BY <1>1, <3>1
  <2> QED BY <2>1, <2>2
<1>5. \A i \in 1 .. Len(s) - 1 : SubSeq(s, 1, Len(s) - 1)[i] = s[i]
  <2> TAKE i \in 1 .. Len(s) - 1
  <2>1. i \in 1 .. Len(s) - 1 - 1 + 1 /\ 1 + i - 1 = i
    BY <1>1
  <2> QED BY <1>3, <2>1
<1> QED BY <1>1, <1>3, <1>4, <1>5 DEF Front

-----------------------------------------------------------------------------
(* Blocks and depths.                                                       *)

(* The depth after one more visit.                                          *)
LEMMA NivelPaso ==
  ASSUME NEW p \in Seq(Suceso)
  PROVE  /\ Nivel(p, 0) = 0
         /\ \A k \in 0 .. Len(p) : Nivel(p, k) \in Int
         /\ \A k \in 1 .. Len(p) :
              Nivel(p, k) = Nivel(p, k - 1) + (IF p[k].op \in Aperturas THEN 1
                                               ELSE IF p[k].op = "fin" THEN -1 ELSE 0)
<1> DEFINE A(k) == {j \in 1 .. k : p[j].op \in Aperturas}
           F(k) == {j \in 1 .. k : p[j].op = "fin"}
<1>0. Len(p) \in Nat
  BY LenProperties
<1>1. \A k \in 0 .. Len(p) : IsFiniteSet(A(k)) /\ IsFiniteSet(F(k))
  <2> TAKE k \in 0 .. Len(p)
  <2>1. IsFiniteSet(1 .. k)
    BY <1>0, FS_Interval
  <2> QED BY <2>1, FS_Subset
<1>2. \A k \in 0 .. Len(p) : Cardinality(A(k)) \in Nat /\ Cardinality(F(k)) \in Nat
  BY <1>1, FS_CardinalityType
<1>3. A(0) = {} /\ F(0) = {}
  OBVIOUS
<1>4. Nivel(p, 0) = 0
  BY <1>3, FS_EmptySet DEF Nivel
<1>5. \A k \in 0 .. Len(p) : Nivel(p, k) \in Int
  BY <1>2 DEF Nivel
<1>6. ASSUME NEW k \in 1 .. Len(p)
      PROVE  Nivel(p, k) = Nivel(p, k - 1) + (IF p[k].op \in Aperturas THEN 1
                                              ELSE IF p[k].op = "fin" THEN -1 ELSE 0)
  <2>0. k - 1 \in 0 .. Len(p) /\ k \notin 1 .. k - 1 /\ 1 .. k = (1 .. k - 1) \cup {k}
    BY <1>0
  <2>1. "fin" \notin Aperturas
    BY DEF Aperturas, Bucles, Funcionales
  <2>2. A(k) = IF p[k].op \in Aperturas THEN A(k - 1) \cup {k} ELSE A(k - 1)
    BY <2>0
  <2>3. F(k) = IF p[k].op = "fin" THEN F(k - 1) \cup {k} ELSE F(k - 1)
    BY <2>0
  <2>4. Cardinality(A(k - 1) \cup {k}) = Cardinality(A(k - 1)) + 1
    BY <1>1, <2>0, FS_AddElement
  <2>5. Cardinality(F(k - 1) \cup {k}) = Cardinality(F(k - 1)) + 1
    BY <1>1, <2>0, FS_AddElement
  <2>6. Cardinality(A(k - 1)) \in Nat /\ Cardinality(F(k - 1)) \in Nat
    BY <1>2, <2>0
  <2>7. Nivel(p, k) = Cardinality(A(k)) - Cardinality(F(k))
        /\ Nivel(p, k - 1) = Cardinality(A(k - 1)) - Cardinality(F(k - 1))
    BY DEF Nivel
  <2> HIDE DEF A, F
  <2> QED BY <2>1, <2>2, <2>3, <2>4, <2>5, <2>6, <2>7
<1> QED BY <1>4, <1>5, <1>6

(* The blocks open at a visit come before it, are finite in number, and     *)
(* were open at every visit in between.                                     *)
LEMMA AbiertosTipo ==
  ASSUME NEW p \in Seq(Suceso), NEW i \in 1 .. Len(p) + 1
  PROVE  /\ Abiertos(p, i) \subseteq 1 .. i - 1
         /\ Abiertos(p, i) \subseteq DOMAIN p
         /\ IsFiniteSet(Abiertos(p, i))
         /\ \A j \in Abiertos(p, i) : p[j].op \in Aperturas
         /\ \A j \in Abiertos(p, i), m \in 1 .. i - 1 : j < m => j \in Abiertos(p, m)
<1>1. Len(p) \in Nat /\ DOMAIN p = 1 .. Len(p)
  BY LenProperties
<1>2. Abiertos(p, i) \subseteq 1 .. i - 1
  BY DEF Abiertos
<1>3. IsFiniteSet(1 .. i - 1)
  BY <1>1, FS_Interval
<1>4. IsFiniteSet(Abiertos(p, i))
  BY <1>2, <1>3, FS_Subset
<1>5. \A j \in Abiertos(p, i), m \in 1 .. i - 1 : j < m => j \in Abiertos(p, m)
  BY <1>1 DEF Abiertos
<1>6. \A j \in Abiertos(p, i) : p[j].op \in Aperturas
  BY DEF Abiertos
<1>7. 1 .. i - 1 \subseteq DOMAIN p
  BY <1>1
<1> QED BY <1>2, <1>4, <1>5, <1>6, <1>7

(* The blocks open after a visit that opens one, after one that closes one, *)
(* and after any other.                                                     *)
LEMMA AbiertosPaso ==
  ASSUME NEW p \in Seq(Suceso), NEW i \in 1 .. Len(p)
  PROVE  /\ p[i].op \in Aperturas => Abiertos(p, i + 1) = Abiertos(p, i) \cup {i}
         /\ p[i].op = "fin" =>
              Abiertos(p, i + 1) = {j \in Abiertos(p, i) : Nivel(p, j) <= Nivel(p, i)}
         /\ p[i].op \notin Aperturas \cup {"fin"} => Abiertos(p, i + 1) = Abiertos(p, i)
<1>1. Len(p) \in Nat /\ "fin" \notin Aperturas
  BY LenProperties DEF Aperturas, Bucles, Funcionales
<1>2. /\ Nivel(p, i) \in Int /\ Nivel(p, i - 1) \in Int
      /\ \A j \in 1 .. i - 1 : Nivel(p, j) \in Int
      /\ p[i].op \in Aperturas => Nivel(p, i) = Nivel(p, i - 1) + 1
      /\ p[i].op \notin Aperturas \cup {"fin"} => Nivel(p, i) = Nivel(p, i - 1)
  BY <1>1, NivelPaso
<1>3. \A j \in 1 .. i - 1 : i - 1 \in j .. i - 1 /\ j .. i = (j .. i - 1) \cup {i}
  BY <1>1
<1>4. \A j \in 1 .. i - 1 :
        j \in Abiertos(p, i + 1) <=> j \in Abiertos(p, i) /\ Nivel(p, i) >= Nivel(p, j)
  <2> TAKE j \in 1 .. i - 1
  <2>1. (i + 1) - 1 = i /\ j \in 1 .. (i + 1) - 1
    BY <1>1
  <2> QED BY <1>3, <2>1 DEF Abiertos
<1>5. i \in Abiertos(p, i + 1) <=> p[i].op \in Aperturas
  <2>1. (i + 1) - 1 = i /\ i \in 1 .. (i + 1) - 1 /\ i .. i = {i}
    BY <1>1
  <2> QED BY <1>2, <2>1 DEF Abiertos
<1>6. Abiertos(p, i) \subseteq 1 .. i - 1 /\ Abiertos(p, i + 1) \subseteq (1 .. i - 1) \cup {i}
  BY <1>1 DEF Abiertos
<1>7. \A j \in Abiertos(p, i) : Nivel(p, i - 1) >= Nivel(p, j)
  BY <1>3, <1>6 DEF Abiertos
<1>8. p[i].op \notin Aperturas \cup {"fin"} => Abiertos(p, i + 1) = Abiertos(p, i)
  BY <1>2, <1>4, <1>5, <1>6, <1>7
<1>9. p[i].op \in Aperturas => Abiertos(p, i + 1) = Abiertos(p, i) \cup {i}
  BY <1>2, <1>4, <1>5, <1>6, <1>7
<1>10. p[i].op = "fin" => Abiertos(p, i + 1) = {j \in Abiertos(p, i) : Nivel(p, j) <= Nivel(p, i)}
  BY <1>1, <1>2, <1>4, <1>5, <1>6
<1> QED BY <1>8, <1>9, <1>10


-----------------------------------------------------------------------------
(* Functions around a visit.                                                *)

(* The function a visit belongs to is the innermost it lies in.             *)
LEMMA DuenoEsElUltimo ==
  ASSUME NEW p \in Seq(Suceso), NEW i \in 1 .. Len(p) + 1
  PROVE  /\ Marcos(p, i) \subseteq 0 .. i - 1
         /\ IsFiniteSet(Marcos(p, i))
         /\ Dueno(p, i) \in Marcos(p, i)
         /\ \A d \in Marcos(p, i) : d <= Dueno(p, i)
         /\ Dueno(p, i) \in 0 .. i - 1
         /\ Dueno(p, i) # 0 => Dueno(p, i) \in Abiertos(p, i) /\ p[Dueno(p, i)].op \in Funcionales
         /\ Dueno(p, i) # 0 <=> \E j \in Abiertos(p, i) : p[j].op \in Funcionales
<1>1. Len(p) \in Nat
  BY LenProperties
<1>2. Abiertos(p, i) \subseteq 1 .. i - 1 /\ IsFiniteSet(Abiertos(p, i))
  BY AbiertosTipo
<1>3. Marcos(p, i) \subseteq 0 .. i - 1 /\ 0 \in Marcos(p, i)
  BY <1>1, <1>2 DEF Marcos
<1>4. IsFiniteSet({j \in Abiertos(p, i) : p[j].op \in Funcionales})
  BY <1>2, FS_Subset
<1>5. IsFiniteSet(Marcos(p, i))
  <2>1. IsFiniteSet({j \in Abiertos(p, i) : p[j].op \in Funcionales} \cup {0})
    BY <1>4, FS_AddElement
  <2>2. Marcos(p, i) = {j \in Abiertos(p, i) : p[j].op \in Funcionales} \cup {0}
    BY DEF Marcos
  <2> QED BY <2>1, <2>2
<1>6. i - 1 \in Nat /\ Marcos(p, i) \in SUBSET (0 .. i - 1) /\ Marcos(p, i) # {}
  BY <1>1, <1>3
<1>7. Dueno(p, i) \in Marcos(p, i) /\ \A d \in Marcos(p, i) : d <= Dueno(p, i)
  BY <1>6, Maximo DEF Dueno
<1>8. Dueno(p, i) \in 0 .. i - 1 /\ \A d \in Marcos(p, i) : d <= Dueno(p, i)
  BY <1>1, <1>3, <1>7
<1>9. Dueno(p, i) # 0 => Dueno(p, i) \in Abiertos(p, i) /\ p[Dueno(p, i)].op \in Funcionales
  BY <1>7 DEF Marcos
<1>10. ASSUME NEW j \in Abiertos(p, i), p[j].op \in Funcionales PROVE Dueno(p, i) # 0
  <2>1. j \in Marcos(p, i) /\ j \in 1 .. i - 1
    BY <1>2, <1>10 DEF Marcos
  <2> QED BY <1>8, <2>1
<1> QED BY <1>3, <1>5, <1>7, <1>8, <1>9, <1>10


-----------------------------------------------------------------------------
(* The state while the walk is under way.                                   *)

(* What is known of the state at a visit.                                   *)
LEMMA EnVisita ==
  ASSUME Inv, fase = "visitar"
  PROVE  /\ programa \in Seq(Suceso) /\ BienFormado(programa) /\ Len(programa) \in Nat
         /\ DOMAIN programa = 1 .. Len(programa) /\ pos \in 1 .. Len(programa) + 1
         /\ abiertos \in Seq(DOMAIN programa) /\ Len(abiertos) \in Nat
         /\ ambitos \in Seq(SUBSET Nombres) /\ Len(ambitos) \in Nat /\ Len(ambitos) # 0
         /\ Len(ambitos) = Cardinality(Marcos(programa, pos))
         /\ PilaFiel /\ CuentasFieles /\ TablasFieles /\ (errores = {} => SinErrores)
<1>1. /\ programa \in Seq(Suceso) /\ BienFormado(programa) /\ pos \in 1 .. Len(programa) + 1
      /\ abiertos \in Seq(DOMAIN programa) /\ ambitos \in Seq(SUBSET Nombres)
  BY AlcanceAssumption DEF Inv, TypeOK
<1>2. PilaFiel /\ CuentasFieles /\ TablasFieles /\ (errores = {} => SinErrores)
  BY DEF Inv
<1>3. Len(ambitos) = Cardinality(Marcos(programa, pos))
  BY <1>2 DEF CuentasFieles
<1>4. Len(programa) \in Nat /\ DOMAIN programa = 1 .. Len(programa)
      /\ Len(abiertos) \in Nat /\ Len(ambitos) \in Nat
  BY <1>1, LenProperties
<1>5. IsFiniteSet(Marcos(programa, pos)) /\ Marcos(programa, pos) # {}
  BY <1>1, DuenoEsElUltimo
<1>6. Len(ambitos) # 0
  BY <1>3, <1>5, FS_EmptySet
<1> QED BY <1>1, <1>2, <1>3, <1>4, <1>6

(* The visit in hand.                                                       *)
LEMMA EnMano ==
  ASSUME Inv, NEW ops, Visita(ops)
  PROVE  /\ fase = "visitar" /\ pos \in 1 .. Len(programa) /\ pos \in DOMAIN programa
         /\ Actual = programa[pos] /\ Actual \in Suceso /\ Actual.op \in ops
         /\ (pos + 1) - 1 = pos /\ pos + 1 \in 1 .. Len(programa) + 1
         /\ Actual.ps \in Seq(Nombres) /\ Actual.x \in Nombres \cup {""}
         /\ Actual.op \in Definiciones \cup {"asigna", "para"} => Actual.x \in Nombres
         /\ Actual.op \in Aperturas \ Funcionales => Actual.marcas = {}
<1>1. fase = "visitar" /\ pos <= Len(programa) /\ Actual.op \in ops /\ Actual = programa[pos]
  BY DEF Visita, Actual
<1>2. pos \in 1 .. Len(programa) /\ pos + 1 \in 1 .. Len(programa) + 1 /\ pos \in DOMAIN programa
      /\ (pos + 1) - 1 = pos
  BY <1>1, EnVisita
<1>3. Actual \in Suceso
  BY <1>1, <1>2, EnVisita, ElementOfSeq
<1>4. Actual.ps \in Seq(Nombres) /\ Actual.x \in Nombres \cup {""}
  BY <1>3 DEF Suceso
<1>5. /\ Actual.op \in Definiciones \cup {"asigna", "para"} => Actual.x \in Nombres
      /\ Actual.op \in Aperturas \ Funcionales => Actual.marcas = {}
  BY <1>1, <1>2, EnVisita DEF BienFormado
<1> QED BY <1>1, <1>2, <1>3, <1>4, <1>5

(* The block a visit ends is the innermost one, the last of the stack.      *)
LEMMA AlCerrar ==
  ASSUME Inv, Visita({"fin"})
  PROVE  /\ Len(abiertos) \in Nat /\ Len(abiertos) # 0 /\ Last(abiertos) = abiertos[Len(abiertos)]
         /\ Last(abiertos) \in Abiertos(programa, pos)
         /\ Last(abiertos) \in 1 .. pos - 1 /\ Last(abiertos) \in DOMAIN programa
         /\ programa[Last(abiertos)].op \in Aperturas
         /\ \A j \in Abiertos(programa, pos) : j <= Last(abiertos)
         /\ Abiertos(programa, pos + 1) = Abiertos(programa, pos) \ {Last(abiertos)}
         /\ Front(abiertos) \in Seq(DOMAIN programa) /\ Len(Front(abiertos)) = Len(abiertos) - 1
         /\ \A k \in 1 .. Len(abiertos) - 1 : Front(abiertos)[k] = abiertos[k]
<1> DEFINE p == programa
           m == abiertos[Len(abiertos)]
           n == Len(abiertos)
<1>1. fase = "visitar" /\ pos \in 1 .. Len(p) /\ pos \in DOMAIN p /\ p[pos].op = "fin"
  BY EnMano
<1>2. p \in Seq(Suceso) /\ n \in Nat /\ BienAnidado(p) /\ n = Nivel(p, pos - 1)
  BY <1>1, EnVisita DEF BienFormado, PilaFiel
<1>3. "fin" \notin Aperturas
  BY DEF Aperturas, Bucles, Funcionales
<1>4. Nivel(p, pos) >= 0 /\ Nivel(p, pos) = n - 1
  <2>1. Nivel(p, pos) = Nivel(p, pos - 1) + (-1)
    BY <1>1, <1>2, <1>3, NivelPaso
  <2> QED BY <1>1, <1>2, <2>1 DEF BienAnidado
<1>5. n \in Nat /\ n # 0 /\ n \in 1 .. n
  BY <1>2, <1>4
<1>6. \A k \in 1 .. n : abiertos[k] \in Abiertos(p, pos) /\ Nivel(p, abiertos[k]) = k
  <2>1. DOMAIN abiertos = 1 .. n
    BY <1>1, EnVisita, LenProperties
  <2> QED BY <1>1, <2>1, EnVisita DEF PilaFiel
<1>7. \A j \in Abiertos(p, pos) : \E k \in 1 .. n : abiertos[k] = j
  <2>1. DOMAIN abiertos = 1 .. n
    BY <1>1, EnVisita, LenProperties
  <2> QED BY <1>1, <2>1, EnVisita DEF PilaFiel
<1>8. m \in Abiertos(p, pos) /\ Nivel(p, m) = n
  BY <1>5, <1>6
<1>9. Abiertos(p, pos) \subseteq 1 .. pos - 1 /\ Abiertos(p, pos) \subseteq DOMAIN p
      /\ p[m].op \in Aperturas
  BY <1>1, <1>2, <1>8, AbiertosTipo
<1>10. \A j \in Abiertos(p, pos) : j <= m
  <2> SUFFICES ASSUME NEW j \in Abiertos(p, pos), m < j PROVE FALSE
    BY <1>1, <1>8, <1>9
  <2>1. PICK k \in 1 .. n : abiertos[k] = j
    BY <1>7
  <2>2. Nivel(p, j) = k
    BY <1>6, <2>1
  <2>3. j \in m .. pos - 1
    BY <1>1, <1>8, <1>9
  <2>4. Nivel(p, j) >= Nivel(p, m)
    BY <1>8, <2>3 DEF Abiertos
  <2>5. k = n
    BY <1>5, <1>8, <2>1, <2>2, <2>4
  <2> QED BY <1>1, <1>8, <1>9, <2>1, <2>5
<1>11. Abiertos(p, pos + 1) = {j \in Abiertos(p, pos) : Nivel(p, j) <= n - 1}
  BY <1>1, <1>2, <1>4, AbiertosPaso
<1>12. \A j \in Abiertos(p, pos) : Nivel(p, j) <= n - 1 <=> j # m
  <2> TAKE j \in Abiertos(p, pos)
  <2>1. PICK k \in 1 .. n : abiertos[k] = j
    BY <1>7
  <2>2. Nivel(p, j) = k
    BY <1>6, <2>1
  <2> QED BY <1>5, <1>8, <2>1, <2>2
<1>13. Abiertos(p, pos + 1) = Abiertos(p, pos) \ {m}
  BY <1>11, <1>12
<1>14. /\ Front(abiertos) \in Seq(DOMAIN p) /\ Len(Front(abiertos)) = n - 1
       /\ \A k \in 1 .. n - 1 : Front(abiertos)[k] = abiertos[k]
  BY <1>1, <1>5, EnVisita, SinElUltimo
<1> QED BY <1>5, <1>8, <1>9, <1>10, <1>13, <1>14 DEF Last


-----------------------------------------------------------------------------
(* Types.                                                                   *)

Clases == {"repetida", "noDeclarada", "noDefinida", "aridad", "inseguro", "constante", "global",
           "duplicado", "romper", "retornar", "varargs", "este"}

(* A name declared in the innermost scope.                                  *)
LEMMA DeclararTipo ==
  ASSUME Inv, fase = "visitar", NEW x \in Nombres, NEW c \in BOOLEAN, Declarar(x, c)
  PROVE  /\ ambitos' \in Seq(SUBSET Nombres) /\ Len(ambitos') = Len(ambitos)
         /\ DOMAIN ambitos' = DOMAIN ambitos
         /\ \A k \in 1 .. Len(ambitos) - 1 : ambitos'[k] = ambitos[k]
         /\ x \notin constantes => ambitos'[Len(ambitos)] = ambitos[Len(ambitos)] \cup {x}
         /\ x \in constantes => ambitos' = ambitos
         /\ constantes' = constantes \cup IF x \notin constantes /\ (c \/ x \in Mayusculas)
                                          THEN {x} ELSE {}
         /\ constantes' \subseteq Nombres
<1>1. /\ ambitos \in Seq(SUBSET Nombres) /\ Len(ambitos) \in Nat /\ Len(ambitos) # 0 /\ constantes \subseteq Nombres
      /\ DOMAIN ambitos = 1 .. Len(ambitos)
  BY EnVisita, LenProperties DEF Inv, TypeOK
<1>2. CASE x \in constantes
  BY <1>1, <1>2 DEF Declarar
<1>3. CASE x \notin constantes
  <2> DEFINE n == Len(ambitos)
             a == [ambitos EXCEPT ![n] = @ \cup {x}]
  <2>1. n \in 1 .. n /\ ambitos[n] \in SUBSET Nombres
    BY <1>1, ElementOfSeq
  <2>2. ambitos' = a /\ constantes' = constantes \cup Si(c \/ x \in Mayusculas, x)
    BY <1>3 DEF Declarar
  <2>3. ambitos[n] \cup {x} \in SUBSET Nombres
    BY <2>1
  <2>4. a \in Seq(SUBSET Nombres) /\ Len(a) = n /\ DOMAIN a = DOMAIN ambitos
        /\ a[n] = ambitos[n] \cup {x} /\ \A k \in 1 .. n - 1 : a[k] = ambitos[k]
    <3>1. a = [ambitos EXCEPT ![n] = ambitos[n] \cup {x}]
      BY <1>1, <2>1
    <3>2. [ambitos EXCEPT ![n] = ambitos[n] \cup {x}] \in Seq(SUBSET Nombres)
          /\ Len([ambitos EXCEPT ![n] = ambitos[n] \cup {x}]) = n
      BY <1>1, <2>1, <2>3, ExceptSeq
    <3>3. \A k \in 1 .. n - 1 : k \in DOMAIN ambitos /\ k # n
      <4>1. \A m \in Nat : \A k \in 1 .. m - 1 : k \in 1 .. m /\ k # m
        OBVIOUS
      <4> QED BY <1>1, <4>1
    <3> QED BY <1>1, <2>1, <3>1, <3>2, <3>3
  <2> HIDE DEF a
  <2>5. constantes' \subseteq Nombres
    BY <1>1, <2>2 DEF Si
  <2> QED BY <1>3, <2>2, <2>4, <2>5 DEF Si
<1> QED BY <1>2, <1>3

(* What is reported has its type.                                           *)
LEMMA ReportaTipo ==
  ASSUME Inv, NEW ops, Visita(ops), programa' = programa, NEW cs, cs \subseteq Clases, Reporta(cs)
  PROVE  errores' \subseteq (DOMAIN programa') \X Clases
<1>1. errores \subseteq (DOMAIN programa) \X Clases /\ pos \in DOMAIN programa
  BY EnMano DEF Inv, TypeOK, Clases
<1>2. \A k \in cs : <<pos, k>> \in (DOMAIN programa) \X Clases
  BY <1>1
<1> QED BY <1>1, <1>2 DEF Reporta

(* The stack one longer, or one shorter.                                    *)
LEMMA EntraTipo ==
  ASSUME Inv, NEW ops, Visita(ops), Entra
  PROVE  /\ abiertos' \in Seq(DOMAIN programa) /\ Len(abiertos') = Len(abiertos) + 1
         /\ DOMAIN abiertos' = 1 .. Len(abiertos) + 1
         /\ \A k \in 1 .. Len(abiertos) : abiertos'[k] = abiertos[k]
         /\ abiertos'[Len(abiertos) + 1] = pos
<1>1. abiertos \in Seq(DOMAIN programa) /\ pos \in DOMAIN programa /\ abiertos' = Append(abiertos, pos)
  BY EnMano, EnVisita DEF Entra
<1>2. /\ abiertos' \in Seq(DOMAIN programa) /\ Len(abiertos') = Len(abiertos) + 1
      /\ \A k \in 1 .. Len(abiertos) : abiertos'[k] = abiertos[k]
      /\ abiertos'[Len(abiertos) + 1] = pos
  BY <1>1, AppendProperties
<1>3. DOMAIN abiertos' = 1 .. Len(abiertos')
  BY <1>2, LenProperties
<1> QED BY <1>2, <1>3

(* The scopes one longer for a function's body.                             *)
LEMMA ParametrosTipo ==
  ASSUME Inv, Visita(Funcionales), DeclararParametros(Actual.ps)
  PROVE  /\ ToSet(Actual.ps) \subseteq Nombres
         /\ ambitos' \in Seq(SUBSET Nombres) /\ Len(ambitos') = Len(ambitos) + 1
         /\ DOMAIN ambitos' = 1 .. Len(ambitos) + 1
         /\ \A k \in 1 .. Len(ambitos) : ambitos'[k] = ambitos[k]
         /\ ambitos'[Len(ambitos) + 1] = ToSet(Actual.ps) \ constantes
         /\ constantes' \subseteq Nombres
<1>1. ambitos \in Seq(SUBSET Nombres) /\ Actual.ps \in Seq(Nombres) /\ constantes \subseteq Nombres
  BY EnMano, EnVisita DEF Inv, TypeOK
<1>2. ToSet(Actual.ps) \subseteq Nombres
  <2>1. \A k \in DOMAIN Actual.ps : Actual.ps[k] \in Nombres
    BY <1>1, LenProperties, ElementOfSeq
  <2> QED BY <2>1 DEF ToSet
<1> DEFINE e == ToSet(Actual.ps) \ constantes
<1>3. e \in SUBSET Nombres /\ ambitos' = Append(ambitos, e)
      /\ constantes' = constantes \cup (ToSet(Actual.ps) \cap Mayusculas)
  BY <1>2 DEF DeclararParametros
<1> HIDE DEF e
<1>4. /\ ambitos' \in Seq(SUBSET Nombres) /\ Len(ambitos') = Len(ambitos) + 1
      /\ \A k \in 1 .. Len(ambitos) : ambitos'[k] = ambitos[k]
      /\ ambitos'[Len(ambitos) + 1] = e
  BY <1>1, <1>3, AppendProperties
<1>5. DOMAIN ambitos' = 1 .. Len(ambitos')
  BY <1>4, LenProperties
<1> QED BY <1>1, <1>2, <1>3, <1>4, <1>5 DEF e

(* The definition of a name the tables keep is one of its definitions.      *)
LEMMA TablaTipo ==
  ASSUME programa \in Seq(Suceso), BienFormado(programa), NEW op \in Definiciones
  PROVE  /\ DOMAIN Tabla(op) \subseteq Nombres
         /\ \A x \in DOMAIN Tabla(op) : Tabla(op)[x] \in DOMAIN programa
<1>1. \A x : Definen(x) # {} => Min(Definen(x)) \in Definen(x)
  <2> TAKE x
  <2>1. Definen(x) \in SUBSET Nat
    BY LenProperties DEF Definen
  <2> QED BY <2>1, Minimo
<1>2. \A k \in Primeras(op) : k \in DOMAIN programa /\ k \in Definen(programa[k].x)
                              /\ programa[k].x \in Nombres
  BY DEF Primeras, Definen, BienFormado
<1>3. \A x \in DOMAIN Tabla(op) : x \in Nombres /\ Tabla(op)[x] = Min(Definen(x)) /\ Definen(x) # {}
  BY <1>2 DEF Tabla
<1>4. \A x : Definen(x) \subseteq DOMAIN programa
  BY DEF Definen
<1> QED BY <1>1, <1>3, <1>4


-----------------------------------------------------------------------------
(* The blocks under way, step by step.                                      *)

(* One visit does one of three things to the blocks under way, and each     *)
(* block counts for the same in and out.                                    *)
LEMMA TresPasos ==
  ASSUME Inv, Next, fase = "visitar", fase' = "visitar"
  PROVE  /\ programa' = programa /\ pos' = pos + 1 /\ UNCHANGED <<funciones, externas>>
         /\ pos \in 1 .. Len(programa)
         /\ \/ /\ programa[pos].op \notin Aperturas \cup {"fin"}
               /\ UNCHANGED <<abiertos, profundidad, instancia>> /\ Len(ambitos') = Len(ambitos)
            \/ /\ Visita(Aperturas) /\ Entra /\ Sube(Aporta(programa[pos]))
               /\ Len(ambitos') = IF programa[pos].op \in Funcionales THEN Len(ambitos) + 1 ELSE Len(ambitos)
               /\ instancia' = IF programa[pos].op = "metodo" THEN "estatico" \notin programa[pos].marcas
                               ELSE instancia
            \/ /\ Visita({"fin"}) /\ abiertos' = Front(abiertos) /\ Baja(Aporta(programa[Last(abiertos)]))
               /\ Len(ambitos') = IF programa[Last(abiertos)].op \in Funcionales THEN Len(ambitos) - 1
                                  ELSE Len(ambitos)
               /\ instancia' = (instancia /\ programa[Last(abiertos)].op # "metodo")
<1> DEFINE p == programa
<1>o. /\ {"para", "bucle", "inseguro"} \subseteq Aperturas /\ Funcionales \subseteq Aperturas
      /\ Aperturas \ Funcionales = {"para", "bucle", "inseguro"}
      /\ {"lee", "post", "llama", "asigna", "romper", "retornar", "varargs", "este", "externa"}
           \cap (Aperturas \cup {"fin"}) = {}
  BY DEF Aperturas, Bucles, Funcionales
<1>a. \A s \in Suceso : s.marcas \subseteq Marcas
  BY DEF Suceso
<1>b. \A s \in Suceso : s.op \in Funcionales => Aporta(s) = CuentaDe(s)
  <2> TAKE s \in Suceso
  <2>1. s.marcas \cap (Bucles \cup Funcionales) = {}
    BY <1>a DEF Marcas, Bucles, Funcionales
  <2>2. s.op \in Funcionales => s.op \notin Bucles \cup {"variadico", "inseguro"}
    BY DEF Bucles, Funcionales
  <2> QED BY <2>1, <2>2 DEF Aporta, CuentaDe, Sena, Cuentas, Si
<1>c. \A s \in Suceso : s.op \in Bucles /\ s.marcas = {} => Aporta(s) = {"bucle"}
  BY DEF Aporta, Sena, Cuentas, Bucles, Funcionales
<1>d. \A s \in Suceso : s.op = "inseguro" /\ s.marcas = {} => Aporta(s) = {"inseguro"}
  BY DEF Aporta, Sena, Cuentas, Bucles, Funcionales
<1>1. CASE RecolectarFunciones
  BY <1>1 DEF RecolectarFunciones
<1>2. CASE UsarIdentificador
  BY <1>2, <1>o, EnMano DEF UsarIdentificador, Avanza
<1>3. CASE VisitarLlamada
  BY <1>3, <1>o, EnMano DEF VisitarLlamada, Avanza
<1>4. CASE VisitarAsignacion
  <2>0. Visita({"asigna"})
    BY <1>4 DEF VisitarAsignacion
  <2>a. Actual.op \in {"asigna"}
    BY <2>0, EnMano
  <2>1. Visita({"asigna"}) /\ Actual.x \in Nombres /\ ("const" \in Actual.marcas) \in BOOLEAN
    <3>1. Actual.op \in Definiciones \cup {"asigna", "para"}
      BY <2>a
    <3>2. Actual.x \in Nombres
      BY <2>0, <3>1, EnMano
    <3>3. ("const" \in Actual.marcas) \in BOOLEAN
      OBVIOUS
    <3> QED BY <2>0, <3>2, <3>3
  <2>2. Len(ambitos') = Len(ambitos)
    BY <1>4, <2>1, EnMano, DeclararTipo DEF VisitarAsignacion
  <2>3. programa[pos].op \notin Aperturas \cup {"fin"} /\ pos \in 1 .. Len(programa)
    BY <1>o, <2>0, <2>a, EnMano
  <2> QED BY <1>4, <2>2, <2>3 DEF VisitarAsignacion, Avanza
<1>5. CASE EntrarPara
  <2>1. Visita({"para"}) /\ Actual.x \in Nombres /\ Actual.marcas = {} /\ Actual.op \in Bucles
        /\ Actual \in Suceso /\ Actual = p[pos] /\ pos \in 1 .. Len(p)
    <3>1. Visita({"para"})
      BY <1>5 DEF EntrarPara
    <3>2. "para" \in Aperturas \ Funcionales /\ "para" \in Bucles
      BY <1>o DEF Bucles
    <3>3. Actual.op = "para"
      <4>1. Actual.op \in {"para"}
        BY <3>1, EnMano
      <4> QED BY <4>1
    <3> QED BY <3>1, <3>2, <3>3, EnMano
  <2>2. Len(ambitos') = Len(ambitos)
    <3>1. CASE Declarada(Actual.x)
      BY <1>5, <3>1 DEF EntrarPara
    <3>2. CASE ~ Declarada(Actual.x)
      BY <1>5, <2>1, <3>2, EnMano, DeclararTipo DEF EntrarPara
    <3> QED BY <3>1, <3>2
  <2>3. Aporta(p[pos]) = {"bucle"}
    BY <2>1, <1>c
  <2>4. p[pos].op \notin Funcionales /\ p[pos].op # "metodo" /\ Visita(Aperturas)
    BY <2>1, <1>o DEF Funcionales, Visita, Bucles
  <2> QED BY <1>5, <2>1, <2>2, <2>3, <2>4 DEF EntrarPara, Avanza
<1>6. CASE EntrarBloque
  <2>1. Visita({"bucle", "inseguro"}) /\ Actual.marcas = {}
        /\ Actual \in Suceso /\ Actual = p[pos] /\ pos \in 1 .. Len(p)
        /\ Actual.op \in {"bucle", "inseguro"}
    <3>1. Visita({"bucle", "inseguro"})
      BY <1>6 DEF EntrarBloque
    <3>2. {"bucle", "inseguro"} \subseteq Aperturas \ Funcionales
      BY <1>o
    <3>3. Actual.op \in {"bucle", "inseguro"}
      BY <3>1, EnMano
    <3> QED BY <3>1, <3>2, <3>3, EnMano
  <2>2. Aporta(p[pos]) = {Actual.op}
    BY <2>1, <1>c, <1>d DEF Bucles
  <2>3. p[pos].op \notin Funcionales /\ p[pos].op # "metodo" /\ Visita(Aperturas)
    BY <2>1, <1>o, EnMano DEF Funcionales, Visita
  <2> QED BY <1>6, <2>1, <2>2, <2>3 DEF EntrarBloque, Avanza
<1>7. CASE EntrarFuncion
  <2>1. Visita(Funcionales) /\ Actual \in Suceso /\ Actual = p[pos] /\ pos \in 1 .. Len(p)
        /\ Actual.op \in Funcionales
    BY <1>7, EnMano DEF EntrarFuncion
  <2>2. Aporta(p[pos]) = CuentaDe(Actual) /\ Visita(Aperturas)
    BY <2>1, <1>b, <1>o DEF Visita
  <2>3. Len(ambitos') = Len(ambitos) + 1
    BY <1>7, <2>1, ParametrosTipo DEF EntrarFuncion
  <2> QED BY <1>7, <2>1, <2>2, <2>3 DEF EntrarFuncion, Avanza
<1>8. CASE SalirBloque
  <2>1. Visita({"fin"}) /\ programa[Last(abiertos)].op \in Bucles \cup {"inseguro"}
    BY <1>8 DEF SalirBloque, Cierra
  <2> DEFINE s == p[Last(abiertos)]
  <2>2. s \in Suceso /\ s.marcas = {} /\ s.op \notin Funcionales /\ s.op # "metodo"
        /\ Visita({"fin"}) /\ pos \in 1 .. Len(p)
    <3>1. fase = "visitar" /\ Last(abiertos) \in DOMAIN p /\ pos \in 1 .. Len(p)
      BY <2>1, EnMano, AlCerrar
    <3>2. s \in Suceso
      BY <3>1, EnVisita, ElementOfSeq
    <3>3. s.op \in Aperturas \ Funcionales /\ s.op \notin Funcionales /\ s.op # "metodo"
      BY <2>1 DEF Aperturas, Bucles, Funcionales
    <3> QED BY <2>1, <3>1, <3>2, <3>3, EnVisita DEF BienFormado
  <2>3. Aporta(s) = Si(s.op \in Bucles, "bucle") \cup Si(s.op = "inseguro", "inseguro")
    <3>1. CASE s.op \in Bucles
      BY <2>2, <3>1, <1>c DEF Si, Bucles
    <3>2. CASE s.op = "inseguro"
      BY <2>2, <3>2, <1>d DEF Si, Bucles
    <3> QED BY <2>1, <3>1, <3>2
  <2>5. instancia' = (instancia /\ s.op # "metodo")
    BY <1>8, <2>2 DEF SalirBloque, Inv, TypeOK
  <2> QED BY <1>8, <2>1, <2>2, <2>3, <2>5 DEF SalirBloque, Cierra, Avanza
<1>9. CASE SalirFuncion
  <2>1. Visita({"fin"}) /\ programa[Last(abiertos)].op \in Funcionales
    BY <1>9 DEF SalirFuncion, Cierra
  <2> DEFINE s == p[Last(abiertos)]
  <2>2. s \in Suceso /\ pos \in 1 .. Len(p)
    <3>1. fase = "visitar" /\ Last(abiertos) \in DOMAIN p /\ pos \in 1 .. Len(p)
      BY <2>1, EnMano, AlCerrar
    <3> QED BY <3>1, EnVisita, ElementOfSeq
  <2>3. Aporta(s) = CuentaDe(s)
    BY <2>1, <2>2, <1>b
  <2>4. Len(ambitos') = Len(ambitos) - 1
    <3>1. ambitos \in Seq(SUBSET Nombres) /\ Len(ambitos) # 0
      BY <2>1, EnMano, EnVisita
    <3> QED BY <1>9, <3>1, SinElUltimo DEF SalirFuncion
  <2> QED BY <1>9, <2>1, <2>2, <2>3, <2>4 DEF SalirFuncion, Cierra, Avanza
<1>10. CASE VisitarContexto
  BY <1>10, <1>o, EnMano DEF VisitarContexto, Avanza
<1>11. CASE VisitarExterna
  BY <1>11, <1>o, EnMano DEF VisitarExterna, Avanza
<1>12. CASE Terminar
  BY <1>12 DEF Terminar
<1> QED BY <1>1, <1>2, <1>3, <1>4, <1>5, <1>6, <1>7, <1>8, <1>9, <1>10, <1>11, <1>12 DEF Next

(* Which of the three a visit does is told by what it is.                   *)
LEMMA SegunLaVisita ==
  ASSUME Inv, Next, fase = "visitar", fase' = "visitar"
  PROVE  /\ programa[pos].op \notin Aperturas \cup {"fin"} =>
              UNCHANGED <<abiertos, profundidad, instancia>> /\ Len(ambitos') = Len(ambitos)
         /\ programa[pos].op \in Aperturas =>
              /\ Visita(Aperturas) /\ Entra /\ Sube(Aporta(programa[pos]))
              /\ Len(ambitos') = IF programa[pos].op \in Funcionales THEN Len(ambitos) + 1 ELSE Len(ambitos)
              /\ instancia' = IF programa[pos].op = "metodo" THEN "estatico" \notin programa[pos].marcas
                              ELSE instancia
         /\ programa[pos].op = "fin" =>
              /\ Visita({"fin"}) /\ abiertos' = Front(abiertos) /\ Baja(Aporta(programa[Last(abiertos)]))
              /\ Len(ambitos') = IF programa[Last(abiertos)].op \in Funcionales THEN Len(ambitos) - 1
                                 ELSE Len(ambitos)
              /\ instancia' = (instancia /\ programa[Last(abiertos)].op # "metodo")
<1>1. "fin" \notin Aperturas
  BY DEF Aperturas, Bucles, Funcionales
<1>2. Visita(Aperturas) => programa[pos].op \in Aperturas
  BY DEF Visita, Actual
<1>3. Visita({"fin"}) => programa[pos].op = "fin"
  BY DEF Visita, Actual
<1> QED BY <1>1, <1>2, <1>3, TresPasos


(* One block more, or less, in a count.                                     *)
LEMMA CuantosPaso ==
  ASSUME NEW p, NEW S, NEW c, IsFiniteSet(S)
  PROVE  /\ Cuantos(p, S, c) \in Nat
         /\ \A j : j \notin S => Cuantos(p, S \cup {j}, c)
                                   = IF c \in Aporta(p[j]) THEN Cuantos(p, S, c) + 1 ELSE Cuantos(p, S, c)
         /\ \A j : j \in S => Cuantos(p, S \ {j}, c)
                                   = IF c \in Aporta(p[j]) THEN Cuantos(p, S, c) - 1 ELSE Cuantos(p, S, c)
         /\ Cuantos(p, S, c) = 0 <=> \A j \in S : c \notin Aporta(p[j])
<1> DEFINE C(T) == {j \in T : c \in Aporta(p[j])}
<1>1. IsFiniteSet(C(S))
  BY FS_Subset
<1>2. \A j : j \notin S => C(S \cup {j}) = IF c \in Aporta(p[j]) THEN C(S) \cup {j} ELSE C(S)
  OBVIOUS
<1>3. \A j : j \in S => C(S \ {j}) = IF c \in Aporta(p[j]) THEN C(S) \ {j} ELSE C(S)
  OBVIOUS
<1>4. \A j : j \notin S => j \notin C(S)
  OBVIOUS
<1>5. \A j : j \in S /\ c \in Aporta(p[j]) => j \in C(S)
  OBVIOUS
<1>6. C(S) = {} <=> \A j \in S : c \notin Aporta(p[j])
  OBVIOUS
<1>7. \A T : Cuantos(p, T, c) = Cardinality(C(T))
  BY DEF Cuantos
<1> HIDE DEF C
<1>8. Cardinality(C(S)) \in Nat /\ (Cardinality(C(S)) = 0 <=> C(S) = {})
  BY <1>1, FS_CardinalityType, FS_EmptySet
<1>9. \A j : j \notin S => Cardinality(C(S) \cup {j}) = Cardinality(C(S)) + 1
  BY <1>1, <1>4, FS_AddElement
<1>10. \A j : j \in S /\ c \in Aporta(p[j]) => Cardinality(C(S) \ {j}) = Cardinality(C(S)) - 1
  BY <1>1, <1>5, FS_RemoveElement
<1>11. \A j : j \notin S => Cuantos(p, S \cup {j}, c)
                             = IF c \in Aporta(p[j]) THEN Cuantos(p, S, c) + 1 ELSE Cuantos(p, S, c)
  BY <1>2, <1>7, <1>9
<1>12. \A j : j \in S => Cuantos(p, S \ {j}, c)
                             = IF c \in Aporta(p[j]) THEN Cuantos(p, S, c) - 1 ELSE Cuantos(p, S, c)
  BY <1>3, <1>7, <1>10
<1> QED BY <1>6, <1>7, <1>8, <1>11, <1>12

(* The stack stays that of the tree.                                        *)
LEMMA PasoPila ==
  ASSUME Inv, Next, fase = "visitar", fase' = "visitar"
  PROVE  PilaFiel'
<1> DEFINE p == programa
           n == Len(abiertos)
<1>1. /\ p' = p /\ pos' = pos + 1 /\ pos \in 1 .. Len(p) /\ p \in Seq(Suceso) /\ n \in Nat
      /\ pos' - 1 = pos /\ pos \in Nat /\ DOMAIN abiertos = 1 .. n
  <2>1. p' = p /\ pos' = pos + 1 /\ pos \in 1 .. Len(p)
    BY TresPasos
  <2>2. p \in Seq(Suceso) /\ Len(p) \in Nat /\ n \in Nat /\ abiertos \in Seq(DOMAIN p)
    BY EnVisita
  <2>3. DOMAIN abiertos = 1 .. n
    BY <2>2, LenProperties
  <2> QED BY <2>1, <2>2, <2>3
<1>2. /\ n = Nivel(p, pos - 1)
      /\ \A k \in 1 .. n : abiertos[k] \in Abiertos(p, pos) /\ Nivel(p, abiertos[k]) = k
      /\ \A j \in Abiertos(p, pos) : \E k \in 1 .. n : abiertos[k] = j
  BY <1>1, EnVisita DEF PilaFiel
<1>3. "fin" \notin Aperturas
  BY DEF Aperturas, Bucles, Funcionales
<1>4. Nivel(p, pos) = Nivel(p, pos - 1) + (IF p[pos].op \in Aperturas THEN 1
                                           ELSE IF p[pos].op = "fin" THEN -1 ELSE 0)
  BY <1>1, NivelPaso
<1>5. CASE p[pos].op \notin Aperturas \cup {"fin"}
  <2>1. abiertos' = abiertos /\ Abiertos(p, pos + 1) = Abiertos(p, pos)
    BY <1>1, <1>3, <1>5, SegunLaVisita, AbiertosPaso
  <2>2. Nivel(p, pos) = n
    BY <1>1, <1>2, <1>4, <1>5
  <2> QED BY <1>1, <1>2, <2>1, <2>2 DEF PilaFiel
<1>6. CASE p[pos].op \in Aperturas
  <2>1. Visita(Aperturas) /\ Entra
    BY <1>3, <1>6, SegunLaVisita
  <2>2. Abiertos(p, pos + 1) = Abiertos(p, pos) \cup {pos} /\ Nivel(p, pos) = n + 1
    BY <1>1, <1>2, <1>4, <1>6, AbiertosPaso
  <2>3. /\ Len(abiertos') = n + 1 /\ DOMAIN abiertos' = 1 .. n + 1 /\ abiertos'[n + 1] = pos
        /\ \A k \in 1 .. n : abiertos'[k] = abiertos[k]
    BY <2>1, EntraTipo
  <2>4. 1 .. n + 1 = (1 .. n) \cup {n + 1}
    BY <1>1
  <2>5. \A k \in DOMAIN abiertos' : abiertos'[k] \in Abiertos(p, pos + 1) /\ Nivel(p, abiertos'[k]) = k
    BY <1>2, <2>2, <2>3, <2>4
  <2>6. \A j \in Abiertos(p, pos + 1) : \E k \in DOMAIN abiertos' : abiertos'[k] = j
    BY <1>2, <2>2, <2>3, <2>4
  <2> QED BY <1>1, <2>2, <2>3, <2>5, <2>6 DEF PilaFiel
<1>7. CASE p[pos].op = "fin"
  <2>1. Visita({"fin"}) /\ abiertos' = Front(abiertos)
    BY <1>3, <1>7, SegunLaVisita
  <2>2. /\ n # 0 /\ Abiertos(p, pos + 1) = Abiertos(p, pos) \ {abiertos[n]}
        /\ abiertos' \in Seq(DOMAIN p) /\ Len(abiertos') = n - 1
        /\ \A k \in 1 .. n - 1 : abiertos'[k] = abiertos[k]
    BY <2>1, AlCerrar
  <2>3. DOMAIN abiertos' = 1 .. n - 1
    BY <2>2, LenProperties
  <2>4. Nivel(p, pos) = n - 1
    BY <1>1, <1>2, <1>3, <1>4, <1>7
  <2>5. 1 .. n = (1 .. n - 1) \cup {n} /\ n \notin 1 .. n - 1
    BY <1>1, <2>2
  <2>6. \A k \in 1 .. n - 1 : abiertos[k] # abiertos[n]
    BY <1>2, <2>5
  <2>7. \A k \in DOMAIN abiertos' : abiertos'[k] \in Abiertos(p, pos + 1) /\ Nivel(p, abiertos'[k]) = k
    BY <1>2, <2>2, <2>3, <2>5, <2>6
  <2>8. \A j \in Abiertos(p, pos + 1) : \E k \in DOMAIN abiertos' : abiertos'[k] = j
    BY <1>2, <2>2, <2>3, <2>5
  <2> QED BY <1>1, <2>2, <2>4, <2>7, <2>8 DEF PilaFiel
<1> QED BY <1>5, <1>6, <1>7


(* The frames after a visit.                                                *)
LEMMA MarcosPaso ==
  ASSUME Inv, Next, fase = "visitar", fase' = "visitar"
  PROVE  /\ programa[pos].op \in Aperturas =>
              /\ pos \notin Abiertos(programa, pos) /\ pos \notin Marcos(programa, pos)
              /\ Marcos(programa, pos + 1) = IF programa[pos].op \in Funcionales
                                             THEN Marcos(programa, pos) \cup {pos}
                                             ELSE Marcos(programa, pos)
         /\ programa[pos].op = "fin" =>
              Marcos(programa, pos + 1) = IF programa[Last(abiertos)].op \in Funcionales
                                          THEN Marcos(programa, pos) \ {Last(abiertos)}
                                          ELSE Marcos(programa, pos)
         /\ programa[pos].op \notin Aperturas \cup {"fin"} =>
              Marcos(programa, pos + 1) = Marcos(programa, pos)
<1> DEFINE p == programa
           m == Last(abiertos)
<1>1. p \in Seq(Suceso) /\ pos \in 1 .. Len(p) /\ pos \in 1 .. Len(p) + 1 /\ "fin" \notin Aperturas
      /\ Len(p) \in Nat
  BY TresPasos, EnVisita DEF Aperturas, Bucles, Funcionales
<1>2. Abiertos(p, pos) \subseteq 1 .. pos - 1 /\ pos \notin 1 .. pos - 1 /\ pos # 0 /\ 0 \notin 1 .. pos - 1
  BY <1>1, AbiertosTipo
<1>3. ASSUME p[pos].op \in Aperturas
      PROVE  /\ pos \notin Abiertos(p, pos) /\ pos \notin Marcos(p, pos)
             /\ Marcos(p, pos + 1) = IF p[pos].op \in Funcionales THEN Marcos(p, pos) \cup {pos}
                                     ELSE Marcos(p, pos)
  <2>1. Abiertos(p, pos + 1) = Abiertos(p, pos) \cup {pos}
    BY <1>1, <1>3, AbiertosPaso
  <2> QED BY <1>2, <2>1 DEF Marcos
<1>4. ASSUME p[pos].op = "fin"
      PROVE  Marcos(p, pos + 1) = IF p[m].op \in Funcionales THEN Marcos(p, pos) \ {m} ELSE Marcos(p, pos)
  <2>1. Visita({"fin"})
    BY <1>4, SegunLaVisita
  <2>2. Abiertos(p, pos + 1) = Abiertos(p, pos) \ {m} /\ m \in Abiertos(p, pos)
    BY <2>1, AlCerrar
  <2> QED BY <1>2, <2>2 DEF Marcos
<1>5. ASSUME p[pos].op \notin Aperturas \cup {"fin"} PROVE Marcos(p, pos + 1) = Marcos(p, pos)
  <2>1. Abiertos(p, pos + 1) = Abiertos(p, pos)
    BY <1>1, <1>5, AbiertosPaso
  <2> QED BY <2>1 DEF Marcos
<1> QED BY <1>3, <1>4, <1>5

(* The counters, the number of scopes and `este` stay those of the tree.    *)
LEMMA PasoCuentas ==
  ASSUME Inv, Next, fase = "visitar", fase' = "visitar"
  PROVE  CuentasFieles'
<1> DEFINE p == programa
           A == Abiertos(p, pos)
           M == Marcos(p, pos)
           m == Last(abiertos)
<1>1. /\ p' = p /\ pos' = pos + 1 /\ pos \in 1 .. Len(p) /\ p \in Seq(Suceso) /\ Len(p) \in Nat
      /\ pos \in 1 .. Len(p) + 1 /\ BienFormado(p)
  BY TresPasos, EnVisita
<1>2. /\ \A c \in Cuentas : profundidad[c] = Cuantos(p, A, c)
      /\ profundidad = [c \in Cuentas |-> Cuantos(p, A, c)]
      /\ Len(ambitos) = Cardinality(M)
      /\ instancia <=> \E j \in A : MetodoDeInstancia(p, j)
      /\ instancia \in BOOLEAN
  BY EnVisita DEF CuentasFieles, Inv, TypeOK
<1>3. "fin" \notin Aperturas /\ Funcionales \subseteq Aperturas /\ "metodo" \in Funcionales
  BY DEF Aperturas, Bucles, Funcionales
<1>4. IsFiniteSet(A) /\ A \subseteq 1 .. pos - 1 /\ IsFiniteSet(M) /\ Len(ambitos) \in Nat
  BY <1>1, AbiertosTipo, DuenoEsElUltimo, EnVisita
<1>5. CASE p[pos].op \notin Aperturas \cup {"fin"}
  <2>1. UNCHANGED <<profundidad, instancia>> /\ Len(ambitos') = Len(ambitos)
    BY <1>1, <1>3, <1>5, SegunLaVisita
  <2>2. Abiertos(p, pos + 1) = A /\ Marcos(p, pos + 1) = M
    BY <1>1, <1>5, AbiertosPaso, MarcosPaso
  <2> QED BY <1>1, <1>2, <2>1, <2>2 DEF CuentasFieles
<1>6. CASE p[pos].op \in Aperturas
  <2>1. /\ Sube(Aporta(p[pos]))
        /\ Len(ambitos') = IF p[pos].op \in Funcionales THEN Len(ambitos) + 1 ELSE Len(ambitos)
        /\ instancia' = IF p[pos].op = "metodo" THEN "estatico" \notin p[pos].marcas ELSE instancia
    BY <1>3, <1>6, SegunLaVisita
  <2>2. Abiertos(p, pos + 1) = A \cup {pos} /\ pos \notin A
    BY <1>1, <1>6, AbiertosPaso, MarcosPaso
  <2>3. profundidad' = [c \in Cuentas |-> Cuantos(p, A \cup {pos}, c)]
    <3>1. \A c \in Cuentas : profundidad[c] + (IF c \in Aporta(p[pos]) THEN 1 ELSE 0)
                             = Cuantos(p, A \cup {pos}, c)
      <4> TAKE c \in Cuentas
      <4>1. Cuantos(p, A, c) \in Nat
            /\ Cuantos(p, A \cup {pos}, c) = IF c \in Aporta(p[pos]) THEN Cuantos(p, A, c) + 1
                                             ELSE Cuantos(p, A, c)
        BY <1>4, <2>2, CuantosPaso
      <4> QED BY <1>2, <4>1
    <3> QED BY <2>1, <3>1 DEF Sube
  <2>4. Len(ambitos') = Cardinality(Marcos(p, pos + 1))
    <3>1. Cardinality(M \cup {pos}) = Cardinality(M) + 1
      BY <1>4, <1>6, MarcosPaso, FS_AddElement
    <3> QED BY <1>2, <1>6, <2>1, <3>1, MarcosPaso
  <2>5. instancia' <=> \E j \in A \cup {pos} : MetodoDeInstancia(p, j)
    <3>1. CASE p[pos].op = "metodo"
      <4>1. A = {}
        BY <1>1, <1>3, <3>1, EnVisita DEF BienFormado
      <4>2. MetodoDeInstancia(p, pos) <=> "estatico" \notin p[pos].marcas
        BY <1>1, <3>1 DEF MetodoDeInstancia
      <4> QED BY <2>1, <3>1, <4>1, <4>2
    <3>2. CASE p[pos].op # "metodo"
      <4>1. ~ MetodoDeInstancia(p, pos)
        BY <3>2 DEF MetodoDeInstancia
      <4> QED BY <1>2, <2>1, <3>2, <4>1
    <3> QED BY <3>1, <3>2
  <2> QED BY <1>1, <2>2, <2>3, <2>4, <2>5 DEF CuentasFieles
<1>7. CASE p[pos].op = "fin"
  <2>1. /\ Visita({"fin"}) /\ Baja(Aporta(p[m]))
        /\ Len(ambitos') = IF p[m].op \in Funcionales THEN Len(ambitos) - 1 ELSE Len(ambitos)
        /\ instancia' = (instancia /\ p[m].op # "metodo")
    BY <1>3, <1>7, SegunLaVisita
  <2>2. Abiertos(p, pos + 1) = A \ {m} /\ m \in A /\ \A j \in A : j <= m
    BY <2>1, AlCerrar
  <2>3. profundidad' = [c \in Cuentas |-> Cuantos(p, A \ {m}, c)]
    <3>1. \A c \in Cuentas : profundidad[c] - (IF c \in Aporta(p[m]) THEN 1 ELSE 0)
                             = Cuantos(p, A \ {m}, c)
      <4> TAKE c \in Cuentas
      <4>1. Cuantos(p, A, c) \in Nat
            /\ Cuantos(p, A \ {m}, c) = IF c \in Aporta(p[m]) THEN Cuantos(p, A, c) - 1
                                        ELSE Cuantos(p, A, c)
        BY <1>4, <2>2, CuantosPaso
      <4> QED BY <1>2, <4>1
    <3> QED BY <2>1, <3>1 DEF Baja
  <2>4. Len(ambitos') = Cardinality(Marcos(p, pos + 1))
    <3>1. p[m].op \in Funcionales => Cardinality(M \ {m}) = Cardinality(M) - 1
      <4>1. p[m].op \in Funcionales => m \in M
        BY <2>2 DEF Marcos
      <4> QED BY <1>4, <4>1, FS_RemoveElement
    <3> QED BY <1>2, <1>7, <2>1, <3>1, MarcosPaso
  <2>5. instancia' <=> \E j \in A \ {m} : MetodoDeInstancia(p, j)
    <3>1. CASE p[m].op = "metodo"
      <4>1. Abiertos(p, m) = {} /\ m \in 1 .. pos - 1
        BY <1>1, <1>4, <2>1, <2>2, <3>1, AlCerrar DEF BienFormado
      <4>2. \A j \in A : j = m
        <5> SUFFICES ASSUME NEW j \in A, j # m PROVE FALSE
          OBVIOUS
        <5>1. j < m
          BY <1>1, <1>4, <2>2
        <5> QED BY <1>1, <4>1, <5>1, AbiertosTipo
      <4> QED BY <2>1, <3>1, <4>2
    <3>2. CASE p[m].op # "metodo"
      <4>1. ~ MetodoDeInstancia(p, m)
        BY <3>2 DEF MetodoDeInstancia
      <4> QED BY <1>2, <2>1, <3>2, <4>1
    <3> QED BY <3>1, <3>2
  <2> QED BY <1>1, <2>2, <2>3, <2>4, <2>5 DEF CuentasFieles
<1> QED BY <1>5, <1>6, <1>7


(* Counters are numbers.                                                    *)
LEMMA CuentasNaturales ==
  ASSUME programa \in Seq(Suceso), pos \in 1 .. Len(programa) + 1, CuentasFieles
  PROVE  profundidad \in [Cuentas -> Nat]
<1>1. IsFiniteSet(Abiertos(programa, pos))
  BY AbiertosTipo
<1>2. \A c \in Cuentas : Cuantos(programa, Abiertos(programa, pos), c) \in Nat
  BY <1>1, CuantosPaso
<1> QED BY <1>2 DEF CuentasFieles

(* The same, for the state after a step.                                    *)
LEMMA CuentasNaturalesLuego ==
  ASSUME programa' \in Seq(Suceso), pos' \in 1 .. Len(programa') + 1, CuentasFieles'
  PROVE  profundidad' \in [Cuentas -> Nat]
<1>1. IsFiniteSet(Abiertos(programa', pos'))
  BY AbiertosTipo
<1>2. \A c \in Cuentas : Cuantos(programa', Abiertos(programa', pos'), c) \in Nat
  BY <1>1, CuantosPaso
<1> QED BY <1>2 DEF CuentasFieles

(* Every step of the walk keeps the types.                                  *)
LEMMA PasoTipos ==
  ASSUME Inv, Next
  PROVE  TypeOK' /\ programa' \in Programas
<1> USE DEF Clases
<1>1. /\ programa \in Seq(Suceso) /\ BienFormado(programa) /\ Len(programa) \in Nat /\ pos \in 1 .. Len(programa) + 1
      /\ programa \in Programas /\ TypeOK /\ DOMAIN programa = 1 .. Len(programa)
  BY AlcanceAssumption, LenProperties DEF Inv, TypeOK
<1>2. CASE RecolectarFunciones
  <2>1. ambitos' \in Seq(SUBSET Nombres)
    BY <1>2 DEF RecolectarFunciones
  <2>2. errores' \subseteq (DOMAIN programa) \X Clases
    BY <1>2 DEF RecolectarFunciones
  <2>3. \A t \in {funciones', externas'} :
          DOMAIN t \subseteq Nombres /\ \A x \in DOMAIN t : t[x] \in DOMAIN programa
    BY <1>1, <1>2, TablaTipo DEF RecolectarFunciones, Definiciones
  <2> QED BY <1>1, <1>2, <2>1, <2>2, <2>3 DEF RecolectarFunciones, TypeOK
<1>3. CASE Terminar
  <2>1. fase = "visitar" /\ ambitos' = Front(ambitos)
    BY <1>3 DEF Terminar
  <2>2. ambitos' \in Seq(SUBSET Nombres)
    BY <2>1, EnVisita, SinElUltimo
  <2> QED BY <1>1, <1>3, <2>2 DEF Terminar, TypeOK
<1>4. CASE fase = "visitar" /\ fase' = "visitar"
  <2>1. /\ programa' = programa /\ pos' = pos + 1 /\ UNCHANGED <<funciones, externas>>
        /\ pos \in 1 .. Len(programa)
    BY <1>4, TresPasos
  <2>2. pos' \in 1 .. Len(programa) + 1
    BY <1>1, <2>1
  <2>3. profundidad' \in [Cuentas -> Nat]
    BY <1>1, <1>4, <2>1, <2>2, PasoCuentas, CuentasNaturalesLuego
  <2>4. \A ops : Visita(ops) =>
          /\ errores' = errores => errores' \subseteq (DOMAIN programa') \X Clases
          /\ \A cs : cs \subseteq Clases /\ Reporta(cs) => errores' \subseteq (DOMAIN programa') \X Clases
    BY <1>1, <2>1, ReportaTipo DEF TypeOK
  <2> DEFINE Resto == /\ abiertos' \in Seq(DOMAIN programa) /\ ambitos' \in Seq(SUBSET Nombres)
                      /\ constantes' \subseteq Nombres /\ instancia' \in BOOLEAN
                      /\ errores' \subseteq (DOMAIN programa') \X Clases
  <2>5. CASE UsarIdentificador
    <3>1. Visita({"lee", "post"})
      BY <2>5 DEF UsarIdentificador
    <3>2. PICK cs : cs \subseteq Clases /\ Reporta(cs)
      BY <2>5 DEF UsarIdentificador, Si
    <3>3. Resto
      BY <1>1, <2>4, <2>5, <3>1, <3>2 DEF UsarIdentificador, TypeOK
    <3> QED BY <1>1, <1>4, <2>1, <2>2, <2>3, <3>3 DEF TypeOK
  <2>6. CASE VisitarLlamada
    <3>1. Visita({"llama"}) /\ Reporta(ErroresDeLlamada(Actual.x, Actual.n))
      BY <2>6 DEF VisitarLlamada
    <3>2. ErroresDeLlamada(Actual.x, Actual.n) \subseteq Clases
      BY DEF ErroresDeLlamada, Si
    <3>3. Resto
      BY <1>1, <2>4, <2>6, <3>1, <3>2 DEF VisitarLlamada, TypeOK
    <3> QED BY <1>1, <1>4, <2>1, <2>2, <2>3, <3>3 DEF TypeOK
  <2>7. CASE VisitarAsignacion
    <3>1. Visita({"asigna"}) /\ Declarar(Actual.x, "const" \in Actual.marcas)
      BY <2>7 DEF VisitarAsignacion
    <3>2. PICK cs : cs \subseteq Clases /\ Reporta(cs)
      BY <2>7 DEF VisitarAsignacion, Si, Constante
    <3>3. Actual.x \in Nombres
      <4>1. Actual.op \in {"asigna"}
        BY <3>1, EnMano
      <4>2. Actual.op \in Definiciones \cup {"asigna", "para"}
        BY <4>1
      <4> QED BY <3>1, <4>2, EnMano
    <3>4. ("const" \in Actual.marcas) \in BOOLEAN
      OBVIOUS
    <3>5. ambitos' \in Seq(SUBSET Nombres) /\ constantes' \subseteq Nombres
      BY <1>4, <3>1, <3>3, <3>4, DeclararTipo
    <3>6. Resto
      BY <1>1, <2>4, <2>7, <3>1, <3>2, <3>5 DEF VisitarAsignacion, TypeOK
    <3> QED BY <1>1, <1>4, <2>1, <2>2, <2>3, <3>6 DEF TypeOK
  <2>8. CASE EntrarPara
    <3>1. Visita({"para"}) /\ Entra
      BY <2>8 DEF EntrarPara
    <3>2. PICK cs : cs \subseteq Clases /\ Reporta(cs)
      BY <2>8 DEF EntrarPara, Si, Constante
    <3>3. Actual.x \in Nombres
      <4>1. Actual.op \in {"para"}
        BY <3>1, EnMano
      <4>2. Actual.op \in Definiciones \cup {"asigna", "para"}
        BY <4>1
      <4> QED BY <3>1, <4>2, EnMano
    <3>4. ambitos' \in Seq(SUBSET Nombres) /\ constantes' \subseteq Nombres
      <4>1. CASE Declarada(Actual.x)
        BY <1>1, <2>8, <4>1 DEF EntrarPara, TypeOK
      <4>2. CASE ~ Declarada(Actual.x)
        BY <1>4, <2>8, <3>3, <4>2, DeclararTipo DEF EntrarPara
      <4> QED BY <4>1, <4>2
    <3>5. abiertos' \in Seq(DOMAIN programa)
      BY <3>1, EntraTipo
    <3>6. Resto
      BY <1>1, <2>4, <2>8, <3>1, <3>2, <3>4, <3>5 DEF EntrarPara, TypeOK
    <3> QED BY <1>1, <1>4, <2>1, <2>2, <2>3, <3>6 DEF TypeOK
  <2>9. CASE EntrarBloque
    <3>1. Visita({"bucle", "inseguro"}) /\ Entra
      BY <2>9 DEF EntrarBloque
    <3>2. abiertos' \in Seq(DOMAIN programa)
      BY <3>1, EntraTipo
    <3>3. Resto
      BY <1>1, <2>4, <2>9, <3>1, <3>2 DEF EntrarBloque, TypeOK
    <3> QED BY <1>1, <1>4, <2>1, <2>2, <2>3, <3>3 DEF TypeOK
  <2>10. CASE EntrarFuncion
    <3>1. Visita(Funcionales) /\ Entra /\ DeclararParametros(Actual.ps)
      BY <2>10 DEF EntrarFuncion
    <3>2. PICK cs : cs \subseteq Clases /\ Reporta(cs)
      BY <3>1 DEF DeclararParametros, Si
    <3>3. ambitos' \in Seq(SUBSET Nombres) /\ constantes' \subseteq Nombres
      BY <3>1, ParametrosTipo
    <3>4. abiertos' \in Seq(DOMAIN programa)
      BY <3>1, EntraTipo
    <3>5. instancia' \in BOOLEAN
      BY <1>1, <2>10 DEF EntrarFuncion, TypeOK
    <3>6. Resto
      BY <1>1, <2>4, <3>1, <3>2, <3>3, <3>4, <3>5
    <3> QED BY <1>1, <1>4, <2>1, <2>2, <2>3, <3>6 DEF TypeOK
  <2>11. CASE SalirBloque \/ SalirFuncion
    <3>1. Visita({"fin"}) /\ abiertos' = Front(abiertos) /\ UNCHANGED <<constantes, errores>>
      BY <2>11 DEF SalirBloque, SalirFuncion, Cierra
    <3>2. abiertos' \in Seq(DOMAIN programa)
      BY <3>1, AlCerrar
    <3>3. ambitos' \in Seq(SUBSET Nombres)
      <4>1. Front(ambitos) \in Seq(SUBSET Nombres)
        BY <1>4, EnVisita, SinElUltimo
      <4> QED BY <1>1, <2>11, <4>1 DEF SalirBloque, SalirFuncion, TypeOK
    <3>4. instancia' \in BOOLEAN
      BY <1>1, <2>11 DEF SalirBloque, SalirFuncion, TypeOK
    <3>5. Resto
      BY <1>1, <2>4, <3>1, <3>2, <3>3, <3>4 DEF TypeOK
    <3> QED BY <1>1, <1>4, <2>1, <2>2, <2>3, <3>5 DEF TypeOK
  <2>12. CASE VisitarContexto
    <3>1. Visita({"romper", "retornar", "varargs", "este"})
      BY <2>12 DEF VisitarContexto
    <3>2. PICK cs : cs \subseteq Clases /\ Reporta(cs)
      <4>1. Actual.op \in {"romper", "retornar", "varargs", "este"}
        BY <3>1 DEF Visita
      <4> QED BY <2>12, <4>1 DEF VisitarContexto, Si
    <3>3. Resto
      BY <1>1, <2>4, <2>12, <3>1, <3>2 DEF VisitarContexto, TypeOK
    <3> QED BY <1>1, <1>4, <2>1, <2>2, <2>3, <3>3 DEF TypeOK
  <2>13. CASE VisitarExterna
    <3>1. Visita({"externa"})
      BY <2>13 DEF VisitarExterna
    <3>2. Resto
      BY <1>1, <2>4, <2>13, <3>1 DEF VisitarExterna, TypeOK
    <3> QED BY <1>1, <1>4, <2>1, <2>2, <2>3, <3>2 DEF TypeOK
  <2> QED BY <1>4, <2>5, <2>6, <2>7, <2>8, <2>9, <2>10, <2>11, <2>12, <2>13
          DEF Next, RecolectarFunciones, Terminar
<1>5. (fase = "visitar" /\ fase' = "visitar") \/ RecolectarFunciones \/ Terminar
  BY DEF Next, Visita, Avanza, Cierra, UsarIdentificador, VisitarLlamada, VisitarAsignacion, EntrarPara,
         EntrarBloque, EntrarFuncion, SalirBloque, SalirFuncion, VisitarContexto, VisitarExterna
<1> QED
  <2>1. TypeOK'
    BY <1>2, <1>3, <1>4, <1>5
  <2>2. programa' = programa
    BY <1>2, <1>3, <1>4, <1>5, TresPasos DEF RecolectarFunciones, Terminar
  <2> QED BY <1>1, <2>1, <2>2



-----------------------------------------------------------------------------
(* What the state says of the tree.                                         *)

(* Which blocks are open, told from the counters.                           *)
LEMMA LasCuentas ==
  ASSUME Inv, fase = "visitar"
  PROVE  /\ profundidad["bucle"] = 0 <=> \A j \in Abiertos(programa, pos) : programa[j].op \notin Bucles
         /\ profundidad["funcion"] = 0 <=>
              \A j \in Abiertos(programa, pos) : programa[j].op \notin Funcionales
         /\ profundidad["variadica"] = 0 <=>
              \A j \in Abiertos(programa, pos) : "variadico" \notin programa[j].marcas
         /\ profundidad["inseguro"] = 0 <=>
              \A j \in Abiertos(programa, pos) :
                programa[j].op # "inseguro" /\ "inseguro" \notin programa[j].marcas
         /\ profundidad["funcion"] > 0 <=> profundidad["funcion"] # 0
         /\ profundidad["funcion"] = 0 <=> Dueno(programa, pos) = 0
<1> DEFINE p == programa
           A == Abiertos(p, pos)
<1>1. p \in Seq(Suceso) /\ pos \in 1 .. Len(p) + 1
  BY EnVisita
<1>2. IsFiniteSet(A) /\ A \subseteq DOMAIN p /\ \A j \in A : p[j].op \in Aperturas
  BY <1>1, AbiertosTipo
<1>3. \A c \in Cuentas : profundidad[c] = 0 <=> \A j \in A : c \notin Aporta(p[j])
  <2>1. \A c \in Cuentas : profundidad[c] = Cuantos(p, A, c)
    BY EnVisita DEF CuentasFieles
  <2> QED BY <1>2, <2>1, CuantosPaso
<1>4. \A j \in A : p[j].marcas \subseteq Marcas
  <2> TAKE j \in A
  <2>1. p[j] \in Suceso
    BY <1>1, <1>2, EnVisita, ElementOfSeq
  <2> QED BY <2>1 DEF Suceso
<1>5. \A j \in A : "bucle" \in Aporta(p[j]) <=> p[j].op \in Bucles
  <2>1. Bucles \cap Marcas = {}
    BY DEF Bucles, Marcas
  <2> QED BY <1>4, <2>1 DEF Aporta, Sena, Cuentas
<1>6. \A j \in A : "funcion" \in Aporta(p[j]) <=> p[j].op \in Funcionales
  <2>1. Funcionales \cap Marcas = {}
    BY DEF Funcionales, Marcas
  <2> QED BY <1>4, <2>1 DEF Aporta, Sena, Cuentas
<1>7. \A j \in A : "variadica" \in Aporta(p[j]) <=> "variadico" \in p[j].marcas
  <2>1. "variadico" \notin Aperturas
    BY DEF Aperturas, Bucles, Funcionales
  <2> QED BY <1>2, <2>1 DEF Aporta, Sena, Cuentas
<1>8. \A j \in A : "inseguro" \in Aporta(p[j]) <=> p[j].op = "inseguro" \/ "inseguro" \in p[j].marcas
  BY DEF Aporta, Sena, Cuentas
<1>9. profundidad["funcion"] \in Nat
  BY DEF Inv, TypeOK, Cuentas
<1>10. Dueno(p, pos) = 0 <=> \A j \in A : p[j].op \notin Funcionales
  BY <1>1, DuenoEsElUltimo
<1> QED BY <1>3, <1>5, <1>6, <1>7, <1>8, <1>9, <1>10 DEF Cuentas

(* The contexts the analyzer keeps are those of the tree.                   *)
LEMMA ContextosDelArbol == Inv => ContextosFieles
<1> SUFFICES ASSUME Inv, fase = "visitar"
             PROVE  LET abre == Abiertos(programa, pos)
                        Con(ms) == Cardinality({j \in abre : ms \cap ({programa[j].op} \cup programa[j].marcas) # {}})
                    IN  /\ ToSet(abiertos) = abre
                        /\ profundidad = [bucle |-> Con(Bucles), funcion |-> Con(Funcionales),
                                          variadica |-> Con({"variadico"}), inseguro |-> Con({"inseguro"})]
                        /\ Len(ambitos) = Cardinality(Marcos(programa, pos))
                        /\ instancia = \E j \in abre : MetodoDeInstancia(programa, j)
  BY DEF ContextosFieles
<1> DEFINE p == programa
           A == Abiertos(p, pos)
           Con(ms) == Cardinality({j \in A : ms \cap ({p[j].op} \cup p[j].marcas) # {}})
<1>1. ToSet(abiertos) = A
  BY EnVisita DEF PilaFiel, ToSet
<1>2. profundidad = [c \in Cuentas |-> Cuantos(p, A, c)] /\ Len(ambitos) = Cardinality(Marcos(p, pos))
      /\ (instancia <=> \E j \in A : MetodoDeInstancia(p, j)) /\ instancia \in BOOLEAN
  BY EnVisita DEF CuentasFieles, Inv, TypeOK
<1>3. \A c \in Cuentas : Cuantos(p, A, c) = Con(Sena(c))
  <2> TAKE c \in Cuentas
  <2>1. {j \in A : c \in Aporta(p[j])} = {j \in A : Sena(c) \cap ({p[j].op} \cup p[j].marcas) # {}}
    BY DEF Aporta
  <2> QED BY <2>1 DEF Cuantos
<1>4. Sena("bucle") = Bucles /\ Sena("funcion") = Funcionales
      /\ Sena("variadica") = {"variadico"} /\ Sena("inseguro") = {"inseguro"}
  BY DEF Sena
<1> HIDE DEF Con
<1>5. profundidad = [bucle |-> Con(Bucles), funcion |-> Con(Funcionales),
                     variadica |-> Con({"variadico"}), inseguro |-> Con({"inseguro"})]
  BY <1>2, <1>3, <1>4 DEF Cuentas
<1> QED BY <1>1, <1>2, <1>5 DEF Con

(* A name in some scope is one that is visible.                             *)
LEMMA DeclaradaEsVisible ==
  ASSUME Inv, fase = "visitar", errores = {}, NEW x
  PROVE  Declarada(x) <=> x \in Nombres /\ VisibleDesde(programa, pos, x)
<1> DEFINE p == programa
           n == Len(ambitos)
<1>1. ambitos \in Seq(SUBSET Nombres) /\ n \in Nat /\ n # 0 /\ DOMAIN ambitos = 1 .. n /\ n \in 1 .. n
  BY EnVisita, LenProperties
<1>2. PICK ms \in [DOMAIN ambitos -> 0 .. Len(p)] : AmbitosDe(ms)
  BY EnVisita DEF SinErrores, AmbitosFieles
<1>3. {ms[j] : j \in 1 .. n} = Marcos(p, pos)
  BY <1>1, <1>2 DEF AmbitosDe
<1>4. UNION {ambitos[j] : j \in 1 .. n} = DeclaradasEn(p, pos, {ms[j] : j \in 1 .. n})
  BY <1>1, <1>2 DEF AmbitosDe
<1>5. UNION {ambitos[j] : j \in 1 .. n} = DeclaradasEn(p, pos, Marcos(p, pos))
  BY <1>3, <1>4
<1>6. Declarada(x) <=> x \in UNION {ambitos[j] : j \in 1 .. n}
  BY <1>1 DEF Declarada
<1> QED BY <1>5, <1>6 DEF DeclaradasEn, VisibleDesde

(* What is declared is a name, in a function no later than the declaration. *)
LEMMA DeclaracionTipo ==
  ASSUME NEW p \in Seq(Suceso), BienFormado(p), NEW x, NEW d \in Declaraciones(p, x)
  PROVE  x \in Nombres /\ d[1] \in DOMAIN p /\ d[2] \in 0 .. d[1] /\ d = <<d[1], d[2]>>
<1>1. Len(p) \in Nat /\ DOMAIN p = 1 .. Len(p)
  BY LenProperties
<1>2. CASE \E i \in DOMAIN p : d = <<i, Dueno(p, i)>> /\ p[i].op \in {"asigna", "para"} /\ p[i].x = x
  <2>1. PICK i \in DOMAIN p : d = <<i, Dueno(p, i)>> /\ p[i].op \in {"asigna", "para"} /\ p[i].x = x
    BY <1>2
  <2>2. p[i].op \in Definiciones \cup {"asigna", "para"}
    BY <2>1
  <2>3. x \in Nombres
    BY <2>1, <2>2 DEF BienFormado
  <2>4. Dueno(p, i) \in 0 .. i - 1 /\ i \in Nat
    BY <1>1, DuenoEsElUltimo
  <2>5. Dueno(p, i) \in 0 .. i
    BY <2>4
  <2> QED BY <2>1, <2>3, <2>5
<1>3. CASE \E i \in DOMAIN p : d = <<i, i>> /\ p[i].op \in Funcionales /\ x \in ToSet(p[i].ps)
  <2>1. PICK i \in DOMAIN p : d = <<i, i>> /\ x \in ToSet(p[i].ps)
    BY <1>3
  <2>2. p[i].ps \in Seq(Nombres)
    <3>1. p[i] \in Suceso
      BY <1>1, ElementOfSeq
    <3> QED BY <3>1 DEF Suceso
  <2>3. x \in Nombres
    <3>1. PICK k \in DOMAIN p[i].ps : x = p[i].ps[k]
      BY <2>1 DEF ToSet
    <3> QED BY <2>2, <3>1, LenProperties, ElementOfSeq
  <2>4. i \in 0 .. i
    BY <1>1
  <2> QED BY <2>1, <2>3, <2>4
<1> QED BY <1>2, <1>3 DEF Declaraciones

(* A constant has a declaration where it is made one.                       *)
LEMMA ConstanteDeclarada ==
  ASSUME NEW p \in Seq(Suceso), BienFormado(p), NEW j \in DOMAIN p, NEW x, HaceConstante(p, j, x)
  PROVE  x \in Nombres /\ \E d \in Declaraciones(p, x) : d[1] = j
<1>1. \/ p[j].op \in {"asigna", "para"} /\ p[j].x = x
      \/ p[j].op \in Funcionales /\ x \in ToSet(p[j].ps)
  BY DEF HaceConstante
<1>2. <<j, Dueno(p, j)>> \in Declaraciones(p, x) \/ <<j, j>> \in Declaraciones(p, x)
  BY <1>1 DEF Declaraciones
<1> QED BY <1>2, DeclaracionTipo

(* A name of the table of constants assigned anew: one of this function, or *)
(* of another.                                                              *)
LEMMA ConstanteRota ==
  ASSUME Inv, fase = "visitar", errores = {}, pos \in DOMAIN programa
  PROVE  (\E x \in Asignados(programa[pos]) : x \in constantes)
           <=> ReasignaVisible(programa, pos) \/ ConstanteAjena(programa, pos)
<1> DEFINE p == programa
<1>1. p \in Seq(Suceso) /\ BienFormado(p) /\ pos \in 1 .. Len(p) + 1 /\ Len(p) \in Nat /\ DOMAIN p = 1 .. Len(p)
  BY EnVisita
<1>2. constantes = {x \in Nombres : \E j \in 1 .. pos - 1 : HaceConstante(p, j, x)}
  BY EnVisita DEF SinErrores
<1>3. 1 .. pos - 1 \subseteq DOMAIN p
  BY <1>1
<1>4. ASSUME NEW x \in Asignados(p[pos]), x \in constantes
      PROVE  ReasignaVisible(p, pos) \/ ConstanteAjena(p, pos)
  <2>1. PICK j \in 1 .. pos - 1 : HaceConstante(p, j, x)
    BY <1>2, <1>4
  <2>2. PICK d \in Declaraciones(p, x) : d[1] = j
    BY <1>1, <1>3, <2>1, ConstanteDeclarada
  <2> QED BY <2>1, <2>2 DEF ReasignaVisible, ConstanteAjena
<1>5. ASSUME NEW x \in Asignados(p[pos]), NEW j \in 1 .. pos - 1, HaceConstante(p, j, x)
      PROVE  x \in constantes
  BY <1>1, <1>2, <1>3, <1>5, ConstanteDeclarada
<1> QED BY <1>4, <1>5 DEF ReasignaVisible, ConstanteAjena

(* As long as no name is defined twice, the tables hold each definition.    *)
LEMMA LasTablas ==
  ASSUME Inv, fase = "visitar", errores = {}
  PROVE  /\ \A x : x \in DOMAIN funciones <=> EsFuncion(programa, x)
         /\ \A x : x \in DOMAIN externas <=> EsExterna(programa, x)
         /\ \A k \in DOMAIN programa : programa[k].op = "funcion" => funciones[programa[k].x] = k
         /\ \A k \in DOMAIN programa : programa[k].op = "externa" => externas[programa[k].x] = k
         /\ \A j, k \in DOMAIN programa :
              programa[j].op \in Definiciones /\ programa[k].op \in Definiciones
                /\ programa[j].x = programa[k].x => j = k
<1> DEFINE p == programa
<1>1. /\ funciones = Tabla("funcion") /\ externas = Tabla("externa")
      /\ \A j, k \in DOMAIN p :
           p[j].op \in Definiciones /\ p[k].op \in Definiciones /\ p[j].x = p[k].x => j = k
  BY EnVisita DEF TablasFieles
<1>2. \A k \in DOMAIN p : p[k].op \in Definiciones => Definen(p[k].x) = {k}
  BY <1>1 DEF Definen
<1>3. \A k \in DOMAIN p : p[k].op \in Definiciones => Min(Definen(p[k].x)) = k
  <2> TAKE k \in DOMAIN p
  <2> HAVE p[k].op \in Definiciones
  <2>0. k \in Nat
    BY EnVisita
  <2>1. Definen(p[k].x) = {k} /\ k \in Nat
    BY <1>2, <2>0
  <2>2. {k} \in SUBSET Nat /\ {k} # {}
    BY <2>1
  <2>3. Min({k}) \in {k}
    BY <2>2, Minimo
  <2> QED BY <2>1, <2>3
<1>4. ASSUME NEW op \in Definiciones
      PROVE  /\ \A x : x \in DOMAIN Tabla(op) <=> \E k \in DOMAIN p : p[k].op = op /\ p[k].x = x
             /\ \A k \in DOMAIN p : p[k].op = op => Tabla(op)[p[k].x] = k
  <2>1. Primeras(op) = {k \in DOMAIN p : p[k].op = op}
    BY <1>3 DEF Primeras
  <2> QED BY <1>3, <2>1 DEF Tabla
<1>5. "funcion" \in Definiciones /\ "externa" \in Definiciones
  BY DEF Definiciones
<1> QED BY <1>1, <1>4, <1>5 DEF EsFuncion, EsExterna


-----------------------------------------------------------------------------
(* The verdict on the visit in hand.                                        *)

(* The rule for each kind of visit.                                         *)
LEMMA ReglaDe ==
  ASSUME NEW p, NEW i
  PROVE  /\ p[i].op \in {"lee", "post"} =>
              (ReglaRota(p, i) <=> ~ VisibleDesde(p, i, p[i].x) /\ ~ EsFuncion(p, p[i].x)
                                   /\ p[i].x \notin Incorporadas)
         /\ p[i].op = "llama" => (ReglaRota(p, i) <=> LlamadaMala(p, i))
         /\ p[i].op \in {"asigna", "para"} =>
              (ReglaRota(p, i) <=> ReasignaVisible(p, i) \/ ("global" \in p[i].marcas /\ Dueno(p, i) # 0))
         /\ p[i].op \in Funcionales =>
              (ReglaRota(p, i) <=>
                 \/ ReasignaVisible(p, i)
                 \/ \E j, k \in DOMAIN p[i].ps : j # k /\ p[i].ps[j] = p[i].ps[k]
                 \/ /\ p[i].op = "funcion"
                    /\ \E j \in DOMAIN p : j # i /\ p[j].op \in Definiciones /\ p[j].x = p[i].x)
         /\ p[i].op = "externa" =>
              (ReglaRota(p, i) <=> \E j \in DOMAIN p : j # i /\ p[j].op \in Definiciones /\ p[j].x = p[i].x)
         /\ p[i].op \in {"romper", "retornar", "varargs", "este"} => (ReglaRota(p, i) <=> Contexto(p, i) = Nada)
         /\ p[i].op \in {"bucle", "inseguro", "fin"} => ~ ReglaRota(p, i)
<1> USE DEF Funcionales
<1>1. p[i].op \in {"lee", "post"} =>
              (ReglaRota(p, i) <=> ~ VisibleDesde(p, i, p[i].x) /\ ~ EsFuncion(p, p[i].x)
                                   /\ p[i].x \notin Incorporadas)
  BY DEF ReglaRota
<1>2. p[i].op = "llama" => (ReglaRota(p, i) <=> LlamadaMala(p, i))
  BY DEF ReglaRota
<1>3. p[i].op \in {"asigna", "para"} =>
              (ReglaRota(p, i) <=> ReasignaVisible(p, i) \/ ("global" \in p[i].marcas /\ Dueno(p, i) # 0))
  BY DEF ReglaRota
<1>4. p[i].op \in Funcionales =>
              (ReglaRota(p, i) <=>
                 \/ ReasignaVisible(p, i)
                 \/ \E j, k \in DOMAIN p[i].ps : j # k /\ p[i].ps[j] = p[i].ps[k]
                 \/ /\ p[i].op = "funcion"
                    /\ \E j \in DOMAIN p : j # i /\ p[j].op \in Definiciones /\ p[j].x = p[i].x)
  BY DEF ReglaRota
<1>5. p[i].op = "externa" =>
              (ReglaRota(p, i) <=> \E j \in DOMAIN p : j # i /\ p[j].op \in Definiciones /\ p[j].x = p[i].x)
  BY DEF ReglaRota
<1>6. p[i].op \in {"romper", "retornar", "varargs", "este"} => (ReglaRota(p, i) <=> Contexto(p, i) = Nada)
  BY DEF ReglaRota
<1>7. p[i].op \in {"bucle", "inseguro", "fin"} => ~ ReglaRota(p, i)
  BY DEF ReglaRota
<1> QED BY <1>1, <1>2, <1>3, <1>4, <1>5, <1>6, <1>7

(* A context is borrowed by three kinds of visit, and names are assigned by *)
(* assignments, `para` and functions.                                       *)
LEMMA SinContextoNiNombre ==
  ASSUME NEW p, NEW i
  PROVE  /\ p[i].op \notin {"romper", "varargs", "este"} => ~ ContextoPrestado(p, i)
         /\ p[i].op \in {"asigna", "para"} => Asignados(p[i]) = {p[i].x}
         /\ p[i].op \in Funcionales => Asignados(p[i]) = ToSet(p[i].ps)
         /\ p[i].op \notin {"asigna", "para"} \cup Funcionales =>
              /\ Asignados(p[i]) = {} /\ ~ ConstanteAjena(p, i) /\ ~ ReasignaVisible(p, i)
              /\ \A x : ~ HaceConstante(p, i, x)
<1>1. p[i].op \notin {"romper", "varargs", "este"} => ~ ContextoPrestado(p, i)
  BY DEF ContextoPrestado
<1>2. p[i].op \in {"asigna", "para"} => Asignados(p[i]) = {p[i].x}
  BY DEF Asignados, Funcionales
<1>3. p[i].op \in Funcionales => Asignados(p[i]) = ToSet(p[i].ps)
  BY DEF Asignados, Funcionales
<1>4. p[i].op \notin {"asigna", "para"} \cup Funcionales => Asignados(p[i]) = {}
  BY DEF Asignados
<1>5. p[i].op \notin {"asigna", "para"} \cup Funcionales =>
        ~ ConstanteAjena(p, i) /\ ~ ReasignaVisible(p, i) /\ \A x : ~ HaceConstante(p, i, x)
  BY <1>4 DEF ConstanteAjena, ReasignaVisible, HaceConstante
<1> QED BY <1>1, <1>2, <1>3, <1>4, <1>5

(* A first report is one that says something.                               *)
LEMMA PrimerReporte ==
  ASSUME errores = {}, NEW cs, Reporta(cs)
  PROVE  errores' = {} <=> cs = {}
BY DEF Reporta

(* A name read.                                                             *)
LEMMA VeredictoUso ==
  ASSUME Inv, errores = {}, UsarIdentificador
  PROVE  errores' = {} <=> Sana(programa, pos)
<1> DEFINE p == programa
           x == Actual.x
<1>1. Visita({"lee", "post"})
      /\ Reporta(Si(~ Declarada(x) /\ x \notin DOMAIN funciones \cup Incorporadas, "noDeclarada"))
  BY DEF UsarIdentificador
<1>2. fase = "visitar" /\ x = p[pos].x /\ p[pos].op \in {"lee", "post"} /\ p \in Seq(Suceso) /\ BienFormado(p)
  BY <1>1, EnMano, EnVisita
<1>3. errores' = {} <=> Declarada(x) \/ x \in DOMAIN funciones \cup Incorporadas
  BY <1>1, PrimerReporte DEF Si
<1>4. Declarada(x) <=> VisibleDesde(p, pos, x)
  BY <1>2, DeclaradaEsVisible, DeclaracionTipo DEF VisibleDesde
<1>5. x \in DOMAIN funciones <=> EsFuncion(p, x)
  BY <1>2, LasTablas
<1>6. ~ ContextoPrestado(p, pos) /\ ~ ConstanteAjena(p, pos)
  BY <1>2, SinContextoNiNombre DEF Funcionales
<1>7. ReglaRota(p, pos) <=> ~ VisibleDesde(p, pos, x) /\ ~ EsFuncion(p, x) /\ x \notin Incorporadas
  BY <1>2, ReglaDe
<1> QED BY <1>3, <1>4, <1>5, <1>6, <1>7 DEF Sana

(* A call.                                                                  *)
LEMMA VeredictoLlamada ==
  ASSUME Inv, errores = {}, VisitarLlamada
  PROVE  errores' = {} <=> Sana(programa, pos)
<1> DEFINE p == programa
           x == Actual.x
           n == Actual.n
<1>1. Visita({"llama"}) /\ Reporta(ErroresDeLlamada(x, n))
  BY DEF VisitarLlamada
<1>2. fase = "visitar" /\ Actual = p[pos] /\ p \in Seq(Suceso) /\ BienFormado(p)
  BY <1>1, EnMano, EnVisita
<1>2a. p[pos].op = "llama"
  BY <1>1 DEF Visita, Actual
<1>3. errores' = {} <=> ErroresDeLlamada(x, n) = {}
  BY <1>1, PrimerReporte
<1>4. ~ ContextoPrestado(p, pos) /\ ~ ConstanteAjena(p, pos) /\ (ReglaRota(p, pos) <=> LlamadaMala(p, pos))
  BY <1>2a, SinContextoNiNombre, ReglaDe DEF Funcionales
<1>5. CASE EsFuncion(p, x)
  <2>1. PICK k \in DOMAIN p : p[k].op = "funcion" /\ p[k].x = x
    BY <1>5 DEF EsFuncion
  <2>2. x \in DOMAIN funciones /\ funciones[x] = k
    BY <1>2, <1>5, <2>1, LasTablas
  <2>3. ErroresDeLlamada(x, n) = {} <=> ~ MalaAridad(k, n)
    BY <2>2 DEF ErroresDeLlamada, Si
  <2>4. \A j \in DOMAIN p : p[j].op \in Definiciones /\ p[j].x = x <=> j = k
    BY <1>2, <2>1, LasTablas DEF Definiciones
  <2>5. (CHOOSE j \in DOMAIN p : p[j].op \in Definiciones /\ p[j].x = x) = k
    BY <2>1, <2>4
  <2>6. LlamadaMala(p, pos) <=> MalaAridad(k, n)
    BY <1>2, <2>1, <2>4, <2>5 DEF LlamadaMala, MalaAridad, Parametros
  <2> QED BY <1>3, <1>4, <2>3, <2>6 DEF Sana
<1>6. CASE ~ EsFuncion(p, x) /\ EsExterna(p, x)
  <2>1. PICK k \in DOMAIN p : p[k].op = "externa" /\ p[k].x = x
    BY <1>6 DEF EsExterna
  <2>2. x \notin DOMAIN funciones /\ x \in DOMAIN externas /\ externas[x] = k
    BY <1>2, <1>6, <2>1, LasTablas
  <2>3. ErroresDeLlamada(x, n) = {} <=> profundidad["inseguro"] # 0 /\ n = p[k].n
    BY <2>2 DEF ErroresDeLlamada, Si
  <2>4. \A j \in DOMAIN p : p[j].op \in Definiciones /\ p[j].x = x <=> j = k
    BY <1>2, <2>1, LasTablas DEF Definiciones
  <2>5. (CHOOSE j \in DOMAIN p : p[j].op \in Definiciones /\ p[j].x = x) = k
    BY <2>1, <2>4
  <2>6. LlamadaMala(p, pos) <=>
          n # p[k].n \/ \A j \in Abiertos(p, pos) : p[j].op # "inseguro" /\ "inseguro" \notin p[j].marcas
    BY <1>2, <2>1, <2>4, <2>5 DEF LlamadaMala
  <2>7. profundidad["inseguro"] = 0 <=>
          \A j \in Abiertos(p, pos) : p[j].op # "inseguro" /\ "inseguro" \notin p[j].marcas
    BY <1>2, LasCuentas
  <2> QED BY <1>3, <1>4, <2>3, <2>6, <2>7 DEF Sana
<1>7. CASE ~ EsFuncion(p, x) /\ ~ EsExterna(p, x)
  <2>1. x \notin DOMAIN funciones /\ x \notin DOMAIN externas
    BY <1>2, <1>7, LasTablas
  <2>2. ErroresDeLlamada(x, n) = {} <=> x \in Incorporadas \/ Declarada(x)
    BY <2>1 DEF ErroresDeLlamada, Si
  <2>3. Declarada(x) <=> VisibleDesde(p, pos, x)
    BY <1>2, DeclaradaEsVisible, DeclaracionTipo DEF VisibleDesde
  <2>4. LlamadaMala(p, pos) <=> x \notin Incorporadas /\ ~ VisibleDesde(p, pos, x)
    BY <1>2, <1>7 DEF LlamadaMala, EsFuncion, EsExterna, Definiciones
  <2> QED BY <1>3, <1>4, <2>2, <2>3, <2>4 DEF Sana
<1> QED BY <1>5, <1>6, <1>7

(* A name assigned.                                                         *)
LEMMA VeredictoAsignacion ==
  ASSUME Inv, errores = {}, VisitarAsignacion
  PROVE  /\ errores' = {} <=> Sana(programa, pos)
         /\ errores' = {} => Actual.x \notin constantes
<1> DEFINE p == programa
           x == Actual.x
<1>1. /\ Visita({"asigna"})
      /\ Reporta(Constante(x) \cup Si("global" \in Actual.marcas /\ profundidad["funcion"] > 0, "global"))
  BY DEF VisitarAsignacion
<1>2. fase = "visitar" /\ Actual = p[pos] /\ pos \in DOMAIN p
  BY <1>1, EnMano
<1>3. p[pos].op = "asigna"
  BY <1>1 DEF Visita, Actual
<1>4. errores' = {} <=> x \notin constantes /\ ~ ("global" \in Actual.marcas /\ profundidad["funcion"] > 0)
  BY <1>1, PrimerReporte DEF Constante, Si
<1>5. x \in constantes <=> ReasignaVisible(p, pos) \/ ConstanteAjena(p, pos)
  <2>1. Asignados(p[pos]) = {x}
    BY <1>2, <1>3, SinContextoNiNombre
  <2> QED BY <1>2, <2>1, ConstanteRota
<1>6. profundidad["funcion"] > 0 <=> Dueno(p, pos) # 0
  BY <1>2, LasCuentas
<1>7. ~ ContextoPrestado(p, pos)
      /\ (ReglaRota(p, pos) <=> ReasignaVisible(p, pos) \/ ("global" \in p[pos].marcas /\ Dueno(p, pos) # 0))
  BY <1>3, SinContextoNiNombre, ReglaDe
<1> QED BY <1>2, <1>4, <1>5, <1>6, <1>7 DEF Sana

(* The variable of a `para`.                                                *)
LEMMA VeredictoPara ==
  ASSUME Inv, errores = {}, EntrarPara
  PROVE  /\ errores' = {} <=> Sana(programa, pos)
         /\ errores' = {} => Actual.x \notin constantes
<1> DEFINE p == programa
           x == Actual.x
<1>1. Visita({"para"}) /\ Reporta(Constante(x))
  BY DEF EntrarPara
<1>2. fase = "visitar" /\ Actual = p[pos] /\ pos \in DOMAIN p
  BY <1>1, EnMano
<1>3. p[pos].op = "para"
  BY <1>1 DEF Visita, Actual
<1>4. errores' = {} <=> x \notin constantes
  BY <1>1, PrimerReporte DEF Constante, Si
<1>5. x \in constantes <=> ReasignaVisible(p, pos) \/ ConstanteAjena(p, pos)
  <2>1. Asignados(p[pos]) = {x}
    BY <1>2, <1>3, SinContextoNiNombre
  <2> QED BY <1>2, <2>1, ConstanteRota
<1>6. "global" \notin p[pos].marcas
  <2>1. Actual.op \in Aperturas \ Funcionales
    BY <1>2, <1>3 DEF Aperturas, Bucles, Funcionales
  <2> QED BY <1>1, <1>2, <2>1, EnMano
<1>7. ~ ContextoPrestado(p, pos)
      /\ (ReglaRota(p, pos) <=> ReasignaVisible(p, pos) \/ ("global" \in p[pos].marcas /\ Dueno(p, pos) # 0))
  BY <1>3, SinContextoNiNombre, ReglaDe
<1> QED BY <1>4, <1>5, <1>6, <1>7 DEF Sana

(* The parameters of a function.                                            *)
LEMMA VeredictoFuncion ==
  ASSUME Inv, errores = {}, EntrarFuncion
  PROVE  /\ errores' = {} <=> Sana(programa, pos)
         /\ errores' = {} => ToSet(Actual.ps) \cap constantes = {}
<1> DEFINE p == programa
           ps == Actual.ps
<1>1. /\ Visita(Funcionales)
      /\ Reporta(Si(Repite(ps), "duplicado")
                 \cup Si(ToSet(ps) \cap constantes # {}
                         \/ \E j, k \in DOMAIN ps : j < k /\ ps[j] = ps[k] /\ ps[k] \in Mayusculas,
                         "constante"))
  BY DEF EntrarFuncion, DeclararParametros
<1>2. fase = "visitar" /\ Actual = p[pos] /\ pos \in DOMAIN p /\ p[pos].op \in Funcionales
      /\ ps \in Seq(Nombres)
  BY <1>1, EnMano
<1>3. errores' = {} <=> ~ Repite(ps) /\ ToSet(ps) \cap constantes = {}
  BY <1>1, PrimerReporte DEF Repite, Si
<1>4. Repite(ps) <=> \E j, k \in DOMAIN ps : j # k /\ ps[j] = ps[k]
  <2>1. DOMAIN ps \subseteq Nat
    BY <1>2, LenProperties
  <2>2. \A j, k \in DOMAIN ps : j # k => j < k \/ k < j
    BY <2>1
  <2>3. \A j, k \in DOMAIN ps : j < k => j # k
    BY <2>1
  <2> QED BY <2>2, <2>3 DEF Repite
<1>5. ToSet(ps) \cap constantes # {} <=> ReasignaVisible(p, pos) \/ ConstanteAjena(p, pos)
  <2>1. Asignados(p[pos]) = ToSet(ps)
    BY <1>2, SinContextoNiNombre
  <2> QED BY <1>2, <2>1, ConstanteRota
<1>6. ~ (p[pos].op = "funcion" /\ \E j \in DOMAIN p : j # pos /\ p[j].op \in Definiciones /\ p[j].x = p[pos].x)
  BY <1>2, LasTablas DEF Definiciones
<1>7. ~ ContextoPrestado(p, pos)
  BY <1>2, SinContextoNiNombre DEF Funcionales
<1>8. ReglaRota(p, pos) <=> ReasignaVisible(p, pos) \/ \E j, k \in DOMAIN ps : j # k /\ ps[j] = ps[k]
  BY <1>2, <1>6, ReglaDe
<1> QED BY <1>3, <1>4, <1>5, <1>7, <1>8 DEF Sana

(* `romper`, `retornar`, `...` and `este`.                                  *)
LEMMA VeredictoContexto ==
  ASSUME Inv, errores = {}, VisitarContexto
  PROVE  errores' = {} <=> Sana(programa, pos)
<1> DEFINE p == programa
           op == Actual.op
           A == Abiertos(p, pos)
           d == Dueno(p, pos)
<1>1. Visita({"romper", "retornar", "varargs", "este"}) /\ Reporta(Si(FueraDeContexto(op), op))
  BY DEF VisitarContexto
<1>2. fase = "visitar" /\ Actual = p[pos] /\ pos \in DOMAIN p /\ op \in {"romper", "retornar", "varargs", "este"}
  BY <1>1, EnMano
<1>3. errores' = {} <=> ~ FueraDeContexto(op)
  BY <1>1, PrimerReporte DEF Si
<1>4. ReglaRota(p, pos) <=> Contexto(p, pos) = Nada
  BY <1>2, ReglaDe
<1>5. ~ ConstanteAjena(p, pos)
  BY <1>2, SinContextoNiNombre DEF Funcionales
<1>6. p \in Seq(Suceso) /\ BienFormado(p) /\ pos \in 1 .. Len(p) + 1
  BY <1>2, EnVisita
<1>7. /\ A \subseteq DOMAIN p /\ \A j \in A : p[j].op \in Aperturas
      /\ 0 \notin A
  BY <1>6, AbiertosTipo
<1>8. \A m : Destino("contexto", m) # Nada
  BY DEF Destino, Nada
<1>9. CASE op = "romper"
  <2>1. Contexto(p, pos) = Nada <=> ~ BuclePropio(p, pos)
    BY <1>2, <1>8, <1>9 DEF Contexto
  <2>2. ContextoPrestado(p, pos) <=> ~ BuclePropio(p, pos) /\ \E j \in A : p[j].op \in Bucles
    BY <1>2, <1>9 DEF ContextoPrestado
  <2>3. BuclePropio(p, pos) => \E j \in A : p[j].op \in Bucles
    BY DEF BuclePropio
  <2>4. FueraDeContexto(op) <=> \A j \in A : p[j].op \notin Bucles
    BY <1>2, <1>9, LasCuentas DEF FueraDeContexto
  <2> QED BY <1>3, <1>4, <1>5, <2>1, <2>2, <2>3, <2>4 DEF Sana
<1>10. CASE op = "retornar"
  <2>1. Contexto(p, pos) = Nada <=> d = 0
    BY <1>2, <1>8, <1>10 DEF Contexto
  <2>2. ~ ContextoPrestado(p, pos)
    BY <1>2, <1>10 DEF ContextoPrestado
  <2>3. FueraDeContexto(op) <=> d = 0
    BY <1>2, <1>10, LasCuentas DEF FueraDeContexto
  <2> QED BY <1>3, <1>4, <1>5, <2>1, <2>2, <2>3 DEF Sana
<1>11. CASE op = "varargs"
  <2>1. Contexto(p, pos) = Nada <=> ~ PropiaVariadica(p, d)
    BY <1>2, <1>8, <1>11 DEF Contexto
  <2>2. ContextoPrestado(p, pos) <=>
          ~ PropiaVariadica(p, d) /\ \E m \in Marcos(p, pos) : PropiaVariadica(p, m)
    BY <1>2, <1>11 DEF ContextoPrestado
  <2>3. d \in Marcos(p, pos)
    BY <1>6, DuenoEsElUltimo
  <2>4. (\E m \in Marcos(p, pos) : PropiaVariadica(p, m)) <=> \E j \in A : "variadico" \in p[j].marcas
    <3>1. \A j \in A : "variadico" \in p[j].marcas => p[j].op \in Funcionales
      BY <1>6, <1>7 DEF BienFormado
    <3> QED BY <1>7, <3>1 DEF PropiaVariadica, Marcos
  <2>5. FueraDeContexto(op) <=> \A j \in A : "variadico" \notin p[j].marcas
    BY <1>2, <1>11, LasCuentas DEF FueraDeContexto
  <2> QED BY <1>3, <1>4, <1>5, <2>1, <2>2, <2>3, <2>4, <2>5 DEF Sana
<1>12. CASE op = "este"
  <2>1. Contexto(p, pos) = Nada <=> ~ MetodoDeInstancia(p, d)
    BY <1>2, <1>8, <1>12 DEF Contexto
  <2>2. ContextoPrestado(p, pos) <=>
          ~ MetodoDeInstancia(p, d) /\ \E m \in Marcos(p, pos) : MetodoDeInstancia(p, m)
    BY <1>2, <1>12 DEF ContextoPrestado
  <2>3. d \in Marcos(p, pos)
    BY <1>6, DuenoEsElUltimo
  <2>4. (\E m \in Marcos(p, pos) : MetodoDeInstancia(p, m)) <=> \E j \in A : MetodoDeInstancia(p, j)
    BY <1>7 DEF MetodoDeInstancia, Marcos, Funcionales
  <2>5. FueraDeContexto(op) <=> ~ \E j \in A : MetodoDeInstancia(p, j)
    BY <1>2, <1>12, EnVisita DEF FueraDeContexto, CuentasFieles
  <2> QED BY <1>3, <1>4, <1>5, <2>1, <2>2, <2>3, <2>4, <2>5 DEF Sana
<1> QED BY <1>2, <1>9, <1>10, <1>11, <1>12


-----------------------------------------------------------------------------
(* What a visit without a report leaves.                                    *)

(* The scopes after the visit in hand: a name more in the innermost one, a  *)
(* function's parameters, one scope less, or the same.                      *)
AmbitosTras ==
  LET s == programa[pos]
      n == Len(ambitos) IN
  IF s.op \in {"asigna", "para"}
  THEN /\ Len(ambitos') = n /\ DOMAIN ambitos' = 1 .. n
       /\ \A k \in 1 .. n - 1 : ambitos'[k] = ambitos[k]
       /\ UNION {ambitos'[j] : j \in 1 .. n} = (UNION {ambitos[j] : j \in 1 .. n}) \cup {s.x}
  ELSE IF s.op \in Funcionales
  THEN /\ DOMAIN ambitos' = 1 .. n + 1 /\ \A k \in 1 .. n : ambitos'[k] = ambitos[k]
       /\ ambitos'[n + 1] = ToSet(s.ps)
  ELSE IF s.op = "fin" /\ programa[Last(abiertos)].op \in Funcionales
  THEN DOMAIN ambitos' = 1 .. n - 1 /\ \A k \in 1 .. n - 1 : ambitos'[k] = ambitos[k]
  ELSE ambitos' = ambitos

(* The constants after it.                                                  *)
ConstantesTras ==
  constantes' = constantes \cup {x \in Nombres : HaceConstante(programa, pos, x)}

(* A name declared in the innermost scope is declared in some.              *)
LEMMA UnAmbitoMas ==
  ASSUME NEW a, NEW b, NEW n \in Nat \ {0}, NEW y,
         \A k \in 1 .. n - 1 : b[k] = a[k], b[n] = a[n] \cup {y}
  PROVE  UNION {b[j] : j \in 1 .. n} = (UNION {a[j] : j \in 1 .. n}) \cup {y}
<1>1. 1 .. n = (1 .. n - 1) \cup {n}
  OBVIOUS
<1>2. \A z : z \in UNION {b[j] : j \in 1 .. n} <=> \E j \in 1 .. n : z \in b[j]
  OBVIOUS
<1>3. \A z : z \in UNION {a[j] : j \in 1 .. n} <=> \E j \in 1 .. n : z \in a[j]
  OBVIOUS
<1>4. \A z : (\E j \in 1 .. n : z \in b[j]) <=> (\E j \in 1 .. n : z \in a[j]) \/ z = y
  BY <1>1
<1>5. \A z : z \in UNION {b[j] : j \in 1 .. n} <=> z \in (UNION {a[j] : j \in 1 .. n}) \cup {y}
  BY <1>2, <1>3, <1>4
<1> QED BY <1>5

(* An assignment.                                                           *)
LEMMA TrasAsignacion ==
  ASSUME Inv, errores = {}, errores' = {}, VisitarAsignacion
  PROVE  AmbitosTras /\ ConstantesTras
<1> DEFINE x == Actual.x
           n == Len(ambitos)
           c == "const" \in Actual.marcas
<1>1. Visita({"asigna"}) /\ Declarar(x, c) /\ x \notin constantes
  BY VeredictoAsignacion DEF VisitarAsignacion
<1>2. fase = "visitar" /\ Actual = programa[pos] /\ programa[pos].op = "asigna" /\ x \in Nombres
  <2>1. Actual.op = "asigna"
    BY <1>1 DEF Visita
  <2>2. Actual.op \in Definiciones \cup {"asigna", "para"}
    BY <2>1
  <2> QED BY <1>1, <2>1, <2>2, EnMano
<1>3. c \in BOOLEAN
  OBVIOUS
<1>4. /\ Len(ambitos') = n /\ DOMAIN ambitos' = DOMAIN ambitos
      /\ \A k \in 1 .. n - 1 : ambitos'[k] = ambitos[k]
      /\ ambitos'[n] = ambitos[n] \cup {x}
      /\ constantes' = constantes \cup IF c \/ x \in Mayusculas THEN {x} ELSE {}
  <2> HIDE DEF c, x
  <2> QED BY <1>1, <1>2, <1>3, DeclararTipo
<1>5. n \in Nat \ {0} /\ DOMAIN ambitos = 1 .. n
  BY <1>2, EnVisita, LenProperties
<1>6. UNION {ambitos'[j] : j \in 1 .. n} = (UNION {ambitos[j] : j \in 1 .. n}) \cup {x}
  BY <1>4, <1>5, UnAmbitoMas
<1>7. AmbitosTras
  BY <1>2, <1>4, <1>5, <1>6 DEF AmbitosTras
<1>8. \A y : HaceConstante(programa, pos, y) <=> y = x /\ (c \/ x \in Mayusculas)
  BY <1>2 DEF HaceConstante, Funcionales
<1>9. ConstantesTras
  BY <1>2, <1>4, <1>8 DEF ConstantesTras
<1> QED BY <1>7, <1>9

(* The variable of a `para`.                                                *)
LEMMA TrasPara ==
  ASSUME Inv, errores = {}, errores' = {}, EntrarPara
  PROVE  AmbitosTras /\ ConstantesTras
<1> DEFINE x == Actual.x
           n == Len(ambitos)
<1>1. Visita({"para"}) /\ x \notin constantes
  BY VeredictoPara DEF EntrarPara
<1>2. fase = "visitar" /\ Actual = programa[pos] /\ programa[pos].op = "para" /\ x \in Nombres
  <2>1. Actual.op = "para"
    BY <1>1 DEF Visita
  <2>2. Actual.op \in Definiciones \cup {"asigna", "para"}
    BY <2>1
  <2> QED BY <1>1, <2>1, <2>2, EnMano
<1>3. n \in Nat \ {0} /\ DOMAIN ambitos = 1 .. n
  BY <1>2, EnVisita, LenProperties
<1>4. Declarada(x) <=> VisibleDesde(programa, pos, x)
  BY <1>2, DeclaradaEsVisible
<1>5. \A y : HaceConstante(programa, pos, y) <=> y = x /\ x \in Mayusculas /\ ~ Declarada(x)
  BY <1>2, <1>4 DEF HaceConstante, Funcionales
<1>6. CASE Declarada(x)
  <2>1. ambitos' = ambitos /\ constantes' = constantes
    BY <1>6 DEF EntrarPara
  <2>2. UNION {ambitos'[j] : j \in 1 .. n} = (UNION {ambitos[j] : j \in 1 .. n}) \cup {x}
    BY <1>3, <1>6, <2>1 DEF Declarada
  <2>3. AmbitosTras
    BY <1>2, <1>3, <2>1, <2>2 DEF AmbitosTras
  <2> QED BY <1>5, <1>6, <2>1, <2>3 DEF ConstantesTras
<1>7. CASE ~ Declarada(x)
  <2>1. Declarar(x, FALSE)
    BY <1>7 DEF EntrarPara
  <2>2. /\ Len(ambitos') = n /\ DOMAIN ambitos' = DOMAIN ambitos
        /\ \A k \in 1 .. n - 1 : ambitos'[k] = ambitos[k]
        /\ ambitos'[n] = ambitos[n] \cup {x}
        /\ constantes' = constantes \cup IF x \in Mayusculas THEN {x} ELSE {}
    BY <1>1, <1>2, <2>1, DeclararTipo
  <2>3. UNION {ambitos'[j] : j \in 1 .. n} = (UNION {ambitos[j] : j \in 1 .. n}) \cup {x}
    BY <1>3, <2>2, UnAmbitoMas
  <2>4. AmbitosTras
    BY <1>2, <1>3, <2>2, <2>3 DEF AmbitosTras
  <2> QED BY <1>2, <1>5, <1>7, <2>2, <2>4 DEF ConstantesTras
<1> QED BY <1>6, <1>7

(* A function entered.                                                      *)
LEMMA TrasFuncion ==
  ASSUME Inv, errores = {}, errores' = {}, EntrarFuncion
  PROVE  AmbitosTras /\ ConstantesTras
<1> DEFINE ps == Actual.ps
           n == Len(ambitos)
<1>1. Visita(Funcionales) /\ DeclararParametros(ps) /\ ToSet(ps) \cap constantes = {}
  BY VeredictoFuncion DEF EntrarFuncion
<1>2. fase = "visitar" /\ Actual = programa[pos] /\ programa[pos].op \in Funcionales
  BY <1>1, EnMano
<1>3. programa[pos].op \notin {"asigna", "para", "fin"}
  BY <1>2 DEF Funcionales
<1>4. /\ ToSet(ps) \subseteq Nombres /\ DOMAIN ambitos' = 1 .. n + 1
      /\ \A k \in 1 .. n : ambitos'[k] = ambitos[k]
      /\ ambitos'[n + 1] = ToSet(ps) \ constantes
  BY <1>1, ParametrosTipo
<1>5. AmbitosTras
  BY <1>1, <1>2, <1>3, <1>4 DEF AmbitosTras
<1>6. constantes' = constantes \cup (ToSet(ps) \cap Mayusculas)
  BY <1>1 DEF DeclararParametros
<1>7. \A y : HaceConstante(programa, pos, y) <=> y \in ToSet(ps) /\ y \in Mayusculas
  BY <1>2, <1>3 DEF HaceConstante
<1>8. ConstantesTras
  BY <1>4, <1>6, <1>7 DEF ConstantesTras
<1> QED BY <1>5, <1>8

(* Every visit, of a program with no errors so far: it is reported exactly  *)
(* when it breaks a rule, and otherwise declares what it says.              *)
LEMMA PasoSinErrores ==
  ASSUME Inv, Next, fase = "visitar", fase' = "visitar", errores = {}
  PROVE  /\ errores' = {} <=> Sana(programa, pos)
         /\ errores' = {} => AmbitosTras /\ ConstantesTras
<1> DEFINE s == programa[pos]
           R == /\ errores' = {} <=> Sana(programa, pos)
                /\ errores' = {} => AmbitosTras /\ ConstantesTras
<1>1. \A ops : Visita(ops) => s.op \in ops
  BY DEF Visita, Actual
<1>2. s.op \notin {"asigna", "para"} \cup Funcionales =>
        ~ ConstanteAjena(programa, pos) /\ \A x : ~ HaceConstante(programa, pos, x)
  BY SinContextoNiNombre
<1>3. s.op \notin {"asigna", "para"} \cup Funcionales /\ s.op # "fin" /\ UNCHANGED <<ambitos, constantes>>
        => AmbitosTras /\ ConstantesTras
  <2> HAVE s.op \notin {"asigna", "para"} \cup Funcionales /\ s.op # "fin" /\ UNCHANGED <<ambitos, constantes>>
  <2>1. AmbitosTras
    BY DEF AmbitosTras
  <2>2. {x \in Nombres : HaceConstante(programa, pos, x)} = {}
    BY <1>2
  <2> QED BY <2>1, <2>2 DEF ConstantesTras
<1>4. CASE UsarIdentificador
  <2>1. s.op \in {"lee", "post"} /\ UNCHANGED <<ambitos, constantes>>
    BY <1>1, <1>4 DEF UsarIdentificador
  <2> QED BY <1>3, <1>4, <2>1, VeredictoUso DEF Funcionales
<1>5. CASE VisitarLlamada
  <2>1. s.op \in {"llama"} /\ UNCHANGED <<ambitos, constantes>>
    BY <1>1, <1>5 DEF VisitarLlamada
  <2> QED BY <1>3, <1>5, <2>1, VeredictoLlamada DEF Funcionales
<1>6. CASE VisitarAsignacion
  BY <1>6, VeredictoAsignacion, TrasAsignacion
<1>7. CASE EntrarPara
  BY <1>7, VeredictoPara, TrasPara
<1>8. CASE EntrarBloque
  <2>1. s.op \in {"bucle", "inseguro"} /\ UNCHANGED <<ambitos, constantes>> /\ errores' = errores
    BY <1>1, <1>8 DEF EntrarBloque
  <2>2. ~ ReglaRota(programa, pos)
    BY <2>1, ReglaDe
  <2> QED BY <1>2, <1>3, <2>1, <2>2 DEF Funcionales, Sana
<1>9. CASE EntrarFuncion
  BY <1>9, VeredictoFuncion, TrasFuncion
<1>10. CASE SalirBloque \/ SalirFuncion
  <2>1. Visita({"fin"}) /\ UNCHANGED <<constantes, errores>>
    BY <1>10 DEF SalirBloque, SalirFuncion, Cierra
  <2>2. s.op \in {"fin"}
    BY <1>1, <2>1
  <2>2a. s.op = "fin" /\ s.op \notin {"asigna", "para"} \cup Funcionales
    BY <2>2 DEF Funcionales
  <2>3. ~ ReglaRota(programa, pos)
    BY <2>2a, ReglaDe
  <2>4. ConstantesTras
    <3>1. {x \in Nombres : HaceConstante(programa, pos, x)} = {}
      BY <1>2, <2>2a
    <3> QED BY <2>1, <3>1 DEF ConstantesTras
  <2>5. AmbitosTras
    <3>1. CASE SalirBloque
      <4>1. programa[Last(abiertos)].op \in Bucles \cup {"inseguro"} /\ ambitos' = ambitos
        BY <3>1 DEF SalirBloque, Cierra
      <4>2. programa[Last(abiertos)].op \notin Funcionales
        BY <4>1 DEF Bucles, Funcionales
      <4> QED BY <2>2a, <4>1, <4>2 DEF AmbitosTras
    <3>2. CASE SalirFuncion
      <4>1. programa[Last(abiertos)].op \in Funcionales /\ ambitos' = Front(ambitos)
        BY <3>2 DEF SalirFuncion, Cierra
      <4>2. /\ ambitos' \in Seq(SUBSET Nombres) /\ Len(ambitos') = Len(ambitos) - 1
            /\ \A k \in 1 .. Len(ambitos) - 1 : ambitos'[k] = ambitos[k]
        BY <4>1, EnVisita, SinElUltimo
      <4>3. DOMAIN ambitos' = 1 .. Len(ambitos) - 1
        BY <4>2, LenProperties
      <4> QED BY <2>2a, <4>1, <4>2, <4>3 DEF AmbitosTras
    <3> QED BY <1>10, <3>1, <3>2
  <2> QED BY <1>2, <2>1, <2>2a, <2>3, <2>4, <2>5 DEF Sana
<1>11. CASE VisitarContexto
  <2>1. s.op \in {"romper", "retornar", "varargs", "este"} /\ UNCHANGED <<ambitos, constantes>>
    BY <1>1, <1>11 DEF VisitarContexto
  <2> QED BY <1>3, <1>11, <2>1, VeredictoContexto DEF Funcionales
<1>12. CASE VisitarExterna
  <2>1. s.op \in {"externa"} /\ UNCHANGED <<ambitos, constantes>> /\ errores' = errores /\ Visita({"externa"})
    BY <1>1, <1>12 DEF VisitarExterna
  <2>2. ~ ReglaRota(programa, pos)
    <3>1. pos \in DOMAIN programa /\ s.op = "externa"
      BY <2>1, EnMano
    <3>2. ~ \E j \in DOMAIN programa : j # pos /\ programa[j].op \in Definiciones /\ programa[j].x = s.x
      BY <3>1, LasTablas DEF Definiciones
    <3> QED BY <3>1, <3>2, ReglaDe
  <2> QED BY <1>2, <1>3, <2>1, <2>2 DEF Funcionales, Sana
<1>13. CASE RecolectarFunciones \/ Terminar
  BY <1>13 DEF RecolectarFunciones, Terminar
<1> QED BY <1>4, <1>5, <1>6, <1>7, <1>8, <1>9, <1>10, <1>11, <1>12, <1>13 DEF Next


-----------------------------------------------------------------------------
(* The scopes and the frames.                                               *)

(* The names a visit declares for the frames ds.                            *)
Estrena(p, i, ds) ==
  IF p[i].op \in {"asigna", "para"} THEN (IF Dueno(p, i) \in ds THEN {p[i].x} ELSE {})
  ELSE IF p[i].op \in Funcionales /\ i \in ds THEN ToSet(p[i].ps) ELSE {}

(* One visit more declares what it says, for the function it is in.         *)
LEMMA DeclaradasPaso ==
  ASSUME NEW p \in Seq(Suceso), BienFormado(p), NEW i \in DOMAIN p, NEW ds
  PROVE  DeclaradasEn(p, i + 1, ds) = DeclaradasEn(p, i, ds) \cup Estrena(p, i, ds)
<1>1. Len(p) \in Nat /\ DOMAIN p = 1 .. Len(p)
  BY LenProperties
<1>2. \A x : \A d \in Declaraciones(p, x) : x \in Nombres /\ (d[1] < i + 1 <=> d[1] < i \/ d[1] = i)
  <2> TAKE x
  <2> TAKE d \in Declaraciones(p, x)
  <2>1. x \in Nombres /\ d[1] \in DOMAIN p
    BY DeclaracionTipo
  <2> QED BY <1>1, <2>1
<1>3. "asigna" \notin Funcionales /\ "para" \notin Funcionales
  BY DEF Funcionales
<1>4. \A x : (\E d \in Declaraciones(p, x) : d[1] = i /\ d[2] \in ds) <=> x \in Estrena(p, i, ds)
  <2> TAKE x
  <2>1. (\E d \in Declaraciones(p, x) : d[1] = i /\ d[2] \in ds) <=>
          \/ p[i].op \in {"asigna", "para"} /\ p[i].x = x /\ Dueno(p, i) \in ds
          \/ p[i].op \in Funcionales /\ x \in ToSet(p[i].ps) /\ i \in ds
    <3>1. ASSUME NEW d \in Declaraciones(p, x), d[1] = i
          PROVE  \/ p[i].op \in {"asigna", "para"} /\ p[i].x = x /\ d[2] = Dueno(p, i)
                 \/ p[i].op \in Funcionales /\ x \in ToSet(p[i].ps) /\ d[2] = i
      <4>1. CASE \E j \in DOMAIN p : d = <<j, Dueno(p, j)>> /\ p[j].op \in {"asigna", "para"} /\ p[j].x = x
        BY <3>1, <4>1
      <4>2. CASE \E j \in DOMAIN p : d = <<j, j>> /\ p[j].op \in Funcionales /\ x \in ToSet(p[j].ps)
        BY <3>1, <4>2
      <4> QED BY <4>1, <4>2 DEF Declaraciones
    <3>2. p[i].op \in {"asigna", "para"} /\ p[i].x = x => <<i, Dueno(p, i)>> \in Declaraciones(p, x)
      BY DEF Declaraciones
    <3>3. p[i].op \in Funcionales /\ x \in ToSet(p[i].ps) => <<i, i>> \in Declaraciones(p, x)
      BY DEF Declaraciones
    <3> QED BY <3>1, <3>2, <3>3
  <2> QED BY <1>3, <2>1 DEF Estrena
<1>5. \A x : x \in DeclaradasEn(p, i + 1, ds) <=> x \in DeclaradasEn(p, i, ds) \/ x \in Estrena(p, i, ds)
  <2> TAKE x
  <2>1. x \in DeclaradasEn(p, i + 1, ds) <=>
          \E d \in Declaraciones(p, x) : (d[1] < i \/ d[1] = i) /\ d[2] \in ds
    BY <1>2 DEF DeclaradasEn
  <2>2. x \in DeclaradasEn(p, i, ds) <=> \E d \in Declaraciones(p, x) : d[1] < i /\ d[2] \in ds
    BY <1>2 DEF DeclaradasEn
  <2> QED BY <1>4, <2>1, <2>2
<1> QED BY <1>5

(* Nothing before a function's visit belongs to it.                         *)
LEMMA AntesNadie ==
  ASSUME NEW p \in Seq(Suceso), BienFormado(p), NEW i \in DOMAIN p, NEW ds
  PROVE  DeclaradasEn(p, i, ds \cup {i}) = DeclaradasEn(p, i, ds)
<1>1. \A x : \A d \in Declaraciones(p, x) : d[1] < i => d[2] # i
  <2> TAKE x
  <2> TAKE d \in Declaraciones(p, x)
  <2>1. d[1] \in DOMAIN p /\ d[2] \in 0 .. d[1] /\ Len(p) \in Nat /\ DOMAIN p = 1 .. Len(p)
    BY DeclaracionTipo, LenProperties
  <2> QED BY <2>1
<1> QED BY <1>1 DEF DeclaradasEn

(* The frames in order, one longer or one shorter.                          *)
LEMMA MarcosEnOrden ==
  ASSUME Inv, fase = "visitar", NEW ms \in [DOMAIN ambitos -> 0 .. Len(programa)], AmbitosDe(ms)
  PROVE  /\ ms[Len(ambitos)] = Dueno(programa, pos)
         /\ \A k \in 1 .. Len(ambitos) - 1 : ms[k] # Dueno(programa, pos)
<1> DEFINE n == Len(ambitos)
           d == Dueno(programa, pos)
<1>1. n \in Nat /\ n # 0 /\ DOMAIN ambitos = 1 .. n /\ n \in 1 .. n
  BY EnVisita, LenProperties
<1>2. d \in Marcos(programa, pos) /\ \A m \in Marcos(programa, pos) : m <= d
  BY EnVisita, DuenoEsElUltimo
<1>3. DOMAIN ms = 1 .. n /\ (\A k \in 1 .. n : ms[k] \in Marcos(programa, pos) /\ ms[k] \in Nat)
      /\ (\A j, k \in 1 .. n : j < k => ms[j] < ms[k])
  <2>1. \A k \in 1 .. n : ms[k] \in Marcos(programa, pos)
    BY <1>1 DEF AmbitosDe
  <2>2. \A k \in 1 .. n : ms[k] \in 0 .. Len(programa)
    BY <1>1
  <2>3. \A k \in 1 .. n : ms[k] \in Nat
    BY <2>2
  <2> QED BY <1>1, <2>1, <2>3 DEF AmbitosDe
<1>4. PICK k \in 1 .. n : ms[k] = d
  BY <1>1, <1>2 DEF AmbitosDe
<1>5. k = n
  <2> SUFFICES ASSUME k # n PROVE FALSE
    OBVIOUS
  <2>1. k < n
    <3>1. \A m \in Nat : \A l \in 1 .. m : l # m => l < m
      OBVIOUS
    <3>2. n \in Nat
      BY <1>1
    <3> HIDE DEF n
    <3> QED BY <3>1, <3>2
  <2>2. ms[k] < ms[n] /\ ms[n] <= d /\ ms[n] \in Nat /\ ms[k] \in Nat
    BY <1>1, <1>2, <1>3, <2>1
  <2> QED BY <1>4, <2>2
<1>6. \A j \in 1 .. n - 1 : j \in 1 .. n /\ j < n
  BY <1>1
<1>7. \A j \in 1 .. n - 1 : ms[j] < ms[n] /\ ms[j] \in Nat /\ ms[n] \in Nat
  BY <1>1, <1>3, <1>6
<1>8. \A j \in 1 .. n - 1 : ms[j] # ms[n]
  BY <1>7
<1> QED BY <1>4, <1>5, <1>8

(* The frames stay those of the tree when what is around does not change.   *)
LEMMA MarcosIguales ==
  ASSUME Inv, Next, fase = "visitar", fase' = "visitar", NEW ms \in [DOMAIN ambitos -> 0 .. Len(programa)],
         AmbitosDe(ms), DOMAIN ambitos' = DOMAIN ambitos, Marcos(programa, pos + 1) = Marcos(programa, pos),
         \A k \in DOMAIN ms : UNION {ambitos'[j] : j \in 1 .. k}
                                = (UNION {ambitos[j] : j \in 1 .. k})
                                    \cup Estrena(programa, pos, {ms[j] : j \in 1 .. k})
  PROVE  AmbitosFieles'
<1>1. programa' = programa /\ pos' = pos + 1 /\ pos \in DOMAIN programa /\ programa \in Seq(Suceso)
      /\ BienFormado(programa)
  BY TresPasos, EnVisita
<1>2. \A k \in DOMAIN ms : DeclaradasEn(programa, pos + 1, {ms[j] : j \in 1 .. k})
                             = DeclaradasEn(programa, pos, {ms[j] : j \in 1 .. k})
                                 \cup Estrena(programa, pos, {ms[j] : j \in 1 .. k})
  BY <1>1, DeclaradasPaso
<1>3. \A k \in DOMAIN ms : UNION {ambitos[j] : j \in 1 .. k} = DeclaradasEn(programa, pos, {ms[j] : j \in 1 .. k})
  BY DEF AmbitosDe
<1>4. \A k \in DOMAIN ms : UNION {ambitos'[j] : j \in 1 .. k}
                             = DeclaradasEn(programa, pos + 1, {ms[j] : j \in 1 .. k})
  <2> TAKE k \in DOMAIN ms
  <2> DEFINE u == UNION {ambitos[j] : j \in 1 .. k}
             v == UNION {ambitos'[j] : j \in 1 .. k}
             ds == {ms[j] : j \in 1 .. k}
  <2>1. v = u \cup Estrena(programa, pos, ds)
    OBVIOUS
  <2>2. u = DeclaradasEn(programa, pos, ds)
        /\ DeclaradasEn(programa, pos + 1, ds) = DeclaradasEn(programa, pos, ds) \cup Estrena(programa, pos, ds)
    BY <1>2, <1>3
  <2> HIDE DEF u, v, ds
  <2>3. v = DeclaradasEn(programa, pos + 1, ds)
    BY <2>1, <2>2
  <2> QED BY <2>3 DEF v, ds
<1>5. /\ DOMAIN ms = DOMAIN ambitos
      /\ \A k \in DOMAIN ms : ms[k] \in Marcos(programa, pos + 1)
      /\ \A d \in Marcos(programa, pos + 1) : \E k \in DOMAIN ms : ms[k] = d
      /\ \A j, k \in DOMAIN ms : j < k => ms[j] < ms[k]
  BY DEF AmbitosDe
<1>6. AmbitosDe(ms)'
  BY <1>1, <1>4, <1>5 DEF AmbitosDe
<1>7. ms \in [DOMAIN ambitos' -> 0 .. Len(programa')]
  BY <1>1
<1> QED BY <1>6, <1>7 DEF AmbitosFieles

(* A function entered is a frame more.                                      *)
LEMMA UnMarcoMas ==
  ASSUME Inv, Next, fase = "visitar", fase' = "visitar", NEW ms \in [DOMAIN ambitos -> 0 .. Len(programa)],
         AmbitosDe(ms), programa[pos].op \in Funcionales, AmbitosTras
  PROVE  AmbitosFieles'
<1> DEFINE p == programa
           n == Len(ambitos)
           M == Marcos(p, pos)
<1>0. PICK mt : mt = [k \in 1 .. n + 1 |-> IF k = n + 1 THEN pos ELSE ms[k]]
  OBVIOUS
<1>1. /\ p' = p /\ pos' = pos + 1 /\ pos \in DOMAIN p /\ p \in Seq(Suceso) /\ BienFormado(p)
      /\ pos \in 1 .. Len(p) /\ Len(p) \in Nat /\ pos \in 1 .. Len(p) + 1
  BY TresPasos, EnVisita
<1>2. /\ n \in Nat /\ n # 0 /\ n \in 1 .. n /\ DOMAIN ambitos = 1 .. n /\ 1 .. n + 1 = (1 .. n) \cup {n + 1} /\ n + 1 \notin 1 .. n
      /\ \A k \in 1 .. n : 1 .. k \subseteq 1 .. n
  BY EnVisita, LenProperties
<1>3. programa[pos].op \notin {"asigna", "para"} /\ programa[pos].op \in Aperturas
  BY DEF Funcionales, Aperturas
<1>4. /\ DOMAIN ambitos' = 1 .. n + 1 /\ \A k \in 1 .. n : ambitos'[k] = ambitos[k]
      /\ ambitos'[n + 1] = ToSet(p[pos].ps)
  BY <1>3 DEF AmbitosTras
<1>5. Marcos(p, pos + 1) = M \cup {pos} /\ M \subseteq 0 .. pos - 1
  BY <1>1, <1>3, MarcosPaso, DuenoEsElUltimo
<1>6. /\ DOMAIN ms = 1 .. n
      /\ \A k \in 1 .. n : ms[k] \in M
      /\ \A d \in M : \E k \in 1 .. n : ms[k] = d
      /\ \A j, k \in 1 .. n : j < k => ms[j] < ms[k]
      /\ \A k \in 1 .. n : UNION {ambitos[j] : j \in 1 .. k} = DeclaradasEn(p, pos, {ms[j] : j \in 1 .. k})
  BY <1>2 DEF AmbitosDe
<1>7. \A k \in 1 .. n : mt[k] = ms[k]
  BY <1>0, <1>2
<1>8. mt[n + 1] = pos /\ DOMAIN mt = 1 .. n + 1
  BY <1>0, <1>2
<1>9. \A k \in 1 .. n + 1 : mt[k] \in Marcos(p, pos + 1)
  BY <1>2, <1>5, <1>6, <1>7, <1>8
<1>10. \A d \in Marcos(p, pos + 1) : \E k \in 1 .. n + 1 : mt[k] = d
  BY <1>2, <1>5, <1>6, <1>7, <1>8
<1>11. \A j, k \in 1 .. n + 1 : j < k => mt[j] < mt[k]
  <2> SUFFICES ASSUME NEW j \in 1 .. n + 1, NEW k \in 1 .. n + 1, j < k PROVE mt[j] < mt[k]
    OBVIOUS
  <2>1. j \in 1 .. n
    BY <1>2
  <2>2. CASE k = n + 1
    <3>1. ms[j] \in 0 .. pos - 1
      BY <1>5, <1>6, <2>1
    <3> QED BY <1>1, <1>7, <1>8, <2>1, <2>2, <3>1
  <2>3. CASE k # n + 1
    BY <1>2, <1>6, <1>7, <2>1, <2>3
  <2> QED BY <2>2, <2>3
<1>12. \A k \in 1 .. n : UNION {ambitos'[j] : j \in 1 .. k} = DeclaradasEn(p, pos + 1, {mt[j] : j \in 1 .. k})
  <2> TAKE k \in 1 .. n
  <2> DEFINE ds == {ms[j] : j \in 1 .. k}
  <2>1. {mt[j] : j \in 1 .. k} = ds /\ UNION {ambitos'[j] : j \in 1 .. k} = UNION {ambitos[j] : j \in 1 .. k}
    BY <1>2, <1>4, <1>7
  <2>2. pos \notin ds
    BY <1>1, <1>2, <1>5, <1>6
  <2>3. UNION {ambitos[j] : j \in 1 .. k} = DeclaradasEn(p, pos, ds)
    BY <1>6
  <2> HIDE DEF ds
  <2>4. Estrena(p, pos, ds) = {}
    BY <1>3, <2>2 DEF Estrena
  <2>5. DeclaradasEn(p, pos + 1, ds) = DeclaradasEn(p, pos, ds)
    <3>1. DeclaradasEn(p, pos + 1, ds) = DeclaradasEn(p, pos, ds) \cup {}
      BY <1>1, <2>4, DeclaradasPaso
    <3>2. \A S : S \cup {} = S
      OBVIOUS
    <3> QED BY <3>1, <3>2
  <2> QED BY <2>1, <2>3, <2>5
<1>13. UNION {ambitos'[j] : j \in 1 .. n + 1} = DeclaradasEn(p, pos + 1, {mt[j] : j \in 1 .. n + 1})
  <2> DEFINE ds == {ms[j] : j \in 1 .. n}
             dt == {mt[j] : j \in 1 .. n + 1}
  <2>1. dt = ds \cup {pos}
    BY <1>2, <1>7, <1>8
  <2>2. UNION {ambitos'[j] : j \in 1 .. n + 1} = (UNION {ambitos[j] : j \in 1 .. n}) \cup ToSet(p[pos].ps)
    <3>1. UNION {ambitos'[j] : j \in 1 .. n + 1} = (UNION {ambitos'[j] : j \in 1 .. n}) \cup ambitos'[n + 1]
      BY <1>2
    <3>2. UNION {ambitos'[j] : j \in 1 .. n} = UNION {ambitos[j] : j \in 1 .. n}
      BY <1>4
    <3> QED BY <1>4, <3>1, <3>2
  <2>3. UNION {ambitos[j] : j \in 1 .. n} = DeclaradasEn(p, pos, ds)
    BY <1>2, <1>6
  <2> HIDE DEF ds
  <2>4. Estrena(p, pos, ds \cup {pos}) = ToSet(p[pos].ps)
    BY <1>3 DEF Estrena
  <2>5. DeclaradasEn(p, pos + 1, ds \cup {pos}) = DeclaradasEn(p, pos, ds) \cup ToSet(p[pos].ps)
    BY <1>1, <2>4, DeclaradasPaso, AntesNadie
  <2> HIDE DEF dt
  <2>6. DeclaradasEn(p, pos + 1, dt) = DeclaradasEn(p, pos, ds) \cup ToSet(p[pos].ps)
    BY <2>1, <2>5
  <2>7. UNION {ambitos'[j] : j \in 1 .. n + 1} = DeclaradasEn(p, pos + 1, dt)
    BY <2>2, <2>3, <2>6
  <2> QED BY <2>7 DEF dt
<1>14. \A k \in 1 .. n + 1 :
         UNION {ambitos'[j] : j \in 1 .. k} = DeclaradasEn(p, pos + 1, {mt[j] : j \in 1 .. k})
  <2> TAKE k \in 1 .. n + 1
  <2>1. k \in 1 .. n \/ k = n + 1
    BY <1>2
  <2> QED BY <1>12, <1>13, <2>1
<1>15. AmbitosDe(mt)'
  BY <1>1, <1>4, <1>8, <1>9, <1>10, <1>11, <1>14 DEF AmbitosDe
<1>16. mt \in [DOMAIN ambitos' -> 0 .. Len(p')]
  <2>1. \A k \in 1 .. n + 1 : mt[k] \in 0 .. Len(p)
    BY <1>1, <1>2, <1>5, <1>6, <1>7, <1>8
  <2>2. mt = [k \in 1 .. n + 1 |-> mt[k]]
    BY <1>0
  <2> QED BY <1>1, <1>4, <2>1, <2>2
<1> QED BY <1>15, <1>16 DEF AmbitosFieles

(* A function left is a frame less.                                         *)
LEMMA UnMarcoMenos ==
  ASSUME Inv, Next, fase = "visitar", fase' = "visitar", NEW ms \in [DOMAIN ambitos -> 0 .. Len(programa)],
         AmbitosDe(ms), programa[pos].op = "fin", programa[Last(abiertos)].op \in Funcionales, AmbitosTras
  PROVE  AmbitosFieles'
<1> DEFINE p == programa
           n == Len(ambitos)
           M == Marcos(p, pos)
           m == Last(abiertos)
<1>0. PICK mt : mt = [k \in 1 .. n - 1 |-> ms[k]]
  OBVIOUS
<1>1. /\ p' = p /\ pos' = pos + 1 /\ pos \in DOMAIN p /\ p \in Seq(Suceso) /\ BienFormado(p)
      /\ pos \in 1 .. Len(p) /\ Len(p) \in Nat /\ pos \in 1 .. Len(p) + 1
  BY TresPasos, EnVisita
<1>2. /\ n \in Nat /\ n # 0 /\ DOMAIN ambitos = 1 .. n /\ 1 .. n = (1 .. n - 1) \cup {n}
      /\ \A k \in 1 .. n - 1 : 1 .. k \subseteq 1 .. n - 1
  BY EnVisita, LenProperties
<1>3. programa[pos].op \notin {"asigna", "para"} \cup Funcionales
  BY DEF Funcionales
<1>4. DOMAIN ambitos' = 1 .. n - 1 /\ \A k \in 1 .. n - 1 : ambitos'[k] = ambitos[k]
  BY <1>3 DEF AmbitosTras
<1>5. Marcos(p, pos + 1) = M \ {m}
  BY MarcosPaso
<1>6. m = Dueno(p, pos)
  <2>1. m \in Abiertos(p, pos) /\ m \in 1 .. pos - 1 /\ \A j \in Abiertos(p, pos) : j <= m
    BY SegunLaVisita, AlCerrar
  <2>2. m \in M /\ m # 0 /\ m \in Nat
    BY <1>1, <2>1 DEF Marcos
  <2>3. Dueno(p, pos) \in 0 .. pos - 1 /\ m <= Dueno(p, pos) /\ Dueno(p, pos) # 0
        /\ Dueno(p, pos) \in Abiertos(p, pos)
    BY <1>1, <2>1, <2>2, DuenoEsElUltimo
  <2> QED BY <1>1, <2>1, <2>2, <2>3
<1>7. ms[n] = m /\ \A k \in 1 .. n - 1 : ms[k] # m
  BY <1>6, MarcosEnOrden
<1>8. /\ DOMAIN ms = 1 .. n
      /\ \A k \in 1 .. n : ms[k] \in M
      /\ \A d \in M : \E k \in 1 .. n : ms[k] = d
      /\ \A j, k \in 1 .. n : j < k => ms[j] < ms[k]
      /\ \A k \in 1 .. n : UNION {ambitos[j] : j \in 1 .. k} = DeclaradasEn(p, pos, {ms[j] : j \in 1 .. k})
  BY <1>2 DEF AmbitosDe
<1>9. (\A k \in 1 .. n - 1 : mt[k] = ms[k]) /\ DOMAIN mt = 1 .. n - 1
  BY <1>0
<1> HIDE DEF m
<1>10. \A k \in 1 .. n - 1 : mt[k] \in Marcos(p, pos + 1)
  BY <1>2, <1>5, <1>7, <1>8, <1>9
<1>11. \A d \in Marcos(p, pos + 1) : \E k \in 1 .. n - 1 : mt[k] = d
  BY <1>2, <1>5, <1>7, <1>8, <1>9
<1>12. \A j, k \in 1 .. n - 1 : j < k => mt[j] < mt[k]
  BY <1>2, <1>8, <1>9
<1>13. \A k \in 1 .. n - 1 :
         UNION {ambitos'[j] : j \in 1 .. k} = DeclaradasEn(p, pos + 1, {mt[j] : j \in 1 .. k})
  <2> TAKE k \in 1 .. n - 1
  <2> DEFINE ds == {ms[j] : j \in 1 .. k}
  <2>1. {mt[j] : j \in 1 .. k} = ds /\ UNION {ambitos'[j] : j \in 1 .. k} = UNION {ambitos[j] : j \in 1 .. k}
    BY <1>2, <1>4, <1>9
  <2>2. UNION {ambitos[j] : j \in 1 .. k} = DeclaradasEn(p, pos, ds)
    BY <1>2, <1>8
  <2> HIDE DEF ds
  <2>3. Estrena(p, pos, ds) = {}
    BY <1>3 DEF Estrena
  <2>4. DeclaradasEn(p, pos + 1, ds) = DeclaradasEn(p, pos, ds)
    <3>1. DeclaradasEn(p, pos + 1, ds) = DeclaradasEn(p, pos, ds) \cup {}
      BY <1>1, <2>3, DeclaradasPaso
    <3>2. \A S : S \cup {} = S
      OBVIOUS
    <3> QED BY <3>1, <3>2
  <2> QED BY <2>1, <2>2, <2>4
<1>14. AmbitosDe(mt)'
  BY <1>1, <1>4, <1>9, <1>10, <1>11, <1>12, <1>13 DEF AmbitosDe
<1>15. mt \in [DOMAIN ambitos' -> 0 .. Len(p')]
  <2>1. \A k \in 1 .. n - 1 : mt[k] \in 0 .. Len(p)
    BY <1>2, <1>9
  <2>2. mt = [k \in 1 .. n - 1 |-> mt[k]]
    BY <1>0
  <2> QED BY <1>1, <1>4, <2>1, <2>2
<1> QED BY <1>14, <1>15 DEF AmbitosFieles

(* The scopes stay those of the tree.                                       *)
LEMMA PasoAmbitos ==
  ASSUME Inv, Next, fase = "visitar", fase' = "visitar", errores = {}, errores' = {}
  PROVE  AmbitosFieles'
<1> DEFINE p == programa
           s == p[pos]
           n == Len(ambitos)
<1>1. AmbitosTras
  BY PasoSinErrores
<1>2. PICK ms \in [DOMAIN ambitos -> 0 .. Len(p)] : AmbitosDe(ms)
  BY EnVisita DEF SinErrores, AmbitosFieles
<1>3. n \in Nat /\ n # 0 /\ DOMAIN ambitos = 1 .. n /\ DOMAIN ms = 1 .. n
  BY <1>2, EnVisita, LenProperties
<1>4. CASE s.op \in {"asigna", "para"}
  <2>1. Marcos(p, pos + 1) = Marcos(p, pos)
    BY <1>4, MarcosPaso DEF Aperturas, Funcionales, Bucles
  <2>2. /\ DOMAIN ambitos' = 1 .. n
        /\ \A k \in 1 .. n - 1 : ambitos'[k] = ambitos[k]
        /\ UNION {ambitos'[j] : j \in 1 .. n} = (UNION {ambitos[j] : j \in 1 .. n}) \cup {s.x}
    BY <1>1, <1>4 DEF AmbitosTras
  <2>3. ms[n] = Dueno(p, pos) /\ \A k \in 1 .. n - 1 : ms[k] # Dueno(p, pos)
    BY <1>2, MarcosEnOrden
  <2>4. ASSUME NEW k \in 1 .. n
        PROVE  UNION {ambitos'[j] : j \in 1 .. k}
                 = (UNION {ambitos[j] : j \in 1 .. k}) \cup Estrena(p, pos, {ms[j] : j \in 1 .. k})
    <3> DEFINE ds == {ms[j] : j \in 1 .. k}
    <3>1. CASE k = n
      <4>1. Dueno(p, pos) \in ds
        BY <1>3, <2>3, <3>1
      <4> HIDE DEF ds
      <4>2. Estrena(p, pos, ds) = {s.x}
        BY <1>4, <4>1 DEF Estrena
      <4>3. UNION {ambitos'[j] : j \in 1 .. k} = (UNION {ambitos[j] : j \in 1 .. k}) \cup Estrena(p, pos, ds)
        BY <2>2, <3>1, <4>2
      <4> QED BY <4>3 DEF ds
    <3>2. CASE k # n
      <4>0. 1 .. k \subseteq 1 .. n - 1
        <5>1. \A a \in Nat : \A b \in 1 .. a : b # a => 1 .. b \subseteq 1 .. a - 1
          OBVIOUS
        <5>2. n \in Nat
          BY <1>3
        <5> HIDE DEF n
        <5> QED BY <3>2, <5>1, <5>2
      <4>1. Dueno(p, pos) \notin ds
        BY <2>3, <4>0
      <4>2. UNION {ambitos'[j] : j \in 1 .. k} = UNION {ambitos[j] : j \in 1 .. k}
        BY <2>2, <4>0
      <4> HIDE DEF ds
      <4>3. Estrena(p, pos, ds) = {}
        BY <1>4, <4>1 DEF Estrena
      <4>4. UNION {ambitos'[j] : j \in 1 .. k} = (UNION {ambitos[j] : j \in 1 .. k}) \cup Estrena(p, pos, ds)
        BY <4>2, <4>3
      <4> QED BY <4>4 DEF ds
    <3> QED BY <3>1, <3>2
  <2> QED BY <1>2, <1>3, <2>1, <2>2, <2>4, MarcosIguales
<1>5. CASE s.op \in Funcionales
  BY <1>1, <1>2, <1>5, UnMarcoMas
<1>6. CASE s.op = "fin" /\ p[Last(abiertos)].op \in Funcionales
  BY <1>1, <1>2, <1>6, UnMarcoMenos
<1>7. CASE s.op \notin {"asigna", "para"} \cup Funcionales /\ ~ (s.op = "fin" /\ p[Last(abiertos)].op \in Funcionales)
  <2>1. ambitos' = ambitos
    BY <1>1, <1>7 DEF AmbitosTras
  <2>2. Marcos(p, pos + 1) = Marcos(p, pos)
    BY <1>7, MarcosPaso
  <2>3. \A ds : Estrena(p, pos, ds) = {}
    BY <1>7 DEF Estrena
  <2>4. \A k \in DOMAIN ms : UNION {ambitos'[j] : j \in 1 .. k}
                 = (UNION {ambitos[j] : j \in 1 .. k}) \cup Estrena(p, pos, {ms[j] : j \in 1 .. k})
    BY <2>1, <2>3
  <2> QED BY <1>2, <2>1, <2>2, <2>4, MarcosIguales
<1> QED BY <1>4, <1>5, <1>6, <1>7


-----------------------------------------------------------------------------
(* The invariant.                                                           *)

(* What was reported stays reported.                                        *)
LEMMA NadaSeOlvida ==
  ASSUME Next, fase = "visitar"
  PROVE  errores \subseteq errores'
<1>1. \A cs : Reporta(cs) => errores \subseteq errores'
  BY DEF Reporta
<1>2. CASE UsarIdentificador \/ VisitarLlamada \/ VisitarAsignacion \/ EntrarPara \/ EntrarFuncion \/ VisitarContexto
  BY <1>1, <1>2 DEF UsarIdentificador, VisitarLlamada, VisitarAsignacion, EntrarPara, EntrarFuncion,
                    DeclararParametros, VisitarContexto
<1>3. CASE EntrarBloque \/ SalirBloque \/ SalirFuncion \/ VisitarExterna \/ Terminar
  BY <1>3 DEF EntrarBloque, SalirBloque, SalirFuncion, Cierra, VisitarExterna, Terminar
<1>4. CASE RecolectarFunciones
  BY <1>4 DEF RecolectarFunciones
<1> QED BY <1>2, <1>3, <1>4 DEF Next

(* The walk starts with nothing open, and one scope.                        *)
LEMMA AlEmpezar ==
  ASSUME Inv, RecolectarFunciones
  PROVE  PilaFiel' /\ CuentasFieles'
<1> DEFINE p == programa
<1>1. /\ p \in Seq(Suceso) /\ p' = p /\ pos = 1 /\ pos' = 1 /\ abiertos = <<>> /\ abiertos' = <<>>
      /\ ambitos' = <<{}>> /\ profundidad' = [c \in Cuentas |-> 0] /\ instancia' = FALSE
  BY DEF RecolectarFunciones, Inv, TypeOK
<1>2. Abiertos(p, 1) = {} /\ Marcos(p, 1) = {0}
  BY DEF Abiertos, Marcos
<1>3. Nivel(p, 0) = 0
  BY <1>1, NivelPaso
<1>4. PilaFiel'
  <2>1. DOMAIN abiertos' = {} /\ Len(abiertos') = 0 /\ pos' - 1 = 0
    BY <1>1
  <2> QED BY <1>1, <1>2, <1>3, <2>1 DEF PilaFiel
<1>5. \A c : Cuantos(p, {}, c) = 0
  <2> TAKE c
  <2>1. {j \in {} : c \in Aporta(p[j])} = {}
    OBVIOUS
  <2> QED BY <2>1, FS_EmptySet DEF Cuantos
<1>6. Cardinality({0}) = 1 /\ Len(<<{}>>) = 1
  BY FS_Singleton
<1>7. CuentasFieles'
  BY <1>1, <1>2, <1>5, <1>6 DEF CuentasFieles
<1> QED BY <1>4, <1>7

(* A name defined twice is an error, and breaks a rule.                     *)
LEMMA AlRecolectar ==
  ASSUME Inv, RecolectarFunciones
  PROVE  /\ TablasFieles'
         /\ errores' = {} => SinErrores'
         /\ errores' # {} => \E i \in DOMAIN programa' : ~ Sana(programa', i)
<1> DEFINE p == programa
<1>1. /\ p \in Seq(Suceso) /\ BienFormado(p) /\ p' = p /\ pos = 1 /\ pos' = 1 /\ constantes = {} /\ constantes' = {}
      /\ ambitos' = <<{}>> /\ funciones' = Tabla("funcion") /\ externas' = Tabla("externa")
      /\ errores' = {<<k, "repetida">> : k \in {j \in DOMAIN p : p[j].op \in Definiciones
                                                                 /\ j # Min(Definen(p[j].x))}}
  BY AlcanceAssumption DEF RecolectarFunciones, Inv, TypeOK
<1>2. Len(p) \in Nat /\ DOMAIN p = 1 .. Len(p)
  BY <1>1, LenProperties
<1>3. TablasFieles'
  <2>1. errores' = {} => \A k \in DOMAIN p : p[k].op \in Definiciones => k = Min(Definen(p[k].x))
    BY <1>1
  <2>2. errores' = {} => \A j, k \in DOMAIN p :
          p[j].op \in Definiciones /\ p[k].op \in Definiciones /\ p[j].x = p[k].x => j = k
    BY <2>1
  <2>3. Tabla("funcion")' = Tabla("funcion") /\ Tabla("externa")' = Tabla("externa")
    BY <1>1 DEF Tabla, Primeras, Definen
  <2> QED BY <1>1, <2>2, <2>3 DEF TablasFieles
<1>4. AmbitosFieles'
  <2>1. PICK ms : ms = [k \in {1} |-> 0]
    OBVIOUS
  <2>2. DOMAIN ambitos' = {1} /\ ambitos'[1] = {} /\ 1 .. 1 = {1} /\ DOMAIN ms = {1} /\ ms[1] = 0
    BY <1>1, <2>1
  <2>3. Marcos(p, 1) = {0}
    BY DEF Marcos, Abiertos
  <2>4. \A ds : DeclaradasEn(p, 1, ds) = {}
    <3>1. \A x : \A d \in Declaraciones(p, x) : ~ (d[1] < 1)
      <4> TAKE x
      <4> TAKE d \in Declaraciones(p, x)
      <4>1. d[1] \in DOMAIN p
        BY <1>1, DeclaracionTipo
      <4> QED BY <1>2, <4>1
    <3> QED BY <3>1 DEF DeclaradasEn
  <2>5. UNION {ambitos'[j] : j \in 1 .. 1} = {}
    BY <2>2
  <2>6. AmbitosDe(ms)'
    BY <1>1, <2>2, <2>3, <2>4, <2>5 DEF AmbitosDe
  <2>7. ms \in [DOMAIN ambitos' -> 0 .. Len(p')]
    BY <1>1, <1>2, <2>1, <2>2
  <2> QED BY <2>6, <2>7 DEF AmbitosFieles
<1>5. errores' = {} => SinErrores'
  <2>1. 1 .. pos' - 1 = {}
    BY <1>1
  <2> QED BY <1>1, <1>4, <2>1 DEF SinErrores
<1>6. ASSUME errores' # {} PROVE \E i \in DOMAIN p : ~ Sana(p, i)
  <2>1. PICK i \in DOMAIN p : p[i].op \in Definiciones /\ i # Min(Definen(p[i].x))
    BY <1>1, <1>6
  <2>2. Definen(p[i].x) \in SUBSET Nat /\ i \in Definen(p[i].x)
    BY <1>2, <2>1 DEF Definen
  <2>3. Min(Definen(p[i].x)) \in Definen(p[i].x)
    BY <2>2, Minimo
  <2>4. \E j \in DOMAIN p : j # i /\ p[j].op \in Definiciones /\ p[j].x = p[i].x
    BY <2>1, <2>3 DEF Definen
  <2>5. p[i].op = "funcion" \/ p[i].op = "externa"
    BY <2>1 DEF Definiciones
  <2>6. ReglaRota(p, i)
    <3>1. CASE p[i].op = "funcion"
      <4>1. p[i].op \in Funcionales
        BY <3>1 DEF Funcionales
      <4> QED BY <2>4, <3>1, <4>1, ReglaDe
    <3>2. CASE p[i].op = "externa"
      BY <2>4, <3>2, ReglaDe
    <3> QED BY <2>5, <3>1, <3>2
  <2>7. ~ ContextoPrestado(p, i)
    BY <2>5 DEF ContextoPrestado
  <2> QED BY <2>6, <2>7 DEF Sana
<1> QED BY <1>1, <1>3, <1>5, <1>6

(* The tables do not change.                                                *)
LEMMA PasoTablas ==
  ASSUME Inv, Next, fase = "visitar", fase' = "visitar"
  PROVE  TablasFieles'
<1>1. programa' = programa /\ UNCHANGED <<funciones, externas>>
  BY TresPasos
<1>2. errores' = {} => errores = {}
  BY NadaSeOlvida
<1>3. TablasFieles
  BY EnVisita
<1>4. Tabla("funcion")' = Tabla("funcion") /\ Tabla("externa")' = Tabla("externa")
  BY <1>1 DEF Tabla, Primeras, Definen
<1> QED BY <1>1, <1>2, <1>3, <1>4 DEF TablasFieles

(* What is known while there are no errors.                                 *)
LEMMA PasoSanos ==
  ASSUME Inv, Next, fase = "visitar", fase' = "visitar", errores' = {}
  PROVE  SinErrores'
<1> DEFINE p == programa
<1>1. errores = {}
  BY NadaSeOlvida
<1>2. /\ p' = p /\ pos' = pos + 1 /\ pos \in 1 .. Len(p) /\ Len(p) \in Nat /\ SinErrores
  BY <1>1, TresPasos, EnVisita
<1>3. 1 .. pos' - 1 = (1 .. pos - 1) \cup {pos}
  BY <1>2
<1>4. Sana(p, pos) /\ ConstantesTras
  BY <1>1, PasoSinErrores
<1>5. \A i \in 1 .. pos' - 1 : Sana(p, i)
  BY <1>2, <1>3, <1>4 DEF SinErrores
<1>6. constantes' = {x \in Nombres : \E j \in 1 .. pos' - 1 : HaceConstante(p, j, x)}
  BY <1>2, <1>3, <1>4 DEF SinErrores, ConstantesTras
<1>7. AmbitosFieles'
  BY <1>1, PasoAmbitos
<1> QED BY <1>2, <1>5, <1>6, <1>7 DEF SinErrores

(* Every step keeps the invariant.                                          *)
LEMMA PasoInv ==
  ASSUME Inv, Next
  PROVE  Inv'
<1>1. TypeOK' /\ programa' \in Programas
  BY PasoTipos
<1>2. CASE RecolectarFunciones
  <2>1. fase' = "visitar"
    BY <1>2 DEF RecolectarFunciones
  <2> QED BY <1>1, <1>2, <2>1, AlEmpezar, AlRecolectar DEF Inv
<1>3. CASE Terminar
  <2>1. fase = "visitar" /\ fase' = "fin" /\ programa' = programa /\ errores' = errores /\ pos > Len(programa)
    BY <1>3 DEF Terminar
  <2>2. pos \in 1 .. Len(programa) + 1 /\ Len(programa) \in Nat /\ DOMAIN programa = 1 .. Len(programa)
    BY <2>1, EnVisita
  <2>3. DOMAIN programa \subseteq 1 .. pos - 1
    BY <2>1, <2>2
  <2>4. errores = {} => \A i \in DOMAIN programa : Sana(programa, i)
    BY <2>1, <2>3, EnVisita DEF SinErrores
  <2>5. errores # {} => \E i \in DOMAIN programa : ~ Sana(programa, i)
    BY DEF Inv
  <2> QED BY <1>1, <2>1, <2>4, <2>5 DEF Inv
<1>4. CASE fase = "visitar" /\ fase' = "visitar"
  <2>1. PilaFiel' /\ CuentasFieles' /\ TablasFieles' /\ (errores' = {} => SinErrores')
    BY <1>4, PasoPila, PasoCuentas, PasoTablas, PasoSanos
  <2>2. programa' = programa /\ pos \in DOMAIN programa
    BY <1>4, TresPasos, EnVisita
  <2>3. errores' # {} => \E i \in DOMAIN programa : ~ Sana(programa, i)
    <3>1. CASE errores = {}
      BY <1>4, <2>2, <3>1, PasoSinErrores
    <3>2. CASE errores # {}
      BY <3>2 DEF Inv
    <3> QED BY <3>1, <3>2
  <2> QED BY <1>1, <1>4, <2>1, <2>2, <2>3 DEF Inv
<1>5. (fase = "visitar" /\ fase' = "visitar") \/ RecolectarFunciones \/ Terminar
  BY DEF Next, Visita, Avanza, Cierra, UsarIdentificador, VisitarLlamada, VisitarAsignacion, EntrarPara,
         EntrarBloque, EntrarFuncion, SalirBloque, SalirFuncion, VisitarContexto, VisitarExterna
<1> QED BY <1>2, <1>3, <1>4, <1>5

(* Every state of a walk is as the invariant says.                          *)
THEOREM Invariante == Spec => []Inv
<1>1. Init => Inv
  <2> SUFFICES ASSUME Init PROVE Inv
    OBVIOUS
  <2>1. programa \in Seq(Suceso) /\ programa \in Programas
    BY AlcanceAssumption DEF Init
  <2>2. Len(programa) \in Nat /\ 1 \in 1 .. Len(programa) + 1
    BY <2>1, LenProperties
  <2>3. TypeOK
    <3>1. \A t \in {funciones, externas} : DOMAIN t = {}
      BY DEF Init
    <3>2. abiertos \in Seq(DOMAIN programa) /\ ambitos \in Seq(SUBSET Nombres)
      BY DEF Init
    <3>3. profundidad \in [Cuentas -> Nat] /\ instancia \in BOOLEAN /\ errores = {} /\ constantes = {}
          /\ pos = 1 /\ fase = "recolectar"
      BY DEF Init
    <3> QED BY <2>1, <2>2, <3>1, <3>2, <3>3 DEF TypeOK
  <2> QED BY <2>1, <2>3 DEF Init, Inv
<1>2. Inv /\ [Next]_vars => Inv'
  <2>1. Inv /\ Next => Inv'
    BY PasoInv
  <2>2. Inv /\ UNCHANGED vars => Inv'
    <3> SUFFICES ASSUME Inv, UNCHANGED vars PROVE Inv'
      OBVIOUS
    <3> USE DEF vars
    <3>1. TypeOK'
      BY DEF Inv, TypeOK
    <3>2. PilaFiel => PilaFiel'
      BY DEF PilaFiel
    <3>3. CuentasFieles => CuentasFieles'
      BY DEF CuentasFieles
    <3>4. TablasFieles => TablasFieles'
      BY DEF TablasFieles, Tabla, Primeras, Definen
    <3>5. AmbitosFieles => AmbitosFieles'
      <4>1. \A ms : AmbitosDe(ms) => AmbitosDe(ms)'
        BY DEF AmbitosDe
      <4> QED BY <4>1 DEF AmbitosFieles
    <3>6. SinErrores => SinErrores'
      BY <3>5 DEF SinErrores
    <3> QED BY <3>1, <3>2, <3>3, <3>4, <3>6 DEF Inv
  <2> QED BY <2>1, <2>2
<1> QED BY <1>1, <1>2, PTL DEF Spec

-----------------------------------------------------------------------------
(* TypeOK: the state keeps its types, for every program of the parser.      *)
THEOREM TiposDeAlcance == Spec => []TypeOK
<1>1. Inv => TypeOK
  BY DEF Inv
<1> QED BY <1>1, Invariante, PTL

(* ContextosFieles: at every visit profundidadBucle, profundidadFuncion,    *)
(* profundidadVariadica, profundidadInseguro, the scopes and               *)
(* enMetodoInstancia are what the blocks open there say.                    *)
THEOREM ContextosSiempreFieles == Spec => []ContextosFieles
BY ContextosDelArbol, Invariante, PTL

(* VeredictoSegunReglas: whatever order the analyzer checks things in, what *)
(* it rejects is what breaks a rule told from the tree.                     *)
THEOREM VeredictoDeLasReglas == Spec => []VeredictoSegunReglas
<1>1. Inv => VeredictoSegunReglas
  BY DEF Inv, VeredictoSegunReglas, Sana
<1> QED BY <1>1, Invariante, PTL

-----------------------------------------------------------------------------
(* The two back ends.                                                       *)

(* What is declared near a use is what the back ends collect there: for the *)
(* program, its assignments; for a function, its parameters too.            *)
LEMMA CercaEsRecolectada ==
  ASSUME NEW p \in Seq(Suceso), BienFormado(p), NEW i \in DOMAIN p
  PROVE  /\ DeclaradaCerca(p, i, {0}) <=> p[i].x \in Recolecta(p, 0)
         /\ Dueno(p, i) # 0 =>
              (DeclaradaCerca(p, i, {Dueno(p, i)}) <=>
                 p[i].x \in ToSet(p[Dueno(p, i)].ps) \cup Recolecta(p, Dueno(p, i)))
         /\ DeclaradaCerca(p, i, {0, Dueno(p, i)}) <=>
              DeclaradaCerca(p, i, {0}) \/ DeclaradaCerca(p, i, {Dueno(p, i)})
<1> DEFINE x == p[i].x
           d == Dueno(p, i)
<1>1. Len(p) \in Nat /\ DOMAIN p = 1 .. Len(p)
  BY LenProperties
<1>2. \A m : x \in Recolecta(p, m) <=>
        \E j \in DOMAIN p : /\ p[j].op \in {"asigna", "para"} /\ "incremento" \notin p[j].marcas
                            /\ Dueno(p, j) = m /\ p[j].x = x
  BY DEF Recolecta, Asignaciones
<1>3. \A m : DeclaradaCerca(p, i, {m}) <=>
        \/ \E j \in DOMAIN p : /\ p[j].op \in {"asigna", "para"} /\ "incremento" \notin p[j].marcas
                               /\ Dueno(p, j) = m /\ p[j].x = x
        \/ m \in DOMAIN p /\ p[m].op \in Funcionales /\ x \in ToSet(p[m].ps) /\ "incremento" \notin p[m].marcas
  <2> TAKE m
  <2>1. ASSUME NEW e \in Declaraciones(p, x), e[2] = m, "incremento" \notin p[e[1]].marcas
        PROVE  \/ \E j \in DOMAIN p : /\ p[j].op \in {"asigna", "para"} /\ "incremento" \notin p[j].marcas
                                      /\ Dueno(p, j) = m /\ p[j].x = x
               \/ m \in DOMAIN p /\ p[m].op \in Funcionales /\ x \in ToSet(p[m].ps)
                  /\ "incremento" \notin p[m].marcas
    <3> HIDE DEF x
    <3>1. CASE \E j \in DOMAIN p : e = <<j, Dueno(p, j)>> /\ p[j].op \in {"asigna", "para"} /\ p[j].x = x
      BY <2>1, <3>1
    <3>2. CASE \E j \in DOMAIN p : e = <<j, j>> /\ p[j].op \in Funcionales /\ x \in ToSet(p[j].ps)
      BY <2>1, <3>2
    <3> QED BY <3>1, <3>2 DEF Declaraciones
  <2>2. ASSUME NEW j \in DOMAIN p, p[j].op \in {"asigna", "para"}, "incremento" \notin p[j].marcas,
               Dueno(p, j) = m, p[j].x = x
        PROVE  DeclaradaCerca(p, i, {m})
    <3>1. <<j, Dueno(p, j)>> \in Declaraciones(p, x)
      BY <2>2 DEF Declaraciones
    <3> QED BY <2>2, <3>1 DEF DeclaradaCerca
  <2>3. ASSUME m \in DOMAIN p, p[m].op \in Funcionales, x \in ToSet(p[m].ps), "incremento" \notin p[m].marcas
        PROVE  DeclaradaCerca(p, i, {m})
    <3>1. <<m, m>> \in Declaraciones(p, x)
      BY <2>3 DEF Declaraciones
    <3> QED BY <2>3, <3>1 DEF DeclaradaCerca
  <2>4. DeclaradaCerca(p, i, {m}) <=>
          \E e \in Declaraciones(p, x) : e[2] = m /\ "incremento" \notin p[e[1]].marcas
    BY DEF DeclaradaCerca
  <2> QED BY <2>1, <2>2, <2>3, <2>4
<1>4. DeclaradaCerca(p, i, {0}) <=> x \in Recolecta(p, 0)
  <2>1. 0 \notin DOMAIN p
    BY <1>1
  <2> HIDE DEF x
  <2> QED BY <1>2, <1>3, <2>1
<1>5. ASSUME d # 0
      PROVE  DeclaradaCerca(p, i, {d}) <=> x \in ToSet(p[d].ps) \cup Recolecta(p, d)
  <2>1. i \in 1 .. Len(p) + 1
    BY <1>1
  <2>2. d \in Abiertos(p, i) /\ p[d].op \in Funcionales /\ d \in DOMAIN p
    BY <1>5, <2>1, DuenoEsElUltimo, AbiertosTipo
  <2>3. "incremento" \notin p[d].marcas
    <3>1. p[d].op # "asigna"
      BY <2>2 DEF Funcionales
    <3> QED BY <2>2, <3>1 DEF BienFormado
  <2> HIDE DEF x, d
  <2> QED BY <1>2, <1>3, <2>2, <2>3
<1>6. DeclaradaCerca(p, i, {0, d}) <=> DeclaradaCerca(p, i, {0}) \/ DeclaradaCerca(p, i, {d})
  BY DEF DeclaradaCerca
<1> QED BY <1>4, <1>5, <1>6

(* A use has no variable in C exactly when nothing is declared near it, or  *)
(* a global function of its name hides what is.                             *)
LEMMA SinVariableEnC ==
  ASSUME NEW p \in Seq(Suceso), BienFormado(p), NEW i \in DOMAIN p
  PROVE  Variable(p, i, p[i].x, LocalesC(p, Dueno(p, i))) = Nada <=>
           ~ DeclaradaCerca(p, i, {0, Dueno(p, i)}) \/ TapadaPorFuncion(p, i)
<1> DEFINE x == p[i].x
           d == Dueno(p, i)
           G == \E j \in DOMAIN p : p[j].op = "funcion" /\ p[j].x = x /\ "global" \in p[j].marcas
<1>1. \A m : Destino("variable", m) # Nada
  BY DEF Destino, Nada
<1>2. Variable(p, i, x, LocalesC(p, d)) = Nada <=> x \notin LocalesC(p, d) /\ x \notin Recolecta(p, 0)
  BY <1>1 DEF Variable
<1>3. /\ DeclaradaCerca(p, i, {0}) <=> x \in Recolecta(p, 0)
      /\ d # 0 => (DeclaradaCerca(p, i, {d}) <=> x \in ToSet(p[d].ps) \cup Recolecta(p, d))
      /\ DeclaradaCerca(p, i, {0, d}) <=> DeclaradaCerca(p, i, {0}) \/ DeclaradaCerca(p, i, {d})
  BY CercaEsRecolectada
<1>4. TapadaPorFuncion(p, i) <=>
        d # 0 /\ p[d].op # "anonima" /\ x \notin ToSet(p[d].ps) /\ G /\ ~ DeclaradaCerca(p, i, {0})
  BY DEF TapadaPorFuncion
<1>5. x \notin Recolecta(p, 0) => (x \in GlobalesExplicitos(p) <=> G)
  BY DEF GlobalesExplicitos, Recolecta
<1>6. CASE d = 0
  <2>1. LocalesC(p, d) = {}
    BY <1>6 DEF LocalesC, Locales
  <2> QED BY <1>2, <1>3, <1>4, <1>6, <2>1
<1>7. CASE d # 0
  <2>1. x \in LocalesC(p, d) <=>
          \/ x \in ToSet(p[d].ps)
          \/ x \in Recolecta(p, d) /\ (p[d].op = "anonima" \/ x \notin GlobalesExplicitos(p))
    BY <1>7 DEF LocalesC, Locales
  <2> DEFINE U == Variable(p, i, x, LocalesC(p, d)) = Nada
             C == DeclaradaCerca(p, i, {0, d})
  <2>2. U <=> ~ C \/ TapadaPorFuncion(p, i)
    <3>1. U <=> x \notin LocalesC(p, d) /\ x \notin Recolecta(p, 0)
      BY <1>2
    <3>2. C <=> x \in Recolecta(p, 0) \/ x \in ToSet(p[d].ps) \/ x \in Recolecta(p, d)
      BY <1>3, <1>7
    <3>3. TapadaPorFuncion(p, i) <=>
            p[d].op # "anonima" /\ x \notin ToSet(p[d].ps) /\ G /\ x \notin Recolecta(p, 0)
      BY <1>3, <1>4, <1>7
    <3> HIDE DEF d, x, G, U, C
    <3> QED BY <1>5, <2>1, <3>1, <3>2, <3>3
  <2> QED BY <2>2
<1> QED BY <1>6, <1>7

(* In C and in LLVM a use has the same variable, but for an explicit global *)
(* in a lambda.                                                             *)
LEMMA LaMismaVariable ==
  ASSUME NEW p \in Seq(Suceso), BienFormado(p), NEW i \in DOMAIN p
  PROVE  \/ Variable(p, i, p[i].x, LocalesC(p, Dueno(p, i))) = Variable(p, i, p[i].x, LocalesLLVM(p, Dueno(p, i)))
         \/ GlobalEnAnonima(p, i)
<1> DEFINE x == p[i].x
           d == Dueno(p, i)
<1>1. CASE d # 0 /\ p[d].op = "anonima"
  <2>1. x \in LocalesC(p, d) <=> x \in ToSet(p[d].ps) \cup Recolecta(p, d)
    BY <1>1 DEF LocalesC, Locales
  <2>2. x \in LocalesLLVM(p, d) <=>
          x \in ToSet(p[d].ps) \/ (x \in Recolecta(p, d) /\ x \notin GlobalesExplicitos(p))
    BY <1>1 DEF LocalesLLVM, Locales
  <2>3. CASE x \in LocalesC(p, d) <=> x \in LocalesLLVM(p, d)
    BY <2>3 DEF Variable
  <2>4. CASE ~ (x \in LocalesC(p, d) <=> x \in LocalesLLVM(p, d))
    <3>1. x \notin ToSet(p[d].ps) /\ x \in Recolecta(p, d) /\ x \in GlobalesExplicitos(p)
      BY <2>1, <2>2, <2>4
    <3>2. DeclaradaCerca(p, i, {d})
      BY <1>1, <3>1, CercaEsRecolectada
    <3> QED BY <1>1, <3>1, <3>2 DEF GlobalEnAnonima
  <2> QED BY <2>3, <2>4
<1>2. CASE ~ (d # 0 /\ p[d].op = "anonima")
  <2>1. LocalesC(p, d) = LocalesLLVM(p, d)
    BY <1>2 DEF LocalesC, LocalesLLVM
  <2> QED BY <2>1
<1> QED BY <1>1, <1>2

(* What the C back end makes of each kind of use.                           *)
LEMMA UsoCDe ==
  ASSUME NEW p, NEW i, NEW v
  PROVE  /\ p[i].op = "lee" => UsoC(p, i, v) = IF EsFuncion(p, p[i].x) THEN Destino("funcion", 0) ELSE v
         /\ p[i].op = "post" => UsoC(p, i, v) = IF EsFuncion(p, p[i].x) THEN Nada ELSE v
         /\ p[i].op \in {"asigna", "para"} => UsoC(p, i, v) = v
         /\ p[i].op = "llama" => UsoC(p, i, v) = Llamado(p, p[i].x, v)
         /\ p[i].op \in {"romper", "retornar", "varargs", "este"} => UsoC(p, i, v) = Contexto(p, i)
<1>1. p[i].op = "lee" => UsoC(p, i, v) = IF EsFuncion(p, p[i].x) THEN Destino("funcion", 0) ELSE v
  BY DEF UsoC
<1>2. p[i].op = "post" => UsoC(p, i, v) = IF EsFuncion(p, p[i].x) THEN Nada ELSE v
  BY DEF UsoC
<1>3. p[i].op \in {"asigna", "para"} => UsoC(p, i, v) = v
  BY DEF UsoC
<1>4. p[i].op = "llama" => UsoC(p, i, v) = Llamado(p, p[i].x, v)
  BY DEF UsoC
<1>5. p[i].op \in {"romper", "retornar", "varargs", "este"} => UsoC(p, i, v) = Contexto(p, i)
  BY DEF UsoC
<1> QED BY <1>1, <1>2, <1>3, <1>4, <1>5

(* What the LLVM back end makes of it.                                      *)
LEMMA UsoLLVMDe ==
  ASSUME NEW p, NEW i, NEW v
  PROVE  /\ p[i].op \in {"lee", "post"} =>
              UsoLLVM(p, i, v) = IF v = Nada /\ EsFuncion(p, p[i].x) THEN Destino("funcion", 0) ELSE v
         /\ p[i].op \in {"asigna", "para"} => UsoLLVM(p, i, v) = v
         /\ p[i].op = "llama" => UsoLLVM(p, i, v) = Llamado(p, p[i].x, v)
         /\ p[i].op \in {"romper", "retornar", "varargs", "este"} => UsoLLVM(p, i, v) = Contexto(p, i)
<1>1. p[i].op \in {"lee", "post"} =>
        UsoLLVM(p, i, v) = IF v = Nada /\ EsFuncion(p, p[i].x) THEN Destino("funcion", 0) ELSE v
  BY DEF UsoLLVM
<1>2. p[i].op \in {"asigna", "para"} => UsoLLVM(p, i, v) = v
  BY DEF UsoLLVM
<1>3. p[i].op = "llama" => UsoLLVM(p, i, v) = Llamado(p, p[i].x, v)
  BY DEF UsoLLVM
<1>4. p[i].op \in {"romper", "retornar", "varargs", "este"} => UsoLLVM(p, i, v) = Contexto(p, i)
  BY DEF UsoLLVM
<1> QED BY <1>1, <1>2, <1>3, <1>4

(* A visit that breaks no rule has its context around it, or borrows it.    *)
LEMMA ContextoDeUnaSana ==
  ASSUME NEW p, NEW i, Sana(p, i), p[i].op \in {"romper", "retornar", "varargs", "este"}
  PROVE  Contexto(p, i) = Nada <=> ContextoPrestado(p, i)
<1>1. Contexto(p, i) = Nada => ContextoPrestado(p, i)
  BY ReglaDe DEF Sana
<1>2. \A m : Destino("contexto", m) # Nada
  BY DEF Destino, Nada
<1>3. CASE p[i].op = "romper"
  <2>1. Contexto(p, i) = Nada <=> ~ BuclePropio(p, i)
    BY <1>2, <1>3 DEF Contexto
  <2> QED BY <1>1, <1>3, <2>1 DEF ContextoPrestado
<1>4. CASE p[i].op = "retornar"
  BY <1>1, <1>4 DEF ContextoPrestado
<1>5. CASE p[i].op = "varargs"
  <2>1. Contexto(p, i) = Nada <=> ~ PropiaVariadica(p, Dueno(p, i))
    BY <1>2, <1>5 DEF Contexto
  <2> QED BY <1>1, <1>5, <2>1 DEF ContextoPrestado
<1>6. CASE p[i].op = "este"
  <2>1. Contexto(p, i) = Nada <=> ~ MetodoDeInstancia(p, Dueno(p, i))
    BY <1>2, <1>6 DEF Contexto
  <2> QED BY <1>1, <1>6, <2>1 DEF ContextoPrestado
<1> QED BY <1>3, <1>4, <1>5, <1>6

(* What the invariant leaves of an accepted program.                        *)
LEMMA LoAceptado ==
  ASSUME Inv, Aceptado
  PROVE  /\ programa \in Seq(Suceso) /\ BienFormado(programa)
         /\ \A i \in DOMAIN programa : Sana(programa, i)
BY AlcanceAssumption DEF Inv, TypeOK, Aceptado

(* CAcepta: an accepted program compiles to C but for the uses listed.      *)
THEOREM LoQueCAcepta == Spec => []CAcepta
<1>1. ASSUME Inv PROVE CAcepta
  <2> SUFFICES ASSUME Aceptado, NEW i \in Usos(programa)
               PROVE  DestinoC(programa, i) = Nada <=>
                        \/ ContextoPrestado(programa, i)
                        \/ programa[i].op = "post" /\ EsFuncion(programa, programa[i].x)
                        \/ /\ UsaVariable(programa, i)
                           /\ ~ DeclaradaCerca(programa, i, {0, Dueno(programa, i)}) \/ TapadaPorFuncion(programa, i)
    BY DEF CAcepta
  <2> DEFINE p == programa
             x == p[i].x
             v == Variable(p, i, x, LocalesC(p, Dueno(p, i)))
             Falta == ~ DeclaradaCerca(p, i, {0, Dueno(p, i)}) \/ TapadaPorFuncion(p, i)
  <2>1. p \in Seq(Suceso) /\ BienFormado(p) /\ i \in DOMAIN p /\ Sana(p, i)
    BY <1>1, LoAceptado DEF Usos
  <2>2. v = Nada <=> Falta
    BY <2>1, SinVariableEnC
  <2>3. DestinoC(p, i) = UsoC(p, i, v)
    BY DEF DestinoC
  <2> HIDE DEF v, Falta
  <2>4. Destino("funcion", 0) # Nada /\ Destino("incorporada", 0) # Nada /\ Destino("externa", 0) # Nada
    BY DEF Destino, Nada
  <2>5. CASE p[i].op = "lee"
    <3>1. UsaVariable(p, i) <=> ~ EsFuncion(p, x)
      BY <2>5 DEF UsaVariable
    <3>2. ~ ContextoPrestado(p, i) /\ UsoC(p, i, v) = IF EsFuncion(p, x) THEN Destino("funcion", 0) ELSE v
      BY <2>5, SinContextoNiNombre, UsoCDe
    <3> QED BY <2>2, <2>3, <2>4, <2>5, <3>1, <3>2 DEF Falta
  <2>6. CASE p[i].op = "post"
    <3>1. UsaVariable(p, i)
      BY <2>6 DEF UsaVariable
    <3>2. ~ ContextoPrestado(p, i) /\ UsoC(p, i, v) = IF EsFuncion(p, x) THEN Nada ELSE v
      BY <2>6, SinContextoNiNombre, UsoCDe
    <3> QED BY <2>2, <2>3, <2>4, <2>6, <3>1, <3>2 DEF Falta
  <2>7. CASE p[i].op \in {"asigna", "para"}
    <3>1. UsaVariable(p, i)
      BY <2>7 DEF UsaVariable
    <3>2. ~ ContextoPrestado(p, i) /\ UsoC(p, i, v) = v
      BY <2>7, SinContextoNiNombre, UsoCDe
    <3> QED BY <2>2, <2>3, <2>7, <3>1, <3>2 DEF Falta
  <2>8. CASE p[i].op = "llama"
    <3>1. UsaVariable(p, i) <=> x \notin Incorporadas /\ ~ EsFuncion(p, x) /\ ~ EsExterna(p, x)
      BY <2>8 DEF UsaVariable
    <3>2. ~ ContextoPrestado(p, i) /\ UsoC(p, i, v) = Llamado(p, x, v)
      BY <2>8, SinContextoNiNombre, UsoCDe
    <3>3. Llamado(p, x, v) = Nada <=> UsaVariable(p, i) /\ v = Nada
      BY <2>4, <3>1 DEF Llamado
    <3> QED BY <2>2, <2>3, <2>8, <3>2, <3>3 DEF Falta
  <2>9. CASE p[i].op \in {"romper", "retornar", "varargs", "este"}
    <3>1. ~ UsaVariable(p, i) /\ p[i].op # "post"
      BY <2>9 DEF UsaVariable
    <3>2. UsoC(p, i, v) = Contexto(p, i)
      BY <2>9, UsoCDe
    <3>3. Contexto(p, i) = Nada <=> ContextoPrestado(p, i)
      BY <2>1, <2>9, ContextoDeUnaSana
    <3> QED BY <2>3, <3>1, <3>2, <3>3
  <2> QED BY <2>5, <2>6, <2>7, <2>8, <2>9 DEF Usos
<1> QED BY <1>1, Invariante, PTL

(* MismaCelda: both back ends give a use of an accepted program the same    *)
(* destination, but for the uses listed.                                    *)
THEOREM LaMismaCelda == Spec => []MismaCelda
<1>1. ASSUME Inv PROVE MismaCelda
  <2> SUFFICES ASSUME Aceptado, NEW i \in Usos(programa), ~ GlobalEnAnonima(programa, i)
               PROVE  DestinoC(programa, i) = DestinoLLVM(programa, i) \/ Ambigua(programa, i)
    BY DEF MismaCelda
  <2> DEFINE p == programa
             x == p[i].x
             v == Variable(p, i, x, LocalesC(p, Dueno(p, i)))
  <2>1. p \in Seq(Suceso) /\ BienFormado(p) /\ i \in DOMAIN p
    BY <1>1, LoAceptado DEF Usos
  <2>2. DestinoC(p, i) = UsoC(p, i, v) /\ DestinoLLVM(p, i) = UsoLLVM(p, i, v)
    BY <2>1, LaMismaVariable DEF DestinoC, DestinoLLVM
  <2>3. v # Nada => DeclaradaCerca(p, i, {0, Dueno(p, i)})
    BY <2>1, SinVariableEnC
  <2> HIDE DEF v
  <2>4. CASE p[i].op = "lee"
    <3>1. UsoC(p, i, v) = IF EsFuncion(p, x) THEN Destino("funcion", 0) ELSE v
      BY <2>4, UsoCDe
    <3>2. UsoLLVM(p, i, v) = IF v = Nada /\ EsFuncion(p, x) THEN Destino("funcion", 0) ELSE v
      BY <2>4, UsoLLVMDe
    <3> QED BY <2>2, <2>3, <3>1, <3>2 DEF Ambigua
  <2>5. CASE p[i].op = "post"
    <3>1. UsoC(p, i, v) = IF EsFuncion(p, x) THEN Nada ELSE v
      BY <2>5, UsoCDe
    <3>2. UsoLLVM(p, i, v) = IF v = Nada /\ EsFuncion(p, x) THEN Destino("funcion", 0) ELSE v
      BY <2>5, UsoLLVMDe
    <3> QED BY <2>2, <2>5, <3>1, <3>2 DEF Ambigua
  <2>6. CASE p[i].op \in {"asigna", "para"}
    BY <2>2, <2>6, UsoCDe, UsoLLVMDe
  <2>7. CASE p[i].op = "llama"
    BY <2>2, <2>7, UsoCDe, UsoLLVMDe
  <2>8. CASE p[i].op \in {"romper", "retornar", "varargs", "este"}
    BY <2>2, <2>8, UsoCDe, UsoLLVMDe
  <2> QED BY <2>4, <2>5, <2>6, <2>7, <2>8 DEF Usos
<1> QED BY <1>1, Invariante, PTL
=============================================================================
