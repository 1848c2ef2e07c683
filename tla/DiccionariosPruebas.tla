------------------------ MODULE DiccionariosPruebas ------------------------
(*************************************************************************)
(* Proofs about the dictionaries of the runtime, for every set of keys,  *)
(* values and addresses: no key is twice in a block, and the blocks      *)
(* implement the functions of DiccionariosAbstractos, whichever blocks   *)
(* the loops read while they write.                                      *)
(*************************************************************************)
EXTENDS Diccionarios, SequenceTheorems, FiniteSetTheorems, WellFoundedInduction, TLAPS

(* A block in order: two arrays of `capacidad` cells, the first `longitud`
   of each with texts and values, and no text twice. *)
EsBloque(d) ==
  /\ d = [longitud |-> d.longitud, capacidad |-> d.capacidad,
          claves |-> d.claves, valores |-> d.valores]
  /\ d.capacidad \in Nat /\ d.capacidad > 0
  /\ d.longitud \in Nat /\ d.longitud <= d.capacidad
  /\ d.claves \in [0..(d.capacidad - 1) -> Textos \cup {Basura}]
  /\ d.valores \in [0..(d.capacidad - 1) -> Datos \cup {Basura}]
  /\ \A i \in Usadas(d) : d.claves[i] \in Textos /\ d.valores[i] \in Datos
  /\ \A i, j \in Usadas(d) : d.claves[i] = d.claves[j] => i = j

ClavesDe(d) == {d.claves[i] : i \in Usadas(d)}

(* The entries of d from its place t on, as a function. *)
Resto(d, t) == [k \in {d.claves[i] : i \in t..(d.longitud - 1)} |-> Mapa(d)[k]]

(* The function with one entry, the one with none, and f under g: named here
   as the abstract module has them. *)
Una(k, v) == [x \in {k} |-> v]
Nada == [k \in {} |-> k]
Sobre(f, g) == Abstractos!Sobre(f, g)
DeEntradas(es) == Abstractos!DeEntradas(es)

EsFuncion(f) == f = [k \in DOMAIN f |-> f[k]]

(* The entries of a literal with the texts of their keys. *)
Entradas(es) == [i \in DOMAIN es |-> <<Texto[es[i][1]], es[i][2]>>]

(* What a loop has still to insert: the entries of a literal, or those of
   its first source from place t on and those of the second. *)
Queda(ds, es, fs, t) ==
  CASE Len(fs) = 0 -> DeEntradas(Entradas(es))
    [] Len(fs) = 1 -> Resto(ds[fs[1]], t)
    [] Len(fs) = 2 -> Sobre(Resto(ds[fs[1]], t), Mapa(ds[fs[2]]))

(* What the destination of call p must be when its loop ends, when the
   functions were pr as it began. *)
Valor(pr, v) == IF v \in DOMAIN pr THEN pr[v] ELSE Nada
Debido(pr, p) ==
  CASE p.que = "literal" -> DeEntradas(p.con)
    [] p.que = "combinar" -> Sobre(Valor(pr, p.con[1]), Valor(pr, p.con[2]))
    [] p.que = "copiar" -> Valor(pr, p.con[1])
    [] p.que = "actualizar" -> Sobre(pr[p.en], pr[p.con[1]])

(* A loop that runs: the destination, with what is left to insert over it,
   is what the call must give, and no other block has changed. *)
EnBucle ==
  /\ pedido # <<>> /\ pedido[1].en = destino
  /\ destino \in Ids
  /\ DOMAIN dics = DOMAIN previo \cup {destino}
  /\ \A a \in DOMAIN previo \ {destino} : Mapa(dics[a]) = previo[a]
  /\ args \in Seq(Llaves \X Datos)
  /\ fuentes \in Seq(DOMAIN dics) /\ Len(fuentes) \in 0..2
  /\ turno \in Nat
  /\ args # <<>> => fuentes = <<>>
  /\ Len(fuentes) = 2 => destino # fuentes[1] /\ destino # fuentes[2]
  /\ Sobre(Mapa(dics[destino]), Queda(dics, args, fuentes, turno)) = Debido(previo, pedido[1])

(* The inductive invariant. *)
Bloques == DOMAIN dics \subseteq Ids /\ \A a \in DOMAIN dics : EsBloque(dics[a])

Inv ==
  /\ estado \in {"corre", "abortado"}
  /\ Bloques
  /\ IF destino = Libre THEN pedido = <<>> /\ args = <<>> /\ fuentes = <<>> ELSE EnBucle

-----------------------------------------------------------------------------
(* Functions *)

(* What f under g has. *)
LEMMA SobreDe ==
  ASSUME NEW f, NEW g
  PROVE  /\ DOMAIN Sobre(f, g) = DOMAIN f \cup DOMAIN g
         /\ \A k \in DOMAIN g : Sobre(f, g)[k] = g[k]
         /\ \A k \in DOMAIN f \ DOMAIN g : Sobre(f, g)[k] = f[k]
         /\ EsFuncion(Sobre(f, g))
BY DEF Sobre, Abstractos!Sobre, EsFuncion

(* Two functions with the same domain and values are one. *)
LEMMA Iguales ==
  ASSUME NEW f, NEW g, EsFuncion(f), EsFuncion(g), DOMAIN f = DOMAIN g,
         \A k \in DOMAIN f : f[k] = g[k]
  PROVE  f = g
BY DEF EsFuncion

(* To put g under h and the result over f is to put both over f in turn. *)
LEMMA SobreAsocia ==
  ASSUME NEW f, NEW g, NEW h
  PROVE  Sobre(Sobre(f, g), h) = Sobre(f, Sobre(g, h))
BY DEF Sobre, Abstractos!Sobre

(* The function with no entry changes nothing, under or over another. *)
LEMMA SobreNada ==
  ASSUME NEW f, EsFuncion(f)
  PROVE  Sobre(f, Nada) = f /\ Sobre(Nada, f) = f
BY DEF Sobre, Abstractos!Sobre, Nada, EsFuncion

-----------------------------------------------------------------------------
(* Blocks and the functions they stand for *)

(* The search finds the one place a key has, if it has one. *)
LEMMA LugarDe ==
  ASSUME NEW d, EsBloque(d), NEW k
  PROVE  Lugar(d, k) = {i \in Usadas(d) : d.claves[i] = k}
<1>1. ASSUME NEW i \in Usadas(d), d.claves[i] = k, NEW j \in 0..(i - 1)
      PROVE  d.claves[j] # k
  <2>1. j \in Usadas(d) /\ j # i
    BY <1>1 DEF EsBloque, Usadas
  <2> QED BY <1>1, <2>1 DEF EsBloque
<1> QED BY <1>1 DEF Lugar

(* The function of a block gives every entry in use. *)
LEMMA MapaDe ==
  ASSUME NEW d, EsBloque(d)
  PROVE  /\ DOMAIN Mapa(d) = ClavesDe(d)
         /\ \A i \in Usadas(d) : Mapa(d)[d.claves[i]] = d.valores[i]
         /\ EsFuncion(Mapa(d))
<1>1. ASSUME NEW i \in Usadas(d)
      PROVE  Lugar(d, d.claves[i]) = {i}
  BY <1>1, LugarDe DEF EsBloque
<1>2. ASSUME NEW i \in Usadas(d)
      PROVE  (CHOOSE j \in Lugar(d, d.claves[i]) : TRUE) = i
  BY <1>1
<1>3. \A i \in Usadas(d) : d.claves[i] \in ClavesDe(d)
  BY DEF ClavesDe
<1>4. Mapa(d) = [k \in ClavesDe(d) |-> d.valores[CHOOSE i \in Lugar(d, k) : TRUE]]
  BY DEF Mapa, ClavesDe
<1> QED BY <1>2, <1>3, <1>4 DEF EsFuncion

(* And it is the only function that does. *)
LEMMA MapaEs ==
  ASSUME NEW d, EsBloque(d), NEW f, EsFuncion(f), DOMAIN f = ClavesDe(d),
         \A i \in Usadas(d) : f[d.claves[i]] = d.valores[i]
  PROVE  Mapa(d) = f
<1>1. \A k \in ClavesDe(d) : \E i \in Usadas(d) : k = d.claves[i]
  BY DEF ClavesDe
<1>2. \A k \in ClavesDe(d) : Mapa(d)[k] = f[k]
  BY <1>1, MapaDe
<1> QED BY <1>2, MapaDe, Iguales

(* A new block is in order and has no entry. *)
LEMMA BloqueNuevo ==
  ASSUME NEW n \in Nat
  PROVE  EsBloque(DicNuevo(n)) /\ Mapa(DicNuevo(n)) = Nada
<1> DEFINE c == IF n = 0 THEN 4 ELSE n
           b == [i \in 0..(c - 1) |-> Basura]
           d == DicNuevo(n)
<1>1. c \in Nat /\ c > 0
  OBVIOUS
<1>2. b \in [0..(c - 1) -> Textos \cup {Basura}] /\ b \in [0..(c - 1) -> Datos \cup {Basura}]
  OBVIOUS
<1>3. d = [longitud |-> 0, capacidad |-> c, claves |-> b, valores |-> b]
  BY DEF DicNuevo
<1> HIDE DEF c, b, d
<1>4. Usadas(d) = {}
  BY <1>3 DEF Usadas
<1>5. EsBloque(d)
  BY <1>1, <1>2, <1>3, <1>4 DEF EsBloque
<1>6. DOMAIN Nada = {} /\ EsFuncion(Nada) /\ ClavesDe(d) = {}
  BY <1>4 DEF Nada, EsFuncion, ClavesDe
<1>7. Mapa(d) = Nada
  BY <1>4, <1>5, <1>6, MapaEs
<1> QED BY <1>5, <1>7 DEF d

(* realloc: more room, the same entries. *)
LEMMA BloqueCrecido ==
  ASSUME NEW d, EsBloque(d)
  PROVE  /\ EsBloque(Crecido(d)) /\ Crecido(d).longitud = d.longitud
         /\ d.longitud < Crecido(d).capacidad
         /\ \A i \in Usadas(d) : /\ Crecido(d).claves[i] = d.claves[i]
                                 /\ Crecido(d).valores[i] = d.valores[i]
<1>1. CASE d.longitud < d.capacidad
  BY <1>1 DEF Crecido
<1>2. CASE ~(d.longitud < d.capacidad)
  <2> DEFINE c == 2 * d.capacidad
             x == Realojado(d.claves, c)
             y == Realojado(d.valores, c)
             e == [longitud |-> d.longitud, capacidad |-> c, claves |-> x, valores |-> y]
  <2>1. c \in Nat /\ c > d.longitud /\ c > d.capacidad /\ c > 0
    BY <1>2 DEF EsBloque
  <2>2. DOMAIN d.claves = 0..(d.capacidad - 1) /\ DOMAIN d.valores = 0..(d.capacidad - 1)
    BY DEF EsBloque
  <2>3. Crecido(d) = e
    BY <1>2 DEF Crecido, EsBloque
  <2>4. /\ x \in [0..(c - 1) -> Textos \cup {Basura}]
        /\ y \in [0..(c - 1) -> Datos \cup {Basura}]
    BY <2>1, <2>2 DEF Realojado, EsBloque
  <2>5. Usadas(e) = Usadas(d) /\ Usadas(d) \subseteq DOMAIN d.claves /\ Usadas(d) \subseteq 0..(c - 1)
    BY <2>1, <2>2 DEF Usadas, EsBloque
  <2>6. \A i \in Usadas(d) : x[i] = d.claves[i] /\ y[i] = d.valores[i]
    BY <2>2, <2>5 DEF Realojado
  <2> HIDE DEF c, x, y
  <2>7. EsBloque(e)
    BY <2>1, <2>4, <2>5, <2>6 DEF EsBloque
  <2> QED BY <2>1, <2>3, <2>6, <2>7
<1> QED BY <1>1, <1>2

(* A new entry, after the others. *)
LEMMA BloqueAlFinal ==
  ASSUME NEW d, EsBloque(d), d.longitud < d.capacidad,
         NEW k \in Textos, k \notin ClavesDe(d), NEW v \in Datos
  PROVE  EsBloque(AlFinal(d, k, v)) /\ Mapa(AlFinal(d, k, v)) = Sobre(Mapa(d), Una(k, v))
<1> DEFINE n == d.longitud
           x == [d.claves EXCEPT ![n] = k]
           y == [d.valores EXCEPT ![n] = v]
           e == [longitud |-> n + 1, capacidad |-> d.capacidad, claves |-> x, valores |-> y]
           f == Sobre(Mapa(d), Una(k, v))
<1>1. AlFinal(d, k, v) = e
  <2>1. AlFinal(d, k, v) = [d EXCEPT !.longitud = n + 1, !.claves = x, !.valores = y]
    BY DEF AlFinal
  <2> HIDE DEF x, y
  <2> QED BY <2>1 DEF EsBloque
<1>2. n \in Nat /\ n \in 0..(d.capacidad - 1) /\ n + 1 <= d.capacidad /\ d.capacidad \in Nat
  BY DEF EsBloque
<1>3. Usadas(e) = Usadas(d) \cup {n} /\ n \notin Usadas(d)
  BY <1>2 DEF Usadas
<1>4. x[n] = k /\ y[n] = v
  BY <1>2 DEF EsBloque
<1>5. \A i \in Usadas(d) : x[i] = d.claves[i] /\ y[i] = d.valores[i]
  BY <1>2, <1>3 DEF EsBloque, Usadas
<1>6. /\ x \in [0..(d.capacidad - 1) -> Textos \cup {Basura}]
      /\ y \in [0..(d.capacidad - 1) -> Datos \cup {Basura}]
  BY <1>2 DEF EsBloque
<1>7. \A i \in Usadas(d) : d.claves[i] \in ClavesDe(d)
  BY DEF ClavesDe
<1> HIDE DEF n, x, y
<1>8. \A i, j \in Usadas(e) : x[i] = x[j] => i = j
  BY <1>3, <1>4, <1>5, <1>7 DEF EsBloque
<1>9. EsBloque(e)
  <2>1. \A i \in Usadas(e) : x[i] \in Textos /\ y[i] \in Datos
    BY <1>3, <1>4, <1>5 DEF EsBloque
  <2>2. n + 1 \in Nat
    BY <1>2
  <2> QED BY <1>2, <1>6, <1>8, <2>1, <2>2 DEF EsBloque
<1>10. DOMAIN f = ClavesDe(d) \cup {k} /\ EsFuncion(f)
  BY SobreDe, MapaDe DEF Una
<1>11. f[k] = v /\ \A i \in Usadas(d) : f[d.claves[i]] = d.valores[i]
  <2>1. DOMAIN Una(k, v) = {k} /\ Una(k, v)[k] = v
    BY DEF Una
  <2>2. ASSUME NEW i \in Usadas(d)
        PROVE  d.claves[i] \in DOMAIN Mapa(d) \ DOMAIN Una(k, v)
    BY <2>1, <2>2, <1>7, MapaDe
  <2>3. \A i \in Usadas(d) : Sobre(Mapa(d), Una(k, v))[d.claves[i]] = Mapa(d)[d.claves[i]]
    BY <2>2, SobreDe
  <2>4. Sobre(Mapa(d), Una(k, v))[k] = v
    BY <2>1 DEF Sobre, Abstractos!Sobre
  <2> QED BY <2>3, <2>4, MapaDe
<1>12. ClavesDe(e) = ClavesDe(d) \cup {k}
  BY <1>3, <1>4, <1>5 DEF ClavesDe
<1>13. \A i \in Usadas(e) : f[x[i]] = y[i]
  BY <1>3, <1>4, <1>5, <1>11
<1> HIDE DEF f
<1>14. Mapa(e) = f
  BY <1>9, <1>10, <1>12, <1>13, MapaEs
<1> QED BY <1>1, <1>9, <1>14 DEF f

(* More room does not change the function. *)
LEMMA MapaCrecido ==
  ASSUME NEW d, EsBloque(d)
  PROVE  Mapa(Crecido(d)) = Mapa(d) /\ ClavesDe(Crecido(d)) = ClavesDe(d)
<1> DEFINE e == Crecido(d)
<1>1. EsBloque(e) /\ Usadas(e) = Usadas(d)
  BY BloqueCrecido DEF Usadas
<1>2. \A i \in Usadas(d) : e.claves[i] = d.claves[i] /\ e.valores[i] = d.valores[i]
  BY BloqueCrecido
<1> HIDE DEF e
<1>3. ClavesDe(e) = ClavesDe(d)
  BY <1>1, <1>2 DEF ClavesDe
<1>4. \A i \in Usadas(e) : Mapa(d)[e.claves[i]] = e.valores[i]
  BY <1>1, <1>2, MapaDe
<1>5. Mapa(e) = Mapa(d)
  BY <1>1, <1>3, <1>4, MapaDe, MapaEs
<1> QED BY <1>3, <1>5 DEF e

(* Another value in the entry at place i. *)
LEMMA BloqueConValor ==
  ASSUME NEW d, EsBloque(d), NEW i \in Usadas(d), NEW v \in Datos
  PROVE  LET k == d.claves[i]
             e == ConValor(d, k, v)
         IN /\ e = [longitud |-> d.longitud, capacidad |-> d.capacidad,
                    claves |-> d.claves, valores |-> [d.valores EXCEPT ![i] = v]]
            /\ EsBloque(e) /\ Mapa(e) = Sobre(Mapa(d), Una(k, v))
<1> DEFINE k == d.claves[i]
           y == [d.valores EXCEPT ![i] = v]
           e == [longitud |-> d.longitud, capacidad |-> d.capacidad,
                 claves |-> d.claves, valores |-> y]
           f == Sobre(Mapa(d), Una(k, v))
<1>1. Lugar(d, k) = {i}
  BY LugarDe DEF EsBloque
<1>2. ConValor(d, k, v) = e
  <2>1. [j \in DOMAIN d.valores |-> IF j \in Lugar(d, k) THEN v ELSE d.valores[j]] = y
    BY <1>1
  <2> HIDE DEF y, k
  <2>2. ConValor(d, k, v) = [d EXCEPT !.valores = y]
    BY <2>1 DEF ConValor
  <2> QED BY <2>2 DEF EsBloque
<1>3. i \in 0..(d.capacidad - 1)
  BY DEF EsBloque, Usadas
<1>4. y \in [0..(d.capacidad - 1) -> Datos \cup {Basura}]
  BY DEF EsBloque
<1>5. y[i] = v /\ \A j \in Usadas(d) \ {i} : y[j] = d.valores[j]
  BY <1>3 DEF EsBloque, Usadas
<1> HIDE DEF y
<1>6. Usadas(e) = Usadas(d) /\ ClavesDe(e) = ClavesDe(d)
  BY DEF Usadas, ClavesDe
<1>7. EsBloque(e)
  BY <1>4, <1>5, <1>6 DEF EsBloque
<1>8. k \in ClavesDe(d) /\ \A j \in Usadas(d) \ {i} : d.claves[j] # k /\ d.claves[j] \in ClavesDe(d)
  BY DEF ClavesDe, EsBloque
<1>9. DOMAIN f = ClavesDe(d) /\ EsFuncion(f)
  <2>1. DOMAIN f = DOMAIN Mapa(d) \cup {k} /\ EsFuncion(f)
    BY DEF Sobre, Abstractos!Sobre, Una, EsFuncion
  <2> QED BY <1>8, <2>1, MapaDe
<1>10. \A j \in Usadas(d) : f[d.claves[j]] = y[j]
  <2>1. f[k] = v
    BY DEF Sobre, Abstractos!Sobre, Una
  <2>2. ASSUME NEW j \in Usadas(d) \ {i}
        PROVE  f[d.claves[j]] = y[j]
    <3>1. d.claves[j] \in DOMAIN Mapa(d) /\ d.claves[j] # k
      BY <1>8, MapaDe
    <3>2. f[d.claves[j]] = Mapa(d)[d.claves[j]]
      BY <3>1 DEF Sobre, Abstractos!Sobre, Una
    <3> QED BY <1>5, <3>2, MapaDe
  <2> QED BY <1>5, <2>1, <2>2
<1> HIDE DEF f, k
<1>11. Mapa(e) = f
  BY <1>6, <1>7, <1>9, <1>10, MapaEs
<1> QED BY <1>2, <1>7, <1>11 DEF f, k, y

(* dic_poner keeps a block in order and its function gets the entry. *)
LEMMA BloquePuesto ==
  ASSUME NEW d, EsBloque(d), NEW k \in Textos, NEW v \in Datos
  PROVE  EsBloque(Puesto(d, k, v)) /\ Mapa(Puesto(d, k, v)) = Sobre(Mapa(d), Una(k, v))
<1>1. CASE Lugar(d, k) # {}
  <2>1. PICK i \in Usadas(d) : d.claves[i] = k
    BY <1>1, LugarDe
  <2> QED BY <1>1, <2>1, BloqueConValor DEF Puesto
<1>2. CASE Lugar(d, k) = {}
  <2> DEFINE e == Crecido(d)
  <2>1. k \notin ClavesDe(d)
    BY <1>2, LugarDe DEF ClavesDe
  <2>2. EsBloque(e) /\ e.longitud < e.capacidad /\ k \notin ClavesDe(e) /\ Mapa(e) = Mapa(d)
    BY <2>1, BloqueCrecido, MapaCrecido
  <2> HIDE DEF e
  <2>3. EsBloque(AlFinal(e, k, v)) /\ Mapa(AlFinal(e, k, v)) = Sobre(Mapa(d), Una(k, v))
    BY <2>2, BloqueAlFinal
  <2> QED BY <1>2, <2>3 DEF Puesto, e
<1> QED BY <1>1, <1>2

(* dic_poner of an entry a block has already: nothing changes. *)
LEMMA PuestoMismo ==
  ASSUME NEW d, EsBloque(d), NEW i \in Usadas(d)
  PROVE  Puesto(d, d.claves[i], d.valores[i]) = d
<1> DEFINE k == d.claves[i]
           v == d.valores[i]
<1>1. v \in Datos /\ Lugar(d, k) # {}
  <2>1. v \in Datos
    BY DEF EsBloque
  <2>2. \A x : x = d.claves[i] => i \in Lugar(d, x)
    BY LugarDe
  <2> QED BY <2>1, <2>2
<1>2. [d.valores EXCEPT ![i] = v] = d.valores
  BY DEF EsBloque
<1>3. ConValor(d, k, v) = [longitud |-> d.longitud, capacidad |-> d.capacidad,
                          claves |-> d.claves, valores |-> d.valores]
  BY <1>1, <1>2, BloqueConValor
<1>4. ConValor(d, k, v) = d
  BY <1>3 DEF EsBloque
<1> QED BY <1>1, <1>4 DEF Puesto

(* dic.eliminar: both arrays move together, and the function loses the key. *)
LEMMA BloqueQuitado ==
  ASSUME NEW d, EsBloque(d), NEW i \in Usadas(d)
  PROVE  /\ EsBloque(Quitado(d, i))
         /\ Mapa(Quitado(d, i)) = [k \in DOMAIN Mapa(d) \ {d.claves[i]} |-> Mapa(d)[k]]
<1> DEFINE n == d.longitud
           x == Corrido(d.claves, i, n)
           y == Corrido(d.valores, i, n)
           e == [longitud |-> n - 1, capacidad |-> d.capacidad, claves |-> x, valores |-> y]
           f == [k \in DOMAIN Mapa(d) \ {d.claves[i]} |-> Mapa(d)[k]]
           De(j) == IF j < i THEN j ELSE j + 1
<1>1. Quitado(d, i) = e
  <2>1. Quitado(d, i) = [d EXCEPT !.longitud = n - 1, !.claves = x, !.valores = y]
    BY DEF Quitado
  <2> HIDE DEF x, y
  <2> QED BY <2>1 DEF EsBloque
<1>2. n \in Nat /\ n > 0 /\ i \in 0..(n - 1) /\ n <= d.capacidad /\ d.capacidad \in Nat
  BY DEF EsBloque, Usadas
<1>3. /\ DOMAIN x = 0..(d.capacidad - 1) /\ DOMAIN y = 0..(d.capacidad - 1)
      /\ DOMAIN d.claves = 0..(d.capacidad - 1) /\ DOMAIN d.valores = 0..(d.capacidad - 1)
  BY DEF Corrido, EsBloque
<1>4. /\ x \in [0..(d.capacidad - 1) -> Textos \cup {Basura}]
      /\ y \in [0..(d.capacidad - 1) -> Datos \cup {Basura}]
  <2>1. \A j \in 0..(d.capacidad - 1) : j < n - 1 => j + 1 \in 0..(d.capacidad - 1)
    BY <1>2
  <2> QED BY <1>3, <2>1 DEF Corrido, EsBloque
<1>5. Usadas(e) = 0..(n - 2) /\ Usadas(d) = 0..(n - 1)
  BY <1>2 DEF Usadas
<1>6. \A j \in Usadas(e) : De(j) \in Usadas(d) \ {i} /\ x[j] = d.claves[De(j)] /\ y[j] = d.valores[De(j)]
  BY <1>2, <1>3, <1>5 DEF Corrido
<1>7. \A m \in Usadas(d) \ {i} : \E j \in Usadas(e) : De(j) = m
  <2> TAKE m \in Usadas(d) \ {i}
  <2>1. CASE m < i
    BY <2>1, <1>2, <1>5
  <2>2. CASE m > i
    <3>1. m - 1 \in Usadas(e) /\ De(m - 1) = m
      BY <2>2, <1>2, <1>5
    <3> QED BY <3>1
  <2> QED BY <2>1, <2>2, <1>2, <1>5
<1>8. \A j, m \in Usadas(e) : De(j) = De(m) => j = m
  BY <1>2, <1>5
<1> HIDE DEF x, y, De
<1>9. EsBloque(e)
  <2>1. \A j, m \in Usadas(e) : x[j] = x[m] => j = m
    BY <1>6, <1>8 DEF EsBloque
  <2>2. \A j \in Usadas(e) : x[j] \in Textos /\ y[j] \in Datos
    BY <1>6 DEF EsBloque
  <2>3. n - 1 \in Nat /\ n - 1 <= d.capacidad /\ d.capacidad > 0
    BY <1>2
  <2> HIDE DEF n
  <2> QED BY <1>2, <1>4, <2>1, <2>2, <2>3 DEF EsBloque
<1>10. ClavesDe(e) = ClavesDe(d) \ {d.claves[i]}
  <2>1. \A m \in Usadas(d) \ {i} : d.claves[m] # d.claves[i]
    BY DEF EsBloque
  <2>2. ClavesDe(d) \ {d.claves[i]} = {d.claves[m] : m \in Usadas(d) \ {i}}
    BY <2>1 DEF ClavesDe
  <2>3. ClavesDe(e) = {x[j] : j \in Usadas(e)}
    BY DEF ClavesDe
  <2> HIDE DEF e
  <2> QED BY <1>6, <1>7, <2>2, <2>3
<1>11. DOMAIN f = ClavesDe(e) /\ EsFuncion(f)
  BY <1>10, MapaDe DEF EsFuncion
<1>12. \A j \in Usadas(e) : f[x[j]] = y[j]
  <2> TAKE j \in Usadas(e)
  <2>1. x[j] \in DOMAIN f
    <3>1. x[j] \in ClavesDe(e)
      BY DEF ClavesDe
    <3> QED BY <3>1, <1>11
  <2>2. f[x[j]] = Mapa(d)[x[j]]
    BY <2>1
  <2> QED BY <2>2, <1>6, MapaDe
<1> HIDE DEF f
<1>13. Mapa(e) = f
  BY <1>9, <1>11, <1>12, MapaEs
<1> QED BY <1>1, <1>9, <1>13 DEF f

-----------------------------------------------------------------------------
(* What the loops have left to insert *)

(* All the entries of a block are its function. *)
LEMMA RestoTodo ==
  ASSUME NEW d, EsBloque(d)
  PROVE  Resto(d, 0) = Mapa(d)
<1>1. {d.claves[i] : i \in 0..(d.longitud - 1)} = DOMAIN Mapa(d)
  BY DEF Mapa, Usadas
<1> QED BY <1>1, MapaDe DEF Resto, EsFuncion

(* After the last entry nothing is left. *)
LEMMA RestoNada ==
  ASSUME NEW d, EsBloque(d), NEW t \in Nat, ~(t < d.longitud)
  PROVE  Resto(d, t) = Nada
<1>1. t..(d.longitud - 1) = {}
  BY DEF EsBloque
<1>2. {d.claves[i] : i \in t..(d.longitud - 1)} = {}
  BY <1>1
<1> QED BY <1>2 DEF Resto, Nada

(* The entries from t on are the entry at t and those after it. *)
LEMMA RestoPaso ==
  ASSUME NEW d, EsBloque(d), NEW t \in Usadas(d)
  PROVE  Resto(d, t) = Sobre(Una(d.claves[t], d.valores[t]), Resto(d, t + 1))
<1> DEFINE K == {d.claves[i] : i \in t..(d.longitud - 1)}
           L == {d.claves[i] : i \in (t + 1)..(d.longitud - 1)}
           k == d.claves[t]
<1>1. t..(d.longitud - 1) = {t} \cup (t + 1)..(d.longitud - 1)
  BY DEF Usadas, EsBloque
<1>2. K = {k} \cup L
  BY <1>1
<1>3. Mapa(d)[k] = d.valores[t]
  BY MapaDe
<1>4. Resto(d, t) = [x \in K |-> Mapa(d)[x]] /\ Resto(d, t + 1) = [x \in L |-> Mapa(d)[x]]
  BY DEF Resto
<1> HIDE DEF K, L, k
<1> QED BY <1>2, <1>3, <1>4 DEF Sobre, Abstractos!Sobre, Una, k

(* What is left of a block is a function. *)
LEMMA RestoFuncion == ASSUME NEW d, NEW t PROVE EsFuncion(Resto(d, t))
BY DEF Resto, EsFuncion

(* A bounded set of numbers that is not empty has a greatest member. *)
LEMMA Mayor ==
  ASSUME NEW n \in Nat, NEW S, S \subseteq 1..n, S # {}
  PROVE  \E i \in S : \A j \in S : j <= i
<1> DEFINE R == OpToRel(<, Nat)
           T == {n - i : i \in S}
<1>1. IsWellFoundedOn(R, Nat)
  BY NatLessThanWellFounded
<1>2. T \subseteq Nat /\ T # {}
  OBVIOUS
<1> HIDE DEF T, R
<1>3. PICK x \in T : \A y \in T : ~(<<y, x>> \in R)
  BY <1>1, <1>2, WFMin
<1>4. x \in Nat /\ \A y \in T : y \in Nat /\ ~(y < x)
  BY <1>2, <1>3 DEF R, OpToRel
<1>5. PICK i \in S : x = n - i
  BY DEF T
<1>6. \A j \in S : n - j \in T
  BY DEF T
<1>7. \A j \in S : j <= i
  BY <1>4, <1>5, <1>6
<1> QED BY <1>7

(* The last entry of a list of them that has key k. *)
EsUltima(es, k, i) ==
  i \in DOMAIN es /\ es[i][1] = k /\ \A j \in DOMAIN es : es[j][1] = k => j <= i

(* The function of the entries: the last one of each key counts. *)
EsLaDe(f, es) ==
  /\ DOMAIN f = {es[i][1] : i \in DOMAIN es} /\ EsFuncion(f)
  /\ \A i \in DOMAIN es : \A k : EsUltima(es, k, i) => f[k] = es[i][2]
  /\ \A k \in DOMAIN f : \E i \in DOMAIN es : EsUltima(es, k, i)

(* The value of a key in a literal is the one of its last entry. *)
LEMMA DeEntradasDe ==
  ASSUME NEW V, NEW es \in Seq(V)
  PROVE  EsLaDe(DeEntradas(es), es)
<1> DEFINE K == {es[i][1] : i \in DOMAIN es}
           C(k) == CHOOSE i \in DOMAIN es : es[i][1] = k /\ \A j \in DOMAIN es : es[j][1] = k => j <= i
<1>1. DeEntradas(es) = [k \in K |-> es[C(k)][2]]
  BY DEF DeEntradas, Abstractos!DeEntradas
<1>2. DOMAIN es = 1..Len(es) /\ Len(es) \in Nat
  BY LenProperties
<1>3. ASSUME NEW k, NEW i, EsUltima(es, k, i)
      PROVE  C(k) = i /\ k \in K
  <2>1. i \in DOMAIN es /\ es[i][1] = k /\ \A j \in DOMAIN es : es[j][1] = k => j <= i
    BY <1>3 DEF EsUltima
  <2>2. /\ C(k) \in DOMAIN es /\ es[C(k)][1] = k
        /\ \A j \in DOMAIN es : es[j][1] = k => j <= C(k)
    BY <2>1
  <2> HIDE DEF C
  <2>3. C(k) = i
    BY <1>2, <2>1, <2>2
  <2> QED BY <2>1, <2>3
<1>4. ASSUME NEW k \in K
      PROVE  \E i : EsUltima(es, k, i)
  <2> DEFINE S == {i \in DOMAIN es : es[i][1] = k}
  <2>1. S \subseteq 1..Len(es) /\ S # {}
    BY <1>2
  <2> HIDE DEF S
  <2>2. PICK i \in S : \A j \in S : j <= i
    BY <1>2, <2>1, Mayor
  <2>3. EsUltima(es, k, i)
    BY <2>2 DEF EsUltima, S
  <2> QED BY <2>3
<1> HIDE DEF C
<1>5. DOMAIN DeEntradas(es) = K /\ EsFuncion(DeEntradas(es)) /\ \A k \in K : DeEntradas(es)[k] = es[C(k)][2]
  BY <1>1 DEF EsFuncion
<1> QED BY <1>3, <1>4, <1>5 DEF EsLaDe, EsUltima

(* The function of a literal is its first entry under those after it. *)
LEMMA DeEntradasPaso ==
  ASSUME NEW V, NEW es \in Seq(V), es # <<>>
  PROVE  DeEntradas(es) = Sobre(Una(es[1][1], es[1][2]), DeEntradas(Tail(es)))
<1> DEFINE ts == Tail(es)
           k1 == es[1][1]
           f == DeEntradas(es)
           g == DeEntradas(ts)
           h == Sobre(Una(k1, es[1][2]), g)
<1>1. /\ ts \in Seq(V) /\ Len(es) \in Nat /\ Len(es) > 0
      /\ DOMAIN es = 1..Len(es) /\ DOMAIN ts = 1..(Len(es) - 1)
      /\ \A i \in DOMAIN ts : ts[i] = es[i + 1]
  <2>1. ts \in Seq(V) /\ Len(ts) = Len(es) - 1 /\ \A i \in 1..Len(ts) : ts[i] = es[i + 1]
    BY HeadTailProperties
  <2>2. DOMAIN es = 1..Len(es) /\ DOMAIN ts = 1..Len(ts) /\ Len(es) \in Nat
    BY <2>1, LenProperties
  <2>3. Len(es) # 0
    BY EmptySeq
  <2> HIDE DEF ts
  <2> QED BY <2>1, <2>2, <2>3
<1>2. EsLaDe(f, es)
  BY DeEntradasDe
<1> HIDE DEF ts
<1>3. EsLaDe(g, ts)
  BY <1>1, DeEntradasDe
<1> HIDE DEF f, g
<1>4. \A i \in DOMAIN es : i = 1 \/ i - 1 \in DOMAIN ts
  BY <1>1
<1>5. \A i \in DOMAIN ts : i + 1 \in DOMAIN es
  BY <1>1
<1>6. 1 \in DOMAIN es
  BY <1>1
<1>7. DOMAIN f = {k1} \cup DOMAIN g
  <2>1. DOMAIN f = {es[i][1] : i \in DOMAIN es} /\ DOMAIN g = {ts[i][1] : i \in DOMAIN ts}
    BY <1>2, <1>3 DEF EsLaDe
  <2>2. \A i \in DOMAIN es : es[i][1] \in {k1} \cup {ts[j][1] : j \in DOMAIN ts}
    <3> TAKE i \in DOMAIN es
    <3>1. CASE i # 1
      <4>1. i - 1 \in DOMAIN ts /\ ts[i - 1] = es[i]
        BY <1>1, <3>1
      <4> QED BY <4>1
    <3> QED BY <3>1
  <2>3. \A i \in DOMAIN ts : ts[i][1] \in {es[j][1] : j \in DOMAIN es}
    BY <1>1, <1>5
  <2> QED BY <1>6, <2>1, <2>2, <2>3
<1>8. ASSUME NEW k \in DOMAIN g
      PROVE  f[k] = g[k]
  <2>1. PICK m : EsUltima(ts, k, m)
    BY <1>3 DEF EsLaDe
  <2>2. m \in DOMAIN ts /\ ts[m][1] = k /\ \A j \in DOMAIN ts : ts[j][1] = k => j <= m
    BY <2>1 DEF EsUltima
  <2>3. ASSUME NEW j \in DOMAIN es, es[j][1] = k
        PROVE  j <= m + 1
    <3>1. CASE j = 1
      BY <1>1, <2>2, <3>1
    <3>2. CASE j # 1
      <4>1. j - 1 \in DOMAIN ts /\ ts[j - 1] = es[j]
        BY <1>1, <3>2
      <4> QED BY <1>1, <2>2, <2>3, <4>1
    <3> QED BY <3>1, <3>2
  <2>4. EsUltima(es, k, m + 1) /\ es[m + 1] = ts[m]
    BY <1>1, <1>5, <2>2, <2>3 DEF EsUltima
  <2>5. f[k] = es[m + 1][2]
    BY <2>4, <1>2 DEF EsLaDe, EsUltima
  <2>6. g[k] = ts[m][2]
    BY <2>1, <2>2, <1>3 DEF EsLaDe
  <2> QED BY <2>4, <2>5, <2>6
<1>9. k1 \notin DOMAIN g => f[k1] = es[1][2]
  <2> SUFFICES ASSUME k1 \notin DOMAIN g PROVE f[k1] = es[1][2]
    OBVIOUS
  <2>1. \A j \in DOMAIN ts : ts[j][1] # k1
    BY <1>3 DEF EsLaDe
  <2>2. \A j \in DOMAIN es : es[j][1] = k1 => j <= 1
    <3> TAKE j \in DOMAIN es
    <3>1. CASE j # 1
      <4>1. j - 1 \in DOMAIN ts /\ ts[j - 1] = es[j]
        BY <1>1, <3>1
      <4> QED BY <2>1, <4>1
    <3> QED BY <3>1, <1>1
  <2>3. EsUltima(es, k1, 1)
    BY <1>6, <2>2 DEF EsUltima
  <2> QED BY <2>3, <1>2 DEF EsLaDe, EsUltima
<1>10. EsFuncion(f)
  BY <1>2 DEF EsLaDe
<1> HIDE DEF k1
<1>11. DOMAIN h = {k1} \cup DOMAIN g /\ EsFuncion(h)
  BY DEF Sobre, Abstractos!Sobre, Una, EsFuncion
<1>12. \A k \in DOMAIN g : h[k] = g[k]
  BY DEF Sobre, Abstractos!Sobre, Una
<1>13. k1 \notin DOMAIN g => h[k1] = es[1][2]
  BY DEF Sobre, Abstractos!Sobre, Una
<1> HIDE DEF h
<1>14. f = h
  BY <1>7, <1>8, <1>9, <1>10, <1>11, <1>12, <1>13, Iguales
<1> QED BY <1>14 DEF f, g, h, k1, ts

-----------------------------------------------------------------------------
(* The steps: each one keeps the invariant and is an abstract step or none *)

(* A step that changes the block at one address. *)
LEMMA CambiaBloque ==
  ASSUME Bloques, NEW a \in DOMAIN dics, NEW e, EsBloque(e), dics' = [dics EXCEPT ![a] = e]
  PROVE  /\ Bloques' /\ DOMAIN dics' = DOMAIN dics /\ dics'[a] = e
         /\ \A b \in DOMAIN dics \ {a} : dics'[b] = dics[b]
         /\ Mapas(dics)' = [Mapas(dics) EXCEPT ![a] = Mapa(e)]
<1>1. DOMAIN dics' = DOMAIN dics /\ dics'[a] = e /\ \A b \in DOMAIN dics \ {a} : dics'[b] = dics[b]
  OBVIOUS
<1>2. Bloques'
  BY <1>1 DEF Bloques
<1>3. Mapas(dics)' = [Mapas(dics) EXCEPT ![a] = Mapa(e)]
  BY <1>1 DEF Mapas
<1> QED BY <1>1, <1>2, <1>3

(* A step that allocates a block. *)
LEMMA NuevoBloque ==
  ASSUME Bloques, NEW id \in Ids \ DOMAIN dics, NEW n \in Nat, Nuevo(id, n)
  PROVE  /\ Bloques' /\ DOMAIN dics' = DOMAIN dics \cup {id} /\ Mapa(dics'[id]) = Nada
         /\ \A b \in DOMAIN dics : dics'[b] = dics[b]
<1>1. /\ DOMAIN dics' = DOMAIN dics \cup {id} /\ dics'[id] = DicNuevo(n)
      /\ \A b \in DOMAIN dics : dics'[b] = dics[b]
  BY DEF Nuevo
<1>2. EsBloque(DicNuevo(n)) /\ Mapa(DicNuevo(n)) = Nada
  BY BloqueNuevo
<1> QED BY <1>1, <1>2 DEF Bloques

(* d[k] = v *)
LEMMA PasoAsignarIndice ==
  ASSUME Inv, destino = Libre, NEW a \in DOMAIN dics, AsignarIndice(a)
  PROVE  Inv' /\ Abstractos!Poner(a) /\ UNCHANGED <<estado, pedido>>
<1>1. PICK k \in Llaves, v \in Datos :
        dics' = [dics EXCEPT ![a] = Puesto(@, Texto[k], v)] /\ UNCHANGED <<estado, bucle>>
  BY DEF AsignarIndice
<1> DEFINE t == Texto[k]
           e == Puesto(dics[a], t, v)
<1>2. t \in Textos /\ Bloques /\ EsBloque(dics[a])
  BY DEF Textos, Inv, Bloques
<1>3. dics' = [dics EXCEPT ![a] = e]
  BY <1>1
<1>4. UNCHANGED <<estado, destino, args, fuentes, pedido>>
  BY <1>1 DEF bucle, llamada
<1> HIDE DEF t
<1>5. EsBloque(e) /\ Mapa(e) = Sobre(Mapa(dics[a]), Una(t, v))
  BY <1>2, BloquePuesto
<1> HIDE DEF e
<1>6. Bloques' /\ Mapas(dics)' = [Mapas(dics) EXCEPT ![a] = Mapa(e)]
  BY <1>2, <1>3, <1>5, CambiaBloque
<1>7. Inv'
  BY <1>4, <1>6 DEF Inv
<1>8. Mapas(dics)[a] = Mapa(dics[a])
  BY DEF Mapas
<1>9. Abstractos!Poner(a)
  <2> DEFINE f == Abstractos!Sobre(Mapas(dics)[a], [x \in {t} |-> v])
  <2>1. Mapas(dics)' = [Mapas(dics) EXCEPT ![a] = f]
    BY <1>5, <1>6, <1>8 DEF Sobre, Una
  <2> HIDE DEF f
  <2>2. Abstractos!Cambia(a, f)
    BY <1>4, <2>1 DEF Abstractos!Cambia
  <2> QED BY <1>2, <2>2 DEF Abstractos!Poner, f
<1> QED BY <1>4, <1>7, <1>9

(* dic.eliminar *)
LEMMA PasoEliminar ==
  ASSUME Inv, destino = Libre, NEW a \in DOMAIN dics, Eliminar(a)
  PROVE  Inv' /\ Abstractos!Eliminar(a) /\ UNCHANGED <<estado, pedido>>
<1>1. PICK i :
        /\ \E k \in Llaves : i \in Lugar(dics[a], Texto[k])
        /\ dics' = [dics EXCEPT ![a] = Quitado(@, i)] /\ UNCHANGED <<estado, bucle>>
  BY DEF Eliminar
<1> DEFINE d == dics[a]
           e == Quitado(d, i)
<1>2. Bloques /\ EsBloque(d)
  BY DEF Inv, Bloques
<1>3. i \in Usadas(d)
  BY <1>1 DEF Lugar
<1>4. UNCHANGED <<estado, destino, args, fuentes, pedido>>
  BY <1>1 DEF bucle, llamada
<1>5. EsBloque(e) /\ Mapa(e) = [k1 \in DOMAIN Mapa(d) \ {d.claves[i]} |-> Mapa(d)[k1]]
  BY <1>2, <1>3, BloqueQuitado
<1>6. dics' = [dics EXCEPT ![a] = e]
  BY <1>1
<1> HIDE DEF e
<1>7. Bloques' /\ Mapas(dics)' = [Mapas(dics) EXCEPT ![a] = Mapa(e)]
  BY <1>2, <1>5, <1>6, CambiaBloque
<1>8. Inv'
  BY <1>4, <1>7 DEF Inv
<1>9. d.claves[i] \in DOMAIN Mapa(d)
  BY <1>2, <1>3, MapaDe DEF ClavesDe
<1>10. Mapas(dics)[a] = Mapa(d)
  BY DEF Mapas
<1> HIDE DEF d
<1>11. Abstractos!Eliminar(a)
  BY <1>4, <1>5, <1>7, <1>9, <1>10 DEF Abstractos!Eliminar, Abstractos!Cambia
<1> QED BY <1>4, <1>8, <1>11

(* d[k] of a key that is not there. *)
LEMMA PasoObtenerIndiceAusente ==
  ASSUME Inv, destino = Libre, NEW a \in DOMAIN dics, ObtenerIndiceAusente(a)
  PROVE  Inv' /\ Abstractos!LeerAusente(a) /\ UNCHANGED pedido
<1>1. PICK k \in Llaves : Lugar(dics[a], Texto[k]) = {}
  BY DEF ObtenerIndiceAusente
<1>2. estado' = "abortado" /\ UNCHANGED <<dics, destino, args, fuentes, pedido>>
  BY DEF ObtenerIndiceAusente, bucle, llamada
<1>3. Texto[k] \in Textos \ DOMAIN Mapa(dics[a])
  <2>1. Texto[k] \in Textos /\ EsBloque(dics[a])
    BY DEF Textos, Inv, Bloques
  <2>2. \A x : Lugar(dics[a], x) = {} => x \notin ClavesDe(dics[a])
    BY <2>1, LugarDe DEF ClavesDe
  <2> QED BY <1>1, <2>1, <2>2, MapaDe
<1>4. Mapas(dics)[a] = Mapa(dics[a]) /\ Mapas(dics)' = Mapas(dics)
  BY <1>2 DEF Mapas
<1>5. Inv'
  BY <1>2 DEF Inv, Bloques
<1>6. Abstractos!LeerAusente(a)
  BY <1>2, <1>3, <1>4 DEF Abstractos!LeerAusente
<1> QED BY <1>2, <1>5, <1>6

-----------------------------------------------------------------------------
(* The loops begin *)

(* A literal without entries, and the sources a loop can begin with. *)
LEMMA QuedaAlEmpezar ==
  ASSUME NEW ds
  PROVE  /\ Queda(ds, <<>>, <<>>, 0) = Nada
         /\ \A a : EsBloque(ds[a]) => Queda(ds, <<>>, <<a>>, 0) = Mapa(ds[a])
         /\ \A a, b : EsBloque(ds[a]) =>
              Queda(ds, <<>>, <<a, b>>, 0) = Sobre(Mapa(ds[a]), Mapa(ds[b]))
<1>1. Queda(ds, <<>>, <<>>, 0) = Nada
  <2>1. Entradas(<<>>) = <<>>
    BY DEF Entradas
  <2>2. DeEntradas(<<>>) = Nada
    <3>1. {(<<>>)[i][1] : i \in DOMAIN <<>>} = {}
      OBVIOUS
    <3> QED BY <3>1 DEF DeEntradas, Abstractos!DeEntradas, Nada
  <2>3. Len(<<>>) = 0
    OBVIOUS
  <2> QED BY <2>1, <2>2, <2>3 DEF Queda
<1>2. ASSUME NEW a, EsBloque(ds[a])
      PROVE  Queda(ds, <<>>, <<a>>, 0) = Mapa(ds[a])
  <2>1. Len(<<a>>) = 1 /\ (<<a>>)[1] = a
    OBVIOUS
  <2>2. Resto(ds[a], 0) = Mapa(ds[a])
    BY <1>2, RestoTodo
  <2> QED BY <2>1, <2>2 DEF Queda
<1>3. ASSUME NEW a, NEW b, EsBloque(ds[a])
      PROVE  Queda(ds, <<>>, <<a, b>>, 0) = Sobre(Mapa(ds[a]), Mapa(ds[b]))
  <2>1. Len(<<a, b>>) = 2 /\ (<<a, b>>)[1] = a /\ (<<a, b>>)[2] = b
    OBVIOUS
  <2>2. Resto(ds[a], 0) = Mapa(ds[a])
    BY <1>3, RestoTodo
  <2> QED BY <2>1, <2>2 DEF Queda
<1> QED BY <1>1, <1>2, <1>3

(* A loop begins in order when what it is to insert over its destination is
   what the call must give. *)
LEMMA EmpiezaBien ==
  ASSUME Inv, destino = Libre, NEW r \in Ids, NEW es \in Seq(Llaves \X Datos),
         NEW fs \in Seq(DOMAIN dics), Len(fs) \in 0..2, es # <<>> => fs = <<>>,
         Len(fs) = 2 => r \notin DOMAIN dics,
         NEW que, NEW con, Empieza(r, es, fs), Anota(que, r, con),
         Bloques', DOMAIN dics' = DOMAIN dics \cup {r},
         \A a \in DOMAIN dics \ {r} : dics'[a] = dics[a],
         Sobre(Mapa(dics'[r]), Queda(dics', es, fs, 0))
           = Debido(Mapas(dics), [que |-> que, en |-> r, con |-> con])
  PROVE  /\ Inv' /\ Mapas(dics) = previo' /\ estado' = estado /\ destino' # Libre
         /\ pedido' = <<[que |-> que, en |-> r, con |-> con]>>
<1> DEFINE p == [que |-> que, en |-> r, con |-> con]
<1>1. /\ destino' = r /\ args' = es /\ fuentes' = fs /\ turno' = 0
      /\ previo' = Mapas(dics) /\ estado' = estado
  BY DEF Empieza
<1>2. pedido' = <<p>>
  BY DEF Anota
<1>3. pedido' # <<>> /\ pedido'[1] = p /\ p.en = r
  BY <1>2
<1> HIDE DEF p
<1>4. r # Libre
  BY LibreAssumption
<1>5. DOMAIN Mapas(dics) = DOMAIN dics /\ \A a \in DOMAIN dics : Mapas(dics)[a] = Mapa(dics[a])
  BY DEF Mapas
<1>6. fs \in Seq(DOMAIN dics')
  <2>1. DOMAIN fs = 1..Len(fs) /\ Len(fs) \in Nat /\ \A i \in 1..Len(fs) : fs[i] \in DOMAIN dics'
    BY ElementOfSeq, LenProperties
  <2>2. fs = [i \in 1..Len(fs) |-> fs[i]]
    BY LenProperties
  <2> QED BY <2>1, <2>2, SeqDef
<1>7. Len(fs) = 2 => r # fs[1] /\ r # fs[2]
  BY ElementOfSeq
<1>8. \A a \in DOMAIN Mapas(dics) \ {r} : Mapa(dics'[a]) = Mapas(dics)[a]
  BY <1>5
<1>9. Sobre(Mapa(dics'[r]), Queda(dics', es, fs, 0)) = Debido(Mapas(dics), p)
  BY DEF p
<1>10. EnBucle'
  BY <1>1, <1>3, <1>5, <1>6, <1>7, <1>8, <1>9 DEF EnBucle
<1>11. Inv'
  BY <1>1, <1>4, <1>10 DEF Inv
<1> QED BY <1>1, <1>2, <1>4, <1>11 DEF p

(* {k: v, ...} *)
LEMMA PasoLiteral ==
  ASSUME Inv, destino = Libre, NEW id \in Ids \ DOMAIN dics, Literal(id)
  PROVE  Inv' /\ Abstractos!Pedir
<1>1. PICK n \in 0..MaxArgs : \E es \in [1..n -> Llaves \X Datos] :
        /\ Nuevo(id, n) /\ Empieza(id, es, <<>>)
        /\ Anota("literal", id, [i \in 1..n |-> <<Texto[es[i][1]], es[i][2]>>])
  BY DEF Literal
<1>2. PICK es \in [1..n -> Llaves \X Datos] :
        /\ Nuevo(id, n) /\ Empieza(id, es, <<>>)
        /\ Anota("literal", id, [i \in 1..n |-> <<Texto[es[i][1]], es[i][2]>>])
  BY <1>1
<1> DEFINE con == [i \in 1..n |-> <<Texto[es[i][1]], es[i][2]>>]
           p == [que |-> "literal", en |-> id, con |-> con]
<1>3. n \in Nat /\ es \in Seq(Llaves \X Datos)
  BY MaxArgsAssumption, SeqDef
<1>4. con = Entradas(es)
  BY DEF Entradas
<1>5. con \in [1..n -> Textos \X Datos]
  BY DEF Textos
<1>6. con \in Seq(Textos \X Datos)
  BY <1>3, <1>5, SeqDef
<1>7. Anota("literal", id, con)
  BY <1>2
<1> HIDE DEF con
<1>8. EsFuncion(DeEntradas(con))
  BY <1>6, DeEntradasDe DEF EsLaDe
<1>9. /\ Bloques' /\ DOMAIN dics' = DOMAIN dics \cup {id} /\ Mapa(dics'[id]) = Nada
      /\ \A b \in DOMAIN dics : dics'[b] = dics[b]
  BY <1>2, <1>3, NuevoBloque DEF Inv
<1>10. Queda(dics', es, <<>>, 0) = DeEntradas(con)
  <2>1. Len(<<>>) = 0
    OBVIOUS
  <2> QED BY <1>4, <2>1 DEF Queda
<1>11. Debido(Mapas(dics), p) = DeEntradas(con)
  BY DEF Debido
<1>12. Sobre(Mapa(dics'[id]), Queda(dics', es, <<>>, 0)) = Debido(Mapas(dics), p)
  BY <1>8, <1>9, <1>10, <1>11, SobreNada
<1>13. <<>> \in Seq(DOMAIN dics) /\ Len(<<>>) \in 0..2 /\ Len(<<>>) # 2
  OBVIOUS
<1>14. /\ Inv' /\ Mapas(dics) = previo' /\ estado' = estado /\ destino' # Libre
       /\ pedido' = <<p>>
  <2> DEFINE fs == <<>>
             r == id
             que == "literal"
  <2>1. /\ r \in Ids /\ fs \in Seq(DOMAIN dics) /\ Len(fs) \in 0..2
        /\ es # <<>> => fs = <<>>
        /\ Len(fs) = 2 => r \notin DOMAIN dics
    BY <1>13
  <2>2. Empieza(r, es, fs) /\ Anota(que, r, con)
    BY <1>2, <1>7
  <2>3. \A a \in DOMAIN dics \ {r} : dics'[a] = dics[a]
    BY <1>9
  <2>4. Sobre(Mapa(dics'[r]), Queda(dics', es, fs, 0))
          = Debido(Mapas(dics), [que |-> que, en |-> r, con |-> con])
    BY <1>12
  <2>5. Bloques' /\ DOMAIN dics' = DOMAIN dics \cup {r}
    BY <1>9
  <2> HIDE DEF fs, que, r
  <2> QED BY <1>3, <2>1, <2>2, <2>3, <2>4, <2>5, EmpiezaBien DEF fs, que, r
<1>15. Abstractos!Pide("literal", id, con)
  BY <1>14 DEF Abstractos!Pide
<1>16. Abstractos!PideNuevo(id) /\ id \in Ids \ DOMAIN Mapas(dics)
  BY <1>5, <1>15 DEF Abstractos!PideNuevo, Mapas
<1> QED BY <1>14, <1>16 DEF Abstractos!Pedir

(* A new block with the entries of one or two others: the loop begins. *)
LEMMA EmpiezaNuevo ==
  ASSUME Inv, destino = Libre, NEW id \in Ids \ DOMAIN dics, NEW n \in Nat, Nuevo(id, n),
         NEW fs \in Seq(DOMAIN dics), Len(fs) \in 0..2, Empieza(id, <<>>, fs),
         NEW que, NEW con, Anota(que, id, con),
         EsFuncion(Queda(dics', <<>>, fs, 0)),
         Queda(dics', <<>>, fs, 0) = Debido(Mapas(dics), [que |-> que, en |-> id, con |-> con])
  PROVE  /\ Inv' /\ Mapas(dics) = previo' /\ estado' = estado /\ destino' # Libre
         /\ pedido' = <<[que |-> que, en |-> id, con |-> con]>>
<1> DEFINE es == <<>>
<1>1. /\ Bloques' /\ DOMAIN dics' = DOMAIN dics \cup {id} /\ Mapa(dics'[id]) = Nada
      /\ \A b \in DOMAIN dics : dics'[b] = dics[b]
  BY NuevoBloque DEF Inv
<1>2. Sobre(Mapa(dics'[id]), Queda(dics', es, fs, 0))
        = Debido(Mapas(dics), [que |-> que, en |-> id, con |-> con])
  BY <1>1, SobreNada
<1>3. es \in Seq(Llaves \X Datos)
  OBVIOUS
<1>4. (es # <<>> => fs = <<>>) /\ (Len(fs) = 2 => id \notin DOMAIN dics) /\ id \in Ids
  OBVIOUS
<1>5. Empieza(id, es, fs)
  OBVIOUS
<1>6. \A b \in DOMAIN dics \ {id} : dics'[b] = dics[b]
  BY <1>1
<1> HIDE DEF es
<1> QED BY <1>1, <1>2, <1>3, <1>4, <1>5, <1>6, EmpiezaBien

(* What a loop has to insert for an argument: its function, or nothing. *)
LEMMA SiEsDicDe ==
  ASSUME NEW ds, DOMAIN dics \subseteq DOMAIN ds, \A a \in DOMAIN dics : ds[a] = dics[a],
         \A a \in DOMAIN dics : EsBloque(dics[a]), NEW a, NEW b
  PROVE  /\ SiEsDic(a) \in Seq(DOMAIN dics) /\ Len(SiEsDic(a)) \in 0..2
         /\ Queda(ds, <<>>, SiEsDic(a), 0) = Valor(Mapas(dics), a)
         /\ (SiEsDic(a) \o SiEsDic(b)) \in Seq(DOMAIN dics)
         /\ Len(SiEsDic(a) \o SiEsDic(b)) \in 0..2
         /\ Queda(ds, <<>>, SiEsDic(a) \o SiEsDic(b), 0)
              = Sobre(Valor(Mapas(dics), a), Valor(Mapas(dics), b))
<1> DEFINE x == SiEsDic(a)
           y == SiEsDic(a) \o SiEsDic(b)
           u == Valor(Mapas(dics), a)
           v == Valor(Mapas(dics), b)
<1>1. /\ u = IF a \in DOMAIN dics THEN Mapa(ds[a]) ELSE Nada
      /\ v = IF b \in DOMAIN dics THEN Mapa(ds[b]) ELSE Nada
  BY DEF Valor, Mapas
<1>2. EsFuncion(u) /\ EsFuncion(v)
  <2>1. \A z \in DOMAIN dics : EsFuncion(Mapa(ds[z]))
    BY MapaDe
  <2>2. EsFuncion(Nada)
    BY DEF Nada, EsFuncion
  <2> HIDE DEF u, v
  <2> QED BY <1>1, <2>1, <2>2
<1>3. /\ x = IF a \in DOMAIN dics THEN <<a>> ELSE <<>>
      /\ SiEsDic(b) = IF b \in DOMAIN dics THEN <<b>> ELSE <<>>
      /\ y = x \o SiEsDic(b)
  BY DEF SiEsDic
<1> HIDE DEF x, y, u, v
<1>4. /\ <<>> \in Seq(DOMAIN dics) /\ Len(<<>>) = 0 /\ <<>> \o <<>> = <<>>
      /\ Queda(ds, <<>>, <<>>, 0) = Nada
  BY QuedaAlEmpezar
<1>5. \A z \in DOMAIN dics :
        /\ <<z>> \in Seq(DOMAIN dics) /\ Len(<<z>>) = 1
        /\ <<z>> \o <<>> = <<z>> /\ <<>> \o <<z>> = <<z>>
        /\ Queda(ds, <<>>, <<z>>, 0) = Mapa(ds[z])
  <2> TAKE z \in DOMAIN dics
  <2>1. <<z>> \in Seq(DOMAIN dics) /\ Len(<<z>>) = 1
    OBVIOUS
  <2>2. <<z>> \o <<>> = <<z>> /\ <<>> \o <<z>> = <<z>>
    BY <2>1, ConcatEmptySeq
  <2>3. Queda(ds, <<>>, <<z>>, 0) = Mapa(ds[z])
    BY QuedaAlEmpezar
  <2> QED BY <2>1, <2>2, <2>3
<1>6. \A z, w \in DOMAIN dics :
        /\ <<z, w>> \in Seq(DOMAIN dics) /\ Len(<<z, w>>) = 2 /\ <<z>> \o <<w>> = <<z, w>>
        /\ Queda(ds, <<>>, <<z, w>>, 0) = Sobre(Mapa(ds[z]), Mapa(ds[w]))
  <2> TAKE z, w \in DOMAIN dics
  <2>1. <<z, w>> \in Seq(DOMAIN dics) /\ Len(<<z, w>>) = 2
    OBVIOUS
  <2>2. <<z>> \o <<w>> = <<z, w>>
    <3> DEFINE s == <<z>>
               r == <<w>>
    <3>1. /\ s \in Seq(DOMAIN dics) /\ r \in Seq(DOMAIN dics) /\ Len(s) = 1 /\ Len(r) = 1
          /\ s[1] = z /\ r[1] = w
      OBVIOUS
    <3> HIDE DEF s, r
    <3>2. /\ s \o r \in Seq(DOMAIN dics) /\ Len(s \o r) = 2
          /\ (s \o r)[1] = z /\ (s \o r)[2] = w
      <4> DEFINE n == Len(s) + Len(r)
      <4>1. /\ s \o r \in Seq(DOMAIN dics) /\ Len(s \o r) = n
            /\ \A i \in 1..n : (s \o r)[i] = IF i <= Len(s) THEN s[i] ELSE r[i - Len(s)]
        BY <3>1, ConcatProperties
      <4>2. n = 2 /\ 1 \in 1..n /\ 2 \in 1..n /\ 1 <= Len(s) /\ ~(2 <= Len(s)) /\ 2 - Len(s) = 1
        BY <3>1
      <4> HIDE DEF n
      <4> QED BY <3>1, <4>1, <4>2
    <3>3. \A i \in 1..2 : (s \o r)[i] = <<z, w>>[i]
      BY <3>2
    <3> QED BY <2>1, <3>2, <3>3, SeqEqual DEF s, r
  <2>3. Queda(ds, <<>>, <<z, w>>, 0) = Sobre(Mapa(ds[z]), Mapa(ds[w]))
    BY QuedaAlEmpezar
  <2> QED BY <2>1, <2>2, <2>3
<1>7. Sobre(u, Nada) = u /\ Sobre(Nada, v) = v
  BY <1>2, SobreNada
<1>8. /\ x \in Seq(DOMAIN dics) /\ Len(x) \in 0..2 /\ Queda(ds, <<>>, x, 0) = u
      /\ y \in Seq(DOMAIN dics) /\ Len(y) \in 0..2 /\ Queda(ds, <<>>, y, 0) = Sobre(u, v)
  <2>1. CASE a \in DOMAIN dics /\ b \in DOMAIN dics
    <3>1. x = <<a>> /\ y = <<a, b>> /\ u = Mapa(ds[a]) /\ v = Mapa(ds[b])
      BY <1>1, <1>3, <1>6, <2>1
    <3>2. x \in Seq(DOMAIN dics) /\ Len(x) = 1 /\ Queda(ds, <<>>, x, 0) = u
      BY <1>5, <2>1, <3>1
    <3>3. y \in Seq(DOMAIN dics) /\ Len(y) = 2 /\ Queda(ds, <<>>, y, 0) = Sobre(u, v)
      BY <1>6, <2>1, <3>1
    <3> QED BY <3>2, <3>3
  <2>2. CASE a \in DOMAIN dics /\ b \notin DOMAIN dics
    <3>1. x = <<a>> /\ y = <<a>> /\ u = Mapa(ds[a]) /\ v = Nada
      BY <1>1, <1>3, <1>5, <2>2
    <3> QED BY <1>5, <1>7, <2>2, <3>1
  <2>3. CASE a \notin DOMAIN dics /\ b \in DOMAIN dics
    <3>1. x = <<>> /\ y = <<b>> /\ u = Nada /\ v = Mapa(ds[b])
      BY <1>1, <1>3, <1>5, <2>3
    <3> QED BY <1>4, <1>5, <1>7, <2>3, <3>1
  <2>4. CASE a \notin DOMAIN dics /\ b \notin DOMAIN dics
    <3>1. x = <<>> /\ y = <<>> /\ u = Nada /\ v = Nada
      BY <1>1, <1>3, <1>4, <2>4
    <3> QED BY <1>4, <1>7, <3>1
  <2> QED BY <2>1, <2>2, <2>3, <2>4
<1> QED BY <1>8 DEF x, y, u, v

(* dic.copiar *)
LEMMA PasoCopiar ==
  ASSUME Inv, destino = Libre, NEW id \in Ids \ DOMAIN dics, Copiar(id)
  PROVE  Inv' /\ Abstractos!Pedir
<1>1. PICK a \in Vivos :
        Nuevo(id, Longitud(a)) /\ Empieza(id, <<>>, SiEsDic(a)) /\ Anota("copiar", id, <<a>>)
  BY DEF Copiar
<1> DEFINE n == Longitud(a)
           fs == SiEsDic(a)
           con == <<a>>
           que == "copiar"
<1>2. n \in Nat
  BY DEF Longitud, Inv, Bloques, EsBloque
<1>3. DOMAIN dics \subseteq DOMAIN dics' /\ \A b \in DOMAIN dics : dics'[b] = dics[b]
  BY <1>1 DEF Nuevo
<1>4. /\ fs \in Seq(DOMAIN dics) /\ Len(fs) \in 0..2
      /\ Queda(dics', <<>>, fs, 0) = Valor(Mapas(dics), a)
  BY <1>3, SiEsDicDe DEF Inv, Bloques
<1>5. EsFuncion(Valor(Mapas(dics), a))
  BY MapaDe DEF Valor, Mapas, Inv, Bloques, Nada, EsFuncion
<1>6. Debido(Mapas(dics), [que |-> que, en |-> id, con |-> con]) = Valor(Mapas(dics), a)
  BY DEF Debido
<1>7. Nuevo(id, n) /\ Empieza(id, <<>>, fs) /\ Anota(que, id, con)
  BY <1>1
<1> HIDE DEF n, fs, con, que
<1>8. /\ Inv' /\ Mapas(dics) = previo' /\ estado' = estado /\ destino' # Libre
      /\ pedido' = <<[que |-> que, en |-> id, con |-> con]>>
  BY <1>2, <1>4, <1>5, <1>6, <1>7, EmpiezaNuevo
<1>9. Abstractos!Pide("copiar", id, <<a>>)
  BY <1>8 DEF Abstractos!Pide, que, con
<1>10. a \in Datos \cup DOMAIN Mapas(dics) /\ id \in Ids \ DOMAIN Mapas(dics)
  BY DEF Vivos, Mapas
<1>11. Abstractos!PideNuevo(id)
  BY <1>9, <1>10 DEF Abstractos!PideNuevo, Abstractos!Vivos
<1> QED BY <1>8, <1>10, <1>11 DEF Abstractos!Pedir

(* dic.combinar *)
LEMMA PasoCombinar ==
  ASSUME Inv, destino = Libre, NEW id \in Ids \ DOMAIN dics, Combinar(id)
  PROVE  Inv' /\ Abstractos!Pedir
<1>1. PICK a \in Vivos, b \in Vivos :
        /\ Nuevo(id, Longitud(a) + Longitud(b))
        /\ Empieza(id, <<>>, SiEsDic(a) \o SiEsDic(b)) /\ Anota("combinar", id, <<a, b>>)
  BY DEF Combinar
<1> DEFINE n == Longitud(a) + Longitud(b)
           fs == SiEsDic(a) \o SiEsDic(b)
           con == <<a, b>>
           que == "combinar"
<1>2. n \in Nat
  <2>1. Longitud(a) \in Nat /\ Longitud(b) \in Nat
    BY DEF Longitud, Inv, Bloques, EsBloque
  <2> QED BY <2>1
<1>3. DOMAIN dics \subseteq DOMAIN dics' /\ \A x \in DOMAIN dics : dics'[x] = dics[x]
  BY <1>1 DEF Nuevo
<1>4. /\ fs \in Seq(DOMAIN dics) /\ Len(fs) \in 0..2
      /\ Queda(dics', <<>>, fs, 0) = Sobre(Valor(Mapas(dics), a), Valor(Mapas(dics), b))
  BY <1>3, SiEsDicDe DEF Inv, Bloques
<1>5. EsFuncion(Sobre(Valor(Mapas(dics), a), Valor(Mapas(dics), b)))
  BY SobreDe
<1>6. Debido(Mapas(dics), [que |-> que, en |-> id, con |-> con])
        = Sobre(Valor(Mapas(dics), a), Valor(Mapas(dics), b))
  BY DEF Debido
<1>7. Nuevo(id, n) /\ Empieza(id, <<>>, fs) /\ Anota(que, id, con)
  BY <1>1
<1> HIDE DEF n, fs, con, que
<1>8. /\ Inv' /\ Mapas(dics) = previo' /\ estado' = estado /\ destino' # Libre
      /\ pedido' = <<[que |-> que, en |-> id, con |-> con]>>
  BY <1>2, <1>4, <1>5, <1>6, <1>7, EmpiezaNuevo
<1>9. Abstractos!Pide("combinar", id, <<a, b>>)
  BY <1>8 DEF Abstractos!Pide, que, con
<1>10. /\ a \in Datos \cup DOMAIN Mapas(dics) /\ b \in Datos \cup DOMAIN Mapas(dics)
       /\ id \in Ids \ DOMAIN Mapas(dics)
  BY DEF Vivos, Mapas
<1>11. Abstractos!PideNuevo(id)
  BY <1>9, <1>10 DEF Abstractos!PideNuevo, Abstractos!Vivos
<1> QED BY <1>8, <1>10, <1>11 DEF Abstractos!Pedir

(* dic.actualizar: the source may be the destination. *)
LEMMA PasoActualizar ==
  ASSUME Inv, destino = Libre, NEW a \in DOMAIN dics, Actualizar(a)
  PROVE  Inv' /\ Abstractos!Pedir
<1>1. PICK b \in DOMAIN dics :
        UNCHANGED dics /\ Empieza(a, <<>>, <<b>>) /\ Anota("actualizar", a, <<b>>)
  BY DEF Actualizar
<1> DEFINE es == <<>>
           fs == <<b>>
           con == <<b>>
           que == "actualizar"
<1>2. /\ es \in Seq(Llaves \X Datos) /\ fs \in Seq(DOMAIN dics) /\ Len(fs) \in 0..2
      /\ es = <<>> /\ Len(fs) # 2
  OBVIOUS
<1>3. /\ Bloques' /\ DOMAIN dics' = DOMAIN dics \cup {a} /\ a \in Ids
      /\ \A x \in DOMAIN dics \ {a} : dics'[x] = dics[x]
  BY <1>1 DEF Inv, Bloques
<1>4. Queda(dics', es, fs, 0) = Mapa(dics[b])
  BY <1>1, QuedaAlEmpezar DEF Inv, Bloques
<1>5. Debido(Mapas(dics), [que |-> que, en |-> a, con |-> con]) = Sobre(Mapa(dics[a]), Mapa(dics[b]))
  BY DEF Debido, Mapas
<1>6. Empieza(a, es, fs) /\ Anota(que, a, con) /\ Mapa(dics'[a]) = Mapa(dics[a])
  BY <1>1
<1> HIDE DEF es, fs, con, que
<1>7. Sobre(Mapa(dics'[a]), Queda(dics', es, fs, 0))
        = Debido(Mapas(dics), [que |-> que, en |-> a, con |-> con])
  BY <1>4, <1>5, <1>6
<1>8. /\ Inv' /\ Mapas(dics) = previo' /\ estado' = estado /\ destino' # Libre
      /\ pedido' = <<[que |-> que, en |-> a, con |-> con]>>
  BY <1>2, <1>3, <1>6, <1>7, EmpiezaBien
<1>9. Abstractos!Pide("actualizar", a, <<b>>)
  BY <1>8 DEF Abstractos!Pide, que, con
<1>10. a \in DOMAIN Mapas(dics) /\ b \in DOMAIN Mapas(dics)
  BY DEF Mapas
<1> QED BY <1>8, <1>9, <1>10 DEF Abstractos!Pedir

-----------------------------------------------------------------------------
(* The loops turn: no abstract step *)

(* What a turn that puts the entry k, v in the destination must leave. *)
LEMMA UnaVuelta ==
  ASSUME Inv, destino # Libre, NEW k \in Textos, NEW v \in Datos, Inserta(k, v),
         UNCHANGED <<estado, destino, llamada>>,
         args' \in Seq(Llaves \X Datos), fuentes' = fuentes, turno' \in Nat,
         args' # <<>> => fuentes = <<>>,
         Queda(dics, args, fuentes, turno) = Sobre(Una(k, v), Queda(dics', args', fuentes', turno'))
  PROVE  Inv' /\ UNCHANGED <<previo, estado, pedido, destino>>
<1> DEFINE e == Puesto(dics[destino], k, v)
           q == Queda(dics', args', fuentes', turno')
<1>1. UNCHANGED <<estado, destino, pedido, previo>>
  BY DEF llamada
<1>2. EnBucle /\ Bloques /\ destino \in DOMAIN dics
  BY DEF Inv, EnBucle
<1>3. EsBloque(dics[destino])
  BY <1>2 DEF Bloques
<1>4. EsBloque(e) /\ Mapa(e) = Sobre(Mapa(dics[destino]), Una(k, v))
  BY <1>3, BloquePuesto
<1>5. dics' = [dics EXCEPT ![destino] = e]
  BY DEF Inserta
<1> HIDE DEF e
<1>6. /\ Bloques' /\ DOMAIN dics' = DOMAIN dics /\ dics'[destino] = e
      /\ \A b \in DOMAIN dics \ {destino} : dics'[b] = dics[b]
  BY <1>2, <1>4, <1>5, CambiaBloque
<1> HIDE DEF q
<1>7. Sobre(Mapa(e), q) = Sobre(Mapa(dics[destino]), Sobre(Una(k, v), q))
  BY <1>4, SobreAsocia
<1>8. Sobre(Mapa(dics'[destino]), q) = Debido(previo, pedido[1])
  BY <1>2, <1>6, <1>7 DEF EnBucle, q
<1>9. EnBucle'
  BY <1>1, <1>2, <1>6, <1>8 DEF EnBucle, q
<1> QED BY <1>1, <1>6, <1>9 DEF Inv

(* The next entry of a literal. *)
LEMMA PasoPonArg ==
  ASSUME Inv, destino # Libre, PonArg
  PROVE  Inv' /\ UNCHANGED <<previo, estado, pedido, destino>>
<1> DEFINE k == Texto[args[1][1]]
           v == args[1][2]
           es == Entradas(args)
           ts == Tail(args)
           D == DeEntradas(Entradas(ts))
<1>1. args # <<>> /\ args \in Seq(Llaves \X Datos) /\ fuentes = <<>> /\ turno \in Nat
  BY DEF PonArg, Inv, EnBucle
<1>2. Inserta(k, v) /\ args' = ts /\ UNCHANGED <<estado, destino, fuentes, turno, llamada>>
  BY DEF PonArg
<1>3. /\ ts \in Seq(Llaves \X Datos) /\ Len(ts) = Len(args) - 1 /\ Len(args) \in Nat /\ Len(args) > 0
      /\ DOMAIN args = 1..Len(args) /\ DOMAIN ts = 1..Len(ts)
      /\ \A i \in 1..Len(ts) : ts[i] = args[i + 1]
  <2>1. /\ ts \in Seq(Llaves \X Datos) /\ Len(ts) = Len(args) - 1
        /\ \A i \in 1..Len(ts) : ts[i] = args[i + 1]
    BY <1>1, HeadTailProperties
  <2>2. Len(args) \in Nat /\ DOMAIN args = 1..Len(args) /\ DOMAIN ts = 1..Len(ts)
    BY <1>1, <2>1, LenProperties
  <2>3. Len(args) # 0
    BY <1>1, EmptySeq
  <2> HIDE DEF ts
  <2> QED BY <2>1, <2>2, <2>3
<1> HIDE DEF ts
<1>4. \A i \in 1..Len(args) : args[i] \in Llaves \X Datos
  BY <1>1, ElementOfSeq
<1>5. k \in Textos /\ v \in Datos
  <2>1. args[1] \in Llaves \X Datos
    BY <1>3, <1>4
  <2> QED BY <2>1 DEF Textos
<1>6. es \in Seq(Textos \X Datos) /\ Len(es) = Len(args) /\ es[1] = <<k, v>>
  <2>1. es = [i \in 1..Len(args) |-> <<Texto[args[i][1]], args[i][2]>>]
    BY <1>3 DEF Entradas
  <2>2. \A i \in 1..Len(args) : <<Texto[args[i][1]], args[i][2]>> \in Textos \X Datos
    BY <1>4 DEF Textos
  <2>3. es \in [1..Len(args) -> Textos \X Datos]
    BY <2>1, <2>2
  <2>4. es \in Seq(Textos \X Datos)
    BY <1>3, <2>3, SeqDef
  <2>5. Len(es) = Len(args)
    BY <1>3, <2>1, <2>4, LenProperties
  <2>6. 1 \in 1..Len(args)
    BY <1>3
  <2> HIDE DEF es
  <2> QED BY <2>1, <2>4, <2>5, <2>6
<1>7. Tail(es) = Entradas(ts)
  <2> DEFINE r == Tail(es)
             s == Entradas(ts)
  <2>1. es # <<>>
    BY <1>3, <1>6, EmptySeq
  <2>2. /\ r \in Seq(Textos \X Datos) /\ Len(r) = Len(ts)
        /\ \A i \in 1..Len(ts) : r[i] = es[i + 1]
    BY <1>3, <1>6, <2>1, HeadTailProperties
  <2>3. \A i \in 1..Len(ts) : i + 1 \in DOMAIN args
    BY <1>3
  <2>4. s = [i \in 1..Len(ts) |-> <<Texto[ts[i][1]], ts[i][2]>>]
    BY <1>3 DEF Entradas
  <2>5. \A i \in 1..Len(ts) : s[i] = es[i + 1]
    BY <1>3, <2>3, <2>4 DEF Entradas
  <2>6. r = [i \in 1..Len(ts) |-> r[i]]
    BY <2>2, LenProperties
  <2> HIDE DEF r, s
  <2>7. r = s
    BY <2>2, <2>4, <2>5, <2>6
  <2> QED BY <2>7 DEF r, s
<1>8. DeEntradas(es) = Sobre(Una(k, v), D)
  <2>1. es # <<>>
    BY <1>3, <1>6, EmptySeq
  <2> HIDE DEF k, v, es
  <2>2. DeEntradas(es) = Sobre(Una(es[1][1], es[1][2]), DeEntradas(Tail(es)))
    BY <1>6, <2>1, DeEntradasPaso
  <2>3. es[1][1] = k /\ es[1][2] = v
    BY <1>6
  <2> QED BY <1>7, <2>2, <2>3
<1> HIDE DEF k, v
<1>9. Queda(dics, args, fuentes, turno) = DeEntradas(es) /\ Queda(dics', args', fuentes', turno') = D
  <2>1. Len(fuentes) = 0
    BY <1>1
  <2> QED BY <1>1, <1>2, <2>1 DEF Queda
<1> HIDE DEF es, D
<1> QED BY <1>1, <1>2, <1>3, <1>5, <1>8, <1>9, UnaVuelta

(* The next entry of the first source, which may be the destination. *)
LEMMA PasoPonEntrada ==
  ASSUME Inv, destino # Libre, PonEntrada
  PROVE  Inv' /\ UNCHANGED <<previo, estado, pedido, destino>>
<1> DEFINE a == fuentes[1]
           d == dics[a]
           k == d.claves[turno]
           v == d.valores[turno]
<1>1. /\ args = <<>> /\ fuentes # <<>> /\ turno < d.longitud /\ Inserta(k, v)
      /\ turno' = turno + 1 /\ UNCHANGED <<estado, destino, args, fuentes, llamada>>
  BY DEF PonEntrada, Quedan
<1>2. /\ EnBucle /\ Bloques /\ destino \in DOMAIN dics /\ turno \in Nat
      /\ fuentes \in Seq(DOMAIN dics) /\ Len(fuentes) \in 0..2
  BY DEF Inv, EnBucle
<1>3. Len(fuentes) \in {1, 2}
  BY <1>1, <1>2, EmptySeq
<1>4. a \in DOMAIN dics /\ (Len(fuentes) = 2 => fuentes[2] \in DOMAIN dics)
  BY <1>2, <1>3, ElementOfSeq
<1>5. EsBloque(d) /\ EsBloque(dics[destino])
  BY <1>2, <1>4 DEF Bloques
<1>6. turno \in Usadas(d)
  BY <1>1, <1>2, <1>5 DEF Usadas, EsBloque
<1>7. k \in Textos /\ v \in Datos
  BY <1>5, <1>6 DEF EsBloque
<1>8. dics'[a] = d
  <2>1. CASE a = destino
    <3>1. Puesto(d, k, v) = d
      BY <1>5, <1>6, PuestoMismo
    <3>2. dics' = [dics EXCEPT ![destino] = Puesto(dics[destino], k, v)]
      BY <1>1 DEF Inserta
    <3> HIDE DEF k, v
    <3> QED BY <1>4, <2>1, <3>1, <3>2
  <2>2. CASE a # destino
    BY <1>1, <1>4, <2>2 DEF Inserta
  <2> QED BY <2>1, <2>2
<1>9. Len(fuentes) = 2 => dics'[fuentes[2]] = dics[fuentes[2]]
  BY <1>1, <1>2, <1>4 DEF Inserta, EnBucle
<1>10. Resto(d, turno) = Sobre(Una(k, v), Resto(d, turno + 1))
  BY <1>5, <1>6, RestoPaso
<1> HIDE DEF k, v
<1>11. Queda(dics, args, fuentes, turno) = Sobre(Una(k, v), Queda(dics', args', fuentes', turno'))
  <2>1. CASE Len(fuentes) = 1
    <3>1. /\ Queda(dics, args, fuentes, turno) = Resto(d, turno)
          /\ Queda(dics', args', fuentes', turno') = Resto(d, turno + 1)
      BY <1>1, <1>8, <2>1 DEF Queda
    <3> QED BY <1>10, <3>1
  <2>2. CASE Len(fuentes) = 2
    <3> DEFINE m == Mapa(dics[fuentes[2]])
               r == Resto(d, turno + 1)
    <3>1. /\ Queda(dics, args, fuentes, turno) = Sobre(Resto(d, turno), m)
          /\ Queda(dics', args', fuentes', turno') = Sobre(r, m)
      BY <1>1, <1>8, <1>9, <2>2 DEF Queda
    <3> HIDE DEF m, r
    <3>2. Sobre(Sobre(Una(k, v), r), m) = Sobre(Una(k, v), Sobre(r, m))
      BY SobreAsocia
    <3> QED BY <1>10, <3>1, <3>2 DEF r
  <2> QED BY <1>3, <2>1, <2>2
<1>12. args' \in Seq(Llaves \X Datos) /\ turno' \in Nat /\ args' = <<>>
  BY <1>1, <1>2
<1> QED BY <1>1, <1>7, <1>11, <1>12, UnaVuelta

(* The first source has no more entries. *)
LEMMA PasoOtraFuente ==
  ASSUME Inv, destino # Libre, OtraFuente
  PROVE  Inv' /\ UNCHANGED <<previo, estado, pedido, destino>>
<1> DEFINE d == dics[fuentes[1]]
           fs == Tail(fuentes)
<1>1. /\ args = <<>> /\ fuentes # <<>> /\ ~(turno < d.longitud)
      /\ fuentes' = fs /\ turno' = 0
      /\ UNCHANGED <<dics, estado, destino, args, pedido, previo>>
  BY DEF OtraFuente, Quedan, llamada
<1>2. /\ EnBucle /\ Bloques /\ destino \in DOMAIN dics /\ turno \in Nat
      /\ fuentes \in Seq(DOMAIN dics) /\ Len(fuentes) \in 0..2
  BY DEF Inv, EnBucle
<1>3. Len(fuentes) \in {1, 2}
  BY <1>1, <1>2, EmptySeq
<1>4. fuentes[1] \in DOMAIN dics /\ (Len(fuentes) = 2 => fuentes[2] \in DOMAIN dics)
  BY <1>2, <1>3, ElementOfSeq
<1>5. EsBloque(d) /\ (Len(fuentes) = 2 => EsBloque(dics[fuentes[2]]))
  BY <1>2, <1>4 DEF Bloques
<1>6. /\ fs \in Seq(DOMAIN dics) /\ Len(fs) = Len(fuentes) - 1
      /\ (Len(fuentes) = 2 => fs[1] = fuentes[2])
  <2>1. /\ fs \in Seq(DOMAIN dics) /\ Len(fs) = Len(fuentes) - 1
        /\ \A i \in 1..Len(fs) : fs[i] = fuentes[i + 1]
    BY <1>1, <1>2, HeadTailProperties
  <2> HIDE DEF fs
  <2>2. Len(fuentes) = 2 => 1 \in 1..Len(fs)
    <3>1. Len(fuentes) = 2 => Len(fs) = 1
      BY <2>1
    <3> QED BY <3>1
  <2> QED BY <2>1, <2>2
<1>7. Resto(d, turno) = Nada
  BY <1>1, <1>2, <1>5, RestoNada
<1> HIDE DEF fs, d
<1>8. Queda(dics', args', fuentes', turno') = Queda(dics, args, fuentes, turno)
  <2>1. CASE Len(fuentes) = 1
    <3>1. Queda(dics, args, fuentes, turno) = Nada
      BY <1>7, <2>1 DEF Queda, d
    <3>2. fs = <<>>
      BY <1>6, <2>1, EmptySeq
    <3>3. Queda(dics', args', fuentes', turno') = Nada
      BY <1>1, <3>2, QuedaAlEmpezar
    <3> QED BY <3>1, <3>3
  <2>2. CASE Len(fuentes) = 2
    <3> DEFINE b == dics[fuentes[2]]
    <3>1. Queda(dics, args, fuentes, turno) = Sobre(Nada, Mapa(b))
      BY <1>7, <2>2 DEF Queda, d
    <3>2. Len(fs) = 1 /\ dics[fs[1]] = b
      BY <1>6, <2>2
    <3>3. Queda(dics', args', fuentes', turno') = Resto(b, 0)
      BY <1>1, <3>2 DEF Queda
    <3>4. Resto(b, 0) = Mapa(b) /\ EsFuncion(Mapa(b))
      BY <1>5, <2>2, RestoTodo, MapaDe
    <3> HIDE DEF b
    <3> QED BY <3>1, <3>3, <3>4, SobreNada
  <2> QED BY <1>3, <2>1, <2>2
<1>9. Len(fs) \in 0..1
  BY <1>3, <1>6
<1>10. Sobre(Mapa(dics'[destino']), Queda(dics', args', fuentes', turno')) = Debido(previo', pedido'[1])
  <2>1. Sobre(Mapa(dics[destino]), Queda(dics, args, fuentes, turno)) = Debido(previo, pedido[1])
    BY <1>2 DEF EnBucle
  <2> QED BY <1>1, <1>8, <2>1
<1>11. EnBucle'
  <2>1. Len(fuentes') \in 0..2 /\ Len(fuentes') # 2 /\ turno' \in Nat /\ args' = <<>>
    BY <1>1, <1>9
  <2>2. fuentes' \in Seq(DOMAIN dics')
    BY <1>1, <1>6
  <2> QED BY <1>1, <1>2, <1>10, <2>1, <2>2 DEF EnBucle
<1>12. Inv'
  BY <1>1, <1>2, <1>11 DEF Inv, Bloques
<1> QED BY <1>1, <1>12

(* The loop ends: the call takes effect. *)
LEMMA PasoAcaba ==
  ASSUME Inv, destino # Libre, Acaba
  PROVE  Inv' /\ pedido # <<>> /\ Abstractos!Cumplir
<1> DEFINE p == pedido[1]
<1>1. /\ args = <<>> /\ fuentes = <<>> /\ destino' = Libre /\ pedido' = <<>>
      /\ UNCHANGED <<dics, estado, args, fuentes>>
  BY DEF Acaba
<1>2. EnBucle /\ Bloques /\ destino \in DOMAIN dics
  BY DEF Inv, EnBucle
<1>3. pedido # <<>> /\ p.en = destino /\ DOMAIN dics = DOMAIN previo \cup {destino}
  BY <1>2 DEF EnBucle
<1>4. Queda(dics, args, fuentes, turno) = Nada
  <2>1. Queda(dics, args, fuentes, turno) = Queda(dics, <<>>, <<>>, 0)
    BY <1>1 DEF Queda
  <2> QED BY <2>1, QuedaAlEmpezar
<1>5. Mapa(dics[destino]) = Debido(previo, p)
  <2>1. EsFuncion(Mapa(dics[destino]))
    BY <1>2, MapaDe DEF Bloques
  <2> QED BY <1>2, <1>4, <2>1, SobreNada DEF EnBucle
<1>6. Inv'
  BY <1>1 DEF Inv, Bloques
<1>7. Abstractos!Resultado(p.que, p.en, p.con) = Debido(previo, p)
  BY DEF Abstractos!Resultado, Debido, Valor, Abstractos!MapaDe, Abstractos!Vacio, Nada,
         Sobre, DeEntradas
<1> HIDE DEF p
<1>8. Mapas(dics) = [x \in DOMAIN previo \cup {p.en} |->
                       IF x = p.en THEN Debido(previo, p) ELSE previo[x]]
  BY <1>2, <1>3, <1>5 DEF Mapas, EnBucle
<1>9. Mapas(dics)' = Mapas(dics)
  BY <1>1 DEF Mapas
<1>10. Abstractos!Cumplir
  BY <1>1, <1>7, <1>8, <1>9 DEF Abstractos!Cumplir, p
<1> QED BY <1>3, <1>6, <1>10

-----------------------------------------------------------------------------
(* The theorems *)

(* The program starts with no dictionary. *)
LEMMA Inicio == Init => Inv /\ Abstractos!Init
<1> SUFFICES ASSUME Init PROVE Inv /\ Abstractos!Init
  OBVIOUS
<1>1. /\ DOMAIN dics = {} /\ estado = "corre" /\ destino = Libre
      /\ args = <<>> /\ fuentes = <<>> /\ pedido = <<>>
  BY DEF Init
<1>2. Inv
  BY <1>1 DEF Inv, Bloques
<1>3. Mapas(dics) = [a \in {} |-> Abstractos!Vacio]
  BY <1>1 DEF Mapas
<1> QED BY <1>1, <1>2, <1>3 DEF Abstractos!Init

(* The calls that begin and those of one step. *)
LEMMA PasoOperacion ==
  ASSUME Inv, estado = "corre", destino = Libre, Operacion
  PROVE  Inv' /\ Abstractos!Next
<1>1. pedido = <<>>
  BY DEF Inv
<1>2. CASE \E id \in Ids \ DOMAIN dics : Literal(id) \/ Combinar(id) \/ Copiar(id)
  <2>1. Inv' /\ Abstractos!Pedir
    BY <1>2, PasoLiteral, PasoCombinar, PasoCopiar
  <2> QED BY <1>1, <2>1 DEF Abstractos!Next
<1>3. CASE \E a \in DOMAIN dics : Actualizar(a)
  <2>1. Inv' /\ Abstractos!Pedir
    BY <1>3, PasoActualizar
  <2> QED BY <1>1, <2>1 DEF Abstractos!Next
<1>4. CASE \E a \in DOMAIN dics : AsignarIndice(a) \/ Eliminar(a) \/ ObtenerIndiceAusente(a)
  <2>1. PICK a \in DOMAIN dics : AsignarIndice(a) \/ Eliminar(a) \/ ObtenerIndiceAusente(a)
    BY <1>4
  <2>2. /\ Inv' /\ UNCHANGED pedido
        /\ \/ UNCHANGED estado /\ (Abstractos!Poner(a) \/ Abstractos!Eliminar(a))
           \/ Abstractos!LeerAusente(a)
    BY <2>1, PasoAsignarIndice, PasoEliminar, PasoObtenerIndiceAusente
  <2>3. a \in DOMAIN Mapas(dics)
    BY DEF Mapas
  <2> QED BY <1>1, <2>2, <2>3 DEF Abstractos!Next
<1> QED BY <1>2, <1>3, <1>4 DEF Operacion

(* The turns of a loop, and its end. *)
LEMMA PasoVuelta ==
  ASSUME Inv, estado = "corre", destino # Libre, Vuelta
  PROVE  Inv' /\ [Abstractos!Next]_(Abstractos!vars)
<1>1. CASE PonArg \/ PonEntrada \/ OtraFuente
  <2>1. Inv' /\ UNCHANGED <<previo, estado, pedido, destino>>
    BY <1>1, PasoPonArg, PasoPonEntrada, PasoOtraFuente
  <2> QED BY <2>1 DEF Abstractos!vars
<1>2. CASE Acaba
  BY <1>2, PasoAcaba DEF Abstractos!Next
<1> QED BY <1>1, <1>2 DEF Vuelta

(* Every step keeps the invariant and is an abstract step or none. *)
LEMMA Paso ==
  ASSUME Inv, [Next]_vars
  PROVE  Inv' /\ [Abstractos!Next]_(Abstractos!vars)
<1>1. CASE UNCHANGED vars
  <2>1. UNCHANGED <<dics, estado, destino, args, fuentes, turno, pedido, previo>>
    BY <1>1 DEF vars
  <2>2. Mapas(dics)' = Mapas(dics)
    BY <2>1 DEF Mapas
  <2>3. EnBucle => EnBucle'
    BY <2>1 DEF EnBucle
  <2>4. Inv'
    BY <2>1, <2>3 DEF Inv, Bloques
  <2> QED BY <2>1, <2>2, <2>4 DEF Abstractos!vars
<1>2. CASE Next
  BY <1>2, PasoOperacion, PasoVuelta DEF Next
<1> QED BY <1>1, <1>2

(* In every state of every program every block is in order, and a loop that
   runs has its destination on the way to what the call must give. *)
THEOREM InvSiempre == Spec => []Inv
<1>1. Init => Inv
  BY Inicio
<1>2. Inv /\ [Next]_vars => Inv'
  BY Paso
<1> QED BY <1>1, <1>2, PTL DEF Spec

(* Both arrays of a block have the cells its capacity says and no entry in
   use holds what malloc left (latino.c dic_nuevo, dic_poner). *)
THEOREM TiposSiempre == Spec => []TypeOK
<1>1. Inv => TypeOK
  <2>1. Inv => destino \in DOMAIN dics \cup {Libre}
    BY DEF Inv, EnBucle
  <2>2. ASSUME NEW a \in DOMAIN dics, EsBloque(dics[a])
        PROVE  LET d == dics[a]
               IN /\ d.longitud \in 0..d.capacidad
                  /\ DOMAIN d.claves = 0..(d.capacidad - 1)
                  /\ DOMAIN d.valores = 0..(d.capacidad - 1)
                  /\ \A i \in Usadas(d) : d.claves[i] \in Textos /\ d.valores[i] \in Datos
    BY <2>2 DEF EsBloque
  <2> QED BY <2>1, <2>2 DEF Inv, Bloques, TypeOK
<1> QED BY <1>1, InvSiempre, PTL

-----------------------------------------------------------------------------
(* The texts listed *)

(* A backslash with a letter to be read after it: then one is read, itself
   or the first of those it follows. *)
LEMMA SinEscapesEs ==
  ASSUME NEW t \in Seq(STRING)
  PROVE  SinEscapes(t) <=> Escapes(t) = {}
<1>1. ASSUME SinEscapes(t), NEW i \in Escapes(t)
      PROVE  FALSE
  <2>1. i \in 1..(Len(t) - 1) /\ t[i + 1] \in DOMAIN Leida
    BY <1>1 DEF Escapes
  <2>2. PICK b \in 1..i : \A j \in b..i : t[j] = "\\"
    BY <1>1 DEF Escapes
  <2>3. t[i] = "\\"
    BY <2>1, <2>2
  <2> QED BY <1>1, <2>1, <2>3 DEF SinEscapes
<1>2. ASSUME NEW i \in 1..(Len(t) - 1), t[i] = "\\", t[i + 1] \in DOMAIN Leida
      PROVE  Escapes(t) # {}
  <2> DEFINE B == {b \in 1..i : \A j \in b..i : t[j] = "\\"}
             R == OpToRel(<, Nat)
  <2>1. i \in B
    BY <1>2
  <2>2. IsWellFoundedOn(R, Nat)
    BY NatLessThanWellFounded
  <2>3. PICK b \in B : \A c \in B : ~(<<c, b>> \in R)
    <3>1. B \subseteq Nat
      OBVIOUS
    <3> HIDE DEF R, B
    <3> QED BY <2>1, <2>2, <3>1, WFMin
  <2>4. b \in 1..i /\ \A j \in b..i : t[j] = "\\"
    OBVIOUS
  <2>5. b = 1 \/ t[b - 1] # "\\"
    <3>1. SUFFICES ASSUME b # 1, t[b - 1] = "\\" PROVE FALSE
      OBVIOUS
    <3>2. b - 1 \in 1..i /\ \A j \in (b - 1)..i : j = b - 1 \/ j \in b..i
      BY <2>4, <3>1
    <3>3. b - 1 \in B
      BY <2>4, <3>1, <3>2
    <3>4. <<b - 1, b>> \in R
      <4>1. b - 1 \in Nat /\ b \in Nat /\ b - 1 < b
        BY <2>4, <3>2
      <4> QED BY <4>1 DEF OpToRel
    <3> HIDE DEF R, B
    <3> QED BY <2>3, <3>3, <3>4
  <2>6. t[b + 1] \in DOMAIN Leida
    <3>1. CASE b = i
      BY <1>2, <3>1
    <3>2. CASE b # i
      <4>1. b + 1 \in b..i
        BY <2>4, <3>2
      <4>2. t[b + 1] = "\\"
        BY <2>4, <4>1
      <4> QED BY <4>2 DEF Leida
    <3> QED BY <3>1, <3>2
  <2>7. b \in Escapes(t)
    <3> HIDE DEF B, R
    <3>1. b \in 1..(Len(t) - 1) /\ b \in 1..b /\ (b - b) % 2 = 0 /\ b..b = {b} /\ t[b] = "\\"
      <4>1. b \in Nat /\ b - b = 0 /\ Len(t) \in Nat
        BY <2>4
      <4>2. 0 % 2 = 0
        OBVIOUS
      <4> QED BY <2>4, <4>1, <4>2
    <3> QED BY <2>5, <2>6, <3>1 DEF Escapes
  <2> QED BY <2>7
<1> QED BY <1>1, <1>2 DEF SinEscapes

(* Without one lat_cadena gives the same text. *)
LEMMA MismoTexto ==
  ASSUME NEW t \in Seq(STRING), Escapes(t) = {}
  PROVE  LatCadena(t) = t
<1> DEFINE quedan == DOMAIN t \ Escapes(t)
           Hasta(i) == {j \in quedan : j <= i}
           Quedado(n) == CHOOSE i \in quedan : Cardinality(Hasta(i)) = n
           Caracter(i) == IF i - 1 \in Escapes(t) THEN Leida[t[i]] ELSE t[i]
<1>1. Len(t) \in Nat /\ DOMAIN t = 1..Len(t) /\ quedan = 1..Len(t)
  OBVIOUS
<1>2. \A i \in quedan : Cardinality(Hasta(i)) = i
  <2> TAKE i \in quedan
  <2>1. Hasta(i) = 1..i /\ i \in Nat /\ i >= 1
    BY <1>1
  <2>2. Cardinality(1..i) = i
    BY <2>1, FS_Interval
  <2> HIDE DEF Hasta, quedan
  <2> QED BY <2>1, <2>2
<1>3. Cardinality(quedan) = Len(t)
  <2>1. Cardinality(1..Len(t)) = Len(t)
    BY <1>1, FS_Interval
  <2> HIDE DEF quedan
  <2> QED BY <1>1, <2>1
<1>4. \A n \in 1..Len(t) : Quedado(n) = n
  BY <1>1, <1>2
<1>5. LatCadena(t) = [n \in 1..Cardinality(quedan) |-> Caracter(Quedado(n))]
  BY DEF LatCadena
<1>6. \A i : Caracter(i) = t[i]
  OBVIOUS
<1> HIDE DEF quedan, Quedado, Caracter
<1>7. LatCadena(t) = [n \in 1..Len(t) |-> t[n]]
  BY <1>3, <1>4, <1>5, <1>6
<1> QED BY <1>1, <1>7

(* With one it gives a shorter text. *)
LEMMA OtroTexto ==
  ASSUME NEW t \in Seq(STRING), Escapes(t) # {}
  PROVE  LatCadena(t) # t
<1> DEFINE quedan == DOMAIN t \ Escapes(t)
<1>1. Len(t) \in Nat /\ DOMAIN t = 1..Len(t)
  OBVIOUS
<1>2. quedan \subseteq 1..Len(t) /\ quedan # 1..Len(t)
  <2>1. Escapes(t) \subseteq 1..Len(t)
    BY <1>1 DEF Escapes
  <2> QED BY <1>1, <2>1
<1>3. DOMAIN LatCadena(t) = 1..Cardinality(quedan)
  BY DEF LatCadena
<1> HIDE DEF quedan
<1>4. IsFiniteSet(1..Len(t)) /\ Cardinality(1..Len(t)) = Len(t)
  BY <1>1, FS_Interval
<1>5. Cardinality(quedan) \in Nat /\ Cardinality(quedan) < Len(t)
  <2> DEFINE S == 1..Len(t)
  <2>1. IsFiniteSet(S) /\ Cardinality(S) = Len(t) /\ quedan \in SUBSET S /\ quedan # S
    BY <1>2, <1>4
  <2> HIDE DEF S
  <2>2. IsFiniteSet(quedan) /\ Cardinality(quedan) <= Cardinality(S) /\ Cardinality(S) # Cardinality(quedan)
    BY <2>1, FS_Subset
  <2>3. Cardinality(quedan) \in Nat
    BY <2>2, FS_CardinalityType
  <2> QED BY <1>1, <2>1, <2>2, <2>3
<1>6. Len(t) \in 1..Len(t) /\ Len(t) \notin 1..Cardinality(quedan)
  BY <1>1, <1>5
<1> QED BY <1>1, <1>3, <1>6

(* What dic.llaves, dic.valores and dic.elementos list is found under the
   key it is listed with, if that key has no escape, in the middle of a loop
   too; and if it has one it is not.  (Code: lat_cadena of the keys in
   lat_dic_llaves and lat_dic_elementos, strcmp in the searches.) *)
THEOREM ListadoSiempre == Spec => []ListadoEncontrable
<1>1. ASSUME Inv, NEW a \in DOMAIN dics, NEW i \in 1..dics[a].longitud
      PROVE  LET d == dics[a]
                 k == DicLlaves(d)[i]
             IN  IF SinEscapes(d.claves[i - 1])
                 THEN DicContiene(d, k) /\ ObtenerMiembro(d, k) = DicValores(d)[i]
                 ELSE i - 1 \notin Lugar(d, k)
  <2> DEFINE d == dics[a]
             t == d.claves[i - 1]
             k == DicLlaves(d)[i]
  <2>1. EsBloque(d)
    BY <1>1 DEF Inv, Bloques
  <2>2. i - 1 \in Usadas(d)
    BY <2>1 DEF Usadas, EsBloque
  <2>3. k = LatCadena(t) /\ DicValores(d)[i] = d.valores[i - 1]
    BY DEF DicLlaves, DicValores
  <2>4. \A x : Lugar(d, x) = {j \in Usadas(d) : d.claves[j] = x}
    BY <2>1, LugarDe
  <2>5. t \in Seq(STRING)
    <3>1. t \in Textos
      BY <2>1, <2>2 DEF EsBloque
    <3> HIDE DEF t
    <3> QED BY <3>1, TextoAssumption DEF Textos
  <2>6. CASE SinEscapes(t)
    <3>1. k = t
      <4> HIDE DEF t, k
      <4> QED BY <2>3, <2>5, <2>6, SinEscapesEs, MismoTexto
    <3>2. Lugar(d, t) = {i - 1}
      BY <2>1, <2>2, <2>4 DEF EsBloque
    <3>3. (CHOOSE j \in Lugar(d, t) : TRUE) = i - 1
      BY <3>2
    <3> HIDE DEF d, k, t
    <3>4. DicContiene(d, t) /\ ObtenerMiembro(d, t) = d.valores[i - 1]
      BY <3>2, <3>3 DEF DicContiene, ObtenerMiembro
    <3>5. DicContiene(d, k) /\ ObtenerMiembro(d, k) = DicValores(d)[i]
      BY <2>3, <3>1, <3>4
    <3> QED BY <2>6, <3>5 DEF d, k, t
  <2>7. CASE ~SinEscapes(t)
    <3>1. k # t
      <4> HIDE DEF t, k
      <4> QED BY <2>3, <2>5, <2>7, SinEscapesEs, OtroTexto
    <3>2. i - 1 \notin Lugar(d, k)
      <4> HIDE DEF d, k
      <4> QED BY <2>4, <3>1
    <3> QED BY <2>7, <3>2
  <2> QED BY <2>6, <2>7
<1>2. Inv => ListadoEncontrable
  BY <1>1 DEF ListadoEncontrable
<1> QED BY <1>2, InvSiempre, PTL

(* The blocks behave as the functions of DiccionariosAbstractos: each call,
   loop and all, is one abstract step, when its source is its destination too. *)
THEOREM BloquesSonFunciones == Spec => Funciones
<1>1. Init => Inv /\ Abstractos!Init
  BY Inicio
<1>2. Inv /\ [Next]_vars => Inv' /\ [Abstractos!Next]_(Abstractos!vars)
  BY Paso
<1> QED BY <1>1, <1>2, PTL DEF Spec, Funciones, Abstractos!Spec
====
