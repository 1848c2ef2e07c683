---- MODULE Listas ----
(*************************************************************************)
(* The lists of the runtime: the blocks of runtime/latino.c (LatLista,   *)
(* lista_nueva, lista_agregar, lat_asignar_indice) and the library of    *)
(* runtime/libs/lista.c.  A block has a length, a capacity and an array  *)
(* of cells; malloc and realloc leave the new cells with garbage, and    *)
(* what a removal leaves beyond the length stays there.  Values are      *)
(* shared by reference: any live list can be an element or an argument   *)
(* anywhere, the receiver included.                                      *)
(*************************************************************************)
EXTENDS Valores, Sequences

CONSTANTS
  Basura,       \* what malloc leaves in a cell
  Indices,      \* numbers a program passes as an index or a length
  MaxArgs,      \* bound: elements of a list literal
  MaxLongitud   \* bound: elements of a list

ASSUME BasuraAssumption == Basura \notin Valores
ASSUME IdsAssumption == Ids \cap Escalares = {}
ASSUME IndicesAssumption == Indices \subseteq Int
ASSUME CotasAssumption == MaxArgs \in Nat /\ MaxLongitud \in Nat
ASSUME PesoAssumption ==
  /\ Numeros \cap Cadenas = {}
  /\ \A v \in Cadenas \cup (Numeros \ NaNs) : Peso[v] \in Int
  /\ \A s, t \in Cadenas : Peso[s] = Peso[t] => s = t

VARIABLES
  listas,       \* the block at every address allocated so far
  estado        \* "corre", or "abortado" after abortar()

vars == <<listas, estado>>

Celda == Valores \cup {Basura}

Vivos == Escalares \cup DOMAIN listas

-----------------------------------------------------------------------------
(* Memory *)

EnBlanco(n) == [k \in 0..(n - 1) |-> Basura]

(* memmove or memcpy of n cells, from `origen` on in the array o, to
   `destino` on in the array d. *)
Copiar(d, destino, o, origen, n) ==
  [k \in DOMAIN d |->
     IF destino <= k /\ k < destino + n THEN o[k - destino + origen] ELSE d[k]]

(* A new block asks for what it needs, and for 4 cells when that is none. *)
Reserva(n) == IF n = 0 THEN 4 ELSE n

ConDatos(n, datos) == [longitud |-> n, capacidad |-> Reserva(n), datos |-> datos]

(* realloc to n cells keeps the old ones. *)
Realojar(l, n) ==
  [longitud |-> l.longitud, capacidad |-> n,
   datos |-> Copiar(EnBlanco(n), 0, l.datos, 0, l.capacidad)]

(* The same array with other cells and n of them in use. *)
EnElSitio(l, n, datos) == [longitud |-> n, capacidad |-> l.capacidad, datos |-> datos]

(* lista_crecer: the capacity doubles until `extra` more cells fit. *)
Crecidas(l, extra) ==
  LET falta == l.longitud + extra
  IN IF falta <= l.capacidad THEN {l}
     ELSE { Realojar(l, n) : n \in
              { n \in falta..(2 * falta) :
                  \E k \in 1..falta : /\ n = l.capacidad * 2^k
                                      /\ k > 1 => l.capacidad * 2^(k - 1) < falta } }

Init == listas = [a \in {} |-> {}] /\ estado = "corre"

Nueva(id, l) ==
  /\ listas' = [x \in DOMAIN listas \cup {id} |-> IF x = id THEN l ELSE listas[x]]
  /\ UNCHANGED estado

Cambia(a, l) == listas' = [listas EXCEPT ![a] = l] /\ UNCHANGED estado

Cabe(n) == n <= MaxLongitud

-----------------------------------------------------------------------------
(* Operations that build a list *)

(* lat_lista_de_args: the elements of a literal, appended one by one. *)
Literal(id) ==
  \E n \in 0..MaxArgs : \E args \in [1..n -> Vivos] :
    /\ Cabe(n)
    /\ Nueva(id, ConDatos(n, [k \in 0..(Reserva(n) - 1) |->
                                IF k < n THEN args[k + 1] ELSE Basura]))

Crear(id) ==
  \E i \in Indices, v \in Vivos :
    LET n == IF i < 0 THEN 0 ELSE i
    IN /\ Cabe(n)
       /\ Nueva(id, ConDatos(n, [k \in 0..(Reserva(n) - 1) |->
                                   IF k < n THEN v ELSE Basura]))

Longitud(v) == IF v \in DOMAIN listas THEN listas[v].longitud ELSE 0

(* mutant: the second list is copied over the first one. *)
ConDatosEncima(a, b) ==
  LET n1 == Longitud(a)
      n2 == Longitud(b)
      primera == Copiar(EnBlanco(Reserva(n1 + n2)), 0, listas[a].datos, 0, n1)
  IN ConDatos(n1 + n2,
       IF b \in DOMAIN listas THEN Copiar(primera, 0, listas[b].datos, 0, n2)
       ELSE primera)

(* An argument that is no list counts as an empty one. *)
ConDatosDe(a, b) ==
  LET n1 == Longitud(a)
      n2 == Longitud(b)
      primera == Copiar(EnBlanco(Reserva(n1 + n2)), 0, listas[a].datos, 0, n1)
  IN ConDatos(n1 + n2,
       IF b \in DOMAIN listas THEN Copiar(primera, n1, listas[b].datos, 0, n2)
       ELSE primera)

Concatenar(id) ==
  \E a \in DOMAIN listas, b \in Vivos :
    /\ Cabe(Longitud(a) + Longitud(b))
    /\ Nueva(id, ConDatosDe(a, b))

Rebanada(id) ==
  \E a \in DOMAIN listas, i \in Indices, j \in Indices :
    LET n == listas[a].longitud
        ini == IF Desplazar(i, n) < 0 THEN 0 ELSE Desplazar(i, n)
        fin == IF Desplazar(j, n) > n THEN n ELSE Desplazar(j, n)
        tam == IF fin > ini THEN fin - ini ELSE 0
    IN Nueva(id, ConDatos(tam, Copiar(EnBlanco(Reserva(tam)), 0,
                                      listas[a].datos, ini, tam)))

(* lista.unico reserves as many cells as the list it reads. *)
Unico(id) ==
  \E a \in DOMAIN listas :
    LET l == listas[a]
    IN \E K \in SinRepetir(l.datos, 0, l.longitud - 1), n \in 0..l.longitud :
         \E f \in Enumeraciones(K, 0, n) :
           Nueva(id, [longitud |-> n, capacidad |-> Reserva(l.longitud),
                      datos |-> [k \in 0..(Reserva(l.longitud) - 1) |->
                                   IF k < n THEN l.datos[f[k]] ELSE Basura]])

-----------------------------------------------------------------------------
(* Operations that modify a list *)

(* datos[longitud++] = v in a block with room for it. *)
AlFinal(g, v) ==
  EnElSitio(g, g.longitud + 1, [g.datos EXCEPT ![g.longitud] = v])

Agregar(a) ==
  \E v \in Vivos : \E g \in Crecidas(listas[a], 1) :
    Cabe(listas[a].longitud + 1) /\ Cambia(a, AlFinal(g, v))

(* mutant: one cell too few moves. *)
QuitarCorto(l, i) ==
  EnElSitio(l, l.longitud - 1,
            Copiar(l.datos, i, l.datos, i + 1, l.longitud - i - 2))

Quitar(l, i) ==
  EnElSitio(l, l.longitud - 1,
            Copiar(l.datos, i, l.datos, i + 1, l.longitud - i - 1))

(* The positions below n of the first element equal to v: one or none. *)
Primeras(l, v) ==
  { i \in 0..(l.longitud - 1) :
      /\ SonIguales(l.datos[i], v)
      /\ \A j \in 0..(i - 1) : ~SonIguales(l.datos[j], v) }

Eliminar(a) ==
  \E v \in Vivos : \E i \in Primeras(listas[a], v) : Cambia(a, Quitar(listas[a], i))

EliminarIndice(a) ==
  \E i \in Indices :
    LET l == listas[a]
        k == Desplazar(i, l.longitud)
    IN k \in 0..(l.longitud - 1) /\ Cambia(a, Quitar(l, k))

(* The elements of l2 after those of g. *)
Seguido(g, l2) ==
  EnElSitio(g, g.longitud + l2.longitud,
            Copiar(g.datos, g.longitud, l2.datos, 0, l2.longitud))

(* mutant: room for one element, whatever the length of the source. *)
ExtenderPorUno(a) ==
  \E b \in DOMAIN listas : \E g \in Crecidas(listas[a], 1) :
    LET l2 == IF a = b THEN g ELSE listas[b]
    IN Cabe(g.longitud + l2.longitud) /\ Cambia(a, Seguido(g, l2))

(* The source is read after lista_crecer: when a list extends itself it is
   the block already grown. *)
Extender(a) ==
  \E b \in DOMAIN listas : \E g \in Crecidas(listas[a], listas[b].longitud) :
    LET l2 == IF a = b THEN g ELSE listas[b]
    IN Cabe(g.longitud + l2.longitud) /\ Cambia(a, Seguido(g, l2))

(* The cells from k on move one place up and v takes the place. *)
ConHueco(g, k, v) ==
  EnElSitio(g, g.longitud + 1,
            [Copiar(g.datos, k + 1, g.datos, k, g.longitud - k) EXCEPT ![k] = v])

Insertar(a) ==
  \E v \in Vivos, i \in Indices : \E g \in Crecidas(listas[a], 1) :
    LET n == g.longitud
    IN Cabe(n + 1) /\ Cambia(a, ConHueco(g, Recortar(Desplazar(i, n), 0, n), v))

(* The elements of l with the one of position p[k] in position k. *)
Permutado(l, p) ==
  EnElSitio(l, l.longitud, [k \in DOMAIN l.datos |->
                              l.datos[IF k < l.longitud THEN p[k] ELSE k]])

Invertir(a) ==
  LET n == listas[a].longitud
  IN Cambia(a, Permutado(listas[a], [k \in 0..(n - 1) |-> n - 1 - k]))

Ordenar(a) ==
  LET l == listas[a]
  IN \E p \in Ordenaciones(l.datos, 0, l.longitud - 1) :
       Cambia(a, Permutado(l, p))

AsignarIndice(a) ==
  \E v \in Vivos, i \in Indices :
    LET l == listas[a]
        k == Desplazar(i, l.longitud)
    IN \/ /\ k = l.longitud
          /\ Cabe(k + 1)
          /\ \E g \in Crecidas(l, 1) : Cambia(a, AlFinal(g, v))
       \/ /\ k \in 0..(l.longitud - 1)
          /\ Cambia(a, EnElSitio(l, l.longitud, [l.datos EXCEPT ![k] = v]))

(* abortar(): l[i] read out of the list, l[i] = v further than one past its
   end, or an index that is no number. *)
IndiceInvalido(a) == estado' = "abortado" /\ UNCHANGED listas

Next ==
  /\ estado = "corre"
  /\ \/ \E id \in Ids \ DOMAIN listas : Literal(id) \/ Crear(id) \/ Concatenar(id) \/ Rebanada(id)
                        \/ Unico(id)
     \/ \E a \in DOMAIN listas : Agregar(a) \/ Eliminar(a) \/ EliminarIndice(a)
                        \/ Extender(a) \/ Insertar(a) \/ Invertir(a) \/ Ordenar(a)
                        \/ AsignarIndice(a) \/ IndiceInvalido(a)

Spec == Init /\ [][Next]_vars

-----------------------------------------------------------------------------
(* Queries: they read the blocks and change nothing. *)

Usadas(a) == 0..(listas[a].longitud - 1)

(* mutant: the lengths do not break a tie. *)
CompararPrefijo(a, b) ==
  LET x == listas[a].datos
      y == listas[b].datos
      distintas == {k \in Usadas(a) \cap Usadas(b) : ~SonIguales(x[k], y[k])}
      primera == {k \in distintas : \A j \in distintas : k <= j}
  IN IF \E k \in primera : Menor(x[k], y[k]) THEN -1
     ELSE IF primera # {} THEN 1 ELSE 0

(* The first position where two lists differ decides; else the shorter one. *)
Comparar(a, b) ==
  LET x == listas[a].datos
      y == listas[b].datos
      distintas == {k \in Usadas(a) \cap Usadas(b) : ~SonIguales(x[k], y[k])}
      primera == {k \in distintas : \A j \in distintas : k <= j}
  IN IF \E k \in primera : Menor(x[k], y[k]) THEN -1
     ELSE IF primera # {} THEN 1
     ELSE IF listas[a].longitud < listas[b].longitud THEN -1
     ELSE IF listas[a].longitud > listas[b].longitud THEN 1 ELSE 0

-----------------------------------------------------------------------------
(* Properties *)

(* Every block has the cells its capacity says, and its length fits in them:
   no operation writes beyond the array it allocated. *)
TypeOK ==
  /\ estado \in {"corre", "abortado"}
  /\ DOMAIN listas \subseteq Ids
  /\ \A a \in DOMAIN listas :
       LET l == listas[a]
       IN /\ l.longitud \in 0..l.capacidad
          /\ l.capacidad > 0
          /\ l.datos \in [0..(l.capacidad - 1) -> Celda]

(* A program never reads a cell nobody wrote, nor a list that does not exist:
   every cell below the length holds a live value, whatever was copied, moved
   or reallocated before. *)
SinBasura ==
  \A a \in DOMAIN listas : \A k \in Usadas(a) : listas[a].datos[k] \in Vivos

(* The elements of a block as a sequence. *)
Contenido(l) == [k \in 1..l.longitud |-> l.datos[k - 1]]

Sec == [a \in DOMAIN listas |-> Contenido(listas[a])]

(* Whatever the aliases, the blocks behave as the sequences lista.h promises. *)
Abstracta == INSTANCE ListasAbstractas WITH sec <- Sec

Secuencias == Abstracta!Spec

(* lista.unico keeps the first of every group of equal elements, although it
   only compares with the ones kept, and 1 equals cierto. *)
UnicoPrimeras ==
  \A a \in DOMAIN listas :
    LET d == listas[a].datos
    IN SinRepetir(d, 0, listas[a].longitud - 1) =
         {{i \in Usadas(a) : ~\E j \in 0..(i - 1) : SonIguales(d[i], d[j])}}

(* On lists of numbers, or of texts, lista.comparar is antisymmetric and gives
   0 only for lists equal element by element. *)
CompararEsOrden ==
  \A a, b \in DOMAIN listas :
    LET valores == {listas[a].datos[k] : k \in Usadas(a)}
                     \cup {listas[b].datos[k] : k \in Usadas(b)}
    IN valores \subseteq Numeros \ NaNs \/ valores \subseteq Cadenas =>
         /\ Comparar(a, b) = -Comparar(b, a)
         /\ Comparar(a, b) = 0 =>
              /\ Usadas(a) = Usadas(b)
              /\ \A k \in Usadas(a) : SonIguales(listas[a].datos[k], listas[b].datos[k])

(* What the library answers of lists by comparing their elements, which it does
   with == (lista.unico) or with its own order (lista.comparar). *)
BusquedasFieles == UnicoPrimeras /\ CompararEsOrden
====
