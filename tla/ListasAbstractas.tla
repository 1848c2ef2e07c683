---- MODULE ListasAbstractas ----
(*************************************************************************)
(* What the list library promises (runtime/libs/lista.h, SINTAXIS.md     *)
(* VIII): a list is a sequence of values shared by reference, the        *)
(* operations that modify change the one they are called on and no       *)
(* other, the rest build a new list, and an index counts from 0 or,      *)
(* negative, from the end.                                               *)
(*************************************************************************)
EXTENDS Valores, SequencesExt

CONSTANTS
  Indices,    \* numbers a program passes as an index or a length
  MaxArgs     \* elements a list literal may have

VARIABLES
  sec,        \* the sequence of every list allocated so far
  estado      \* "corre", or "abortado" once the program has stopped with an error

vars == <<sec, estado>>

Vivos == Escalares \cup DOMAIN sec

Init == sec = [a \in {} |-> <<>>] /\ estado = "corre"

Nueva(id, s) ==
  /\ sec' = [x \in DOMAIN sec \cup {id} |-> IF x = id THEN s ELSE sec[x]]
  /\ UNCHANGED estado

Cambia(a, s) == sec' = [sec EXCEPT ![a] = s] /\ UNCHANGED estado

Elementos(v) == IF v \in DOMAIN sec THEN sec[v] ELSE <<>>

Aborta == estado' = "abortado" /\ UNCHANGED sec

Literal(id) ==
  \E n \in 0..MaxArgs : \E s \in [1..n -> Vivos] : Nueva(id, s)

Crear(id) ==
  \E n \in Indices, v \in Vivos :
    Nueva(id, [k \in 1..(IF n < 0 THEN 0 ELSE n) |-> v])

Concatenar(id) ==
  \E a \in DOMAIN sec, b \in Vivos : Nueva(id, sec[a] \o Elementos(b))

(* The elements from position i to before position j. *)
Rebanada(id) ==
  \E a \in DOMAIN sec, i \in Indices, j \in Indices :
    LET n == Len(sec[a])
        desde == IF Desplazar(i, n) < 0 THEN 0 ELSE Desplazar(i, n)
        hasta == IF Desplazar(j, n) > n THEN n ELSE Desplazar(j, n)
    IN Nueva(id, IF desde < hasta THEN SubSeq(sec[a], desde + 1, hasta) ELSE <<>>)

(* The first of every group of equal elements, in their order. *)
Unico(id) ==
  \E a \in DOMAIN sec :
    \E K \in SinRepetir(sec[a], 1, Len(sec[a])), n \in 0..Len(sec[a]) :
      \E f \in Enumeraciones(K, 1, n) : Nueva(id, [k \in 1..n |-> sec[a][f[k]]])

Agregar(a) == \E v \in Vivos : Cambia(a, Append(sec[a], v))

(* The first element equal to v goes; without one nothing changes. *)
Eliminar(a) ==
  \E v \in Vivos :
    \E i \in DOMAIN sec[a] :
      /\ SonIguales(sec[a][i], v)
      /\ \A j \in 1..(i - 1) : ~SonIguales(sec[a][j], v)
      /\ Cambia(a, RemoveAt(sec[a], i))

EliminarIndice(a) ==
  \E i \in Indices :
    LET k == Desplazar(i, Len(sec[a])) + 1
    IN k \in DOMAIN sec[a] /\ Cambia(a, RemoveAt(sec[a], k))

Extender(a) == \E b \in DOMAIN sec : Cambia(a, sec[a] \o sec[b])

Insertar(a) ==
  \E v \in Vivos, i \in Indices :
    LET n == Len(sec[a])
    IN Cambia(a, InsertAt(sec[a], Recortar(Desplazar(i, n), 0, n) + 1, v))

Invertir(a) == Cambia(a, Reverse(sec[a]))

Ordenar(a) ==
  \E p \in Ordenaciones(sec[a], 1, Len(sec[a])) :
    Cambia(a, [k \in 1..Len(sec[a]) |-> sec[a][p[k]]])

(* l[i] = v: one past the last element appends, further away aborts. *)
AsignarIndice(a) ==
  \E v \in Vivos, i \in Indices :
    LET k == Desplazar(i, Len(sec[a]))
    IN \/ k = Len(sec[a]) /\ Cambia(a, Append(sec[a], v))
       \/ k \in 0..(Len(sec[a]) - 1) /\ Cambia(a, [sec[a] EXCEPT ![k + 1] = v])

(* An index out of the list, or one that is no number, stops the program. *)
IndiceInvalido(a) == Aborta

Next ==
  /\ estado = "corre"
  /\ \/ \E id \in Ids \ DOMAIN sec : Literal(id) \/ Crear(id) \/ Concatenar(id) \/ Rebanada(id)
                        \/ Unico(id)
     \/ \E a \in DOMAIN sec : Agregar(a) \/ Eliminar(a) \/ EliminarIndice(a)
                        \/ Extender(a) \/ Insertar(a) \/ Invertir(a) \/ Ordenar(a)
                        \/ AsignarIndice(a) \/ IndiceInvalido(a)

Spec == Init /\ [][Next]_vars
====
