---- MODULE MCListas ----
(*************************************************************************)
(* Two lists whose elements are two numbers, a logical value equal to    *)
(* one of them, nulo and the lists themselves; up to four elements and   *)
(* MaxPasos calls: growth from 1 to 2 and to 4 cells, a block of 4 that  *)
(* was asked for none, lists that contain, extend and copy themselves.   *)
(*************************************************************************)
EXTENDS Listas

CONSTANTS uno, cierto, dos, a, b, MaxPasos

VARIABLE pasos    \* calls made so far

mcNumeros == {uno, cierto, dos}
mcPeso == [x \in mcNumeros |-> IF x = dos THEN 2 ELSE 1]
mcIds == {a, b}
mcIndices == {-1, 0, 2}

MCInit == Init /\ pasos = 0

MCNext == pasos < MaxPasos /\ pasos' = pasos + 1 /\ Next

MCSpec == MCInit /\ [][MCNext]_<<vars, pasos>>
====
