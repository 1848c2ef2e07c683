------------------------------ MODULE Visitas ------------------------------
(***************************************************************************)
(* A program as the sequence of visits a walk over its tree makes, in its  *)
(* order: a block opens, its body follows, "fin" ends it.  What is inside  *)
(* what is told from the sequence alone.                                   *)
(***************************************************************************)
EXTENDS Integers, Sequences, SequencesExt, FiniteSets, FiniteSetsExt

Bucles == {"para", "bucle"}
Funcionales == {"funcion", "anonima", "metodo"}
Aperturas == Bucles \cup Funcionales \cup {"inseguro"}

(* How many blocks are open once the first k visits are over.               *)
Nivel(p, k) ==
  Cardinality({j \in 1 .. k : p[j].op \in Aperturas}) - Cardinality({j \in 1 .. k : p[j].op = "fin"})

BienAnidado(p) == Nivel(p, Len(p)) = 0 /\ \A k \in DOMAIN p : Nivel(p, k) >= 0

(* The blocks visit i lies in, each named by the visit that opens it: what  *)
(* lies between is at least as deep.  The innermost of them.                *)
Abiertos(p, i) ==
  {j \in 1 .. i - 1 : p[j].op \in Aperturas /\ \A k \in j .. i - 1 : Nivel(p, k) >= Nivel(p, j)}
Interior(p, i) == Max(Abiertos(p, i))

(* The functions visit i lies in, the program itself being 0.               *)
Marcos(p, i) == {0} \cup {j \in Abiertos(p, i) : p[j].op \in Funcionales}
Dueno(p, i) == Max(Marcos(p, i))
=============================================================================
