-------------------------- MODULE EnlaceAbstracto --------------------------
(***************************************************************************)
(* What the module resolver promises, with no stack, no memo table and no  *)
(* order of exploration: modules join the program one by one, each after   *)
(* everything it imports, the entry file last; and the compilation is      *)
(* refused only when the project on disk has something wrong.              *)
(***************************************************************************)
EXTENDS Naturals, Sequences

CONSTANTS
  Rutas,           \* canonical paths
  Entrada,         \* the entry file
  Proyectos,       \* source trees
  Pide(_, _),      \* Pide(p, r): the modules file r of project p imports
  Sano(_, _)       \* Sano(p, r): nothing in file r itself stops the resolver

VARIABLES
  proyecto,        \* the source tree
  enlazados,       \* the modules of the program, in emission order
  veredicto        \* "pendiente", "programa" or "nulo"

avars == <<proyecto, enlazados, veredicto>>

Emitidos == {enlazados[k] : k \in 1 .. Len(enlazados)}

AInit ==
  /\ proyecto \in Proyectos
  /\ enlazados = <<>>
  /\ veredicto = "pendiente"

(* A dependency joins the program: everything it imports is already in it.  *)
Emitir(r) ==
  /\ veredicto = "pendiente"
  /\ r # Entrada /\ r \notin Emitidos
  /\ Sano(proyecto, r)
  /\ Pide(proyecto, r) \subseteq Emitidos
  /\ enlazados' = Append(enlazados, r)
  /\ UNCHANGED <<proyecto, veredicto>>

(* The entry joins last and the program is complete.                        *)
Aceptar ==
  /\ veredicto = "pendiente"
  /\ Sano(proyecto, Entrada)
  /\ Pide(proyecto, Entrada) \subseteq Emitidos
  /\ enlazados' = Append(enlazados, Entrada)
  /\ veredicto' = "programa"
  /\ UNCHANGED proyecto

(* Modules that import each other round in a circle.                        *)
HayCiclo(p) ==
  \E C \in SUBSET Rutas : C # {} /\ \A r \in C : Pide(p, r) \cap C # {}

Rechazar ==
  /\ veredicto = "pendiente"
  /\ HayCiclo(proyecto) \/ \E r \in Rutas : ~Sano(proyecto, r)
  /\ veredicto' = "nulo"
  /\ UNCHANGED <<proyecto, enlazados>>

ANext == (\E r \in Rutas : Emitir(r)) \/ Aceptar \/ Rechazar

ASpec == AInit /\ [][ANext]_avars
=============================================================================
