--------------------------- MODULE MCTaskRelations ---------------------------
(* A small instance of TaskRelations for TLC. *)
EXTENDS TaskRelations, TLC

\* Tasks and requests are interchangeable: nothing orders them.
Symmetry == Permutations(Tasks) \cup Permutations(Requests)
==============================================================================
