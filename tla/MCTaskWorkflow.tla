--------------------------- MODULE MCTaskWorkflow ---------------------------
(* Small instances of TaskWorkflow for TLC. *)
EXTENDS TaskWorkflow, TLC

CONSTANTS r1, r2, a1, a2, k1, x1

\* Clients are alike, and so are principals.
ClientSymmetry == {p \in Permutations({r1, r2, a1, a2}) : {p[r1], p[r2]} = {r1, r2}}
=============================================================================
