--------------------------- MODULE MCRepositories ---------------------------
(* Small instances of Repositories, composed with Projects, for TLC. *)
EXTENDS Repositories, TLC

\* Users, requests, validations and credentials are interchangeable: nothing in the
\* specification tells one from another.
Symmetry ==
    Permutations(Users) \cup Permutations(Requests) \cup Permutations(Checks)
        \cup Permutations(Credentials)
=============================================================================
