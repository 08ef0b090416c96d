--------------------------- MODULE MCRunRegistry ---------------------------
(* RunRegistry on small instances. Runs, like sessions, are interchangeable. *)
EXTENDS RunRegistry, TLC

Symmetry == Permutations(Runs) \union Permutations(Sessions)
=============================================================================
