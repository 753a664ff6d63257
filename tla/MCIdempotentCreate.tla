------------------------- MODULE MCIdempotentCreate -------------------------
(* Instances of IdempotentCreate for TLC. *)
EXTENDS IdempotentCreate, TLC

\* Calls and delegation ids are interchangeable.
Symmetry == Permutations(Calls) \cup Permutations(Ids)
=============================================================================
