----------------------------- MODULE MCPublicApi -----------------------------
(* Instances of PublicApi for TLC. *)
EXTENDS PublicApi, TLC

\* Tenants, delegation ids and handlers are interchangeable.
Symmetry == Permutations(Tenants) \cup Permutations(Ids) \cup Permutations(Requests)
=============================================================================
