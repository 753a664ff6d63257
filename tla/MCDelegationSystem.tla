------------------------- MODULE MCDelegationSystem -------------------------
(* Instances of DelegationSystem for TLC. *)
EXTENDS DelegationSystem, TLC

\* Delegation ids, users and processes are interchangeable.
Symmetry == Permutations(Ids) \cup Permutations(Users) \cup Permutations(Requests)
              \cup Permutations(Crons) \cup Permutations(Consumers)
=============================================================================
