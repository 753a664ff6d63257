------------------------- MODULE MCCascadeConsumer -------------------------
(* Instances of CascadeConsumer for TLC. *)
EXTENDS CascadeConsumer

\* One message of any kind; every other one tells of a removal.
FirstIsAny ==
  LET first == CHOOSE m \in Messages : TRUE
  IN  [m \in Messages |-> IF m = first THEN AllKinds ELSE {"revoked"}]
=============================================================================
