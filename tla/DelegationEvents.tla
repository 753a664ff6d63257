-------------------------- MODULE DelegationEvents --------------------------
(***************************************************************************)
(* The events iam-delegation publishes on iam.delegation.events, reduced   *)
(* to what consumers dispatch on: the type, ended_reason, days_remaining.  *)
(***************************************************************************)
EXTENDS Integers, Sequences

EndReasons == {"expired", "cancelled", "reassigned", "delegate_removed",
               "review_expired", "delegate_disabled"}

Event == [type : {"DelegationStarted", "DelegationEnded",
                  "DelegationReviewRequested", "DelegationEscalationRequested"},
          reason : EndReasons \cup {"none"}, days : 0..3]

Started == [type |-> "DelegationStarted", reason |-> "none", days |-> 0]

Ended(reason) == [type |-> "DelegationEnded", reason |-> reason, days |-> 0]

ReviewRequested(n) ==
  [type |-> "DelegationReviewRequested", reason |-> "none", days |-> n]

Escalation ==
  [type |-> "DelegationEscalationRequested", reason |-> "delegate_disabled",
   days |-> 0]
=============================================================================
