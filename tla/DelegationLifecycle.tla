------------------------ MODULE DelegationLifecycle ------------------------
(***************************************************************************)
(* What iam-delegation promises about its delegations, whoever acts on     *)
(* them: each one is scheduled or started at once, starts at most once,    *)
(* ends at most once, and every change a consumer must know of is told by  *)
(* exactly one event, in the order it happened (DLG-EVT-1, -3, -4, -8).    *)
(* A cascade changes several delegations in one step, so a step moves any  *)
(* number of them.                                                         *)
(***************************************************************************)
EXTENDS DelegationEvents

CONSTANT Ids

VARIABLES phase, told

lifecycle == <<phase, told>>

Phases == {"none", "scheduled", "active", "over", "erased"}

Init ==
  /\ phase = [id \in Ids |-> "none"]
  /\ told = [id \in Ids |-> <<>>]

Becomes(id, from, to) == phase[id] \in from /\ phase'[id] = to

Says(id, events) == told'[id] = told[id] \o events

Stay(id) == phase'[id] = phase[id] /\ told'[id] = told[id]

Schedule(id) == Becomes(id, {"none"}, "scheduled") /\ told'[id] = told[id]

Start(id) == Becomes(id, {"none", "scheduled"}, "active") /\ Says(id, <<Started>>)

Remind(id) ==
  /\ Becomes(id, {"active"}, "active")
  /\ \E n \in 1..3 : Says(id, <<ReviewRequested(n)>>)

\* Ends that need a delegation in force ...
Lapse(id) ==
  /\ Becomes(id, {"active"}, "over")
  /\ \E reason \in {"expired", "review_expired"} : Says(id, <<Ended(reason)>>)

\* ... and ends that also hit one that has not started yet.
Withdraw(id) ==
  /\ Becomes(id, {"scheduled", "active"}, "over")
  /\ \E reason \in {"cancelled", "reassigned", "delegate_removed"} :
       Says(id, <<Ended(reason)>>)

\* An escalation goes with a disabled delegate, and with nothing else.
Escalate(id) ==
  /\ Becomes(id, {"scheduled", "active"}, "over")
  /\ Says(id, <<Ended("delegate_disabled"), Escalation>>)

\* The delegator left the tenant: nobody is told.
EndSilently(id) == Becomes(id, {"scheduled", "active"}, "over") /\ told'[id] = told[id]

\* The tenant was purged.
Erase(id) == Becomes(id, {"scheduled", "active"}, "erased") /\ told'[id] = told[id]

Next ==
  /\ DOMAIN phase' = Ids /\ DOMAIN told' = Ids
  /\ \A id \in Ids :
       \/ Stay(id) \/ Schedule(id) \/ Start(id) \/ Remind(id) \/ Lapse(id)
       \/ Withdraw(id) \/ Escalate(id) \/ EndSilently(id) \/ Erase(id)

Spec == Init /\ [][Next]_lifecycle
=============================================================================
