-------------------------- MODULE DelegationService --------------------------
(***************************************************************************)
(* DelegationService: Create (DLG-2), Cancel (DLG-3), Extend (DLG-4) and   *)
(* Reassign (DLG-5).  Every call to another service and every transaction  *)
(* of a handler is a step of its own; a request that is refused before its *)
(* first effect leaves no trace and is not a step.                         *)
(***************************************************************************)
EXTENDS DelegationStore

(***************************************************************************)
(* Create.  The clock is read once; what the INSERT will write is fixed    *)
(* then.  An open-ended delegation (ends = Null) is review-tracked.        *)
(***************************************************************************)
CreateArgument(delegator, delegate, starts, ends) ==
  NewRow(IF starts > now THEN "scheduled" ELSE "active",
         delegator, delegate, starts, ends,
         IF ends = Null THEN starts + ReviewWindow ELSE Null)

\* Bound: a create is only begun while an id is left for its INSERT.
FreshIdLeft ==
  Cardinality({p \in Procs : proc[p].op \in {"create", "reassign"}})
    < Cardinality({id \in Ids : ~Stored(id)})

CreateStart(p) ==
  /\ IsIdle(p) /\ "create" \in Ops /\ FreshIdLeft
  /\ \E delegator, delegate \in Users, lead \in Leads, span \in Spans \cup {Null} :
       /\ delegator # delegate
       /\ LET starts == now + lead
              ends == IF span = Null THEN Null ELSE starts + span
          IN  proc' = [proc EXCEPT ![p].op = "create", ![p].pc = "check",
                         ![p].want = CreateArgument(delegator, delegate, starts, ends)]
  /\ UNCHANGED <<rows, log, up, now>>

\* The delegate is out of office for the delegation that is being created.
DelegateUnavailable(want) ==
  /\ up[want.delegate].until # Null
  /\ want.status = "scheduled" => up[want.delegate].until > want.starts

\* Membership checks and the delegate's availability, then User Profile
\* first, unless the start is in the future.
CreateCheck(p) ==
  /\ proc[p].pc = "check"
  /\ ~DelegateUnavailable(proc[p].want)
  /\ Goto(p, IF proc[p].want.status = "scheduled" THEN "insert" ELSE "set")
  /\ UNCHANGED <<rows, log, up, now>>

CreateRefused(p) ==
  /\ proc[p].pc = "check"
  /\ DelegateUnavailable(proc[p].want) \/ "check_fail" \in Faults
  /\ Finish(p)
  /\ UNCHANGED <<rows, log, up, now>>

CreateSetAvailability(p) ==
  /\ proc[p].pc = "set"
  /\ \E outcome \in UpOutcomes :
       /\ SetAvailability(proc[p].want.delegator, proc[p].want.delegate,
                          OooUntil(proc[p].want), outcome)
       /\ IF outcome = "ok" THEN Goto(p, "insert") ELSE Finish(p)
  /\ UNCHANGED <<rows, log, now>>

\* RunInTx{Insert; DelegationStarted unless scheduled}.
CreateInsert(p) ==
  /\ proc[p].pc = "insert"
  /\ LET want == proc[p].want
         scheduled == want.status = "scheduled"
     IN  \E id \in {i \in Ids : ~Stored(i)}, outcome \in TxOutcomes :
           /\ Write(id, want, IF scheduled THEN <<>> ELSE <<Started>>, outcome)
           /\ IF outcome = "ok" \/ scheduled THEN Finish(p) ELSE Goto(p, "compensate")
  /\ UNCHANGED <<up, now>>

\* The transaction failed after User Profile was told: best-effort clear.
CreateCompensate(p) ==
  /\ proc[p].pc = "compensate"
  /\ \E outcome \in UpOutcomes : ClearDelegatePointer(proc[p].want.delegator, outcome)
  /\ Finish(p)
  /\ UNCHANGED <<rows, log, now>>

(***************************************************************************)
(* cancelInternal, shared by Cancel and Reassign.  The caller's version is *)
(* the row's current one or, if stale versions are among the Faults, an    *)
(* outdated one (0, also what a missing query parameter becomes).  A row   *)
(* of any status is found unless soft-deleted.                             *)
(***************************************************************************)
ClientVersions(id) == {rows[id].ver} \cup {0 : f \in Faults \cap {"stale"}}

CancelStart(p) ==
  /\ IsIdle(p) /\ "cancel" \in Ops
  /\ \E id \in {i \in Ids : Findable(i)} : \E v \in ClientVersions(id) :
       proc' = [proc EXCEPT ![p].op = "cancel", ![p].pc = "clear",
                            ![p].id = id, ![p].ver = v]
  /\ UNCHANGED <<rows, log, up, now>>

\* Reassign's own read; cancelInternal reads the row again, and a row that is soft-deleted
\* in between is answered 404 with nothing done, as if it had never been found.
ReassignStart(p) ==
  /\ IsIdle(p) /\ "reassign" \in Ops /\ FreshIdLeft
  /\ \E id \in {i \in Ids : Findable(i) /\ rows[i].status = "active"} :
       \E v \in ClientVersions(id) :
         proc' = [proc EXCEPT ![p].op = "reassign", ![p].pc = "clear",
                              ![p].id = id, ![p].ver = v]
  /\ UNCHANGED <<rows, log, up, now>>

\* Fail-open, and before the version is checked.
CancelClearPointer(p) ==
  /\ proc[p].pc = "clear" /\ proc[p].op \in {"cancel", "reassign"}
  /\ \E outcome \in UpOutcomes :
       ClearDelegatePointer(rows[proc[p].id].delegator, outcome)
  /\ Goto(p, "end")
  /\ UNCHANGED <<rows, log, now>>

\* RunInTx{End(cancelled); DelegationEnded{cancelled | reassigned}}.
CancelEnd(p) ==
  LET id == proc[p].id
      reason == IF proc[p].op = "reassign" THEN "reassigned" ELSE "cancelled"
  IN  /\ proc[p].pc = "end" /\ proc[p].op \in {"cancel", "reassign"} /\ ~Locked(id)
      /\ \/ /\ EndMatches(id, proc[p].ver)
            /\ \E outcome \in TxOutcomes :
                 /\ Write(id, EndRow(rows[id], "cancelled"), <<Ended(reason)>>, outcome)
                 /\ IF outcome = "ok" /\ proc[p].op = "reassign"
                    THEN Goto(p, "again") ELSE Finish(p)
         \/ /\ ~EndMatches(id, proc[p].ver)      \* 404 or 409
            /\ Finish(p) /\ UNCHANGED <<rows, log>>
      /\ UNCHANGED <<up, now>>

\* Reassign's second leg: Create with the old row's values as defaults, starting
\* now.  The old delegation stays cancelled if this create is refused.
ReassignCreate(p) ==
  LET old == rows[proc[p].id]
  IN  /\ proc[p].pc = "again"
      /\ \E delegate \in Users \ {old.delegator}, ends \in {old.ends, Null} :
           IF ends = Null \/ ends > now
           THEN proc' = [proc EXCEPT ![p].pc = "check",
                           ![p].want = CreateArgument(old.delegator, delegate, now, ends)]
           ELSE Finish(p)
      /\ UNCHANGED <<rows, log, up, now>>

(***************************************************************************)
(* Extend: active, open-ended delegations only.  ExtendReview is its own   *)
(* transaction and emits nothing; User Profile's window is re-synced after *)
(* it, fail-open, with the row the UPDATE returned (kept in want).         *)
(***************************************************************************)
ExtendWindows == ExtendDays \cup {ReviewWindow}

ExtendStart(p) ==
  /\ IsIdle(p) /\ "extend" \in Ops
  /\ \E id \in {i \in Ids : Findable(i) /\ rows[i].status = "active"} :
       /\ rows[id].ends = Null
       /\ \A days \in ExtendWindows : rows[id].due + days <= MaxDue
       /\ \E v \in ClientVersions(id) :
            proc' = [proc EXCEPT ![p].op = "extend", ![p].pc = "extend",
                                 ![p].id = id, ![p].ver = v]
  /\ UNCHANGED <<rows, log, up, now>>

ExtendReview(p) ==
  LET id == proc[p].id
  IN  /\ proc[p].pc = "extend" /\ ~Locked(id)
      /\ \/ /\ ExtendMatches(id, proc[p].ver)
            /\ \E days \in ExtendWindows, outcome \in TxOutcomes :
                 LET extended == ExtendRow(rows[id], days)
                 IN  /\ Write(id, extended, <<>>, outcome)
                     /\ IF outcome = "ok"
                        THEN proc' = [proc EXCEPT ![p].pc = "resync", ![p].want = extended]
                        ELSE Finish(p)
         \/ /\ ~ExtendMatches(id, proc[p].ver)
            /\ Finish(p) /\ UNCHANGED <<rows, log>>
      /\ UNCHANGED <<up, now>>

\* Mutant: User Profile keeps the old window.
ExtendResyncSkipped(p) ==
  proc[p].pc = "resync" /\ Finish(p) /\ UNCHANGED <<rows, log, up, now>>

ExtendResync(p) ==
  /\ proc[p].pc = "resync"
  /\ \E outcome \in UpOutcomes :
       SetAvailability(proc[p].want.delegator, proc[p].want.delegate,
                       proc[p].want.due, outcome)
  /\ Finish(p)
  /\ UNCHANGED <<rows, log, now>>

ServiceStep(p) ==
  \/ CreateStart(p) \/ CreateCheck(p) \/ CreateRefused(p)
  \/ CreateSetAvailability(p) \/ CreateInsert(p) \/ CreateCompensate(p)
  \/ CancelStart(p) \/ CancelClearPointer(p) \/ CancelEnd(p)
  \/ ReassignStart(p) \/ ReassignCreate(p)
  \/ ExtendStart(p) \/ ExtendReview(p) \/ ExtendResync(p)
=============================================================================
