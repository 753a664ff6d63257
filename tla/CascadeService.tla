--------------------------- MODULE CascadeService ---------------------------
(***************************************************************************)
(* CascadeService, as the consumer of delegation-cascade-q runs it: one    *)
(* transaction holds the cascade and the processed_events mark.  Events    *)
(* arrive at any time and may be repeated (at-least-once delivery), so any *)
(* cascade may begin in any state; CascadeConsumer models the dedup.       *)
(***************************************************************************)
EXTENDS DelegationStore

\* A bulk UPDATE waits for rows that another open transaction has updated.
Blocked(ids) == \E id \in ids : Locked(id)

RowsOf(u) == {id \in Ids : EndForUserMatches(id, u)}

\* Mutant: the pointers of the wrong side.
PointersOfRemoved(u) == {id \in RowsOf(u) : rows[id].delegator = u}

\* The rows whose delegator is still there and points at the removed user.
PointersTo(u) == {id \in RowsOf(u) : rows[id].delegator # u}

(***************************************************************************)
(* MembershipRevoked: the bulk UPDATE takes its row locks, the delegators' *)
(* pointers are cleared while the transaction is open, then it commits.    *)
(* The removed user's own pointer is left alone.                           *)
(***************************************************************************)
EndForUserUpdate(p) ==
  /\ IsIdle(p) /\ "revoked" \in Ops
  /\ \E u \in Users :
       /\ RowsOf(u) # {} /\ ~Blocked(RowsOf(u))
       /\ proc' = [proc EXCEPT ![p].op = "revoked", ![p].pc = "cascade", ![p].user = u,
                     ![p].locks = RowsOf(u),
                     ![p].todo = Batch(PointersTo(u), [i \in Ids |-> 0])]
  /\ UNCHANGED <<rows, log, up, now>>

EndForUserClear(p) ==
  /\ proc[p].pc = "cascade"
  /\ \E x \in proc[p].todo, outcome \in UpOutcomes :
       /\ ClearDelegatePointer(rows[x.id].delegator, outcome)
       /\ proc' = [proc EXCEPT ![p].todo = @ \ {x}]
  /\ UNCHANGED <<rows, log, now>>

\* DelegationEnded only where the removed user is the delegate (DEL-7).
EndForUserCommit(p) ==
  /\ proc[p].pc = "cascade" /\ proc[p].todo = {}
  /\ \E outcome \in TxOutcomes :
       IF outcome = "tx_fail" THEN UNCHANGED <<rows, log>>
       ELSE /\ rows' = [id \in Ids |-> IF id \in proc[p].locks
                                       THEN EndForUserRow(rows[id]) ELSE rows[id]]
            /\ log' = [id \in Ids |->
                         IF id \in proc[p].locks /\ rows[id].delegate = proc[p].user
                         THEN log[id] \o <<Ended("delegate_removed")>> ELSE log[id]]
  /\ Finish(p)
  /\ UNCHANGED <<up, now>>

(***************************************************************************)
(* UserUpdated{disabled}: ends the rows with that delegate, no User        *)
(* Profile call; DelegationEnded and the escalation in one transaction.    *)
(***************************************************************************)
EndForDisabledDelegate(p) ==
  /\ IsIdle(p) /\ "disabled" \in Ops
  /\ \E u \in Users :
       LET hit == {id \in Ids : DisabledMatches(id, u)}
       IN  /\ hit # {} /\ ~Blocked(hit)
           /\ rows' = [id \in Ids |-> IF id \in hit THEN EndRow(rows[id], "ended") ELSE rows[id]]
           /\ log' = [id \in Ids |->
                        IF id \in hit
                        THEN log[id] \o <<Ended("delegate_disabled"), Escalation>>
                        ELSE log[id]]
  /\ UNCHANGED <<up, now, proc>>

(***************************************************************************)
(* TenantMembershipsPurged: every row of the tenant is soft-deleted,       *)
(* whatever its status; no event, no User Profile call.                    *)
(***************************************************************************)
ScrubTenant(p) ==
  /\ IsIdle(p) /\ "scrub" \in Ops
  /\ LET hit == {id \in Ids : Findable(id)}
     IN  /\ hit # {} /\ ~Blocked(hit)
         /\ rows' = [id \in Ids |-> IF id \in hit THEN SoftDeletedRow(rows[id]) ELSE rows[id]]
  /\ UNCHANGED <<log, up, now, proc>>

CascadeStep(p) ==
  \/ EndForUserUpdate(p) \/ EndForUserClear(p) \/ EndForUserCommit(p)
  \/ EndForDisabledDelegate(p) \/ ScrubTenant(p)
=============================================================================
