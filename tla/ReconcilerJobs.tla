--------------------------- MODULE ReconcilerJobs ---------------------------
(***************************************************************************)
(* The CronJobs delegation-activation, delegation-expiry and               *)
(* delegation-review (DLG-D25, DLG-I1, DLG-I2).  A job lists a batch and   *)
(* then works through it row by row: a call to User Profile, and one       *)
(* transaction under the record_version it listed.  A failed call defers   *)
(* that row only.  Runs of the same job may overlap: the schedule and the  *)
(* internal HTTP endpoints start them independently.                       *)
(***************************************************************************)
EXTENDS DelegationStore

Begin(p, op) == IsIdle(p) /\ op \in Ops

\* The run goes on with the batch todo; an empty one ends it.
StartBatch(p, op, t, todo) ==
  proc' = [proc EXCEPT ![p] =
             IF todo = {} THEN Idle
             ELSE [Idle EXCEPT !.op = op, !.pc = "batch", !.at = t, !.todo = todo]]

\* Done with row id: on to the rest of the batch.
NextRow(p, id) ==
  LET rest == {x \in proc[p].todo : x.id # id}
  IN  StartBatch(p, proc[p].op, proc[p].at, rest)

\* Mutant: a failed call abandons the rest of the batch.
AfterCallAbort(p, x, outcome) ==
  IF outcome = "ok"
  THEN proc' = [proc EXCEPT ![p].pc = "commit", ![p].id = x.id, ![p].ver = x.ver]
  ELSE Finish(p)

\* The User Profile call for x: its transaction comes next, or it is deferred.
AfterCall(p, x, outcome) ==
  IF outcome = "ok"
  THEN proc' = [proc EXCEPT ![p].pc = "commit", ![p].id = x.id, ![p].ver = x.ver]
  ELSE NextRow(p, x.id)

\* Mutant: the event is enqueued although the UPDATE hit no row.
AttemptUnchecked(p, matches, row, event) ==
  LET id == proc[p].id
  IN  /\ proc[p].pc = "commit" /\ ~Locked(id)
      /\ Write(id, IF matches THEN row ELSE rows[id], <<event>>, "ok")
      /\ NextRow(p, id)
      /\ UNCHANGED <<up, now>>

\* One row's transaction: it commits, fails, or finds the row changed (raced).
\* The job goes on in every case.
Attempt(p, matches, row, event) ==
  LET id == proc[p].id
  IN  /\ proc[p].pc = "commit" /\ ~Locked(id)
      /\ \/ /\ matches
            /\ \E outcome \in TxOutcomes : Write(id, row, <<event>>, outcome)
         \/ ~matches /\ UNCHANGED <<rows, log>>
      /\ NextRow(p, id)
      /\ UNCHANGED <<up, now>>

(***************************************************************************)
(* delegation-activation                                                   *)
(***************************************************************************)
ActivationList(p) ==
  /\ Begin(p, "activation")
  /\ LET key == [id \in Ids |-> rows[id].starts]
     IN  \E B \in Batches({id \in Ids : Startable(id, now)}, key) :
           StartBatch(p, "activation", now, Batch(B, key))
  /\ UNCHANGED <<rows, log, up, now>>

ActivationSetAvailability(p) ==
  /\ proc[p].op = "activation" /\ proc[p].pc = "batch"
  /\ \E x \in proc[p].todo, outcome \in UpOutcomes :
       LET r == rows[x.id]
       IN  /\ First(x, proc[p].todo)
           /\ SetAvailability(r.delegator, r.delegate, x.until, outcome)
           /\ AfterCall(p, x, outcome)
  /\ UNCHANGED <<rows, log, now>>

ActivateScheduled(p) ==
  LET id == proc[p].id
  IN  /\ proc[p].op = "activation"
      /\ Attempt(p, ActivateMatches(id, proc[p].ver), ActivateRow(rows[id]), Started)

(***************************************************************************)
(* delegation-expiry                                                       *)
(***************************************************************************)
ExpiryList(p) ==
  /\ Begin(p, "expiry")
  /\ LET key == [id \in Ids |-> rows[id].ends]
     IN  \E B \in Batches({id \in Ids : Expiring(id, now)}, key) :
           StartBatch(p, "expiry", now, Batch(B, key))
  /\ UNCHANGED <<rows, log, up, now>>

\* Shared by delegation-expiry and the second pass of delegation-review.
ClearBeforeEnd(p) ==
  /\ proc[p].op \in {"expiry", "review"} /\ proc[p].pc = "batch"
  /\ \E x \in proc[p].todo, outcome \in UpOutcomes :
       /\ ClearDelegatePointer(rows[x.id].delegator, outcome)
       /\ First(x, proc[p].todo)
       /\ AfterCall(p, x, outcome)
  /\ UNCHANGED <<rows, log, now>>

EndExpired(p) ==
  LET id == proc[p].id
  IN  /\ proc[p].op = "expiry"
      /\ Attempt(p, EndMatches(id, proc[p].ver), EndRow(rows[id], "ended"), Ended("expired"))

(***************************************************************************)
(* delegation-review: the clock is read once, before the two queries.      *)
(***************************************************************************)
ReviewStart(p) ==
  /\ Begin(p, "review")
  /\ proc' = [proc EXCEPT ![p].op = "review", ![p].pc = "sweep", ![p].at = now]
  /\ UNCHANGED <<rows, log, up, now>>

ReviewWarnList(p) ==
  /\ proc[p].pc = "sweep"
  /\ LET key == [id \in Ids |-> rows[id].due]
     IN  \E B \in Batches({id \in Ids : DueForWarn(id, proc[p].at)}, key) :
           proc' = [proc EXCEPT ![p].pc = "warn", ![p].todo = Batch(B, key)]
  /\ UNCHANGED <<rows, log, up, now>>

\* Pass 1, one row: computeDaysRemaining, the bucket test, then
\* RunInTx{MarkReviewWarned; DelegationReviewRequested}.  What the job read of
\* the row is what the row holds whenever the version still matches, and a row due
\* for a warning is due after the sweep's clock, so the least value is 1.
ReviewWarn(p) ==
  /\ proc[p].pc = "warn"
  /\ \E x \in proc[p].todo :
       LET r == rows[x.id]
           days == r.due - proc[p].at
           warn == WarnMatches(x.id, x.ver) /\ r.bucket # days
       IN  /\ First(x, proc[p].todo) /\ ~Locked(x.id)
           /\ \/ /\ warn
                 /\ \E outcome \in TxOutcomes :
                      Write(x.id, WarnRow(r, days), <<ReviewRequested(days)>>, outcome)
              \/ ~warn /\ UNCHANGED <<rows, log>>
           /\ proc' = [proc EXCEPT ![p].todo = @ \ {x}]
  /\ UNCHANGED <<up, now>>

ReviewEndList(p) ==
  /\ proc[p].pc = "warn" /\ proc[p].todo = {}
  /\ LET key == [id \in Ids |-> rows[id].due]
     IN  \E B \in Batches({id \in Ids : DueForAutoEnd(id, proc[p].at)}, key) :
           StartBatch(p, "review", proc[p].at, Batch(B, key))
  /\ UNCHANGED <<rows, log, up, now>>

EndReviewExpired(p) ==
  LET id == proc[p].id
  IN  /\ proc[p].op = "review"
      /\ Attempt(p, EndMatches(id, proc[p].ver), EndRow(rows[id], "ended"),
                 Ended("review_expired"))

JobStep(p) ==
  \/ ActivationList(p) \/ ActivationSetAvailability(p) \/ ActivateScheduled(p)
  \/ ExpiryList(p) \/ ClearBeforeEnd(p) \/ EndExpired(p)
  \/ ReviewStart(p) \/ ReviewWarnList(p) \/ ReviewWarn(p) \/ ReviewEndList(p)
  \/ EndReviewExpired(p)
=============================================================================
