-------------------------- MODULE DelegationStore --------------------------
(***************************************************************************)
(* The state iam-delegation works on, and the operations of its adapters:  *)
(*                                                                         *)
(*   rows  the Postgres table `delegations` of one tenant                  *)
(*   log   the transactional outbox, per delegation (the event's subject)  *)
(*   up    iam-user-profile's availability record of every user            *)
(*   now   wall-clock time, in days                                        *)
(*   proc  what every running handler, cron job or consumer is doing       *)
(*                                                                         *)
(* The modules DelegationService, ReconcilerJobs and CascadeService add    *)
(* the steps of the processes; DelegationSystem composes them.             *)
(***************************************************************************)
EXTENDS DelegationEvents, FiniteSets

CONSTANTS
  Ids,          \* delegation ids (UUIDs, never reused)
  Users,        \* members of the tenant
  Requests,     \* goroutines serving DLG-2 .. DLG-5
  Crons,        \* runs of the reconciler jobs
  Consumers,    \* workers of delegation-cascade-q
  Ops,          \* the operations a run of the model allows
  Faults,       \* the failures a run of the model allows
  Leads,        \* how far in the future a create may start (0: now)
  Spans,        \* length of a bounded delegation
  ReviewWindow, \* tenant review_window_days
  ExtendDays,   \* extend_days a caller may ask for
  BatchLimit,   \* RECONCILER batch limit of a job
  MaxTime,      \* bound: the clock stops here
  MaxDue,       \* bound: Extend pushes review_due_at no further
  NoUser,       \* no delegate pointer
  NoId          \* no delegation

AllOps == {"create", "cancel", "extend", "reassign",
           "activation", "expiry", "review",
           "revoked", "disabled", "scrub"}

AllFaults == {"up_fail", "up_lost", "tx_fail", "tx_lost", "check_fail", "stale", "crash"}

ASSUME IdsAssumption == NoId \notin Ids
ASSUME UsersAssumption == NoUser \notin Users
ASSUME ProcAssumption ==
  /\ Requests \cap Crons = {} /\ Requests \cap Consumers = {}
  /\ Crons \cap Consumers = {}
ASSUME OpsAssumption == Ops \subseteq AllOps /\ Faults \subseteq AllFaults
ASSUME TimeAssumption ==
  /\ Leads \subseteq Nat /\ Spans \subseteq Nat \ {0}
  /\ ReviewWindow \in 1..180 /\ ExtendDays \subseteq 1..180
  /\ BatchLimit \in Nat \ {0} /\ MaxTime \in Nat /\ MaxDue \in Nat

VARIABLES rows, log, up, now, proc

vars == <<rows, log, up, now, proc>>

Procs == Requests \cup Crons \cup Consumers

(***************************************************************************)
(* A row of `delegations`.  SQL NULL is the time Null; an id that no       *)
(* INSERT used yet has an AbsentRow.                                       *)
(***************************************************************************)
Null == -1

Statuses == {"scheduled", "active", "ended", "cancelled"}

Buckets == {Null, 1, 2, 3}

Row == [status : Statuses \cup {"absent"}, ver : Nat, deleted : BOOLEAN,
        delegator : Users \cup {NoUser}, delegate : Users \cup {NoUser},
        starts : Int, ends : Int, due : Int, bucket : Buckets]

AbsentRow == [status |-> "absent", ver |-> 0, deleted |-> FALSE,
              delegator |-> NoUser, delegate |-> NoUser,
              starts |-> Null, ends |-> Null, due |-> Null, bucket |-> Null]

\* The bound of the out-of-office window: ends_at, or else review_due_at.
OooUntil(r) == IF r.ends = Null THEN r.due ELSE r.ends

NewRow(status, delegator, delegate, starts, ends, due) ==
  [status |-> status, ver |-> 1, deleted |-> FALSE,
   delegator |-> delegator, delegate |-> delegate,
   starts |-> starts, ends |-> ends, due |-> due, bucket |-> Null]

Stored(id) == rows[id].status # "absent"

\* FindByID: soft-deleted rows are invisible, terminal ones are not.
Findable(id) == Stored(id) /\ ~rows[id].deleted

\* status IN ('active', 'scheduled') AND deleted_at IS NULL
Live(id) == rows[id].status \in {"active", "scheduled"} /\ ~rows[id].deleted

\* Mutant: the trigger does not bump record_version.
TouchedNever(r) == r

\* Trigger touch_row: every UPDATE that changes the row bumps its version.
Touched(r) == [r EXCEPT !.ver = @ + 1]

(***************************************************************************)
(* The UPDATE statements: the WHERE clause of each, and the row it leaves. *)
(***************************************************************************)
\* Mutant: the version test left out.
EndMatchesAnyVersion(id, v) == Live(id)

EndMatches(id, v) == Live(id) /\ rows[id].ver = v
EndRow(r, status) == Touched([r EXCEPT !.status = status])

ActivateMatches(id, v) ==
  rows[id].status = "scheduled" /\ ~rows[id].deleted /\ rows[id].ver = v
ActivateRow(r) == Touched([r EXCEPT !.status = "active"])

ExtendMatches(id, v) ==
  /\ rows[id].status = "active" /\ ~rows[id].deleted
  /\ rows[id].ends = Null /\ rows[id].ver = v
ExtendRow(r, days) == Touched([r EXCEPT !.due = @ + days, !.bucket = Null])

WarnMatches(id, v) ==
  rows[id].status = "active" /\ ~rows[id].deleted /\ rows[id].ver = v
\* Mutant: the bucket is not remembered.
WarnRowNoBucket(r, bucket) == Touched(r)

WarnRow(r, bucket) == Touched([r EXCEPT !.bucket = bucket])

\* Mutant: rows that already ended match too.
EndForUserMatchesEnded(id, u) ==
  Findable(id) /\ u \in {rows[id].delegator, rows[id].delegate}

EndForUserMatches(id, u) == Live(id) /\ u \in {rows[id].delegator, rows[id].delegate}
EndForUserRow(r) == Touched([r EXCEPT !.status = "ended", !.deleted = TRUE])

DisabledMatches(id, u) == Live(id) /\ rows[id].delegate = u

SoftDeletedRow(r) == Touched([r EXCEPT !.deleted = TRUE])

(***************************************************************************)
(* The cron queries.  ORDER BY key LIMIT BatchLimit: a batch holds the     *)
(* BatchLimit rows with the smallest keys, ties broken arbitrarily.        *)
(***************************************************************************)
Expiring(id, t) ==
  /\ rows[id].status = "active" /\ ~rows[id].deleted
  /\ rows[id].ends # Null /\ rows[id].ends < t

Startable(id, t) ==
  rows[id].status = "scheduled" /\ ~rows[id].deleted /\ rows[id].starts <= t

\* Mutant: a review that is due today is still warned about.
DueForWarnToday(id, t) ==
  /\ rows[id].status = "active" /\ ~rows[id].deleted /\ rows[id].ends = Null
  /\ rows[id].due >= t /\ rows[id].due <= t + 3

DueForWarn(id, t) ==
  /\ rows[id].status = "active" /\ ~rows[id].deleted /\ rows[id].ends = Null
  /\ rows[id].due > t /\ rows[id].due <= t + 3

DueForAutoEnd(id, t) ==
  /\ rows[id].status = "active" /\ ~rows[id].deleted /\ rows[id].ends = Null
  /\ rows[id].due <= t

Batches(found, key) ==
  {B \in SUBSET found :
     /\ Cardinality(B) <= BatchLimit
     /\ B # found => Cardinality(B) = BatchLimit
     /\ \A i \in B, j \in found \ B : key[i] <= key[j]}

(***************************************************************************)
(* User Profile (external).  A user is out of office when until # Null; to *)
(* is the delegate pointer.  A call can fail without effect (up_fail), or  *)
(* take effect while the caller sees a timeout (up_lost).                  *)
(***************************************************************************)
Available == [to |-> NoUser, until |-> Null]

UpOutcomes == {"ok"} \cup (Faults \cap {"up_fail", "up_lost"})

SetAvailability(u, delegate, until, outcome) ==
  up' = IF outcome = "up_fail" THEN up
        ELSE [up EXCEPT ![u] = [to |-> delegate, until |-> until]]

\* Pointer-clear only: the out-of-office window stays.
ClearDelegatePointer(u, outcome) ==
  up' = IF outcome = "up_fail" THEN up ELSE [up EXCEPT ![u].to = NoUser]

\* User Profile's own sweep makes a user available once the window is over.
UserProfileSweep(u) ==
  /\ up[u].until # Null /\ up[u].until <= now
  /\ up' = [up EXCEPT ![u] = Available]
  /\ UNCHANGED <<rows, log, now, proc>>

(***************************************************************************)
(* TxRunner.RunInTx: the row change and its events are all or nothing.     *)
(* EnqueueCtx needs the open transaction, so an event is part of it.       *)
(* The commit can fail, or its acknowledgement can be lost (tx_lost): the  *)
(* caller then treats a committed transaction as failed.                   *)
(***************************************************************************)
TxOutcomes == {"ok"} \cup (Faults \cap {"tx_fail", "tx_lost"})

Write(id, row, events, outcome) ==
  IF outcome = "tx_fail"
  THEN UNCHANGED <<rows, log>>
  ELSE /\ rows' = [rows EXCEPT ![id] = row]
       /\ log' = [log EXCEPT ![id] = @ \o events]

(***************************************************************************)
(* Processes.  want is the argument of the INSERT a create works towards,  *)
(* todo the rows a job listed, at the time it read the clock, locks the    *)
(* rows an open transaction has updated.                                   *)
(***************************************************************************)
Idle == [op |-> "none", pc |-> "idle", id |-> NoId, ver |-> 0,
         want |-> AbsentRow, user |-> NoUser, todo |-> {}, at |-> 0,
         locks |-> {}]

IsIdle(p) == proc[p].pc = "idle"

Goto(p, pc) == proc' = [proc EXCEPT ![p].pc = pc]

Finish(p) == proc' = [proc EXCEPT ![p] = Idle]

Locked(id) == \E p \in Procs : id \in proc[p].locks

\* What a process keeps of a row it listed, with the row's place in ORDER BY; the
\* parties of a row never change.
Item(id, key) == [id |-> id, ver |-> rows[id].ver, key |-> key, until |-> OooUntil(rows[id])]

Items == [id : Ids, ver : Nat, key : Int, until : Int]

Batch(ids, key) == {Item(id, key[id]) : id \in ids}

First(x, todo) == x \in todo /\ \A y \in todo : x.key <= y.key

PCs == {"idle", "check", "set", "insert", "compensate", "clear", "end",
        "again", "extend", "resync", "batch", "commit", "sweep", "warn",
        "cascade"}

Process == [op : Ops \cup {"none"}, pc : PCs, id : Ids \cup {NoId}, ver : Nat,
            want : Row, user : Users \cup {NoUser}, todo : SUBSET Items,
            at : Nat, locks : SUBSET Ids]

StoreInit ==
  /\ rows = [id \in Ids |-> AbsentRow]
  /\ log = [id \in Ids |-> <<>>]
  /\ up = [u \in Users |-> Available]
  /\ now = 0
  /\ proc = [p \in Procs |-> Idle]

Tick == now < MaxTime /\ now' = now + 1 /\ UNCHANGED <<rows, log, up, proc>>

\* A pod dies: its handlers are gone, an open transaction rolls back.
Crash(p) ==
  /\ "crash" \in Faults /\ ~IsIdle(p)
  /\ Finish(p) /\ UNCHANGED <<rows, log, up, now>>

TypeOK ==
  /\ rows \in [Ids -> Row]
  /\ log \in [Ids -> Seq(Event)]
  /\ up \in [Users -> [to : Users \cup {NoUser}, until : Int]]
  /\ now \in Nat
  /\ proc \in [Procs -> Process]
=============================================================================
