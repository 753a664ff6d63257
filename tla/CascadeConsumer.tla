--------------------------- MODULE CascadeConsumer ---------------------------
(***************************************************************************)
(* The consumer of delegation-cascade-q: at-least-once deliveries, dedup   *)
(* through processed_events, one transaction for a cascade and its mark,   *)
(* failures left to SQS and its dead-letter queue.                         *)
(*                                                                         *)
(* What a cascade does to the table is in CascadeService.  Here a user has *)
(* one live delegation or none (live); a create checks membership first    *)
(* and inserts later (granting), while Core removes and readmits members.  *)
(***************************************************************************)
EXTENDS Integers, FiniteSets

CONSTANTS
  Messages,     \* envelope ids
  Users,        \* members the tenant has at first
  Workers,      \* goroutines of the SQS consumer
  Kinds,        \* what each message may be in a run of the model
  Faults,       \* the failures a run of the model allows
  MaxReceive,   \* maxReceiveCount of the queue's redrive policy
  NoMessage     \* a worker that waits

AllKinds == {"revoked", "purged", "disabled", "other_update", "unknown",
             "bad_id", "bad_payload"}

AllFaults == {"crash", "probe_fail", "tx_fail", "tx_lost", "ack_lost"}

ASSUME QueueAssumption ==
  /\ Kinds \in [Messages -> SUBSET AllKinds] /\ Faults \subseteq AllFaults
  /\ MaxReceive \in Nat \ {0} /\ NoMessage \notin Messages

VARIABLES
  body,      \* kind and user of every message
  sqs,       \* where SQS has it
  tries,     \* how often it was received
  shared,    \* history: messages received while another worker still had them
  ledger,    \* processed_events: <<consumer, event id>>
  members,   \* Core's memberships
  granting,  \* creates between the membership check and the INSERT
  live,      \* users with a live delegation
  late,      \* history: users whose INSERT came after they had left
  worker,    \* what every worker is doing
  ended      \* history: how many commits for a message ended delegations

queueVars == <<body, sqs, tries, shared>>
tableVars == <<ledger, live, ended>>
coreVars == <<members, granting, late>>
vars == <<queueVars, tableVars, coreVars, worker>>

NoBody == [kind |-> "unknown", users |-> {}]

Waiting == [pc |-> "idle", msg |-> NoMessage, hit |-> {}]

Init ==
  /\ body = [m \in Messages |-> NoBody]
  /\ sqs = [m \in Messages |-> "unsent"]
  /\ tries = [m \in Messages |-> 0] /\ shared = {}
  /\ ledger = {} /\ live = {} /\ granting = {} /\ late = {}
  /\ ended = [m \in Messages |-> 0]
  /\ members = Users
  /\ worker = [w \in Workers |-> Waiting]

(***************************************************************************)
(* The world around the consumer.                                          *)
(***************************************************************************)
\* Core and User Profile publish what they have just done.
Publish(m) ==
  /\ sqs[m] = "unsent"
  /\ \E kind \in Kinds[m], u \in Users :
       LET users == IF kind = "purged" THEN Users ELSE {u}
       IN  /\ kind = "revoked" => u \in members
           /\ body' = [body EXCEPT ![m] = [kind |-> kind, users |-> users]]
           /\ members' = IF kind \in {"revoked", "purged"} THEN members \ users ELSE members
  /\ sqs' = [sqs EXCEPT ![m] = "visible"]
  /\ UNCHANGED <<tries, shared, tableVars, granting, late, worker>>

Rejoin(u) ==
  /\ u \notin members /\ members' = members \cup {u} /\ late' = late \ {u}
  /\ UNCHANGED <<queueVars, tableVars, granting, worker>>

\* DelegationService.Create: the membership check, and later the INSERT.
GrantCheck(u) ==
  /\ u \in members \ (live \cup granting) /\ granting' = granting \cup {u}
  /\ UNCHANGED <<queueVars, tableVars, members, late, worker>>

GrantInsert(u) ==
  /\ u \in granting /\ granting' = granting \ {u} /\ live' = live \cup {u}
  /\ late' = IF u \in members THEN late ELSE late \cup {u}
  /\ UNCHANGED <<queueVars, ledger, ended, members, worker>>

\* SQS shows a message again that was not deleted in time, or gives it up.
VisibilityTimeout(m) ==
  /\ sqs[m] = "hidden" /\ sqs' = [sqs EXCEPT ![m] = "visible"]
  /\ UNCHANGED <<body, tries, shared, tableVars, coreVars, worker>>

Redrive(m) ==
  /\ sqs[m] = "visible" /\ tries[m] = MaxReceive
  /\ sqs' = [sqs EXCEPT ![m] = "dlq"]
  /\ UNCHANGED <<body, tries, shared, tableVars, coreVars, worker>>

(***************************************************************************)
(* Handle.  nil acknowledges the message, an error leaves it to SQS.       *)
(***************************************************************************)
Wait(w) == worker' = [worker EXCEPT ![w] = Waiting]

ReturnError(w) == Wait(w) /\ UNCHANGED sqs

ReturnNil(w) ==
  /\ Wait(w)
  /\ \/ sqs' = [sqs EXCEPT ![worker[w].msg] = "deleted"]
     \/ "ack_lost" \in Faults /\ UNCHANGED sqs

\* Which processed_events bucket a message is filed under.
Consumer(kind) ==
  CASE kind \in {"disabled", "other_update"} -> "delegate_disable"
    [] kind = "purged" -> "offboarding"
    [] OTHER -> "cascade"

Mark(m) == <<Consumer(body[m].kind), m>>

Cascading == {"revoked", "purged", "disabled"}

Receive(w) ==
  /\ worker[w].pc = "idle"
  /\ \E m \in Messages :
       /\ sqs[m] = "visible" /\ tries[m] < MaxReceive
       /\ sqs' = [sqs EXCEPT ![m] = "hidden"]
       /\ tries' = [tries EXCEPT ![m] = @ + 1]
       /\ shared' = shared \cup {n \in {m} : \E v \in Workers : worker[v].msg = n}
       /\ worker' = [worker EXCEPT ![w] = [pc |-> "handle", msg |-> m, hit |-> {}]]
  /\ UNCHANGED <<body, tableVars, coreVars>>

Kind(w) == body[worker[w].msg].kind

\* An envelope id that is no UUID can never be deduplicated: dropped.
DropBadId(w) ==
  /\ worker[w].pc = "handle" /\ Kind(w) = "bad_id"
  /\ ReturnNil(w)
  /\ UNCHANGED <<body, tries, shared, tableVars, coreVars>>

\* Mutant: a payload that violates its schema is acknowledged.
RejectPayloadAcked(w) ==
  /\ worker[w].pc = "handle" /\ Kind(w) = "bad_payload"
  /\ ReturnNil(w)
  /\ UNCHANGED <<body, tries, shared, tableVars, coreVars>>

\* validatePayload: left to the dead-letter queue, never marked.  So is a UserUpdated
\* whose envelope has no tenant id, which is found out after a probe that finds nothing.
RejectPayload(w) ==
  /\ worker[w].pc = "handle" /\ Kind(w) = "bad_payload"
  /\ ReturnError(w)
  /\ UNCHANGED <<body, tries, shared, tableVars, coreVars>>

\* Mutant: the ledger is written and never read.
ProbeBlind(w) ==
  /\ worker[w].pc = "handle" /\ Kind(w) \in Cascading \cup {"other_update"}
  /\ worker' = [worker EXCEPT ![w].pc = "begin"]
  /\ UNCHANGED <<queueVars, tableVars, coreVars>>

\* IsProcessed, in a transaction of its own.  Unknown types are not probed.
Probe(w) ==
  /\ worker[w].pc = "handle" /\ Kind(w) \in Cascading \cup {"other_update"}
  /\ \/ /\ Mark(worker[w].msg) \in ledger
        /\ ReturnNil(w)
     \/ /\ Mark(worker[w].msg) \notin ledger
        /\ worker' = [worker EXCEPT ![w].pc = "begin"] /\ UNCHANGED sqs
     \/ "probe_fail" \in Faults /\ ReturnError(w)
  /\ UNCHANGED <<body, tries, shared, tableVars, coreVars>>

AckUnknown(w) ==
  /\ worker[w].pc = "handle" /\ Kind(w) = "unknown"
  /\ worker' = [worker EXCEPT ![w].pc = "begin"]
  /\ UNCHANGED <<queueVars, tableVars, coreVars>>

\* Mutant: a purge leaves the tenant's delegations alone.
CascadeUpdateNoPurge(w) ==
  LET hit == IF Kind(w) \in {"revoked", "disabled"}
             THEN body[worker[w].msg].users \cap live ELSE {}
  IN  /\ worker[w].pc = "begin"
      /\ \A v \in Workers : worker[v].hit \cap hit = {}
      /\ worker' = [worker EXCEPT ![w].pc = "mark", ![w].hit = hit]
      /\ UNCHANGED <<queueVars, tableVars, coreVars>>

\* The cascade's UPDATE: it takes the rows' locks, waiting for whoever has them.
CascadeUpdate(w) ==
  LET hit == IF Kind(w) \in Cascading THEN body[worker[w].msg].users \cap live ELSE {}
  IN  /\ worker[w].pc = "begin"
      /\ \A v \in Workers : worker[v].hit \cap hit = {}
      /\ worker' = [worker EXCEPT ![w].pc = "mark", ![w].hit = hit]
      /\ UNCHANGED <<queueVars, tableVars, coreVars>>

CommitMarked(w, m) ==
  /\ live' = live \ worker[w].hit
  /\ ended' = [ended EXCEPT ![m] = @ + IF worker[w].hit = {} THEN 0 ELSE 1]
  /\ ledger' = ledger \cup {Mark(m)}

\* Mutant: a failed transaction is retried without end.
CommitRetriedForever(w) ==
  /\ worker[w].pc = "mark"
  /\ \/ CommitMarked(w, worker[w].msg) /\ ReturnNil(w)
     \/ /\ "tx_fail" \in Faults /\ UNCHANGED <<tableVars, sqs>>
        /\ worker' = [worker EXCEPT ![w].pc = "begin", ![w].hit = {}]
  /\ UNCHANGED <<body, tries, shared, coreVars>>

\* runCascadeAndMark, markProcessedInTx: the rows and the mark commit together.
\* The commit can fail (after RunInTx's bounded retries), or succeed without the
\* worker learning of it.
Commit(w) ==
  /\ worker[w].pc = "mark"
  /\ \/ CommitMarked(w, worker[w].msg) /\ ReturnNil(w)
     \/ "tx_lost" \in Faults /\ CommitMarked(w, worker[w].msg) /\ ReturnError(w)
     \/ "tx_fail" \in Faults /\ UNCHANGED tableVars /\ ReturnError(w)
  /\ UNCHANGED <<body, tries, shared, coreVars>>

\* The pod dies; an open transaction rolls back.
Crash(w) ==
  /\ "crash" \in Faults /\ worker[w].pc # "idle"
  /\ Wait(w) /\ UNCHANGED <<queueVars, tableVars, coreVars>>

WorkerStep(w) ==
  \/ DropBadId(w) \/ RejectPayload(w) \/ Probe(w) \/ AckUnknown(w)
  \/ CascadeUpdate(w) \/ Commit(w)

Next ==
  \/ \E m \in Messages : Publish(m) \/ VisibilityTimeout(m) \/ Redrive(m)
  \/ \E u \in Users : Rejoin(u) \/ GrantCheck(u) \/ GrantInsert(u)
  \/ \E w \in Workers : Receive(w) \/ WorkerStep(w) \/ Crash(w)

Spec == Init /\ [][Next]_vars

\* SQS delivers again and again, and a worker that has a message handles it.
FairSpec ==
  /\ Spec
  /\ \A m \in Messages : WF_vars(VisibilityTimeout(m)) /\ WF_vars(Redrive(m))
  /\ \A w \in Workers : WF_vars(WorkerStep(w)) /\ WF_vars(Receive(w))

(***************************************************************************)
(* Properties                                                              *)
(***************************************************************************)
TypeOK ==
  /\ body \in [Messages -> [kind : AllKinds, users : SUBSET Users]]
  /\ sqs \in [Messages -> {"unsent", "visible", "hidden", "deleted", "dlq"}]
  /\ tries \in [Messages -> 0..MaxReceive] /\ shared \subseteq Messages
  /\ ledger \subseteq {"cascade", "offboarding", "delegate_disable"} \X Messages
  /\ members \subseteq Users /\ granting \subseteq Users
  /\ live \subseteq Users /\ late \subseteq Users
  /\ worker \in [Workers -> [pc : {"idle", "handle", "begin", "mark"},
                             msg : Messages \cup {NoMessage}, hit : SUBSET Users]]
  /\ ended \in [Messages -> Nat]

\* No cascade is lost: a message leaves the queue only with its effect committed
\* and marked, or to the dead-letter queue, whatever crashes, lost commits and
\* lost acknowledgements its deliveries meet.  (An envelope without a usable id
\* is dropped on purpose.)
NoCascadeLost ==
  \A m \in Messages :
    sqs[m] = "deleted" /\ body[m].kind # "bad_id" => Mark(m) \in ledger

\* A redelivery is a no-op: one message ends delegations at most once, so what a
\* user is granted after the cascade is not taken away by the same event, as long
\* as SQS did not show the message again while a worker still had it.
RedeliveryIsNoOp == \A m \in Messages \ shared : ended[m] <= 1

\* Every published message is handled or dead-lettered in the end.
EveryMessageSettled ==
  \A m \in Messages : sqs[m] = "visible" ~> sqs[m] \in {"deleted", "dlq"}

\* Rows of departed members are ended in the end: once every message is handled, a
\* user who is not a member has a live delegation only if its create had passed the
\* membership check before the user left and inserted the row after that.
OnlyLateGrantsRemain ==
  (\A m \in Messages : sqs[m] \in {"unsent", "deleted"}) => live \ members \subseteq late
=============================================================================
