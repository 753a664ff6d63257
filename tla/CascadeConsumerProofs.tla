------------------------ MODULE CascadeConsumerProofs ------------------------
(***************************************************************************)
(* No cascade is lost, for any number of messages, users and workers and   *)
(* with every fault.  The invariant is NoCascadeLost with TypeOK: a        *)
(* message is deleted only by a worker that found its mark, committed it,  *)
(* or dropped an envelope that cannot be marked.  With DeliveryInv, a      *)
(* redelivery changes nothing and a departure ends what was granted.       *)
(***************************************************************************)
EXTENDS CascadeConsumer, TLAPS

QueueInv ==
  /\ TypeOK /\ NoCascadeLost
  /\ \A w \in Workers : worker[w].pc # "idle" => worker[w].msg \in Messages

LEMMA QueueInitially == Init => QueueInv
  BY QueueAssumption
     DEF Init, QueueInv, TypeOK, NoCascadeLost, NoBody, Waiting, AllKinds

LEMMA BucketNames ==
  \A kind : Consumer(kind) \in {"cascade", "offboarding", "delegate_disable"}
  BY DEF Consumer

LEMMA TypePreserved ==
  ASSUME QueueInv, [Next]_vars
  PROVE  TypeOK'
  <1>0. TypeOK
    BY DEF QueueInv
  <1>h. \A w \in Workers : worker[w].pc # "idle" => worker[w].msg \in Messages
    BY DEF QueueInv
  <1> USE QueueAssumption, <1>0
      DEF TypeOK, queueVars, tableVars, coreVars, Waiting, Wait, ReturnNil, ReturnError
  <1>1. ASSUME NEW m \in Messages, Publish(m) PROVE TypeOK'
    BY <1>1 DEF Publish
  <1>2. ASSUME NEW m \in Messages, VisibilityTimeout(m) \/ Redrive(m) PROVE TypeOK'
    BY <1>2 DEF VisibilityTimeout, Redrive
  <1>3. ASSUME NEW u \in Users, Rejoin(u) \/ GrantCheck(u) \/ GrantInsert(u) PROVE TypeOK'
    BY <1>3 DEF Rejoin, GrantCheck, GrantInsert
  <1>4. ASSUME NEW w \in Workers, Receive(w) PROVE TypeOK'
    BY <1>4 DEF Receive
  <1>5. ASSUME NEW w \in Workers, DropBadId(w) \/ RejectPayload(w) \/ Crash(w) PROVE TypeOK'
    <2>1. UNCHANGED <<body, tries, shared, ledger, live, ended, members, granting, late>>
      BY <1>5 DEF DropBadId, RejectPayload, Crash
    <2>2. worker' \in [Workers -> [pc : {"idle", "handle", "begin", "mark"},
                                  msg : Messages \cup {NoMessage}, hit : SUBSET Users]]
      BY <1>5 DEF DropBadId, RejectPayload, Crash
    <2>3. sqs' \in [Messages -> {"unsent", "visible", "hidden", "deleted", "dlq"}]
      BY <1>5 DEF DropBadId, RejectPayload, Crash
    <2> QED  BY <2>1, <2>2, <2>3
  <1>6. ASSUME NEW w \in Workers, Probe(w) \/ AckUnknown(w) PROVE TypeOK'
    <2>1. UNCHANGED <<body, tries, shared, ledger, live, ended, members, granting, late>>
      BY <1>6 DEF Probe, AckUnknown
    <2>2. worker' \in [Workers -> [pc : {"idle", "handle", "begin", "mark"},
                                  msg : Messages \cup {NoMessage}, hit : SUBSET Users]]
      <3>1. \/ worker' = [worker EXCEPT ![w] = Waiting]
            \/ worker' = [worker EXCEPT ![w].pc = "begin"]
        BY <1>6 DEF Probe, AckUnknown
      <3>2. Waiting \in [pc : {"idle", "handle", "begin", "mark"},
                         msg : Messages \cup {NoMessage}, hit : SUBSET Users]
        OBVIOUS
      <3> DEFINE S == [pc : {"idle", "handle", "begin", "mark"},
                       msg : Messages \cup {NoMessage}, hit : SUBSET Users]
      <3>a. worker \in [Workers -> S]
        OBVIOUS
      <3>b. [worker[w] EXCEPT !.pc = "begin"] \in S
        BY <3>a
      <3> HIDE QueueAssumption, <1>0 DEF Waiting, S
      <3>3. CASE worker' = [worker EXCEPT ![w] = Waiting]
        BY <3>2, <3>3, <3>a DEF S
      <3>4. CASE worker' = [worker EXCEPT ![w].pc = "begin"]
        <4>1. worker' \in [Workers -> S]
          BY <3>4, <3>a, <3>b
        <4> QED  BY <4>1 DEF S
      <3> QED  BY <3>1, <3>3, <3>4
    <2>3. sqs' \in [Messages -> {"unsent", "visible", "hidden", "deleted", "dlq"}]
      BY <1>6 DEF Probe, AckUnknown
    <2> QED  BY <2>1, <2>2, <2>3
  <1>7. ASSUME NEW w \in Workers, CascadeUpdate(w) PROVE TypeOK'
    <2>1. PICK hit \in SUBSET Users :
            worker' = [worker EXCEPT ![w].pc = "mark", ![w].hit = hit]
      BY <1>7 DEF CascadeUpdate
    <2>2. UNCHANGED <<body, sqs, tries, shared, ledger, live, ended, members, granting, late>>
      BY <1>7 DEF CascadeUpdate
    <2>3. worker' \in [Workers -> [pc : {"idle", "handle", "begin", "mark"},
                                  msg : Messages \cup {NoMessage}, hit : SUBSET Users]]
      BY <2>1
    <2> QED  BY <2>2, <2>3
  <1>8. ASSUME NEW w \in Workers, Commit(w) PROVE TypeOK'
    <2>1. worker[w].pc = "mark" /\ UNCHANGED <<body, tries, shared, members, granting, late>>
      BY <1>8 DEF Commit
    <2>2. worker' \in [Workers -> [pc : {"idle", "handle", "begin", "mark"},
                                  msg : Messages \cup {NoMessage}, hit : SUBSET Users]]
      BY <1>8 DEF Commit
    <2>3. sqs' \in [Messages -> {"unsent", "visible", "hidden", "deleted", "dlq"}]
      BY <1>8 DEF Commit
    <2>4. worker[w].msg \in Messages
      BY <1>h, <2>1
    <2>5. CASE UNCHANGED tableVars
      BY <2>1, <2>2, <2>3, <2>5
    <2>6. CASE CommitMarked(w, worker[w].msg)
      <3>1. Mark(worker[w].msg) \in
              {"cascade", "offboarding", "delegate_disable"} \X Messages
        BY <2>4, BucketNames DEF Mark
      <3>2. ledger' \subseteq {"cascade", "offboarding", "delegate_disable"} \X Messages
        BY <2>6, <3>1 DEF CommitMarked
      <3>3. live' \subseteq Users /\ ended' \in [Messages -> Nat]
        BY <2>4, <2>6 DEF CommitMarked
      <3> QED  BY <2>1, <2>2, <2>3, <3>2, <3>3
    <2> QED  BY <1>8, <2>5, <2>6 DEF Commit
  <1>9. CASE UNCHANGED vars
    BY <1>9 DEF vars
  <1> QED  BY <1>1, <1>2, <1>3, <1>4, <1>5, <1>6, <1>7, <1>8, <1>9 DEF Next, WorkerStep

LEMMA WorkersHold ==
  ASSUME QueueInv, [Next]_vars
  PROVE  \A w \in Workers : worker'[w].pc # "idle" => worker'[w].msg \in Messages
  <1> USE DEF QueueInv, TypeOK, Wait, Waiting, ReturnNil, ReturnError
  <1>1. CASE UNCHANGED worker
    BY <1>1
  <1>2. ASSUME NEW v \in Workers, Receive(v) \/ WorkerStep(v) \/ Crash(v)
        PROVE  \A w \in Workers : worker'[w].pc # "idle" => worker'[w].msg \in Messages
    BY <1>2 DEF Receive, WorkerStep, Crash, DropBadId, RejectPayload, Probe, AckUnknown,
                CascadeUpdate, Commit
  <1> QED  BY <1>1, <1>2 DEF Next, vars, Publish, VisibilityTimeout, Redrive, Rejoin,
                             GrantCheck, GrantInsert

\* A step that keeps the bodies of published messages, forgets no mark, and deletes
\* only messages that are marked or cannot be.
LEMMA NothingLost ==
  ASSUME QueueInv, TypeOK', ledger \subseteq ledger',
         \A m \in Messages : sqs'[m] = "deleted" =>
           /\ body'[m] = body[m]
           /\ \/ sqs[m] = "deleted"
              \/ body[m].kind = "bad_id"
              \/ Mark(m) \in ledger'
  PROVE  NoCascadeLost'
  BY DEF QueueInv, NoCascadeLost, Mark

LEMMA QueuePreserved ==
  ASSUME QueueInv, [Next]_vars
  PROVE  QueueInv'
  <1>0. TypeOK /\ TypeOK'
    BY TypePreserved DEF QueueInv
  <1>a. \A w \in Workers : worker'[w].pc # "idle" => worker'[w].msg \in Messages
    BY WorkersHold
  <1> SUFFICES NoCascadeLost'
    BY <1>0, <1>a DEF QueueInv
  <1> USE <1>0 DEF queueVars, tableVars, coreVars, Wait, ReturnNil, ReturnError, TypeOK
  <1>1. ASSUME NEW m \in Messages, Publish(m) PROVE NoCascadeLost'
    BY <1>1, NothingLost DEF Publish
  <1>2. ASSUME NEW m \in Messages, VisibilityTimeout(m) \/ Redrive(m) PROVE NoCascadeLost'
    BY <1>2, NothingLost DEF VisibilityTimeout, Redrive
  <1>3. ASSUME NEW u \in Users, Rejoin(u) \/ GrantCheck(u) \/ GrantInsert(u)
        PROVE  NoCascadeLost'
    BY <1>3, NothingLost DEF Rejoin, GrantCheck, GrantInsert
  <1>4. ASSUME NEW w \in Workers, Receive(w) PROVE NoCascadeLost'
    BY <1>4, NothingLost DEF Receive
  <1>5. ASSUME NEW w \in Workers, DropBadId(w) PROVE NoCascadeLost'
    BY <1>5, NothingLost DEF DropBadId, Kind
  <1>6. ASSUME NEW w \in Workers, RejectPayload(w) \/ Crash(w) \/ AckUnknown(w)
        PROVE  NoCascadeLost'
    BY <1>6, NothingLost DEF RejectPayload, Crash, AckUnknown
  <1>7. ASSUME NEW w \in Workers, Probe(w) PROVE NoCascadeLost'
    BY <1>7, NothingLost DEF Probe
  <1>8. ASSUME NEW w \in Workers, CascadeUpdate(w) PROVE NoCascadeLost'
    BY <1>8, NothingLost DEF CascadeUpdate
  <1>9. ASSUME NEW w \in Workers, Commit(w) PROVE NoCascadeLost'
    BY <1>9, NothingLost DEF Commit, CommitMarked
  <1>10. CASE UNCHANGED vars
    BY <1>10, NothingLost DEF vars
  <1> QED  BY <1>1, <1>2, <1>3, <1>4, <1>5, <1>6, <1>7, <1>8, <1>9, <1>10
             DEF Next, WorkerStep

\* Messages, marks, members and workers stay well formed, whatever fails.
THEOREM TypeCorrect == Spec => []TypeOK
  <1>1. QueueInv => TypeOK
    BY DEF QueueInv
  <1> QED  BY <1>1, QueueInitially, QueuePreserved, PTL DEF Spec

\* A message leaves delegation-cascade-q only with its cascade committed and marked
\* in processed_events, or for the dead-letter queue: neither crashes nor failed or
\* lost commits nor lost acknowledgements make Handle acknowledge unfinished work.
THEOREM CascadesKept == Spec => []NoCascadeLost
  <1>1. QueueInv => NoCascadeLost
    BY DEF QueueInv
  <1> QED  BY <1>1, QueueInitially, QueuePreserved, PTL DEF Spec

(***************************************************************************)
(* What a redelivery and a late membership change can do.  Alone(m) says   *)
(* that one worker at most is between the probe and the commit of m, and   *)
(* that what it is about to end has not been ended under m before.         *)
(* Awaits(u, m) says that m is still going to end the delegation of u:     *)
(* it is not marked, and a worker that has run its UPDATE found the row.   *)
(***************************************************************************)
Untouched(m) ==
  /\ ended[m] = 0 /\ \A w \in Workers : worker[w].msg # m
  /\ \A bucket : <<bucket, m>> \notin ledger

Alone(m) ==
  /\ ended[m] <= 1
  /\ ended[m] = 1 => Mark(m) \in ledger
  /\ \A v, w \in Workers : worker[v].msg = m /\ worker[w].msg = m => v = w
  /\ \A w \in Workers :
       /\ worker[w].msg = m
       /\ \/ worker[w].pc = "begin" /\ body[m].kind \in Cascading
          \/ worker[w].pc = "mark" /\ worker[w].hit # {}
       => Mark(m) \notin ledger

Awaits(u, m) ==
  /\ sqs[m] # "unsent" /\ body[m].kind \in {"revoked", "purged"} /\ u \in body[m].users
  /\ Mark(m) \notin ledger
  /\ \A w \in Workers : worker[w].msg = m /\ worker[w].pc = "mark" => u \in worker[w].hit

DeliveryInv ==
  /\ QueueInv
  /\ \A w \in Workers : worker[w].pc = "idle" => worker[w].msg = NoMessage
  /\ \A m \in Messages : sqs[m] = "unsent" => Untouched(m)
  /\ \A m \in Messages \ shared : Alone(m)
  /\ \A u \in (live \ members) \ late : \E m \in Messages : Awaits(u, m)

LEMMA DeliveryInitially == Init => DeliveryInv
  <1> SUFFICES ASSUME Init PROVE DeliveryInv
    OBVIOUS
  <1>1. QueueInv
    BY QueueInitially
  <1>2. \A m \in Messages : Untouched(m) /\ Alone(m)
    BY QueueAssumption DEF Init, Untouched, Alone, Waiting
  <1> QED  BY <1>1, <1>2 DEF Init, Waiting, DeliveryInv

\* What the step of a worker that has a message does to the workers: the message
\* is kept, or given up.
LEMMA WorkerFrame ==
  ASSUME DeliveryInv, NEW w \in Workers, WorkerStep(w) \/ Crash(w)
  PROVE  /\ \A v \in Workers \ {w} : worker'[v] = worker[v]
         /\ worker'[w] = Waiting \/ (worker'[w].msg = worker[w].msg /\ worker'[w].pc # "idle")
         /\ worker[w].msg \in Messages /\ worker[w].pc # "idle"
         /\ \A m \in Messages : m # worker[w].msg => sqs'[m] = sqs[m]
         /\ \A m \in Messages : sqs'[m] = "unsent" => sqs[m] = "unsent"
         /\ UNCHANGED <<body, tries, shared, coreVars>>
  <1> USE DEF queueVars, tableVars, coreVars, Wait, ReturnNil, ReturnError
  <1>0. TypeOK /\ \A v \in Workers : worker[v].pc # "idle" => worker[v].msg \in Messages
    BY DEF DeliveryInv, QueueInv
  <1>1. worker[w].msg \in Messages /\ worker[w].pc # "idle"
    BY <1>0 DEF WorkerStep, Crash, DropBadId, RejectPayload, Probe, AckUnknown,
                CascadeUpdate, Commit
  <1>2. UNCHANGED <<body, tries, shared, coreVars>>
    BY DEF WorkerStep, Crash, DropBadId, RejectPayload, Probe, AckUnknown,
           CascadeUpdate, Commit
  <1>3. UNCHANGED sqs \/ sqs' = [sqs EXCEPT ![worker[w].msg] = "deleted"]
    BY DEF WorkerStep, Crash, DropBadId, RejectPayload, Probe, AckUnknown,
           CascadeUpdate, Commit
  <1>4. \/ worker' = [worker EXCEPT ![w] = Waiting]
        \/ worker' = [worker EXCEPT ![w].pc = "begin"]
        \/ \E hit : worker' = [worker EXCEPT ![w].pc = "mark", ![w].hit = hit]
    BY DEF WorkerStep, Crash, DropBadId, RejectPayload, Probe, AckUnknown,
           CascadeUpdate, Commit
  <1>5. /\ \A v \in Workers \ {w} : worker'[v] = worker[v]
        /\ worker'[w] = Waiting \/ (worker'[w].msg = worker[w].msg /\ worker'[w].pc # "idle")
    BY <1>0, <1>4 DEF TypeOK
  <1>6. \A m \in Messages : m # worker[w].msg => sqs'[m] = sqs[m]
    BY <1>0, <1>3 DEF TypeOK
  <1>7. \A m \in Messages : sqs'[m] = "unsent" => sqs[m] = "unsent"
    BY <1>0, <1>1, <1>3 DEF TypeOK
  <1> QED  BY <1>1, <1>2, <1>5, <1>6, <1>7

\* Only a commit changes the table, and what it changes.
LEMMA TableFrame ==
  ASSUME DeliveryInv, NEW w \in Workers, WorkerStep(w) \/ Crash(w)
  PROVE  \/ UNCHANGED tableVars
         \/ /\ worker[w].pc = "mark" /\ worker'[w] = Waiting
            /\ CommitMarked(w, worker[w].msg)
  <1>0. TypeOK
    BY DEF DeliveryInv, QueueInv
  <1>1. CASE Commit(w)
    BY <1>0, <1>1 DEF Commit, ReturnNil, ReturnError, Wait, TypeOK
  <1>2. CASE ~Commit(w)
    BY <1>2 DEF WorkerStep, Crash, DropBadId, RejectPayload, Probe, AckUnknown, CascadeUpdate
  <1> QED  BY <1>1, <1>2

\* Marks of different messages are different.
LEMMA MarksDiffer == \A m, n : Mark(m) = Mark(n) => m = n
  BY DEF Mark

LEMMA IdlePreserved ==
  ASSUME DeliveryInv, [Next]_vars
  PROVE  \A w \in Workers : worker'[w].pc = "idle" => worker'[w].msg = NoMessage
  <1> DEFINE Goal == \A w \in Workers : worker'[w].pc = "idle" => worker'[w].msg = NoMessage
  <1>0. TypeOK /\ \A w \in Workers : worker[w].pc = "idle" => worker[w].msg = NoMessage
    BY DEF DeliveryInv, QueueInv
  <1>1. CASE UNCHANGED worker
    BY <1>0, <1>1
  <1>2. ASSUME NEW w \in Workers, WorkerStep(w) \/ Crash(w) PROVE Goal
    BY <1>0, <1>2, WorkerFrame DEF Waiting
  <1>3. ASSUME NEW w \in Workers, Receive(w) PROVE Goal
    BY <1>0, <1>3 DEF Receive, TypeOK
  <1> QED  BY <1>1, <1>2, <1>3 DEF Next, vars, Publish, VisibilityTimeout, Redrive, Rejoin,
                                   GrantCheck, GrantInsert

LEMMA UntouchedPreserved ==
  ASSUME DeliveryInv, [Next]_vars
  PROVE  \A m \in Messages : sqs'[m] = "unsent" => Untouched(m)'
  <1> DEFINE Goal == \A m \in Messages : sqs'[m] = "unsent" => Untouched(m)'
  <1>0. TypeOK /\ \A m \in Messages : sqs[m] = "unsent" => Untouched(m)
    BY DEF DeliveryInv, QueueInv
  <1> USE DEF queueVars, tableVars, coreVars
  <1>1. ASSUME \A m \in Messages : sqs'[m] = "unsent" => sqs[m] = "unsent",
               UNCHANGED <<ended, ledger, worker>>
        PROVE  Goal
    BY <1>0, <1>1 DEF Untouched
  <1>2. ASSUME NEW w \in Workers, WorkerStep(w) \/ Crash(w) PROVE Goal
    <2>1. SUFFICES ASSUME NEW m \in Messages, sqs'[m] = "unsent" PROVE Untouched(m)'
      OBVIOUS
    <2>2. sqs[m] = "unsent" /\ Untouched(m) /\ worker[w].msg # m
      BY <1>0, <1>2, <2>1, WorkerFrame DEF Untouched
    <2>3. \A v \in Workers : worker'[v].msg # m
      BY <1>2, <2>2, WorkerFrame, QueueAssumption DEF Untouched, Waiting
    <2>4. ended'[m] = 0 /\ \A bucket : <<bucket, m>> \notin ledger'
      <3>1. CASE UNCHANGED tableVars
        BY <2>2, <3>1 DEF Untouched
      <3>2. CASE CommitMarked(w, worker[w].msg)
        BY <1>0, <2>2, <3>2 DEF Untouched, CommitMarked, Mark, TypeOK
      <3> QED  BY <1>2, <3>1, <3>2, TableFrame
    <2> QED  BY <2>3, <2>4 DEF Untouched
  <1>3. ASSUME NEW w \in Workers, Receive(w) PROVE Goal
    <2>1. PICK m \in Messages :
            /\ sqs[m] = "visible" /\ sqs' = [sqs EXCEPT ![m] = "hidden"]
            /\ worker' = [worker EXCEPT ![w] = [pc |-> "handle", msg |-> m, hit |-> {}]]
      BY <1>3 DEF Receive
    <2>2. UNCHANGED <<ended, ledger>>
      BY <1>3 DEF Receive
    <2> QED  BY <1>0, <2>1, <2>2 DEF Untouched, TypeOK
  <1>4. ASSUME NEW m \in Messages, Publish(m) \/ VisibilityTimeout(m) \/ Redrive(m) PROVE Goal
    BY <1>0, <1>1, <1>4 DEF Publish, VisibilityTimeout, Redrive, TypeOK
  <1>5. ASSUME NEW u \in Users, Rejoin(u) \/ GrantCheck(u) \/ GrantInsert(u) PROVE Goal
    BY <1>1, <1>5 DEF Rejoin, GrantCheck, GrantInsert
  <1>6. CASE UNCHANGED vars
    BY <1>1, <1>6 DEF vars
  <1> QED  BY <1>2, <1>3, <1>4, <1>5, <1>6 DEF Next

\* A worker about to end delegations has probed first.
LEMMA ProbedFirst ==
  ASSUME DeliveryInv, NEW w \in Workers, WorkerStep(w) \/ Crash(w),
         \/ worker'[w].pc = "begin" /\ Kind(w) \in Cascading
         \/ worker'[w].pc = "mark" /\ worker'[w].hit # {},
         Alone(worker[w].msg)
  PROVE  Mark(worker[w].msg) \notin ledger /\ UNCHANGED tableVars
  <1>0. TypeOK
    BY DEF DeliveryInv, QueueInv
  <1>1. CASE Probe(w)
    BY <1>0, <1>1 DEF Probe, ReturnNil, ReturnError, Wait, Waiting, TypeOK, tableVars
  <1>2. CASE AckUnknown(w)
    BY <1>0, <1>2 DEF AckUnknown, Cascading, Kind, TypeOK
  <1>3. CASE CascadeUpdate(w)
    <2>1. worker[w].pc = "begin" /\ worker'[w].pc = "mark" /\ UNCHANGED tableVars
      BY <1>0, <1>3 DEF CascadeUpdate, TypeOK
    <2>2. Kind(w) \in Cascading
      BY <1>0, <1>3, <2>1 DEF CascadeUpdate, TypeOK
    <2> QED  BY <2>1, <2>2 DEF Alone, Kind
  <1>4. CASE DropBadId(w) \/ RejectPayload(w) \/ Commit(w) \/ Crash(w)
    <2>1. worker' = [worker EXCEPT ![w] = Waiting]
      BY <1>4 DEF DropBadId, RejectPayload, Commit, Crash, ReturnNil, ReturnError, Wait
    <2> QED  BY <1>0, <2>1 DEF Waiting, TypeOK
  <1> QED  BY <1>1, <1>2, <1>3, <1>4 DEF WorkerStep

\* A step of a worker leaves the messages that other workers have alone.
LEMMA AloneElsewhere ==
  ASSUME DeliveryInv, NEW w \in Workers, WorkerStep(w) \/ Crash(w),
         NEW m \in Messages, m # worker[w].msg, Alone(m)
  PROVE  Alone(m)'
  <1>0. TypeOK
    BY DEF DeliveryInv, QueueInv
  <1>1. body' = body /\ worker'[w].msg # m /\ \A v \in Workers \ {w} : worker'[v] = worker[v]
    BY WorkerFrame, QueueAssumption DEF Waiting
  <1>2. ended'[m] = ended[m] /\ (Mark(m) \in ledger' <=> Mark(m) \in ledger)
    <2>1. CASE UNCHANGED tableVars
      BY <2>1 DEF tableVars
    <2>2. CASE CommitMarked(w, worker[w].msg)
      BY <1>0, <2>2, MarksDiffer DEF CommitMarked, TypeOK
    <2> QED  BY <2>1, <2>2, TableFrame
  <1>3. Mark(m)' = Mark(m)
    BY <1>1 DEF Mark
  <1> QED  BY <1>1, <1>2, <1>3 DEF Alone

LEMMA AloneHere ==
  ASSUME DeliveryInv, NEW w \in Workers, WorkerStep(w) \/ Crash(w), Alone(worker[w].msg)
  PROVE  \A m \in Messages : m = worker[w].msg => Alone(m)'
  <1> SUFFICES ASSUME NEW m \in Messages, m = worker[w].msg PROVE Alone(m)'
    OBVIOUS
  <1>0. TypeOK /\ Alone(m)
    BY DEF DeliveryInv, QueueInv
  <1>1. body' = body /\ \A v \in Workers \ {w} : worker'[v].msg = worker[v].msg
    BY WorkerFrame
  <1>2. \A v \in Workers : worker'[v].msg = m => v = w
    BY <1>0, <1>1 DEF Alone
  <1>3. Mark(m)' = Mark(m)
    BY <1>1 DEF Mark
  <1>4. CASE UNCHANGED tableVars
    <2>1. \/ worker'[w].pc = "begin" /\ body[m].kind \in Cascading
          \/ worker'[w].pc = "mark" /\ worker'[w].hit # {}
          => Mark(m) \notin ledger
      BY ProbedFirst DEF Kind
    <2>2. ended'[m] <= 1 /\ (ended'[m] = 1 => Mark(m)' \in ledger')
      BY <1>0, <1>3, <1>4 DEF Alone, tableVars
    <2>3. \A v \in Workers :
            /\ worker'[v].msg = m
            /\ \/ worker'[v].pc = "begin" /\ body'[m].kind \in Cascading
               \/ worker'[v].pc = "mark" /\ worker'[v].hit # {}
            => Mark(m)' \notin ledger'
      BY <1>1, <1>2, <1>3, <1>4, <2>1 DEF tableVars
    <2> QED  BY <1>2, <2>2, <2>3 DEF Alone
  <1>5. CASE worker[w].pc = "mark" /\ worker'[w] = Waiting /\ CommitMarked(w, m)
    <2>1. \A v \in Workers : worker'[v].msg # m
      BY <1>2, <1>5, QueueAssumption DEF Waiting
    <2>2. Mark(m)' \in ledger'
      BY <1>3, <1>5 DEF CommitMarked
    <2>3. worker[w].hit # {} => ended[m] = 0
      <3>1. worker[w].hit # {} => Mark(m) \notin ledger
        BY <1>0, <1>5 DEF Alone
      <3>2. ended[m] \in Nat /\ ended[m] <= 1 /\ (ended[m] = 1 => Mark(m) \in ledger)
        BY <1>0 DEF Alone, TypeOK
      <3> QED  BY <3>1, <3>2
    <2>4. ended'[m] <= 1
      BY <1>0, <1>5, <2>3 DEF CommitMarked, Alone, TypeOK
    <2> QED  BY <2>1, <2>2, <2>4 DEF Alone
  <1> QED  BY <1>4, <1>5, TableFrame

LEMMA AlonePreserved ==
  ASSUME DeliveryInv, [Next]_vars
  PROVE  \A m \in Messages \ shared' : Alone(m)'
  <1> DEFINE Goal == \A m \in Messages \ shared' : Alone(m)'
  <1>0. TypeOK /\ \A m \in Messages \ shared : Alone(m)
    BY DEF DeliveryInv, QueueInv
  <1> USE DEF queueVars, tableVars, coreVars
  <1>1. ASSUME UNCHANGED <<body, shared, ended, ledger, worker>> PROVE Goal
    BY <1>0, <1>1 DEF Alone, Mark
  <1>2. ASSUME NEW m \in Messages, Publish(m) PROVE Goal
    <2>1. SUFFICES ASSUME NEW n \in Messages \ shared' PROVE Alone(n)'
      OBVIOUS
    <2>2. UNCHANGED <<shared, ended, ledger, worker>> /\ Alone(n)
      BY <1>0, <1>2 DEF Publish
    <2>3. CASE n = m
      <3>1. Untouched(n)
        BY <1>2, <2>3 DEF Publish, DeliveryInv
      <3> QED  BY <2>2, <3>1 DEF Untouched, Alone
    <2>4. CASE n # m
      <3>1. body'[n] = body[n]
        BY <1>0, <1>2, <2>4 DEF Publish, TypeOK
      <3> QED  BY <2>2, <3>1 DEF Alone, Mark
    <2> QED  BY <2>3, <2>4
  <1>3. ASSUME NEW m \in Messages, VisibilityTimeout(m) \/ Redrive(m) PROVE Goal
    BY <1>1, <1>3 DEF VisibilityTimeout, Redrive
  <1>4. ASSUME NEW u \in Users, Rejoin(u) \/ GrantCheck(u) \/ GrantInsert(u) PROVE Goal
    BY <1>1, <1>4 DEF Rejoin, GrantCheck, GrantInsert
  <1>5. ASSUME NEW w \in Workers, Receive(w) PROVE Goal
    <2>1. PICK m \in Messages :
            /\ shared' = shared \cup {n \in {m} : \E v \in Workers : worker[v].msg = n}
            /\ worker' = [worker EXCEPT ![w] = [pc |-> "handle", msg |-> m, hit |-> {}]]
      BY <1>5 DEF Receive
    <2>2. UNCHANGED <<body, ended, ledger>>
      BY <1>5 DEF Receive
    <2>3. SUFFICES ASSUME NEW n \in Messages \ shared' PROVE Alone(n)'
      OBVIOUS
    <2>4. Alone(n) /\ (n = m => \A v \in Workers : worker[v].msg # m)
      BY <1>0, <2>1
    <2>5. /\ worker'[w].pc = "handle" /\ worker'[w].msg = m
          /\ \A v \in Workers \ {w} : worker'[v] = worker[v]
      BY <1>0, <2>1 DEF TypeOK
    <2> QED  BY <2>2, <2>4, <2>5 DEF Alone, Mark
  <1>6. ASSUME NEW w \in Workers, WorkerStep(w) \/ Crash(w) PROVE Goal
    <2>1. shared' = shared
      BY <1>6, WorkerFrame
    <2> QED  BY <1>0, <1>6, <2>1, AloneElsewhere, AloneHere
  <1>7. CASE UNCHANGED vars
    BY <1>1, <1>7 DEF vars
  <1> QED  BY <1>2, <1>3, <1>4, <1>5, <1>6, <1>7 DEF Next

\* A step that keeps a user's delegation waiting for the message it waited for.
LEMMA StillAwaits ==
  ASSUME NEW m \in Messages, NEW u, Awaits(u, m),
         body'[m] = body[m], sqs'[m] # "unsent", Mark(m) \notin ledger',
         \A w \in Workers : worker'[w].msg = m /\ worker'[w].pc = "mark"
                              => worker'[w] = worker[w] \/ u \in worker'[w].hit
  PROVE  Awaits(u, m)'
  BY DEF Awaits, Mark

LEMMA AwaitsPreserved ==
  ASSUME DeliveryInv, [Next]_vars
  PROVE  \A u \in (live' \ members') \ late' : \E m \in Messages : Awaits(u, m)'
  <1> DEFINE Goal == \A u \in (live' \ members') \ late' : \E m \in Messages : Awaits(u, m)'
  <1>0. TypeOK /\ \A u \in (live \ members) \ late : \E m \in Messages : Awaits(u, m)
    BY DEF DeliveryInv, QueueInv
  <1> USE DEF queueVars, tableVars, coreVars
  <1>1. ASSUME UNCHANGED <<body, ledger, worker>>,
               \A m \in Messages : sqs'[m] = "unsent" => sqs[m] = "unsent",
               (live' \ members') \ late' \subseteq (live \ members) \ late
        PROVE  Goal
    BY <1>0, <1>1 DEF Awaits, Mark
  <1>2. ASSUME NEW m \in Messages, Publish(m) PROVE Goal
    <2>1. SUFFICES ASSUME NEW u \in (live' \ members') \ late'
                   PROVE  \E n \in Messages : Awaits(u, n)'
      OBVIOUS
    <2>2. UNCHANGED <<ledger, worker, live, late>> /\ u \in live \ late
      BY <1>2, <2>1 DEF Publish
    <2>3. CASE u \notin members
      <3>1. PICK n \in Messages : Awaits(u, n)
        BY <1>0, <2>2, <2>3
      <3>2. n # m
        BY <1>2, <3>1 DEF Publish, Awaits
      <3>3. body'[n] = body[n] /\ sqs'[n] # "unsent"
        BY <1>0, <1>2, <3>1, <3>2 DEF Publish, TypeOK, Awaits
      <3> QED  BY <2>2, <3>1, <3>3, StillAwaits DEF Awaits
    <2>4. CASE u \in members
      <3>1. body'[m].kind \in {"revoked", "purged"} /\ u \in body'[m].users
        BY <1>0, <1>2, <2>1, <2>4 DEF Publish, TypeOK
      <3>2. sqs'[m] # "unsent"
        BY <1>0, <1>2 DEF Publish, TypeOK
      <3>3. Untouched(m)
        BY <1>2 DEF Publish, DeliveryInv
      <3>4. Awaits(u, m)'
        BY <2>2, <3>1, <3>2, <3>3 DEF Awaits, Untouched, Mark
      <3> QED  BY <3>4
    <2> QED  BY <2>3, <2>4
  <1>3. ASSUME NEW m \in Messages, VisibilityTimeout(m) \/ Redrive(m) PROVE Goal
    BY <1>0, <1>1, <1>3 DEF VisibilityTimeout, Redrive, TypeOK
  <1>4. ASSUME NEW u \in Users, Rejoin(u) \/ GrantCheck(u) \/ GrantInsert(u) PROVE Goal
    BY <1>1, <1>4 DEF Rejoin, GrantCheck, GrantInsert
  <1>5. ASSUME NEW w \in Workers, Receive(w) PROVE Goal
    <2>1. PICK m \in Messages :
            /\ sqs' = [sqs EXCEPT ![m] = "hidden"]
            /\ worker' = [worker EXCEPT ![w] = [pc |-> "handle", msg |-> m, hit |-> {}]]
      BY <1>5 DEF Receive
    <2>2. UNCHANGED <<body, ledger, live, members, late>>
      BY <1>5 DEF Receive
    <2>3. /\ worker'[w].pc = "handle" /\ \A v \in Workers \ {w} : worker'[v] = worker[v]
          /\ \A n \in Messages : sqs'[n] = "unsent" => sqs[n] = "unsent"
      BY <1>0, <2>1 DEF TypeOK
    <2> QED  BY <1>0, <2>2, <2>3 DEF Awaits, Mark
  <1>6. ASSUME NEW w \in Workers, WorkerStep(w) \/ Crash(w) PROVE Goal
    <2>1. SUFFICES ASSUME NEW u \in (live' \ members') \ late'
                   PROVE  \E n \in Messages : Awaits(u, n)'
      OBVIOUS
    <2>2. /\ UNCHANGED <<body, members, late>>
          /\ \A v \in Workers \ {w} : worker'[v] = worker[v]
          /\ \A n \in Messages : sqs'[n] = "unsent" => sqs[n] = "unsent"
      BY <1>6, WorkerFrame
    <2>3. u \in live
      BY <1>6, <2>1, TableFrame DEF CommitMarked
    <2>4. PICK m \in Messages : Awaits(u, m)
      BY <1>0, <2>1, <2>2, <2>3
    <2>5. Mark(m) \notin ledger'
      <3>1. CASE UNCHANGED tableVars
        BY <2>4, <3>1 DEF Awaits
      <3>2. CASE worker[w].pc = "mark" /\ CommitMarked(w, worker[w].msg)
        BY <2>1, <2>4, <3>2, MarksDiffer DEF Awaits, CommitMarked
      <3> QED  BY <1>6, <3>1, <3>2, TableFrame
    <2>6. worker'[w].msg = m /\ worker'[w].pc = "mark" => u \in worker'[w].hit
      <3>1. CASE CascadeUpdate(w)
        <4>1. worker'[w].msg = worker[w].msg
          BY <1>0, <3>1 DEF CascadeUpdate, TypeOK
        <4>2. Kind(w) \in Cascading => worker'[w].hit = body[worker[w].msg].users \cap live
          BY <1>0, <3>1 DEF CascadeUpdate, TypeOK
        <4> QED  BY <2>3, <2>4, <4>1, <4>2 DEF Awaits, Kind, Cascading
      <3>2. CASE Probe(w) \/ AckUnknown(w)
        <4>1. \/ worker' = [worker EXCEPT ![w] = Waiting]
              \/ worker' = [worker EXCEPT ![w].pc = "begin"]
          BY <3>2 DEF Probe, AckUnknown, ReturnNil, ReturnError, Wait
        <4> QED  BY <1>0, <4>1 DEF Waiting, TypeOK
      <3>3. CASE DropBadId(w) \/ RejectPayload(w) \/ Commit(w) \/ Crash(w)
        <4>1. worker' = [worker EXCEPT ![w] = Waiting]
          BY <3>3 DEF DropBadId, RejectPayload, Commit, Crash, ReturnNil, ReturnError, Wait
        <4> QED  BY <1>0, <4>1 DEF Waiting, TypeOK
      <3> QED  BY <1>6, <3>1, <3>2, <3>3 DEF WorkerStep
    <2>7. sqs'[m] # "unsent"
      BY <2>2, <2>4 DEF Awaits
    <2> QED  BY <2>2, <2>4, <2>5, <2>6, <2>7, StillAwaits
  <1>7. CASE UNCHANGED vars
    BY <1>1, <1>7 DEF vars
  <1> QED  BY <1>2, <1>3, <1>4, <1>5, <1>6, <1>7 DEF Next

LEMMA DeliveryPreserved ==
  ASSUME DeliveryInv, [Next]_vars
  PROVE  DeliveryInv'
  <1>1. QueueInv'
    BY QueuePreserved DEF DeliveryInv
  <1> QED  BY <1>1, IdlePreserved, UntouchedPreserved, AlonePreserved, AwaitsPreserved
             DEF DeliveryInv

\* A message ends delegations at most once, however often SQS delivers it and
\* whatever fails in between: the probe and the mark in the cascade's own transaction
\* see to it, unless two workers have the message at the same time.
THEOREM RedeliveriesHarmless == Spec => []RedeliveryIsNoOp
  <1>1. DeliveryInv => RedeliveryIsNoOp
    BY DEF DeliveryInv, Alone, RedeliveryIsNoOp
  <1> QED  BY <1>1, DeliveryInitially, DeliveryPreserved, PTL DEF Spec

\* When the queue is empty and nothing was dead-lettered, every removal has ended the
\* delegation it was about: a row of a user who is not a member was inserted after
\* the user left, by a create whose membership check came before.
THEOREM DeparturesEndGrants == Spec => []OnlyLateGrantsRemain
  <1>1. DeliveryInv => OnlyLateGrantsRemain
    <2> SUFFICES ASSUME DeliveryInv, \A m \in Messages : sqs[m] \in {"unsent", "deleted"},
                        NEW u \in live \ members, u \notin late
                 PROVE  FALSE
      BY DEF OnlyLateGrantsRemain
    <2>1. PICK m \in Messages : Awaits(u, m)
      BY DEF DeliveryInv
    <2>2. sqs[m] = "deleted" /\ body[m].kind # "bad_id" /\ Mark(m) \notin ledger
      BY <2>1 DEF Awaits
    <2> QED  BY <2>2 DEF DeliveryInv, QueueInv, NoCascadeLost
  <1> QED  BY <1>1, DeliveryInitially, DeliveryPreserved, PTL DEF Spec
==============================================================================
