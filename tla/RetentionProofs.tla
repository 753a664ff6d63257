--------------------------- MODULE RetentionProofs ---------------------------
(***************************************************************************)
(* The four invariants of Retention, for any delegations, messages,        *)
(* environments, periods and batch size.                                   *)
(***************************************************************************)
EXTENDS Retention, FiniteSetTheorems, TLAPS

\* What a mark is worth: it is no older than its message's publication, and a
\* message that was processed before a delegation was granted is marked, or past
\* the time SQS keeps it.
MarksLast ==
  /\ \A m \in Messages : queue[m] # Unsent => queue[m].at # None
  /\ \A m \in Messages : queue[m].at # None => queue[m].at <= now
  /\ \A m \in Messages : ledger[m] # None => queue[m].at # None /\ queue[m].at <= ledger[m]
  /\ \A m \in Messages, d \in Ids : <<m, d>> \in after =>
       /\ queue[m].at # None
       /\ ledger[m] # None \/ now > queue[m].at + QueueLife

\* Pools and the privilege guard, at each step of the job.
JobConnected ==
  /\ job.pc = "connect" => job.open = {"app"}
  /\ job.pc = "purge" => SystemGuard

\* What was purged stays gone.
PurgedAreGone == \A p \in purged : rows[p.id].st = "gone"

RetentionInv ==
  /\ TypeOK /\ MarksLast /\ JobConnected /\ PurgedAreGone
  /\ PurgedOnlyExpired /\ NewGrantsSurvive /\ SuccessMeansSwept

RowType == [st : {"absent", "live", "closed", "gone"},
            deletedAt : 0..MaxTime \cup {None}, by : Messages \cup {None}]

JobType == [pc : {"off", "connect", "purge", "prune", "done", "failed"}, name : JobNames,
            open : SUBSET {"app", "sys"}, due : Nat, hit : Nat]

LEMMA RetentionInitially == Init => RetentionInv
  <1> SUFFICES ASSUME Init PROVE RetentionInv
    OBVIOUS
  <1> USE RetentionAssumption
  <1>1. TypeOK
    <2>1. job \in JobType /\ job.pc = "off"
      BY DEF Init, NoJob, JobNames, JobType
    <2>2. rows \in [Ids -> RowType]
      BY DEF Init, Absent, RowType
    <2>3. queue \in [Messages -> [kind : {"revoked", "purged", None}, at : 0..MaxTime \cup {None}]]
      BY DEF Init, Unsent
    <2> QED  BY <2>1, <2>2, <2>3 DEF Init, TypeOK, RowType, JobType
  <1>2. MarksLast
    BY DEF Init, MarksLast, Unsent
  <1>3. JobConnected /\ PurgedAreGone /\ PurgedOnlyExpired /\ NewGrantsSurvive /\ SuccessMeansSwept
    BY DEF Init, JobConnected, PurgedAreGone, PurgedOnlyExpired, NewGrantsSurvive,
           SuccessMeansSwept, NoJob
  <1> QED  BY <1>1, <1>2, <1>3 DEF RetentionInv

LEMMA BatchCounts ==
  ASSUME NEW b \in SUBSET Ids
  PROVE  Cardinality(b) \in Nat
  BY RetentionAssumption, FS_Subset, FS_CardinalityType

\* What a purge does, whichever batch it takes.
LEMMA PurgeEffect ==
  ASSUME Purge
  PROVE  \E b \in SUBSET PurgeDue :
           /\ rows' = [d \in Ids |-> IF d \in b THEN [rows[d] EXCEPT !.st = "gone"] ELSE rows[d]]
           /\ purged' = purged \cup {[id |-> d, at |-> now] : d \in b}
           /\ job' = [job EXCEPT !.pc = "prune", !.due = Cardinality(PurgeDue),
                                 !.hit = Cardinality(b)]
           /\ Cardinality(b) = Min({BatchLimit, Cardinality(Visible(PurgeDue))})
  <1>1. PICK b \in Batches(Visible(PurgeDue), BatchLimit) :
          /\ rows' = [d \in Ids |-> IF d \in b THEN [rows[d] EXCEPT !.st = "gone"] ELSE rows[d]]
          /\ purged' = purged \cup {[id |-> d, at |-> now] : d \in b}
          /\ job' = [job EXCEPT !.pc = "prune", !.due = Cardinality(PurgeDue),
                                !.hit = Cardinality(b)]
    BY Zenon DEF Purge
  <1>2. b \in SUBSET Visible(PurgeDue)
        /\ Cardinality(b) = Min({BatchLimit, Cardinality(Visible(PurgeDue))})
    BY Zenon DEF Batches
  <1>3. b \in SUBSET PurgeDue
    BY <1>2 DEF Visible
  <1> QED  BY <1>1, <1>2, <1>3, Zenon

\* Rows, marks and the job are well typed after every step.
LEMMA TypePreserved ==
  ASSUME RetentionInv, [Next]_vars
  PROVE  TypeOK'
  <1> USE RetentionAssumption DEF RetentionInv, TypeOK
  <1>1. ASSUME NEW d \in Ids, Create(d) \/ Close(d) PROVE TypeOK'
    BY <1>1 DEF Create, Close, jobVars
  <1>2. ASSUME NEW m \in Messages, NEW kind \in {"revoked", "purged"}, Publish(m, kind)
        PROVE TypeOK'
    BY <1>2 DEF Publish, tableVars, jobVars
  <1>3. ASSUME NEW m \in Messages, Deliver(m) PROVE TypeOK'
    <2>1. UNCHANGED <<now, member, queue, after, job, setting, purged, faults>>
      BY <1>3 DEF Deliver, jobVars
    <2>2. rows' \in [Ids -> RowType]
      <3>1. [st |-> "closed", deletedAt |-> now, by |-> m] \in RowType
        BY DEF RowType
      <3>2. \A d \in Ids : rows[d] \in RowType
        BY DEF RowType
      <3> QED  BY <1>3, <3>1, <3>2 DEF Deliver
    <2>3. ledger' \in [Messages -> 0..MaxTime \cup {None}]
      BY <1>3 DEF Deliver
    <2> QED  BY <2>1, <2>2, <2>3 DEF RowType
  <1>4. CASE Rejoin
    BY <1>4 DEF Rejoin, tableVars, jobVars
  <1>4a. CASE Tick
    <2>1. now' \in 0..MaxTime
      BY <1>4a DEF Tick
    <2> QED  BY <1>4a, <2>1 DEF Tick, tableVars, jobVars
  <1>5. ASSUME NEW name \in JobNames, Launch(name) PROVE TypeOK'
    BY <1>5 DEF Launch, NoJob, tableVars
  <1>6. CASE Connect
    BY <1>6 DEF Connect, JobConnected, tableVars
  <1>7. CASE Purge
    <2>1. PICK b \in SUBSET PurgeDue :
            /\ rows' = [d \in Ids |-> IF d \in b THEN [rows[d] EXCEPT !.st = "gone"] ELSE rows[d]]
            /\ purged' = purged \cup {[id |-> d, at |-> now] : d \in b}
            /\ job' = [job EXCEPT !.pc = "prune", !.due = Cardinality(PurgeDue),
                                  !.hit = Cardinality(b)]
      BY <1>7, PurgeEffect
    <2>2. b \in SUBSET Ids /\ Cardinality(b) \in Nat /\ Cardinality(PurgeDue) \in Nat
      BY BatchCounts DEF PurgeDue
    <2>3. UNCHANGED <<now, member, queue, ledger, after, setting, faults>> /\ job.pc = "purge"
      BY <1>7 DEF Purge
    <2>4. rows' \in [Ids -> RowType]
      BY <2>1 DEF RowType
    <2>5. purged' \subseteq [id : Ids, at : 0..MaxTime]
      BY <2>1, <2>2
    <2>6. job' \in JobType /\ job'.open = job.open
      BY <2>1, <2>2 DEF JobType
    <2> QED  BY <2>3, <2>4, <2>5, <2>6 DEF RowType, JobType
  <1>8. CASE Prune
    BY <1>8 DEF Prune
  <1>9. CASE PurgeFails \/ PruneFails \/ Crash
    <2>1. faults' \in 0..MaxFaults
      BY <1>9 DEF PurgeFails, PruneFails, Crash, Fault
    <2>2. job' \in JobType /\ (job'.pc \in {"purge", "prune", "done"} => job'.open = {"app", "sys"})
      <3>1. CASE PurgeFails \/ PruneFails
        BY <3>1 DEF PurgeFails, PruneFails, JobType
      <3>2. CASE Crash
        BY <3>2 DEF Crash, NoJob, JobNames, JobType
      <3> QED  BY <1>9, <3>1, <3>2
    <2> QED  BY <1>9, <2>1, <2>2 DEF PurgeFails, PruneFails, Crash, JobType, tableVars
  <1>10. CASE Drain
    BY <1>10 DEF Drain, NoJob, JobNames, tableVars
  <1>11. CASE UNCHANGED vars
    BY <1>11 DEF vars, tableVars, jobVars
  <1> QED  BY <1>1, <1>2, <1>3, <1>4, <1>4a, <1>5, <1>6, <1>7, <1>8, <1>9, <1>10, <1>11
           DEF Next, Cleanup

\* A mark goes only when its message is past SQS's keeping.
LEMMA PruneKeepsLate ==
  ASSUME RetentionInv, Prune, NEW m \in Messages, ledger[m] # None, ledger'[m] = None
  PROVE  now > queue[m].at + QueueLife
  <1>1. m \in PruneDue
    <2>1. PICK b \in Batches(PruneDue, BatchLimit) :
            ledger' = [n \in Messages |-> IF n \in b THEN None ELSE ledger[n]]
      BY Zenon DEF Prune
    <2>2. b \in SUBSET PruneDue
      BY Zenon DEF Batches
    <2> QED  BY <2>1, <2>2
  <1>2. ledger[m] \in Int /\ queue[m].at \in Int /\ queue[m].at <= ledger[m]
    BY RetentionAssumption DEF RetentionInv, TypeOK, MarksLast
  <1>3. TTLDays \in Int /\ QueueLife <= TTLDays
    BY RetentionAssumption DEF TTLDays, OrDefault, RetentionInv, TypeOK
  <1>4. ledger[m] < now - TTLDays /\ now \in Int
    BY <1>1 DEF PruneDue, RetentionInv, TypeOK
  <1> QED  BY <1>2, <1>3, <1>4, RetentionAssumption

LEMMA MarksPreserved ==
  ASSUME RetentionInv, [Next]_vars
  PROVE  MarksLast' /\ NewGrantsSurvive'
  <1> USE RetentionAssumption DEF RetentionInv, TypeOK, MarksLast, NewGrantsSurvive
  <1>1. ASSUME NEW d \in Ids, Create(d) PROVE MarksLast' /\ NewGrantsSurvive'
    <2>1. rows[d].by = None /\ \A c \in Ids : rows'[c].by = rows[c].by
      BY <1>1 DEF Create, Absent
    <2> QED  BY <1>1, <2>1 DEF Create
  <1>2. ASSUME NEW d \in Ids, Close(d) PROVE MarksLast' /\ NewGrantsSurvive'
    BY <1>2 DEF Close
  <1>3. ASSUME NEW m \in Messages, NEW kind \in {"revoked", "purged"}, Publish(m, kind)
        PROVE MarksLast' /\ NewGrantsSurvive'
    <2>1. queue[m].at = None /\ queue'[m].at = now /\ now # None
      BY <1>3 DEF Publish, Unsent
    <2>2. \A n \in Messages : n # m => queue'[n] = queue[n]
      BY <1>3 DEF Publish
    <2> QED  BY <1>3, <2>1, <2>2 DEF Publish, tableVars
  <1>4. ASSUME NEW m \in Messages, Deliver(m) PROVE MarksLast' /\ NewGrantsSurvive'
    <2>1. queue[m].at # None /\ queue[m].at \in Int /\ now <= queue[m].at + QueueLife
          /\ ledger[m] = None /\ queue[m].at <= now
      BY <1>4 DEF Deliver, IsProcessed
    <2>2. \A d \in Ids : <<m, d>> \notin after
      BY <2>1
    <2>3. MarksLast'
      BY <1>4, <2>1, <2>2 DEF Deliver
    <2>4. \A d \in Ids : rows'[d].by \in {rows[d].by, m}
      BY <1>4 DEF Deliver
    <2> QED  BY <1>4, <2>2, <2>3, <2>4 DEF Deliver
  <1>5. CASE Rejoin
    BY <1>5 DEF Rejoin, tableVars
  <1>6. CASE Tick
    BY <1>6 DEF Tick, tableVars
  <1>7. CASE Purge
    <2>0. PICK b \in SUBSET PurgeDue :
            rows' = [d \in Ids |-> IF d \in b THEN [rows[d] EXCEPT !.st = "gone"] ELSE rows[d]]
      BY <1>7, PurgeEffect
    <2>1. \A d \in Ids : rows'[d].by = rows[d].by
      BY <2>0
    <2> QED  BY <1>7, <2>1 DEF Purge
  <1>8. CASE Prune
    <2>1. \A m \in Messages : ledger'[m] \in {ledger[m], None}
      BY <1>8 DEF Prune
    <2>2. UNCHANGED <<now, queue, after, rows>>
      BY <1>8 DEF Prune
    <2>3. \A m \in Messages : ledger[m] # None /\ ledger'[m] = None => now > queue[m].at + QueueLife
      BY <1>8, PruneKeepsLate
    <2> QED  BY <2>1, <2>2, <2>3
  <1>9. CASE \/ Connect \/ Drain \/ PurgeFails \/ PruneFails \/ Crash \/ UNCHANGED vars
             \/ \E name \in JobNames : Launch(name)
    <2>1. UNCHANGED <<now, queue, rows, ledger, after>>
      BY <1>9 DEF Connect, Drain, PurgeFails, PruneFails, Crash, Launch, vars, tableVars
    <2> QED  BY <2>1
  <1> QED  BY <1>1, <1>2, <1>3, <1>4, <1>5, <1>6, <1>7, <1>8, <1>9 DEF Next, Cleanup

\* The cut-off of the purge is the retention that PurgedOnlyExpired speaks of.
LEMMA DueIsExpired ==
  ASSUME RetentionInv, NEW d \in PurgeDue
  PROVE  /\ d \in Ids /\ rows[d].deletedAt # None
         /\ now - rows[d].deletedAt >
              (IF setting.retentionDays <= 0 THEN DefaultRetentionDays ELSE setting.retentionDays)
  <1> DEFINE kept == IF setting.retentionDays <= 0 THEN DefaultRetentionDays
                                                   ELSE setting.retentionDays
  <1>1. d \in Ids /\ rows[d].deletedAt # None /\ rows[d].deletedAt < now - kept
    BY DEF PurgeDue, RetentionDays, OrDefault
  <1>2. rows[d].deletedAt \in Int /\ now \in Int /\ kept \in Int
    BY <1>1, RetentionAssumption DEF RetentionInv, TypeOK
  <1> QED  BY <1>1, <1>2

LEMMA PurgesPreserved ==
  ASSUME RetentionInv, [Next]_vars
  PROVE  PurgedAreGone' /\ PurgedOnlyExpired'
  <1> USE DEF RetentionInv
  <1>1. CASE Purge
    <2>1. PICK b \in SUBSET PurgeDue :
            /\ rows' = [d \in Ids |-> IF d \in b THEN [rows[d] EXCEPT !.st = "gone"] ELSE rows[d]]
            /\ purged' = purged \cup {[id |-> d, at |-> now] : d \in b}
      BY <1>1, PurgeEffect
    <2>2. setting' = setting
      BY <1>1 DEF Purge
    <2>3. \A d \in Ids : rows'[d].deletedAt = rows[d].deletedAt
                         /\ (rows'[d].st = rows[d].st \/ rows'[d].st = "gone")
      BY <2>1 DEF TypeOK
    <2>4. ASSUME NEW p \in purged'
          PROVE  /\ rows'[p.id].st = "gone" /\ rows'[p.id].deletedAt # None
                 /\ p.at - rows'[p.id].deletedAt >
                      (IF setting.retentionDays <= 0 THEN DefaultRetentionDays
                                                     ELSE setting.retentionDays)
      <3>1. CASE p \in purged
        BY <3>1, <2>3 DEF TypeOK, PurgedAreGone, PurgedOnlyExpired
      <3>2. CASE p \notin purged
        <4>1. PICK d \in b : p = [id |-> d, at |-> now]
          BY <3>2, <2>1, <2>4
        <4>2. d \in PurgeDue /\ d \in Ids
          BY DueIsExpired
        <4>3. rows'[d].st = "gone"
          BY <4>2, <2>1 DEF TypeOK
        <4> QED  BY <4>1, <4>2, <4>3, <2>3, DueIsExpired
      <3> QED  BY <3>1, <3>2
    <2> QED  BY <2>2, <2>4 DEF PurgedAreGone, PurgedOnlyExpired
  <1>2. CASE ~ Purge
    <2>1. purged' = purged /\ setting' = setting
      BY <1>2 DEF Next, Cleanup, Create, Close, Deliver, Publish, Rejoin, Tick, Launch, Connect,
                  Prune, Drain, PurgeFails, PruneFails, Crash, vars, jobVars
    <2>2. \A d \in Ids : rows[d].st = "gone" => rows'[d] = rows[d]
      <3>1. ASSUME NEW c \in Ids, Create(c) \/ Close(c)
            PROVE  \A d \in Ids : rows[d].st = "gone" => rows'[d] = rows[d]
        BY <3>1 DEF Create, Close, Absent, TypeOK
      <3>2. ASSUME NEW m \in Messages, Deliver(m)
            PROVE  \A d \in Ids : rows[d].st = "gone" => rows'[d] = rows[d]
        <4>1. \A d \in Scrubbed(queue[m].kind) : rows[d].st \in {"live", "closed"}
          BY DEF Scrubbed
        <4> QED  BY <3>2, <4>1 DEF Deliver
      <3>3. CASE rows' = rows
        BY <3>3
      <3>4. ASSUME ~ \E c \in Ids : Create(c) \/ Close(c), ~ \E m \in Messages : Deliver(m)
            PROVE  rows' = rows
        BY <1>2, <3>4
           DEF Next, Cleanup, Publish, Rejoin, Tick, Launch, Connect, Prune, Drain, PurgeFails,
               PruneFails, Crash, vars, tableVars
      <3> QED  BY <3>1, <3>2, <3>3, <3>4
    <2> QED  BY <2>1, <2>2 DEF TypeOK, PurgedAreGone, PurgedOnlyExpired
  <1> QED  BY <1>1, <1>2

LEMMA JobPreserved ==
  ASSUME RetentionInv, [Next]_vars
  PROVE  JobConnected' /\ SuccessMeansSwept'
  <1> USE DEF RetentionInv, JobConnected, SuccessMeansSwept, SystemGuard, BatchLimit, OrDefault
  <1>1. CASE job' = job /\ setting' = setting
    BY <1>1
  <1>2. CASE \E name \in JobNames : Launch(name)
    BY <1>2 DEF Launch, NoJob, TypeOK, JobNames
  <1>3. CASE Connect
    BY <1>3 DEF Connect, TypeOK
  <1>4. CASE Purge
    <2>1. PICK b \in SUBSET PurgeDue :
            /\ job' = [job EXCEPT !.pc = "prune", !.due = Cardinality(PurgeDue),
                                  !.hit = Cardinality(b)]
            /\ Cardinality(b) = Min({BatchLimit, Cardinality(Visible(PurgeDue))})
      BY <1>4, PurgeEffect
    <2>2. setting' = setting /\ job.pc = "purge"
      BY <1>4 DEF Purge
    <2>3. ~ setting.devLike => Visible(PurgeDue) = PurgeDue
      BY <2>2 DEF Visible
    <2>4. job'.pc = "prune" /\ job'.due = Cardinality(PurgeDue) /\ job'.hit = Cardinality(b)
      BY <2>1 DEF TypeOK
    <2> QED  BY <2>1, <2>2, <2>3, <2>4
  <1>5. CASE Prune \/ PruneFails \/ PurgeFails \/ Drain \/ Crash
    <2>1. setting' = setting
      BY <1>5 DEF Prune, PruneFails, PurgeFails, Drain, Crash
    <2>2. CASE Prune \/ PruneFails
      <3>1. job.pc = "prune" /\ job' = [job EXCEPT !.pc = "done"]
        BY <2>2 DEF Prune, PruneFails
      <3> QED  BY <2>1, <3>1 DEF TypeOK
    <2>3. CASE PurgeFails \/ Drain \/ Crash
      <3>1. job'.pc \in {"failed", "off"}
        <4>1. job' = NoJob \/ job' = [job EXCEPT !.pc = "failed"]
          BY <2>3 DEF PurgeFails, Drain, Crash
        <4>2. CASE job' = NoJob
          BY <4>2 DEF NoJob
        <4>3. CASE job' = [job EXCEPT !.pc = "failed"]
          <5>1. job \in JobType
            BY DEF TypeOK, JobType
          <5> QED  BY <4>3, <5>1 DEF JobType
        <4> QED  BY <4>1, <4>2, <4>3
      <3> QED  BY <3>1
    <2> QED  BY <1>5, <2>2, <2>3
  <1>6. ASSUME ~ Connect, ~ Purge, ~ (Prune \/ PruneFails \/ PurgeFails \/ Drain \/ Crash),
               ~ \E name \in JobNames : Launch(name)
        PROVE  job' = job /\ setting' = setting
    BY <1>6 DEF Next, Cleanup, Create, Close, Deliver, Publish, Rejoin, Tick, vars, jobVars
  <1> QED  BY <1>1, <1>2, <1>3, <1>4, <1>5, <1>6

LEMMA RetentionInvHolds == Spec => []RetentionInv
  <1>1. ASSUME RetentionInv, [Next]_vars PROVE RetentionInv'
    BY <1>1, TypePreserved, MarksPreserved, PurgesPreserved, JobPreserved DEF RetentionInv
  <1> QED  BY <1>1, RetentionInitially, PTL DEF Spec

\* The state of the tenant's rows, of SQS, of processed_events and of the
\* reconciler is well typed, and a job at work has both pools.
THEOREM TypeCorrect == Spec => []TypeOK
  BY RetentionInvHolds, PTL DEF RetentionInv

\* Cleanup never purges a delegation that is not soft-deleted or whose retention,
\* the configured or the default one, is not over.
THEOREM NothingPurgedEarly == Spec => []PurgedOnlyExpired
  BY RetentionInvHolds, PTL DEF RetentionInv

\* As long as the ledger's TTL covers the time SQS keeps a message, no message ends
\* a delegation that was granted after it was processed, whatever the job prunes.
THEOREM GrantsSurviveRedelivery == Spec => []NewGrantsSurvive
  BY RetentionInvHolds, PTL DEF RetentionInv

\* Outside development a cleanup that succeeds has seen every tenant's rows.
THEOREM SuccessIsNotBlind == Spec => []SuccessMeansSwept
  BY RetentionInvHolds, PTL DEF RetentionInv
=============================================================================
