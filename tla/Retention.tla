------------------------------ MODULE Retention ------------------------------
(***************************************************************************)
(* What is thrown away and when: the cascades soft-delete rows, the        *)
(* monthly delegation-cleanup job of cmd/reconciler purges them after the  *)
(* retention and forgets old marks of processed_events.  A mark that is    *)
(* forgotten while SQS may still deliver its message would let a revoke    *)
(* run twice, on delegations granted after the user came back.             *)
(*                                                                         *)
(* One tenant and one user; time in days.                                  *)
(***************************************************************************)
EXTENDS Integers, FiniteSets, FiniteSetsExt

CONSTANTS
  Ids,
  Messages,              \* envelope ids of MembershipRevoked and TenantMembershipsPurged
  Settings,              \* environments the CronJob may be given
  QueueLife,             \* days SQS keeps a message, the dead-letter queue included
  DefaultRetentionDays,
  DefaultTTLDays,
  DefaultLimit,
  MaxTime,               \* bound on now
  MaxFaults,             \* bound on the job's failures and crashes
  None

\* A mark must outlive every delivery of its message.
ASSUME RetentionAssumption ==
  /\ DefaultRetentionDays \in Nat /\ DefaultLimit \in Nat \ {0}
  /\ MaxTime \in Nat /\ MaxFaults \in Nat
  /\ QueueLife \in Nat /\ DefaultTTLDays \in Nat /\ QueueLife <= DefaultTTLDays
  /\ \A s \in Settings : s.ttlDays \in Int /\ s.retentionDays \in Int
  /\ \A s \in Settings : s.ttlDays <= 0 \/ QueueLife <= s.ttlDays
  /\ None \notin Int /\ None \notin Messages /\ IsFiniteSet(Ids)

VARIABLES
  now,
  rows,        \* the delegations: state, deleted_at, and the message that ended it
  member,      \* whether Core has the user as a member
  queue,       \* per message, what it says and when it was published
  ledger,      \* per message, processed_at of its mark
  after,       \* history: <<m, d>> where d was granted after m was processed
  job,         \* the reconciler process
  setting,     \* its environment
  purged,      \* history: the rows purged and when
  faults

tableVars == <<rows, ledger, after>>
jobVars == <<job, setting, purged, faults>>
vars == <<now, member, queue, tableVars, jobVars>>

Absent == [st |-> "absent", deletedAt |-> None, by |-> None]

Unsent == [kind |-> None, at |-> None]

NoJob == [pc |-> "off", name |-> "", open |-> {}, due |-> 0, hit |-> 0]

Init ==
  /\ now = 0 /\ member = TRUE /\ faults = 0 /\ after = {} /\ purged = {}
  /\ rows = [d \in Ids |-> Absent]
  /\ queue = [m \in Messages |-> Unsent] /\ ledger = [m \in Messages |-> None]
  /\ job = NoJob /\ setting \in Settings

-----------------------------------------------------------------------------
(***************************************************************************)
(* The tenant and the cascades.                                            *)
(***************************************************************************)
Create(d) ==
  /\ rows[d] = Absent /\ member
  /\ rows' = [rows EXCEPT ![d].st = "live"]
  /\ after' = after \cup {<<m, d>> : m \in {n \in Messages : ledger[n] # None}}
  /\ UNCHANGED <<now, member, queue, ledger, jobVars>>

\* Cancel, expiry, the end of a review and a disabled delegate leave deleted_at NULL.
Close(d) ==
  /\ rows[d].st = "live"
  /\ rows' = [rows EXCEPT ![d].st = "closed"]
  /\ UNCHANGED <<now, member, queue, ledger, after, jobVars>>

Publish(m, kind) ==
  /\ queue[m] = Unsent /\ member
  /\ queue' = [queue EXCEPT ![m] = [kind |-> kind, at |-> now]] /\ member' = FALSE
  /\ UNCHANGED <<now, tableVars, jobVars>>

Rejoin ==
  /\ ~ member /\ member' = TRUE
  /\ UNCHANGED <<now, queue, tableVars, jobVars>>

IsProcessed(m) == ledger[m] # None

\* EndForUser soft-deletes what it ends; SoftDeleteTenant every row left.
Scrubbed(kind) ==
  {d \in Ids : rows[d].st \in (IF kind = "revoked" THEN {"live"} ELSE {"live", "closed"})
               /\ rows[d].deletedAt = None}

\* A delivery, the first or a later one: the cascade and its mark, or nothing.
Deliver(m) ==
  /\ queue[m] # Unsent /\ now <= queue[m].at + QueueLife
  /\ ~ IsProcessed(m)
  /\ rows' = [d \in Ids |-> IF d \in Scrubbed(queue[m].kind)
                            THEN [st |-> "closed", deletedAt |-> now, by |-> m] ELSE rows[d]]
  /\ ledger' = [ledger EXCEPT ![m] = now]
  /\ UNCHANGED <<now, member, queue, after, jobVars>>

Tick ==
  /\ now < MaxTime /\ now' = now + 1
  /\ UNCHANGED <<member, queue, tableVars, jobVars>>

-----------------------------------------------------------------------------
(***************************************************************************)
(* cmd/reconciler --job=delegation-cleanup.                                *)
(***************************************************************************)
Fault == faults < MaxFaults /\ faults' = faults + 1

JobNames == {"", "delegation-expiry", "delegation-cleanup", "no-such-job"}

\* Without --job nothing is opened.
Launch(name) ==
  /\ job.pc = "off"
  /\ job' = [NoJob EXCEPT !.pc = IF name = "" THEN "failed" ELSE "connect",
                          !.name = name, !.open = IF name = "" THEN {} ELSE {"app"}]
  /\ UNCHANGED <<now, member, queue, tableVars, setting, purged, faults>>

\* Mutant: the fallback to the app role is accepted everywhere.
SystemGuardOff == TRUE

\* Outside development the sweeps need a role that bypasses RLS.
SystemGuard == setting.devLike \/ setting.systemDatabase

\* Mutant: the app pool stands in for a system pool that has the same address.
ConnectShared ==
  /\ job.pc = "connect"
  /\ job' = IF SystemGuard /\ setting.parses
            THEN [job EXCEPT !.open = IF setting.systemDatabase THEN @ \cup {"sys"} ELSE @,
                             !.pc = CASE job.name = "delegation-cleanup" -> "purge"
                                      [] job.name = "delegation-expiry" -> "done"
                                      [] OTHER -> "failed"]
            ELSE [job EXCEPT !.pc = "failed"]
  /\ UNCHANGED <<now, member, queue, tableVars, setting, purged, faults>>

\* The system pool, the client and the numbers of the environment; then the switch.
Connect ==
  /\ job.pc = "connect"
  /\ job' = IF SystemGuard /\ setting.parses
            THEN [job EXCEPT !.open = @ \cup {"sys"},
                             !.pc = CASE job.name = "delegation-cleanup" -> "purge"
                                      [] job.name = "delegation-expiry" -> "done"
                                      [] OTHER -> "failed"]
            ELSE [job EXCEPT !.pc = "failed"]
  /\ UNCHANGED <<now, member, queue, tableVars, setting, purged, faults>>

OrDefault(n, default) == IF n <= 0 THEN default ELSE n

\* Mutant: zero days are taken at their word.
RetentionDaysRaw == setting.retentionDays

RetentionDays == OrDefault(setting.retentionDays, DefaultRetentionDays)

\* Mutant: zero days are taken at their word.
TTLDaysRaw == setting.ttlDays

TTLDays == OrDefault(setting.ttlDays, DefaultTTLDays)

\* Mutant: a limit of zero reaches the statement.
BatchLimitRaw == setting.limit

BatchLimit == OrDefault(setting.limit, DefaultLimit)

\* Under RLS with no tenant bound the statement matches no row.
Visible(ids) == IF setting.systemDatabase THEN ids ELSE {}

PurgeDue ==
  {d \in Ids : rows[d].deletedAt # None /\ rows[d].st # "gone"
               /\ rows[d].deletedAt < now - RetentionDays}

\* The first n of a set in some order; a statement without ORDER BY takes any.
Batches(ids, n) == {b \in SUBSET ids : Cardinality(b) = Min({n, Cardinality(ids)})}

OldestFirst(b, ids) == \A d \in b, c \in ids \ b : rows[d].deletedAt <= rows[c].deletedAt

\* HardPurgeSoftDeletedBefore.
Purge ==
  /\ job.pc = "purge"
  /\ \E b \in Batches(Visible(PurgeDue), BatchLimit) :
       /\ OldestFirst(b, Visible(PurgeDue))
       /\ rows' = [d \in Ids |-> IF d \in b THEN [rows[d] EXCEPT !.st = "gone"] ELSE rows[d]]
       /\ purged' = purged \cup {[id |-> d, at |-> now] : d \in b}
       /\ job' = [job EXCEPT !.pc = "prune", !.due = Cardinality(PurgeDue),
                             !.hit = Cardinality(b)]
  /\ UNCHANGED <<now, member, queue, ledger, after, setting, faults>>

\* An error of the purge ends the job before the ledger is pruned.
PurgeFails ==
  /\ job.pc = "purge" /\ Fault
  /\ job' = [job EXCEPT !.pc = "failed"]
  /\ UNCHANGED <<now, member, queue, tableVars, setting, purged>>

PruneDue == {m \in Messages : ledger[m] # None /\ ledger[m] < now - TTLDays}

\* Prune of processed_events.
Prune ==
  /\ job.pc = "prune"
  /\ \E b \in Batches(PruneDue, BatchLimit) :
       ledger' = [m \in Messages |-> IF m \in b THEN None ELSE ledger[m]]
  /\ job' = [job EXCEPT !.pc = "done"]
  /\ UNCHANGED <<now, member, queue, rows, after, setting, purged, faults>>

\* An error of the prune is logged and the job succeeds.
PruneFails ==
  /\ job.pc = "prune" /\ Fault
  /\ job' = [job EXCEPT !.pc = "done"]
  /\ UNCHANGED <<now, member, queue, tableVars, setting, purged>>

\* drainPools closes what was opened, once; the process exits.
Drain ==
  /\ job.pc \in {"done", "failed"} /\ job' = NoJob
  /\ UNCHANGED <<now, member, queue, tableVars, setting, purged, faults>>

Crash ==
  /\ job.pc # "off" /\ Fault /\ job' = NoJob
  /\ UNCHANGED <<now, member, queue, tableVars, setting, purged>>

Cleanup == Connect \/ Purge \/ Prune \/ Drain

Next ==
  \/ \E d \in Ids : Create(d) \/ Close(d)
  \/ \E m \in Messages : Deliver(m) \/ \E kind \in {"revoked", "purged"} : Publish(m, kind)
  \/ Rejoin \/ Tick
  \/ \E name \in JobNames : Launch(name)
  \/ Cleanup \/ PurgeFails \/ PruneFails \/ Crash

Spec == Init /\ [][Next]_vars

\* The CronJob runs month after month, and a run that is not disturbed ends.
FairSpec == Spec /\ WF_vars(Cleanup) /\ SF_vars(Launch("delegation-cleanup"))

-----------------------------------------------------------------------------
(***************************************************************************)
(* Properties.                                                             *)
(***************************************************************************)
TypeOK ==
  /\ now \in 0..MaxTime /\ member \in BOOLEAN /\ faults \in 0..MaxFaults
  /\ rows \in [Ids -> [st : {"absent", "live", "closed", "gone"},
                       deletedAt : 0..MaxTime \cup {None}, by : Messages \cup {None}]]
  /\ queue \in [Messages -> [kind : {"revoked", "purged", None}, at : 0..MaxTime \cup {None}]]
  /\ ledger \in [Messages -> 0..MaxTime \cup {None}]
  /\ after \subseteq Messages \X Ids /\ setting \in Settings
  /\ purged \subseteq [id : Ids, at : 0..MaxTime]
  /\ job \in [pc : {"off", "connect", "purge", "prune", "done", "failed"}, name : JobNames,
              open : SUBSET {"app", "sys"}, due : Nat, hit : Nat]
  /\ job.pc \in {"purge", "prune", "done"} => job.open = {"app", "sys"}

\* A delegation leaves the table only after a soft delete and the retention that
\* the job was configured with, 90 days when the setting is zero or negative.
PurgedOnlyExpired ==
  \A p \in purged :
    /\ rows[p.id].deletedAt # None
    /\ p.at - rows[p.id].deletedAt >
         (IF setting.retentionDays <= 0 THEN DefaultRetentionDays ELSE setting.retentionDays)

\* A delegation granted after a revoke or a tenant purge was processed is never
\* ended by a later delivery of it: its mark is kept as long as SQS may deliver.
NewGrantsSurvive == \A m \in Messages, d \in Ids : <<m, d>> \in after => rows[d].by # m

\* A cleanup that reports success outside development has purged a full batch or
\* everything that was due: it was not filtered to nothing by RLS.
SuccessMeansSwept ==
  job.pc \in {"prune", "done"} /\ job.name = "delegation-cleanup" /\ ~ setting.devLike
    => job.hit = Min({BatchLimit, job.due})

\* What is due is removed in the end, rows and marks, however small the batch,
\* and whatever settings are left at zero.
BacklogRemoved ==
  setting.systemDatabase /\ setting.parses =>
    /\ \A d \in Ids : (d \in PurgeDue) ~> (rows[d].st = "gone")
    /\ \A m \in Messages : (m \in PruneDue) ~> (ledger[m] = None)
=============================================================================
