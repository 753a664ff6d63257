# A TLA+ model of iam-delegation

iam-delegation lets a member of a tenant (the delegator) hand work to another
member (the delegate) for a while. It keeps the delegations in Postgres, tells
iam-user-profile who stands in for whom, publishes what happens to a delegation
through a transactional outbox, and reacts to members leaving. This directory
holds a TLA+ model of that system, TLC runs over small instances, and TLAPS
proofs for all instances. Paths below are relative to the repository.

## 1. The system

| part | state it keeps | operations | talks to |
|---|---|---|---|
| `DelegationService` (`internal/core/service/delegation_service.go`) | none of its own | Create (DLG-2), Cancel (DLG-3), Extend (DLG-4), Reassign (DLG-5), List (DLG-1) | Postgres, User Profile, membership and catalog checks, Valkey |
| settings (`settings_service.go`) | one policy row per tenant | GetSettings (DLG-6), UpdateSettings (DLG-7) | Postgres |
| `CascadeService` (`cascade_service.go`) | none | EndForUser, EndForDisabledDelegate, ScrubTenant | Postgres, User Profile |
| reconciler jobs (`cmd/reconciler/jobs`) | none | Activation, Expiry, ReviewSweep, Cleanup | Postgres, User Profile |
| cascade consumer (`internal/adapter/inbound/consumer`) | `processed_events` | Handle: dedup, dispatch, mark | SQS, `CascadeService` |
| repository and schema (`internal/adapter/outbound/postgres`) | `delegations`, settings, outbox | one UPDATE/INSERT/SELECT each, optimistic lock on `record_version` | Postgres |
| idempotency store, list cache (`internal/adapter/outbound/valkey`) | create records (24 h), lists (60 s) | Get/Reserve/Save/Release, Get/Set/Invalidate | Valkey |
| HTTP layer (`internal/adapter/inbound/http`) | none | routing, authorisation, error mapping, DLG-I1..I4, readiness | services |
| event bus (`internal/adapter/outbound/eventbus`) | outbox, schema versions | enqueue in the transaction, encode, relay to SNS | Postgres, Glue, SNS |
| composition roots (`cmd/server`, `cmd/reconciler`) | pools, clients, workers | configuration, migration, start, shutdown | everything |

What makes it hard:

* **Three kinds of actor write the same rows**: request handlers, cron runs
  (which may overlap: the CronJobs forbid overlap among themselves, DLG-I1/I2
  start the same jobs over HTTP) and queue workers. Nothing but
  `record_version` and row locks keeps them apart.
* **Two systems hold one fact.** User Profile's delegate pointer and the row are
  changed in separate steps, in different orders (create and activation: pointer
  first; extend: row first), by several actors, and either step may fail or
  succeed unnoticed.
* **At-least-once everything**: SQS redelivers, clients retry with the same
  key, jobs run again over what they did not finish, pods relay what another
  pod enqueued or half published.
* **A policy that moves**: a create reads the tenant's settings and then makes
  four more calls before its INSERT.
* **Crashes** between any two of these steps, and shutdowns around them.
* **What is thrown away** must not be needed again: marks of processed messages,
  rows, published outbox rows.

Per part, what makes it correct: a delegation starts and ends at most once and
its events say so in order (all writers); a job acts only on rows that are
still due (jobs); no cascade is lost or done twice (consumer); one key, one
delegation (create); nothing is admitted unvetted, and by one policy (create);
the pointer agrees with the table (all callers of User Profile); a change is
announced if and only if it happened (event bus); pools outlive the work that uses
them (server); nothing is purged early (cleanup). `PROJECT.json` lists the hazards
one by one with their lines.

## 2. The modules

| module | models |
|---|---|
| `DelegationEvents` | the four published events, by type, `ended_reason`, `days_remaining` |
| `DelegationLifecycle` | abstract specification: what the service promises about each delegation, whoever acts |
| `DelegationStore` | the table, the outbox, User Profile's record, the clock, the processes; every SQL statement as a WHERE predicate and a row update; `RunInTx` |
| `DelegationService` | Create, Cancel, Reassign, Extend |
| `ReconcilerJobs` | delegation-activation, -expiry, -review |
| `CascadeService` | the three cascades |
| `DelegationSystem` | the composition of these, its properties, the inductive invariant, `SerialSpec` (operations that do not overlap), fairness |
| `CascadeConsumer` | delegation-cascade-q, dedup, redelivery, the dead-letter queue, members coming and going |
| `IdempotentCreate` | Create under one Idempotency-Key: Get, Reserve, Save, Release, expiry |
| `PublicApi` | callers and tenants, self-or-admin, row visibility, DLG-1's list cache with eviction and TTL, request timeouts |
| `Admission` | a tenant's settings, Create's and Extend's validation, the remote checks and what their clients make of the answers, the windows sent to User Profile, the CHECK constraints |
| `Retention` | delegation-cleanup of `cmd/reconciler` with its start-up guard, the ledger and the soft-deleted rows, against late deliveries |
| `ServerLifecycle` | the pods of `cmd/server`: configuration, migrations, start, errgroup, shutdown, deferred closes |
| `EventRelay` | transactions with their outbox rows, the outbox runner, codec versions, claim leases, attempts and dead letters, pruning |
| `Deployment` | the composition of these two: a rolling deployment of several builds |
| `MC*` | inputs and symmetry sets for TLC |
| `*Proofs` | TLAPS proofs |

### State and actions against the code

`rows[id]` is a row of `delegations`: status, `record_version` (`ver`),
`deleted_at` (`deleted`), the two users, `starts_at`, `ends_at`, `review_due_at`
and `review_last_warned_bucket`. Scope, reason and membership ids influence no
transition and are left out; so is the tenant, since every statement is
confined to one. `log[id]` is what the outbox holds about a delegation, in
commit order. `up[u]` is User Profile's record of a user: the pointer and the
end of the out-of-office window. `now` counts days; `review_due_at`,
`starts_at` and `ends_at` are whole days too.

A process (`proc[p]`) is a handler goroutine, a job run or a queue worker. **A
step is one call to another system or one transaction**: that is where another
process can get in between. `pc` says what comes next, `id`/`ver` what the next
UPDATE will name, `want` the row being created, `todo` what a job listed, `locks`
the rows an open transaction has updated. Request checks that have no effect are
the guards of the first step.

| code | actions |
|---|---|
| `Create` | `CreateStart`, `CreateCheck`/`CreateRefused`, `CreateSetAvailability`, `CreateInsert`, `CreateCompensate` |
| its checks, one by one (`Admission`) | `CreateStart`, `CheckDepartment`, `ReadPolicy`, `CheckBothMemberships`, `CheckAvailability`, `SetAvailability`, `Insert` |
| `cancelInternal` | `CancelStart`, `CancelClearPointer`, `CancelEnd` |
| `Reassign` | `ReassignStart`, the cancel steps, `ReassignCreate`, the create steps |
| `Extend` | `ExtendStart`, `ExtendReview`, `ExtendResync` |
| `GetSettings`, `UpdateSettings`, the settings part of `ScrubTenant` | `GetSettings`, `SetSettings`, `PurgeTenant` |
| `Activation` | `ActivationList`, `ActivationSetAvailability`, `ActivateScheduled` |
| `Expiry` | `ExpiryList`, `ClearBeforeEnd`, `EndExpired` |
| `ReviewSweep` | `ReviewStart`, `ReviewWarnList`, `ReviewWarn`, `ReviewEndList`, `ClearBeforeEnd`, `EndReviewExpired` |
| `Cleanup` and `cmd/reconciler`'s main | `Launch`, `Connect`, `Purge`/`PurgeFails`, `Prune`/`PruneFails`, `Drain` |
| `EndForUser` | `EndForUserUpdate`, `EndForUserClear`, `EndForUserCommit` |
| `EndForDisabledDelegate`, `ScrubTenant` | one action each |
| `CascadeConsumer.Handle` | `Receive`, `DropBadId`, `RejectPayload`, `Probe`, `AckUnknown`, `CascadeUpdate`, `Commit` |
| `List` (DLG-1) | `ListGet`, `ListQuery`, `ListFill` |
| `requireSelfOrAdmin`, then DLG-3/4/5 | `Authorise`, `CancelCommit` / `ExtendCommit` / `CreateCommit`, `Evict` |
| `run` of `cmd/server`, up to the errgroup | `Boot`, `MigrateLock`, `MigrateApply`, `Start`, `StartFails` |
| the errgroup, the shutdown goroutine, the defers | `WorkerFails`, `WorkerReturns`, `Signal`, `Shutdown`, `ShutdownWaits`, `StopWorker`, `Wait`, `Unwind`, `Exit` |
| `RunInTx` with `EnqueueCtx` | `Begin`, `Change`, `EnqueueCtx`, `Commit`, `Retry`, `Rollback` |
| outbox runner, `PrunePublished` | `Claim`, `Publish`, `PublishFails`, `Mark`, `LeaseExpires`, `Prune` |

Failures are a constant, `Faults`: `up_fail` (User Profile refuses or is down),
`up_lost` (the call took effect, the caller sees a timeout), `tx_fail`,
`tx_lost` (committed, acknowledgement lost), `check_fail` (membership, catalog or
availability check fails), `stale` (a client sends an old version), `crash`. A
crash forgets the process and rolls its transaction back. `Ops` selects the
operations of a run.

External parts, modelled from how the code uses them: User Profile's record, its
cap on windows and its own sweep; Core, the catalog and their status codes; SQS;
members leaving and joining; Postgres row locks, row-level security and the
advisory lock of the migration runner; the Glue registry; the outbox runner of
platform-events with its claim lease; the clock; Kubernetes killing and restarting
pods. `outboxRunner.Stop` and `sqsConsumer.Stop` are taken to wait for the work in
hand, which is what the order of the shutdown relies on.

`CascadeConsumer` abstracts what a cascade does to the table to "the users' live
delegations end" (`live`) and instead has the deliveries in full: two
transactions (probe; cascade and mark), acknowledgement, redelivery. A create
checks membership in one step and inserts in a later one.

`IdempotentCreate` has one key, since keys do not interact, and any number of
calls. Its TTL runs out only when no call is in progress: 24 hours against
request timeouts of seconds. `lost` records what failed in the key's 24 hours, so
that one run with every failure says which of them a promise survives.

`PublicApi` reduces a row to what visibility, entitlement and lists depend on
(tenant, delegator, listed or not, version) and a write to the commit and the
eviction after it. A rejected request reads and changes nothing that others share
and takes no step; a cache hit is whatever the entry holds (`Answers`). There is no
clock: rows and requests have an age and entries a time to live, all bounded by
the TTL and the request timeout, so time goes on for ever in a finite model. Jobs
and cascades appear as `JobChange`, which evicts nothing. `tainted` records which
keys may hold an older list because of a race or a failure that the code accepts.

`Admission` has one tenant and takes a request body apart only as far as the checks
look: `self`, `scope`, whether there is a `scope_id` or an overlong reason, and the
two times relative to the request, in ticks of a fraction of a day, because the skew
tolerance and the limits on spans meet at their edges. `heard` records the raw
answer of every service, and `Exists`, `DepartmentActive`, `GetAvailability` are what
the clients make of it: the property compares the two. A service that hangs is cut
off by the client's timeout (`Responses`). `seen` and `shown` are histories.

`Retention` keeps of a delegation its end, `deleted_at` and which message ended it,
and of a message when it was published and when it was marked. `setting` is the
environment of the CronJob; an absent or zero number means the default.

`ServerLifecycle` has a pod per replica. `opened` is the stack of deferred closes,
`stop` how far the shutdown goroutine has come, `late` that a thirty-second wait ran
out with work still in flight. A pod's build and environment are given by the initial
state (`Deployments`) and never change, as in Kubernetes: one whose environment
`loadConfig` refuses ends at once, at every restart. `registered` is what the
schema-registry workflow has put into Glue, before or after a build's deployment, or
never. The metrics listener and the tickers hold nothing and are part of `Signal` and
of the enabling conditions. `EventRelay` reduces a transaction to one change and its
event; `sent` is the topic, `attempts` what the runner counts against
`OUTBOX_MAX_ATTEMPTS` before it moves a row to the dead letters. The schema version
stamped on an event is left out (section 6).

## 3. The runs

| run | question | bounds |
|---|---|---|
| `job_races` | do a job run and a handler keep to the lifecycle, act only on what is due, and remind once a day? | 1 delegation, 2 users, a review window of 3 days, 6 days |
| `cascade_races` | is the lifecycle kept by a handler, a job run and a cascade, with crashes and stale versions? | 2 delegations (Reassign needs two), 2 users, 2 days |
| `serial_pointer` | does the pointer agree with the table when operations do not overlap and nothing fails? | 1 delegation, 3 users (the removed user, the other side and a bystander) |
| `jobs_catch_up` | does every due row get its turn although another row's calls fail for ever? | 2 delegations, one served |
| `cascade_delivery` | is a cascade ever lost? who keeps a delegation after leaving? is a redelivery a no-op, and every message settled? | 2 messages (one of any kind, one revocation), 2 workers, 2 deliveries each, all faults |
| `idempotent_create` | one key, one delegation; does the key come free; is a 201 true? | 3 calls, 3 ids, all faults |
| `public_api` | does a list or a write cross tenants or users? how stale can DLG-1 be, and when? | 2 tenants, 2 users (1 admin), 1 delegation, 2 handlers, TTL and timeout of 1 |
| `admission` | can a create slip past a check, a policy or the schema? is every request answered? | 1 request, 1 id, 13 bodies, a day of 2 ticks, policies of 1 to 3 days, all faults |
| `deployment` | do migrations, shutdown and relay hold in a rolling deployment? does it come up and stop? is every change announced, or given up only after a long outage? | 2 pods, 1 or 2 builds, 1 event, 2 faults, 2 attempts, 4 environments |
| `retention` | is anything purged or forgotten too early, or never? | 2 delegations, 1 message, defaults of 2 days and batches of 1, 5 days, 1 fault, 5 environments |
| `cancel_up_down`, `extend_resync` | disagreements, see section 6 | smallest instance that shows it |

Why the bounds are enough to be interesting: one delegation already has all the races,
since delegations meet only in the pointer (one per delegator), in a cascade, and in a
batch; those have two. The clock must pass a start, an end and a due date, with a day
between query and write; the reminders count down a window of three days, extended on
the way. One cron run is enough beside the proofs, which cover any number. The cache
needs a reader and a writer at once, tenants a user that is in both. In `admission`
one request suffices because requests meet only in the settings, which others
(`SetSettings`, `PurgeTenant`) change at any step; the bodies lie at and just past
each limit. In `deployment` two pods are a rolling update with two builds: one
migrates while the other waits, one relays what the other enqueued; the four
environments are one that every check accepts and one for each of three checks that
refuse, and a pod has one of them for good. Pods and builds are alike, so p1 has the
first build and is the one with the sound environment if there is one. Two faults
(signals, failed stages, worker failures, retries, failed publishes or kills) can
strike at any step: as many as the attempts of an event, so they can use it up and
send it to the dead letters, or one can be a kill in the middle of a publish. In
`retention` the queue keeps a message one day and the ledger two, so a mark can expire
and be pruned within five days.

`PublicApi` is checked for deadlock. All other runs say `CHECK_DEADLOCK FALSE`: the
system may be quiet for ever, and the clock, the ids, the messages, the events and
the versions of an instance run out.

`MaxTime`, `MaxDue` (how far Extend may push a due date), the size of `Ids`
(`FreshIdLeft`, `IdLeft`), `MaxReceive`, `MaxVersion`, `MaxSettings`, `MaxEpoch`,
`MaxVer`, `MaxFaults`, `MaxAttempts` (5 in `values.yaml`) and the sets of messages,
calls and events are bounds of the instances. Windows are scaled down (a review window
of 1 to 3 days for 1 to 180).

### Properties

* `LifecycleSpec`: refinement of `DelegationLifecycle`. `PhaseOf` maps a row to
  its phase; `told` is the outbox.
* `ActsWhenDue`: nothing starts, expires or is auto-ended before its time, judged
  by the row at the moment of the commit and the clock at that moment.
* `RemindersCountDown`: DLG-EVT-5.
* `ListedRowsHold`: the reason the first two hold, see section 5.
* `NoStalePointer`, `InForceIsShown`: the two halves of "pointer = table", in
  states where no process is in the middle of something. A delegator who was
  removed is excepted: the code leaves that user's own pointer alone. The
  cascade for a disabled delegate is left out of `serial_pointer`: User Profile,
  which disabled the user, drops those pointers itself, outside this service. Both are
  postconditions of an operation that nothing interrupts; the code has no means to keep
  them when operations overlap or fail, and section 6 lists what happens then.
* `NoCascadeLost`, `RedeliveryIsNoOp`, `OnlyLateGrantsRemain`: the consumer.
  `RedeliveryIsNoOp` is about messages that were never in two workers' hands.
* `OneDelegationPerKey`, `KeyNotStuck`, `SuccessIsReal`: the key, each with the
  failures it does not survive as its premise.
* `TenantsApart`, `OnlyEntitledChange`: what may be seen and changed by whom.
* `StalenessBounded`: a change that is older than the TTL and one request is in every
  answer. The TTL alone is not the bound: a reader may query just before the change
  and fill just before its timeout. `FreshUnlessRaced`: when the cache is exact.
* `OnlyVettedInserted`, `JudgedByOnePolicy`, `SchemaAccepts`, `WindowAccepted`,
  `VersionNamesPolicy`: admission; what a create may rely on when it inserts, that
  Go's checks imply the table's, that Create and Activation stay within User
  Profile's cap, and that an overwritten writer of settings can tell.
  A delegate who is out of office without an end passes a scheduled create
  (`Absences`), and `OnlyVettedInserted` says so.
* `ResourcesOutliveWork`, `AnnouncedIffHappened`: the deployment.
  `OnlyOutagesCostAttempts`: events go to the dead letters for outages of the topic only,
  never because a pod that relays them has schemas Glue does not know.
* `PurgedOnlyExpired`, `NewGrantsSurvive`, `SuccessMeansSwept`: retention.
* Liveness: `JobsCatchUp`, `EveryMessageSettled`, `RequestsAnswered`,
  `EventuallyAnnounced` (on the topic, or in the dead letters with every attempt used),
  `PodsStop`, `Settles` (migrations never wedge each other: once the faults are over, a
  pod whose environment is sound and whose schemas get registered becomes ready and stays
  so, whatever becomes of the others), `BacklogRemoved`.

Every property of a passing run has a mutant in `PROJECT.json`: a plausible bug in
a mapped definition under which TLC finds the property violated.

## 4. Fairness

`DelegationSystem`: the CronJobs' schedules fire again and again
(strong fairness of the listing steps, since a run is only started while none of
that job is in progress), a run that has begun goes on (weak fairness), and for
the delegations in `Served` neither the User Profile call nor the transaction
fails for ever (strong fairness of the successful outcome). Rows outside
`Served` may fail every time. Clients, User Profile's own sweep, crashes and the
clock owe nothing.

`CascadeConsumer`: SQS makes hidden messages visible again
and redrives exhausted ones, and workers poll and finish what they hold; all weak.
A worker's transaction fails or commits in bounded time because `RunInTx` retries
at most three times.

`Admission`: a request takes its next step (weak); services may hang for ever, and
that a call to one of them still ends is the client's timeout, not fairness.

`Deployment`: Kubernetes starts pods that are down, with the environment they were
given, and a pod that can take a start-up step takes it; the shutdown goroutine and
the deferred closes go on; a cancelled handler of the consumer returns; an outbox
runner with something to do does it; leases expire. All weak. The migration lock is
granted strongly fairly: Postgres queues those who wait for it, so a pod that
crash-loops through its migrations does not starve another. No fairness is assumed of
the workflow that registers schemas, which a freeze or a breaking change stops
(`.github/workflows/schema-registry.yml`), and none repairs a refused environment:
such a pod crash-loops, and `Settles` is conditioned on both. Nothing is assumed of
requests: `PodsStop` holds although a client may keep one open for ever, because each
wait of the shutdown is bounded. Failures, signals and kills are bounded by
`MaxFaults`, without which no deployment need ever come up.

`Retention`: the CronJob launches the job again and again (strong, since it can
only start while none is running) and an undisturbed run goes on (weak).

## 5. The proofs

All for arbitrary constants under the assumptions next to their declarations
(ids and users distinct from the null values, process sets disjoint, windows
positive, a batch limit of at least one; for `Admission` that the default policy
lies within the bounds and the bounds within User Profile's cap; for `Retention`
that no environment keeps marks for less time than SQS keeps messages).

* `DelegationSystemProofs`: `Spec => []IndInv`, hence `TypeOK` and `ListedRowsHold`.
  The invariant has, beside the types,
  - `ListedRowsHold`: for every row a job listed, the listed version is not newer
    than the row's, and if it is the row's, what the query selected still holds.
    It is inductive because every UPDATE raises the version (`Touched`), so the
    only new obligations are those of the step that lists;
  - `LockedRowsHold`: the rows of an open cascade are untouched since its UPDATE
    and belong to it alone, because every other writer waits for the lock. This is
    Postgres's doing, not the code's, and no result of its own;
  - `InProgress`: what the other fields of a process mean at each `pc` (a commit
    names an item of the batch; what is about to be inserted is well formed;
    a clock reading is never ahead of the clock);
  - `UnusedIds`: an id without a row is blank.
  One lemma per action and conjunct group.
* `DelegationLifecycleProofs`, from that invariant:
  - every step of the system maps to a step of `DelegationLifecycle` or a stutter
    (`Refinement`), and nothing happens before its time (`Timely`). The key lemma,
    `StepHappens`, describes what any step does to one row and its events.
  - `RemindersInOrder`: `RemindersCountDown` as long as no two review sweeps run at
    once (`OneSweep`; section 6 has the counterexample with two). `ReminderInv`: the
    last reminder of a row was due no later than the clock, nor later than what the
    running sweep read of it, so the next one counts fewer days. `ReviewMoves` says
    that no step but a reminder or an Extend touches date or bucket,
    `ClockReadOnce` that a sweep keeps the time it read.
* `CascadeConsumerProofs`: `TypeOK` and `NoCascadeLost` for any number of messages,
  users and workers and every fault; invariant: the property, the types, and that a
  busy worker has a message. `RedeliveryIsNoOp` and `OnlyLateGrantsRemain` from
  `DeliveryInv`: a message never shown to two workers is marked once it has ended
  anything, and not before (`Alone`); a message not sent yet has left no trace
  (`Untouched`); and for every user who left and has a delegation that is not a late
  grant there is a message, sent and not marked, that will still find it (`Awaits`).
* `IdempotentCreateProofs`: `OneDelegationPerKey` with every failure allowed.
  Invariant `GuardedInv`: as long as every Reserve was answered and every commit
  acknowledged (`Guarded`), calls past Reserve hold the key one at a time, and the
  record and the set of created delegations correspond in each phase (`KeyInv`).
  Section 6 shows why the premise is needed. `SuccessIsReal` needs no premise: ids
  enter calls and record only from INSERTs that committed (`RealInv`).
  `KeyNotStuck`: with nothing lost but commits, a reserved key has exactly one call
  at work that will save or release it (`Owned`).
* `PublicApiProofs`: `TypeOK`, and `TenantsApart` from two facts: a list is the
  caller's own when it is read (`ViewIsOwn`), and no statement moves a delegation to
  another tenant or delegator (`RowsKept`). `AnswersComeFrom` traces every list back
  to one of them. `OnlyEntitledChange`: because of `RowsKept`, what
  `requireSelfOrAdmin` found is still true when the request writes (`Sure`).
  `StalenessBounded`: a list that was read misses nothing older than its request, a
  cached one nothing older than the longest request and the time it has been cached
  (`StaleInv`). `FreshUnlessRaced`: of a key that is neither tainted nor about to be
  evicted, also the lists that were read and not cached yet are the table's
  (`FreshInv`).
* `AdmissionProofs`: all five safety properties and `TypeOK`. The invariant says what
  the checks already passed are worth at each `pc` (`InProgress`: the answers heard,
  the times, the span under the policy that was read, and that this policy is one of
  those in force since the request began); that a stored row's review window is within
  the bounds and a scheduled row's span within the cap (`RowsOK`), which is what
  Activation relies on much later; and that no answered version exceeds the current one
  (`ShownOK`), which makes versions unique.
* `RetentionProofs`: `TypeOK` and all three safety properties. The invariant
  `MarksLast`: a message processed before a delegation was granted is marked or past
  the time SQS keeps it. Pruning keeps it because a mark is no older than its
  message's publication and the ledger keeps it longer than the queue. `JobConnected`:
  past `Connect` the privilege guard held. `PurgedAreGone`: `deleted_at` of a purged
  row never changes again.
* `DeploymentProofs`: `AnnouncedIffHappened` from `RunnersTruthful` (what a runner
  holds was committed; what it has sent, or the table calls published, is on the
  topic); `ResourcesOutliveWork` from `PodOK`, which
  relates a pod's stage to what it has opened, its workers, the progress of its
  shutdown and the work it has in hand: no worker and no work before the errgroup;
  once the shutdown has begun the listener is closed and the context cancelled, so
  nothing new begins; when it is done, no handler is left and a request only if its
  time ran out; and whoever holds a claim has resolved its build's versions.
  `OnlyOutagesCostAttempts` from the last of these and `AttemptsInv`: an open row has
  attempts left, and none has lost more than there were faults.
  `StepKinds` sorts the steps of `Next`, so that each action is treated once.
  `TypeOK` needs `StackInv`: what a pod has opened is a stack that grows and shrinks
  with its stage, so the deferred closes never take from an empty one.

Every invariant and every safety action property of the passing runs is proved, some
under the hypotheses named above, except `NoStalePointer` and `InForceIsShown`: these
hold only of operations that neither overlap nor fail, and a proof under such hypotheses
would say nothing about the cases they are endangered in. Only model-checked, beside
these: the liveness properties, which rest on fairness and are out of the prover's reach,
and the two violations. `TypeOK` of `CascadeConsumer` and `PublicApi` is proved and not
part of a run.

## 6. Where code and documentation disagree

Two have a run:

1. `cancel_up_down`: `cancelInternal` goes on when the pointer cannot be cleared
   and says the expiry cron will do it later; the jobs list active rows only.
2. `extend_resync`: Extend asks User Profile for the window from the start to the new
   review date, which grows with each extension beyond the cap that Create's comment
   calls "always" respected; the refusal is only counted.

Others can be reproduced by changing an instance:

* Activation sets the pointer, a cancel commits, and the job regards the lost race as
  "the desired end-state" (`delegation_activation.go:69`); the pointer stays
  (`NoStalePointer` under `Spec`, one handler, one cron).
* A commit whose acknowledgement is lost becomes a 503, the key is released, and the
  documented retry (`LLD:1193`) creates a second delegation (`AtMostOne` of
  `IdempotentCreate` as an invariant, `Faults = {"tx_lost"}`).
* `EndForUser` with User Profile down leaves pointers like a cancel does
  (`cancel_up_down` with operations `create`, `revoked` and a consumer); the LLD
  (`docs/lld/iam-lld-delegation-service.md:1203`) says "defer + retry" of
  cascades too, while `cascade_service.go:82` says there is nothing to retry.
* A cancel with an outdated version is refused after it has cleared the pointer
  of a delegation that stays in force (`InForceIsShown`, `SerialSpec`,
  `Faults = {"stale"}`).
* Ending one of two delegations of a delegator hides the other
  (`InForceIsShown`, two ids); `LLD:1193` allows several at once.
* A User Profile call that times out after taking effect makes Create fail
  without the clear that a failed transaction gets (`NoStalePointer`,
  `Faults = {"up_lost"}`). The mirror case is a lost commit acknowledgement:
  the compensation then hides a delegation that is in force.
* Two overlapping review sweeps that read different days send 2 after 3's turn
  and then 3 again (`RemindersCountDown` with two crons); DLG-EVT-5, `LLD:828`.
* With two workers on one message both pass the probe, and the second ends what
  was granted after the first committed (`RedeliveryIsNoOp` without the exception
  for `shared` messages); `LLD:726` calls a redelivery a no-op.

Noticed while reading, outside what the models can show:

* The swagger text of DLG-5 (`delegation_handler.go:258`) names
  `DelegationEnded{cancelled}`; the code emits `reassigned`.
* Only cascades set `deleted_at`, so delegations that were cancelled or expired are
  never purged (`Close` in `Retention`); compare `LLD:1388` with `LLD:1390`.
* `cmd/server/config.go:102-107` loads `POLICY_DEFAULT_*`, which `README.md:497` calls
  the fallback policy; nothing reads them.
* `LLD:616` says that Extend makes no User Profile call; it does.
* A delegate who is out of office without an `ooo_until` is refused for a delegation that
  starts now, and accepted for a scheduled one (`delegation_service.go:238`). Activation
  does not look again.
* `README.md:260` says that every event carries the version that describes the payload,
  meaning the payload of the build that publishes. The outbox is shared, so during a
  rollout a pod of the older build may relay what a newer one enqueued, under a version
  that does not know it (`codec.go:57-64`, `118`).
* After `OUTBOX_MAX_ATTEMPTS` an event is missing for its consumers until somebody
  reprocesses the dead letter by hand (`ARCHITECTURE.md:1029`).
* Every row has its own `review_window_days`, so Extend never falls back to the
  tenant's default.
* `OUTBOX_PRUNE_INTERVAL` of zero or less passes `loadConfig` and makes the ticker
  panic (`config.go:108`, `main.go:433`).
* A create whose end lies in the past but within the skew tolerance sends User Profile
  a window that ends before now.
* Cleanup purges one batch a month: with more than `limit` soft deletes a month the
  backlog grows. `BacklogRemoved` holds because an instance deletes finitely often.
* `loadConfig` keys some checks on `ENVIRONMENT` and others on `APP_ENV` (`ResolveAppEnv`
  and the last conjunct of `LoadConfig`).

## 7. Not modelled

* DLG-I3 and DLG-I4, which only read; error codes, messages and DTOs. Row-level
  security and the tenant predicate of each statement are one condition (`Visible`).
* JSON Schema validation of payloads: an event of this build is valid by its tests,
  and a consumed one that is not is `RejectPayload`.
* Times within a day in the jobs: `computeDaysRemaining` rounds up; the model's days
  are exact.
* Connection pooling inside a pool, timeouts of single statements.
* `CleanupExpired` of `processed_events`, which has no caller, and the tender client,
  which is not wired into the service.
* Metrics, logging, liveness probe, API documentation: they change nothing.
* Reassign's two transactions are modelled, but no property says they are one: the
  code promises none, and a failure in between leaves the delegation cancelled.

## 8. Plan

Done: every component that changes state.

1. Proofs: what remains true of the pointers when operations overlap (a pointer
   without a delegation comes only from an activation, an extension or a create that
   lost a race or a call).
2. `computeDaysRemaining` as an operator, against a reference definition over bounded
   inputs, and the jobs with times within a day.
