--------------------------- MODULE ServerLifecycle ---------------------------
(***************************************************************************)
(* The pods of cmd/server: configuration, migrations, pools, codecs and    *)
(* clients opened in order; the workers of the errgroup; and the shutdown, *)
(* after which the deferred closes run last in, first out.                 *)
(*                                                                         *)
(* One database and one schema registry, empty at first, serve all pods.   *)
(* The build and the environment of a pod never change: a rollout makes    *)
(* new pods.                                                               *)
(***************************************************************************)
EXTENDS Integers, Sequences, SequencesExt

CONSTANTS
  Pods,
  Versions,    \* builds of the binary, by the event schemas they embed
  Configs,     \* environments
  Deployments, \* the builds and environments the pods may be given
  MaxFaults,   \* bound on failures, signals and kills
  None

ASSUME PodAssumption == {None, "pooler"} \cap Pods = {} /\ MaxFaults \in Nat

ASSUME DeploymentAssumption == Deployments \subseteq [Pods -> [ver : Versions, cfg : Configs]]

VARIABLES
  pod,         \* what every pod is doing
  schema,      \* migrations applied to the database
  lock,        \* whose session holds the migration lock: a pod, the pooler or None
  registered,  \* event schema versions in the Glue registry
  faults       \* failures, signals and kills so far

lifecycleVars == <<pod, schema, lock, registered, faults>>

\* The goroutines a shutdown waits for; the tickers return as soon as the
\* context is cancelled.
Workers == {"outbox", "sqs", "http"}

\* A pod of build v in environment c whose process does not run.
Down(v, c) == [pc |-> "off", ver |-> v, cfg |-> c, opened |-> << >>, cancelled |-> FALSE,
               workers |-> {}, stop |-> "none", late |-> FALSE]

LifecycleInit ==
  /\ \E d \in Deployments : pod = [p \in Pods |-> Down(d[p].ver, d[p].cfg)]
  /\ schema = {} /\ registered = {} /\ lock = None /\ faults = 0

Fault == faults < MaxFaults /\ faults' = faults + 1

NoFault == UNCHANGED faults

Has(p, r) == r \in ToSet(pod[p].opened)

-----------------------------------------------------------------------------
(***************************************************************************)
(* Start.                                                                  *)
(***************************************************************************)
DevLike(env) == env \in {"", "development", "dev", "local", "test"}

\* APP_ENV wins; ENVIRONMENT, unset meaning development, is read after it.
ResolveAppEnv(c) ==
  CASE c.appEnv # "" -> c.appEnv
    [] c.appEnv = "" /\ DevLike(c.environment) -> "dev"
    [] OTHER -> c.environment

\* Mutant: a pooled connection is good enough for the migration lock.
LoadConfigPooled(c) ==
  /\ c.parses /\ c.database /\ c.snsTopic /\ c.cascadeQueue
  /\ DevLike(ResolveAppEnv(c)) \/ c.systemDatabase
  /\ c.environment = "production" /\ c.docsEnabled => c.docsToken

\* Every number and duration parses and the required settings are there; under
\* PgBouncer migrations need a session of their own; outside development the
\* sweeps need a role that bypasses RLS; in production the docs need a token.
LoadConfig(c) ==
  /\ c.parses /\ c.database /\ c.snsTopic /\ c.cascadeQueue
  /\ c.pgBouncer => c.migrationDatabase
  /\ DevLike(ResolveAppEnv(c)) \/ c.systemDatabase
  /\ c.environment = "production" /\ c.docsEnabled => c.docsToken

\* The lock belongs to a session; behind a transaction pooler that session
\* outlives the pod.
OwnSession(c) == ~ c.pgBouncer \/ c.migrationDatabase

\* A pod starts.  One whose environment loadConfig refuses ends at once, and so
\* does every restart of it.
Boot(p) ==
  /\ pod[p].pc = "off" /\ LoadConfig(pod[p].cfg)
  /\ pod' = [pod EXCEPT ![p].pc = "outbox_schema"]
  /\ UNCHANGED <<schema, lock, registered, faults>>

Goto(p, pc) == pod' = [pod EXCEPT ![p].pc = pc]

\* The migration runner waits for the lock.
MigrateLock(p) ==
  /\ pod[p].pc \in {"outbox_schema", "domain_schema"} /\ lock = None
  /\ lock' = p
  /\ UNCHANGED <<pod, schema, registered, faults>>

\* Migrate: the outbox schema, then the domain's, which grants on its table.
MigrationOrder == [outbox_schema |-> "outbox", domain_schema |-> "domain"]

MigrateApply(p) ==
  LET m == MigrationOrder[pod[p].pc]
  IN  /\ pod[p].pc \in {"outbox_schema", "domain_schema"} /\ lock = p
      /\ m = "domain" => "outbox" \in schema
      /\ schema' = schema \cup {m} /\ lock' = None
      /\ Goto(p, IF pod[p].pc = "outbox_schema" THEN "domain_schema" ELSE "app_pool")
      /\ UNCHANGED <<registered, faults>>

\* What each later stage opens, and the stage after it.
Stages == [app_pool |-> "sys_pool", sys_pool |-> "codec", codec |-> "clients",
           clients |-> "consumer", consumer |-> "serving"]

Opens == [app_pool |-> <<"app">>, sys_pool |-> <<"sys">>, codec |-> << >>,
          clients |-> <<"redis">>, consumer |-> << >>]

\* Mutant: an unknown version is looked up when it is needed.
NewGlueCodecLazy(p) == TRUE

\* NewGlueCodec finds this build's own schemas in the registry, or fails.
\* Without a registry name the events are published as they are.
NewGlueCodec(p) == pod[p].cfg.registry => pod[p].ver \in registered

\* The app pool logs in with the role the domain migration creates; the clients
\* of User Profile and Org & Membership refuse an empty base URL.
StageSucceeds(p) ==
  /\ pod[p].pc = "app_pool" => "domain" \in schema
  /\ pod[p].pc = "codec" => NewGlueCodec(p)
  /\ pod[p].pc = "clients" => pod[p].cfg.baseURLs

\* One stage of run; the last one starts the errgroup.
Start(p) ==
  /\ pod[p].pc \in DOMAIN Stages /\ StageSucceeds(p)
  /\ pod' = [pod EXCEPT ![p].opened = @ \o Opens[pod[p].pc], ![p].pc = Stages[@],
                        ![p].workers = IF pod[p].pc = "consumer" THEN Workers ELSE {}]
  /\ UNCHANGED <<schema, lock, registered, faults>>

Release(p) == lock' = IF lock = p THEN None ELSE lock

\* Migrating the domain before the outbox grants on a table that is not there.
MigrationFails(p) ==
  /\ pod[p].pc \in DOMAIN MigrationOrder /\ lock = p
  /\ MigrationOrder[pod[p].pc] = "domain" /\ "outbox" \notin schema

\* A stage fails: run returns, and the deferred closes run.  A stage that cannot
\* succeed, or whose context a signal has cancelled, fails by itself.
StartFails(p) ==
  /\ pod[p].pc \in DOMAIN Stages \cup DOMAIN MigrationOrder
  /\ \/ Fault
     \/ NoFault /\ \/ pod[p].cancelled
                   \/ pod[p].pc \in DOMAIN Stages /\ ~ StageSucceeds(p)
                   \/ MigrationFails(p)
  /\ Goto(p, "unwind") /\ Release(p)
  /\ UNCHANGED <<schema, registered>>

\* schema-registry.yml registers a build's schemas, before or after its deploy.
\* A freeze, or a change that breaks a registered schema, makes it refuse: whether
\* a build is ever registered is left open, and no fairness is assumed of it.
RegisterSchema(v) ==
  /\ v \in Versions \ registered /\ registered' = registered \cup {v}
  /\ UNCHANGED <<pod, schema, lock, faults>>

-----------------------------------------------------------------------------
(***************************************************************************)
(* The errgroup and the shutdown.                                          *)
(***************************************************************************)
\* readyz: both pools answer; the cache and the outbox are degraded-only.
Ready(p) == Has(p, "app") /\ Has(p, "sys") /\ "http" \in pod[p].workers

\* SIGTERM, at any time, cancels the base context.
Signal(p) ==
  /\ pod[p].pc \notin {"off", "unwind"} /\ ~ pod[p].cancelled
  /\ pod' = [pod EXCEPT ![p].cancelled = TRUE] /\ Fault
  /\ UNCHANGED <<schema, lock, registered>>

\* A worker returns an error, which cancels the group's context.  The metrics
\* listener holds nothing: its failure is a Signal.
WorkerFails(p, w) ==
  /\ w \in pod[p].workers /\ Fault
  /\ pod' = [pod EXCEPT ![p].workers = @ \ {w}, ![p].cancelled = TRUE]
  /\ UNCHANGED <<schema, lock, registered>>

\* The other workers return when the context is cancelled, once they are idle.
WorkerReturns(p, w, idle) ==
  /\ pod[p].cancelled /\ w \in pod[p].workers \ {"http"} /\ idle
  /\ pod' = [pod EXCEPT ![p].workers = @ \ {w}]
  /\ UNCHANGED <<schema, lock, registered, faults>>

\* The shutdown goroutine: httpServer.Shutdown closes the listener first.
Shutdown(p) ==
  /\ pod[p].pc = "serving" /\ pod[p].cancelled /\ pod[p].stop = "none"
  /\ pod' = [pod EXCEPT ![p].stop = "http", ![p].workers = @ \ {"http"}]
  /\ UNCHANGED <<schema, lock, registered, faults>>

\* Mutant: httpServer.Shutdown with a context that never ends.
ShutdownWaitsUnbounded(p, idle) ==
  /\ pod[p].stop = "http" /\ idle
  /\ pod' = [pod EXCEPT ![p].stop = "outbox"]
  /\ UNCHANGED <<schema, lock, registered, faults>>

\* Then it waits for the requests in flight, for at most 30 s.
ShutdownWaits(p, idle) ==
  /\ pod[p].stop = "http"
  /\ pod' = [pod EXCEPT ![p].stop = "outbox", ![p].late = ~ idle]
  /\ UNCHANGED <<schema, lock, registered, faults>>

\* outboxRunner.Stop and sqsConsumer.Stop wait for what they are doing.
StopWorker(p, w, idle) ==
  /\ w \in {"outbox", "sqs"} /\ pod[p].stop = w /\ idle
  /\ pod' = [pod EXCEPT ![p].stop = IF w = "outbox" THEN "sqs" ELSE "done",
                        ![p].workers = @ \ {w}]
  /\ UNCHANGED <<schema, lock, registered, faults>>

\* Mutant: run returns when the listener does.
WaitForListener(p) ==
  /\ pod[p].pc = "serving" /\ "http" \notin pod[p].workers /\ Goto(p, "unwind")
  /\ UNCHANGED <<schema, lock, registered, faults>>

\* g.Wait: every goroutine has returned, the one that shuts down too.
Wait(p) ==
  /\ pod[p].pc = "serving" /\ pod[p].workers = {} /\ pod[p].stop = "done"
  /\ Goto(p, "unwind")
  /\ UNCHANGED <<schema, lock, registered, faults>>

\* Mutant: the closes run in the order of the opens.
UnwindInOrder(p, idle) ==
  /\ pod[p].pc = "unwind" /\ pod[p].opened # << >>
  /\ pod' = [pod EXCEPT ![p].opened = Tail(@),
                        ![p].late = @ \/ (Head(pod[p].opened) # "redis" /\ ~ idle)]
  /\ UNCHANGED <<schema, lock, registered, faults>>

\* A deferred close.  Redis closes at once; a pool drains for at most 30 s.
Unwind(p, idle) ==
  /\ pod[p].pc = "unwind" /\ pod[p].opened # << >>
  /\ pod' = [pod EXCEPT ![p].opened = Front(@),
                        ![p].late = @ \/ (Last(pod[p].opened) # "redis" /\ ~ idle)]
  /\ UNCHANGED <<schema, lock, registered, faults>>

Exit(p) ==
  /\ pod[p].pc = "unwind" /\ pod[p].opened = << >>
  /\ pod' = [pod EXCEPT ![p] = Down(@.ver, @.cfg)]
  /\ UNCHANGED <<schema, lock, registered, faults>>

\* SIGKILL, or the node is lost.  The lock goes with the session that took it.
Kill(p) ==
  /\ pod[p].pc # "off" /\ Fault
  /\ pod' = [pod EXCEPT ![p] = Down(@.ver, @.cfg)]
  /\ lock' = CASE lock # p -> lock
               [] lock = p /\ OwnSession(pod[p].cfg) -> None
               [] OTHER -> "pooler"
  /\ UNCHANGED <<schema, registered>>
=============================================================================
