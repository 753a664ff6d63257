----------------------------- MODULE Deployment ------------------------------
(***************************************************************************)
(* A rolling deployment of cmd/server: pods of different builds start,     *)
(* serve, fail, are signalled and killed, while the transactions they run  *)
(* and the events those enqueue must neither be lost nor made up.          *)
(***************************************************************************)
EXTENDS EventRelay

vars == <<lifecycleVars, relayVars>>

Init == LifecycleInit /\ RelayInit

\* run, up to the errgroup.
Starting(p) ==
  /\ \/ Boot(p)
     \/ MigrateLock(p)
     \/ MigrateApply(p)
     \/ Start(p)
     \/ StartFails(p)
  /\ UNCHANGED relayVars

\* The shutdown goroutine and the deferred closes.
Stopping(p) ==
  \/ /\ \/ WorkerReturns(p, "outbox", IdleRunner(p))
        \/ WorkerReturns(p, "sqs", IdleIn(p, "sqs"))
        \/ Shutdown(p)
        \/ ShutdownWaits(p, IdleIn(p, "http"))
        \/ StopWorker(p, "outbox", IdleRunner(p))
        \/ StopWorker(p, "sqs", IdleIn(p, "sqs"))
        \/ Wait(p)
        \/ Unwind(p, work[p] = NoWork)
     /\ UNCHANGED relayVars
  \/ Exit(p) /\ Vanish(p)

\* What the codec refuses fails by itself; otherwise it takes a fault of SNS.
Refused(p) == IF Encodes(p) THEN Fault ELSE NoFault

\* Signals, failures and kills.
Failing(p) ==
  \/ (Signal(p) \/ \E w \in Workers : WorkerFails(p, w)) /\ UNCHANGED relayVars
  \/ Kill(p) /\ Vanish(p)
  \/ /\ (Fault /\ Retry(p)) \/ (Refused(p) /\ PublishFails(p))
     /\ UNCHANGED <<pod, schema, lock, registered>>

Working(p) ==
  /\ \/ \E src \in Sources, e \in Events : Begin(p, src, e)
     \/ Change(p) \/ EnqueueCtx(p) \/ Commit(p) \/ Rollback(p)
  /\ UNCHANGED lifecycleVars

Relaying(p) ==
  /\ \/ \E e \in Events : Claim(p, e) \/ Prune(p, e)
     \/ Publish(p) \/ Mark(p)
  /\ UNCHANGED lifecycleVars

Leases == UNCHANGED lifecycleVars /\ \E e \in Events : LeaseExpires(e)

Registry == UNCHANGED relayVars /\ \E v \in Versions : RegisterSchema(v)

Next ==
  \/ \E p \in Pods : Starting(p) \/ Stopping(p) \/ Failing(p) \/ Working(p) \/ Relaying(p)
  \/ Leases
  \/ Registry

Spec == Init /\ [][Next]_vars

\* Kubernetes restarts a pod that is down, with the environment it was given.
Restart(p) == Starting(p) /\ NoFault

\* Postgres grants a lock in the order it was asked for: a pod that restarts over
\* and over does not keep another one from it.
LockGranted(p) == MigrateLock(p) /\ UNCHANGED relayVars

\* A handler of the consumer ends when its context is cancelled.  Nothing is
\* assumed of a request: a client may hold it open for ever.
CancelledHandler(p) ==
  work[p].src = "sqs" /\ pod[p].cancelled /\ Rollback(p) /\ UNCHANGED lifecycleVars

RunnerWorks(p) ==
  /\ (\E e \in Events : Claim(p, e)) \/ Publish(p) \/ Mark(p)
  /\ UNCHANGED lifecycleVars

FairSpec ==
  /\ Spec
  /\ \A p \in Pods :
       /\ WF_vars(Restart(p)) /\ SF_vars(LockGranted(p)) /\ WF_vars(Stopping(p))
       /\ WF_vars(CancelledHandler(p)) /\ WF_vars(RunnerWorks(p))
  /\ WF_vars(Leases)

-----------------------------------------------------------------------------
(***************************************************************************)
(* Properties.                                                             *)
(***************************************************************************)
TypeOK ==
  /\ \A p \in Pods :
       /\ pod[p].pc \in {"off", "serving", "unwind"} \cup DOMAIN Stages \cup DOMAIN MigrationOrder
       /\ pod[p].opened \in {<< >>, <<"app">>, <<"app", "sys">>, <<"app", "sys", "redis">>}
       /\ pod[p].workers \subseteq Workers
       /\ pod[p].ver \in Versions /\ pod[p].cfg \in Configs
  /\ schema \subseteq {"outbox", "domain"} /\ lock \in Pods \cup {None, "pooler"}
  /\ registered \subseteq Versions /\ faults \in 0..MaxFaults
  /\ \A p \in Pods : work[p].st \in {"none", "begun", "changed", "enqueued"}
                     /\ holding[p].st \in {"none", "claimed", "sent"}
  /\ changed \subseteq Events
  /\ outbox \in [Events -> {"absent", "pending", "claimed", "published", "pruned", "dead"}]
  /\ attempts \in [Events -> 0..MaxAttempts]

\* A request or a handler in flight finds both pools and redis open, unless the
\* thirty seconds it was given ran out: run waits for the shutdown goroutine,
\* not only for the listener, before the deferred closes.
ResourcesOutliveWork ==
  \A p \in Pods : work[p] # NoWork /\ ~ pod[p].late =>
    Has(p, "app") /\ Has(p, "sys") /\ Has(p, "redis")

\* A change is committed exactly with its outbox row, nothing is published that
\* did not happen, and a row is pruned only after its event went out.
AnnouncedIffHappened ==
  /\ \A e \in Events : e \in changed <=> outbox[e] # "absent"
  /\ sent \subseteq changed
  /\ \A e \in Events : outbox[e] = "pruned" => e \in sent

\* An event loses an attempt only to a fault of the topic or the network, never
\* because the pod that relays it has schemas Glue does not know: such a pod fails
\* to start, when starting would have it drain the outbox into the dead letters.
OnlyOutagesCostAttempts == \A e \in Events : attempts[e] =< faults

\* A committed change is announced, whatever pod is lost on the way, or ends up
\* in the dead letters once the topic has refused it MaxAttempts times.  Neither
\* is ever undone, so from some time on every change is one or the other.
EventuallyAnnounced ==
  \A e \in Events :
    <>[](e \in changed => e \in sent \/ (outbox[e] = "dead" /\ attempts[e] = MaxAttempts))

\* A pod that was told to stop, or lost a worker, ends, even with a request that
\* never completes: no pod is on its way out for ever.
PodsStop == \A p \in Pods : []<>(~ pod[p].cancelled)

\* An environment that run accepts: loadConfig, and later the clients.
Deployable(c) == LoadConfig(c) /\ c.baseURLs

\* Once the faults are over, a pod whose environment is sound and whose schemas
\* are registered, before or after it was deployed, comes up and stays ready, from
\* an empty database and whatever the environments of the other pods do.  The
\* environment is fixed and a registered schema stays so.
Settles ==
  \A p \in Pods : <>[](Deployable(pod[p].cfg) /\ Encodes(p) => Ready(p))
=============================================================================
