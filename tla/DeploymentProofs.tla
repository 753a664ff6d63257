--------------------------- MODULE DeploymentProofs ---------------------------
(***************************************************************************)
(* The safety invariants of Deployment, for any number of pods, builds,    *)
(* environments, events and faults.                                        *)
(***************************************************************************)
EXTENDS Deployment, SequenceTheorems, TLAPS

Resources == {"app", "sys", "redis"}

PodType == [pc : {"off", "serving", "unwind", "outbox_schema", "domain_schema", "app_pool",
                  "sys_pool", "codec", "clients", "consumer"},
            ver : Versions, cfg : Configs, opened : Seq(Resources),
            cancelled : BOOLEAN, workers : SUBSET Workers,
            stop : {"none", "http", "outbox", "sqs", "done"}, late : BOOLEAN]

WorkType == {NoWork} \cup [src : Sources, e : Events, st : {"begun", "changed", "enqueued"}]

HoldType == {NoHold} \cup [e : Events, st : {"claimed", "sent"}]

StateOK ==
  /\ pod \in [Pods -> PodType] /\ work \in [Pods -> WorkType] /\ holding \in [Pods -> HoldType]
  /\ changed \subseteq Events
  /\ outbox \in [Events -> {"absent", "pending", "claimed", "published", "pruned", "dead"}]

-----------------------------------------------------------------------------
(***************************************************************************)
(* The outbox.                                                             *)
(***************************************************************************)
WasSent(e) == e \in sent

\* What a runner holds was committed, what it has sent is out, and so is what the
\* table says was published.
RunnersTruthful ==
  /\ \A p \in Pods : holding[p] # NoHold => holding[p].e \in changed
  /\ \A p \in Pods : holding[p].st = "sent" => WasSent(holding[p].e)
  /\ \A e \in Events : outbox[e] \in {"published", "pruned"} => WasSent(e)

OutboxInv == StateOK /\ RunnersTruthful /\ AnnouncedIffHappened

\* Every pod is down at first, of some build and with some environment.
LEMMA DownInitially ==
  Init => /\ pod = [p \in Pods |-> pod[p]]
          /\ \A p \in Pods : \E v \in Versions, c \in Configs : pod[p] = Down(v, c)
  <1> SUFFICES ASSUME Init
               PROVE  /\ pod = [p \in Pods |-> pod[p]]
                      /\ \A p \in Pods : \E v \in Versions, c \in Configs : pod[p] = Down(v, c)
    OBVIOUS
  <1>1. PICK d \in Deployments : pod = [p \in Pods |-> Down(d[p].ver, d[p].cfg)]
    BY DEF Init, LifecycleInit
  <1>2. \A p \in Pods : d[p].ver \in Versions /\ d[p].cfg \in Configs
    BY DeploymentAssumption
  <1> QED  BY <1>1, <1>2

LEMMA OutboxInitially == Init => OutboxInv
  <1> SUFFICES ASSUME Init PROVE OutboxInv
    OBVIOUS
  <1>1. (\A v \in Versions, c \in Configs : Down(v, c) \in PodType) /\ NoHold.st = "none"
    BY DEF Down, PodType, Workers, NoHold
  <1>2. pod \in [Pods -> PodType]
    BY <1>1, DownInitially
  <1>4. StateOK
    BY <1>1, <1>2 DEF Init, RelayInit, StateOK, WorkType, HoldType
  <1>3. RunnersTruthful /\ AnnouncedIffHappened
    BY <1>1 DEF Init, RelayInit, RunnersTruthful, AnnouncedIffHappened
  <1> QED  BY <1>3, <1>4 DEF OutboxInv

\* Replacing one pod's record keeps the types.
LEMMA OpenedTypes ==
  ASSUME NEW s \in Seq(Resources)
  PROVE  /\ s # << >> => Front(s) \in Seq(Resources)
         /\ \A t \in Seq(Resources) : s \o t \in Seq(Resources)
  <1>1. ASSUME s # << >> PROVE Front(s) \in Seq(Resources)
    <2>1. Len(s) \in Nat /\ Len(s) > 0
      BY <1>1
    <2>2. \A i \in 1 .. Len(s) - 1 : i \in 1 .. Len(s)
      BY <2>1
    <2>3. SubSeq(s, 1, Len(s) - 1) \in Seq(Resources)
      BY <2>1, <2>2, SubSeqProperties
    <2> QED  BY <2>3 DEF Front
  <1> QED  BY <1>1

\* The steps of a pod.
LifecycleStep(p) ==
  \/ Boot(p) \/ MigrateLock(p) \/ MigrateApply(p) \/ Start(p) \/ StartFails(p)
  \/ Signal(p) \/ \E w \in Workers : WorkerFails(p, w)
  \/ WorkerReturns(p, "outbox", IdleRunner(p)) \/ WorkerReturns(p, "sqs", IdleIn(p, "sqs"))
  \/ Shutdown(p) \/ ShutdownWaits(p, IdleIn(p, "http"))
  \/ StopWorker(p, "outbox", IdleRunner(p)) \/ StopWorker(p, "sqs", IdleIn(p, "sqs"))
  \/ Wait(p) \/ Unwind(p, work[p] = NoWork)

RelayStep(p) ==
  \/ \E src \in Sources, e \in Events : Begin(p, src, e)
  \/ Change(p) \/ EnqueueCtx(p) \/ Commit(p) \/ Retry(p) \/ Rollback(p)
  \/ \E e \in Events : Claim(p, e) \/ Prune(p, e)
  \/ Publish(p) \/ PublishFails(p) \/ Mark(p)

\* Every step is one of a pod, of its process, of a lease or of the registry.
LEMMA StepKinds ==
  ASSUME [Next]_vars
  PROVE  \/ \E p \in Pods : \/ LifecycleStep(p) /\ UNCHANGED relayVars
                            \/ RelayStep(p) /\ UNCHANGED <<pod, registered>>
                            \/ (Exit(p) \/ Kill(p)) /\ Vanish(p)
         \/ \E e \in Events : LeaseExpires(e) /\ UNCHANGED <<pod, registered>>
         \/ (\E v \in Versions : RegisterSchema(v)) /\ UNCHANGED relayVars
         \/ UNCHANGED <<pod, registered>> /\ UNCHANGED relayVars
  <1>1. ASSUME NEW p \in Pods, Starting(p)
        PROVE  LifecycleStep(p) /\ UNCHANGED relayVars
    BY <1>1 DEF Starting, LifecycleStep
  <1>2. ASSUME NEW p \in Pods, Stopping(p)
        PROVE  (LifecycleStep(p) /\ UNCHANGED relayVars) \/ (Exit(p) /\ Vanish(p))
    BY <1>2 DEF Stopping, LifecycleStep
  <1>3. ASSUME NEW p \in Pods, Failing(p)
        PROVE  \/ LifecycleStep(p) /\ UNCHANGED relayVars
               \/ RelayStep(p) /\ UNCHANGED <<pod, registered>>
               \/ Kill(p) /\ Vanish(p)
    BY <1>3 DEF Failing, LifecycleStep, RelayStep
  <1>4. ASSUME NEW p \in Pods, Working(p) \/ Relaying(p)
        PROVE  RelayStep(p) /\ UNCHANGED <<pod, registered>>
    BY <1>4 DEF Working, Relaying, RelayStep, lifecycleVars
  <1>5. CASE Leases
    BY <1>5 DEF Leases, lifecycleVars
  <1>6. CASE Registry
    BY <1>6 DEF Registry
  <1>7. CASE UNCHANGED vars
    BY <1>7 DEF vars, lifecycleVars
  <1> QED  BY <1>1, <1>2, <1>3, <1>4, <1>5, <1>6, <1>7 DEF Next

LEMMA PodTypes ==
  ASSUME pod \in [Pods -> PodType], NEW p \in Pods, LifecycleStep(p) \/ Exit(p) \/ Kill(p)
  PROVE  /\ pod' \in [Pods -> PodType]
         /\ \A q \in Pods \ {p} : pod'[q] = pod[q]
  <1>0. Down(pod[p].ver, pod[p].cfg) \in PodType
    BY DEF Down, PodType, Workers
  <1>g. ASSUME NEW q \in PodType, pod' = [pod EXCEPT ![p] = q]
        PROVE  /\ pod' \in [Pods -> PodType]
               /\ \A r \in Pods \ {p} : pod'[r] = pod[r]
    BY <1>g
  <1>2. ASSUME MigrateLock(p) PROVE pod' = pod
    BY <1>2 DEF MigrateLock
  <1>3. ASSUME Boot(p) \/ MigrateApply(p) \/ StartFails(p) \/ Wait(p)
        PROVE  \E q \in PodType : pod' = [pod EXCEPT ![p] = q]
    <2>1. PICK pc \in {"outbox_schema", "domain_schema", "app_pool", "unwind"} :
            pod' = [pod EXCEPT ![p].pc = pc]
      BY <1>3 DEF Boot, MigrateApply, StartFails, Wait, Goto
    <2>2. [pod[p] EXCEPT !.pc = pc] \in PodType
      BY DEF PodType
    <2> QED  BY <2>1, <2>2
  <1>4. ASSUME Start(p) PROVE \E q \in PodType : pod' = [pod EXCEPT ![p] = q]
    <2> DEFINE q == [pod[p] EXCEPT !.opened = @ \o Opens[pod[p].pc], !.pc = Stages[@],
                                   !.workers = IF pod[p].pc = "consumer" THEN Workers ELSE {}]
    <2>1. pod[p].pc \in {"app_pool", "sys_pool", "codec", "clients", "consumer"}
      BY <1>4 DEF Start, Stages
    <2>2. Stages[pod[p].pc] \in {"sys_pool", "codec", "clients", "consumer", "serving"}
      BY <2>1 DEF Stages
    <2>3. Opens[pod[p].pc] \in Seq(Resources)
      <3>1. << >> \in Seq(Resources) /\ <<"app">> \in Seq(Resources) /\ <<"sys">> \in Seq(Resources)
            /\ <<"redis">> \in Seq(Resources)
        BY DEF Resources
      <3>2. Opens[pod[p].pc] \in {<< >>, <<"app">>, <<"sys">>, <<"redis">>}
        BY <2>1 DEF Opens
      <3> QED  BY <3>1, <3>2
    <2>4. q \in PodType
      BY <2>2, <2>3, OpenedTypes DEF PodType
    <2> QED  BY <1>4, <2>4 DEF Start
  <1>5. ASSUME \/ Signal(p) \/ \E w \in Workers : WorkerFails(p, w)
               \/ WorkerReturns(p, "outbox", IdleRunner(p))
               \/ WorkerReturns(p, "sqs", IdleIn(p, "sqs"))
               \/ Shutdown(p) \/ StopWorker(p, "outbox", IdleRunner(p))
               \/ StopWorker(p, "sqs", IdleIn(p, "sqs"))
        PROVE  \E q \in PodType : pod' = [pod EXCEPT ![p] = q]
    <2>1. ASSUME Signal(p) PROVE pod' = [pod EXCEPT ![p] = [pod[p] EXCEPT !.cancelled = TRUE]]
      BY <2>1 DEF Signal
    <2>2. ASSUME NEW w \in Workers, WorkerFails(p, w)
          PROVE  pod' = [pod EXCEPT ![p] = [pod[p] EXCEPT !.workers = @ \ {w}, !.cancelled = TRUE]]
      BY <2>2 DEF WorkerFails
    <2>3. ASSUME NEW w, NEW idle, WorkerReturns(p, w, idle)
          PROVE  pod' = [pod EXCEPT ![p] = [pod[p] EXCEPT !.workers = @ \ {w}]]
      BY <2>3 DEF WorkerReturns
    <2>4. ASSUME Shutdown(p)
          PROVE  pod' = [pod EXCEPT ![p] = [pod[p] EXCEPT !.stop = "http", !.workers = @ \ {"http"}]]
      BY <2>4 DEF Shutdown
    <2>5. ASSUME NEW w, NEW idle, StopWorker(p, w, idle)
          PROVE  \E t \in {"sqs", "done"} :
                   pod' = [pod EXCEPT ![p] = [pod[p] EXCEPT !.stop = t, !.workers = @ \ {w}]]
      BY <2>5 DEF StopWorker
    <2>6. ASSUME NEW w, NEW t \in {"http", "sqs", "done"}
          PROVE  /\ [pod[p] EXCEPT !.cancelled = TRUE] \in PodType
                 /\ [pod[p] EXCEPT !.workers = @ \ {w}] \in PodType
                 /\ [pod[p] EXCEPT !.workers = @ \ {w}, !.cancelled = TRUE] \in PodType
                 /\ [pod[p] EXCEPT !.stop = t, !.workers = @ \ {w}] \in PodType
      BY DEF PodType
    <2>7. CASE Signal(p)
      BY <2>1, <2>6, <2>7
    <2>8. CASE \E w \in Workers : WorkerFails(p, w)
      BY <2>2, <2>6, <2>8
    <2>9. CASE WorkerReturns(p, "outbox", IdleRunner(p)) \/ WorkerReturns(p, "sqs", IdleIn(p, "sqs"))
      BY <2>3, <2>6, <2>9
    <2>10. CASE Shutdown(p)
      BY <2>4, <2>6, <2>10
    <2>11. CASE StopWorker(p, "outbox", IdleRunner(p)) \/ StopWorker(p, "sqs", IdleIn(p, "sqs"))
      BY <2>5, <2>6, <2>11
    <2> QED  BY <1>5, <2>7, <2>8, <2>9, <2>10, <2>11
  <1>6. ASSUME ShutdownWaits(p, IdleIn(p, "http"))
        PROVE  \E q \in PodType : pod' = [pod EXCEPT ![p] = q]
    <2>1. pod' = [pod EXCEPT ![p] = [pod[p] EXCEPT !.stop = "outbox", !.late = ~ IdleIn(p, "http")]]
      BY <1>6 DEF ShutdownWaits
    <2>2. [pod[p] EXCEPT !.stop = "outbox", !.late = ~ IdleIn(p, "http")] \in PodType
      BY DEF PodType, IdleIn
    <2> QED  BY <2>1, <2>2
  <1>6a. ASSUME Unwind(p, work[p] = NoWork)
         PROVE  \E q \in PodType : pod' = [pod EXCEPT ![p] = q]
    <2>1. pod' = [pod EXCEPT ![p] =
                    [pod[p] EXCEPT !.opened = Front(@),
                                   !.late = @ \/ (Last(pod[p].opened) # "redis" /\ ~ (work[p] = NoWork))]]
      BY <1>6a DEF Unwind
    <2>2. Front(pod[p].opened) \in Seq(Resources)
      BY <1>6a, OpenedTypes DEF Unwind, PodType
    <2>3. [pod[p] EXCEPT !.opened = Front(@),
                         !.late = @ \/ (Last(pod[p].opened) # "redis" /\ ~ (work[p] = NoWork))] \in PodType
      BY <2>2 DEF PodType
    <2> QED  BY <2>1, <2>3
  <1>7. ASSUME Exit(p) \/ Kill(p) PROVE pod' = [pod EXCEPT ![p] = Down(pod[p].ver, pod[p].cfg)]
    BY <1>7 DEF Exit, Kill
  <1> QED  BY <1>0, <1>g, <1>2, <1>3, <1>4, <1>5, <1>6, <1>6a, <1>7 DEF LifecycleStep

\* The work and the claims of a pod that does nothing are not those of a busy one.
LEMMA IdleStates ==
  /\ NoWork.st = "none" /\ NoHold.st = "none"
  /\ \A w \in WorkType : w # NoWork <=> w.st \in {"begun", "changed", "enqueued"}
  /\ \A w \in WorkType : w # NoWork => w.e \in Events /\ w.src \in Sources
  /\ \A h \in HoldType : h # NoHold <=> h.st \in {"claimed", "sent"}
  /\ \A h \in HoldType : h # NoHold => h.e \in Events
  BY DEF NoWork, NoHold, WorkType, HoldType

LEMMA RelayTypes ==
  ASSUME StateOK, NEW p \in Pods, RelayStep(p), UNCHANGED pod
  PROVE  /\ StateOK'
         /\ \A q \in Pods \ {p} : work'[q] = work[q] /\ holding'[q] = holding[q]
  <1> USE IdleStates DEF StateOK
  <1>w. ASSUME NEW w \in WorkType, work' = [work EXCEPT ![p] = w], UNCHANGED <<changed, outbox, holding>>
        PROVE  StateOK' /\ \A q \in Pods \ {p} : work'[q] = work[q] /\ holding'[q] = holding[q]
    BY <1>w
  <1>h. ASSUME NEW h \in HoldType, holding' = [holding EXCEPT ![p] = h], UNCHANGED <<changed, work>>,
               outbox' \in [Events -> {"absent", "pending", "claimed", "published", "pruned", "dead"}]
        PROVE  StateOK' /\ \A q \in Pods \ {p} : work'[q] = work[q] /\ holding'[q] = holding[q]
    BY <1>h
  <1>1. ASSUME NEW src \in Sources, NEW e \in Events, Begin(p, src, e)
        PROVE  StateOK' /\ \A q \in Pods \ {p} : work'[q] = work[q] /\ holding'[q] = holding[q]
    <2>1. [src |-> src, e |-> e, st |-> "begun"] \in WorkType
      BY DEF WorkType
    <2> QED  BY <1>1, <1>w, <2>1 DEF Begin
  <1>2. ASSUME Change(p) \/ EnqueueCtx(p) \/ Retry(p)
        PROVE  StateOK' /\ \A q \in Pods \ {p} : work'[q] = work[q] /\ holding'[q] = holding[q]
    <2>1. PICK st \in {"begun", "changed", "enqueued"} : work' = [work EXCEPT ![p].st = st]
      BY <1>2 DEF Change, EnqueueCtx, Retry
    <2>2. work[p] # NoWork /\ UNCHANGED <<changed, outbox, holding>>
      BY <1>2 DEF Change, EnqueueCtx, Retry
    <2>3. [work[p] EXCEPT !.st = st] \in WorkType
      BY <2>2 DEF WorkType
    <2> QED  BY <1>w, <2>1, <2>2, <2>3
  <1>3. ASSUME Commit(p)
        PROVE  StateOK' /\ \A q \in Pods \ {p} : work'[q] = work[q] /\ holding'[q] = holding[q]
    <2>1. work[p].e \in Events
      BY <1>3 DEF Commit
    <2>2. NoWork \in WorkType
      BY DEF WorkType
    <2> QED  BY <1>3, <2>1, <2>2 DEF Commit
  <1>4. ASSUME Rollback(p)
        PROVE  StateOK' /\ \A q \in Pods \ {p} : work'[q] = work[q] /\ holding'[q] = holding[q]
    <2>1. NoWork \in WorkType
      BY DEF WorkType
    <2> QED  BY <1>4, <1>w, <2>1 DEF Rollback
  <1>5. ASSUME NEW e \in Events, Claim(p, e)
        PROVE  StateOK' /\ \A q \in Pods \ {p} : work'[q] = work[q] /\ holding'[q] = holding[q]
    <2>1. [e |-> e, st |-> "claimed"] \in HoldType
      BY DEF HoldType
    <2> QED  BY <1>5, <1>h, <2>1 DEF Claim
  <1>6. ASSUME NEW e \in Events, Prune(p, e)
        PROVE  StateOK' /\ \A q \in Pods \ {p} : work'[q] = work[q] /\ holding'[q] = holding[q]
    BY <1>6 DEF Prune
  <1>7. ASSUME Publish(p)
        PROVE  StateOK' /\ \A q \in Pods \ {p} : work'[q] = work[q] /\ holding'[q] = holding[q]
    <2>1. holding[p] # NoHold
      BY <1>7 DEF Publish
    <2>2. [holding[p] EXCEPT !.st = "sent"] \in HoldType
      BY <2>1 DEF HoldType
    <2> QED  BY <1>7, <1>h, <2>2 DEF Publish
  <1>8. ASSUME PublishFails(p) \/ Mark(p)
        PROVE  StateOK' /\ \A q \in Pods \ {p} : work'[q] = work[q] /\ holding'[q] = holding[q]
    <2>1. NoHold \in HoldType
      BY DEF HoldType
    <2>2. UNCHANGED <<changed, work>> /\ holding' = [holding EXCEPT ![p] = NoHold]
      BY <1>8 DEF PublishFails, Mark
    <2>3. outbox' \in [Events -> {"absent", "pending", "claimed", "published", "pruned", "dead"}]
      BY <1>8 DEF PublishFails, Mark
    <2> QED  BY <1>h, <2>1, <2>2, <2>3
  <1> QED  BY <1>1, <1>2, <1>3, <1>4, <1>5, <1>6, <1>7, <1>8 DEF RelayStep

LEMMA TypesPreserved ==
  ASSUME StateOK, [Next]_vars
  PROVE  StateOK'
  <1>1. ASSUME NEW p \in Pods, LifecycleStep(p) /\ UNCHANGED relayVars PROVE StateOK'
    BY <1>1, PodTypes DEF StateOK, relayVars
  <1>2. ASSUME NEW p \in Pods, RelayStep(p) /\ UNCHANGED <<pod, registered>> PROVE StateOK'
    BY <1>2, RelayTypes
  <1>3. ASSUME NEW p \in Pods, (Exit(p) \/ Kill(p)) /\ Vanish(p) PROVE StateOK'
    <2>1. NoWork \in WorkType /\ NoHold \in HoldType
      BY DEF WorkType, HoldType
    <2>2. pod' \in [Pods -> PodType]
      BY <1>3, PodTypes DEF StateOK
    <2> QED  BY <1>3, <2>1, <2>2 DEF StateOK, Vanish
  <1>4. ASSUME NEW e \in Events, LeaseExpires(e) /\ UNCHANGED <<pod, registered>> PROVE StateOK'
    BY <1>4 DEF LeaseExpires, StateOK
  <1>5. CASE (\E v \in Versions : RegisterSchema(v)) /\ UNCHANGED relayVars
    BY <1>5 DEF RegisterSchema, StateOK, relayVars
  <1>6. CASE UNCHANGED <<pod, registered>> /\ UNCHANGED relayVars
    BY <1>6 DEF StateOK, relayVars
  <1> QED  BY <1>1, <1>2, <1>3, <1>4, <1>5, <1>6, StepKinds

LEMMA OutboxPreserved ==
  ASSUME OutboxInv, [Next]_vars
  PROVE  OutboxInv'
  <1> DEFINE Goal == RunnersTruthful' /\ AnnouncedIffHappened'
  <1>0. StateOK'
    BY TypesPreserved DEF OutboxInv
  <1>t. StateOK
    BY DEF OutboxInv
  <1> USE <1>t, IdleStates DEF OutboxInv, StateOK, RunnersTruthful, AnnouncedIffHappened, WasSent
  <1>1. ASSUME UNCHANGED <<changed, outbox, holding, sent>> PROVE Goal
    BY <1>1
  <1>2. ASSUME NEW p \in Pods, Commit(p) PROVE Goal
    <2>1. work[p].e \in Events
      BY <1>2 DEF Commit
    <2>2. \A e \in Events : outbox'[e] = IF e = work[p].e THEN "pending" ELSE outbox[e]
      BY <1>2 DEF Commit
    <2>3. changed' = changed \cup {work[p].e} /\ UNCHANGED <<holding, sent>>
      BY <1>2 DEF Commit
    <2> QED  BY <2>1, <2>2, <2>3
  <1>3. ASSUME NEW p \in Pods, NEW e \in Events, Claim(p, e) PROVE Goal
    <2>1. outbox[e] = "pending" /\ UNCHANGED <<changed, sent>>
          /\ \A d \in Events : outbox'[d] = IF d = e THEN "claimed" ELSE outbox[d]
      BY <1>3 DEF Claim
    <2>2. \A q \in Pods : holding'[q] = IF q = p THEN [e |-> e, st |-> "claimed"] ELSE holding[q]
      BY <1>3 DEF Claim
    <2>3. e \in changed
      BY <2>1
    <2> QED  BY <2>1, <2>2, <2>3
  <1>4. ASSUME NEW p \in Pods, NEW e \in Events, Prune(p, e) PROVE Goal
    <2>1. outbox[e] = "published" /\ UNCHANGED <<changed, holding, sent>>
          /\ \A d \in Events : outbox'[d] = IF d = e THEN "pruned" ELSE outbox[d]
      BY <1>4 DEF Prune, Prunable
    <2> QED  BY <2>1
  <1>5. ASSUME NEW p \in Pods, Publish(p) PROVE Goal
    <2>1. holding[p].st = "claimed" /\ UNCHANGED <<changed, outbox>> /\ sent' = sent \cup {holding[p].e}
      BY <1>5 DEF Publish
    <2>2. holding[p] # NoHold /\ holding[p].e \in changed
      BY <2>1
    <2>3. \A q \in Pods : holding'[q] = IF q = p THEN [holding[p] EXCEPT !.st = "sent"] ELSE holding[q]
      BY <1>5 DEF Publish
    <2>4. holding'[p].e = holding[p].e
      BY <2>2, <2>3 DEF HoldType
    <2> QED  BY <2>1, <2>2, <2>3, <2>4
  <1>6. ASSUME NEW p \in Pods, PublishFails(p) PROVE Goal
    <2>1. holding[p].e \in Events /\ UNCHANGED <<changed, sent>>
      BY <1>6 DEF PublishFails
    <2>2. \A e \in Events : outbox'[e] # outbox[e] =>
                             outbox[e] \in {"pending", "claimed"} /\ outbox'[e] = "dead"
      BY <1>6, <2>1 DEF PublishFails
    <2>3. \A q \in Pods : holding'[q] \in {NoHold, holding[q]}
      BY <1>6 DEF PublishFails
    <2> QED  BY <2>1, <2>2, <2>3
  <1>7. ASSUME NEW p \in Pods, Mark(p) PROVE Goal
    <2>1. holding[p].st = "sent" /\ holding[p] # NoHold /\ UNCHANGED <<changed, sent>>
      BY <1>7 DEF Mark
    <2>2. \A e \in Events : outbox'[e] =
            IF e = holding[p].e
            THEN (IF outbox[e] \in {"pruned", "dead"} THEN outbox[e] ELSE "published")
            ELSE outbox[e]
      BY <1>7, <2>1 DEF Mark
    <2>3. \A q \in Pods : holding'[q] = IF q = p THEN NoHold ELSE holding[q]
      BY <1>7 DEF Mark
    <2>4. WasSent(holding[p].e) /\ holding[p].e \in changed
      BY <2>1
    <2> QED  BY <2>1, <2>2, <2>3, <2>4
  <1>8. ASSUME NEW p \in Pods, Vanish(p) PROVE Goal
    <2>1. \A q \in Pods : holding'[q] \in {NoHold, holding[q]}
      BY <1>8 DEF Vanish
    <2> QED  BY <1>8, <2>1 DEF Vanish
  <1>9. ASSUME NEW e \in Events, LeaseExpires(e) PROVE Goal
    <2>1. outbox[e] = "claimed" /\ UNCHANGED <<changed, holding, sent>>
          /\ \A d \in Events : outbox'[d] = IF d = e THEN "pending" ELSE outbox[d]
      BY <1>9 DEF LeaseExpires
    <2> QED  BY <2>1
  <1>10. ASSUME NEW p \in Pods, RelayStep(p) PROVE Goal
    <2>1. ASSUME \/ \E src \in Sources, e \in Events : Begin(p, src, e)
                 \/ Change(p) \/ EnqueueCtx(p) \/ Retry(p) \/ Rollback(p)
          PROVE  UNCHANGED <<changed, outbox, holding, sent>>
      BY <2>1 DEF Begin, Change, EnqueueCtx, Retry, Rollback
    <2> QED  BY <1>1, <1>2, <1>3, <1>4, <1>5, <1>6, <1>7, <1>10, <2>1 DEF RelayStep
  <1>11. Goal
    <2>1. UNCHANGED relayVars => UNCHANGED <<changed, outbox, holding, sent>>
      BY DEF relayVars
    <2> HIDE DEF Goal, OutboxInv, StateOK, RunnersTruthful, AnnouncedIffHappened
    <2> QED  BY <1>1, <1>8, <1>9, <1>10, <2>1, StepKinds
  <1> QED  BY <1>0, <1>11 DEF OutboxInv

\* However many pods relay, fail and are killed: a change is committed exactly with
\* its outbox row, nothing is published that did not happen, and a row is pruned only
\* after its event went out.
THEOREM Announced == Spec => []AnnouncedIffHappened
  <1>1. Spec => []OutboxInv
    BY OutboxInitially, OutboxPreserved, PTL DEF Spec
  <1>2. OutboxInv => AnnouncedIffHappened
    BY DEF OutboxInv
  <1> QED  BY <1>1, <1>2, PTL

-----------------------------------------------------------------------------
(***************************************************************************)
(* Pods and what they have open.                                           *)
(***************************************************************************)
NotServing == {"off", "outbox_schema", "domain_schema", "app_pool", "sys_pool", "codec", "clients",
               "consumer"}

\* What run has opened at least when it gets to a stage.
OpenedAt(pc) ==
  CASE pc \in {"off", "outbox_schema", "domain_schema", "app_pool"} -> {}
    [] pc = "sys_pool" -> {"app"}
    [] pc \in {"codec", "clients"} -> {"app", "sys"}
    [] OTHER -> {"app", "sys", "redis"}

Coded(q, reg) == q.cfg.registry => q.ver \in reg

\* A pod q, the transaction w and the claim h it has in hand, the registry reg.
PodOK(q, w, h, reg) ==
  /\ q.pc \in NotServing => q.workers = {} /\ q.stop = "none" /\ w = NoWork /\ h = NoHold
  /\ q.pc # "unwind" => OpenedAt(q.pc) \subseteq ToSet(q.opened)
  /\ q.pc \in {"clients", "consumer", "serving"} => Coded(q, reg)
  /\ h # NoHold => Coded(q, reg)
  /\ q.stop # "none" => "http" \notin q.workers /\ q.cancelled
  /\ q.stop \in {"outbox", "sqs", "done"} /\ w.src = "http" => w = NoWork \/ q.late
  /\ q.stop = "done" => w = NoWork \/ w.src # "sqs"
  /\ q.pc = "unwind" => q.workers = {} /\ q.stop \in {"none", "done"} /\ (w = NoWork \/ q.late)

PodInv == StateOK /\ \A p \in Pods : PodOK(pod[p], work[p], holding[p], registered)

LEMMA PodInitially == Init => PodInv
  <1> SUFFICES ASSUME Init PROVE PodInv
    OBVIOUS
  <1>1. StateOK
    BY OutboxInitially DEF OutboxInv
  <1>2. \A v \in Versions, c \in Configs : PodOK(Down(v, c), NoWork, NoHold, registered)
    BY DEF PodOK, Down, OpenedAt, NoWork, NoHold
  <1> QED  BY <1>1, <1>2, DownInitially DEF Init, RelayInit, PodInv

\* A step of one pod disturbs no other.
LEMMA OnePod ==
  ASSUME PodInv, NEW p \in Pods, registered \subseteq registered',
         \A q \in Pods \ {p} : pod'[q] = pod[q] /\ work'[q] = work[q] /\ holding'[q] = holding[q],
         PodOK(pod'[p], work'[p], holding'[p], registered')
  PROVE  \A q \in Pods : PodOK(pod'[q], work'[q], holding'[q], registered')
  <1>1. ASSUME NEW q \in Pods \ {p}
        PROVE  PodOK(pod'[q], work'[q], holding'[q], registered')
    <2>1. PodOK(pod[q], work[q], holding[q], registered)
      BY DEF PodInv
    <2>2. PodOK(pod[q], work[q], holding[q], registered')
      BY <2>1 DEF PodOK, Coded
    <2> QED  BY <2>2
  <1> QED  BY <1>1

LEMMA OpenedGrow ==
  ASSUME NEW s \in Seq(Resources), NEW t \in Seq(Resources)
  PROVE  ToSet(s) \cup ToSet(t) \subseteq ToSet(s \o t)
  <1>1. /\ Len(s) \in Nat /\ Len(t) \in Nat /\ DOMAIN (s \o t) = 1 .. Len(s) + Len(t)
        /\ DOMAIN s = 1 .. Len(s) /\ DOMAIN t = 1 .. Len(t)
    BY ConcatProperties, LenProperties
  <1>2. ASSUME NEW i \in DOMAIN s PROVE s[i] \in ToSet(s \o t)
    <2>1. i \in 1 .. Len(s) + Len(t) /\ i <= Len(s)
      BY <1>1, <1>2
    <2>2. (s \o t)[i] = s[i]
      BY <2>1, ConcatProperties
    <2> QED  BY <1>1, <2>1, <2>2 DEF ToSet
  <1>3. ASSUME NEW i \in DOMAIN t PROVE t[i] \in ToSet(s \o t)
    <2>1. Len(s) + i \in 1 .. Len(s) + Len(t) /\ ~ (Len(s) + i <= Len(s)) /\ Len(s) + i - Len(s) = i
      BY <1>1, <1>3
    <2>2. (s \o t)[Len(s) + i] = t[i]
      BY <2>1, ConcatProperties
    <2> QED  BY <1>1, <2>1, <2>2 DEF ToSet
  <1> QED  BY <1>2, <1>3 DEF ToSet

LEMMA StagesOpen ==
  ASSUME NEW pc \in DOMAIN Stages
  PROVE  /\ Opens[pc] \in Seq(Resources)
         /\ OpenedAt(Stages[pc]) \subseteq OpenedAt(pc) \cup ToSet(Opens[pc])
         /\ pc \in NotServing /\ Stages[pc] # "unwind"
         /\ Stages[pc] \in NotServing <=> pc # "consumer"
         /\ Stages[pc] \in {"clients", "consumer", "serving"} =>
              pc \in {"codec", "clients", "consumer"}
  <1>1. pc \in {"app_pool", "sys_pool", "codec", "clients", "consumer"}
    BY DEF Stages
  <1>2. ASSUME NEW r \in Resources PROVE r \in ToSet(<<r>>) /\ <<r>> \in Seq(Resources)
    <2>1. <<r>>[1] = r /\ 1 \in DOMAIN <<r>>
      OBVIOUS
    <2> QED  BY <2>1 DEF ToSet
  <1>3. CASE pc = "app_pool"
    BY <1>2, <1>3 DEF Stages, Opens, OpenedAt, NotServing, Resources
  <1>4. CASE pc = "sys_pool"
    BY <1>2, <1>4 DEF Stages, Opens, OpenedAt, NotServing, Resources
  <1>5. CASE pc = "codec"
    <2>1. Opens[pc] = << >> /\ << >> \in Seq(Resources) /\ Stages[pc] = "clients"
      BY <1>5 DEF Opens, Stages
    <2> QED  BY <1>5, <2>1 DEF OpenedAt, NotServing
  <1>7. CASE pc = "consumer"
    <2>1. Opens[pc] = << >> /\ << >> \in Seq(Resources) /\ Stages[pc] = "serving"
      BY <1>7 DEF Opens, Stages
    <2> QED  BY <1>7, <2>1 DEF OpenedAt, NotServing
  <1>6. CASE pc = "clients"
    BY <1>2, <1>6 DEF Stages, Opens, OpenedAt, NotServing, Resources
  <1> QED  BY <1>1, <1>3, <1>4, <1>5, <1>6, <1>7

\* A pod starts, or fails to.
LEMMA StartingKeeps ==
  ASSUME PodInv, NEW p \in Pods,
         \/ Boot(p) \/ MigrateLock(p) \/ MigrateApply(p) \/ Start(p) \/ StartFails(p)
  PROVE  PodOK(pod'[p], work[p], holding[p], registered)
  <1>1. /\ pod \in [Pods -> PodType] /\ PodOK(pod[p], work[p], holding[p], registered)
    BY DEF PodInv, StateOK
  <1>3. ASSUME MigrateLock(p) PROVE PodOK(pod'[p], work[p], holding[p], registered)
    BY <1>1, <1>3 DEF MigrateLock
  <1>4. ASSUME Boot(p) \/ MigrateApply(p) PROVE PodOK(pod'[p], work[p], holding[p], registered)
    <2>1. PICK pc \in {"outbox_schema", "domain_schema", "app_pool"} :
            pod' = [pod EXCEPT ![p].pc = pc]
      BY <1>4 DEF Boot, MigrateApply, Goto
    <2>2. /\ pod'[p].pc = pc /\ pod'[p].workers = pod[p].workers /\ pod'[p].stop = pod[p].stop
      BY <1>1, <2>1 DEF PodType
    <2>3. pod[p].workers = {} /\ pod[p].stop = "none" /\ work[p] = NoWork /\ holding[p] = NoHold
      BY <1>1, <1>4 DEF Boot, MigrateApply, PodOK, NotServing
    <2> QED  BY <2>2, <2>3 DEF PodOK, OpenedAt
  <1>5. ASSUME StartFails(p) PROVE PodOK(pod'[p], work[p], holding[p], registered)
    <2>1. pod' = [pod EXCEPT ![p].pc = "unwind"]
      BY <1>5 DEF StartFails, Goto
    <2>2. /\ pod'[p].pc = "unwind" /\ pod'[p].workers = pod[p].workers /\ pod'[p].stop = pod[p].stop
      BY <1>1, <2>1 DEF PodType
    <2>3. pod[p].pc \in NotServing
      BY <1>5 DEF StartFails, Stages, MigrationOrder, NotServing
    <2>4. pod[p].workers = {} /\ pod[p].stop = "none" /\ work[p] = NoWork /\ holding[p] = NoHold
      BY <1>1, <2>3 DEF PodOK
    <2> QED  BY <2>2, <2>4 DEF PodOK, NotServing
  <1>6. ASSUME Start(p) PROVE PodOK(pod'[p], work[p], holding[p], registered)
    <2> DEFINE pc == pod[p].pc
    <2>1. pc \in DOMAIN Stages /\ StageSucceeds(p)
      BY <1>6 DEF Start
    <2>2. /\ pod'[p].pc = Stages[pc] /\ pod'[p].opened = pod[p].opened \o Opens[pc]
          /\ pod'[p].stop = pod[p].stop /\ pod'[p].ver = pod[p].ver /\ pod'[p].cfg = pod[p].cfg
          /\ pc # "consumer" => pod'[p].workers = {}
      BY <1>1, <1>6 DEF Start, PodType
    <2>3. pod[p].stop = "none" /\ work[p] = NoWork /\ holding[p] = NoHold
      BY <1>1, <2>1, StagesOpen DEF PodOK
    <2>4. OpenedAt(Stages[pc]) \subseteq ToSet(pod[p].opened) \cup ToSet(Opens[pc])
      BY <1>1, <2>1, StagesOpen DEF PodOK, NotServing
    <2>5. OpenedAt(pod'[p].pc) \subseteq ToSet(pod'[p].opened)
      <3>1. pod[p].opened \in Seq(Resources) /\ Opens[pc] \in Seq(Resources)
        BY <1>1, <2>1, StagesOpen DEF PodType
      <3> HIDE DEF pc
      <3>2. ToSet(pod[p].opened) \cup ToSet(Opens[pc]) \subseteq ToSet(pod[p].opened \o Opens[pc])
        BY <3>1, OpenedGrow
      <3> QED  BY <2>2, <2>4, <3>2
    <2>6. pod'[p].pc \in {"clients", "consumer", "serving"} => Coded(pod'[p], registered)
      <3>1. ASSUME Stages[pc] \in {"clients", "consumer", "serving"} PROVE Coded(pod[p], registered)
        <4>1. pc \in {"codec", "clients", "consumer"}
          BY <2>1, <3>1, StagesOpen
        <4> QED  BY <1>1, <2>1, <4>1 DEF PodOK, StageSucceeds, NewGlueCodec, Coded
      <3> QED  BY <2>2, <3>1 DEF Coded
    <2>7. pod'[p].pc \in NotServing => pod'[p].workers = {}
      BY <2>1, <2>2, StagesOpen
    <2>8. pod'[p].pc # "unwind"
      BY <2>1, <2>2, StagesOpen
    <2> HIDE DEF pc
    <2> QED  BY <2>2, <2>3, <2>5, <2>6, <2>7, <2>8 DEF PodOK
  <1> QED  BY <1>3, <1>4, <1>5, <1>6

\* A pod serves, or stops.
LEMMA StoppingKeeps ==
  ASSUME PodInv, NEW p \in Pods,
         \/ Signal(p) \/ \E w \in Workers : WorkerFails(p, w)
         \/ WorkerReturns(p, "outbox", IdleRunner(p)) \/ WorkerReturns(p, "sqs", IdleIn(p, "sqs"))
         \/ Shutdown(p) \/ ShutdownWaits(p, IdleIn(p, "http"))
         \/ StopWorker(p, "outbox", IdleRunner(p)) \/ StopWorker(p, "sqs", IdleIn(p, "sqs"))
         \/ Wait(p) \/ Unwind(p, work[p] = NoWork)
  PROVE  PodOK(pod'[p], work[p], holding[p], registered)
  <1> DEFINE Goal == PodOK(pod'[p], work[p], holding[p], registered)
  <1>1. /\ pod \in [Pods -> PodType] /\ work \in [Pods -> WorkType]
        /\ PodOK(pod[p], work[p], holding[p], registered)
    BY DEF PodInv, StateOK
  <1>2. ASSUME Signal(p) PROVE Goal
    <2>1. /\ pod'[p].pc = pod[p].pc /\ pod'[p].opened = pod[p].opened /\ pod'[p].stop = pod[p].stop
          /\ pod'[p].ver = pod[p].ver /\ pod'[p].cfg = pod[p].cfg /\ pod'[p].cancelled = TRUE
          /\ pod'[p].workers = pod[p].workers /\ pod'[p].late = pod[p].late
      BY <1>1, <1>2 DEF Signal, PodType
    <2> QED  BY <1>1, <2>1 DEF PodOK, Coded
  <1>3. ASSUME NEW w \in Workers, WorkerFails(p, w) PROVE Goal
    <2>1. /\ pod'[p].pc = pod[p].pc /\ pod'[p].opened = pod[p].opened /\ pod'[p].stop = pod[p].stop
          /\ pod'[p].ver = pod[p].ver /\ pod'[p].cfg = pod[p].cfg /\ pod'[p].cancelled = TRUE
          /\ pod'[p].workers = pod[p].workers \ {w} /\ pod'[p].late = pod[p].late
      BY <1>1, <1>3 DEF WorkerFails, PodType
    <2> QED  BY <1>1, <2>1 DEF PodOK, Coded
  <1>4. ASSUME \/ WorkerReturns(p, "outbox", IdleRunner(p))
               \/ WorkerReturns(p, "sqs", IdleIn(p, "sqs"))
        PROVE  Goal
    <2>1. PICK w : pod' = [pod EXCEPT ![p].workers = @ \ {w}]
      BY <1>4 DEF WorkerReturns
    <2>2. /\ pod'[p].pc = pod[p].pc /\ pod'[p].opened = pod[p].opened /\ pod'[p].stop = pod[p].stop
          /\ pod'[p].ver = pod[p].ver /\ pod'[p].cfg = pod[p].cfg
          /\ pod'[p].cancelled = pod[p].cancelled
          /\ pod'[p].workers = pod[p].workers \ {w} /\ pod'[p].late = pod[p].late
      BY <1>1, <2>1 DEF PodType
    <2> QED  BY <1>1, <2>2 DEF PodOK, Coded
  <1>5. ASSUME Shutdown(p) PROVE Goal
    <2>1. /\ pod'[p].pc = "serving" /\ pod[p].pc = "serving" /\ pod'[p].opened = pod[p].opened
          /\ pod'[p].stop = "http" /\ pod'[p].cancelled = TRUE
          /\ pod'[p].ver = pod[p].ver /\ pod'[p].cfg = pod[p].cfg
          /\ pod'[p].workers = pod[p].workers \ {"http"} /\ pod'[p].late = pod[p].late
      BY <1>1, <1>5 DEF Shutdown, PodType
    <2> QED  BY <1>1, <2>1 DEF PodOK, Coded, NotServing
  <1>6. ASSUME ShutdownWaits(p, IdleIn(p, "http")) PROVE Goal
    <2>1. /\ pod'[p].pc = pod[p].pc /\ pod'[p].opened = pod[p].opened
          /\ pod[p].stop = "http" /\ pod'[p].stop = "outbox" /\ pod'[p].cancelled = pod[p].cancelled
          /\ pod'[p].ver = pod[p].ver /\ pod'[p].cfg = pod[p].cfg
          /\ pod'[p].workers = pod[p].workers /\ pod'[p].late = (work[p].src = "http")
      BY <1>1, <1>6 DEF ShutdownWaits, PodType, IdleIn
    <2>2. pod[p].pc # "unwind" => Goal
      BY <1>1, <2>1 DEF PodOK, Coded
    <2>3. pod[p].pc # "unwind"
      BY <1>1, <2>1 DEF PodOK
    <2> QED  BY <2>2, <2>3
  <1>7. ASSUME StopWorker(p, "outbox", IdleRunner(p)) PROVE Goal
    <2>1. /\ pod'[p].pc = pod[p].pc /\ pod'[p].opened = pod[p].opened
          /\ pod[p].stop = "outbox" /\ pod'[p].stop = "sqs" /\ pod'[p].cancelled = pod[p].cancelled
          /\ pod'[p].ver = pod[p].ver /\ pod'[p].cfg = pod[p].cfg
          /\ pod'[p].workers = pod[p].workers \ {"outbox"} /\ pod'[p].late = pod[p].late
      BY <1>1, <1>7 DEF StopWorker, PodType
    <2> QED  BY <1>1, <2>1 DEF PodOK, Coded
  <1>8. ASSUME StopWorker(p, "sqs", IdleIn(p, "sqs")) PROVE Goal
    <2>1. /\ pod'[p].pc = pod[p].pc /\ pod'[p].opened = pod[p].opened
          /\ pod[p].stop = "sqs" /\ pod'[p].stop = "done" /\ pod'[p].cancelled = pod[p].cancelled
          /\ pod'[p].ver = pod[p].ver /\ pod'[p].cfg = pod[p].cfg /\ work[p].src # "sqs"
          /\ pod'[p].workers = pod[p].workers \ {"sqs"} /\ pod'[p].late = pod[p].late
      BY <1>1, <1>8 DEF StopWorker, PodType, IdleIn
    <2> QED  BY <1>1, <2>1 DEF PodOK, Coded
  <1>9. ASSUME Wait(p) PROVE Goal
    <2>1. /\ pod'[p].pc = "unwind" /\ pod[p].pc = "serving" /\ pod'[p].opened = pod[p].opened
          /\ pod[p].stop = "done" /\ pod'[p].stop = "done" /\ pod'[p].cancelled = pod[p].cancelled
          /\ pod'[p].ver = pod[p].ver /\ pod'[p].cfg = pod[p].cfg
          /\ pod'[p].workers = {} /\ pod[p].workers = {} /\ pod'[p].late = pod[p].late
      BY <1>1, <1>9 DEF Wait, Goto, PodType
    <2>2. work[p] = NoWork \/ work[p].src \in {"http", "sqs"}
      BY <1>1 DEF WorkType, Sources
    <2> QED  BY <1>1, <2>1, <2>2 DEF PodOK, Coded, NotServing
  <1>10. ASSUME Unwind(p, work[p] = NoWork) PROVE Goal
    <2>1. /\ pod'[p].pc = "unwind" /\ pod[p].pc = "unwind"
          /\ pod'[p].stop = pod[p].stop /\ pod'[p].cancelled = pod[p].cancelled
          /\ pod'[p].ver = pod[p].ver /\ pod'[p].cfg = pod[p].cfg
          /\ pod'[p].workers = pod[p].workers
      BY <1>1, <1>10 DEF Unwind, PodType
    <2>2. pod[p].late => pod'[p].late
      BY <1>1, <1>10 DEF Unwind, PodType
    <2> QED  BY <1>1, <2>1, <2>2 DEF PodOK, Coded, NotServing
  <1>11. CASE Signal(p) \/ Shutdown(p) \/ Wait(p)
    BY <1>2, <1>5, <1>9, <1>11, Zenon
  <1>12. CASE \E w \in Workers : WorkerFails(p, w)
    BY <1>3, <1>12, Zenon
  <1>13. CASE ShutdownWaits(p, IdleIn(p, "http")) \/ Unwind(p, work[p] = NoWork)
    BY <1>6, <1>10, <1>13, Zenon
  <1>14. CASE StopWorker(p, "outbox", IdleRunner(p)) \/ StopWorker(p, "sqs", IdleIn(p, "sqs"))
    BY <1>7, <1>8, <1>14, Zenon
  <1> QED  BY <1>4, <1>11, <1>12, <1>13, <1>14, Zenon

\* What a transaction or a runner does leaves its pod as it was.
LEMMA WorkingKeeps ==
  ASSUME PodInv, NEW p \in Pods, RelayStep(p)
  PROVE  /\ \A q \in Pods \ {p} : work'[q] = work[q] /\ holding'[q] = holding[q]
         /\ PodOK(pod[p], work'[p], holding'[p], registered)
  <1> DEFINE Goal == /\ \A q \in Pods \ {p} : work'[q] = work[q] /\ holding'[q] = holding[q]
                     /\ PodOK(pod[p], work'[p], holding'[p], registered)
  <1>1. /\ pod \in [Pods -> PodType] /\ work \in [Pods -> WorkType] /\ holding \in [Pods -> HoldType]
        /\ PodOK(pod[p], work[p], holding[p], registered)
    BY DEF PodInv, StateOK
  <1>2. ASSUME NEW src \in Sources, NEW e \in Events, Begin(p, src, e) PROVE Goal
    <2>1. /\ src \in pod[p].workers /\ (src = "sqs" => ~ pod[p].cancelled) /\ holding' = holding
          /\ work' = [work EXCEPT ![p] = [src |-> src, e |-> e, st |-> "begun"]]
      BY <1>2 DEF Begin
    <2>2. /\ \A q \in Pods \ {p} : work'[q] = work[q]
          /\ work'[p].src = src
      BY <1>1, <2>1
    <2>3. pod[p].pc \notin NotServing /\ pod[p].pc # "unwind"
      BY <1>1, <2>1 DEF PodOK
    <2>4. pod[p].stop = "none"
      BY <1>1, <2>1 DEF PodOK, Sources
    <2> QED  BY <1>1, <2>1, <2>2, <2>3, <2>4 DEF PodOK
  <1>3. ASSUME Change(p) \/ EnqueueCtx(p) \/ Retry(p) PROVE Goal
    <2>1. holding' = holding /\ \E st \in {"begun", "changed", "enqueued"} :
                                 work' = [work EXCEPT ![p].st = st]
      BY <1>3 DEF Change, EnqueueCtx, Retry
    <2>2. work[p].st # "none"
      BY <1>3 DEF Change, EnqueueCtx, Retry
    <2>3. work[p] # NoWork
      BY <2>2 DEF NoWork
    <2>4. work[p] \in [src : Sources, e : Events, st : {"begun", "changed", "enqueued"}]
      BY <1>1, <2>3 DEF WorkType
    <2>5. /\ \A q \in Pods \ {p} : work'[q] = work[q]
          /\ work'[p].src = work[p].src
      BY <1>1, <2>1, <2>4
    <2>6. pod[p].pc \notin NotServing /\ (pod[p].pc = "unwind" => pod[p].late)
      BY <1>1, <2>3 DEF PodOK
    <2> QED  BY <1>1, <2>1, <2>3, <2>5, <2>6 DEF PodOK
  <1>4. ASSUME Commit(p) \/ Rollback(p) PROVE Goal
    <2>1. holding' = holding /\ work' = [work EXCEPT ![p] = NoWork]
      BY <1>4 DEF Commit, Rollback
    <2>2. work[p] # NoWork
      BY <1>4 DEF Commit, Rollback, NoWork
    <2>3. /\ \A q \in Pods \ {p} : work'[q] = work[q]
          /\ work'[p] = NoWork
      BY <1>1, <2>1
    <2> QED  BY <1>1, <2>1, <2>3 DEF PodOK
  <1>5. ASSUME NEW e \in Events, Claim(p, e) PROVE Goal
    <2>1. /\ "outbox" \in pod[p].workers /\ work' = work
          /\ holding' = [holding EXCEPT ![p] = [e |-> e, st |-> "claimed"]]
      BY <1>5 DEF Claim
    <2>2. \A q \in Pods \ {p} : holding'[q] = holding[q]
      BY <1>1, <2>1
    <2>3. pod[p].pc \notin NotServing /\ pod[p].pc # "unwind"
      BY <1>1, <2>1 DEF PodOK
    <2>4. pod[p].pc = "serving"
      BY <1>1, <2>3 DEF PodType, NotServing
    <2> QED  BY <1>1, <2>1, <2>2, <2>3, <2>4 DEF PodOK
  <1>6. ASSUME NEW e \in Events, Prune(p, e) PROVE Goal
    BY <1>1, <1>6 DEF Prune
  <1>7. ASSUME Publish(p) PROVE Goal
    <2>1. /\ holding[p].st = "claimed" /\ work' = work
          /\ holding' = [holding EXCEPT ![p].st = "sent"]
      BY <1>7 DEF Publish
    <2>2. holding[p] # NoHold
      BY <2>1 DEF NoHold
    <2>3. \A q \in Pods \ {p} : holding'[q] = holding[q]
      BY <1>1, <2>1
    <2>4. pod[p].pc \notin NotServing /\ Coded(pod[p], registered)
      BY <1>1, <2>2 DEF PodOK
    <2> QED  BY <1>1, <2>1, <2>3, <2>4 DEF PodOK
  <1>8. ASSUME PublishFails(p) \/ Mark(p) PROVE Goal
    <2>1. work' = work /\ holding' = [holding EXCEPT ![p] = NoHold]
      BY <1>8 DEF PublishFails, Mark
    <2>2. /\ \A q \in Pods \ {p} : holding'[q] = holding[q]
          /\ holding'[p] = NoHold
      BY <1>1, <2>1
    <2> QED  BY <1>1, <2>1, <2>2 DEF PodOK
  <1> HIDE DEF Goal
  <1>9. Goal
    BY <1>2, <1>3, <1>4, <1>5, <1>6, <1>7, <1>8 DEF RelayStep
  <1> QED  BY <1>9 DEF Goal

LEMMA PodPreserved == PodInv /\ [Next]_vars => PodInv'
  <1> SUFFICES ASSUME PodInv, [Next]_vars PROVE PodInv'
    OBVIOUS
  <1>0. StateOK'
    BY TypesPreserved DEF PodInv
  <1> DEFINE Goal == \A q \in Pods : PodOK(pod'[q], work'[q], holding'[q], registered')
  <1>1. ASSUME NEW p \in Pods, LifecycleStep(p), UNCHANGED relayVars PROVE Goal
    <2>1. registered' = registered
      BY <1>1 DEF LifecycleStep, Boot, MigrateLock, MigrateApply, Start, StartFails, Signal,
                  WorkerFails, WorkerReturns, Shutdown, ShutdownWaits, StopWorker, Wait, Unwind
    <2>2. work' = work /\ holding' = holding
      BY <1>1 DEF relayVars
    <2>3. \A q \in Pods \ {p} : pod'[q] = pod[q]
      BY <1>1, PodTypes DEF PodInv, StateOK
    <2>4. PodOK(pod'[p], work[p], holding[p], registered)
      BY <1>1, StartingKeeps, StoppingKeeps DEF LifecycleStep
    <2> QED  BY <2>1, <2>2, <2>3, <2>4, OnePod
  <1>2. ASSUME NEW p \in Pods, RelayStep(p), UNCHANGED <<pod, registered>> PROVE Goal
    BY <1>2, WorkingKeeps, OnePod
  <1>3. ASSUME NEW p \in Pods, Exit(p) \/ Kill(p), Vanish(p) PROVE Goal
    <2>1. registered' = registered /\ pod' = [pod EXCEPT ![p] = Down(pod[p].ver, pod[p].cfg)]
      BY <1>3 DEF Exit, Kill
    <2>2. /\ work' = [work EXCEPT ![p] = NoWork] /\ holding' = [holding EXCEPT ![p] = NoHold]
      BY <1>3 DEF Vanish
    <2>3. /\ pod'[p] = Down(pod[p].ver, pod[p].cfg) /\ work'[p] = NoWork /\ holding'[p] = NoHold
          /\ \A q \in Pods \ {p} : pod'[q] = pod[q] /\ work'[q] = work[q] /\ holding'[q] = holding[q]
      BY <2>1, <2>2 DEF PodInv, StateOK
    <2>4. PodOK(Down(pod[p].ver, pod[p].cfg), NoWork, NoHold, registered)
      BY DEF PodOK, Down, OpenedAt, NoWork, NoHold
    <2> QED  BY <2>1, <2>3, <2>4, OnePod
  <1>4. ASSUME NEW e \in Events, LeaseExpires(e), UNCHANGED <<pod, registered>> PROVE Goal
    BY <1>4 DEF LeaseExpires, PodInv
  <1>5. ASSUME NEW v \in Versions, RegisterSchema(v), UNCHANGED relayVars PROVE Goal
    <2>1. pod' = pod /\ work' = work /\ holding' = holding /\ registered \subseteq registered'
      BY <1>5 DEF RegisterSchema, relayVars
    <2> QED  BY <2>1 DEF PodInv, PodOK, Coded
  <1>6. ASSUME UNCHANGED <<pod, registered>>, UNCHANGED relayVars PROVE Goal
    BY <1>6 DEF relayVars, PodInv
  <1>7. Goal
    <2> HIDE DEF Goal
    <2> QED  BY <1>1, <1>2, <1>3, <1>4, <1>5, <1>6, StepKinds
  <1> QED  BY <1>0, <1>7 DEF PodInv

\* The deferred closes of run never take a pool or the cache from a request or a
\* handler that still has time left, however signals, failures and stops interleave.
THEOREM ResourcesStayOpen == Spec => []ResourcesOutliveWork
  <1>1. Spec => []PodInv
    BY PodInitially, PodPreserved, PTL DEF Spec
  <1>2. PodInv => ResourcesOutliveWork
    <2> SUFFICES ASSUME PodInv, NEW p \in Pods, work[p] # NoWork, ~ pod[p].late
                 PROVE  Has(p, "app") /\ Has(p, "sys") /\ Has(p, "redis")
      BY DEF ResourcesOutliveWork
    <2>1. PodOK(pod[p], work[p], holding[p], registered) /\ pod[p] \in PodType
      BY DEF PodInv, StateOK
    <2>2. pod[p].pc \notin NotServing /\ pod[p].pc # "unwind"
      BY <2>1 DEF PodOK
    <2>3. pod[p].pc = "serving"
      BY <2>1, <2>2 DEF PodType, NotServing
    <2>4. OpenedAt("serving") \subseteq ToSet(pod[p].opened)
      BY <2>1, <2>3 DEF PodOK
    <2> QED  BY <2>4 DEF OpenedAt, Has
  <1> QED  BY <1>1, <1>2, PTL

-----------------------------------------------------------------------------
(***************************************************************************)
(* Attempts and dead letters.                                              *)
(***************************************************************************)
\* A row still in the outbox has an attempt left, and each one it lost was a fault.
AttemptsInv ==
  /\ attempts \in [Events -> 0..MaxAttempts]
  /\ faults \in Nat
  /\ \A e \in Events : outbox[e] \in {"absent", "pending", "claimed"} => attempts[e] < MaxAttempts
  /\ OnlyOutagesCostAttempts

LEMMA AttemptsInitially == Init => AttemptsInv
  BY AttemptsAssumption
     DEF Init, LifecycleInit, RelayInit, AttemptsInv, OnlyOutagesCostAttempts

\* A pod that holds an event can encode it.
LEMMA HoldersEncode ==
  ASSUME PodInv, NEW p \in Pods, PublishFails(p)
  PROVE  Encodes(p) /\ holding[p].e \in Events
  <1>1. holding[p].st = "claimed" /\ holding[p] \in HoldType
    BY DEF PublishFails, PodInv, StateOK
  <1>2. holding[p] # NoHold
    BY <1>1 DEF NoHold
  <1> QED  BY <1>1, <1>2, IdleStates DEF PodInv, PodOK, Coded, Encodes

\* Who touches attempts, rows and faults.
LEMMA AttemptSteps ==
  ASSUME PodInv, faults \in Nat, [Next]_vars
  PROVE  \/ \E p \in Pods : PublishFails(p) /\ faults' = faults + 1
         \/ \E p \in Pods : Commit(p) /\ UNCHANGED faults
         \/ /\ UNCHANGED attempts /\ faults' \in {faults, faults + 1}
            /\ \/ UNCHANGED outbox
               \/ \E p \in Pods : Mark(p)
               \/ \E p \in Pods, e \in Events : Claim(p, e) \/ Prune(p, e)
               \/ \E e \in Events : LeaseExpires(e)
  <1> DEFINE Quiet == UNCHANGED <<attempts, outbox>>
  <1>1. ASSUME NEW p \in Pods, Starting(p) PROVE Quiet /\ faults' \in {faults, faults + 1}
    BY <1>1 DEF Starting, relayVars, Boot, MigrateLock, MigrateApply, Start, StartFails, Fault, NoFault
  <1>2. ASSUME NEW p \in Pods, Stopping(p) PROVE Quiet /\ UNCHANGED faults
    BY <1>2 DEF Stopping, relayVars, WorkerReturns, Shutdown, ShutdownWaits, StopWorker, Wait, Unwind,
                Exit, Vanish
  <1>3. ASSUME NEW p \in Pods, Failing(p)
        PROVE  \/ Quiet /\ faults' \in {faults, faults + 1}
               \/ PublishFails(p) /\ faults' = faults + 1
    BY <1>3, HoldersEncode DEF Failing, Refused, relayVars, Signal, WorkerFails, Kill, Vanish, Fault, Retry
  <1>4. ASSUME NEW p \in Pods, Working(p)
        PROVE  UNCHANGED faults /\ (Quiet \/ Commit(p))
    BY <1>4 DEF Working, lifecycleVars, Begin, Change, EnqueueCtx, Commit, Rollback
  <1>5. ASSUME NEW p \in Pods, Relaying(p)
        PROVE  /\ UNCHANGED <<attempts, faults>>
               /\ Quiet \/ Mark(p) \/ (\E e \in Events : Claim(p, e) \/ Prune(p, e))
    BY <1>5 DEF Relaying, lifecycleVars, Claim, Prune, Publish, Mark
  <1>6. CASE Leases
    BY <1>6 DEF Leases, lifecycleVars, LeaseExpires
  <1>7. CASE Registry
    BY <1>7 DEF Registry, relayVars, RegisterSchema
  <1>8. CASE UNCHANGED vars
    BY <1>8 DEF vars, relayVars, lifecycleVars
  <1> HIDE DEF Quiet
  <1>9. Quiet => UNCHANGED attempts /\ UNCHANGED outbox
    BY DEF Quiet
  <1> QED  BY <1>1, <1>2, <1>3, <1>4, <1>5, <1>6, <1>7, <1>8, <1>9 DEF Next

LEMMA AttemptsPreserved == PodInv /\ AttemptsInv /\ [Next]_vars => AttemptsInv'
  <1> SUFFICES ASSUME PodInv, AttemptsInv, [Next]_vars PROVE AttemptsInv'
    OBVIOUS
  <1>0. /\ StateOK /\ MaxAttempts \in Nat \ {0} /\ faults \in Nat
        /\ attempts \in [Events -> 0..MaxAttempts]
        /\ \A e \in Events : outbox[e] \in {"absent", "pending", "claimed"} => attempts[e] < MaxAttempts
        /\ \A e \in Events : attempts[e] =< faults
    BY AttemptsAssumption DEF PodInv, AttemptsInv, OnlyOutagesCostAttempts
  <1>1. ASSUME NEW p \in Pods, PublishFails(p), faults' = faults + 1 PROVE AttemptsInv'
    <2>1. holding[p].e \in Events
      BY <1>1, HoldersEncode
    <2>2. PICK e \in Events : e = holding[p].e
      BY <2>1
    <2> DEFINE open == outbox[e] \in {"pending", "claimed"}
    <2>3. /\ attempts' = [attempts EXCEPT ![e] = IF open THEN @ + 1 ELSE @]
          /\ outbox' = [outbox EXCEPT ![e] = IF open /\ attempts[e] + 1 = MaxAttempts THEN "dead" ELSE @]
      BY <1>1, <2>2 DEF PublishFails
    <2>4. \A d \in Events \ {e} : attempts'[d] = attempts[d] /\ outbox'[d] = outbox[d]
      BY <1>0, <2>3 DEF StateOK
    <2>5. CASE open
      <3>1. /\ attempts[e] \in Nat /\ attempts[e] < MaxAttempts /\ attempts'[e] = attempts[e] + 1
            /\ attempts[e] =< faults
        BY <1>0, <2>3, <2>5
      <3>2. attempts' \in [Events -> 0..MaxAttempts]
        BY <1>0, <2>3, <2>5, <3>1
      <3>3. outbox'[e] \in {"absent", "pending", "claimed"} => attempts'[e] < MaxAttempts
        BY <1>0, <2>3, <2>5, <3>1 DEF StateOK
      <3>4. \A d \in Events : attempts'[d] =< faults'
        BY <1>0, <1>1, <2>4, <3>1
      <3> QED  BY <1>0, <1>1, <2>3, <2>4, <3>2, <3>3, <3>4 DEF AttemptsInv, OnlyOutagesCostAttempts
    <2>6. CASE ~ open
      <3>1. attempts' = attempts /\ outbox' = outbox
        BY <1>0, <2>3, <2>6 DEF StateOK
      <3> QED  BY <1>0, <1>1, <2>3, <3>1 DEF AttemptsInv, OnlyOutagesCostAttempts
    <2> QED  BY <2>5, <2>6
  <1>2. ASSUME UNCHANGED attempts, faults' \in {faults, faults + 1},
               \A e \in Events : outbox'[e] \in {"absent", "pending", "claimed"} =>
                                   outbox[e] \in {"absent", "pending", "claimed"}
        PROVE  AttemptsInv'
    BY <1>0, <1>2 DEF AttemptsInv, OnlyOutagesCostAttempts
  <1>3. ASSUME NEW p \in Pods, NEW e \in Events, Claim(p, e) \/ Prune(p, e)
        PROVE  \A d \in Events : outbox'[d] \in {"absent", "pending", "claimed"} =>
                                   outbox[d] \in {"absent", "pending", "claimed"}
    BY <1>0, <1>3 DEF Claim, Prune, Prunable, StateOK
  <1>3a. ASSUME NEW e \in Events, LeaseExpires(e)
         PROVE  \A d \in Events : outbox'[d] \in {"absent", "pending", "claimed"} =>
                                    outbox[d] \in {"absent", "pending", "claimed"}
    BY <1>0, <1>3a DEF LeaseExpires, StateOK
  <1>4. ASSUME NEW p \in Pods, Mark(p)
        PROVE  \A d \in Events : outbox'[d] \in {"absent", "pending", "claimed"} =>
                                   outbox[d] \in {"absent", "pending", "claimed"}
    BY <1>0, <1>4 DEF Mark, StateOK
  <1>5. ASSUME NEW p \in Pods, Commit(p), UNCHANGED faults
        PROVE  AttemptsInv'
    <2>1. work[p] # NoWork /\ work[p] \in WorkType
      BY <1>0, <1>5 DEF Commit, NoWork, StateOK
    <2>2. PICK e \in Events : e = work[p].e
      BY <2>1, IdleStates
    <2>3. /\ outbox' = [outbox EXCEPT ![e] = "pending"]
          /\ attempts' = [attempts EXCEPT ![e] = 0]
      BY <1>5, <2>2 DEF Commit
    <2>5. attempts' \in [Events -> 0..MaxAttempts] /\ \A d \in Events : attempts'[d] \in {0, attempts[d]}
      BY <1>0, <2>3
    <2>6. \A d \in Events : /\ outbox'[d] # outbox[d] => attempts'[d] = 0
                            /\ attempts'[d] # 0 => attempts'[d] = attempts[d]
      BY <1>0, <2>3 DEF StateOK
    <2>7. \A d \in Events : /\ attempts'[d] =< faults'
                            /\ outbox'[d] \in {"absent", "pending", "claimed"} => attempts'[d] < MaxAttempts
      <3> SUFFICES ASSUME NEW d \in Events
                   PROVE  /\ attempts'[d] =< faults'
                          /\ outbox'[d] \in {"absent", "pending", "claimed"} => attempts'[d] < MaxAttempts
        OBVIOUS
      <3>1. CASE attempts'[d] = 0
        BY <1>0, <1>5, <3>1
      <3>2. CASE attempts'[d] # 0
        <4>1. attempts'[d] = attempts[d] /\ outbox'[d] = outbox[d] /\ faults' = faults
          BY <1>5, <2>6, <3>2
        <4>2. attempts[d] =< faults
              /\ (outbox[d] \in {"absent", "pending", "claimed"} => attempts[d] < MaxAttempts)
          BY <1>0
        <4> QED  BY <4>1, <4>2
      <3> QED  BY <3>1, <3>2
    <2> QED  BY <1>0, <1>5, <2>5, <2>7 DEF AttemptsInv, OnlyOutagesCostAttempts
  <1>6. ASSUME UNCHANGED attempts, UNCHANGED outbox, faults' \in {faults, faults + 1}
        PROVE  AttemptsInv'
    BY <1>2, <1>6
  <1>7. ASSUME NEW p \in Pods, Mark(p), UNCHANGED attempts, faults' \in {faults, faults + 1}
        PROVE  AttemptsInv'
    BY <1>0, <1>2, <1>4, <1>7
  <1>8. ASSUME NEW p \in Pods, NEW e \in Events, Claim(p, e) \/ Prune(p, e), UNCHANGED attempts,
               faults' \in {faults, faults + 1}
        PROVE  AttemptsInv'
    BY <1>0, <1>2, <1>3, <1>8
  <1>9. ASSUME NEW e \in Events, LeaseExpires(e), UNCHANGED attempts,
               faults' \in {faults, faults + 1}
        PROVE  AttemptsInv'
    BY <1>0, <1>2, <1>3a, <1>9
  <1>10. faults \in Nat
    BY <1>0
  <1> HIDE DEF AttemptsInv
  <1> QED  BY <1>1, <1>5, <1>6, <1>7, <1>8, <1>9, <1>10, AttemptSteps

\* NewGlueCodec runs before the outbox runner exists and no version is ever taken
\* from the registry, so the codec never refuses an event: an attempt is lost only
\* to a fault, whatever builds are deployed before their schemas are registered.
THEOREM OutagesOnly == Spec => []OnlyOutagesCostAttempts
  <1>1. Spec => []AttemptsInv
    BY PodInitially, PodPreserved, AttemptsInitially, AttemptsPreserved, PTL DEF Spec
  <1>2. AttemptsInv => OnlyOutagesCostAttempts
    BY DEF AttemptsInv
  <1> QED  BY <1>1, <1>2, PTL
-----------------------------------------------------------------------------
(***************************************************************************)
(* What run has opened, in which order: a stack that start-up fills stage  *)
(* by stage and that the deferred closes empty from the top.               *)
(***************************************************************************)
Stacks == {<< >>, <<"app">>, <<"app", "sys">>, <<"app", "sys", "redis">>}

Stacked(q) ==
  /\ q.opened \in Stacks
  /\ q.pc \in {"off", "outbox_schema", "domain_schema", "app_pool"} => q.opened = << >>
  /\ q.pc = "sys_pool" => q.opened = <<"app">>
  /\ q.pc \in {"codec", "clients"} => q.opened = <<"app", "sys">>
  /\ q.pc \in {"consumer", "serving"} => q.opened = <<"app", "sys", "redis">>

SharedOK ==
  /\ schema \subseteq {"outbox", "domain"} /\ lock \in Pods \cup {None, "pooler"}
  /\ registered \subseteq Versions /\ faults \in 0..MaxFaults

StackInv == StateOK /\ SharedOK /\ \A p \in Pods : Stacked(pod[p])

LEMMA StackElements ==
  /\ << >> \in Seq(Resources) /\ Len(<< >>) = 0
  /\ <<"app">> \in Seq(Resources) /\ Len(<<"app">>) = 1 /\ <<"app">>[1] = "app"
  /\ <<"sys">> \in Seq(Resources) /\ Len(<<"sys">>) = 1 /\ <<"sys">>[1] = "sys"
  /\ <<"redis">> \in Seq(Resources) /\ Len(<<"redis">>) = 1 /\ <<"redis">>[1] = "redis"
  /\ <<"app", "sys">> \in Seq(Resources) /\ Len(<<"app", "sys">>) = 2
  /\ <<"app", "sys">>[1] = "app" /\ <<"app", "sys">>[2] = "sys"
  /\ <<"app", "sys", "redis">> \in Seq(Resources) /\ Len(<<"app", "sys", "redis">>) = 3
  /\ <<"app", "sys", "redis">>[1] = "app" /\ <<"app", "sys", "redis">>[2] = "sys"
  /\ <<"app", "sys", "redis">>[3] = "redis"
  BY DEF Resources

\* Adding to the top of a stack and taking from it.
LEMMA Push ==
  ASSUME NEW s \in Seq(Resources), NEW x \in Resources, NEW t \in Seq(Resources),
         Len(t) = Len(s) + 1, t[Len(t)] = x, \A i \in 1 .. Len(s) : t[i] = s[i]
  PROVE  s \o <<x>> = t
  <1>1. <<x>> \in Seq(Resources) /\ Len(<<x>>) = 1 /\ <<x>>[1] = x /\ Len(s) \in Nat
    OBVIOUS
  <1>2. /\ s \o <<x>> \in Seq(Resources) /\ Len(s \o <<x>>) = Len(s) + 1
        /\ \A i \in 1 .. Len(s) + 1 :
             (s \o <<x>>)[i] = IF i <= Len(s) THEN s[i] ELSE <<x>>[i - Len(s)]
    BY <1>1, ConcatProperties
  <1>3. \A i \in 1 .. Len(t) : t[i] = (s \o <<x>>)[i]
    <2> SUFFICES ASSUME NEW i \in 1 .. Len(t) PROVE t[i] = (s \o <<x>>)[i]
      OBVIOUS
    <2>1. CASE i <= Len(s)
      BY <1>1, <1>2, <2>1
    <2>2. CASE ~(i <= Len(s))
      <3>1. i = Len(t) /\ i - Len(s) = 1 /\ i \in 1 .. Len(s) + 1
        BY <1>1, <2>2
      <3> QED  BY <1>1, <1>2, <2>2, <3>1
    <2> QED  BY <2>1, <2>2
  <1> QED  BY <1>2, <1>3, SeqEqual

LEMMA Pop ==
  ASSUME NEW s \in Seq(Resources), NEW t \in Seq(Resources),
         Len(t) = Len(s) + 1, \A i \in 1 .. Len(s) : t[i] = s[i]
  PROVE  Front(t) = s
  <1>1. Len(s) \in Nat /\ Len(t) - 1 = Len(s)
    OBVIOUS
  <1>2. \A i \in 1 .. Len(s) : i \in 1 .. Len(t)
    BY <1>1
  <1>3. /\ SubSeq(t, 1, Len(s)) \in Seq(Resources)
        /\ Len(SubSeq(t, 1, Len(s))) = IF 1 <= Len(s) THEN Len(s) - 1 + 1 ELSE 0
        /\ \A i \in 1 .. Len(s) - 1 + 1 : SubSeq(t, 1, Len(s))[i] = t[1 + i - 1]
    BY <1>1, <1>2, SubSeqProperties
  <1>4. Len(SubSeq(t, 1, Len(s))) = Len(s)
    BY <1>1, <1>3
  <1>5. \A i \in 1 .. Len(s) : s[i] = SubSeq(t, 1, Len(s))[i]
    <2> SUFFICES ASSUME NEW i \in 1 .. Len(s) PROVE s[i] = SubSeq(t, 1, Len(s))[i]
      OBVIOUS
    <2>1. i \in 1 .. Len(s) - 1 + 1 /\ 1 + i - 1 = i
      BY <1>1
    <2> QED  BY <1>3, <2>1
  <1>6. SubSeq(t, 1, Len(s)) = s
    BY <1>3, <1>4, <1>5, SeqEqual
  <1> QED  BY <1>1, <1>6 DEF Front

LEMMA StackMoves ==
  /\ << >> \o <<"app">> = <<"app">> /\ Front(<<"app">>) = << >>
  /\ <<"app">> \o <<"sys">> = <<"app", "sys">> /\ Front(<<"app", "sys">>) = <<"app">>
  /\ <<"app", "sys">> \o <<"redis">> = <<"app", "sys", "redis">>
  /\ Front(<<"app", "sys", "redis">>) = <<"app", "sys">>
  /\ \A s \in Stacks : s \o << >> = s
  <1>0. "app" \in Resources /\ "sys" \in Resources /\ "redis" \in Resources
    BY DEF Resources
  <1>1. << >> \o <<"app">> = <<"app">> /\ Front(<<"app">>) = << >>
    <2>1. PICK s \in Seq(Resources) : s = << >>
      BY StackElements
    <2>2. PICK t \in Seq(Resources) : t = <<"app">>
      BY StackElements
    <2>3. Len(t) = Len(s) + 1 /\ t[Len(t)] = "app"
      BY <2>1, <2>2, StackElements
    <2>4. \A i \in 1 .. Len(s) : t[i] = s[i]
      BY <2>1, <2>2, StackElements
    <2>5. s \o <<"app">> = t
      BY <1>0, <2>3, <2>4, Push, Zenon
    <2>6. Front(t) = s
      BY <2>3, <2>4, Pop, Zenon
    <2> QED  BY <2>1, <2>2, <2>5, <2>6
  <1>2. <<"app">> \o <<"sys">> = <<"app", "sys">> /\ Front(<<"app", "sys">>) = <<"app">>
    <2>1. PICK s \in Seq(Resources) : s = <<"app">>
      BY StackElements
    <2>2. PICK t \in Seq(Resources) : t = <<"app", "sys">>
      BY StackElements
    <2>3. Len(t) = Len(s) + 1 /\ t[Len(t)] = "sys"
      BY <2>1, <2>2, StackElements
    <2>4. \A i \in 1 .. Len(s) : t[i] = s[i]
      BY <2>1, <2>2, StackElements
    <2>5. s \o <<"sys">> = t
      BY <1>0, <2>3, <2>4, Push, Zenon
    <2>6. Front(t) = s
      BY <2>3, <2>4, Pop, Zenon
    <2> QED  BY <2>1, <2>2, <2>5, <2>6
  <1>3. /\ <<"app", "sys">> \o <<"redis">> = <<"app", "sys", "redis">>
        /\ Front(<<"app", "sys", "redis">>) = <<"app", "sys">>
    <2>1. PICK s \in Seq(Resources) : s = <<"app", "sys">>
      BY StackElements
    <2>2. PICK t \in Seq(Resources) : t = <<"app", "sys", "redis">>
      BY StackElements
    <2>3. Len(t) = Len(s) + 1 /\ t[Len(t)] = "redis"
      BY <2>1, <2>2, StackElements
    <2>4. \A i \in 1 .. Len(s) : t[i] = s[i]
      BY <2>1, <2>2, StackElements
    <2>5. s \o <<"redis">> = t
      BY <1>0, <2>3, <2>4, Push, Zenon
    <2>6. Front(t) = s
      BY <2>3, <2>4, Pop, Zenon
    <2> QED  BY <2>1, <2>2, <2>5, <2>6
  <1>4. \A s \in Stacks : s \in Seq(Resources)
    BY StackElements DEF Stacks
  <1>5. \A s \in Stacks : s \o << >> = s
    BY <1>4, ConcatEmptySeq
  <1> QED  BY <1>1, <1>2, <1>3, <1>5

LEMMA StackedStep ==
  ASSUME StackInv, NEW p \in Pods, LifecycleStep(p)
  PROVE  Stacked(pod'[p])
  <1> DEFINE Goal == Stacked(pod'[p])
  <1>1. pod \in [Pods -> PodType] /\ Stacked(pod[p])
    BY DEF StackInv, StateOK
  <1>2. ASSUME Boot(p) PROVE Goal
    <2>1. /\ pod[p].pc = "off" /\ pod'[p].pc = "outbox_schema" /\ pod'[p].opened = pod[p].opened
      BY <1>1, <1>2 DEF Boot, PodType
    <2> QED  BY <1>1, <2>1 DEF Stacked
  <1>3. ASSUME MigrateLock(p) PROVE Goal
    BY <1>1, <1>3 DEF MigrateLock
  <1>4. ASSUME MigrateApply(p) PROVE Goal
    <2>1. /\ pod[p].pc \in {"outbox_schema", "domain_schema"}
          /\ pod'[p].pc \in {"domain_schema", "app_pool"} /\ pod'[p].opened = pod[p].opened
          /\ pod'[p].ver = pod[p].ver /\ pod'[p].cfg = pod[p].cfg
      BY <1>1, <1>4 DEF MigrateApply, Goto, PodType
    <2> QED  BY <1>1, <2>1 DEF Stacked
  <1>5. ASSUME Start(p) PROVE Goal
    <2>1. pod[p].pc \in {"app_pool", "sys_pool", "codec", "clients", "consumer"}
      BY <1>5 DEF Start, Stages
    <2>2. /\ pod'[p].opened = pod[p].opened \o Opens[pod[p].pc] /\ pod'[p].pc = Stages[pod[p].pc]
          /\ pod'[p].ver = pod[p].ver /\ pod'[p].cfg = pod[p].cfg
      BY <1>1, <1>5 DEF Start, PodType
    <2>3. CASE pod[p].pc = "app_pool"
      <3>1. Opens[pod[p].pc] = <<"app">> /\ Stages[pod[p].pc] = "sys_pool"
        BY <2>3 DEF Opens, Stages
      <3>2. pod[p].opened = << >>
        BY <1>1, <2>3 DEF Stacked
      <3>3. pod'[p].opened = <<"app">> /\ pod'[p].pc = "sys_pool"
        BY <2>2, <3>1, <3>2, StackMoves, Zenon
      <3>4. pod'[p].opened \in Stacks
        BY <3>3 DEF Stacks
      <3> QED  BY <1>1, <2>2, <2>3, <3>3, <3>4 DEF Stacked
    <2>4. CASE pod[p].pc = "sys_pool"
      <3>1. Opens[pod[p].pc] = <<"sys">> /\ Stages[pod[p].pc] = "codec"
        BY <2>4 DEF Opens, Stages
      <3>2. pod[p].opened = <<"app">>
        BY <1>1, <2>4 DEF Stacked
      <3>3. pod'[p].opened = <<"app", "sys">> /\ pod'[p].pc = "codec"
        BY <2>2, <3>1, <3>2, StackMoves, Zenon
      <3>4. pod'[p].opened \in Stacks
        BY <3>3 DEF Stacks
      <3> QED  BY <1>1, <2>2, <2>4, <3>3, <3>4 DEF Stacked
    <2>5. CASE pod[p].pc = "codec"
      <3>1. Opens[pod[p].pc] = << >> /\ Stages[pod[p].pc] = "clients"
        BY <2>5 DEF Opens, Stages
      <3>2. pod[p].opened = <<"app", "sys">> /\ pod[p].opened \in Stacks
        BY <1>1, <2>5 DEF Stacked
      <3>3. pod[p].opened \o << >> = pod[p].opened
        BY <3>2, StackMoves, Zenon
      <3>4. pod'[p].opened = pod[p].opened /\ pod'[p].pc = "clients"
        BY <2>2, <3>1, <3>3, Zenon
      <3> QED  BY <1>1, <2>2, <2>5, <3>2, <3>4 DEF Stacked
    <2>6. CASE pod[p].pc = "clients"
      <3>1. Opens[pod[p].pc] = <<"redis">> /\ Stages[pod[p].pc] = "consumer"
        BY <2>6 DEF Opens, Stages
      <3>2. pod[p].opened = <<"app", "sys">>
        BY <1>1, <2>6 DEF Stacked
      <3>3. pod'[p].opened = <<"app", "sys", "redis">> /\ pod'[p].pc = "consumer"
        BY <2>2, <3>1, <3>2, StackMoves, Zenon
      <3>4. pod'[p].opened \in Stacks
        BY <3>3 DEF Stacks
      <3> QED  BY <1>1, <2>2, <2>6, <3>3, <3>4 DEF Stacked
    <2>7. CASE pod[p].pc = "consumer"
      <3>1. Opens[pod[p].pc] = << >> /\ Stages[pod[p].pc] = "serving"
        BY <2>7 DEF Opens, Stages
      <3>2. pod[p].opened = <<"app", "sys", "redis">> /\ pod[p].opened \in Stacks
        BY <1>1, <2>7 DEF Stacked
      <3>3. pod[p].opened \o << >> = pod[p].opened
        BY <3>2, StackMoves, Zenon
      <3>4. pod'[p].opened = pod[p].opened /\ pod'[p].pc = "serving"
        BY <2>2, <3>1, <3>3, Zenon
      <3> QED  BY <1>1, <2>2, <2>7, <3>2, <3>4 DEF Stacked
    <2> QED  BY <2>1, <2>3, <2>4, <2>5, <2>6, <2>7
  <1>6. ASSUME StartFails(p) PROVE Goal
    <2>1. /\ pod[p].pc \in DOMAIN Stages \cup DOMAIN MigrationOrder
          /\ pod'[p].pc = "unwind" /\ pod'[p].opened = pod[p].opened
          /\ pod'[p].ver = pod[p].ver /\ pod'[p].cfg = pod[p].cfg
      BY <1>1, <1>6 DEF StartFails, Goto, PodType
    <2>2. pod[p].pc # "off"
      BY <2>1 DEF Stages, MigrationOrder
    <2> QED  BY <1>1, <2>1, <2>2 DEF Stacked
  <1>7. ASSUME Wait(p) PROVE Goal
    <2>1. /\ pod[p].pc = "serving" /\ pod'[p].pc = "unwind" /\ pod'[p].opened = pod[p].opened
          /\ pod'[p].ver = pod[p].ver /\ pod'[p].cfg = pod[p].cfg
      BY <1>1, <1>7 DEF Wait, Goto, PodType
    <2> QED  BY <1>1, <2>1 DEF Stacked
  <1>8. ASSUME Unwind(p, work[p] = NoWork) PROVE Goal
    <2>1. /\ pod[p].pc = "unwind" /\ pod'[p].pc = "unwind" /\ pod[p].opened # << >>
          /\ pod'[p].opened = Front(pod[p].opened)
          /\ pod'[p].ver = pod[p].ver /\ pod'[p].cfg = pod[p].cfg
      BY <1>1, <1>8 DEF Unwind, PodType
    <2> QED  BY <1>1, <2>1, StackMoves DEF Stacked, Stacks
  <1>9. ASSUME Signal(p) PROVE Goal
    <2>1. /\ pod'[p].pc = pod[p].pc /\ pod'[p].opened = pod[p].opened
          /\ pod'[p].ver = pod[p].ver /\ pod'[p].cfg = pod[p].cfg
      BY <1>1, <1>9 DEF Signal, PodType
    <2> QED  BY <1>1, <2>1 DEF Stacked
  <1>10. ASSUME NEW w \in Workers, WorkerFails(p, w) PROVE Goal
    <2>1. /\ pod'[p].pc = pod[p].pc /\ pod'[p].opened = pod[p].opened
          /\ pod'[p].ver = pod[p].ver /\ pod'[p].cfg = pod[p].cfg
      BY <1>1, <1>10 DEF WorkerFails, PodType
    <2> QED  BY <1>1, <2>1 DEF Stacked
  <1>11. ASSUME Shutdown(p) PROVE Goal
    <2>1. /\ pod'[p].pc = pod[p].pc /\ pod'[p].opened = pod[p].opened
          /\ pod'[p].ver = pod[p].ver /\ pod'[p].cfg = pod[p].cfg
      BY <1>1, <1>11 DEF Shutdown, PodType
    <2> QED  BY <1>1, <2>1 DEF Stacked
  <1>12. ASSUME WorkerReturns(p, "outbox", IdleRunner(p)) PROVE Goal
    <2>1. /\ pod'[p].pc = pod[p].pc /\ pod'[p].opened = pod[p].opened
          /\ pod'[p].ver = pod[p].ver /\ pod'[p].cfg = pod[p].cfg
      BY <1>1, <1>12 DEF WorkerReturns, PodType
    <2> QED  BY <1>1, <2>1 DEF Stacked
  <1>13. ASSUME WorkerReturns(p, "sqs", IdleIn(p, "sqs")) PROVE Goal
    <2>1. /\ pod'[p].pc = pod[p].pc /\ pod'[p].opened = pod[p].opened
          /\ pod'[p].ver = pod[p].ver /\ pod'[p].cfg = pod[p].cfg
      BY <1>1, <1>13 DEF WorkerReturns, PodType
    <2> QED  BY <1>1, <2>1 DEF Stacked
  <1>14. ASSUME StopWorker(p, "outbox", IdleRunner(p)) PROVE Goal
    <2>1. /\ pod'[p].pc = pod[p].pc /\ pod'[p].opened = pod[p].opened
          /\ pod'[p].ver = pod[p].ver /\ pod'[p].cfg = pod[p].cfg
      BY <1>1, <1>14 DEF StopWorker, PodType
    <2> QED  BY <1>1, <2>1 DEF Stacked
  <1>15. ASSUME StopWorker(p, "sqs", IdleIn(p, "sqs")) PROVE Goal
    <2>1. /\ pod'[p].pc = pod[p].pc /\ pod'[p].opened = pod[p].opened
          /\ pod'[p].ver = pod[p].ver /\ pod'[p].cfg = pod[p].cfg
      BY <1>1, <1>15 DEF StopWorker, PodType
    <2> QED  BY <1>1, <2>1 DEF Stacked
  <1>16. ASSUME ShutdownWaits(p, IdleIn(p, "http")) PROVE Goal
    <2>1. /\ pod'[p].pc = pod[p].pc /\ pod'[p].opened = pod[p].opened
          /\ pod'[p].ver = pod[p].ver /\ pod'[p].cfg = pod[p].cfg
      BY <1>1, <1>16 DEF ShutdownWaits, PodType
    <2> QED  BY <1>1, <2>1 DEF Stacked
  <1>17. CASE Boot(p)
    BY <1>2, <1>17, Zenon
  <1>18. CASE \E w \in Workers : WorkerFails(p, w)
    BY <1>10, <1>18, Zenon
  <1>19. CASE MigrateLock(p) \/ MigrateApply(p) \/ Start(p) \/ StartFails(p)
    BY <1>3, <1>4, <1>5, <1>6, <1>19, Zenon
  <1>20. CASE WorkerReturns(p, "outbox", IdleRunner(p)) \/ WorkerReturns(p, "sqs", IdleIn(p, "sqs"))
    BY <1>12, <1>13, <1>20, Zenon
  <1>21. CASE StopWorker(p, "outbox", IdleRunner(p)) \/ StopWorker(p, "sqs", IdleIn(p, "sqs"))
    BY <1>14, <1>15, <1>21, Zenon
  <1> QED  BY <1>7, <1>8, <1>9, <1>11, <1>16, <1>17, <1>18, <1>19, <1>20, <1>21, Zenon
             DEF LifecycleStep

LEMMA SharedStep ==
  ASSUME StackInv, [Next]_vars
  PROVE  SharedOK'
  <1>0. SharedOK /\ MaxFaults \in Nat
    BY PodAssumption DEF StackInv
  <1>1. ASSUME NEW p \in Pods, Starting(p) PROVE SharedOK'
    <2>1. CASE Boot(p)
      BY <1>0, <2>1 DEF Boot, SharedOK
    <2>2. CASE MigrateLock(p)
      BY <1>0, <2>2 DEF MigrateLock, SharedOK
    <2>3. CASE MigrateApply(p)
      <3>1. MigrationOrder[pod[p].pc] \in {"outbox", "domain"}
        BY <2>3 DEF MigrateApply, MigrationOrder
      <3> QED  BY <1>0, <2>3, <3>1 DEF MigrateApply, SharedOK
    <2>4. CASE Start(p)
      BY <1>0, <2>4 DEF Start, SharedOK
    <2>5. CASE StartFails(p)
      BY <1>0, <2>5 DEF StartFails, Fault, NoFault, Release, SharedOK
    <2> QED  BY <1>1, <2>1, <2>2, <2>3, <2>4, <2>5 DEF Starting
  <1>2. ASSUME NEW p \in Pods, Stopping(p) PROVE SharedOK'
    <2>1. UNCHANGED <<schema, lock, registered, faults>>
      BY <1>2 DEF Stopping, WorkerReturns, Shutdown, ShutdownWaits, StopWorker, Wait, Unwind, Exit
    <2> QED  BY <1>0, <2>1 DEF SharedOK
  <1>3. ASSUME NEW p \in Pods, Failing(p) PROVE SharedOK'
    <2>1. UNCHANGED <<schema, registered>> /\ (Fault \/ UNCHANGED faults)
      BY <1>3 DEF Failing, Refused, NoFault, Signal, WorkerFails, Kill
    <2>2. lock' \in Pods \cup {None, "pooler"}
      BY <1>0, <1>3 DEF Failing, Signal, WorkerFails, Kill, SharedOK
    <2> QED  BY <1>0, <2>1, <2>2 DEF Fault, SharedOK
  <1>4. CASE Registry
    BY <1>0, <1>4 DEF Registry, RegisterSchema, SharedOK
  <1>5. CASE UNCHANGED lifecycleVars
    BY <1>0, <1>5 DEF lifecycleVars, SharedOK
  <1> QED  BY <1>1, <1>2, <1>3, <1>4, <1>5 DEF Next, Working, Relaying, Leases, vars

LEMMA StackInitially == Init => StackInv
  <1> SUFFICES ASSUME Init PROVE StackInv
    OBVIOUS
  <1>1. StateOK
    BY OutboxInitially DEF OutboxInv
  <1>2. SharedOK
    BY PodAssumption DEF Init, LifecycleInit, SharedOK
  <1>3. \A p \in Pods : Stacked(pod[p])
    <2>1. \A v \in Versions, c \in Configs : Stacked(Down(v, c))
      BY DEF Down, Stacked, Stacks
    <2> QED  BY <2>1, DownInitially
  <1> QED  BY <1>1, <1>2, <1>3 DEF StackInv

LEMMA StackPreserved == StackInv /\ [Next]_vars => StackInv'
  <1> SUFFICES ASSUME StackInv, [Next]_vars PROVE StackInv'
    OBVIOUS
  <1>1. StateOK' /\ SharedOK'
    BY TypesPreserved, SharedStep DEF StackInv
  <1> DEFINE Goal == \A q \in Pods : Stacked(pod'[q])
  <1>2. ASSUME NEW p \in Pods, LifecycleStep(p) PROVE Goal
    <2>1. \A q \in Pods \ {p} : pod'[q] = pod[q]
      BY <1>2, PodTypes DEF StackInv, StateOK
    <2> QED  BY <1>2, <2>1, StackedStep DEF StackInv
  <1>3. ASSUME NEW p \in Pods, Exit(p) \/ Kill(p) PROVE Goal
    <2>1. pod' = [pod EXCEPT ![p] = Down(pod[p].ver, pod[p].cfg)]
      BY <1>3 DEF Exit, Kill
    <2>2. Stacked(Down(pod[p].ver, pod[p].cfg))
      BY DEF Stacked, Stacks, Down
    <2> QED  BY <2>1, <2>2 DEF StackInv, StateOK
  <1>4. ASSUME pod' = pod PROVE Goal
    <2>1. \A q \in Pods : pod'[q] = pod[q] /\ Stacked(pod[q])
      BY <1>4 DEF StackInv
    <2> QED  BY <2>1, Zenon
  <1>5. ASSUME NEW v \in Versions, RegisterSchema(v) PROVE Goal
    BY <1>4, <1>5 DEF RegisterSchema
  <1>6. Goal
    <2> HIDE DEF Goal
    <2> QED  BY <1>2, <1>3, <1>4, <1>5, StepKinds
  <1> QED  BY <1>1, <1>6 DEF StackInv

\* Every reachable state is well formed: in particular a pod has opened the app
\* pool, the system pool and redis in this order and closes them from the top, and
\* the migration lock is nobody's, a pod's, or the pooler's.
THEOREM TypeCorrect == Spec => []TypeOK
  <1>1. StackInv /\ AttemptsInv => TypeOK
    <2> SUFFICES ASSUME StackInv, AttemptsInv PROVE TypeOK
      OBVIOUS
    <2>1. \A p \in Pods : pod[p] \in PodType /\ Stacked(pod[p])
      BY DEF StackInv, StateOK
    <2>2. \A p \in Pods :
            /\ pod[p].pc \in {"off", "serving", "unwind"} \cup DOMAIN Stages \cup DOMAIN MigrationOrder
            /\ pod[p].opened \in {<< >>, <<"app">>, <<"app", "sys">>, <<"app", "sys", "redis">>}
            /\ pod[p].workers \subseteq Workers
            /\ pod[p].ver \in Versions /\ pod[p].cfg \in Configs
      BY <2>1 DEF PodType, Stacked, Stacks, Stages, MigrationOrder
    <2>3. \A p \in Pods : work[p].st \in {"none", "begun", "changed", "enqueued"}
                          /\ holding[p].st \in {"none", "claimed", "sent"}
      BY IdleStates DEF StackInv, StateOK
    <2> QED  BY <2>2, <2>3 DEF StackInv, SharedOK, StateOK, TypeOK, AttemptsInv
  <1>2. Spec => []AttemptsInv
    BY PodInitially, PodPreserved, AttemptsInitially, AttemptsPreserved, PTL DEF Spec
  <1> QED  BY <1>1, <1>2, StackInitially, StackPreserved, PTL DEF Spec
==============================================================================
