----------------------------- MODULE EventRelay ------------------------------
(***************************************************************************)
(* The transactional outbox as the pods use it: a request or a cascade     *)
(* handler changes rows and enqueues the event in one transaction          *)
(* (TxRunner, Publisher); the outbox runner of any pod claims the row,     *)
(* encodes the event with its Glue codec, publishes it and marks it, or    *)
(* moves it to the dead letters after OUTBOX_MAX_ATTEMPTS failures; the    *)
(* prune ticker removes published rows.                                    *)
(*                                                                         *)
(* The runner, the row's claim lease and its attempts are platform-events',*)
(* modelled from how cmd/server configures and uses them.                  *)
(***************************************************************************)
EXTENDS ServerLifecycle

CONSTANTS
  Events,       \* the changes that are made, each with its event
  MaxAttempts   \* OUTBOX_MAX_ATTEMPTS

ASSUME AttemptsAssumption == MaxAttempts \in Nat \ {0}

VARIABLES
  work,        \* per pod, the transaction in flight
  changed,     \* the changes that were committed
  outbox,      \* the outbox row of each event
  attempts,    \* its failed attempts
  holding,     \* per pod, the row its outbox runner has claimed
  sent         \* the events published on the topic

relayVars == <<work, changed, outbox, attempts, holding, sent>>

Sources == {"http", "sqs"}

NoWork == [src |-> None, e |-> None, st |-> "none"]

NoHold == [e |-> None, st |-> "none"]

RelayInit ==
  /\ work = [p \in Pods |-> NoWork] /\ holding = [p \in Pods |-> NoHold]
  /\ changed = {} /\ sent = {}
  /\ outbox = [e \in Events |-> "absent"] /\ attempts = [e \in Events |-> 0]

IdleIn(p, src) == work[p].src # src

IdleRunner(p) == holding[p] = NoHold

-----------------------------------------------------------------------------
(***************************************************************************)
(* The transaction.                                                        *)
(***************************************************************************)
\* RunInTx, for a request accepted by the listener or a message the consumer
\* received.  A row lock keeps the change to one transaction at a time.
Begin(p, src, e) ==
  /\ src \in pod[p].workers
  /\ src = "sqs" => ~ pod[p].cancelled
  /\ work[p] = NoWork /\ e \notin changed
  /\ \A q \in Pods : work[q].e # e
  /\ work' = [work EXCEPT ![p] = [src |-> src, e |-> e, st |-> "begun"]]
  /\ UNCHANGED <<changed, outbox, attempts, holding, sent>>

Change(p) ==
  /\ work[p].st = "begun" /\ Has(p, "app")
  /\ work' = [work EXCEPT ![p].st = "changed"]
  /\ UNCHANGED <<changed, outbox, attempts, holding, sent>>

\* Mutant: the row is inserted on a connection of its own.
EnqueueCtxOutside(p) ==
  /\ work[p].st = "changed" /\ Has(p, "app")
  /\ work' = [work EXCEPT ![p].st = "enqueued"]
  /\ outbox' = [outbox EXCEPT ![work[p].e] = "pending"]
  /\ UNCHANGED <<changed, attempts, holding, sent>>

\* EnqueueCtx validates the event and inserts its row on the transaction.
EnqueueCtx(p) ==
  /\ work[p].st = "changed" /\ Has(p, "app")
  /\ work' = [work EXCEPT ![p].st = "enqueued"]
  /\ UNCHANGED <<changed, outbox, attempts, holding, sent>>

\* The change and the row, or neither.
Commit(p) ==
  /\ work[p].st = "enqueued" /\ Has(p, "app")
  /\ changed' = changed \cup {work[p].e}
  /\ outbox' = [outbox EXCEPT ![work[p].e] = "pending"]
  /\ attempts' = [attempts EXCEPT ![work[p].e] = 0]
  /\ work' = [work EXCEPT ![p] = NoWork]
  /\ UNCHANGED <<holding, sent>>

\* A deadlock or a serialization failure: the whole function runs again.
Retry(p) ==
  /\ work[p].st \in {"changed", "enqueued"}
  /\ work' = [work EXCEPT ![p].st = "begun"]
  /\ UNCHANGED <<changed, outbox, attempts, holding, sent>>

Rollback(p) ==
  /\ work[p] # NoWork
  /\ work' = [work EXCEPT ![p] = NoWork]
  /\ UNCHANGED <<changed, outbox, attempts, holding, sent>>

-----------------------------------------------------------------------------
(***************************************************************************)
(* The outbox runner.                                                      *)
(***************************************************************************)
Claim(p, e) ==
  /\ "outbox" \in pod[p].workers /\ ~ pod[p].cancelled /\ IdleRunner(p)
  /\ outbox[e] = "pending"
  /\ outbox' = [outbox EXCEPT ![e] = "claimed"]
  /\ holding' = [holding EXCEPT ![p] = [e |-> e, st |-> "claimed"]]
  /\ UNCHANGED <<work, changed, attempts, sent>>

\* Encode: the version NewGlueCodec cached, or else one more lookup, which fails
\* like the first if this build's schemas are not registered.
Encodes(p) == pod[p].cfg.registry => pod[p].ver \in registered

Publish(p) ==
  /\ holding[p].st = "claimed" /\ Encodes(p)
  /\ sent' = sent \cup {holding[p].e}
  /\ holding' = [holding EXCEPT ![p].st = "sent"]
  /\ UNCHANGED <<work, changed, outbox, attempts>>

\* The codec or SNS refuses.  The row has one attempt less and is left to its
\* lease; after the last one it goes to the dead letters.  A row that another pod
\* has published meanwhile, its lease being over, is left alone.
PublishFails(p) ==
  LET e == holding[p].e
      open == outbox[e] \in {"pending", "claimed"}
  IN  /\ holding[p].st = "claimed"
      /\ attempts' = [attempts EXCEPT ![e] = IF open THEN @ + 1 ELSE @]
      /\ outbox' = [outbox EXCEPT ![e] = IF open /\ attempts[e] + 1 = MaxAttempts THEN "dead" ELSE @]
      /\ holding' = [holding EXCEPT ![p] = NoHold]
      /\ UNCHANGED <<work, changed, sent>>

Mark(p) ==
  /\ holding[p].st = "sent" /\ Has(p, "app")
  /\ outbox' = [outbox EXCEPT ![holding[p].e] = IF @ \in {"pruned", "dead"} THEN @ ELSE "published"]
  /\ holding' = [holding EXCEPT ![p] = NoHold]
  /\ UNCHANGED <<work, changed, attempts, sent>>

\* Mutant: the library's own default, no lease at all.
ClaimLeaseUnset == FALSE

\* ensureOutboxEnv: a claim lapses after ten minutes unless OUTBOX_* says otherwise.
ClaimLease == TRUE

LeaseExpires(e) ==
  /\ ClaimLease /\ outbox[e] = "claimed"
  /\ outbox' = [outbox EXCEPT ![e] = "pending"]
  /\ UNCHANGED <<work, changed, attempts, holding, sent>>

\* PrunePublished takes published rows past their retention.
Prunable(e) == outbox[e] = "published"

Prune(p, e) ==
  /\ pod[p].pc = "serving" /\ ~ pod[p].cancelled /\ Has(p, "app")
  /\ Prunable(e)
  /\ outbox' = [outbox EXCEPT ![e] = "pruned"]
  /\ UNCHANGED <<work, changed, attempts, holding, sent>>

\* What the process was doing goes with it; the database aborts its transaction.
Vanish(p) ==
  /\ work' = [work EXCEPT ![p] = NoWork] /\ holding' = [holding EXCEPT ![p] = NoHold]
  /\ UNCHANGED <<changed, outbox, attempts, sent>>
=============================================================================
