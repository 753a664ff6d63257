-------------------------- MODULE DelegationSystem --------------------------
(***************************************************************************)
(* iam-delegation as it runs: API handlers, cron jobs and the cascade      *)
(* consumer interleave over one table, one outbox and User Profile.        *)
(***************************************************************************)
EXTENDS DelegationService, ReconcilerJobs, CascadeService

Init == StoreInit

Next ==
  \/ \E p \in Requests : ServiceStep(p)
  \/ \E p \in Crons : JobStep(p)
  \/ \E p \in Consumers : CascadeStep(p)
  \/ \E p \in Procs : Crash(p)
  \/ \E u \in Users : UserProfileSweep(u)
  \/ Tick

Spec == Init /\ [][Next]_vars

(***************************************************************************)
(* The lifecycle each delegation goes through (refinement).                *)
(***************************************************************************)
PhaseOf(r) ==
  CASE r.status = "absent" -> "none"
    [] r.status \in {"ended", "cancelled"} -> "over"
    [] r.status \in {"scheduled", "active"} /\ r.deleted -> "erased"
    [] r.status \in {"scheduled", "active"} /\ ~r.deleted -> r.status

Lifecycle == INSTANCE DelegationLifecycle
               WITH phase <- [id \in Ids |-> PhaseOf(rows[id])], told <- log

\* The system implements DelegationLifecycle: however cancels, reassigns,
\* overlapping cron runs and cascades interleave, fail and crash, one delegation
\* starts and ends at most once and its events say exactly that, in order.
LifecycleSpec == Lifecycle!Spec

\* Nothing happens before its time: a delegation starts no earlier than starts_at,
\* is expired only after ends_at, and is auto-ended only after the review_due_at
\* it has at that moment.  An Extend that commits while a sweep is between its
\* query and its End wins; a sweep never ends it on what it read before.
ActsWhenDue ==
  [][\A id \in Ids :
       /\ log'[id] = log[id] \o <<Started>> => rows'[id].starts <= now
       /\ log'[id] = log[id] \o <<Ended("expired")>> =>
            rows[id].ends # Null /\ rows[id].ends < now
       /\ log'[id] = log[id] \o <<Ended("review_expired")>> =>
            rows[id].ends = Null /\ rows[id].due <= now]_vars

\* Review reminders count down (DLG-EVT-5): each reminder of a delegation has a
\* smaller days_remaining than the one before and is remembered with it, until an
\* Extend moves review_due_at and re-arms them; so no day's reminder is sent twice.
RemindersCountDown ==
  [][\A id \in Ids :
       /\ \A n \in 1..3 :
            log'[id] = log[id] \o <<ReviewRequested(n)>> =>
              /\ rows[id].bucket = Null \/ n < rows[id].bucket
              /\ rows'[id].bucket = n
       /\ rows[id].bucket # Null /\ rows'[id].bucket = Null =>
            rows'[id].due > rows[id].due]_vars

(***************************************************************************)
(* Why it works: record_version.  Every change of a row gives it a new     *)
(* version, so whatever a process read of a row is still true as long as   *)
(* the version it read is the row's version.                               *)
(***************************************************************************)
Remembered(p, x) ==
  /\ proc[p].op = "activation" => Startable(x.id, proc[p].at)
  /\ proc[p].op = "expiry" => Expiring(x.id, proc[p].at)
  /\ proc[p].op = "review" /\ proc[p].pc = "warn" => DueForWarn(x.id, proc[p].at)
  /\ proc[p].op = "review" /\ proc[p].pc \in {"batch", "commit"} =>
       DueForAutoEnd(x.id, proc[p].at)

\* What a job listed holds for every row that still has the listed version: an
\* UPDATE under that version acts on exactly the row the query selected, however
\* long ago that was and whatever other processes did to it in between.
ListedRowsHold ==
  \A p \in Procs : \A x \in proc[p].todo :
    /\ x.ver <= rows[x.id].ver
    /\ x.ver = rows[x.id].ver => Remembered(p, x)

\* A part of IndInv: rows an open cascade has updated stay as its bulk UPDATE found
\* them until it commits, and no two open cascades hold the same row, because
\* Postgres makes every other writer wait.
LockedRowsHold ==
  \A p \in Procs : \A id \in proc[p].locks :
    /\ proc[p].pc = "cascade" /\ EndForUserMatches(id, proc[p].user)
    /\ \A q \in Procs \ {p} : id \notin proc[q].locks

\* What the other fields of a process mean at each program counter.
InProgress(p) ==
  LET c == proc[p]
  IN  /\ c.at <= now
      /\ c.pc \notin {"batch", "commit", "warn", "cascade"} => c.todo = {}
      /\ c.pc \in {"sweep", "warn"} => c.op = "review"
      /\ c.pc = "cascade" => c.op = "revoked"
      /\ c.pc = "commit" => \E x \in c.todo : x.id = c.id /\ x.ver = c.ver
      /\ c.pc \in {"clear", "end", "again", "extend"} => c.id \in Ids
      /\ c.pc \in {"check", "set", "insert"} =>
           /\ c.want.status \in {"scheduled", "active"}
           /\ c.want.ver = 1 /\ ~c.want.deleted
           /\ c.want.bucket = Null /\ c.want.delegator # c.want.delegate
           /\ c.want.status = "active" => c.want.starts <= now

UnusedIds == \A id \in Ids : ~Stored(id) => rows[id] = AbsentRow

\* The inductive invariant behind the theorems of DelegationSystemProofs.
IndInv ==
  /\ TypeOK /\ ListedRowsHold /\ LockedRowsHold /\ UnusedIds
  /\ \A p \in Procs : InProgress(p)

(***************************************************************************)
(* The delegate pointer in User Profile against the table.                 *)
(***************************************************************************)
\* Operations that do not overlap.
Alone == \A p, q \in Procs : ~IsIdle(p) /\ ~IsIdle(q) => p = q

SerialSpec == Init /\ [][Next /\ Alone']_vars

Quiet == \A p \in Procs : IsIdle(p)

InForce(id) == rows[id].status = "active" /\ ~rows[id].deleted

\* The delegator of id left the tenant: EndForUser leaves that user's pointer alone.
DelegatorRemoved(id) ==
  rows[id].deleted /\ \A i \in DOMAIN log[id] : log[id][i] # Ended("delegate_removed")

\* Once every handler is done, a pointer shown to users belongs to a delegation in
\* force, or to a delegator who was removed.
NoStalePointer ==
  Quiet => \A u \in Users : up[u].to # NoUser =>
    \E id \in Ids :
      /\ rows[id].delegator = u /\ rows[id].delegate = up[u].to
      /\ InForce(id) \/ DelegatorRemoved(id)

\* Once every handler is done, User Profile shows the delegate of every delegation
\* in force until its window is over.
InForceIsShown ==
  Quiet => \A id \in Ids : InForce(id) /\ OooUntil(rows[id]) > now =>
    up[rows[id].delegator].to = rows[id].delegate

(***************************************************************************)
(* Fairness.  The CronJobs' schedules fire again and again, a run that has *)
(* begun is carried through, and for the delegations in Served neither     *)
(* User Profile nor Postgres fails for ever.  Clients, User Profile's own  *)
(* sweep, crashes and the clock owe nothing.                               *)
(***************************************************************************)
CONSTANT Served

ASSUME ServedAssumption == Served \subseteq Ids

RunGoesOn(p) == ~IsIdle(p) /\ JobStep(p)

CallSucceeds(p, id) ==
  (ActivationSetAvailability(p) \/ ClearBeforeEnd(p)) /\ proc'[p].id = id

CommitSucceeds(p, id) ==
  (ActivateScheduled(p) \/ EndExpired(p) \/ EndReviewExpired(p)) /\ rows'[id] # rows[id]

Fairness ==
  /\ \A p \in Crons :
       /\ SF_vars(ActivationList(p)) /\ SF_vars(ExpiryList(p))
       /\ SF_vars(ReviewStart(p)) /\ WF_vars(RunGoesOn(p))
  /\ \A id \in Served :
       /\ SF_vars(\E p \in Crons : CallSucceeds(p, id))
       /\ SF_vars(\E p \in Crons : CommitSucceeds(p, id))

FairSpec == Spec /\ Fairness

\* The jobs are self-retrying (DLG-FAIL-4): a delegation whose start has come is
\* eventually no longer scheduled, one whose ends_at or review_due_at is past
\* eventually not in force (or extended), whatever fails on other rows.
JobsCatchUp ==
  \A id \in Served :
    /\ Startable(id, now) ~> ~Startable(id, now)
    /\ Expiring(id, now) ~> ~Expiring(id, now)
    /\ DueForAutoEnd(id, now) ~> ~DueForAutoEnd(id, now)

\* A pointer that outlives its delegation because User Profile was down when the
\* delegation ended is cleared by a later run of the jobs.  (Runs come again and
\* again; the clock need not reach the end of the out-of-office window, when User
\* Profile's own sweep would clear it anyway.)
StalePointerCleared ==
  \A id \in Ids :
    LET stale == /\ rows[id].status \in {"ended", "cancelled"}
                 /\ up[rows[id].delegator].to = rows[id].delegate
    IN  stale ~> ~stale
=============================================================================
