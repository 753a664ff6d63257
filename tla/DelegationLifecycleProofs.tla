---------------------- MODULE DelegationLifecycleProofs ----------------------
(***************************************************************************)
(* What a step may do to one delegation: the proof that DelegationSystem   *)
(* implements DelegationLifecycle and that nothing happens before its      *)
(* time.  Both follow from one lemma, that every step of the system is,    *)
(* for every delegation, one of the cases of Happens.  Then the review     *)
(* reminders (ReminderInv).                                                *)
(***************************************************************************)
EXTENDS DelegationSystemProofs

Phase(id) == PhaseOf(rows[id])

Tells(id, events) == log'[id] = log[id] \o events

Nothing(id) == Phase(id)' = Phase(id) /\ log'[id] = log[id]

Schedules(id) == Phase(id) = "none" /\ Phase(id)' = "scheduled" /\ log'[id] = log[id]

Starts(id) ==
  /\ Phase(id) \in {"none", "scheduled"} /\ Phase(id)' = "active"
  /\ Tells(id, <<Started>>) /\ rows'[id].starts <= now

Warns(p, id, n) ==
  /\ proc[p].pc = "warn" /\ n = rows[id].due - proc[p].at /\ rows[id].bucket # n
  /\ rows'[id].bucket = n /\ rows'[id].due = rows[id].due

Reminds(id) ==
  /\ Phase(id) = "active" /\ Phase(id)' = "active"
  /\ \E p \in Procs, n \in 1..3 : Tells(id, <<ReviewRequested(n)>>) /\ Warns(p, id, n)

Expires(id) ==
  /\ Phase(id) = "active" /\ Phase(id)' = "over"
  /\ Tells(id, <<Ended("expired")>>) /\ rows[id].ends # Null /\ rows[id].ends < now

ReviewExpires(id) ==
  /\ Phase(id) = "active" /\ Phase(id)' = "over"
  /\ Tells(id, <<Ended("review_expired")>>) /\ rows[id].ends = Null /\ rows[id].due <= now

Withdraws(id) ==
  /\ Phase(id) \in {"scheduled", "active"} /\ Phase(id)' = "over"
  /\ \E reason \in {"cancelled", "reassigned", "delegate_removed"} :
       Tells(id, <<Ended(reason)>>)

Escalates(id) ==
  /\ Phase(id) \in {"scheduled", "active"} /\ Phase(id)' = "over"
  /\ Tells(id, <<Ended("delegate_disabled"), Escalation>>)

Vanishes(id) ==
  /\ Phase(id) \in {"scheduled", "active"} /\ Phase(id)' \in {"over", "erased"}
  /\ log'[id] = log[id]

Happens(id) ==
  \/ Nothing(id) \/ Schedules(id) \/ Starts(id) \/ Reminds(id) \/ Expires(id)
  \/ ReviewExpires(id) \/ Withdraws(id) \/ Escalates(id) \/ Vanishes(id)

(***************************************************************************)
(* The phase of a row, before and after each UPDATE.                       *)
(***************************************************************************)
LEMMA PhaseValues ==
  ASSUME NEW r \in Row
  PROVE  /\ r.status = "absent" => PhaseOf(r) = "none"
         /\ r.status \in {"ended", "cancelled"} => PhaseOf(r) = "over"
         /\ r.status \in {"scheduled", "active"} /\ ~r.deleted => PhaseOf(r) = r.status
         /\ r.status \in {"scheduled", "active"} /\ r.deleted => PhaseOf(r) = "erased"
  BY DEF PhaseOf, Row, Statuses

LEMMA PhaseAfter ==
  ASSUME NEW r \in Row
  PROVE  /\ \A s \in {"ended", "cancelled"} : PhaseOf(EndRow(r, s)) = "over"
         /\ ~r.deleted => PhaseOf(ActivateRow(r)) = "active"
         /\ \A days \in Nat : PhaseOf(ExtendRow(r, days)) = PhaseOf(r)
         /\ \A n \in 1..3 : PhaseOf(WarnRow(r, n)) = PhaseOf(r)
         /\ PhaseOf(EndForUserRow(r)) = "over"
         /\ r.status \in {"scheduled", "active"} => PhaseOf(SoftDeletedRow(r)) = "erased"
         /\ r.status \in {"ended", "cancelled"} => PhaseOf(SoftDeletedRow(r)) = "over"
  <1>1. ASSUME NEW s \in {"ended", "cancelled"}
        PROVE  EndRow(r, s) \in Row /\ EndRow(r, s).status = s
    <2>1. EndRow(r, s) \in Row
      BY RowTypes DEF Statuses
    <2>2. EndRow(r, s).status = s
      BY DEF EndRow, Touched, Row
    <2> QED  BY <2>1, <2>2
  <1>2. /\ ActivateRow(r) \in Row /\ ActivateRow(r).status = "active"
        /\ ActivateRow(r).deleted = r.deleted
    BY RowTypes DEF ActivateRow, Touched, Row
  <1>3. \A days \in Nat : /\ ExtendRow(r, days) \in Row
                          /\ ExtendRow(r, days).status = r.status
                          /\ ExtendRow(r, days).deleted = r.deleted
    BY RowTypes DEF ExtendRow, Touched, Row
  <1>4. \A n \in 1..3 : /\ WarnRow(r, n) \in Row /\ WarnRow(r, n).status = r.status
                        /\ WarnRow(r, n).deleted = r.deleted
    BY RowTypes DEF WarnRow, Touched, Row
  <1>5. EndForUserRow(r) \in Row /\ EndForUserRow(r).status = "ended"
    BY RowTypes DEF EndForUserRow, Touched, Row
  <1>6. /\ SoftDeletedRow(r) \in Row /\ SoftDeletedRow(r).status = r.status
        /\ SoftDeletedRow(r).deleted = TRUE
    BY RowTypes DEF SoftDeletedRow, Touched, Row
  <1>7. \A days \in Nat : PhaseOf(ExtendRow(r, days)) = PhaseOf(r)
    BY <1>3 DEF PhaseOf
  <1>8. \A n \in 1..3 : PhaseOf(WarnRow(r, n)) = PhaseOf(r)
    BY <1>4 DEF PhaseOf
  <1> QED  BY <1>1, <1>2, <1>5, <1>6, <1>7, <1>8, PhaseValues

LEMMA LivePhase ==
  ASSUME IndInv, NEW id \in Ids, Live(id)
  PROVE  Phase(id) \in {"scheduled", "active"} /\ Phase(id) = rows[id].status
  BY PhaseValues DEF IndInv, TypeOK, Live, Phase

(***************************************************************************)
(* Steps that leave the table alone, or change one row of it.              *)
(***************************************************************************)
LEMMA NothingHappens ==
  ASSUME UNCHANGED <<rows, log>>
  PROVE  \A id \in Ids : Happens(id)
  BY DEF Happens, Nothing, Phase

LEMMA OneRowHappens ==
  ASSUME IndInv, NEW id \in Ids, NEW row, NEW events, NEW outcome,
         Write(id, row, events, outcome),
         rows'[id] = row /\ Tells(id, events) => Happens(id)
  PROVE  \A i \in Ids : Happens(i)
  <1>1. CASE outcome = "tx_fail"
    BY <1>1, NothingHappens DEF Write
  <1>2. CASE outcome # "tx_fail"
    <2>1. rows' = [rows EXCEPT ![id] = row] /\ log' = [log EXCEPT ![id] = @ \o events]
      BY <1>2 DEF Write
    <2>2. rows'[id] = row /\ Tells(id, events)
      BY <2>1 DEF Tells, IndInv, TypeOK
    <2>3. \A i \in Ids \ {id} : rows'[i] = rows[i] /\ log'[i] = log[i]
      BY <2>1 DEF IndInv, TypeOK
    <2>4. \A i \in Ids \ {id} : Happens(i)
      BY <2>3 DEF Happens, Nothing, Phase
    <2> QED  BY <2>2, <2>4
  <1> QED  BY <1>1, <1>2

(***************************************************************************)
(* DelegationService                                                       *)
(***************************************************************************)
LEMMA CreateInsertHappens ==
  ASSUME IndInv, NEW p \in Procs, CreateInsert(p)
  PROVE  \A i \in Ids : Happens(i)
  <1> DEFINE want == proc[p].want
             scheduled == want.status = "scheduled"
             events == IF scheduled THEN <<>> ELSE <<Started>>
  <1>1. PICK id \in Ids, outcome \in TxOutcomes :
          ~Stored(id) /\ Write(id, want, events, outcome)
    BY DEF CreateInsert
  <1>2. /\ want \in Row /\ ~want.deleted /\ want.status \in {"scheduled", "active"}
        /\ want.status = "active" => want.starts <= now
    BY WantFacts DEF CreateInsert
  <1>3. Phase(id) = "none" /\ log[id] \in Seq(Event)
    BY <1>1, PhaseValues DEF IndInv, TypeOK, Stored, Phase
  <1>4. ASSUME rows'[id] = want, Tells(id, events) PROVE Happens(id)
    <2>1. Phase(id)' = want.status
      BY <1>2, <1>4, PhaseValues DEF Phase
    <2>2. CASE scheduled
      <3>1. log'[id] = log[id]
        BY <1>3, <1>4, <2>2 DEF Tells
      <3> QED  BY <1>3, <2>1, <2>2, <3>1 DEF Happens, Schedules
    <2>3. CASE ~scheduled
      BY <1>2, <1>3, <1>4, <2>1, <2>3 DEF Happens, Starts
    <2> QED  BY <2>2, <2>3
  <1> HIDE DEF want, events
  <1> QED  BY <1>1, <1>4, OneRowHappens

LEMMA CancelEndHappens ==
  ASSUME IndInv, NEW p \in Procs, CancelEnd(p)
  PROVE  \A i \in Ids : Happens(i)
  <1>0. PICK id \in Ids : id = proc[p].id
    BY DEF CancelEnd, IndInv, InProgress
  <1> DEFINE reason == IF proc[p].op = "reassign" THEN "reassigned" ELSE "cancelled"
             row == EndRow(rows[id], "cancelled")
             events == <<Ended(reason)>>
  <1>1. rows[id] \in Row
    BY DEF IndInv, TypeOK
  <1>2. CASE EndMatches(id, proc[p].ver)
    <2>1. PICK outcome \in TxOutcomes : Write(id, row, events, outcome)
      BY <1>0, <1>2 DEF CancelEnd
    <2>2. Phase(id) \in {"scheduled", "active"} /\ PhaseOf(row) = "over"
      BY <1>1, <1>2, LivePhase, PhaseAfter DEF EndMatches
    <2>3. ASSUME rows'[id] = row, Tells(id, events) PROVE Happens(id)
      BY <2>2, <2>3 DEF Happens, Withdraws, Phase
    <2> HIDE DEF row, events
    <2> QED  BY <2>1, <2>3, OneRowHappens
  <1>3. CASE ~EndMatches(id, proc[p].ver)
    BY <1>0, <1>3, NothingHappens DEF CancelEnd
  <1> QED  BY <1>2, <1>3

LEMMA ExtendReviewHappens ==
  ASSUME IndInv, NEW p \in Procs, ExtendReview(p)
  PROVE  \A i \in Ids : Happens(i)
  <1>0. PICK id \in Ids : id = proc[p].id
    BY DEF ExtendReview, IndInv, InProgress
  <1>1. rows[id] \in Row /\ log[id] \in Seq(Event)
    BY DEF IndInv, TypeOK
  <1>2. CASE ExtendMatches(id, proc[p].ver)
    <2>1. PICK days \in ExtendWindows, outcome \in TxOutcomes :
            Write(id, ExtendRow(rows[id], days), <<>>, outcome)
      BY <1>0, <1>2 DEF ExtendReview
    <2> DEFINE row == ExtendRow(rows[id], days)
    <2>2. days \in Nat
      BY ConstantFacts DEF ExtendWindows, Assumptions
    <2>3. PhaseOf(row) = PhaseOf(rows[id])
      BY <1>1, <2>2, PhaseAfter
    <2>4. ASSUME rows'[id] = row, Tells(id, <<>>) PROVE Happens(id)
      BY <1>1, <2>3, <2>4 DEF Happens, Nothing, Phase, Tells
    <2> HIDE DEF row
    <2> QED  BY <2>1, <2>4, OneRowHappens DEF row
  <1>3. CASE ~ExtendMatches(id, proc[p].ver)
    BY <1>0, <1>3, NothingHappens DEF ExtendReview
  <1> QED  BY <1>2, <1>3

LEMMA ServiceHappens ==
  ASSUME IndInv, NEW p \in Procs, ServiceStep(p)
  PROVE  \A id \in Ids : Happens(id)
  <1>1. CASE CreateInsert(p) \/ CancelEnd(p) \/ ExtendReview(p)
    BY <1>1, CreateInsertHappens, CancelEndHappens, ExtendReviewHappens
  <1>2. CASE ~(CreateInsert(p) \/ CancelEnd(p) \/ ExtendReview(p))
    <2>1. UNCHANGED <<rows, log>>
      BY <1>2 DEF ServiceStep, CreateStart, CreateCheck, CreateRefused,
                  CreateSetAvailability, CreateCompensate, CancelStart,
                  CancelClearPointer, ReassignStart, ReassignCreate, ExtendStart,
                  ExtendResync
    <2> QED  BY <2>1, NothingHappens
  <1> QED  BY <1>1, <1>2

(***************************************************************************)
(* ReconcilerJobs                                                          *)
(***************************************************************************)
LEMMA AttemptHappens ==
  ASSUME IndInv, NEW p \in Procs, NEW matches \in BOOLEAN, NEW row, NEW event,
         Attempt(p, matches, row, event), NEW id \in Ids, id = proc[p].id,
         matches /\ rows'[id] = row /\ Tells(id, <<event>>) => Happens(id)
  PROVE  \A i \in Ids : Happens(i)
  <1>1. CASE matches
    <2>1. PICK outcome \in TxOutcomes : Write(id, row, <<event>>, outcome)
      BY <1>1 DEF Attempt
    <2> DEFINE events == <<event>>
    <2> HIDE DEF events
    <2> QED  BY <1>1, <2>1, OneRowHappens DEF events
  <1>2. CASE ~matches
    BY <1>2, NothingHappens DEF Attempt
  <1> QED  BY <1>1, <1>2

\* What a job knows of the row it is about to change.
LEMMA CommitFacts ==
  ASSUME IndInv, NEW p \in Procs, proc[p].pc = "commit",
         rows[proc[p].id].ver = proc[p].ver
  PROVE  LET r == rows[proc[p].id]
         IN  /\ r \in Row /\ proc[p].id \in Ids
             /\ proc[p].op = "activation" =>
                  r.status = "scheduled" /\ ~r.deleted /\ r.starts <= now
             /\ proc[p].op = "expiry" =>
                  r.status = "active" /\ ~r.deleted /\ r.ends # Null /\ r.ends < now
             /\ proc[p].op = "review" =>
                  r.status = "active" /\ ~r.deleted /\ r.ends = Null /\ r.due <= now
  <1>1. proc[p].at \in Nat /\ now \in Nat /\ proc[p].at <= now
    BY DEF IndInv, TypeOK, Process, InProgress
  <1>2. rows[proc[p].id] \in Row /\ proc[p].id \in Ids
    BY CommitItem
  <1> QED  BY <1>1, <1>2, CommitItem DEF Startable, Expiring, DueForAutoEnd, Row

LEMMA ActivateScheduledHappens ==
  ASSUME IndInv, NEW p \in Procs, ActivateScheduled(p)
  PROVE  \A i \in Ids : Happens(i)
  <1>0. PICK id \in Ids : id = proc[p].id
    BY CommitItem DEF ActivateScheduled, Attempt
  <1> DEFINE matches == ActivateMatches(id, proc[p].ver)
             row == ActivateRow(rows[id])
  <1>1. Attempt(p, matches, row, Started) /\ matches \in BOOLEAN
    BY <1>0 DEF ActivateScheduled, ActivateMatches
  <1>2. ASSUME matches, rows'[id] = row, Tells(id, <<Started>>) PROVE Happens(id)
    <2>1. /\ rows[id] \in Row /\ rows[id].status = "scheduled" /\ ~rows[id].deleted
          /\ rows[id].starts <= now
      BY <1>0, <1>1, <1>2, CommitFacts DEF ActivateMatches, Attempt, ActivateScheduled
    <2>2. Phase(id) = "scheduled" /\ PhaseOf(row) = "active"
      BY <2>1, PhaseValues, PhaseAfter DEF Phase
    <2>3. row.starts = rows[id].starts
      BY <2>1 DEF ActivateRow, Touched, Row
    <2> QED  BY <1>2, <2>1, <2>2, <2>3 DEF Happens, Starts, Phase
  <1> HIDE DEF matches, row
  <1> QED  BY <1>0, <1>1, <1>2, AttemptHappens

LEMMA EndExpiredHappens ==
  ASSUME IndInv, NEW p \in Procs, EndExpired(p)
  PROVE  \A i \in Ids : Happens(i)
  <1>0. PICK id \in Ids : id = proc[p].id
    BY CommitItem DEF EndExpired, Attempt
  <1> DEFINE matches == EndMatches(id, proc[p].ver)
             row == EndRow(rows[id], "ended")
  <1>1. Attempt(p, matches, row, Ended("expired")) /\ matches \in BOOLEAN
    BY <1>0 DEF EndExpired, EndMatches, Live
  <1>2. ASSUME matches, rows'[id] = row, Tells(id, <<Ended("expired")>>)
        PROVE  Happens(id)
    <2>1. /\ rows[id] \in Row /\ rows[id].status = "active" /\ ~rows[id].deleted
          /\ rows[id].ends # Null /\ rows[id].ends < now
      BY <1>0, <1>1, <1>2, CommitFacts DEF EndMatches, Attempt, EndExpired
    <2>2. Phase(id) = "active" /\ PhaseOf(row) = "over"
      BY <2>1, PhaseValues, PhaseAfter DEF Phase
    <2> QED  BY <1>2, <2>1, <2>2 DEF Happens, Expires, Phase
  <1> HIDE DEF matches, row
  <1> QED  BY <1>0, <1>1, <1>2, AttemptHappens

LEMMA EndReviewExpiredHappens ==
  ASSUME IndInv, NEW p \in Procs, EndReviewExpired(p)
  PROVE  \A i \in Ids : Happens(i)
  <1>0. PICK id \in Ids : id = proc[p].id
    BY CommitItem DEF EndReviewExpired, Attempt
  <1> DEFINE matches == EndMatches(id, proc[p].ver)
             row == EndRow(rows[id], "ended")
  <1>1. Attempt(p, matches, row, Ended("review_expired")) /\ matches \in BOOLEAN
    BY <1>0 DEF EndReviewExpired, EndMatches, Live
  <1>2. ASSUME matches, rows'[id] = row, Tells(id, <<Ended("review_expired")>>)
        PROVE  Happens(id)
    <2>1. /\ rows[id] \in Row /\ rows[id].status = "active" /\ ~rows[id].deleted
          /\ rows[id].ends = Null /\ rows[id].due <= now
      BY <1>0, <1>1, <1>2, CommitFacts DEF EndMatches, Attempt, EndReviewExpired
    <2>2. Phase(id) = "active" /\ PhaseOf(row) = "over"
      BY <2>1, PhaseValues, PhaseAfter DEF Phase
    <2> QED  BY <1>2, <2>1, <2>2 DEF Happens, ReviewExpires, Phase
  <1> HIDE DEF matches, row
  <1> QED  BY <1>0, <1>1, <1>2, AttemptHappens

LEMMA ReviewWarnHappens ==
  ASSUME IndInv, NEW p \in Procs, ReviewWarn(p)
  PROVE  \A i \in Ids : Happens(i)
  <1>1. PICK x \in proc[p].todo :
          LET r == rows[x.id]
              days == r.due - proc[p].at
              warn == WarnMatches(x.id, x.ver) /\ r.bucket # days
          IN  \/ /\ warn
                 /\ \E outcome \in TxOutcomes :
                      Write(x.id, WarnRow(r, days), <<ReviewRequested(days)>>, outcome)
              \/ ~warn /\ UNCHANGED <<rows, log>>
    BY DEF ReviewWarn
  <1>2. PICK id \in Ids : id = x.id
    BY DEF IndInv, TypeOK, Process, Items
  <1>3. PICK days : days = rows[id].due - proc[p].at
    OBVIOUS
  <1>4. CASE WarnMatches(id, x.ver) /\ rows[id].bucket # days
    <2> DEFINE row == WarnRow(rows[id], days)
               events == <<ReviewRequested(days)>>
    <2>1. PICK outcome \in TxOutcomes : Write(id, row, events, outcome)
      BY <1>1, <1>2, <1>3, <1>4
    <2>2. days \in 1..3
      BY <1>2, <1>3, <1>4, WarnDays DEF ReviewWarn
    <2>3. rows[id] \in Row
      BY DEF IndInv, TypeOK
    <2>4. Phase(id) = "active" /\ PhaseOf(row) = "active"
      BY <1>4, <2>2, <2>3, PhaseValues, PhaseAfter DEF WarnMatches, Phase
    <2>5. row.bucket = days /\ row.due = rows[id].due
      BY <2>2, <2>3 DEF WarnRow, Touched, Row
    <2>6. ASSUME rows'[id] = row, Tells(id, events) PROVE Happens(id)
      <3>1. Warns(p, id, days)
        BY <1>3, <1>4, <2>5, <2>6 DEF Warns, ReviewWarn
      <3> QED  BY <2>2, <2>4, <2>6, <3>1 DEF Happens, Reminds, Phase
    <2> HIDE DEF row, events
    <2> QED  BY <2>1, <2>6, OneRowHappens
  <1>5. CASE ~(WarnMatches(id, x.ver) /\ rows[id].bucket # days)
    BY <1>1, <1>2, <1>3, <1>5, NothingHappens
  <1> QED  BY <1>4, <1>5

LEMMA JobHappens ==
  ASSUME IndInv, NEW p \in Procs, JobStep(p)
  PROVE  \A id \in Ids : Happens(id)
  <1> DEFINE writes == ActivateScheduled(p) \/ EndExpired(p) \/ EndReviewExpired(p)
                         \/ ReviewWarn(p)
  <1>1. CASE writes
    BY <1>1, ActivateScheduledHappens, EndExpiredHappens, EndReviewExpiredHappens,
       ReviewWarnHappens
  <1>2. CASE ~writes
    <2>1. UNCHANGED <<rows, log>>
      BY <1>2 DEF JobStep, ActivationList, ActivationSetAvailability, ExpiryList,
                  ClearBeforeEnd, ReviewStart, ReviewWarnList, ReviewEndList
    <2> QED  BY <2>1, NothingHappens
  <1> QED  BY <1>1, <1>2

(***************************************************************************)
(* CascadeService                                                          *)
(***************************************************************************)
LEMMA EndForUserCommitHappens ==
  ASSUME IndInv, NEW p \in Procs, EndForUserCommit(p), NEW id \in Ids
  PROVE  Happens(id)
  <1>1. CASE UNCHANGED <<rows, log>>
    BY <1>1, NothingHappens
  <1>2. CASE /\ rows'[id] = IF id \in proc[p].locks THEN EndForUserRow(rows[id]) ELSE rows[id]
             /\ log'[id] = IF id \in proc[p].locks /\ rows[id].delegate = proc[p].user
                           THEN log[id] \o <<Ended("delegate_removed")>> ELSE log[id]
    <2>1. CASE id \in proc[p].locks
      <3>1. rows[id] \in Row /\ Live(id)
        BY <2>1 DEF IndInv, TypeOK, LockedRowsHold, EndForUserMatches
      <3>2. Phase(id) \in {"scheduled", "active"} /\ Phase(id)' = "over"
        BY <1>2, <2>1, <3>1, LivePhase, PhaseAfter DEF Phase
      <3> QED  BY <1>2, <2>1, <3>2 DEF Happens, Withdraws, Vanishes, Tells
    <2>2. CASE id \notin proc[p].locks
      BY <1>2, <2>2 DEF Happens, Nothing, Phase
    <2> QED  BY <2>1, <2>2
  <1> QED  BY <1>1, <1>2 DEF EndForUserCommit

LEMMA EndForDisabledDelegateHappens ==
  ASSUME IndInv, NEW p \in Procs, EndForDisabledDelegate(p), NEW id \in Ids
  PROVE  Happens(id)
  <1>1. PICK u \in Users :
          /\ rows'[id] = IF DisabledMatches(id, u) THEN EndRow(rows[id], "ended")
                                                   ELSE rows[id]
          /\ log'[id] = IF DisabledMatches(id, u)
                        THEN log[id] \o <<Ended("delegate_disabled"), Escalation>>
                        ELSE log[id]
    BY DEF EndForDisabledDelegate
  <1>2. CASE DisabledMatches(id, u)
    <2>1. rows[id] \in Row /\ Live(id)
      BY <1>2 DEF IndInv, TypeOK, DisabledMatches
    <2>2. Phase(id) \in {"scheduled", "active"} /\ Phase(id)' = "over"
      BY <1>1, <1>2, <2>1, LivePhase, PhaseAfter DEF Phase
    <2> QED  BY <1>1, <1>2, <2>2 DEF Happens, Escalates, Tells
  <1>3. CASE ~DisabledMatches(id, u)
    BY <1>1, <1>3 DEF Happens, Nothing, Phase
  <1> QED  BY <1>2, <1>3

LEMMA ScrubTenantHappens ==
  ASSUME IndInv, NEW p \in Procs, ScrubTenant(p), NEW id \in Ids
  PROVE  Happens(id)
  <1>1. /\ rows'[id] = IF Findable(id) THEN SoftDeletedRow(rows[id]) ELSE rows[id]
        /\ log'[id] = log[id] /\ rows[id] \in Row
    BY DEF ScrubTenant, IndInv, TypeOK
  <1>2. CASE Findable(id) /\ rows[id].status \in {"scheduled", "active"}
    <2>1. Phase(id) \in {"scheduled", "active"} /\ Phase(id)' = "erased"
      BY <1>1, <1>2, PhaseValues, PhaseAfter DEF Phase, Findable
    <2> QED  BY <1>1, <2>1 DEF Happens, Vanishes
  <1>3. CASE Findable(id) /\ rows[id].status \in {"ended", "cancelled"}
    <2>1. Phase(id) = "over" /\ Phase(id)' = "over"
      BY <1>1, <1>3, PhaseValues, PhaseAfter DEF Phase
    <2> QED  BY <1>1, <2>1 DEF Happens, Nothing
  <1>4. CASE ~Findable(id)
    BY <1>1, <1>4 DEF Happens, Nothing, Phase
  <1> QED  BY <1>1, <1>2, <1>3, <1>4 DEF Findable, Stored, Row, Statuses

LEMMA CascadeHappens ==
  ASSUME IndInv, NEW p \in Procs, CascadeStep(p)
  PROVE  \A id \in Ids : Happens(id)
  <1>1. CASE EndForUserUpdate(p) \/ EndForUserClear(p)
    BY <1>1, NothingHappens DEF EndForUserUpdate, EndForUserClear
  <1>2. CASE EndForUserCommit(p) \/ EndForDisabledDelegate(p) \/ ScrubTenant(p)
    BY <1>2, EndForUserCommitHappens, EndForDisabledDelegateHappens, ScrubTenantHappens
  <1> QED  BY <1>1, <1>2 DEF CascadeStep

LEMMA StepHappens ==
  ASSUME IndInv, Next
  PROVE  \A id \in Ids : Happens(id)
  <1>1. CASE \E p \in Requests : ServiceStep(p)
    BY <1>1, ServiceHappens DEF Procs
  <1>2. CASE \E p \in Crons : JobStep(p)
    BY <1>2, JobHappens DEF Procs
  <1>3. CASE \E p \in Consumers : CascadeStep(p)
    BY <1>3, CascadeHappens DEF Procs
  <1>4. CASE (\E p \in Procs : Crash(p)) \/ (\E u \in Users : UserProfileSweep(u)) \/ Tick
    <2>1. UNCHANGED <<rows, log>>
      BY <1>4 DEF Crash, UserProfileSweep, Tick
    <2> QED  BY <2>1, NothingHappens
  <1> QED  BY <1>1, <1>2, <1>3, <1>4 DEF Next

(***************************************************************************)
(* A log determines the events that were appended to it.                   *)
(***************************************************************************)
LEMMA AppendedEvents ==
  ASSUME NEW s \in Seq(Event), NEW e \in Event, NEW f \in Event, NEW g \in Event
  PROVE  /\ s # s \o <<e>>
         /\ s \o <<e>> = s \o <<f>> => e = f
         /\ s \o <<f, g>> # s \o <<e>>
  <1>1. Len(s \o <<e>>) = Len(s) + 1 /\ Len(s \o <<f, g>>) = Len(s) + 2
    OBVIOUS
  <1>2. (s \o <<e>>)[Len(s) + 1] = e /\ (s \o <<f>>)[Len(s) + 1] = f
    OBVIOUS
  <1> QED  BY <1>1, <1>2

LEMMA DistinctEvents ==
  /\ Started \in Event /\ Escalation \in Event
  /\ \A reason \in EndReasons : Ended(reason) \in Event /\ Ended(reason) # Started
  /\ \A n \in 1..3 : ReviewRequested(n) \in Event /\ ReviewRequested(n) # Started
  /\ \A n \in 1..3, reason \in EndReasons : ReviewRequested(n) # Ended(reason)
  /\ \A a, b \in EndReasons : Ended(a) = Ended(b) => a = b
  BY DEF Started, Ended, ReviewRequested, Escalation, Event, EndReasons

(***************************************************************************)
(* The theorems.                                                           *)
(***************************************************************************)
DueStep(id) ==
  /\ log'[id] = log[id] \o <<Started>> => rows'[id].starts <= now
  /\ log'[id] = log[id] \o <<Ended("expired")>> =>
       rows[id].ends # Null /\ rows[id].ends < now
  /\ log'[id] = log[id] \o <<Ended("review_expired")>> =>
       rows[id].ends = Null /\ rows[id].due <= now

LEMMA DueWhenHappens ==
  ASSUME NEW id \in Ids, log[id] \in Seq(Event), Happens(id)
  PROVE  DueStep(id)
  <1>0. /\ Started \in Event /\ Ended("expired") \in Event /\ Ended("review_expired") \in Event
        /\ Ended("expired") # Started /\ Ended("review_expired") # Started
        /\ Ended("expired") # Ended("review_expired")
    BY DistinctEvents DEF EndReasons
  <1>1. CASE log'[id] = log[id]
    BY <1>0, <1>1, AppendedEvents DEF DueStep
  <1>2. CASE Starts(id)
    BY <1>0, <1>2, AppendedEvents DEF DueStep, Starts, Tells
  <1>3. CASE Reminds(id)
    <2>1. PICK n \in 1..3 : log'[id] = log[id] \o <<ReviewRequested(n)>>
      BY <1>3 DEF Reminds, Tells
    <2>2. /\ ReviewRequested(n) \in Event /\ ReviewRequested(n) # Started
          /\ ReviewRequested(n) # Ended("expired")
          /\ ReviewRequested(n) # Ended("review_expired")
      BY DistinctEvents DEF EndReasons
    <2> QED  BY <1>0, <2>1, <2>2, AppendedEvents DEF DueStep
  <1>4. CASE Expires(id)
    BY <1>0, <1>4, AppendedEvents DEF DueStep, Expires, Tells
  <1>5. CASE ReviewExpires(id)
    BY <1>0, <1>5, AppendedEvents DEF DueStep, ReviewExpires, Tells
  <1>6. CASE Withdraws(id)
    <2>1. PICK reason \in {"cancelled", "reassigned", "delegate_removed"} :
            log'[id] = log[id] \o <<Ended(reason)>>
      BY <1>6 DEF Withdraws, Tells
    <2>2. /\ Ended(reason) \in Event /\ Ended(reason) # Started
          /\ Ended(reason) # Ended("expired") /\ Ended(reason) # Ended("review_expired")
      BY DistinctEvents DEF EndReasons
    <2> QED  BY <1>0, <2>1, <2>2, AppendedEvents DEF DueStep
  <1>7. CASE Escalates(id)
    <2>1. log'[id] = log[id] \o <<Ended("delegate_disabled"), Escalation>>
      BY <1>7 DEF Escalates, Tells
    <2>2. Ended("delegate_disabled") \in Event /\ Escalation \in Event
      BY DistinctEvents DEF EndReasons
    <2> QED  BY <1>0, <2>1, <2>2, AppendedEvents DEF DueStep
  <1> QED  BY <1>1, <1>2, <1>3, <1>4, <1>5, <1>6, <1>7
             DEF Happens, Nothing, Schedules, Vanishes

\* Nothing happens before its time, in the whole system and for any number of
\* delegations, requests, cron runs and consumers: activation, expiry and the
\* review sweep act on what their row says at the moment they commit.
THEOREM Timely == Spec => ActsWhenDue
  <1>1. ASSUME IndInv, Next PROVE \A id \in Ids : DueStep(id)
    BY <1>1, StepHappens, DueWhenHappens DEF IndInv, TypeOK
  <1>2. ASSUME IndInv, [Next]_vars
        PROVE  [\A id \in Ids : DueStep(id)]_vars
    BY <1>1, <1>2
  <1> QED  BY <1>2, Invariance, PTL DEF Spec, ActsWhenDue, DueStep

\* One delegation's step is a step of its lifecycle.
AbstractStep(id) ==
  \/ Lifecycle!Stay(id) \/ Lifecycle!Schedule(id) \/ Lifecycle!Start(id)
  \/ Lifecycle!Remind(id) \/ Lifecycle!Lapse(id) \/ Lifecycle!Withdraw(id)
  \/ Lifecycle!Escalate(id) \/ Lifecycle!EndSilently(id) \/ Lifecycle!Erase(id)

LEMMA HappensIsAbstract ==
  ASSUME NEW id \in Ids, Happens(id)
  PROVE  AbstractStep(id)
  <1>0. /\ [i \in Ids |-> PhaseOf(rows[i])][id] = Phase(id)
        /\ [i \in Ids |-> PhaseOf(rows'[i])][id] = Phase(id)'
    BY DEF Phase
  <1>1. CASE Nothing(id)
    BY <1>0, <1>1 DEF Nothing, AbstractStep, Lifecycle!Stay
  <1>2. CASE Schedules(id)
    BY <1>0, <1>2 DEF Schedules, AbstractStep, Lifecycle!Schedule, Lifecycle!Becomes
  <1>3. CASE Starts(id)
    BY <1>0, <1>3 DEF Starts, Tells, AbstractStep, Lifecycle!Start, Lifecycle!Becomes,
                      Lifecycle!Says, Started, Lifecycle!Started
  <1>4. CASE Reminds(id)
    BY <1>0, <1>4 DEF Reminds, Tells, AbstractStep, Lifecycle!Remind, Lifecycle!Becomes,
                      Lifecycle!Says, ReviewRequested, Lifecycle!ReviewRequested
  <1>5. CASE Expires(id) \/ ReviewExpires(id)
    BY <1>0, <1>5 DEF Expires, ReviewExpires, Tells, AbstractStep, Lifecycle!Lapse,
                      Lifecycle!Becomes, Lifecycle!Says, Ended, Lifecycle!Ended
  <1>6. CASE Withdraws(id)
    BY <1>0, <1>6 DEF Withdraws, Tells, AbstractStep, Lifecycle!Withdraw,
                      Lifecycle!Becomes, Lifecycle!Says, Ended, Lifecycle!Ended
  <1>7. CASE Escalates(id)
    BY <1>0, <1>7 DEF Escalates, Tells, AbstractStep, Lifecycle!Escalate,
                      Lifecycle!Becomes, Lifecycle!Says, Ended, Lifecycle!Ended,
                      Escalation, Lifecycle!Escalation
  <1>8. CASE Vanishes(id)
    BY <1>0, <1>8 DEF Vanishes, AbstractStep, Lifecycle!EndSilently, Lifecycle!Erase,
                      Lifecycle!Becomes
  <1> QED  BY <1>1, <1>2, <1>3, <1>4, <1>5, <1>6, <1>7, <1>8 DEF Happens

\* The system implements the lifecycle for any number of delegations, users and
\* processes and with every fault: a delegation starts and ends at most once, each
\* change is told by exactly one event of the right kind, and in order.
THEOREM Refinement == Spec => LifecycleSpec
  <1>1. Init => Lifecycle!Init
    BY DEF Init, StoreInit, Lifecycle!Init, PhaseOf, AbsentRow
  <1>2. ASSUME IndInv, IndInv', Next PROVE Lifecycle!Next
    <2>1. DOMAIN log' = Ids
      BY <1>2 DEF IndInv, TypeOK
    <2>2. \A id \in Ids : AbstractStep(id)
      BY <1>2, StepHappens, HappensIsAbstract
    <2> QED  BY <2>1, <2>2 DEF Lifecycle!Next, AbstractStep
  <1>3. ASSUME UNCHANGED vars PROVE UNCHANGED Lifecycle!lifecycle
    BY <1>3 DEF vars, Lifecycle!lifecycle
  <1>4. IndInv /\ IndInv' /\ [Next]_vars => [Lifecycle!Next]_(Lifecycle!lifecycle)
    BY <1>2, <1>3
  <1> QED  BY <1>1, <1>4, Invariance, PTL DEF Spec, LifecycleSpec, Lifecycle!Spec

(***************************************************************************)
(* Review reminders.  A bucket b is written by a sweep that read the clock *)
(* at review_due_at - b.  As long as sweeps do not overlap, that was no    *)
(* later than what the running sweep read, so its bucket is not larger.    *)
(***************************************************************************)
SameReview(id) == rows'[id].due = rows[id].due /\ rows'[id].bucket = rows[id].bucket

Rearms(id) ==
  rows'[id].bucket = Null /\ (rows[id].bucket = Null \/ rows'[id].due > rows[id].due)

ReviewMoves(id) ==
  SameReview(id) \/ Rearms(id) \/ \E p \in Procs, n \in 1..3 : Warns(p, id, n)

LEMMA ReviewAfter ==
  ASSUME NEW r \in Row
  PROVE  /\ \A s \in {"ended", "cancelled"} :
              EndRow(r, s).due = r.due /\ EndRow(r, s).bucket = r.bucket
         /\ ActivateRow(r).due = r.due /\ ActivateRow(r).bucket = r.bucket
         /\ EndForUserRow(r).due = r.due /\ EndForUserRow(r).bucket = r.bucket
         /\ SoftDeletedRow(r).due = r.due /\ SoftDeletedRow(r).bucket = r.bucket
         /\ \A days \in Nat : ExtendRow(r, days).due = r.due + days
                             /\ ExtendRow(r, days).bucket = Null
  BY DEF EndRow, ActivateRow, EndForUserRow, SoftDeletedRow, ExtendRow, Touched, Row

LEMMA NothingMoves ==
  ASSUME UNCHANGED rows
  PROVE  \A id \in Ids : ReviewMoves(id)
  BY DEF ReviewMoves, SameReview

LEMMA OneRowMoves ==
  ASSUME IndInv, NEW id \in Ids, NEW row, NEW events, NEW outcome,
         Write(id, row, events, outcome), rows'[id] = row => ReviewMoves(id)
  PROVE  \A i \in Ids : ReviewMoves(i)
  <1>1. CASE outcome = "tx_fail"
    BY <1>1, NothingMoves DEF Write
  <1>2. CASE outcome # "tx_fail"
    <2>1. rows' = [rows EXCEPT ![id] = row]
      BY <1>2 DEF Write
    <2>2. rows'[id] = row /\ \A i \in Ids \ {id} : rows'[i] = rows[i]
      BY <2>1 DEF IndInv, TypeOK
    <2>3. \A i \in Ids \ {id} : ReviewMoves(i)
      BY <2>2 DEF ReviewMoves, SameReview
    <2> QED  BY <2>2, <2>3
  <1> QED  BY <1>1, <1>2

LEMMA CreateInsertMoves ==
  ASSUME IndInv, NEW p \in Procs, CreateInsert(p)
  PROVE  \A i \in Ids : ReviewMoves(i)
  <1> DEFINE want == proc[p].want
             events == IF want.status = "scheduled" THEN <<>> ELSE <<Started>>
  <1>1. PICK id \in Ids, outcome \in TxOutcomes :
          ~Stored(id) /\ Write(id, want, events, outcome)
    BY DEF CreateInsert
  <1>2. rows[id].bucket = Null /\ want.bucket = Null
    BY <1>1, FreshIds, WantFacts DEF AbsentRow, CreateInsert
  <1>3. ASSUME rows'[id] = want PROVE ReviewMoves(id)
    BY <1>2, <1>3 DEF ReviewMoves, Rearms
  <1> HIDE DEF want, events
  <1> QED  BY <1>1, <1>3, OneRowMoves

LEMMA ServiceMoves ==
  ASSUME IndInv, NEW p \in Procs, ServiceStep(p)
  PROVE  \A id \in Ids : ReviewMoves(id)
  <1>1. CASE CreateInsert(p)
    BY <1>1, CreateInsertMoves
  <1>2. CASE CancelEnd(p)
    <2>0. PICK id \in Ids : id = proc[p].id
      BY <1>2 DEF CancelEnd, IndInv, InProgress
    <2> DEFINE row == EndRow(rows[id], "cancelled")
               events == <<Ended(IF proc[p].op = "reassign" THEN "reassigned" ELSE "cancelled")>>
    <2>1. \/ \E outcome \in TxOutcomes : Write(id, row, events, outcome)
          \/ UNCHANGED rows
      BY <1>2, <2>0 DEF CancelEnd
    <2>2. ASSUME rows'[id] = row PROVE ReviewMoves(id)
      BY <2>2, ReviewAfter DEF IndInv, TypeOK, ReviewMoves, SameReview
    <2> HIDE DEF row, events
    <2> QED  BY <2>1, <2>2, OneRowMoves, NothingMoves
  <1>3. CASE ExtendReview(p)
    <2>0. PICK id \in Ids : id = proc[p].id
      BY <1>3 DEF ExtendReview, IndInv, InProgress
    <2>1. CASE UNCHANGED rows
      BY <2>1, NothingMoves
    <2>2. CASE \E days \in ExtendWindows, outcome \in TxOutcomes :
                 Write(id, ExtendRow(rows[id], days), <<>>, outcome)
      <3>1. PICK days \in ExtendWindows, outcome \in TxOutcomes :
                 Write(id, ExtendRow(rows[id], days), <<>>, outcome)
        BY <2>2
      <3> DEFINE row == ExtendRow(rows[id], days)
      <3>2. days \in Nat /\ days > 0 /\ rows[id] \in Row /\ rows[id].due \in Int
        BY TimeAssumption DEF ExtendWindows, IndInv, TypeOK, Row
      <3>3. row.due = rows[id].due + days /\ row.bucket = Null
        BY <3>2, ReviewAfter
      <3>4. ASSUME rows'[id] = row PROVE ReviewMoves(id)
        BY <3>2, <3>3, <3>4 DEF ReviewMoves, Rearms
      <3> HIDE DEF row
      <3> QED  BY <3>1, <3>4, OneRowMoves DEF row
    <2> QED  BY <1>3, <2>0, <2>1, <2>2 DEF ExtendReview
  <1>4. CASE ~(CreateInsert(p) \/ CancelEnd(p) \/ ExtendReview(p))
    <2>1. UNCHANGED rows
      BY <1>4 DEF ServiceStep, CreateStart, CreateCheck, CreateRefused,
                  CreateSetAvailability, CreateCompensate, CancelStart,
                  CancelClearPointer, ReassignStart, ReassignCreate, ExtendStart,
                  ExtendResync
    <2> QED  BY <2>1, NothingMoves
  <1> QED  BY <1>1, <1>2, <1>3, <1>4

LEMMA AttemptMoves ==
  ASSUME IndInv, NEW p \in Procs, NEW matches, NEW row, NEW event,
         Attempt(p, matches, row, event), NEW id \in Ids, id = proc[p].id,
         row.due = rows[id].due, row.bucket = rows[id].bucket
  PROVE  \A i \in Ids : ReviewMoves(i)
  <1> DEFINE events == <<event>>
  <1>1. \/ \E outcome \in TxOutcomes : Write(id, row, events, outcome)
        \/ UNCHANGED rows
    BY DEF Attempt
  <1>2. ASSUME rows'[id] = row PROVE ReviewMoves(id)
    BY <1>2 DEF ReviewMoves, SameReview
  <1> HIDE DEF events
  <1> QED  BY <1>1, <1>2, OneRowMoves, NothingMoves

LEMMA WarnMoves ==
  ASSUME IndInv, NEW p \in Procs, ReviewWarn(p)
  PROVE  \A i \in Ids : ReviewMoves(i)
  <1>1. PICK x \in proc[p].todo :
          LET r == rows[x.id]
              days == r.due - proc[p].at
              warn == WarnMatches(x.id, x.ver) /\ r.bucket # days
          IN  \/ /\ warn
                 /\ \E outcome \in TxOutcomes :
                      Write(x.id, WarnRow(r, days), <<ReviewRequested(days)>>, outcome)
              \/ ~warn /\ UNCHANGED <<rows, log>>
    BY DEF ReviewWarn
  <1>2. PICK id \in Ids : id = x.id
    BY DEF IndInv, TypeOK, Process, Items
  <1>3. PICK days : days = rows[id].due - proc[p].at
    OBVIOUS
  <1>4. CASE WarnMatches(id, x.ver) /\ rows[id].bucket # days
    <2> DEFINE row == WarnRow(rows[id], days)
               events == <<ReviewRequested(days)>>
    <2>1. PICK outcome \in TxOutcomes : Write(id, row, events, outcome)
      BY <1>1, <1>2, <1>3, <1>4
    <2>2. days \in 1..3 /\ proc[p].pc = "warn"
      BY <1>2, <1>3, <1>4, WarnDays DEF ReviewWarn
    <2>3. row.bucket = days /\ row.due = rows[id].due
      BY <2>2 DEF WarnRow, Touched, Row, IndInv, TypeOK
    <2>4. ASSUME rows'[id] = row PROVE ReviewMoves(id)
      <3>1. Warns(p, id, days)
        BY <1>3, <1>4, <2>2, <2>3, <2>4 DEF Warns
      <3> QED  BY <2>2, <3>1 DEF ReviewMoves
    <2> HIDE DEF row, events
    <2> QED  BY <2>1, <2>4, OneRowMoves
  <1>5. CASE ~(WarnMatches(id, x.ver) /\ rows[id].bucket # days)
    BY <1>1, <1>2, <1>3, <1>5, NothingMoves
  <1> QED  BY <1>4, <1>5

LEMMA JobMoves ==
  ASSUME IndInv, NEW p \in Procs, JobStep(p)
  PROVE  \A id \in Ids : ReviewMoves(id)
  <1>1. CASE ActivateScheduled(p) \/ EndExpired(p) \/ EndReviewExpired(p)
    <2>0. PICK id \in Ids : id = proc[p].id
      BY <1>1, CommitItem DEF ActivateScheduled, EndExpired, EndReviewExpired, Attempt
    <2>1. rows[id] \in Row
      BY DEF IndInv, TypeOK
    <2> DEFINE a == ActivateRow(rows[id])
               e == EndRow(rows[id], "ended")
    <2>2. /\ a.due = rows[id].due /\ a.bucket = rows[id].bucket
          /\ e.due = rows[id].due /\ e.bucket = rows[id].bucket
      BY <2>1, ReviewAfter
    <2>3. \/ Attempt(p, ActivateMatches(id, proc[p].ver), a, Started)
          \/ Attempt(p, EndMatches(id, proc[p].ver), e, Ended("expired"))
          \/ Attempt(p, EndMatches(id, proc[p].ver), e, Ended("review_expired"))
      BY <1>1, <2>0 DEF ActivateScheduled, EndExpired, EndReviewExpired
    <2> HIDE DEF a, e
    <2> QED  BY <2>0, <2>2, <2>3, AttemptMoves
  <1>2. CASE ReviewWarn(p)
    BY <1>2, WarnMoves
  <1>3. CASE ~(ActivateScheduled(p) \/ EndExpired(p) \/ EndReviewExpired(p) \/ ReviewWarn(p))
    <2>1. UNCHANGED rows
      BY <1>3 DEF JobStep, ActivationList, ActivationSetAvailability, ExpiryList,
                  ClearBeforeEnd, ReviewStart, ReviewWarnList, ReviewEndList
    <2> QED  BY <2>1, NothingMoves
  <1> QED  BY <1>1, <1>2, <1>3

LEMMA CascadeMoves ==
  ASSUME IndInv, NEW p \in Procs, CascadeStep(p), NEW id \in Ids
  PROVE  ReviewMoves(id)
  <1>1. rows[id] \in Row
    BY DEF IndInv, TypeOK
  <1>2. \/ rows'[id] = rows[id] \/ rows'[id] = EndForUserRow(rows[id])
        \/ rows'[id] = EndRow(rows[id], "ended") \/ rows'[id] = SoftDeletedRow(rows[id])
    <2>1. CASE EndForUserUpdate(p) \/ EndForUserClear(p)
      BY <2>1 DEF EndForUserUpdate, EndForUserClear
    <2>2. CASE EndForUserCommit(p)
      BY <2>2 DEF EndForUserCommit
    <2>3. CASE EndForDisabledDelegate(p)
      BY <2>3 DEF EndForDisabledDelegate
    <2>4. CASE ScrubTenant(p)
      BY <2>4 DEF ScrubTenant
    <2> QED  BY <2>1, <2>2, <2>3, <2>4 DEF CascadeStep
  <1> QED  BY <1>1, <1>2, ReviewAfter DEF ReviewMoves, SameReview

LEMMA StepMoves ==
  ASSUME IndInv, Next
  PROVE  \A id \in Ids : ReviewMoves(id)
  <1>1. CASE \E p \in Requests : ServiceStep(p)
    BY <1>1, ServiceMoves DEF Procs
  <1>2. CASE \E p \in Crons : JobStep(p)
    BY <1>2, JobMoves DEF Procs
  <1>3. CASE \E p \in Consumers : CascadeStep(p)
    BY <1>3, CascadeMoves DEF Procs
  <1>4. CASE (\E p \in Procs : Crash(p)) \/ (\E u \in Users : UserProfileSweep(u)) \/ Tick
    <2>1. UNCHANGED rows
      BY <1>4 DEF Crash, UserProfileSweep, Tick
    <2> QED  BY <2>1, NothingMoves
  <1> QED  BY <1>1, <1>2, <1>3, <1>4 DEF Next

\* A sweep reads the clock once, when it starts.
ClockReadOnce(p) ==
  proc'[p].op = "review" =>
    (proc[p].op = "review" /\ proc'[p].at = proc[p].at) \/ proc'[p].at = now

LEMMA OneProcessReads ==
  ASSUME IndInv, NEW p \in Procs, NEW c, proc' = [proc EXCEPT ![p] = c],
         c.op = "review" => (proc[p].op = "review" /\ c.at = proc[p].at) \/ c.at = now
  PROVE  \A q \in Procs : ClockReadOnce(q)
  <1>1. proc'[p] = c /\ \A q \in Procs \ {p} : proc'[q] = proc[q]
    BY DEF IndInv, TypeOK
  <1> QED  BY <1>1 DEF ClockReadOnce

LEMMA ServiceReads ==
  ASSUME IndInv, NEW p \in Procs, ServiceStep(p)
  PROVE  \A q \in Procs : ClockReadOnce(q)
  <1>0. proc[p] \in Process /\ proc \in [Procs -> Process]
    BY DEF IndInv, TypeOK
  <1>1. \A q \in Procs \ {p} : proc'[q] = proc[q]
    BY <1>0 DEF ServiceStep, CreateStart, CreateCheck, CreateRefused, CreateSetAvailability,
              CreateInsert, CreateCompensate, CancelStart, CancelClearPointer, CancelEnd,
              ReassignStart, ReassignCreate, ExtendStart, ExtendReview, ExtendResync,
              Goto, Finish
  <1>2. ClockReadOnce(p)
    <2>1. ASSUME Finish(p) PROVE ClockReadOnce(p)
      BY <1>0, <2>1 DEF Finish, Idle, ClockReadOnce
    <2>2. ASSUME NEW pc, Goto(p, pc) PROVE ClockReadOnce(p)
      BY <1>0, <2>2 DEF Goto, Process, ClockReadOnce
    <2>3. CASE CreateStart(p) \/ CancelStart(p) \/ ReassignStart(p) \/ ExtendStart(p)
      <3>1. CASE \E want : proc' = [proc EXCEPT ![p].op = "create", ![p].pc = "check",
                                              ![p].want = want]
        BY <1>0, <3>1 DEF Process, ClockReadOnce
      <3>2. ASSUME NEW op \in {"cancel", "reassign", "extend"}, NEW pc, NEW id, NEW v,
                   proc' = [proc EXCEPT ![p].op = op, ![p].pc = pc, ![p].id = id, ![p].ver = v]
            PROVE  ClockReadOnce(p)
        BY <1>0, <3>2 DEF Process, ClockReadOnce
      <3>3. CASE CreateStart(p)
        BY <3>1, <3>3 DEF CreateStart
      <3>4. CASE CancelStart(p)
        <4>1. PICK id, v :
                proc' = [proc EXCEPT ![p].op = "cancel", ![p].pc = "clear",
                                     ![p].id = id, ![p].ver = v]
          BY <3>4 DEF CancelStart
        <4> QED  BY <3>2, <4>1
      <3>5. CASE ReassignStart(p)
        <4>1. PICK id, v :
                proc' = [proc EXCEPT ![p].op = "reassign", ![p].pc = "clear",
                                     ![p].id = id, ![p].ver = v]
          BY <3>5 DEF ReassignStart
        <4> QED  BY <3>2, <4>1
      <3>6. CASE ExtendStart(p)
        <4>1. PICK id, v :
                proc' = [proc EXCEPT ![p].op = "extend", ![p].pc = "extend",
                                     ![p].id = id, ![p].ver = v]
          BY <3>6 DEF ExtendStart
        <4> QED  BY <3>2, <4>1
      <3> QED  BY <2>3, <3>3, <3>4, <3>5, <3>6
    <2>4. CASE CreateCheck(p) \/ CreateRefused(p) \/ CreateSetAvailability(p)
               \/ CreateInsert(p) \/ CreateCompensate(p) \/ CancelClearPointer(p)
               \/ CancelEnd(p) \/ ExtendResync(p)
      BY <2>1, <2>2, <2>4 DEF CreateCheck, CreateRefused, CreateSetAvailability,
              CreateInsert, CreateCompensate, CancelClearPointer, CancelEnd, ExtendResync
    <2>5. CASE ReassignCreate(p)
      <3>1. CASE Finish(p)
        BY <2>1, <3>1
      <3>2. CASE \E want : proc' = [proc EXCEPT ![p].pc = "check", ![p].want = want]
        BY <1>0, <3>2 DEF Process, ClockReadOnce
      <3> QED  BY <2>5, <3>1, <3>2 DEF ReassignCreate
    <2>6. CASE ExtendReview(p)
      <3>1. CASE Finish(p)
        BY <2>1, <3>1
      <3>2. CASE \E want : proc' = [proc EXCEPT ![p].pc = "resync", ![p].want = want]
        BY <1>0, <3>2 DEF Process, ClockReadOnce
      <3> QED  BY <2>6, <3>1, <3>2 DEF ExtendReview
    <2> QED  BY <2>3, <2>4, <2>5, <2>6 DEF ServiceStep
  <1> QED  BY <1>1, <1>2 DEF ClockReadOnce

LEMMA JobReads ==
  ASSUME IndInv, NEW p \in Procs, JobStep(p)
  PROVE  \A q \in Procs : ClockReadOnce(q)
  <1>0. proc[p] \in Process /\ proc \in [Procs -> Process]
    BY DEF IndInv, TypeOK
  <1>1. ASSUME NEW op, NEW t, NEW todo, StartBatch(p, op, t, todo),
               (op = proc[p].op /\ t = proc[p].at) \/ t = now \/ op # "review"
        PROVE  \A q \in Procs : ClockReadOnce(q)
    <2> DEFINE c == IF todo = {} THEN Idle
                    ELSE [Idle EXCEPT !.op = op, !.pc = "batch", !.at = t, !.todo = todo]
    <2>1. proc' = [proc EXCEPT ![p] = c]
      BY <1>1 DEF StartBatch
    <2>2. c.op = "review" => (proc[p].op = "review" /\ c.at = proc[p].at) \/ c.at = now
      BY <1>1 DEF Idle
    <2> HIDE DEF c
    <2> QED  BY <2>1, <2>2, OneProcessReads
  <1>2. ASSUME NEW x, NEW outcome, AfterCall(p, x, outcome)
        PROVE  \A q \in Procs : ClockReadOnce(q)
    <2>1. CASE outcome = "ok"
      BY <1>0, <1>2, <2>1 DEF AfterCall, ClockReadOnce, Process
    <2>2. CASE outcome # "ok"
      BY <1>1, <1>2, <2>2 DEF AfterCall, NextRow
    <2> QED  BY <2>1, <2>2
  <1>3. CASE ActivationList(p) \/ ExpiryList(p) \/ ReviewEndList(p)
    <2>1. \/ \E todo : StartBatch(p, "activation", now, todo)
          \/ \E todo : StartBatch(p, "expiry", now, todo)
          \/ proc[p].pc = "warn" /\ \E todo : StartBatch(p, "review", proc[p].at, todo)
      BY <1>3 DEF ActivationList, ExpiryList, ReviewEndList
    <2>2. proc[p].pc = "warn" => proc[p].op = "review"
      BY DEF IndInv, InProgress
    <2> QED  BY <1>1, <2>1, <2>2
  <1>4. CASE ActivateScheduled(p) \/ EndExpired(p) \/ EndReviewExpired(p)
    <2>1. \E id : NextRow(p, id)
      BY <1>4 DEF ActivateScheduled, EndExpired, EndReviewExpired, Attempt
    <2> QED  BY <1>1, <2>1 DEF NextRow
  <1>5. CASE ActivationSetAvailability(p) \/ ClearBeforeEnd(p)
    <2>1. \E x, outcome : AfterCall(p, x, outcome)
      BY <1>5 DEF ActivationSetAvailability, ClearBeforeEnd
    <2> QED  BY <1>2, <2>1
  <1>6. CASE ReviewStart(p)
    BY <1>0, <1>6 DEF ReviewStart, ClockReadOnce, Process
  <1>7. CASE ReviewWarnList(p)
    BY <1>0, <1>7 DEF ReviewWarnList, ClockReadOnce, Process
  <1>8. CASE ReviewWarn(p)
    BY <1>0, <1>8 DEF ReviewWarn, ClockReadOnce, Process
  <1> QED  BY <1>3, <1>4, <1>5, <1>6, <1>7, <1>8 DEF JobStep

LEMMA StepReads ==
  ASSUME IndInv, Next
  PROVE  \A q \in Procs : ClockReadOnce(q)
  <1>0. proc \in [Procs -> Process]
    BY DEF IndInv, TypeOK
  <1>1. CASE \E p \in Requests : ServiceStep(p)
    BY <1>1, ServiceReads DEF Procs
  <1>2. CASE \E p \in Crons : JobStep(p)
    BY <1>2, JobReads DEF Procs
  <1>3. ASSUME NEW p \in Procs, CascadeStep(p) PROVE \A q \in Procs : ClockReadOnce(q)
    <2>0. proc[p] \in Process
      BY <1>0
    <2>1. CASE EndForUserUpdate(p)
      BY <1>0, <2>0, <2>1 DEF EndForUserUpdate, Process, ClockReadOnce
    <2>2. CASE EndForUserClear(p)
      BY <1>0, <2>0, <2>2 DEF EndForUserClear, Process, ClockReadOnce
    <2>3. CASE EndForUserCommit(p)
      BY <1>0, <2>3 DEF EndForUserCommit, Finish, Idle, ClockReadOnce
    <2>4. CASE EndForDisabledDelegate(p) \/ ScrubTenant(p)
      BY <2>4 DEF EndForDisabledDelegate, ScrubTenant, ClockReadOnce
    <2> QED  BY <1>3, <2>1, <2>2, <2>3, <2>4 DEF CascadeStep
  <1>4. CASE \E p \in Procs : Crash(p)
    BY <1>0, <1>4 DEF Crash, Finish, Idle, ClockReadOnce
  <1>5. CASE (\E u \in Users : UserProfileSweep(u)) \/ Tick
    BY <1>5 DEF UserProfileSweep, Tick, ClockReadOnce
  <1> QED  BY <1>1, <1>2, <1>3, <1>4, <1>5 DEF Next, Procs

\* No two review sweeps at a time.
OneSweep ==
  \A p, q \in Procs : proc[p].op = "review" /\ proc[q].op = "review" => p = q

\* The last reminder of a row was due no later than now, nor later than what the
\* running sweep takes for now.
RemindedBy(t) ==
  \A id \in Ids : rows[id].bucket # Null => rows[id].due - rows[id].bucket <= t

ReminderInv ==
  RemindedBy(now) /\ \A p \in Procs : proc[p].op = "review" => RemindedBy(proc[p].at)

LEMMA RemindersInitially == Init => ReminderInv
  BY DEF Init, StoreInit, AbsentRow, ReminderInv, RemindedBy, Idle, Null

LEMMA ClockForward ==
  ASSUME Next
  PROVE  now' = now \/ now' = now + 1
  <1>1. ASSUME NEW p \in Procs, ServiceStep(p) PROVE now' = now
    BY <1>1 DEF ServiceStep, CreateStart, CreateCheck, CreateRefused,
              CreateSetAvailability, CreateInsert, CreateCompensate, CancelStart,
              CancelClearPointer, CancelEnd, ReassignStart, ReassignCreate, ExtendStart,
              ExtendReview, ExtendResync
  <1>2. ASSUME NEW p \in Procs, JobStep(p) PROVE now' = now
    BY <1>2 DEF JobStep, ActivationList, ActivationSetAvailability,
              ActivateScheduled, ExpiryList, ClearBeforeEnd, EndExpired, ReviewStart,
              ReviewWarnList, ReviewWarn, ReviewEndList, EndReviewExpired, Attempt
  <1>3. ASSUME NEW p \in Procs, CascadeStep(p) \/ Crash(p) PROVE now' = now
    BY <1>3 DEF CascadeStep, EndForUserUpdate, EndForUserClear, EndForUserCommit,
              EndForDisabledDelegate, ScrubTenant, Crash
  <1>4. CASE (\E u \in Users : UserProfileSweep(u)) \/ Tick
    BY <1>4 DEF UserProfileSweep, Tick
  <1> QED  BY <1>1, <1>2, <1>3, <1>4 DEF Next, Procs

LEMMA RemindersPreserved ==
  ASSUME IndInv, IndInv', OneSweep, ReminderInv, [Next]_vars
  PROVE  ReminderInv'
  <1>1. CASE UNCHANGED vars
    BY <1>1 DEF vars, ReminderInv, RemindedBy
  <1>2. CASE Next
    <2>1. now \in Nat /\ now' \in Nat /\ now <= now'
      BY <1>2, ClockForward DEF IndInv, TypeOK
    <2>2. ASSUME NEW id \in Ids, rows'[id].bucket # Null, NEW t \in Int,
                 rows[id].bucket # Null => rows[id].due - rows[id].bucket <= t,
                 \A p \in Procs, n \in 1..3 : Warns(p, id, n) => proc[p].at <= t
          PROVE  rows'[id].due - rows'[id].bucket <= t
      <3>1. ReviewMoves(id)
        BY <1>2, StepMoves
      <3>2. CASE SameReview(id)
        BY <2>2, <3>2 DEF SameReview
      <3>3. CASE \E p \in Procs, n \in 1..3 : Warns(p, id, n)
        <4>1. PICK p \in Procs, n \in 1..3 : Warns(p, id, n)
          BY <3>3
        <4>2. rows[id].due \in Int /\ proc[p].at \in Int
          <5>1. rows[id] \in Row /\ proc[p] \in Process
            BY DEF IndInv, TypeOK
          <5> QED  BY <5>1 DEF Row, Process
        <4>3. /\ rows'[id].due = rows[id].due
              /\ rows'[id].bucket = rows[id].due - proc[p].at
          BY <4>1 DEF Warns
        <4>4. rows'[id].due - rows'[id].bucket = proc[p].at
          BY <4>2, <4>3
        <4> QED  BY <2>2, <4>1, <4>4
      <3> QED  BY <2>2, <3>1, <3>2, <3>3 DEF ReviewMoves, Rearms
    <2>3. \A p \in Procs : proc[p].at \in Nat /\ proc'[p].at \in Nat /\ proc[p].at <= now
      BY DEF IndInv, TypeOK, Process, InProgress
    <2>4. ASSUME NEW id \in Ids, rows'[id].bucket # Null
          PROVE  /\ rows'[id].due - rows'[id].bucket <= now
                 /\ rows'[id].due \in Int /\ rows'[id].bucket \in Int
      <3>1. rows'[id].due \in Int /\ rows'[id].bucket \in Int
        <4>1. rows'[id] \in Row
          BY DEF IndInv, TypeOK
        <4>2. rows'[id].due \in Int /\ rows'[id].bucket \in Buckets
          BY <4>1 DEF Row
        <4> QED  BY <4>2 DEF Buckets, Null
      <3>2. rows[id].bucket # Null => rows[id].due - rows[id].bucket <= now
        BY DEF ReminderInv, RemindedBy
      <3>3. now \in Int /\ \A p \in Procs, n \in 1..3 : Warns(p, id, n) => proc[p].at <= now
        BY <2>1, <2>3
      <3>4. rows'[id].due - rows'[id].bucket <= now
        BY <2>2, <2>4, <3>2, <3>3
      <3> QED  BY <3>1, <3>4
    <2>5. ASSUME NEW q \in Procs, proc'[q].op = "review",
                 NEW id \in Ids, rows'[id].bucket # Null
          PROVE  rows'[id].due - rows'[id].bucket <= proc'[q].at
      <3>1. CASE proc'[q].at = now
        BY <2>4, <2>5, <3>1
      <3>2. CASE proc[q].op = "review" /\ proc'[q].at = proc[q].at
        <4>1. rows[id].bucket # Null => rows[id].due - rows[id].bucket <= proc[q].at
          BY <3>2 DEF ReminderInv, RemindedBy
        <4>2. ASSUME NEW p \in Procs, NEW n \in 1..3, Warns(p, id, n) PROVE p = q
          <5>1. proc[p].op = "review"
            BY <4>2 DEF Warns, IndInv, InProgress
          <5> QED  BY <3>2, <5>1 DEF OneSweep
        <4>3. \A p \in Procs, n \in 1..3 : Warns(p, id, n) => proc[p].at <= proc[q].at
          BY <2>3, <4>2
        <4> QED  BY <2>2, <2>3, <2>5, <3>2, <4>1, <4>3
      <3> QED  BY <1>2, <2>5, <3>1, <3>2, StepReads DEF ClockReadOnce
    <2>6. RemindedBy(now)'
      BY <2>1, <2>4 DEF RemindedBy
    <2> QED  BY <2>5, <2>6 DEF ReminderInv, RemindedBy
  <1> QED  BY <1>1, <1>2

CountsDown(id) ==
  /\ \A n \in 1..3 :
       log'[id] = log[id] \o <<ReviewRequested(n)>> =>
         /\ rows[id].bucket = Null \/ n < rows[id].bucket
         /\ rows'[id].bucket = n
  /\ rows[id].bucket # Null /\ rows'[id].bucket = Null =>
       rows'[id].due > rows[id].due

\* Only a sweep tells of a review, and what it tells is what it remembers.
LEMMA OnlySweepsRemind ==
  ASSUME NEW id \in Ids, log[id] \in Seq(Event), Happens(id), NEW n \in 1..3,
         log'[id] = log[id] \o <<ReviewRequested(n)>>
  PROVE  \E p \in Procs : Warns(p, id, n)
  <1>0. /\ ReviewRequested(n) \in Event /\ Started \in Event /\ Escalation \in Event
        /\ ReviewRequested(n) # Started
        /\ \A reason \in EndReasons : Ended(reason) \in Event /\ ReviewRequested(n) # Ended(reason)
    BY DistinctEvents
  <1>1. log'[id] # log[id]
    BY <1>0, AppendedEvents
  <1>2. ~Starts(id)
    BY <1>0, AppendedEvents DEF Starts, Tells
  <1>3. \A reason \in EndReasons : ~Tells(id, <<Ended(reason)>>)
    BY <1>0, AppendedEvents DEF Tells
  <1>4. ~Expires(id) /\ ~ReviewExpires(id) /\ ~Withdraws(id)
    BY <1>3 DEF Expires, ReviewExpires, Withdraws, EndReasons
  <1>5. ~Escalates(id)
    BY <1>0, AppendedEvents DEF Escalates, Tells, EndReasons
  <1>6. Reminds(id)
    BY <1>1, <1>2, <1>4, <1>5 DEF Happens, Nothing, Schedules, Vanishes
  <1>7. PICK p \in Procs, m \in 1..3 :
          log'[id] = log[id] \o <<ReviewRequested(m)>> /\ Warns(p, id, m)
    BY <1>6 DEF Reminds, Tells
  <1>8. ReviewRequested(m) = ReviewRequested(n)
    BY <1>0, <1>7, AppendedEvents, DistinctEvents
  <1>9. m = n
    BY <1>8 DEF ReviewRequested
  <1> QED  BY <1>7, <1>9

LEMMA RemindersStep ==
  ASSUME IndInv, ReminderInv, Next, NEW id \in Ids
  PROVE  CountsDown(id)
  <1>1. rows[id] \in Row /\ log[id] \in Seq(Event) /\ rows[id].bucket \in Buckets
    <2>1. rows[id] \in Row /\ log[id] \in Seq(Event)
      BY DEF IndInv, TypeOK
    <2> QED  BY <2>1 DEF Row
  <1>2. rows[id].due \in Int /\ rows[id].bucket \in Int
    BY <1>1 DEF Row, Buckets, Null
  <1>3. ASSUME NEW n \in 1..3, log'[id] = log[id] \o <<ReviewRequested(n)>>
        PROVE  (rows[id].bucket = Null \/ n < rows[id].bucket) /\ rows'[id].bucket = n
    <2>1. PICK p \in Procs : Warns(p, id, n)
      BY <1>1, <1>3, StepHappens, OnlySweepsRemind
    <2>2. proc[p].op = "review" /\ proc[p].at \in Int
      <3>1. proc[p] \in Process /\ InProgress(p)
        BY DEF IndInv, TypeOK
      <3> QED  BY <2>1, <3>1 DEF Warns, InProgress, Process
    <2>3. n = rows[id].due - proc[p].at /\ rows[id].bucket # n /\ rows'[id].bucket = n
      BY <2>1 DEF Warns
    <2>4. rows[id].bucket # Null => rows[id].due - rows[id].bucket <= proc[p].at
      BY <2>2 DEF ReminderInv, RemindedBy
    <2> QED  BY <1>2, <2>2, <2>3, <2>4
  <1>4. ASSUME rows[id].bucket # Null, rows'[id].bucket = Null
        PROVE  rows'[id].due > rows[id].due
    <2>1. ~SameReview(id)
      BY <1>4 DEF SameReview
    <2>2. \A p \in Procs, n \in 1..3 : ~Warns(p, id, n)
      BY <1>4 DEF Warns, Null
    <2> QED  BY <1>4, <2>1, <2>2, StepMoves DEF ReviewMoves, Rearms
  <1> QED  BY <1>3, <1>4 DEF CountsDown

\* Reminders count down and no day's reminder is sent twice (DLG-EVT-5), for any
\* number of delegations, crons, requests and consumers and with every fault, as
\* long as review sweeps do not overlap: ReviewWarn compares days_remaining with
\* last_warned_bucket for equality only, and that suffices because a later sweep
\* has a later clock.
THEOREM RemindersInOrder == Spec /\ []OneSweep => RemindersCountDown
  <1>1. ASSUME IndInv, ReminderInv, Next PROVE \A id \in Ids : CountsDown(id)
    BY <1>1, RemindersStep
  <1>2. ASSUME IndInv, ReminderInv, [Next]_vars
        PROVE  [\A id \in Ids : CountsDown(id)]_vars
    BY <1>1, <1>2
  <1> QED  BY <1>2, RemindersInitially, RemindersPreserved, Invariance, PTL
             DEF Spec, RemindersCountDown, CountsDown
=============================================================================
