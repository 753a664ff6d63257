----------------------- MODULE DelegationSystemProofs -----------------------
(***************************************************************************)
(* Theorems about DelegationSystem, for every set of delegations, users    *)
(* and processes: type correctness, the inductive invariant IndInv, that   *)
(* nothing happens before its time, and the refinement of                  *)
(* DelegationLifecycle.                                                    *)
(***************************************************************************)
EXTENDS DelegationSystem, TLAPS

(***************************************************************************)
(* Facts about the data.                                                   *)
(***************************************************************************)
Assumptions ==
  /\ NoId \notin Ids /\ NoUser \notin Users
  /\ Ops \subseteq AllOps /\ Faults \subseteq AllFaults
  /\ Leads \subseteq Nat /\ Spans \subseteq Nat
  /\ ReviewWindow \in Nat /\ ExtendDays \subseteq Nat

LEMMA ConstantFacts == Assumptions
  BY IdsAssumption, UsersAssumption, OpsAssumption, TimeAssumption DEF Assumptions

LEMMA RowTypes ==
  /\ AbsentRow \in Row
  /\ \A r \in Row : /\ Touched(r) \in Row
                    /\ \A s \in Statuses : EndRow(r, s) \in Row
                    /\ ActivateRow(r) \in Row
                    /\ \A days \in Nat : ExtendRow(r, days) \in Row
                    /\ \A n \in 1..3 : WarnRow(r, n) \in Row
                    /\ EndForUserRow(r) \in Row
                    /\ SoftDeletedRow(r) \in Row
  <1>1. AbsentRow \in Row
    BY DEF AbsentRow, Row, Buckets, Null
  <1>2. ASSUME NEW r \in Row PROVE Touched(r) \in Row
    BY DEF Touched, Row
  <1>3. ASSUME NEW r \in Row, NEW s \in Statuses PROVE EndRow(r, s) \in Row
    <2>1. [r EXCEPT !.status = s] \in Row  BY DEF Row
    <2> QED  BY <2>1, <1>2 DEF EndRow
  <1>4. ASSUME NEW r \in Row PROVE ActivateRow(r) \in Row
    <2>1. [r EXCEPT !.status = "active"] \in Row  BY DEF Row, Statuses
    <2> QED  BY <2>1, <1>2 DEF ActivateRow
  <1>5. ASSUME NEW r \in Row, NEW days \in Nat PROVE ExtendRow(r, days) \in Row
    <2>1. Null \in Buckets  BY DEF Buckets
    <2>2. r.due + days \in Int  BY DEF Row
    <2>3. [r EXCEPT !.due = @ + days, !.bucket = Null] \in Row
      BY <2>1, <2>2 DEF Row
    <2> QED  BY <2>3, <1>2 DEF ExtendRow
  <1>6. ASSUME NEW r \in Row, NEW n \in 1..3 PROVE WarnRow(r, n) \in Row
    <2>1. [r EXCEPT !.bucket = n] \in Row  BY DEF Row, Buckets, Null
    <2> QED  BY <2>1, <1>2 DEF WarnRow
  <1>7. ASSUME NEW r \in Row PROVE EndForUserRow(r) \in Row
    <2>1. [r EXCEPT !.status = "ended", !.deleted = TRUE] \in Row
      BY DEF Row, Statuses
    <2> QED  BY <2>1, <1>2 DEF EndForUserRow
  <1>8. ASSUME NEW r \in Row PROVE SoftDeletedRow(r) \in Row
    <2>1. [r EXCEPT !.deleted = TRUE] \in Row  BY DEF Row
    <2> QED  BY <2>1, <1>2 DEF SoftDeletedRow
  <1> QED  BY <1>1, <1>2, <1>3, <1>4, <1>5, <1>6, <1>7, <1>8

LEMMA EventTypes ==
  /\ Started \in Event /\ Escalation \in Event
  /\ \A reason \in EndReasons : Ended(reason) \in Event
  /\ \A n \in 1..3 : ReviewRequested(n) \in Event
  BY DEF Started, Escalation, Ended, ReviewRequested, Event, EndReasons

LEMMA IdleType == Idle \in Process
  BY RowTypes DEF Idle, Process, PCs

\* Every UPDATE gives the row a new version.
LEMMA NewVersions ==
  \A r \in Row : /\ Touched(r).ver > r.ver
                 /\ \A s \in Statuses : EndRow(r, s).ver > r.ver
                 /\ ActivateRow(r).ver > r.ver
                 /\ \A days \in Nat : ExtendRow(r, days).ver > r.ver
                 /\ \A n \in 1..3 : WarnRow(r, n).ver > r.ver
                 /\ EndForUserRow(r).ver > r.ver
                 /\ SoftDeletedRow(r).ver > r.ver
  BY DEF Row, Touched, EndRow, ActivateRow, ExtendRow, WarnRow, EndForUserRow,
         SoftDeletedRow

LEMMA BatchType ==
  ASSUME TypeOK, NEW S \in SUBSET Ids, NEW key \in [Ids -> Int]
  PROVE  Batch(S, key) \in SUBSET Items
  BY DEF Batch, Item, Items, OooUntil, TypeOK, Row

(***************************************************************************)
(* What a step of one process p has to establish.                          *)
(***************************************************************************)
RowsGrow == \A id \in Ids : rows'[id] = rows[id] \/ rows'[id].ver > rows[id].ver

OnlyProc(p) == \A q \in Procs \ {p} : proc'[q] = proc[q]

LocksKept(p) ==
  /\ \A q \in Procs \ {p} : \A id \in proc[q].locks : rows'[id] = rows[id]
  /\ \A id \in proc'[p].locks :
       /\ proc'[p].pc = "cascade" /\ EndForUserMatches(id, proc[p].user)'
       /\ \A q \in Procs \ {p} : id \notin proc[q].locks

Listed(p) ==
  \A x \in proc[p].todo :
    /\ x.ver <= rows[x.id].ver
    /\ x.ver = rows[x.id].ver => Remembered(p, x)

\* What a process keeps of its list stays true while rows get new versions.
LEMMA ListedKept ==
  ASSUME TypeOK, TypeOK', RowsGrow, NEW q \in Procs, Listed(q),
         proc'[q].todo \subseteq proc[q].todo,
         proc'[q].op = proc[q].op, proc'[q].at = proc[q].at,
         \/ proc'[q].pc = proc[q].pc
         \/ proc'[q].pc \in {"batch", "commit"} /\ proc[q].pc \in {"batch", "commit"}
  PROVE  Listed(q)'
  <1> SUFFICES ASSUME NEW x \in proc'[q].todo
               PROVE  /\ x.ver <= rows'[x.id].ver
                      /\ x.ver = rows'[x.id].ver => Remembered(q, x)'
    BY DEF Listed
  <1>1. x \in proc[q].todo /\ x.id \in Ids /\ x.ver \in Nat
    BY DEF TypeOK, Process, Items
  <1>2. rows[x.id].ver \in Nat /\ rows'[x.id].ver \in Nat
    BY <1>1 DEF TypeOK, Row
  <1>3. x.ver <= rows[x.id].ver /\ (x.ver = rows[x.id].ver => Remembered(q, x))
    BY <1>1 DEF Listed
  <1>4. rows'[x.id] = rows[x.id] \/ rows'[x.id].ver > rows[x.id].ver
    BY <1>1 DEF RowsGrow
  <1>5. CASE rows'[x.id] = rows[x.id]
    BY <1>3, <1>5 DEF Remembered, Startable, Expiring, DueForWarn, DueForAutoEnd
  <1>6. CASE rows'[x.id].ver > rows[x.id].ver
    BY <1>1, <1>2, <1>3, <1>6
  <1> QED  BY <1>4, <1>5, <1>6

LEMMA InProgressKept ==
  ASSUME TypeOK, NEW q \in Procs, InProgress(q), proc'[q] = proc[q],
         now' \in Nat, now <= now'
  PROVE  InProgress(q)'
  BY DEF TypeOK, InProgress, Process, Row

LEMMA Preserve ==
  ASSUME IndInv, TypeOK', UnusedIds', NEW p \in Procs, now' = now,
         OnlyProc(p), RowsGrow, LocksKept(p), Listed(p)', InProgress(p)'
  PROVE  IndInv'
  <1> USE DEF IndInv
  <1>1. ListedRowsHold'
    <2> SUFFICES ASSUME NEW q \in Procs PROVE Listed(q)'
      BY DEF ListedRowsHold, Listed
    <2>1. CASE q = p  BY <2>1
    <2>2. CASE q # p
      <3>1. Listed(q) /\ proc'[q] = proc[q]
        BY <2>2 DEF ListedRowsHold, Listed, OnlyProc
      <3> QED  BY <3>1, ListedKept
    <2> QED  BY <2>1, <2>2
  <1>2. LockedRowsHold'
    <2> SUFFICES ASSUME NEW q \in Procs, NEW id \in proc'[q].locks
                 PROVE  /\ proc'[q].pc = "cascade"
                        /\ EndForUserMatches(id, proc[q].user)'
                        /\ \A o \in Procs \ {q} : id \notin proc'[o].locks
      BY DEF LockedRowsHold
    <2>1. CASE q = p
      <3>1. EndForUserMatches(id, proc[q].user)'
        BY <2>1 DEF LocksKept, EndForUserMatches, Live
      <3> QED  BY <2>1, <3>1 DEF LocksKept, OnlyProc
    <2>2. CASE q # p
      <3>1. proc'[q] = proc[q] /\ rows'[id] = rows[id]
        BY <2>2 DEF OnlyProc, LocksKept
      <3>2. EndForUserMatches(id, proc[q].user)
        BY <3>1 DEF LockedRowsHold
      <3>3. EndForUserMatches(id, proc[q].user)'
        BY <3>1, <3>2 DEF EndForUserMatches, Live
      <3>4. \A o \in Procs \ {q} : id \notin proc'[o].locks
        BY <2>2, <3>1 DEF LockedRowsHold, OnlyProc, LocksKept
      <3> QED  BY <3>1, <3>3, <3>4 DEF LockedRowsHold
    <2> QED  BY <2>1, <2>2
  <1>3. \A q \in Procs : InProgress(q)'
    <2> SUFFICES ASSUME NEW q \in Procs PROVE InProgress(q)'  OBVIOUS
    <2>1. CASE q = p  BY <2>1
    <2>2. CASE q # p
      <3>1. now' \in Nat /\ now <= now' /\ proc'[q] = proc[q]
        BY <2>2 DEF TypeOK, OnlyProc
      <3> QED  BY <3>1, InProgressKept
    <2> QED  BY <2>1, <2>2
  <1> QED  BY <1>1, <1>2, <1>3

(***************************************************************************)
(* The parts a step is made of: what it does to the tables, to User        *)
(* Profile, and to the process that takes it.                              *)
(***************************************************************************)
UpType == up \in [Users -> [to : Users \cup {NoUser}, until : Int]]

StoreStep ==
  /\ rows' \in [Ids -> Row] /\ log' \in [Ids -> Seq(Event)] /\ now' = now
  /\ RowsGrow /\ UnusedIds'
  /\ \A id \in Ids : Locked(id) => rows'[id] = rows[id]

LEMMA Unwritten ==
  ASSUME IndInv, UNCHANGED <<rows, log, now>>
  PROVE  StoreStep
  BY DEF IndInv, TypeOK, StoreStep, RowsGrow, UnusedIds, Stored

LEMMA Written ==
  ASSUME IndInv, NEW id \in Ids, NEW row \in Row, NEW events \in Seq(Event),
         NEW outcome, Write(id, row, events, outcome), now' = now,
         row.ver > rows[id].ver, row.status # "absent", ~Locked(id)
  PROVE  StoreStep
  <1>1. CASE outcome = "tx_fail"
    BY <1>1, Unwritten DEF Write
  <1>2. CASE outcome # "tx_fail"
    <2>1. rows' = [rows EXCEPT ![id] = row] /\ log' = [log EXCEPT ![id] = @ \o events]
      BY <1>2 DEF Write
    <2>2. rows' \in [Ids -> Row]
      BY <2>1 DEF IndInv, TypeOK
    <2>3. log[id] \o events \in Seq(Event)
      BY DEF IndInv, TypeOK
    <2>4. log' \in [Ids -> Seq(Event)]
      BY <2>1, <2>3 DEF IndInv, TypeOK
    <2>5. RowsGrow
      BY <2>1 DEF RowsGrow, IndInv, TypeOK
    <2>6. UnusedIds'
      BY <2>1 DEF UnusedIds, Stored, IndInv, TypeOK
    <2>7. \A i \in Ids : Locked(i) => rows'[i] = rows[i]
      BY <2>1 DEF IndInv, TypeOK
    <2> QED  BY <2>2, <2>4, <2>5, <2>6, <2>7 DEF StoreStep
  <1> QED  BY <1>1, <1>2

LEMMA AvailabilitySet ==
  ASSUME IndInv, NEW u, NEW d \in Users \cup {NoUser}, NEW t \in Int, NEW outcome,
         SetAvailability(u, d, t, outcome)
  PROVE  UpType'
  BY DEF IndInv, TypeOK, UpType, SetAvailability

LEMMA PointerCleared ==
  ASSUME IndInv, NEW u, NEW outcome, ClearDelegatePointer(u, outcome)
  PROVE  UpType'
  BY DEF IndInv, TypeOK, UpType, ClearDelegatePointer

LEMMA UpUnchanged ==
  ASSUME IndInv, up' = up
  PROVE  UpType'
  BY DEF IndInv, TypeOK, UpType

LEMMA ProcessStep ==
  ASSUME IndInv, StoreStep, UpType', NEW p \in Procs, NEW c \in Process,
         proc' = [proc EXCEPT ![p] = c],
         \/ c.locks = {}
         \/ c.pc = "cascade" /\ c.locks = proc[p].locks /\ c.user = proc[p].user,
         Listed(p)', InProgress(p)'
  PROVE  IndInv'
  <1>1. TypeOK'
    BY DEF IndInv, TypeOK, StoreStep, UpType
  <1>2. OnlyProc(p) /\ proc'[p] = c
    BY DEF OnlyProc, IndInv, TypeOK
  <1>3. LocksKept(p)
    <2>1. \A q \in Procs : \A id \in proc[q].locks : id \in Ids /\ rows'[id] = rows[id]
      BY DEF StoreStep, Locked, IndInv, TypeOK, Process
    <2>2. CASE c.locks = {}
      BY <1>2, <2>1, <2>2 DEF LocksKept
    <2>3. CASE c.pc = "cascade" /\ c.locks = proc[p].locks /\ c.user = proc[p].user
      <3> SUFFICES ASSUME NEW id \in proc[p].locks
                   PROVE  /\ EndForUserMatches(id, proc[p].user)'
                          /\ \A q \in Procs \ {p} : id \notin proc[q].locks
        BY <1>2, <2>1, <2>3 DEF LocksKept
      <3>1. EndForUserMatches(id, proc[p].user)
        BY DEF IndInv, LockedRowsHold
      <3>2. EndForUserMatches(id, proc[p].user)'
        BY <1>2, <2>1, <2>3, <3>1 DEF EndForUserMatches, Live
      <3> QED  BY <3>2 DEF IndInv, LockedRowsHold
    <2> QED  BY <2>2, <2>3
  <1> QED  BY <1>1, <1>2, <1>3, Preserve DEF StoreStep

\* A process that is not working through a list holds no list and no locks.
LEMMA Ready ==
  ASSUME IndInv, NEW p \in Procs,
         proc[p].pc \notin {"batch", "commit", "warn", "cascade"}
  PROVE  proc[p] \in Process /\ proc[p].todo = {} /\ proc[p].locks = {}
  <1>1. proc[p] \in Process
    BY DEF IndInv, TypeOK
  <1>2. proc[p].todo = {}
    BY DEF IndInv, InProgress
  <1>3. proc[p].locks = {}
    BY <1>1 DEF IndInv, LockedRowsHold, Process
  <1> QED  BY <1>1, <1>2, <1>3

LEMMA ServiceProcess ==
  ASSUME IndInv, StoreStep, UpType', NEW p \in Procs, NEW c \in Process,
         proc' = [proc EXCEPT ![p] = c], c.todo = {}, c.locks = {}, InProgress(p)'
  PROVE  IndInv'
  <1>1. proc'[p] = c
    BY DEF IndInv, TypeOK
  <1>2. Listed(p)'
    BY <1>1 DEF Listed
  <1> QED  BY <1>2, ProcessStep

LEMMA Finished ==
  ASSUME IndInv, StoreStep, UpType', NEW p \in Procs, Finish(p)
  PROVE  IndInv'
  <1>1. proc' = [proc EXCEPT ![p] = Idle] /\ proc'[p] = Idle
    BY DEF Finish, IndInv, TypeOK
  <1>2. InProgress(p)'
    BY <1>1 DEF InProgress, Idle, IndInv, TypeOK, StoreStep
  <1>3. Idle.todo = {} /\ Idle.locks = {}
    BY DEF Idle
  <1> QED  BY <1>1, <1>2, <1>3, IdleType, ServiceProcess

(***************************************************************************)
(* DelegationService                                                       *)
(***************************************************************************)
LEMMA CreateArgumentType ==
  ASSUME TypeOK, NEW delegator \in Users \cup {NoUser},
         NEW delegate \in Users \cup {NoUser}, NEW starts \in Int, NEW ends \in Int
  PROVE  LET want == CreateArgument(delegator, delegate, starts, ends)
         IN  /\ want \in Row /\ want.ver = 1 /\ ~want.deleted
             /\ want.bucket = Null
             /\ want.delegator = delegator /\ want.delegate = delegate
             /\ want.status \in {"scheduled", "active"}
             /\ want.status = "active" => want.starts <= now
  <1>1. Null \in Int /\ Null \in Buckets /\ starts + ReviewWindow \in Int
    BY ConstantFacts DEF Null, Buckets, Assumptions
  <1>2. CreateArgument(delegator, delegate, starts, ends) \in Row
    BY <1>1 DEF CreateArgument, NewRow, Row, Statuses
  <1> QED  BY <1>2 DEF CreateArgument, NewRow, TypeOK

LEMMA CreateStartStep ==
  ASSUME IndInv, NEW p \in Procs, CreateStart(p)
  PROVE  IndInv'
  <1>1. PICK delegator \in Users, delegate \in Users, lead \in Leads,
              span \in Spans \cup {Null} :
          /\ delegator # delegate
          /\ LET starts == now + lead
                 ends == IF span = Null THEN Null ELSE starts + span
             IN  proc' = [proc EXCEPT ![p].op = "create", ![p].pc = "check",
                            ![p].want = CreateArgument(delegator, delegate, starts, ends)]
    BY DEF CreateStart
  <1> DEFINE starts == now + lead
             ends == IF span = Null THEN Null ELSE starts + span
             want == CreateArgument(delegator, delegate, starts, ends)
             c == [proc[p] EXCEPT !.op = "create", !.pc = "check", !.want = want]
  <1>2. starts \in Int /\ ends \in Int
    BY ConstantFacts DEF Assumptions, IndInv, TypeOK, Null
  <1>3. /\ want \in Row /\ want.ver = 1 /\ ~want.deleted
        /\ want.bucket = Null /\ want.delegator # want.delegate
        /\ want.status \in {"scheduled", "active"}
        /\ want.status = "active" => want.starts <= now
    <2> HIDE DEF starts, ends
    <2> QED  BY <1>1, <1>2, CreateArgumentType DEF IndInv
  <1> HIDE DEF want
  <1>4. proc[p] \in Process /\ proc[p].todo = {} /\ proc[p].locks = {}
    BY Ready DEF CreateStart, IsIdle
  <1>5. c \in Process /\ c.todo = {} /\ c.locks = {} /\ c.pc = "check" /\ c.want = want
        /\ c.at = proc[p].at
    BY <1>3, <1>4 DEF Process, PCs, CreateStart
  <1>6. proc' = [proc EXCEPT ![p] = c] /\ proc'[p] = c
    BY <1>1 DEF want, IndInv, TypeOK
  <1>7. InProgress(p)'
    <2> HIDE DEF c
    <2>1. proc[p].at <= now /\ now' = now  BY DEF IndInv, InProgress, CreateStart
    <2> QED  BY <1>3, <1>5, <1>6, <2>1 DEF InProgress
  <1>8. StoreStep /\ UpType'
    BY Unwritten, UpUnchanged DEF CreateStart
  <1> HIDE DEF c
  <1> QED  BY <1>5, <1>6, <1>7, <1>8, ServiceProcess

\* A request goes on to another step with the same arguments.
LEMMA Moved ==
  ASSUME IndInv, StoreStep, UpType', NEW p \in Procs, NEW pc \in PCs, Goto(p, pc),
         proc[p].pc \notin {"batch", "commit", "warn", "cascade"},
         pc \notin {"batch", "commit", "warn", "cascade", "sweep"},
         pc \in {"clear", "end", "again", "extend"} => proc[p].id \in Ids,
         pc \in {"check", "set", "insert"} => proc[p].pc \in {"check", "set", "insert"}
  PROVE  IndInv'
  <1> DEFINE c == [proc[p] EXCEPT !.pc = pc]
  <1>1. proc[p] \in Process /\ proc[p].todo = {} /\ proc[p].locks = {}
    BY Ready
  <1>2. /\ c \in Process /\ c.todo = {} /\ c.locks = {} /\ c.pc = pc
        /\ c.want = proc[p].want /\ c.at = proc[p].at /\ c.id = proc[p].id
    BY <1>1 DEF Process
  <1>3. proc' = [proc EXCEPT ![p] = c] /\ proc'[p] = c
    BY DEF Goto, IndInv, TypeOK
  <1> HIDE DEF c
  <1>4. InProgress(p)'
    <2>1. InProgress(p) /\ now' = now  BY DEF IndInv, StoreStep
    <2> QED  BY <1>2, <1>3, <2>1 DEF InProgress
  <1> QED  BY <1>2, <1>3, <1>4, ServiceProcess

LEMMA CreateCheckStep ==
  ASSUME IndInv, NEW p \in Procs, CreateCheck(p)
  PROVE  IndInv'
  <1>1. StoreStep /\ UpType'
    BY Unwritten, UpUnchanged DEF CreateCheck
  <1>2. PICK pc \in {"insert", "set"} : Goto(p, pc)
    BY DEF CreateCheck
  <1> QED  BY <1>1, <1>2, Moved DEF CreateCheck, PCs

LEMMA CreateRefusedStep ==
  ASSUME IndInv, NEW p \in Procs, CreateRefused(p)
  PROVE  IndInv'
  BY Unwritten, UpUnchanged, Finished DEF CreateRefused

\* What a create works towards, until its INSERT.
LEMMA WantFacts ==
  ASSUME IndInv, NEW p \in Procs, proc[p].pc \in {"check", "set", "insert"}
  PROVE  /\ proc[p].want \in Row /\ proc[p].want.ver = 1
         /\ proc[p].want.status \in {"scheduled", "active"}
         /\ proc[p].want.status = "active" => proc[p].want.starts <= now
         /\ ~proc[p].want.deleted
         /\ proc[p].want.bucket = Null /\ proc[p].want.delegator # proc[p].want.delegate
  BY DEF IndInv, TypeOK, Process, InProgress

LEMMA CreateSetAvailabilityStep ==
  ASSUME IndInv, NEW p \in Procs, CreateSetAvailability(p)
  PROVE  IndInv'
  <1>1. proc[p].want.delegate \in Users \cup {NoUser} /\ OooUntil(proc[p].want) \in Int
    BY WantFacts DEF CreateSetAvailability, Row, OooUntil
  <1>2. PICK outcome \in UpOutcomes :
          /\ SetAvailability(proc[p].want.delegator, proc[p].want.delegate,
                             OooUntil(proc[p].want), outcome)
          /\ IF outcome = "ok" THEN Goto(p, "insert") ELSE Finish(p)
    BY DEF CreateSetAvailability
  <1>3. StoreStep /\ UpType'
    BY <1>1, <1>2, Unwritten, AvailabilitySet DEF CreateSetAvailability
  <1>4. CASE outcome = "ok"
    BY <1>2, <1>3, <1>4, Moved DEF CreateSetAvailability, PCs
  <1>5. CASE outcome # "ok"
    BY <1>2, <1>3, <1>5, Finished
  <1> QED  BY <1>4, <1>5

\* An id no INSERT has used is not locked.
LEMMA FreshIds ==
  ASSUME IndInv, NEW id \in Ids, ~Stored(id)
  PROVE  rows[id] = AbsentRow /\ ~Locked(id)
  BY DEF IndInv, UnusedIds, Locked, LockedRowsHold, EndForUserMatches, Live, Stored

LEMMA CreateInsertStep ==
  ASSUME IndInv, NEW p \in Procs, CreateInsert(p)
  PROVE  IndInv'
  <1> DEFINE want == proc[p].want
             scheduled == want.status = "scheduled"
             events == IF scheduled THEN <<>> ELSE <<Started>>
  <1>1. PICK id \in Ids, outcome \in TxOutcomes :
          /\ ~Stored(id) /\ Write(id, want, events, outcome)
          /\ IF outcome = "ok" \/ scheduled THEN Finish(p) ELSE Goto(p, "compensate")
    BY DEF CreateInsert
  <1>2. events \in Seq(Event)
    BY EventTypes
  <1>3. StoreStep
    <2>1. rows[id].ver = 0 /\ ~Locked(id)
      BY <1>1, FreshIds DEF AbsentRow
    <2>2. want \in Row /\ want.ver = 1 /\ want.status # "absent" /\ now' = now
      BY WantFacts DEF CreateInsert
    <2> HIDE DEF want, events
    <2>3. want.ver > rows[id].ver
      BY <2>1, <2>2
    <2> QED  BY <1>1, <1>2, <2>1, <2>2, <2>3, Written
  <1>4. UpType'
    BY UpUnchanged DEF CreateInsert
  <1>5. CASE outcome = "ok" \/ scheduled
    BY <1>1, <1>3, <1>4, <1>5, Finished
  <1>6. CASE ~(outcome = "ok" \/ scheduled)
    BY <1>1, <1>3, <1>4, <1>6, Moved DEF CreateInsert, PCs
  <1> QED  BY <1>5, <1>6

LEMMA CreateCompensateStep ==
  ASSUME IndInv, NEW p \in Procs, CreateCompensate(p)
  PROVE  IndInv'
  BY Unwritten, PointerCleared, Finished DEF CreateCompensate

\* A request that names an existing delegation begins.
LEMMA Began ==
  ASSUME IndInv, NEW p \in Procs, IsIdle(p), NEW op \in Ops,
         NEW pc \in {"clear", "extend"}, NEW id \in Ids, NEW v \in Nat,
         proc' = [proc EXCEPT ![p].op = op, ![p].pc = pc, ![p].id = id, ![p].ver = v],
         UNCHANGED <<rows, log, up, now>>
  PROVE  IndInv'
  <1> DEFINE c == [proc[p] EXCEPT !.op = op, !.pc = pc, !.id = id, !.ver = v]
  <1>1. proc[p] \in Process /\ proc[p].todo = {} /\ proc[p].locks = {}
    BY Ready DEF IsIdle
  <1>2. /\ c \in Process /\ c.todo = {} /\ c.locks = {} /\ c.pc = pc
        /\ c.at = proc[p].at /\ c.id = id
    BY <1>1 DEF Process, PCs
  <1>3. proc' = [proc EXCEPT ![p] = c] /\ proc'[p] = c
    BY DEF IndInv, TypeOK
  <1> HIDE DEF c
  <1>4. InProgress(p)'
    <2>1. proc[p].at <= now  BY DEF IndInv, InProgress
    <2> QED  BY <1>2, <1>3, <2>1 DEF InProgress
  <1> QED  BY <1>2, <1>3, <1>4, ServiceProcess, Unwritten, UpUnchanged

LEMMA ClientVersionsType ==
  ASSUME IndInv, NEW id \in Ids
  PROVE  ClientVersions(id) \subseteq Nat
  BY DEF ClientVersions, IndInv, TypeOK, Row

LEMMA CancelStartStep ==
  ASSUME IndInv, NEW p \in Procs, CancelStart(p)
  PROVE  IndInv'
  <1>1. PICK id \in Ids : \E v \in ClientVersions(id) :
          proc' = [proc EXCEPT ![p].op = "cancel", ![p].pc = "clear",
                               ![p].id = id, ![p].ver = v]
    BY DEF CancelStart
  <1>2. PICK v \in Nat :
          proc' = [proc EXCEPT ![p].op = "cancel", ![p].pc = "clear",
                               ![p].id = id, ![p].ver = v]
    BY <1>1, ClientVersionsType
  <1>3. IsIdle(p) /\ "cancel" \in Ops /\ UNCHANGED <<rows, log, up, now>>
    BY DEF CancelStart
  <1> QED  BY <1>2, <1>3, Began

LEMMA ReassignStartStep ==
  ASSUME IndInv, NEW p \in Procs, ReassignStart(p)
  PROVE  IndInv'
  <1>1. PICK id \in Ids : \E v \in ClientVersions(id) :
          proc' = [proc EXCEPT ![p].op = "reassign", ![p].pc = "clear",
                               ![p].id = id, ![p].ver = v]
    BY DEF ReassignStart
  <1>2. PICK v \in Nat :
          proc' = [proc EXCEPT ![p].op = "reassign", ![p].pc = "clear",
                               ![p].id = id, ![p].ver = v]
    BY <1>1, ClientVersionsType
  <1>3. IsIdle(p) /\ "reassign" \in Ops /\ UNCHANGED <<rows, log, up, now>>
    BY DEF ReassignStart
  <1> QED  BY <1>2, <1>3, Began

LEMMA CancelClearPointerStep ==
  ASSUME IndInv, NEW p \in Procs, CancelClearPointer(p)
  PROVE  IndInv'
  <1>1. StoreStep /\ UpType'
    BY Unwritten, PointerCleared DEF CancelClearPointer
  <1>2. proc[p].id \in Ids
    BY DEF CancelClearPointer, IndInv, InProgress
  <1> QED  BY <1>1, <1>2, Moved DEF CancelClearPointer, PCs

LEMMA CancelEndStep ==
  ASSUME IndInv, NEW p \in Procs, CancelEnd(p)
  PROVE  IndInv'
  <1> DEFINE id == proc[p].id
             reason == IF proc[p].op = "reassign" THEN "reassigned" ELSE "cancelled"
  <1>1. id \in Ids /\ rows[id] \in Row
    BY DEF CancelEnd, IndInv, InProgress, TypeOK
  <1>2. UpType' /\ now' = now /\ ~Locked(id)
    BY UpUnchanged DEF CancelEnd
  <1>3. CASE EndMatches(id, proc[p].ver)
    <2>1. PICK outcome \in TxOutcomes :
            /\ Write(id, EndRow(rows[id], "cancelled"), <<Ended(reason)>>, outcome)
            /\ IF outcome = "ok" /\ proc[p].op = "reassign"
               THEN Goto(p, "again") ELSE Finish(p)
      BY <1>3 DEF CancelEnd
    <2>2. <<Ended(reason)>> \in Seq(Event)
      BY EventTypes DEF EndReasons
    <2>3. /\ EndRow(rows[id], "cancelled") \in Row
          /\ EndRow(rows[id], "cancelled").ver > rows[id].ver
      BY <1>1, RowTypes, NewVersions DEF Statuses
    <2>4. EndRow(rows[id], "cancelled").status # "absent"
      BY <1>1 DEF EndRow, Touched, Row
    <2>5. StoreStep
      <3> HIDE DEF id, reason
      <3> QED  BY <1>1, <1>2, <2>1, <2>2, <2>3, <2>4, Written
    <2> QED  BY <1>1, <1>2, <2>1, <2>5, Moved, Finished DEF CancelEnd, PCs
  <1>4. CASE ~EndMatches(id, proc[p].ver)
    BY <1>2, <1>4, Unwritten, Finished DEF CancelEnd
  <1> QED  BY <1>3, <1>4

LEMMA ReassignCreateStep ==
  ASSUME IndInv, NEW p \in Procs, ReassignCreate(p)
  PROVE  IndInv'
  <1> DEFINE old == rows[proc[p].id]
  <1>1. old \in Row
    BY DEF ReassignCreate, IndInv, InProgress, TypeOK
  <1>2. StoreStep /\ UpType'
    BY Unwritten, UpUnchanged DEF ReassignCreate
  <1>3. PICK delegate \in Users \ {old.delegator}, ends \in {old.ends, Null} :
          IF ends = Null \/ ends > now
          THEN proc' = [proc EXCEPT ![p].pc = "check",
                          ![p].want = CreateArgument(old.delegator, delegate, now, ends)]
          ELSE Finish(p)
    BY DEF ReassignCreate
  <1>4. CASE ends = Null \/ ends > now
    <2> DEFINE want == CreateArgument(old.delegator, delegate, now, ends)
               c == [proc[p] EXCEPT !.pc = "check", !.want = want]
    <2>1. /\ want \in Row /\ want.ver = 1 /\ ~want.deleted
          /\ want.bucket = Null /\ want.delegator # want.delegate
          /\ want.status \in {"scheduled", "active"}
          /\ want.status = "active" => want.starts <= now
      <3>1. old.delegator \in Users \cup {NoUser} /\ ends \in Int /\ now \in Int
        BY <1>1 DEF Row, Null, IndInv, TypeOK
      <3> HIDE DEF old
      <3> QED  BY <3>1, CreateArgumentType DEF IndInv
    <2> HIDE DEF want
    <2>2. proc[p] \in Process /\ proc[p].todo = {} /\ proc[p].locks = {}
      BY Ready DEF ReassignCreate
    <2>3. /\ c \in Process /\ c.todo = {} /\ c.locks = {} /\ c.pc = "check"
          /\ c.want = want /\ c.at = proc[p].at
      BY <2>1, <2>2 DEF Process, PCs
    <2>4. proc' = [proc EXCEPT ![p] = c] /\ proc'[p] = c
      BY <1>3, <1>4 DEF want, IndInv, TypeOK
    <2> HIDE DEF c
    <2>5. InProgress(p)'
      <3>1. proc[p].at <= now /\ now' = now  BY DEF IndInv, InProgress, ReassignCreate
      <3> QED  BY <2>1, <2>3, <2>4, <3>1 DEF InProgress
    <2> QED  BY <1>2, <2>3, <2>4, <2>5, ServiceProcess
  <1>5. CASE ~(ends = Null \/ ends > now)
    BY <1>2, <1>3, <1>5, Finished
  <1> QED  BY <1>4, <1>5

LEMMA ExtendStartStep ==
  ASSUME IndInv, NEW p \in Procs, ExtendStart(p)
  PROVE  IndInv'
  <1>1. PICK id \in Ids : \E v \in ClientVersions(id) :
          proc' = [proc EXCEPT ![p].op = "extend", ![p].pc = "extend",
                               ![p].id = id, ![p].ver = v]
    BY DEF ExtendStart
  <1>2. PICK v \in Nat :
          proc' = [proc EXCEPT ![p].op = "extend", ![p].pc = "extend",
                               ![p].id = id, ![p].ver = v]
    BY <1>1, ClientVersionsType
  <1>3. IsIdle(p) /\ "extend" \in Ops /\ UNCHANGED <<rows, log, up, now>>
    BY DEF ExtendStart
  <1> QED  BY <1>2, <1>3, Began

LEMMA ExtendReviewStep ==
  ASSUME IndInv, NEW p \in Procs, ExtendReview(p)
  PROVE  IndInv'
  <1> DEFINE id == proc[p].id
  <1>1. id \in Ids /\ rows[id] \in Row
    BY DEF ExtendReview, IndInv, InProgress, TypeOK
  <1>2. UpType' /\ now' = now /\ ~Locked(id)
    BY UpUnchanged DEF ExtendReview
  <1>3. CASE ExtendMatches(id, proc[p].ver)
    <2>1. PICK days \in ExtendWindows, outcome \in TxOutcomes :
            /\ Write(id, ExtendRow(rows[id], days), <<>>, outcome)
            /\ IF outcome = "ok"
               THEN proc' = [proc EXCEPT ![p].pc = "resync",
                                         ![p].want = ExtendRow(rows[id], days)]
               ELSE Finish(p)
      BY <1>3 DEF ExtendReview
    <2> DEFINE extended == ExtendRow(rows[id], days)
    <2>2. days \in Nat
      BY ConstantFacts DEF ExtendWindows, Assumptions
    <2>3. extended \in Row /\ extended.ver > rows[id].ver
      BY <1>1, <2>2, RowTypes, NewVersions
    <2>4. extended.status # "absent"
      BY <1>1, <1>3 DEF ExtendRow, Touched, Row, ExtendMatches
    <2>5. StoreStep
      <3>1. <<>> \in Seq(Event)  OBVIOUS
      <3> HIDE DEF id, extended
      <3> QED  BY <1>1, <1>2, <2>1, <2>3, <2>4, <3>1, Written DEF extended
    <2>6. CASE outcome = "ok"
      <3> DEFINE c == [proc[p] EXCEPT !.pc = "resync", !.want = extended]
      <3> HIDE DEF extended
      <3>1. proc[p] \in Process /\ proc[p].todo = {} /\ proc[p].locks = {}
        BY Ready DEF ExtendReview
      <3>2. /\ c \in Process /\ c.todo = {} /\ c.locks = {} /\ c.pc = "resync"
            /\ c.at = proc[p].at
        BY <2>3, <3>1 DEF Process, PCs
      <3>3. proc' = [proc EXCEPT ![p] = c] /\ proc'[p] = c
        BY <2>1, <2>6 DEF extended, IndInv, TypeOK
      <3> HIDE DEF c
      <3>4. InProgress(p)'
        <4>1. proc[p].at <= now  BY DEF IndInv, InProgress
        <4> QED  BY <1>2, <3>2, <3>3, <4>1 DEF InProgress
      <3> QED  BY <1>2, <2>5, <3>2, <3>3, <3>4, ServiceProcess
    <2>7. CASE outcome # "ok"
      BY <1>2, <2>1, <2>5, <2>7, Finished
    <2> QED  BY <2>6, <2>7
  <1>4. CASE ~ExtendMatches(id, proc[p].ver)
    BY <1>2, <1>4, Unwritten, Finished DEF ExtendReview
  <1> QED  BY <1>3, <1>4

LEMMA ExtendResyncStep ==
  ASSUME IndInv, NEW p \in Procs, ExtendResync(p)
  PROVE  IndInv'
  <1>1. proc[p].want.delegate \in Users \cup {NoUser} /\ proc[p].want.due \in Int
    BY DEF IndInv, TypeOK, Process, Row
  <1> QED  BY <1>1, Unwritten, AvailabilitySet, Finished DEF ExtendResync

LEMMA ServiceSteps ==
  ASSUME IndInv, NEW p \in Procs, ServiceStep(p)
  PROVE  IndInv'
  BY CreateStartStep, CreateCheckStep, CreateRefusedStep, CreateSetAvailabilityStep,
     CreateInsertStep, CreateCompensateStep, CancelStartStep, CancelClearPointerStep,
     CancelEndStep, ReassignStartStep, ReassignCreateStep, ExtendStartStep,
     ExtendReviewStep, ExtendResyncStep DEF ServiceStep

(***************************************************************************)
(* ReconcilerJobs                                                          *)
(***************************************************************************)
BatchRecord(op, t, todo) ==
  [Idle EXCEPT !.op = op, !.pc = "batch", !.at = t, !.todo = todo]

LEMMA BatchRecordType ==
  ASSUME NEW op \in Ops, NEW t \in Nat, NEW todo \in SUBSET Items
  PROVE  LET c == BatchRecord(op, t, todo)
         IN  /\ c \in Process /\ c.op = op /\ c.pc = "batch" /\ c.at = t
             /\ c.todo = todo /\ c.locks = {}
  BY IdleType DEF BatchRecord, Idle, Process, PCs

\* A run that starts, or goes on with, a non-empty batch.
LEMMA BatchGoesOn ==
  ASSUME IndInv, StoreStep, UpType', NEW p \in Procs, NEW op \in Ops, NEW t \in Nat,
         t <= now, NEW todo \in SUBSET Items,
         proc' = [proc EXCEPT ![p] = BatchRecord(op, t, todo)], Listed(p)'
  PROVE  IndInv'
  <1> DEFINE c == BatchRecord(op, t, todo)
  <1>1. /\ c \in Process /\ c.op = op /\ c.pc = "batch" /\ c.at = t
        /\ c.todo = todo /\ c.locks = {}
    BY BatchRecordType
  <1>2. proc'[p] = c /\ now' = now
    BY DEF IndInv, TypeOK, StoreStep
  <1> HIDE DEF c
  <1>3. InProgress(p)'
    BY <1>1, <1>2 DEF InProgress
  <1> QED  BY <1>1, <1>3, ProcessStep DEF c

\* StartBatch is Finish, or a process at the head of a non-empty batch.
LEMMA StartBatchCases ==
  ASSUME NEW p \in Procs, NEW op, NEW t, NEW todo, StartBatch(p, op, t, todo)
  PROVE  Finish(p) \/ proc' = [proc EXCEPT ![p] = BatchRecord(op, t, todo)]
  BY DEF StartBatch, Finish, BatchRecord

LEMMA NewBatch ==
  ASSUME IndInv, UNCHANGED <<rows, log, up, now>>, NEW p \in Procs, NEW op \in Ops,
         NEW t \in Nat, t <= now, NEW B \in SUBSET Ids, NEW key \in [Ids -> Int],
         StartBatch(p, op, t, Batch(B, key)),
         \A id \in B : /\ op = "activation" => Startable(id, t)
                       /\ op = "expiry" => Expiring(id, t)
                       /\ op = "review" => DueForAutoEnd(id, t)
  PROVE  IndInv'
  <1> DEFINE todo == Batch(B, key)
             c == BatchRecord(op, t, todo)
  <1>1. StoreStep /\ UpType'
    BY Unwritten, UpUnchanged
  <1>2. todo \in SUBSET Items
    BY BatchType DEF IndInv
  <1>3. CASE Finish(p)
    BY <1>1, <1>3, Finished
  <1>4. CASE proc' = [proc EXCEPT ![p] = c]
    <2>1. c.op = op /\ c.pc = "batch" /\ c.at = t /\ c.todo = todo
      BY <1>2, BatchRecordType
    <2> HIDE DEF c
    <2>2. proc'[p] = c
      BY <1>4 DEF IndInv, TypeOK
    <2>3. Listed(p)'
      <3> SUFFICES ASSUME NEW x \in todo
                   PROVE  /\ x.ver <= rows[x.id].ver
                          /\ Remembered(p, x)'
        BY <2>1, <2>2 DEF Listed
      <3>1. PICK id \in B : x = Item(id, key[id])
        BY DEF Batch
      <3>2. x.id = id /\ x.ver = rows[id].ver /\ rows[id].ver \in Nat
        BY <3>1 DEF Item, IndInv, TypeOK, Row
      <3> QED  BY <2>1, <2>2, <3>2 DEF Remembered, Startable, Expiring, DueForAutoEnd
    <2> HIDE DEF todo
    <2> QED  BY <1>1, <1>2, <1>4, <2>3, BatchGoesOn DEF c
  <1> QED  BY <1>3, <1>4, StartBatchCases

\* A job is done with a row, whatever came of it, and goes on.
LEMMA RowDone ==
  ASSUME IndInv, StoreStep, UpType', NEW p \in Procs, NEW id, NextRow(p, id),
         proc[p].pc \in {"batch", "commit"}, proc[p].op \in Ops
  PROVE  IndInv'
  <1> DEFINE op == proc[p].op
             t == proc[p].at
             todo == {x \in proc[p].todo : x.id # id}
             c == BatchRecord(op, t, todo)
  <1>1. t \in Nat /\ t <= now /\ todo \in SUBSET Items
    BY DEF IndInv, TypeOK, Process, InProgress
  <1>2. Finish(p) \/ proc' = [proc EXCEPT ![p] = c]
    BY StartBatchCases DEF NextRow
  <1>3. CASE proc' = [proc EXCEPT ![p] = c]
    <2>1. c \in Process /\ c.op = op /\ c.pc = "batch" /\ c.at = t /\ c.todo = todo
      BY <1>1, BatchRecordType
    <2> HIDE DEF c
    <2>2. proc'[p] = c
      BY <1>3 DEF IndInv, TypeOK
    <2>3. TypeOK'
      BY <1>3, <2>1 DEF IndInv, TypeOK, StoreStep, UpType
    <2>4. Listed(p) /\ RowsGrow
      BY DEF IndInv, ListedRowsHold, Listed, StoreStep
    <2>5. Listed(p)'
      BY <2>1, <2>2, <2>3, <2>4, ListedKept DEF IndInv
    <2> QED  BY <1>1, <1>3, <2>5, BatchGoesOn DEF c
  <1> QED  BY <1>2, <1>3, Finished

LEMMA AfterCallStep ==
  ASSUME IndInv, UNCHANGED <<rows, log, now>>, UpType', NEW p \in Procs,
         NEW x \in proc[p].todo, NEW outcome, AfterCall(p, x, outcome),
         proc[p].pc = "batch", proc[p].op \in Ops
  PROVE  IndInv'
  <1>1. StoreStep
    BY Unwritten
  <1>2. CASE outcome = "ok"
    <2> DEFINE c == [proc[p] EXCEPT !.pc = "commit", !.id = x.id, !.ver = x.ver]
    <2>1. proc[p] \in Process /\ x.id \in Ids /\ x.ver \in Nat
      BY DEF IndInv, TypeOK, Process, Items
    <2>2. /\ c \in Process /\ c.op = proc[p].op /\ c.pc = "commit" /\ c.id = x.id
          /\ c.ver = x.ver /\ c.at = proc[p].at /\ c.todo = proc[p].todo
          /\ c.locks = proc[p].locks
      BY <2>1 DEF Process, PCs
    <2>3. proc' = [proc EXCEPT ![p] = c] /\ proc'[p] = c
      BY <1>2 DEF AfterCall, IndInv, TypeOK
    <2> HIDE DEF c
    <2>4. c.locks = {}
      BY <2>1, <2>2 DEF IndInv, LockedRowsHold, Process
    <2>5. TypeOK'
      BY <1>1, <2>2, <2>3 DEF IndInv, TypeOK, StoreStep, UpType
    <2>6. Listed(p) /\ RowsGrow
      BY <1>1 DEF IndInv, ListedRowsHold, Listed, StoreStep
    <2>7. Listed(p)'
      BY <2>2, <2>3, <2>5, <2>6, ListedKept DEF IndInv
    <2>8. InProgress(p)'
      <3>1. proc[p].at <= now  BY DEF IndInv, InProgress
      <3> QED  BY <2>2, <2>3, <3>1 DEF InProgress
    <2> QED  BY <1>1, <2>2, <2>3, <2>4, <2>7, <2>8, ProcessStep
  <1>3. CASE outcome # "ok"
    BY <1>1, <1>3, RowDone DEF AfterCall
  <1> QED  BY <1>2, <1>3

LEMMA AttemptStep ==
  ASSUME IndInv, NEW p \in Procs, proc[p].op \in Ops, NEW matches \in BOOLEAN,
         NEW row, NEW event \in Event, Attempt(p, matches, row, event),
         matches => /\ row \in Row /\ row.ver > rows[proc[p].id].ver
                    /\ row.status # "absent"
  PROVE  IndInv'
  <1> DEFINE id == proc[p].id
  <1>1. id \in Ids
    BY DEF Attempt, IndInv, InProgress, TypeOK, Process, Items
  <1>2. UpType' /\ now' = now /\ ~Locked(id) /\ NextRow(p, id) /\ proc[p].pc = "commit"
    BY UpUnchanged DEF Attempt
  <1>3. StoreStep
    <2>1. CASE matches
      <3>1. PICK outcome \in TxOutcomes : Write(id, row, <<event>>, outcome)
        BY <2>1 DEF Attempt
      <3>2. <<event>> \in Seq(Event)  OBVIOUS
      <3> HIDE DEF id
      <3> QED  BY <1>1, <1>2, <2>1, <3>1, <3>2, Written DEF id
    <2>2. CASE ~matches
      BY <1>2, <2>2, Unwritten DEF Attempt
    <2> QED  BY <2>1, <2>2
  <1> QED  BY <1>2, <1>3, RowDone

\* An op named in a guard is one of Ops.
LEMMA OpInOps ==
  ASSUME IndInv, NEW p \in Procs, proc[p].op # "none"
  PROVE  proc[p].op \in Ops
  BY DEF IndInv, TypeOK, Process

LEMMA KeyTypes ==
  ASSUME IndInv
  PROVE  /\ [id \in Ids |-> rows[id].starts] \in [Ids -> Int]
         /\ [id \in Ids |-> rows[id].ends] \in [Ids -> Int]
         /\ [id \in Ids |-> rows[id].due] \in [Ids -> Int]
  BY DEF IndInv, TypeOK, Row

LEMMA ActivationListStep ==
  ASSUME IndInv, NEW p \in Procs, ActivationList(p)
  PROVE  IndInv'
  <1> DEFINE key == [id \in Ids |-> rows[id].starts]
  <1>1. PICK B \in Batches({id \in Ids : Startable(id, now)}, key) :
          StartBatch(p, "activation", now, Batch(B, key))
    BY DEF ActivationList
  <1>2. B \in SUBSET Ids /\ \A id \in B : Startable(id, now)
    BY DEF Batches
  <1>3. key \in [Ids -> Int] /\ now \in Nat /\ now <= now
    BY KeyTypes DEF IndInv, TypeOK
  <1>4. "activation" \in Ops /\ UNCHANGED <<rows, log, up, now>>
    BY DEF ActivationList, Begin
  <1> HIDE DEF key
  <1> QED  BY <1>1, <1>2, <1>3, <1>4, NewBatch

LEMMA ActivationSetAvailabilityStep ==
  ASSUME IndInv, NEW p \in Procs, ActivationSetAvailability(p)
  PROVE  IndInv'
  <1>1. PICK x \in proc[p].todo, outcome \in UpOutcomes :
          /\ SetAvailability(rows[x.id].delegator, rows[x.id].delegate, x.until, outcome)
          /\ AfterCall(p, x, outcome)
    BY DEF ActivationSetAvailability
  <1>2. rows[x.id] \in Row /\ x.until \in Int
    BY DEF IndInv, TypeOK, Process, Items
  <1>3. rows[x.id].delegate \in Users \cup {NoUser}
    BY <1>2 DEF Row
  <1>4. UpType'
    BY <1>1, <1>2, <1>3, AvailabilitySet
  <1>5. proc[p].op \in Ops
    BY OpInOps DEF ActivationSetAvailability
  <1> QED  BY <1>1, <1>4, <1>5, AfterCallStep DEF ActivationSetAvailability

\* The item a job is committing is one of its list, as it listed it.
LEMMA CommitItem ==
  ASSUME IndInv, NEW p \in Procs, proc[p].pc = "commit"
  PROVE  /\ proc[p].id \in Ids /\ rows[proc[p].id] \in Row
         /\ rows[proc[p].id].ver = proc[p].ver =>
              /\ proc[p].op = "activation" => Startable(proc[p].id, proc[p].at)
              /\ proc[p].op = "expiry" => Expiring(proc[p].id, proc[p].at)
              /\ proc[p].op = "review" => DueForAutoEnd(proc[p].id, proc[p].at)
  <1>1. PICK x \in proc[p].todo : x.id = proc[p].id /\ x.ver = proc[p].ver
    BY DEF IndInv, InProgress
  <1>2. x.id \in Ids /\ rows[x.id] \in Row
    BY DEF IndInv, TypeOK, Process, Items
  <1>3. x.ver = rows[x.id].ver => Remembered(p, x)
    BY DEF IndInv, ListedRowsHold
  <1> QED  BY <1>1, <1>2, <1>3 DEF Remembered

LEMMA ActivateScheduledStep ==
  ASSUME IndInv, NEW p \in Procs, ActivateScheduled(p)
  PROVE  IndInv'
  <1> DEFINE id == proc[p].id
             matches == ActivateMatches(id, proc[p].ver)
             row == ActivateRow(rows[id])
  <1>1. Attempt(p, matches, row, Started) /\ proc[p].op \in Ops
    BY OpInOps DEF ActivateScheduled
  <1>2. rows[id] \in Row
    BY <1>1, CommitItem DEF Attempt
  <1>3. row \in Row /\ row.ver > rows[id].ver
    BY <1>2, RowTypes, NewVersions
  <1>4. row.status # "absent"
    BY <1>2 DEF ActivateRow, Touched, Row
  <1>5. matches \in BOOLEAN
    BY DEF ActivateMatches
  <1> HIDE DEF matches, row
  <1> QED  BY <1>1, <1>3, <1>4, <1>5, EventTypes, AttemptStep

LEMMA ExpiryListStep ==
  ASSUME IndInv, NEW p \in Procs, ExpiryList(p)
  PROVE  IndInv'
  <1> DEFINE key == [id \in Ids |-> rows[id].ends]
  <1>1. PICK B \in Batches({id \in Ids : Expiring(id, now)}, key) :
          StartBatch(p, "expiry", now, Batch(B, key))
    BY DEF ExpiryList
  <1>2. B \in SUBSET Ids /\ \A id \in B : Expiring(id, now)
    BY DEF Batches
  <1>3. key \in [Ids -> Int] /\ now \in Nat /\ now <= now
    BY KeyTypes DEF IndInv, TypeOK
  <1>4. "expiry" \in Ops /\ UNCHANGED <<rows, log, up, now>>
    BY DEF ExpiryList, Begin
  <1> HIDE DEF key
  <1> QED  BY <1>1, <1>2, <1>3, <1>4, NewBatch

LEMMA ClearBeforeEndStep ==
  ASSUME IndInv, NEW p \in Procs, ClearBeforeEnd(p)
  PROVE  IndInv'
  <1>1. PICK x \in proc[p].todo, outcome \in UpOutcomes :
          /\ ClearDelegatePointer(rows[x.id].delegator, outcome)
          /\ AfterCall(p, x, outcome)
    BY DEF ClearBeforeEnd
  <1>2. UpType'
    BY <1>1, PointerCleared
  <1>3. proc[p].op \in Ops
    BY OpInOps DEF ClearBeforeEnd
  <1> QED  BY <1>1, <1>2, <1>3, AfterCallStep DEF ClearBeforeEnd

LEMMA EndByJobStep ==
  ASSUME IndInv, NEW p \in Procs, EndExpired(p) \/ EndReviewExpired(p)
  PROVE  IndInv'
  <1> DEFINE id == proc[p].id
             matches == EndMatches(id, proc[p].ver)
             row == EndRow(rows[id], "ended")
  <1>1. PICK reason \in EndReasons : Attempt(p, matches, row, Ended(reason))
    BY DEF EndExpired, EndReviewExpired, EndReasons
  <1>2. proc[p].op \in Ops
    BY OpInOps DEF EndExpired, EndReviewExpired
  <1>3. rows[id] \in Row
    BY <1>1, CommitItem DEF Attempt
  <1>4. row \in Row /\ row.ver > rows[id].ver
    BY <1>3, RowTypes, NewVersions DEF Statuses
  <1>5. row.status # "absent"
    BY <1>3 DEF EndRow, Touched, Row
  <1>6. matches \in BOOLEAN
    BY DEF EndMatches, Live
  <1> HIDE DEF matches, row
  <1> QED  BY <1>1, <1>2, <1>4, <1>5, <1>6, EventTypes, AttemptStep

LEMMA ReviewStartStep ==
  ASSUME IndInv, NEW p \in Procs, ReviewStart(p)
  PROVE  IndInv'
  <1> DEFINE c == [proc[p] EXCEPT !.op = "review", !.pc = "sweep", !.at = now]
  <1>1. proc[p] \in Process /\ proc[p].todo = {} /\ proc[p].locks = {}
    BY Ready DEF ReviewStart, Begin, IsIdle
  <1>2. now \in Nat /\ now' = now /\ now <= now /\ "review" \in Ops
    BY DEF IndInv, TypeOK, ReviewStart, Begin
  <1>3. /\ c \in Process /\ c.todo = {} /\ c.locks = {} /\ c.op = "review"
        /\ c.pc = "sweep" /\ c.at = now
    BY <1>1, <1>2 DEF Process, PCs
  <1>4. proc' = [proc EXCEPT ![p] = c] /\ proc'[p] = c
    BY DEF ReviewStart, IndInv, TypeOK
  <1> HIDE DEF c
  <1>5. InProgress(p)'
    BY <1>2, <1>3, <1>4 DEF InProgress
  <1> QED  BY <1>3, <1>4, <1>5, ServiceProcess, Unwritten, UpUnchanged DEF ReviewStart

LEMMA ReviewWarnListStep ==
  ASSUME IndInv, NEW p \in Procs, ReviewWarnList(p)
  PROVE  IndInv'
  <1> DEFINE key == [id \in Ids |-> rows[id].due]
  <1>1. PICK B \in Batches({id \in Ids : DueForWarn(id, proc[p].at)}, key) :
          proc' = [proc EXCEPT ![p].pc = "warn", ![p].todo = Batch(B, key)]
    BY DEF ReviewWarnList
  <1>2. B \in SUBSET Ids /\ \A id \in B : DueForWarn(id, proc[p].at)
    BY DEF Batches
  <1>3. key \in [Ids -> Int]
    BY KeyTypes
  <1> HIDE DEF key
  <1> DEFINE todo == Batch(B, key)
             c == [proc[p] EXCEPT !.pc = "warn", !.todo = todo]
  <1>4. todo \in SUBSET Items
    BY <1>2, <1>3, BatchType DEF IndInv
  <1>5. /\ proc[p] \in Process /\ proc[p].locks = {} /\ proc[p].op = "review"
        /\ proc[p].at <= now /\ now' = now
    BY Ready DEF ReviewWarnList, IndInv, InProgress
  <1>6. /\ c \in Process /\ c.op = "review" /\ c.pc = "warn" /\ c.todo = todo
        /\ c.at = proc[p].at /\ c.locks = {}
    <2> HIDE DEF todo
    <2> QED  BY <1>4, <1>5 DEF Process, PCs
  <1>7. proc' = [proc EXCEPT ![p] = c] /\ proc'[p] = c
    BY <1>1 DEF IndInv, TypeOK
  <1> HIDE DEF c
  <1>8. Listed(p)'
    <2> SUFFICES ASSUME NEW x \in todo
                 PROVE  x.ver <= rows[x.id].ver /\ Remembered(p, x)'
      BY <1>6, <1>7 DEF Listed, ReviewWarnList
    <2>1. PICK id \in B : x = Item(id, key[id])
      BY DEF Batch
    <2>2. x.id = id /\ x.ver = rows[id].ver /\ rows[id].ver \in Nat
      BY <1>2, <2>1 DEF Item, IndInv, TypeOK, Row
    <2>3. DueForWarn(x.id, proc[p].at) /\ rows' = rows
      BY <1>2, <2>2 DEF ReviewWarnList
    <2>4. DueForWarn(x.id, proc[p].at)'
      BY <1>6, <1>7, <2>3 DEF DueForWarn
    <2> QED  BY <1>6, <1>7, <2>2, <2>4 DEF Remembered
  <1>9. InProgress(p)'
    BY <1>5, <1>6, <1>7 DEF InProgress
  <1>10. StoreStep /\ UpType'
    BY Unwritten, UpUnchanged DEF ReviewWarnList
  <1> QED  BY <1>6, <1>7, <1>8, <1>9, <1>10, ProcessStep

\* The bucket a matching row is warned with is 1, 2 or 3.
LEMMA WarnDays ==
  ASSUME IndInv, NEW p \in Procs, proc[p].pc = "warn", NEW x \in proc[p].todo,
         WarnMatches(x.id, x.ver)
  PROVE  rows[x.id].due - proc[p].at \in 1..3
  <1>1. x.id \in Ids /\ rows[x.id].due \in Int /\ proc[p].at \in Int
    BY DEF IndInv, TypeOK, Process, Items, Row
  <1>2. DueForWarn(x.id, proc[p].at)
    BY DEF IndInv, ListedRowsHold, Remembered, InProgress, WarnMatches
  <1> QED  BY <1>1, <1>2 DEF DueForWarn

LEMMA ReviewWarnStep ==
  ASSUME IndInv, NEW p \in Procs, ReviewWarn(p)
  PROVE  IndInv'
  <1>1. PICK x \in proc[p].todo :
          LET r == rows[x.id]
              days == r.due - proc[p].at
              warn == WarnMatches(x.id, x.ver) /\ r.bucket # days
          IN  /\ ~Locked(x.id)
              /\ \/ /\ warn
                    /\ \E outcome \in TxOutcomes :
                         Write(x.id, WarnRow(r, days), <<ReviewRequested(days)>>, outcome)
                 \/ ~warn /\ UNCHANGED <<rows, log>>
              /\ proc' = [proc EXCEPT ![p].todo = @ \ {x}]
    BY DEF ReviewWarn
  <1> DEFINE r == rows[x.id]
             days == r.due - proc[p].at
             warn == WarnMatches(x.id, x.ver) /\ r.bucket # days
             c == [proc[p] EXCEPT !.todo = @ \ {x}]
  <1>2. /\ proc[p] \in Process /\ x.id \in Ids /\ r \in Row /\ proc[p].pc = "warn"
        /\ now' = now
    BY DEF IndInv, TypeOK, Process, Items, ReviewWarn
  <1>3. StoreStep
    <2>1. CASE warn
      <3>1. PICK outcome \in TxOutcomes :
              Write(x.id, WarnRow(r, days), <<ReviewRequested(days)>>, outcome)
        BY <1>1, <2>1
      <3>2. days \in 1..3
        BY <1>2, <2>1, WarnDays
      <3> HIDE DEF days
      <3>3. /\ WarnRow(r, days) \in Row /\ WarnRow(r, days).ver > r.ver
            /\ <<ReviewRequested(days)>> \in Seq(Event)
        <4>1. WarnRow(r, days) \in Row  BY <1>2, <3>2, RowTypes
        <4>2. WarnRow(r, days).ver > r.ver  BY <1>2, <3>2, NewVersions
        <4>3. ReviewRequested(days) \in Event  BY <3>2, EventTypes
        <4> HIDE DEF r
        <4> QED  BY <4>1, <4>2, <4>3
      <3>4. WarnRow(r, days).status # "absent"
        BY <1>2, <2>1 DEF WarnRow, Touched, Row, WarnMatches
      <3>5. ~Locked(x.id)
        BY <1>1
      <3> DEFINE row == WarnRow(r, days)
                 events == <<ReviewRequested(days)>>
      <3>6. /\ row \in Row /\ row.ver > rows[x.id].ver /\ row.status # "absent"
            /\ events \in Seq(Event) /\ Write(x.id, row, events, outcome)
        BY <3>1, <3>3, <3>4
      <3> HIDE DEF row, events, r
      <3> QED  BY <1>2, <3>5, <3>6, Written
    <2>2. CASE ~warn
      BY <1>1, <1>2, <2>2, Unwritten
    <2> QED  BY <2>1, <2>2
  <1>4. UpType'
    BY UpUnchanged DEF ReviewWarn
  <1>5. /\ c \in Process /\ c.op = proc[p].op /\ c.pc = "warn" /\ c.at = proc[p].at
        /\ c.todo \subseteq proc[p].todo /\ c.locks = proc[p].locks
    BY <1>2 DEF Process
  <1>6. proc' = [proc EXCEPT ![p] = c] /\ proc'[p] = c
    BY <1>1 DEF IndInv, TypeOK
  <1> HIDE DEF c
  <1>7. TypeOK'
    BY <1>3, <1>4, <1>5, <1>6 DEF IndInv, TypeOK, StoreStep, UpType
  <1>8. Listed(p) /\ RowsGrow
    BY <1>3 DEF IndInv, ListedRowsHold, Listed, StoreStep
  <1>9. Listed(p)'
    BY <1>2, <1>5, <1>6, <1>7, <1>8, ListedKept DEF IndInv
  <1>10. InProgress(p)' /\ c.locks = {}
    <2>1. proc[p].at <= now /\ proc[p].op = "review"
      BY <1>2 DEF IndInv, InProgress
    <2>2. proc[p].locks = {}
      BY <1>2 DEF IndInv, LockedRowsHold, Process
    <2> QED  BY <1>2, <1>5, <1>6, <2>1, <2>2 DEF InProgress
  <1> QED  BY <1>3, <1>4, <1>5, <1>6, <1>9, <1>10, ProcessStep

LEMMA ReviewEndListStep ==
  ASSUME IndInv, NEW p \in Procs, ReviewEndList(p)
  PROVE  IndInv'
  <1> DEFINE key == [id \in Ids |-> rows[id].due]
             t == proc[p].at
  <1>1. PICK B \in Batches({id \in Ids : DueForAutoEnd(id, t)}, key) :
          StartBatch(p, "review", t, Batch(B, key))
    BY DEF ReviewEndList
  <1>2. B \in SUBSET Ids /\ \A id \in B : DueForAutoEnd(id, t)
    BY DEF Batches
  <1>3. key \in [Ids -> Int] /\ t \in Nat /\ t <= now
    BY KeyTypes DEF IndInv, TypeOK, Process, InProgress
  <1>4. "review" \in Ops /\ UNCHANGED <<rows, log, up, now>>
    <2>1. proc[p].op = "review"
      BY DEF ReviewEndList, IndInv, InProgress
    <2> QED  BY <2>1, OpInOps DEF ReviewEndList
  <1> HIDE DEF key, t
  <1> QED  BY <1>1, <1>2, <1>3, <1>4, NewBatch

LEMMA JobSteps ==
  ASSUME IndInv, NEW p \in Procs, JobStep(p)
  PROVE  IndInv'
  BY ActivationListStep, ActivationSetAvailabilityStep, ActivateScheduledStep,
     ExpiryListStep, ClearBeforeEndStep, EndByJobStep, ReviewStartStep,
     ReviewWarnListStep, ReviewWarnStep, ReviewEndListStep DEF JobStep

(***************************************************************************)
(* CascadeService                                                          *)
(***************************************************************************)
\* A bulk UPDATE of rows nobody has locked.
LEMMA BulkWritten ==
  ASSUME IndInv, NEW hit \in SUBSET Ids, NEW new \in [Ids -> Row],
         rows' = [id \in Ids |-> IF id \in hit THEN new[id] ELSE rows[id]],
         \A id \in hit : new[id].ver > rows[id].ver /\ new[id].status # "absent"
  PROVE  rows' \in [Ids -> Row] /\ RowsGrow /\ UnusedIds'
  <1>1. rows' \in [Ids -> Row]
    BY DEF IndInv, TypeOK
  <1>2. RowsGrow
    BY DEF RowsGrow
  <1>3. UnusedIds'
    BY DEF UnusedIds, Stored, IndInv
  <1> QED  BY <1>1, <1>2, <1>3

\* Steps that change neither the processes nor User Profile.
LEMMA ProcsUntouched ==
  ASSUME IndInv, StoreStep, UNCHANGED <<up, proc>>, NEW p \in Procs
  PROVE  IndInv'
  <1>1. TypeOK' /\ UpType'
    BY UpUnchanged DEF IndInv, TypeOK, StoreStep
  <1>2. proc' = [proc EXCEPT ![p] = proc[p]] /\ proc[p] \in Process
    BY DEF IndInv, TypeOK
  <1>3. Listed(p) /\ InProgress(p) /\ RowsGrow
    BY DEF IndInv, ListedRowsHold, Listed, StoreStep
  <1>4. Listed(p)'
    BY <1>1, <1>3, ListedKept DEF IndInv
  <1>5. InProgress(p)'
    BY <1>3, InProgressKept DEF IndInv, TypeOK, StoreStep
  <1>6. proc[p].locks = {} \/ proc[p].pc = "cascade"
    BY <1>2 DEF IndInv, LockedRowsHold, Process
  <1> QED  BY <1>1, <1>2, <1>4, <1>5, <1>6, ProcessStep

LEMMA EndForUserUpdateStep ==
  ASSUME IndInv, NEW p \in Procs, EndForUserUpdate(p)
  PROVE  IndInv'
  <1>1. PICK u \in Users :
          /\ ~Blocked(RowsOf(u))
          /\ proc' = [proc EXCEPT ![p].op = "revoked", ![p].pc = "cascade", ![p].user = u,
                        ![p].locks = RowsOf(u),
                        ![p].todo = Batch(PointersTo(u), [i \in Ids |-> 0])]
    BY DEF EndForUserUpdate
  <1> DEFINE todo == Batch(PointersTo(u), [i \in Ids |-> 0])
             c == [proc[p] EXCEPT !.op = "revoked", !.pc = "cascade", !.user = u,
                                  !.locks = RowsOf(u), !.todo = todo]
  <1>2. todo \in SUBSET Items
    <2>1. PointersTo(u) \in SUBSET Ids /\ [i \in Ids |-> 0] \in [Ids -> Int]
      BY DEF PointersTo, RowsOf
    <2> QED  BY <2>1, BatchType DEF IndInv
  <1>3. RowsOf(u) \in SUBSET Ids /\ proc[p] \in Process /\ "revoked" \in Ops
    BY Ready DEF RowsOf, EndForUserUpdate, IsIdle
  <1>4. \A x \in todo : x.ver <= rows[x.id].ver
    <2> SUFFICES ASSUME NEW i \in PointersTo(u), NEW x, x = Item(i, 0)
                 PROVE  x.ver <= rows[x.id].ver
      BY DEF Batch, PointersTo, RowsOf
    <2>1. i \in Ids /\ rows[i].ver \in Nat
      BY DEF PointersTo, RowsOf, IndInv, TypeOK, Row
    <2> QED  BY <2>1 DEF Item
  <1> HIDE DEF todo
  <1>5. /\ c \in Process /\ c.op = "revoked" /\ c.pc = "cascade" /\ c.user = u
        /\ c.locks = RowsOf(u) /\ c.todo = todo /\ c.at = proc[p].at
    BY <1>2, <1>3 DEF Process, PCs
  <1>6. proc' = [proc EXCEPT ![p] = c] /\ proc'[p] = c
    BY <1>1 DEF todo, IndInv, TypeOK
  <1> HIDE DEF c
  <1>7. StoreStep /\ UNCHANGED <<rows, log, up, now>>
    BY Unwritten DEF EndForUserUpdate
  <1>8. TypeOK' /\ OnlyProc(p)
    BY <1>5, <1>6, <1>7 DEF IndInv, TypeOK, OnlyProc
  <1>9. LocksKept(p)
    <2> SUFFICES ASSUME NEW id \in RowsOf(u)
                 PROVE  /\ EndForUserMatches(id, proc[p].user)'
                        /\ \A q \in Procs \ {p} : id \notin proc[q].locks
      BY <1>5, <1>6, <1>7 DEF LocksKept
    <2>1. EndForUserMatches(id, u)
      BY DEF RowsOf
    <2>2. EndForUserMatches(id, proc[p].user)'
      BY <1>5, <1>6, <1>7, <2>1 DEF EndForUserMatches, Live
    <2> QED  BY <1>1, <2>2 DEF Blocked, Locked
  <1>10. Listed(p)'
    BY <1>4, <1>5, <1>6, <1>7 DEF Listed, Remembered
  <1>11. InProgress(p)'
    <2>1. proc[p].at <= now  BY DEF IndInv, InProgress
    <2> QED  BY <1>5, <1>6, <1>7, <2>1 DEF InProgress
  <1> QED  BY <1>7, <1>8, <1>9, <1>10, <1>11, Preserve DEF StoreStep

LEMMA EndForUserClearStep ==
  ASSUME IndInv, NEW p \in Procs, EndForUserClear(p)
  PROVE  IndInv'
  <1>1. PICK x \in proc[p].todo, outcome \in UpOutcomes :
          /\ ClearDelegatePointer(rows[x.id].delegator, outcome)
          /\ proc' = [proc EXCEPT ![p].todo = @ \ {x}]
    BY DEF EndForUserClear
  <1> DEFINE c == [proc[p] EXCEPT !.todo = @ \ {x}]
  <1>2. proc[p] \in Process /\ proc[p].pc = "cascade" /\ now' = now
    BY DEF EndForUserClear, IndInv, TypeOK
  <1>3. StoreStep /\ UpType'
    BY <1>1, Unwritten, PointerCleared DEF EndForUserClear
  <1>4. /\ c \in Process /\ c.op = proc[p].op /\ c.pc = "cascade" /\ c.at = proc[p].at
        /\ c.user = proc[p].user /\ c.locks = proc[p].locks
        /\ c.todo \subseteq proc[p].todo
    BY <1>2 DEF Process
  <1>5. proc' = [proc EXCEPT ![p] = c] /\ proc'[p] = c
    BY <1>1 DEF IndInv, TypeOK
  <1> HIDE DEF c
  <1>6. TypeOK'
    BY <1>3, <1>4, <1>5 DEF IndInv, TypeOK, StoreStep, UpType
  <1>7. Listed(p) /\ RowsGrow
    BY <1>3 DEF IndInv, ListedRowsHold, Listed, StoreStep
  <1>8. Listed(p)'
    BY <1>2, <1>4, <1>5, <1>6, <1>7, ListedKept DEF IndInv
  <1>9. InProgress(p)'
    <2>1. proc[p].at <= now /\ proc[p].op = "revoked"
      BY <1>2 DEF IndInv, InProgress
    <2> QED  BY <1>2, <1>4, <1>5, <2>1 DEF InProgress
  <1> QED  BY <1>3, <1>4, <1>5, <1>8, <1>9, ProcessStep

LEMMA EndForUserCommitStep ==
  ASSUME IndInv, NEW p \in Procs, EndForUserCommit(p)
  PROVE  IndInv'
  <1>1. UpType' /\ now' = now /\ Finish(p)
    BY UpUnchanged DEF EndForUserCommit
  <1>2. CASE UNCHANGED <<rows, log>>
    BY <1>1, <1>2, Unwritten, Finished
  <1>3. CASE /\ rows' = [id \in Ids |-> IF id \in proc[p].locks
                                        THEN EndForUserRow(rows[id]) ELSE rows[id]]
             /\ log' = [id \in Ids |->
                          IF id \in proc[p].locks /\ rows[id].delegate = proc[p].user
                          THEN log[id] \o <<Ended("delegate_removed")>> ELSE log[id]]
    <2> DEFINE hit == proc[p].locks
               new == [id \in Ids |-> EndForUserRow(rows[id])]
    <2>1. hit \in SUBSET Ids
      BY DEF IndInv, TypeOK, Process
    <2>2. \A id \in Ids : rows[id] \in Row /\ EndForUserRow(rows[id]) \in Row
                         /\ EndForUserRow(rows[id]).ver > rows[id].ver
      BY RowTypes, NewVersions DEF IndInv, TypeOK
    <2>3. \A id \in Ids : EndForUserRow(rows[id]).status # "absent"
      BY <2>2 DEF EndForUserRow, Touched, Row
    <2>4. new \in [Ids -> Row]
      BY <2>2
    <2>5. rows' = [id \in Ids |-> IF id \in hit THEN new[id] ELSE rows[id]]
      BY <1>3
    <2>6. \A id \in hit : new[id].ver > rows[id].ver /\ new[id].status # "absent"
      BY <2>1, <2>2, <2>3
    <2>7. rows' \in [Ids -> Row] /\ RowsGrow /\ UnusedIds'
      <3> HIDE DEF hit, new
      <3> QED  BY <2>1, <2>4, <2>5, <2>6, BulkWritten
    <2>8. log' \in [Ids -> Seq(Event)]
      <3>1. <<Ended("delegate_removed")>> \in Seq(Event)
        BY EventTypes DEF EndReasons
      <3>2. \A id \in Ids : log[id] \in Seq(Event)
                           /\ log[id] \o <<Ended("delegate_removed")>> \in Seq(Event)
        BY <3>1 DEF IndInv, TypeOK
      <3> QED  BY <1>3, <3>2
    <2>9. proc' = [proc EXCEPT ![p] = Idle] /\ proc'[p] = Idle
      BY <1>1 DEF Finish, IndInv, TypeOK
    <2>10. TypeOK' /\ OnlyProc(p)
      BY <1>1, <2>7, <2>8, <2>9, IdleType DEF IndInv, TypeOK, UpType, OnlyProc
    <2>11. LocksKept(p)
      <3>1. \A q \in Procs \ {p} : \A id \in proc[q].locks : id \in Ids /\ id \notin hit
        BY DEF IndInv, TypeOK, Process, LockedRowsHold
      <3>2. Idle.locks = {}
        BY DEF Idle
      <3> QED  BY <1>3, <2>9, <3>1, <3>2 DEF LocksKept
    <2>12. Listed(p)' /\ InProgress(p)'
      BY <1>1, <2>9 DEF Listed, InProgress, Idle, IndInv, TypeOK
    <2> QED  BY <1>1, <2>7, <2>10, <2>11, <2>12, Preserve
  <1> QED  BY <1>2, <1>3 DEF EndForUserCommit

LEMMA EndForDisabledDelegateStep ==
  ASSUME IndInv, NEW p \in Procs, EndForDisabledDelegate(p)
  PROVE  IndInv'
  <1>1. PICK u \in Users :
          LET hit == {id \in Ids : DisabledMatches(id, u)}
          IN  /\ ~Blocked(hit)
              /\ rows' = [id \in Ids |-> IF id \in hit THEN EndRow(rows[id], "ended")
                                                      ELSE rows[id]]
              /\ log' = [id \in Ids |->
                           IF id \in hit
                           THEN log[id] \o <<Ended("delegate_disabled"), Escalation>>
                           ELSE log[id]]
    BY DEF EndForDisabledDelegate
  <1> DEFINE hit == {id \in Ids : DisabledMatches(id, u)}
             new == [id \in Ids |-> EndRow(rows[id], "ended")]
  <1>2. \A id \in Ids : rows[id] \in Row /\ EndRow(rows[id], "ended") \in Row
                       /\ EndRow(rows[id], "ended").ver > rows[id].ver
    BY RowTypes, NewVersions DEF IndInv, TypeOK, Statuses
  <1>3. \A id \in Ids : EndRow(rows[id], "ended").status # "absent"
    BY <1>2 DEF EndRow, Touched, Row
  <1>4. new \in [Ids -> Row] /\ hit \in SUBSET Ids
    BY <1>2
  <1>5. rows' = [id \in Ids |-> IF id \in hit THEN new[id] ELSE rows[id]]
    BY <1>1
  <1>6. \A id \in hit : new[id].ver > rows[id].ver /\ new[id].status # "absent"
    BY <1>2, <1>3
  <1>7. rows' \in [Ids -> Row] /\ RowsGrow /\ UnusedIds'
    <2> HIDE DEF hit, new
    <2> QED  BY <1>4, <1>5, <1>6, BulkWritten
  <1>8. log' \in [Ids -> Seq(Event)]
    <2>1. <<Ended("delegate_disabled"), Escalation>> \in Seq(Event)
      BY EventTypes DEF EndReasons
    <2>2. \A id \in Ids :
            /\ log[id] \in Seq(Event)
            /\ log[id] \o <<Ended("delegate_disabled"), Escalation>> \in Seq(Event)
      BY <2>1 DEF IndInv, TypeOK
    <2> QED  BY <1>1, <2>2
  <1>9. \A id \in Ids : Locked(id) => rows'[id] = rows[id]
    <2>1. ~Blocked(hit)  BY <1>1
    <2> QED  BY <1>5, <2>1 DEF Blocked
  <1>10. StoreStep /\ UNCHANGED <<up, proc>>
    BY <1>7, <1>8, <1>9 DEF StoreStep, EndForDisabledDelegate
  <1> QED  BY <1>10, ProcsUntouched

LEMMA ScrubTenantStep ==
  ASSUME IndInv, NEW p \in Procs, ScrubTenant(p)
  PROVE  IndInv'
  <1> DEFINE hit == {id \in Ids : Findable(id)}
             new == [id \in Ids |-> SoftDeletedRow(rows[id])]
  <1>1. /\ ~Blocked(hit)
        /\ rows' = [id \in Ids |-> IF id \in hit THEN SoftDeletedRow(rows[id]) ELSE rows[id]]
    BY DEF ScrubTenant
  <1>2. \A id \in Ids : rows[id] \in Row /\ SoftDeletedRow(rows[id]) \in Row
                       /\ SoftDeletedRow(rows[id]).ver > rows[id].ver
    BY RowTypes, NewVersions DEF IndInv, TypeOK
  <1>3. \A id \in hit : SoftDeletedRow(rows[id]).status # "absent"
    BY <1>2 DEF SoftDeletedRow, Touched, Row, Findable, Stored
  <1>4. new \in [Ids -> Row] /\ hit \in SUBSET Ids
    BY <1>2
  <1>5. rows' = [id \in Ids |-> IF id \in hit THEN new[id] ELSE rows[id]]
    BY <1>1
  <1>6. \A id \in hit : new[id].ver > rows[id].ver /\ new[id].status # "absent"
    BY <1>2, <1>3
  <1>7. rows' \in [Ids -> Row] /\ RowsGrow /\ UnusedIds'
    <2> HIDE DEF hit, new
    <2> QED  BY <1>4, <1>5, <1>6, BulkWritten
  <1>8. \A id \in Ids : Locked(id) => rows'[id] = rows[id]
    BY <1>1, <1>5 DEF Blocked
  <1>9. StoreStep /\ UNCHANGED <<up, proc>>
    BY <1>7, <1>8 DEF StoreStep, ScrubTenant, IndInv, TypeOK
  <1> QED  BY <1>9, ProcsUntouched

LEMMA CascadeSteps ==
  ASSUME IndInv, NEW p \in Procs, CascadeStep(p)
  PROVE  IndInv'
  BY EndForUserUpdateStep, EndForUserClearStep, EndForUserCommitStep,
     EndForDisabledDelegateStep, ScrubTenantStep DEF CascadeStep

(***************************************************************************)
(* Crashes, User Profile's sweep and the clock; the invariant.             *)
(***************************************************************************)
LEMMA EnvironmentSteps ==
  ASSUME IndInv, UNCHANGED <<rows, log, proc>>, UpType', now' \in Nat, now <= now'
  PROVE  IndInv'
  <1>1. TypeOK'
    BY DEF IndInv, TypeOK, UpType
  <1>2. ListedRowsHold' /\ LockedRowsHold' /\ UnusedIds'
    BY DEF IndInv, ListedRowsHold, LockedRowsHold, UnusedIds, Remembered, Startable,
           Expiring, DueForWarn, DueForAutoEnd, EndForUserMatches, Live, Stored
  <1>3. \A p \in Procs : InProgress(p)'
    BY InProgressKept DEF IndInv
  <1> QED  BY <1>1, <1>2, <1>3 DEF IndInv

LEMMA CrashStep ==
  ASSUME IndInv, NEW p \in Procs, Crash(p)
  PROVE  IndInv'
  BY Unwritten, UpUnchanged, Finished DEF Crash

LEMMA SweepStep ==
  ASSUME IndInv, NEW u \in Users, UserProfileSweep(u)
  PROVE  IndInv'
  <1>1. UpType'
    BY DEF UserProfileSweep, Available, Null, UpType, IndInv, TypeOK
  <1> QED  BY <1>1, EnvironmentSteps DEF UserProfileSweep, IndInv, TypeOK

LEMMA TickStep ==
  ASSUME IndInv, Tick
  PROVE  IndInv'
  <1>1. now' \in Nat /\ now <= now' /\ UpType'
    BY UpUnchanged DEF Tick, IndInv, TypeOK
  <1> QED  BY <1>1, EnvironmentSteps DEF Tick

LEMMA InitInv == Init => IndInv
  <1> SUFFICES ASSUME Init PROVE IndInv
    OBVIOUS
  <1> USE DEF Init, StoreInit
  <1>1. TypeOK
    <2>1. rows \in [Ids -> Row] /\ proc \in [Procs -> Process]
      BY RowTypes, IdleType
    <2>2. up \in [Users -> [to : Users \cup {NoUser}, until : Int]]
      BY DEF Available, Null
    <2>3. log \in [Ids -> Seq(Event)] /\ now \in Nat
      OBVIOUS
    <2> QED  BY <2>1, <2>2, <2>3 DEF TypeOK
  <1>2. ListedRowsHold /\ LockedRowsHold
    BY DEF ListedRowsHold, LockedRowsHold, Idle
  <1>3. UnusedIds
    BY DEF UnusedIds
  <1>4. \A p \in Procs : InProgress(p)
    BY DEF InProgress, Idle
  <1> QED  BY <1>1, <1>2, <1>3, <1>4 DEF IndInv

LEMMA NextInv == IndInv /\ [Next]_vars => IndInv'
  <1> SUFFICES ASSUME IndInv, [Next]_vars PROVE IndInv'
    OBVIOUS
  <1>1. CASE \E p \in Requests : ServiceStep(p)
    BY <1>1, ServiceSteps DEF Procs
  <1>2. CASE \E p \in Crons : JobStep(p)
    BY <1>2, JobSteps DEF Procs
  <1>3. CASE \E p \in Consumers : CascadeStep(p)
    BY <1>3, CascadeSteps DEF Procs
  <1>4. CASE \E p \in Procs : Crash(p)
    BY <1>4, CrashStep
  <1>5. CASE \E u \in Users : UserProfileSweep(u)
    BY <1>5, SweepStep
  <1>6. CASE Tick
    BY <1>6, TickStep
  <1>7. CASE UNCHANGED vars
    <2>1. now' \in Nat /\ now <= now' /\ UpType'
      BY <1>7, UpUnchanged DEF vars, IndInv, TypeOK
    <2> QED  BY <1>7, <2>1, EnvironmentSteps DEF vars
  <1> QED  BY <1>1, <1>2, <1>3, <1>4, <1>5, <1>6, <1>7 DEF Next

\* IndInv holds in every reachable state: record_version protects what every
\* process remembers, row locks protect an open cascade, and every variable is
\* well typed (a reminder's bucket is 1, 2 or 3 because of the former).
THEOREM Invariance == Spec => []IndInv
  BY InitInv, NextInv, PTL DEF Spec

\* The tables, the outbox, User Profile's records and the processes keep their
\* types for every choice of the constants.
THEOREM TypeCorrect == Spec => []TypeOK
  <1>1. IndInv => TypeOK
    BY DEF IndInv
  <1> QED  BY <1>1, Invariance, PTL

\* An UPDATE under a listed record_version acts on the row the job's query selected,
\* for any number of delegations, jobs and requests.
THEOREM ListingsHold == Spec => []ListedRowsHold
  <1>1. IndInv => ListedRowsHold
    BY DEF IndInv
  <1> QED  BY <1>1, Invariance, PTL
=============================================================================
