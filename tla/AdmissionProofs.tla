--------------------------- MODULE AdmissionProofs ---------------------------
(***************************************************************************)
(* The safety invariants of Admission, for any requests, bodies, policies, *)
(* bounds and faults.  What a create may rely on at its INSERT is          *)
(* collected check by check as it passes through them (InProgress).        *)
(***************************************************************************)
EXTENDS Admission, TLAPS

SettingsType == [max : PolicyDaysMin .. PolicyDaysMax, review : PolicyDaysMin .. PolicyDaysMax,
                 ver : 0 .. MaxSettings]

RowType == [st : {"none", "scheduled", "active", "deleted"}, open : BOOLEAN, span : Nat,
            review : Nat, ver : Nat]

Raw == {"none", "network", "4xx", "fault", "404", "active", "inactive", "available",
        "ooo_before_start", "ooo_past_start", "ooo_no_end", "2xx"}

CreateSteps == {"catalog", "policy", "members", "availability", "ooo", "insert"}

ReqType == [pc : CreateSteps \cup {"idle", "extend", "resync"}, in : Inputs \cup {Omitted},
            pol : SettingsType, heard : [Deps -> Raw], id : Ids \cup {Omitted},
            days : Int \cup {Omitted}, ver : Nat, span : Nat]

PolicyOf(s) == [max |-> s.max, review |-> s.review]

\* What the checks that q has passed are worth, with the policies h in force since
\* it began.
InProgress(q, h) ==
  /\ q.pc = "idle" => q = Idle /\ h = {}
  /\ q.pc \in CreateSteps => q.in \in Inputs /\ ValidateCreateInput(q.in)
  /\ q.pc \in CreateSteps \ {"catalog"} =>
       (q.in.scope = "department" /\ CatalogConfigured => q.heard["catalog"] = "active")
  /\ q.pc \in {"members", "availability", "ooo", "insert"} =>
       TimesValid(q.in) /\ SpanAllowed(q.in, PolicyOf(q.pol)) /\ PolicyOf(q.pol) \in h
  /\ q.pc \in {"availability", "ooo", "insert"} =>
       q.heard["delegator"] = "active" /\ q.heard["delegate"] = "active"
  /\ q.pc \in {"ooo", "insert"} =>
       \/ q.heard["availability"] \in {"available", "404"}
       \/ q.heard["availability"] \in {"ooo_before_start", "ooo_no_end"} /\ IsScheduled(q.in)
  /\ q.pc = "ooo" => ~ IsScheduled(q.in)
  /\ q.pc = "insert" /\ ~ IsScheduled(q.in) => q.heard["ooo"] = "2xx"
  /\ q.pc = "extend" => q.id \in Ids /\ (q.days # Omitted => InRange(q.days))
  /\ q.pc = "resync" => q.id \in Ids

StateOK ==
  /\ settings \in SettingsType /\ epoch \in 0 .. MaxEpoch /\ hung \subseteq Deps
  /\ rows \in [Ids -> RowType] /\ req \in [Requests -> ReqType]
  /\ seen \in [Requests -> SUBSET Policies]

RowsOK ==
  \A i \in Ids : /\ rows[i].st # "none" => InRange(rows[i].review)
                 /\ rows[i].st = "scheduled" => rows[i].span <= UpCap * Day

RequestsOK ==
  \A r \in Requests :
    /\ InProgress(req[r], seen[r])
    /\ req[r].pc # "idle" => Policy \in seen[r]
    /\ req[r].pc \in {"extend", "resync"} => rows[req[r].id].st # "none"

ShownOK ==
  \A s \in shown : /\ s \in SettingsType /\ s.ver <= settings.ver
                   /\ s.ver = settings.ver => s = settings

AdmissionInv == StateOK /\ RowsOK /\ RequestsOK /\ ShownOK /\ VersionNamesPolicy /\ WindowAccepted

-----------------------------------------------------------------------------
(***************************************************************************)
(* Days and ticks.                                                         *)
(***************************************************************************)
LEMMA DaysInTicks ==
  ASSUME NEW a \in Nat, NEW b \in Nat, a <= b
  PROVE  a * Day \in Nat /\ b * Day \in Nat /\ a * Day <= b * Day /\ (a > 0 => a * Day > 0)
  BY PolicyAssumption

LEMMA InRangeBounds ==
  ASSUME NEW n, InRange(n)
  PROVE  n \in Nat /\ n > 0 /\ n <= UpCap /\ n * Day \in Nat /\ n * Day > 0 /\ n * Day <= UpCap * Day
  <1>1. n \in Nat /\ n > 0 /\ n <= UpCap
    BY PolicyAssumption DEF InRange
  <1> QED  BY <1>1, DaysInTicks, PolicyAssumption

\* A create that passed its checks asks for a positive span of at most UpCap days.
LEMMA SpanBounds ==
  ASSUME NEW in \in Inputs, NEW pol, InRange(pol.max), InRange(pol.review),
         TimesValid(in), SpanAllowed(in, pol)
  PROVE  /\ Span(in, pol) \in Nat /\ Span(in, pol) > 0 /\ Span(in, pol) <= UpCap * Day
         /\ Start(in) \in Int
  <1>1. Start(in) \in Int
    BY PolicyAssumption DEF Start
  <1>2. CASE in.end = Omitted
    BY <1>1, <1>2, InRangeBounds DEF Span
  <1>3. CASE in.end # Omitted
    <2>1. in.end \in Int /\ in.end > Start(in) /\ in.end - Start(in) <= pol.max * Day
      BY <1>3, PolicyAssumption DEF TimesValid, SpanAllowed, Span
    <2>2. pol.max * Day \in Nat /\ pol.max * Day <= UpCap * Day /\ UpCap * Day \in Nat
      BY InRangeBounds, DaysInTicks, PolicyAssumption
    <2> QED  BY <1>1, <1>3, <2>1, <2>2 DEF Span
  <1> QED  BY <1>2, <1>3

-----------------------------------------------------------------------------
(***************************************************************************)
(* The invariant.                                                          *)
(***************************************************************************)
LEMMA IdleIsFine == Idle \in ReqType /\ InProgress(Idle, {})
  <1>1. NoSettings \in SettingsType
    BY PolicyAssumption DEF NoSettings, SettingsType
  <1>2. Unasked \in [Deps -> Raw]
    BY DEF Unasked, Raw
  <1>3. Idle \in ReqType
    BY <1>1, <1>2 DEF Idle, ReqType
  <1> QED  BY <1>3 DEF Idle, InProgress, CreateSteps

LEMMA AdmissionInitially == Init => AdmissionInv
  <1> SUFFICES ASSUME Init PROVE AdmissionInv
    OBVIOUS
  <1>1. settings \in SettingsType
    BY PolicyAssumption DEF Init, NoSettings, SettingsType
  <1>2. rows \in [Ids -> RowType] /\ RowsOK
    BY DEF Init, NoRow, RowType, RowsOK
  <1>3. req \in [Requests -> ReqType] /\ seen \in [Requests -> SUBSET Policies] /\ RequestsOK
    <2>1. \A r \in Requests : req[r] = Idle /\ seen[r] = {}
      BY DEF Init
    <2>2. Idle.pc = "idle"
      BY DEF Idle
    <2> QED  BY <2>1, <2>2, IdleIsFine DEF Init, RequestsOK
  <1>4. hung \subseteq Deps /\ epoch \in 0 .. MaxEpoch
    BY PolicyAssumption DEF Init
  <1>5. ShownOK /\ VersionNamesPolicy /\ WindowAccepted
    BY DEF Init, ShownOK, VersionNamesPolicy, WindowAccepted
  <1> QED  BY <1>1, <1>2, <1>3, <1>4, <1>5 DEF AdmissionInv, StateOK

\* A step of one request, to q with history h, disturbs no other request.
LEMMA Moved ==
  ASSUME AdmissionInv, settings' = settings, NEW r \in Requests, NEW q \in ReqType,
         NEW h \in SUBSET Policies,
         req' = [req EXCEPT ![r] = q], seen' = [seen EXCEPT ![r] = h],
         InProgress(q, h), q.pc # "idle" => Policy \in h,
         q.pc \in {"extend", "resync"} => rows'[q.id].st # "none",
         \A i \in Ids : rows[i].st # "none" => rows'[i].st # "none"
  PROVE  /\ req' \in [Requests -> ReqType] /\ seen' \in [Requests -> SUBSET Policies]
         /\ RequestsOK'
  <1>1. req' \in [Requests -> ReqType] /\ seen' \in [Requests -> SUBSET Policies]
    BY DEF AdmissionInv, StateOK
  <1>2. Policy' = Policy
    BY DEF Policy
  <1>3. ASSUME NEW s \in Requests
        PROVE  /\ InProgress(req'[s], seen'[s])
               /\ req'[s].pc # "idle" => Policy \in seen'[s]
               /\ req'[s].pc \in {"extend", "resync"} => rows'[req'[s].id].st # "none"
    <2>1. CASE s = r
      <3>1. req'[s] = q /\ seen'[s] = h
        BY <2>1 DEF AdmissionInv, StateOK
      <3> QED  BY <3>1
    <2>2. CASE s # r
      <3>1. req'[s] = req[s] /\ seen'[s] = seen[s]
        BY <2>2 DEF AdmissionInv, StateOK
      <3>2. req[s].pc \in {"extend", "resync"} => req[s].id \in Ids
        BY DEF AdmissionInv, RequestsOK, InProgress
      <3> QED  BY <3>1, <3>2 DEF AdmissionInv, RequestsOK
    <2> QED  BY <2>1, <2>2
  <1> QED  BY <1>1, <1>2, <1>3 DEF RequestsOK, InProgress

\* A request that answers leaves nothing behind.
LEMMA Finished ==
  ASSUME AdmissionInv, settings' = settings, NEW r \in Requests, Finish(r),
         \A i \in Ids : rows[i].st # "none" => rows'[i].st # "none"
  PROVE  /\ req' \in [Requests -> ReqType] /\ seen' \in [Requests -> SUBSET Policies]
         /\ RequestsOK'
  <1>1. req' = [req EXCEPT ![r] = Idle] /\ seen' = [seen EXCEPT ![r] = {}] /\ Idle.pc = "idle"
    BY DEF Finish, Idle
  <1> QED  BY <1>1, IdleIsFine, Moved

\* A request that passes a check: only its step and what it heard change.
LEMMA Passed ==
  ASSUME AdmissionInv, settings' = settings, rows' = rows, NEW r \in Requests, NEW q \in ReqType,
         req' = [req EXCEPT ![r] = q], UNCHANGED seen,
         InProgress(q, seen[r]), req[r].pc # "idle", q.pc \in CreateSteps
  PROVE  /\ req' \in [Requests -> ReqType] /\ seen' \in [Requests -> SUBSET Policies]
         /\ RequestsOK'
  <1>1. seen' = [seen EXCEPT ![r] = seen[r]] /\ seen[r] \in SUBSET Policies
    BY DEF AdmissionInv, StateOK
  <1>2. Policy \in seen[r]
    BY DEF AdmissionInv, RequestsOK
  <1>3. q.pc \notin {"extend", "resync"}
    BY DEF CreateSteps
  <1> QED  BY <1>1, <1>2, <1>3, Moved

\* The checks of a create, each of which leaves rows, policy and history alone.
LEMMA ChecksPreserve ==
  ASSUME AdmissionInv, NEW r \in Requests,
         \/ CheckDepartment(r) \/ ReadPolicy(r) \/ CheckMember(r, "delegator")
         \/ CheckMember(r, "delegate") \/ CheckBothMemberships(r) \/ CheckAvailability(r)
  PROVE  /\ UNCHANGED <<settings, epoch, rows, shown, refused, hung>>
         /\ req' \in [Requests -> ReqType] /\ seen' \in [Requests -> SUBSET Policies]
         /\ RequestsOK'
  <1>1. UNCHANGED <<settings, epoch, rows, shown, refused, hung>>
    BY DEF CheckDepartment, ReadPolicy, CheckMember, CheckBothMemberships, CheckAvailability
  <1>2. req[r] \in ReqType /\ InProgress(req[r], seen[r])
    BY DEF AdmissionInv, StateOK, RequestsOK
  <1> DEFINE Goal == /\ req' \in [Requests -> ReqType] /\ seen' \in [Requests -> SUBSET Policies]
                     /\ RequestsOK'
  <1>3. CASE Finish(r)
    BY <1>1, <1>3, Finished
  <1>4. ASSUME NEW q \in ReqType, req' = [req EXCEPT ![r] = q], UNCHANGED seen,
               InProgress(q, seen[r]), req[r].pc # "idle", q.pc \in CreateSteps
        PROVE  Goal
    BY <1>1, <1>4, Passed
  <1>5. CASE CheckDepartment(r) /\ ~ Finish(r)
    <2>1. PICK raw \in Responses("catalog", {"active", "inactive", "404"}) :
            DepartmentActive(raw) = "yes" /\ Heard(r, "catalog", raw, "policy")
      BY <1>5 DEF CheckDepartment
    <2>2. raw = "active" /\ raw \in Raw
      BY <2>1 DEF DepartmentActive, Raw
    <2> DEFINE q == [req[r] EXCEPT !.heard["catalog"] = raw, !.pc = "policy"]
    <2>3. q \in ReqType /\ q.pc = "policy" /\ q.in = req[r].in /\ q.heard["catalog"] = "active"
      BY <1>2, <2>2 DEF ReqType, Deps, CreateSteps
    <2>4. req[r].pc = "catalog"
      BY <1>5 DEF CheckDepartment
    <2>5. InProgress(q, seen[r])
      <3> HIDE DEF q
      <3> QED  BY <1>2, <2>3, <2>4 DEF InProgress, CreateSteps
    <2>6. req' = [req EXCEPT ![r] = q] /\ UNCHANGED seen
      BY <2>1 DEF Heard, AdmissionInv, StateOK
    <2> QED  BY <1>1, <1>4, <2>3, <2>4, <2>5, <2>6 DEF CreateSteps
  <1>6. CASE ReadPolicy(r) /\ ~ Finish(r)
    <2>1. req[r].pc = "policy" /\ TimesValid(req[r].in) /\ SpanAllowed(req[r].in, Policy)
          /\ req' = [req EXCEPT ![r].pc = "members", ![r].pol = settings] /\ UNCHANGED seen
      BY <1>6 DEF ReadPolicy
    <2> DEFINE q == [req[r] EXCEPT !.pc = "members", !.pol = settings]
    <2>2. q \in ReqType /\ q.pc = "members" /\ q.in = req[r].in /\ q.heard = req[r].heard
          /\ q.pol = settings
      BY <1>2 DEF ReqType, CreateSteps, AdmissionInv, StateOK
    <2>3. PolicyOf(settings) = Policy /\ Policy \in seen[r]
      BY <2>1 DEF PolicyOf, Policy, AdmissionInv, RequestsOK
    <2>4. InProgress(q, seen[r])
      <3> HIDE DEF q
      <3> QED  BY <1>2, <2>1, <2>2, <2>3 DEF InProgress, CreateSteps
    <2>5. req' = [req EXCEPT ![r] = q]
      BY <2>1 DEF AdmissionInv, StateOK
    <2> QED  BY <1>1, <1>4, <2>1, <2>2, <2>4, <2>5 DEF CreateSteps
  <1>7. ASSUME NEW who \in {"delegator", "delegate"}, CheckMember(r, who) PROVE Goal
    <2>1. PICK raw \in Responses(who, {"active", "inactive", "404"}) : Heard(r, who, raw, "members")
      BY <1>7 DEF CheckMember
    <2>2. raw \in Raw
      BY <2>1 DEF Responses, Failures, Raw
    <2> DEFINE q == [req[r] EXCEPT !.heard[who] = raw, !.pc = "members"]
    <2>3. q \in ReqType /\ q.pc = "members" /\ q.in = req[r].in /\ q.pol = req[r].pol
          /\ q.heard["catalog"] = req[r].heard["catalog"]
      BY <1>2, <2>2 DEF ReqType, Deps, CreateSteps
    <2>4. req[r].pc = "members"
      BY <1>7 DEF CheckMember
    <2>5. InProgress(q, seen[r])
      <3> HIDE DEF q
      <3> QED  BY <1>2, <2>3, <2>4 DEF InProgress, CreateSteps
    <2>6. req' = [req EXCEPT ![r] = q] /\ UNCHANGED seen
      BY <2>1 DEF Heard, AdmissionInv, StateOK
    <2> QED  BY <1>1, <1>4, <2>3, <2>4, <2>5, <2>6 DEF CreateSteps
  <1>8. CASE CheckBothMemberships(r) /\ ~ Finish(r)
    <2>1. req[r].pc = "members" /\ Goto(r, "availability")
          /\ \A who \in {"delegator", "delegate"} : Exists(req[r].heard[who]) = "yes"
      BY <1>8 DEF CheckBothMemberships
    <2>2. \A who \in {"delegator", "delegate"} : req[r].heard[who] = "active"
      BY <2>1 DEF Exists
    <2> DEFINE q == [req[r] EXCEPT !.pc = "availability"]
    <2>3. q \in ReqType /\ q.pc = "availability" /\ q.in = req[r].in /\ q.pol = req[r].pol
          /\ q.heard = req[r].heard
      BY <1>2 DEF ReqType, CreateSteps
    <2>4. InProgress(q, seen[r])
      <3> HIDE DEF q
      <3> QED  BY <1>2, <2>1, <2>2, <2>3 DEF InProgress, CreateSteps
    <2>5. req' = [req EXCEPT ![r] = q] /\ UNCHANGED seen
      BY <2>1 DEF Goto, AdmissionInv, StateOK
    <2> QED  BY <1>1, <1>4, <2>1, <2>3, <2>4, <2>5 DEF CreateSteps
  <1>9. CASE CheckAvailability(r) /\ ~ Finish(r)
    <2>0. req[r].pc = "availability"
      BY <1>9 DEF CheckAvailability
    <2> DEFINE next == IF IsScheduled(req[r].in) THEN "insert" ELSE "ooo"
    <2>1. PICK raw \in Responses("availability", {"available", "404"} \cup Absences) :
            /\ \/ GetAvailability(raw) = "available"
               \/ GetAvailability(raw) \in {"ooo_before_start", "ooo_no_end"} /\ IsScheduled(req[r].in)
            /\ Heard(r, "availability", raw, next)
      BY <1>9 DEF CheckAvailability
    <2>2. \/ raw \in {"available", "404"}
          \/ raw \in {"ooo_before_start", "ooo_no_end"} /\ IsScheduled(req[r].in)
      BY <2>1 DEF GetAvailability, Absences
    <2> DEFINE q == [req[r] EXCEPT !.heard["availability"] = raw, !.pc = next]
    <2>3. q \in ReqType /\ q.pc = next /\ q.in = req[r].in /\ q.pol = req[r].pol
          /\ q.heard["catalog"] = req[r].heard["catalog"]
          /\ q.heard["delegator"] = req[r].heard["delegator"]
          /\ q.heard["delegate"] = req[r].heard["delegate"] /\ q.heard["availability"] = raw
      BY <1>2, <2>2 DEF ReqType, Deps, CreateSteps, Raw
    <2>4. InProgress(q, seen[r])
      <3> HIDE DEF q
      <3> QED  BY <1>2, <2>0, <2>2, <2>3 DEF InProgress, CreateSteps
    <2>5. req' = [req EXCEPT ![r] = q] /\ UNCHANGED seen
      BY <2>1 DEF Heard, AdmissionInv, StateOK
    <2> QED  BY <1>1, <1>4, <2>0, <2>3, <2>4, <2>5 DEF CreateSteps
  <1> QED  BY <1>1, <1>3, <1>5, <1>6, <1>7, <1>8, <1>9

LEMMA StartsPreserve ==
  ASSUME AdmissionInv, NEW r \in Requests,
         \/ \E in \in Inputs : CreateStart(r, in)
         \/ \E i \in Ids, days \in ExtendInputs : ExtendStart(r, i, days)
  PROVE  /\ UNCHANGED <<settings, epoch, rows, shown, refused, hung>>
         /\ req' \in [Requests -> ReqType] /\ seen' \in [Requests -> SUBSET Policies]
         /\ RequestsOK'
  <1>1. UNCHANGED <<settings, epoch, rows, shown, refused, hung>>
        /\ seen' = [seen EXCEPT ![r] = {Policy}]
    BY DEF CreateStart, ExtendStart
  <1>2. {Policy} \in SUBSET Policies
    BY DEF AdmissionInv, StateOK, SettingsType, Policy, Policies
  <1>3. ASSUME NEW in \in Inputs, CreateStart(r, in)
        PROVE  /\ req' \in [Requests -> ReqType] /\ seen' \in [Requests -> SUBSET Policies]
               /\ RequestsOK'
    <2> DEFINE next == IF in.scope = "department" /\ CatalogConfigured THEN "catalog" ELSE "policy"
               q == [Idle EXCEPT !.pc = next, !.in = in]
    <2>1. req' = [req EXCEPT ![r] = q] /\ ValidateCreateInput(in)
      BY <1>3 DEF CreateStart
    <2>2. q \in ReqType /\ q.pc = next /\ q.in = in
      BY IdleIsFine DEF ReqType, CreateSteps
    <2>3. InProgress(q, {Policy})
      <3> HIDE DEF q
      <3> QED  BY <2>1, <2>2 DEF InProgress, CreateSteps
    <2> HIDE DEF q
    <2> QED  BY <1>1, <1>2, <2>1, <2>2, <2>3, Moved
  <1>4. ASSUME NEW i \in Ids, NEW days \in ExtendInputs, ExtendStart(r, i, days)
        PROVE  /\ req' \in [Requests -> ReqType] /\ seen' \in [Requests -> SUBSET Policies]
               /\ RequestsOK'
    <2> DEFINE q == [Idle EXCEPT !.pc = "extend", !.id = i, !.days = days, !.ver = rows[i].ver]
    <2>1. req' = [req EXCEPT ![r] = q] /\ (days # Omitted => InRange(days)) /\ rows[i].st = "active"
      BY <1>4 DEF ExtendStart
    <2>2. q \in ReqType /\ q.pc = "extend" /\ q.id = i /\ q.days = days
      BY IdleIsFine, PolicyAssumption DEF ReqType, CreateSteps, AdmissionInv, StateOK, RowType
    <2>3. InProgress(q, {Policy})
      <3> HIDE DEF q
      <3> QED  BY <2>1, <2>2 DEF InProgress, CreateSteps
    <2> HIDE DEF q
    <2> QED  BY <1>1, <1>2, <2>1, <2>2, <2>3, Moved
  <1> QED  BY <1>1, <1>3, <1>4

\* The policy of a request is a policy in range.
LEMMA PolicyInRange ==
  ASSUME NEW q \in ReqType
  PROVE  InRange(q.pol.max) /\ InRange(q.pol.review)
  BY DEF ReqType, SettingsType, InRange

\* The span of a create that passed ReadPolicy.
LEMMA AdmittedSpan ==
  ASSUME AdmissionInv, NEW r \in Requests, req[r].pc \in {"ooo", "insert"}
  PROVE  /\ Span(req[r].in, req[r].pol) \in Nat /\ Span(req[r].in, req[r].pol) > 0
         /\ Span(req[r].in, req[r].pol) <= UpCap * Day
         /\ Start(req[r].in) \in Int /\ req[r].in \in Inputs
  <1>1. req[r] \in ReqType /\ InProgress(req[r], seen[r])
    BY DEF AdmissionInv, StateOK, RequestsOK
  <1>2. req[r].in \in Inputs /\ TimesValid(req[r].in) /\ SpanAllowed(req[r].in, PolicyOf(req[r].pol))
    BY <1>1 DEF InProgress, CreateSteps
  <1>3. SpanAllowed(req[r].in, req[r].pol)
    BY <1>2 DEF SpanAllowed, Span, PolicyOf
  <1> QED  BY <1>1, <1>2, <1>3, PolicyInRange, SpanBounds

LEMMA SetAvailabilityPreserves ==
  ASSUME AdmissionInv, NEW r \in Requests, SetAvailability(r)
  PROVE  /\ UNCHANGED <<settings, epoch, rows, shown, hung>> /\ WindowAccepted'
         /\ req' \in [Requests -> ReqType] /\ seen' \in [Requests -> SUBSET Policies]
         /\ RequestsOK'
  <1> DEFINE len == WindowLength(req[r].in, req[r].pol)
  <1>1. UNCHANGED <<settings, epoch, rows, shown, hung>> /\ req[r].pc = "ooo"
    BY DEF SetAvailability
  <1>2. req[r] \in ReqType /\ InProgress(req[r], seen[r])
    BY DEF AdmissionInv, StateOK, RequestsOK
  <1>3. len \in Int /\ len <= UpCap * Day
    BY <1>1, AdmittedSpan, DaysInTicks, PolicyAssumption DEF WindowLength
  <1>4. WindowAccepted'
    <2>1. Judge("create", len)
      BY DEF SetAvailability
    <2>2. ~ (len > UpCap * Day)
      <3>1. UpCap * Day \in Int
        BY DaysInTicks, PolicyAssumption
      <3> HIDE DEF len
      <3> QED  BY <1>3, <3>1
    <2> HIDE DEF len
    <2> QED  BY <2>1, <2>2 DEF Judge, AdmissionInv, WindowAccepted
  <1>5. CASE Finish(r)
    BY <1>1, <1>4, <1>5, Finished
  <1>6. CASE ~ Finish(r)
    <2>1. Heard(r, "ooo", "2xx", "insert")
      BY <1>6 DEF SetAvailability
    <2> DEFINE q == [req[r] EXCEPT !.heard["ooo"] = "2xx", !.pc = "insert"]
    <2>2. q \in ReqType /\ q.pc = "insert" /\ q.in = req[r].in /\ q.pol = req[r].pol
          /\ q.heard["ooo"] = "2xx"
          /\ \A d \in Deps \ {"ooo"} : q.heard[d] = req[r].heard[d]
      BY <1>2 DEF ReqType, Deps, CreateSteps, Raw
    <2>3. InProgress(q, seen[r])
      <3> HIDE DEF q
      <3> QED  BY <1>1, <1>2, <2>2 DEF InProgress, CreateSteps, Deps
    <2>4. req' = [req EXCEPT ![r] = q] /\ UNCHANGED seen
      BY <2>1 DEF Heard, AdmissionInv, StateOK
    <2> HIDE DEF q
    <2> QED  BY <1>1, <1>4, <2>2, <2>3, <2>4, Passed DEF CreateSteps
  <1> QED  BY <1>5, <1>6

LEMMA InsertPreserves ==
  ASSUME AdmissionInv, NEW r \in Requests, Insert(r)
  PROVE  /\ UNCHANGED <<settings, epoch, shown, refused, hung>>
         /\ rows' \in [Ids -> RowType] /\ RowsOK'
         /\ req' \in [Requests -> ReqType] /\ seen' \in [Requests -> SUBSET Policies]
         /\ RequestsOK'
  <1>1. UNCHANGED <<settings, epoch, shown, refused, hung>> /\ req[r].pc = "insert" /\ Finish(r)
    BY DEF Insert
  <1> DEFINE new == NewRow(req[r].in, req[r].pol)
  <1>2. new \in RowType /\ new.span <= UpCap * Day /\ InRange(new.review) /\ new.st # "none"
    <2>1. req[r] \in ReqType
      BY DEF AdmissionInv, StateOK
    <2>2. InRange(req[r].pol.review) /\ req[r].pol.review \in Nat
      BY <2>1, PolicyInRange, InRangeBounds
    <2> QED  BY <1>1, <2>2, AdmittedSpan DEF NewRow, RowType
  <1> HIDE DEF new
  <1>3. CASE rows' = rows
    BY <1>1, <1>3, Finished DEF AdmissionInv, StateOK, RowsOK
  <1>4. ASSUME NEW i \in Ids, rows' = [rows EXCEPT ![i] = new]
        PROVE  /\ rows' \in [Ids -> RowType] /\ RowsOK'
               /\ \A j \in Ids : rows[j].st # "none" => rows'[j].st # "none"
    BY <1>2, <1>4 DEF AdmissionInv, StateOK, RowsOK
  <1>5. rows' = rows \/ \E i \in Ids : rows' = [rows EXCEPT ![i] = new]
    BY DEF Insert, new
  <1> QED  BY <1>1, <1>3, <1>4, <1>5, Finished

LEMMA ExtendPreserves ==
  ASSUME AdmissionInv, NEW r \in Requests, ExtendReview(r)
  PROVE  /\ UNCHANGED <<settings, epoch, shown, refused, hung>>
         /\ rows' \in [Ids -> RowType] /\ RowsOK'
         /\ req' \in [Requests -> ReqType] /\ seen' \in [Requests -> SUBSET Policies]
         /\ RequestsOK'
  <1> DEFINE i    == req[r].id
             span == rows[i].span + ExtendDays(r) * Day
  <1>1. UNCHANGED <<settings, epoch, shown, refused, hung>> /\ req[r].pc = "extend"
    BY DEF ExtendReview
  <1>2. req[r] \in ReqType /\ InProgress(req[r], seen[r]) /\ rows[i].st # "none" /\ Policy \in seen[r]
    BY <1>1 DEF AdmissionInv, StateOK, RequestsOK
  <1>3. i \in Ids /\ InRange(ExtendDays(r))
    BY <1>1, <1>2 DEF InProgress, ExtendDays, AdmissionInv, RowsOK
  <1>4. CASE rows' = rows /\ Finish(r)
    BY <1>1, <1>4, Finished DEF AdmissionInv, StateOK, RowsOK
  <1>5. CASE /\ rows[i].st = "active"
             /\ rows' = [rows EXCEPT ![i].span = span,
                                     ![i].review = ExtendDays(r), ![i].ver = @ + 1]
             /\ \/ req' = [req EXCEPT ![r].pc = "resync", ![r].span = span] /\ UNCHANGED seen
                \/ Finish(r)
    <2>1. span \in Nat /\ ExtendDays(r) \in Nat
      BY <1>3, InRangeBounds DEF AdmissionInv, StateOK, RowType
    <2>2. rows' \in [Ids -> RowType] /\ rows'[i].st = "active" /\ rows'[i].review = ExtendDays(r)
          /\ \A j \in Ids \ {i} : rows'[j] = rows[j]
      BY <1>3, <1>5, <2>1 DEF AdmissionInv, StateOK, RowType
    <2>3. RowsOK' /\ \A j \in Ids : rows[j].st # "none" => rows'[j].st # "none"
      BY <1>3, <2>2 DEF AdmissionInv, RowsOK, InRange
    <2>4. CASE Finish(r)
      BY <1>1, <2>2, <2>3, <2>4, Finished
    <2>5. CASE req' = [req EXCEPT ![r].pc = "resync", ![r].span = span] /\ UNCHANGED seen
      <3> DEFINE q == [req[r] EXCEPT !.pc = "resync", !.span = span]
      <3>1. q \in ReqType /\ q.pc = "resync" /\ q.id = i
        BY <1>2, <2>1 DEF ReqType, CreateSteps
      <3>2. InProgress(q, seen[r])
        <4> HIDE DEF q
        <4> QED  BY <1>3, <3>1 DEF InProgress, CreateSteps
      <3>3. req' = [req EXCEPT ![r] = q] /\ seen' = [seen EXCEPT ![r] = seen[r]]
            /\ seen[r] \in SUBSET Policies
        BY <2>5 DEF AdmissionInv, StateOK
      <3> HIDE DEF q, i, span
      <3> QED  BY <1>1, <1>2, <2>2, <2>3, <3>1, <3>2, <3>3, Moved
    <2> QED  BY <1>5, <2>4, <2>5
  <1> QED  BY <1>4, <1>5 DEF ExtendReview

LEMMA ResyncPreserves ==
  ASSUME AdmissionInv, NEW r \in Requests, ExtendResync(r)
  PROVE  /\ UNCHANGED <<settings, epoch, rows, shown, hung>> /\ WindowAccepted'
         /\ req' \in [Requests -> ReqType] /\ seen' \in [Requests -> SUBSET Policies]
         /\ RequestsOK'
  <1>1. UNCHANGED <<settings, epoch, rows, shown, hung>> /\ Finish(r) /\ refused' \subseteq refused \cup {"extend"}
    BY DEF ExtendResync, Judge
  <1> QED  BY <1>1, Finished DEF AdmissionInv, WindowAccepted

LEMMA ActivationPreserves ==
  ASSUME AdmissionInv, NEW i \in Ids, Activation(i)
  PROVE  /\ UNCHANGED <<settings, epoch, req, seen, shown, hung>> /\ WindowAccepted'
         /\ rows' \in [Ids -> RowType] /\ RowsOK' /\ RequestsOK'
  <1>1. UNCHANGED <<settings, epoch, req, seen, shown, hung>> /\ rows[i].st = "scheduled"
        /\ Judge("activation", rows[i].span)
        /\ rows' \in {rows, [rows EXCEPT ![i].st = "active", ![i].ver = @ + 1]}
    BY DEF Activation
  <1>2. WindowAccepted'
    <2>1. ~ (rows[i].span > UpCap * Day)
      <3>1. UpCap * Day \in Int /\ rows[i].span \in Int /\ rows[i].span <= UpCap * Day
        BY <1>1, DaysInTicks, PolicyAssumption DEF AdmissionInv, StateOK, RowsOK, RowType
      <3> QED  BY <3>1
    <2> QED  BY <1>1, <2>1 DEF Judge, AdmissionInv, WindowAccepted
  <1>3. rows' \in [Ids -> RowType] /\ \A j \in Ids : /\ rows'[j].review = rows[j].review
                                                     /\ rows'[j].st # rows[j].st => rows'[j].st = "active"
                                                     /\ rows'[j].span = rows[j].span
                                                     /\ rows[j].st = "none" => rows'[j].st = "none"
    BY <1>1 DEF AdmissionInv, StateOK, RowType
  <1>4. RowsOK'
    BY <1>3 DEF AdmissionInv, RowsOK, InRange
  <1>5. RequestsOK'
    <2>1. \A r \in Requests : req[r].pc \in {"extend", "resync"} => req[r].id \in Ids
      BY DEF AdmissionInv, RequestsOK, InProgress
    <2> QED  BY <1>1, <1>3, <2>1 DEF AdmissionInv, RequestsOK, Policy
  <1> QED  BY <1>1, <1>2, <1>3, <1>4, <1>5

\* A change of the policy is seen by every request in progress.
LEMMA PolicyChanges ==
  ASSUME AdmissionInv, UNCHANGED req, NEW p, p \in Policies, InForce(p), Policy' = p,
         \A i \in Ids : rows[i].st # "none" => rows'[i].st # "none"
  PROVE  seen' \in [Requests -> SUBSET Policies] /\ RequestsOK'
  <1>1. \A r \in Requests : seen'[r] = IF req[r].pc = "idle" THEN seen[r] ELSE seen[r] \cup {p}
    BY DEF InForce
  <1>2. seen' \in [Requests -> SUBSET Policies]
    BY DEF InForce, AdmissionInv, StateOK
  <1>3. ASSUME NEW r \in Requests
        PROVE  /\ InProgress(req[r], seen'[r])
               /\ req[r].pc # "idle" => p \in seen'[r]
               /\ req[r].pc \in {"extend", "resync"} => rows'[req[r].id].st # "none"
    <2>1. InProgress(req[r], seen[r])
      BY DEF AdmissionInv, RequestsOK
    <2>2. InProgress(req[r], seen'[r])
      BY <1>1, <2>1 DEF InProgress
    <2>3. req[r].pc \in {"extend", "resync"} => req[r].id \in Ids
      BY <2>1 DEF InProgress
    <2> QED  BY <1>1, <2>2, <2>3 DEF AdmissionInv, RequestsOK
  <1> QED  BY <1>2, <1>3 DEF RequestsOK, InProgress

LEMMA SettingsPreserve ==
  ASSUME AdmissionInv, NEW p \in PolicyInputs, SetSettings(p)
  PROVE  AdmissionInv'
  <1> DEFINE new == Upsert([max |-> p.max, review |-> p.review, ver |-> 0])
  <1>1. InRange(p.max) /\ InRange(p.review) /\ settings.ver < MaxSettings /\ settings' = new
        /\ InForce([max |-> p.max, review |-> p.review])
        /\ shown' \in {shown, shown \cup {new}} /\ UNCHANGED <<epoch, rows, req, refused, hung>>
    BY DEF SetSettings, Show
  <1>2. /\ new \in SettingsType /\ new.max = p.max /\ new.review = p.review
        /\ \/ new.ver = settings.ver /\ new = settings
           \/ new.ver = settings.ver + 1
    BY <1>1, PolicyAssumption DEF Upsert, AdmissionInv, StateOK, SettingsType, InRange, Policy
  <1> HIDE DEF new
  <1>3. ShownOK' /\ VersionNamesPolicy'
    BY <1>1, <1>2 DEF AdmissionInv, StateOK, SettingsType, ShownOK, VersionNamesPolicy
  <1>4. seen' \in [Requests -> SUBSET Policies] /\ RequestsOK'
    <2>1. Policy' = [max |-> p.max, review |-> p.review]
      BY <1>1, <1>2 DEF Policy
    <2>2. [max |-> p.max, review |-> p.review] \in Policies
      BY <1>1 DEF Policies, InRange
    <2> QED  BY <1>1, <2>1, <2>2, PolicyChanges
  <1> QED  BY <1>1, <1>2, <1>3, <1>4 DEF AdmissionInv, StateOK, RowsOK, WindowAccepted

LEMMA PurgePreserves ==
  ASSUME AdmissionInv, PurgeTenant
  PROVE  AdmissionInv'
  <1>1. settings' = NoSettings /\ shown' = {} /\ UNCHANGED <<req, refused, hung>>
        /\ InForce([max |-> DefaultDays, review |-> DefaultDays])
    BY DEF PurgeTenant
  <1>2. epoch' \in 0 .. MaxEpoch
    BY PolicyAssumption DEF PurgeTenant, AdmissionInv, StateOK
  <1>3. NoSettings \in SettingsType
    BY PolicyAssumption DEF NoSettings, SettingsType
  <1>4. rows' \in [Ids -> RowType] /\ RowsOK'
        /\ \A i \in Ids : rows[i].st # "none" => rows'[i].st # "none"
    <2>1. \A i \in Ids : rows'[i] = IF rows[i].st = "none" THEN NoRow
                                                          ELSE [rows[i] EXCEPT !.st = "deleted"]
      BY DEF PurgeTenant
    <2>2. ASSUME NEW i \in Ids
          PROVE  /\ rows'[i] \in RowType
                 /\ rows[i].st = "none" => rows'[i].st = "none"
                 /\ rows[i].st # "none" => rows'[i].st = "deleted" /\ rows'[i].review = rows[i].review
      <3>1. rows[i] \in RowType
        BY DEF AdmissionInv, StateOK
      <3>2. CASE rows[i].st = "none"
        <4>1. rows'[i] = NoRow
          BY <2>1, <3>2
        <4> QED  BY <3>2, <4>1 DEF NoRow, RowType
      <3>3. CASE rows[i].st # "none"
        <4>1. rows'[i] = [rows[i] EXCEPT !.st = "deleted"]
          BY <2>1, <3>3
        <4> QED  BY <3>1, <3>3, <4>1 DEF RowType
      <3> QED  BY <3>2, <3>3
    <2>3. rows' \in [Ids -> RowType]
      BY <2>1, <2>2 DEF PurgeTenant
    <2>4. \A i \in Ids : /\ rows[i].st = "none" => rows'[i].st = "none"
                         /\ rows[i].st # "none" => rows'[i].st = "deleted"
                                                   /\ rows'[i].review = rows[i].review
      BY <2>2
    <2> QED  BY <2>3, <2>4 DEF AdmissionInv, RowsOK, InRange
  <1>5. seen' \in [Requests -> SUBSET Policies] /\ RequestsOK'
    <2>1. Policy' = [max |-> DefaultDays, review |-> DefaultDays]
      BY <1>1 DEF Policy, NoSettings
    <2>2. [max |-> DefaultDays, review |-> DefaultDays] \in Policies
      BY PolicyAssumption DEF Policies
    <2> QED  BY <1>1, <1>4, <2>1, <2>2, PolicyChanges
  <1>6. ShownOK' /\ VersionNamesPolicy'
    BY <1>1 DEF ShownOK, VersionNamesPolicy
  <1> QED  BY <1>1, <1>2, <1>3, <1>4, <1>5, <1>6 DEF AdmissionInv, StateOK, WindowAccepted

LEMMA AdmissionStep ==
  ASSUME AdmissionInv, [Next]_vars
  PROVE  AdmissionInv'
  <1>1. CASE GetSettings
    <2>1. ShownOK' /\ VersionNamesPolicy'
      BY <1>1 DEF GetSettings, Show, AdmissionInv, StateOK, SettingsType, ShownOK, VersionNamesPolicy
    <2>2. UNCHANGED <<settings, epoch, rows, req, seen, refused, hung>>
      BY <1>1 DEF GetSettings
    <2> QED  BY <2>1, <2>2 DEF AdmissionInv, StateOK, RowsOK, RequestsOK, InProgress, WindowAccepted,
                               Policy
  <1>2. CASE (\E p \in PolicyInputs : SetSettings(p)) \/ PurgeTenant
    BY <1>2, SettingsPreserve, PurgePreserves
  <1>3. ASSUME UNCHANGED <<settings, epoch, shown, hung>>, rows' \in [Ids -> RowType], RowsOK',
               req' \in [Requests -> ReqType], seen' \in [Requests -> SUBSET Policies],
               RequestsOK', WindowAccepted'
        PROVE  AdmissionInv'
    BY <1>3 DEF AdmissionInv, StateOK, ShownOK, VersionNamesPolicy
  <1>4. ASSUME NEW r \in Requests,
               \/ \E in \in Inputs : CreateStart(r, in)
               \/ \E i \in Ids, days \in ExtendInputs : ExtendStart(r, i, days)
        PROVE  AdmissionInv'
    <2>1. UNCHANGED <<settings, epoch, rows, shown, refused, hung>>
          /\ req' \in [Requests -> ReqType] /\ seen' \in [Requests -> SUBSET Policies] /\ RequestsOK'
      BY <1>4, StartsPreserve
    <2> QED  BY <1>3, <2>1 DEF AdmissionInv, StateOK, RowsOK, WindowAccepted
  <1>5. ASSUME NEW r \in Requests,
               \/ CheckDepartment(r) \/ ReadPolicy(r) \/ CheckMember(r, "delegator")
               \/ CheckMember(r, "delegate") \/ CheckBothMemberships(r) \/ CheckAvailability(r)
        PROVE  AdmissionInv'
    <2>1. UNCHANGED <<settings, epoch, rows, shown, refused, hung>>
          /\ req' \in [Requests -> ReqType] /\ seen' \in [Requests -> SUBSET Policies] /\ RequestsOK'
      BY <1>5, ChecksPreserve
    <2> QED  BY <1>3, <2>1 DEF AdmissionInv, StateOK, RowsOK, WindowAccepted
  <1>6. ASSUME NEW r \in Requests, SetAvailability(r) \/ ExtendResync(r) PROVE AdmissionInv'
    <2>1. UNCHANGED <<settings, epoch, rows, shown, hung>> /\ WindowAccepted'
          /\ req' \in [Requests -> ReqType] /\ seen' \in [Requests -> SUBSET Policies] /\ RequestsOK'
      BY <1>6, SetAvailabilityPreserves, ResyncPreserves
    <2> QED  BY <1>3, <2>1 DEF AdmissionInv, StateOK, RowsOK
  <1>7. ASSUME NEW r \in Requests, Insert(r) \/ ExtendReview(r) PROVE AdmissionInv'
    <2>1. UNCHANGED <<settings, epoch, shown, refused, hung>>
          /\ rows' \in [Ids -> RowType] /\ RowsOK'
          /\ req' \in [Requests -> ReqType] /\ seen' \in [Requests -> SUBSET Policies] /\ RequestsOK'
      BY <1>7, InsertPreserves, ExtendPreserves
    <2> QED  BY <1>3, <2>1 DEF AdmissionInv, WindowAccepted
  <1>8. ASSUME NEW i \in Ids, Activation(i) PROVE AdmissionInv'
    <2>1. UNCHANGED <<settings, epoch, req, seen, shown, hung>> /\ WindowAccepted'
          /\ rows' \in [Ids -> RowType] /\ RowsOK' /\ RequestsOK'
      BY <1>8, ActivationPreserves
    <2> QED  BY <1>3, <2>1 DEF AdmissionInv, StateOK
  <1>9. CASE UNCHANGED vars
    BY <1>9 DEF vars, AdmissionInv, StateOK, RowsOK, RequestsOK, InProgress, ShownOK,
                VersionNamesPolicy, WindowAccepted, Policy
  <1> QED  BY <1>1, <1>2, <1>4, <1>5, <1>6, <1>7, <1>8, <1>9 DEF Next, RequestStep

LEMMA AdmissionInvHolds == Spec => []AdmissionInv
  BY AdmissionInitially, AdmissionStep, PTL DEF Spec

-----------------------------------------------------------------------------
LEMMA InvImpliesTypeOK == AdmissionInv => TypeOK
  <1> SUFFICES ASSUME AdmissionInv PROVE TypeOK
    OBVIOUS
  <1>1. Policy \in Policies /\ settings.ver \in 0 .. MaxSettings
    BY DEF AdmissionInv, StateOK, SettingsType, Policy, Policies
  <1>2. refused \subseteq {"create", "activation", "extend"}
    BY DEF AdmissionInv, WindowAccepted
  <1>3. ASSUME NEW i \in Ids
        PROVE  /\ rows[i].st \in {"none", "scheduled", "active", "deleted"}
               /\ rows[i].span \in Nat /\ rows[i].ver \in Nat /\ rows[i].open \in BOOLEAN
               /\ rows[i].st # "none" => InRange(rows[i].review)
    BY DEF AdmissionInv, StateOK, RowsOK, RowType
  <1>4. ASSUME NEW r \in Requests
        PROVE  seen[r] \subseteq Policies /\ (req[r].pc = "idle" => req[r] = Idle /\ seen[r] = {})
    BY DEF AdmissionInv, StateOK, RequestsOK, InProgress
  <1> QED  BY <1>1, <1>2, <1>3, <1>4 DEF TypeOK, AdmissionInv, StateOK

\* The policy is in range, rows and requests are well formed, and an answered request
\* keeps nothing.
THEOREM TypeCorrect == Spec => []TypeOK
  BY AdmissionInvHolds, InvImpliesTypeOK, PTL

\* A create that reaches its INSERT has an unambiguous yes on its members, its department
\* and the window it sent, and its delegate is present or not known to be away at
\* the start of a scheduled delegation.
THEOREM FailsClosed == Spec => []OnlyVettedInserted
  <1>1. AdmissionInv => OnlyVettedInserted
    <2> SUFFICES ASSUME AdmissionInv, NEW r \in Requests, req[r].pc = "insert"
                 PROVE  LET in == req[r].in  heard == req[r].heard
                        IN  /\ heard["delegator"] = "active" /\ heard["delegate"] = "active"
                            /\ in.scope = "department" /\ CatalogConfigured => heard["catalog"] = "active"
                            /\ \/ heard["availability"] \in {"available", "404"}
                               \/ heard["availability"] \in {"ooo_before_start", "ooo_no_end"} /\ Start(in) > 0
                            /\ Start(in) <= 0 => heard["ooo"] = "2xx"
      BY DEF OnlyVettedInserted
    <2>1. InProgress(req[r], seen[r])
      BY DEF AdmissionInv, RequestsOK
    <2>2. Start(req[r].in) \in Int
      BY AdmittedSpan
    <2> QED  BY <2>1, <2>2 DEF InProgress, CreateSteps, IsScheduled
  <1> QED  BY <1>1, AdmissionInvHolds, PTL

\* One policy that was in force while the create ran gives both its length and its
\* review window.
THEOREM OnePolicy == Spec => []JudgedByOnePolicy
  <1>1. AdmissionInv => JudgedByOnePolicy
    <2> SUFFICES ASSUME AdmissionInv, NEW r \in Requests, req[r].pc = "insert"
                 PROVE  LET row == NewRow(req[r].in, req[r].pol)
                        IN  \E p \in seen[r] : /\ row.review = p.review
                                               /\ IF row.open THEN row.span = p.review * Day
                                                              ELSE row.span <= p.max * Day
      BY DEF JudgedByOnePolicy
    <2>1. InProgress(req[r], seen[r])
      BY DEF AdmissionInv, RequestsOK
    <2>2. PolicyOf(req[r].pol) \in seen[r] /\ SpanAllowed(req[r].in, PolicyOf(req[r].pol))
      BY <2>1 DEF InProgress
    <2> QED  BY <2>2 DEF PolicyOf, SpanAllowed, Span, NewRow
  <1> QED  BY <1>1, AdmissionInvHolds, PTL

\* A create that got as far as its INSERT satisfies the table's CHECK constraints.
THEOREM ChecksImplySchema == Spec => []SchemaAccepts
  <1>1. AdmissionInv => SchemaAccepts
    <2> SUFFICES ASSUME AdmissionInv, NEW r \in Requests, req[r].pc = "insert"
                 PROVE  LET in == req[r].in  row == NewRow(in, req[r].pol)
                        IN  /\ ~ in.self
                            /\ \/ in.scope = "all" /\ ~ in.scopeId
                               \/ in.scope \in {"department", "tender"} /\ in.scopeId
                            /\ row.span > 0 /\ InRange(row.review)
      BY DEF SchemaAccepts
    <2>1. InProgress(req[r], seen[r]) /\ req[r] \in ReqType
      BY DEF AdmissionInv, StateOK, RequestsOK
    <2>2. ValidateCreateInput(req[r].in)
      BY <2>1 DEF InProgress, CreateSteps
    <2>3. Span(req[r].in, req[r].pol) > 0 /\ InRange(req[r].pol.review)
      BY <2>1, AdmittedSpan, PolicyInRange
    <2> QED  BY <2>2, <2>3 DEF ValidateCreateInput, Scopes, NewRow
  <1> QED  BY <1>1, AdmissionInvHolds, PTL

\* Create and the activation job send no window that is longer than User Profile's
\* cap, as long as the policy's range is within the cap.
THEOREM WindowsFit == Spec => []WindowAccepted
  BY AdmissionInvHolds, PTL DEF AdmissionInv

\* Between two purges of the tenant a version of the settings names one policy.
THEOREM VersionsTell == Spec => []VersionNamesPolicy
  BY AdmissionInvHolds, PTL DEF AdmissionInv
=============================================================================
