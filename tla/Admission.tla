------------------------------ MODULE Admission ------------------------------
(***************************************************************************)
(* The delegation policy of one tenant (DLG-6/7) and what Create and       *)
(* Extend make of it: the policy row, the four services a create asks, the *)
(* answers their clients make of the raw HTTP responses, and the           *)
(* out-of-office windows sent to User Profile.                             *)
(*                                                                         *)
(* Times are ticks relative to the request; a day is Day ticks.  The races *)
(* for a row, the delegate pointer and the compensation of a failed create *)
(* are DelegationService's; here a row keeps its window and its review.    *)
(***************************************************************************)
EXTENDS Integers, FiniteSets

CONSTANTS
  Requests,        \* concurrent POST /delegations and /extend
  Ids,             \* delegation ids
  Inputs,          \* create bodies
  PolicyInputs,    \* settings bodies: [max, review] in days
  ExtendInputs,    \* extend bodies: days, or Omitted
  Omitted,         \* a field the caller leaves out
  PolicyDaysMin, PolicyDaysMax,
  DefaultDays,     \* DefaultMaxDurationDays = DefaultReviewWindowDays
  UpCap,           \* the longest window User Profile accepts, in days
  Day,             \* ticks of a day
  SkewTolerance, MaxFutureStart,   \* in ticks
  CatalogConfigured,  \* CATALOG_ADMIN_BASE_URL is set
  Faults,          \* the failures a run of the model allows
  MaxVersion, MaxSettings, MaxEpoch  \* bounds on versions and tenant purges

AllFaults == {"db_fail", "db_lost", "hung"}

ASSUME PolicyAssumption ==
  /\ PolicyDaysMin \in Nat \ {0} /\ PolicyDaysMax \in Nat /\ UpCap \in Nat
  /\ PolicyDaysMin <= DefaultDays /\ DefaultDays <= PolicyDaysMax
  /\ DefaultDays \in Nat /\ PolicyDaysMax <= UpCap
  /\ Day \in Nat \ {0} /\ SkewTolerance \in Nat /\ MaxFutureStart \in Nat
  /\ \A p \in PolicyInputs : p.max \in Int /\ p.review \in Int
  /\ Omitted \notin Int /\ ExtendInputs \subseteq Int \cup {Omitted}
  /\ \A in \in Inputs : {in.start, in.end} \subseteq Int \cup {Omitted}
  /\ MaxSettings \in Nat /\ MaxEpoch \in Nat
  /\ CatalogConfigured \in BOOLEAN /\ Faults \subseteq AllFaults

VARIABLES
  settings,  \* the tenant's policy row, or NoSettings
  epoch,     \* history: how often the tenant was purged
  rows,      \* delegations
  req,       \* what every request is doing
  seen,      \* history: the policies in force since a request began
  shown,     \* history: the policies answered since the last purge, with their versions
  refused,   \* history: whose windows User Profile refused as too long
  hung       \* services that accept a call and never answer

vars == <<settings, epoch, rows, req, seen, shown, refused, hung>>

NoSettings == [max |-> DefaultDays, review |-> DefaultDays, ver |-> 0]

\* span: until ends_at, or until review_due_at while open.
NoRow == [st |-> "none", open |-> FALSE, span |-> 0, review |-> 0, ver |-> 0]

Deps == {"catalog", "delegator", "delegate", "availability", "ooo"}

Unasked == [d \in Deps |-> "none"]

Idle == [pc |-> "idle", in |-> Omitted, pol |-> NoSettings, heard |-> Unasked,
         id |-> Omitted, days |-> Omitted, ver |-> 0, span |-> 0]

\* The policy Get returns: the row, or the default.
Policy == [max |-> settings.max, review |-> settings.review]

Init ==
  /\ settings = NoSettings /\ epoch = 0 /\ refused = {} /\ shown = {}
  /\ rows = [i \in Ids |-> NoRow]
  /\ req = [r \in Requests |-> Idle]
  /\ seen = [r \in Requests |-> {}]
  /\ hung \in {{}} \cup IF "hung" \in Faults THEN {{d} : d \in Deps} ELSE {}

-----------------------------------------------------------------------------
(***************************************************************************)
(* The policy row.                                                         *)
(***************************************************************************)
\* Mutant: zero is let through.
InRangeFromZero(days) == days \in 0 .. PolicyDaysMax

InRange(days) == days \in PolicyDaysMin .. PolicyDaysMax

\* Mutant: nothing bumps the version.
UpsertUntouched(p) == [p EXCEPT !.ver = IF settings.ver = 0 THEN 1 ELSE settings.ver]

\* INSERT .. ON CONFLICT DO UPDATE of both columns; touch_row bumps the version
\* of a row that changes.
Upsert(p) ==
  [p EXCEPT !.ver = IF Policy = [max |-> p.max, review |-> p.review] /\ settings.ver > 0
                      THEN settings.ver ELSE settings.ver + 1]

Show(s) == shown' = shown \cup {s}

InForce(p) ==
  seen' = [r \in Requests |-> IF req[r].pc = "idle" THEN seen[r] ELSE seen[r] \cup {p}]

\* DLG-6.
GetSettings ==
  /\ Show(settings)
  /\ UNCHANGED <<settings, epoch, rows, req, seen, refused, hung>>

\* DLG-7.  A value out of range is a 400 and changes nothing.
SetSettings(p) ==
  /\ InRange(p.max) /\ InRange(p.review)
  /\ settings.ver < MaxSettings
  /\ LET new == Upsert([max |-> p.max, review |-> p.review, ver |-> 0])
     IN  /\ settings' = new
         /\ InForce([max |-> p.max, review |-> p.review])
         /\ \/ Show(new)
            \/ "db_lost" \in Faults /\ UNCHANGED shown
  /\ UNCHANGED <<epoch, rows, req, refused, hung>>

\* ScrubTenant deletes the policy row and soft-deletes the delegations.
PurgeTenant ==
  /\ epoch < MaxEpoch /\ epoch' = epoch + 1
  /\ settings' = NoSettings /\ shown' = {}
  /\ InForce([max |-> DefaultDays, review |-> DefaultDays])
  /\ rows' = [i \in Ids |-> IF rows[i].st = "none" THEN NoRow
                                                   ELSE [rows[i] EXCEPT !.st = "deleted"]]
  /\ UNCHANGED <<req, refused, hung>>
-----------------------------------------------------------------------------
(***************************************************************************)
(* The services.  A raw response is a status class ("fault" is a 5xx or a  *)
(* body that does not decode), or what the decoded body says; "network" is *)
(* a refused, reset or timed-out call, and all a hung service gives.       *)
(***************************************************************************)
Failures == {"4xx", "fault"}

\* Mutant: the client sets no timeout.
ResponsesUntimed(d, answers) == IF d \in hung THEN {} ELSE answers \cup Failures \cup {"network"}

\* Every client has a timeout, 3 s unless configured otherwise.
Responses(d, answers) ==
  {"network"} \cup IF d \in hung THEN {} ELSE answers \cup Failures

\* Mutant: a status below 500 is taken for an answer.
ExistsOpen(raw) == CASE raw \in {"active", "4xx"} -> "yes"
                     [] raw = "inactive"           -> "no"
                     [] OTHER                      -> "error"

\* The membership check: only a decoded 200 is an answer.
Exists(raw) == CASE raw = "active"   -> "yes"
                 [] raw = "inactive" -> "no"
                 [] OTHER            -> "error"

\* The catalog: 404 is an answer too.
DepartmentActive(raw) == CASE raw = "active"            -> "yes"
                           [] raw \in {"inactive", "404"} -> "no"
                           [] OTHER                     -> "error"

\* An absence ends before the delegation would start, after it, or at no known time.
Absences == {"ooo_before_start", "ooo_past_start", "ooo_no_end"}

\* The delegate's availability: a user that User Profile does not know is available.
GetAvailability(raw) == CASE raw \in {"available", "404"} -> "available"
                          [] raw \in Absences -> raw
                          [] OTHER -> "error"

\* User Profile refuses a window longer than its cap.
WindowAnswers(len) == IF len > UpCap * Day THEN {} ELSE {"2xx"}

-----------------------------------------------------------------------------
(***************************************************************************)
(* Create.                                                                 *)
(***************************************************************************)
Scopes == {"all", "department", "tender"}

Start(in) == IF in.start = Omitted THEN 0 ELSE in.start

TimesValid(in) ==
  /\ in.start # Omitted => in.start \in (-SkewTolerance) .. MaxFutureStart
  /\ in.end # Omitted => in.end > Start(in)

IsScheduled(in) == Start(in) > 0

Span(in, pol) == IF in.end = Omitted THEN pol.review * Day ELSE in.end - Start(in)

Finish(r) == req' = [req EXCEPT ![r] = Idle] /\ seen' = [seen EXCEPT ![r] = {}]

Goto(r, pc) == req' = [req EXCEPT ![r].pc = pc] /\ UNCHANGED seen

\* Mutant: a scope_id is not looked for.
ValidateCreateInputLoose(in) == ~ in.self /\ in.scope \in Scopes

ValidateCreateInput(in) ==
  /\ ~ in.self /\ in.scope \in Scopes /\ ~ in.longReason
  /\ in.scopeId = (in.scope # "all")

\* Bound: as many ids as there are creates.
IdLeft ==
  Cardinality({q \in Requests : req[q].in # Omitted}) < Cardinality({i \in Ids : rows[i] = NoRow})

\* A malformed body is refused before anything is read; then the catalog is
\* asked about a department, if it is configured.
CreateStart(r, in) ==
  /\ req[r].pc = "idle" /\ ValidateCreateInput(in) /\ IdLeft
  /\ req' = [req EXCEPT ![r] =
       [Idle EXCEPT !.pc = IF in.scope = "department" /\ CatalogConfigured
                             THEN "catalog" ELSE "policy",
                    !.in = in]]
  /\ seen' = [seen EXCEPT ![r] = {Policy}]
  /\ UNCHANGED <<settings, epoch, rows, shown, refused, hung>>

Heard(r, d, raw, pc) ==
  req' = [req EXCEPT ![r].heard[d] = raw, ![r].pc = pc] /\ UNCHANGED seen

\* Anything but an active department is a 4xx or a 503.
CheckDepartment(r) ==
  /\ req[r].pc = "catalog"
  /\ \E raw \in Responses("catalog", {"active", "inactive", "404"}) :
       IF DepartmentActive(raw) = "yes" THEN Heard(r, "catalog", raw, "policy") ELSE Finish(r)
  /\ UNCHANGED <<settings, epoch, rows, shown, refused, hung>>

\* Mutant: the span is measured against nothing when ends_at is given.
SpanAllowedAlways(in, pol) == TRUE

SpanAllowed(in, pol) == in.end # Omitted => Span(in, pol) <= pol.max * Day

\* The times are checked, then the policy is read once, for the span and for the
\* review window.
ReadPolicy(r) ==
  /\ req[r].pc = "policy"
  /\ \/ /\ TimesValid(req[r].in) /\ SpanAllowed(req[r].in, Policy)
        /\ req' = [req EXCEPT ![r].pc = "members", ![r].pol = settings]
        /\ UNCHANGED seen
     \/ /\ ~ (TimesValid(req[r].in) /\ SpanAllowed(req[r].in, Policy)) \/ "db_fail" \in Faults
        /\ Finish(r)
  /\ UNCHANGED <<settings, epoch, rows, shown, refused, hung>>

\* Two goroutines, one per party.
CheckMember(r, who) ==
  /\ req[r].pc = "members" /\ req[r].heard[who] = "none"
  /\ \E raw \in Responses(who, {"active", "inactive", "404"}) : Heard(r, who, raw, "members")
  /\ UNCHANGED <<settings, epoch, rows, shown, refused, hung>>

\* Both answers are awaited; an error outweighs "no".
CheckBothMemberships(r) ==
  /\ req[r].pc = "members"
  /\ \A who \in {"delegator", "delegate"} : req[r].heard[who] # "none"
  /\ IF \A who \in {"delegator", "delegate"} : Exists(req[r].heard[who]) = "yes"
       THEN Goto(r, "availability") ELSE Finish(r)
  /\ UNCHANGED <<settings, epoch, rows, shown, refused, hung>>

\* An absent delegate is refused, unless the delegation is scheduled and no known end
\* of the absence lies past its start.  A scheduled delegation does not tell User
\* Profile yet.
CheckAvailability(r) ==
  /\ req[r].pc = "availability"
  /\ \E raw \in Responses("availability", {"available", "404"} \cup Absences) :
       LET answer == GetAvailability(raw)
           free   == \/ answer = "available"
                     \/ answer \in {"ooo_before_start", "ooo_no_end"} /\ IsScheduled(req[r].in)
       IN  IF free THEN Heard(r, "availability", raw,
                              IF IsScheduled(req[r].in) THEN "insert" ELSE "ooo")
                   ELSE Finish(r)
  /\ UNCHANGED <<settings, epoch, rows, shown, refused, hung>>

\* The window sent: from now at the earliest.
WindowLength(in, pol) ==
  Span(in, pol) + (IF Start(in) < 0 THEN Start(in) ELSE 0)

\* What a window's length makes of the call, for the history.
Judge(by, len) == refused' = refused \cup IF len > UpCap * Day THEN {by} ELSE {}

\* Availability first: a refusal is a 4xx, a failure a 503, and nothing is inserted.
SetAvailability(r) ==
  /\ req[r].pc = "ooo"
  /\ LET len == WindowLength(req[r].in, req[r].pol)
     IN  /\ Judge("create", len)
         /\ \E raw \in Responses("ooo", WindowAnswers(len)) :
              IF raw = "2xx" THEN Heard(r, "ooo", raw, "insert") ELSE Finish(r)
  /\ UNCHANGED <<settings, epoch, rows, shown, hung>>

\* Mutant: the review window is read again for the INSERT.
NewRowReread(in, pol) ==
  [st |-> IF IsScheduled(in) THEN "scheduled" ELSE "active", open |-> in.end = Omitted,
   span |-> Span(in, Policy), review |-> settings.review, ver |-> 1]

NewRow(in, pol) ==
  [st |-> IF IsScheduled(in) THEN "scheduled" ELSE "active", open |-> in.end = Omitted,
   span |-> Span(in, pol), review |-> pol.review, ver |-> 1]

\* The transaction.
Insert(r) ==
  /\ req[r].pc = "insert"
  /\ \/ \E i \in Ids : /\ rows[i] = NoRow
                       /\ rows' = [rows EXCEPT ![i] = NewRow(req[r].in, req[r].pol)]
     \/ "db_fail" \in Faults /\ UNCHANGED rows
  /\ Finish(r)
  /\ UNCHANGED <<settings, epoch, shown, refused, hung>>

\* The activation job: the window the row was admitted with, from its start.
Activation(i) ==
  /\ rows[i].st = "scheduled"
  /\ Judge("activation", rows[i].span)
  /\ \E raw \in Responses("ooo", WindowAnswers(rows[i].span)) :
       rows' = IF raw = "2xx" THEN [rows EXCEPT ![i].st = "active", ![i].ver = @ + 1] ELSE rows
  /\ UNCHANGED <<settings, epoch, req, seen, shown, hung>>

-----------------------------------------------------------------------------
(***************************************************************************)
(* Extend.                                                                 *)
(***************************************************************************)
\* extend_days out of range, a row that is not active or not open: refused.
ExtendStart(r, i, days) ==
  /\ req[r].pc = "idle"
  /\ days # Omitted => InRange(days)
  /\ rows[i].st = "active" /\ rows[i].open /\ rows[i].ver < MaxVersion
  /\ req' = [req EXCEPT ![r] = [Idle EXCEPT !.pc = "extend", !.id = i, !.days = days,
                                            !.ver = rows[i].ver]]
  /\ seen' = [seen EXCEPT ![r] = {Policy}]
  /\ UNCHANGED <<settings, epoch, rows, shown, refused, hung>>

\* The body's days before the row's own; every row has its own, so the tenant's,
\* read in between, is never used.
ExtendDays(r) == IF req[r].days # Omitted THEN req[r].days ELSE rows[req[r].id].review

\* The UPDATE checks version, status and openness; a conflict is a 409 or 404.
ExtendReview(r) ==
  LET i    == req[r].id
      span == rows[i].span + ExtendDays(r) * Day
  IN  /\ req[r].pc = "extend"
      /\ \/ /\ rows[i].ver = req[r].ver /\ rows[i].st = "active" /\ rows[i].open
            /\ rows' = [rows EXCEPT ![i].span = span,
                                    ![i].review = ExtendDays(r), ![i].ver = @ + 1]
            /\ \/ /\ req' = [req EXCEPT ![r].pc = "resync", ![r].span = span]
                  /\ UNCHANGED seen
               \/ "db_lost" \in Faults /\ Finish(r)
         \/ /\ rows[i].ver # req[r].ver \/ rows[i].st # "active" \/ "db_fail" \in Faults
            /\ UNCHANGED rows /\ Finish(r)
      /\ UNCHANGED <<settings, epoch, shown, refused, hung>>

\* The window of the row as the UPDATE returned it is sent, whatever became of the
\* row since; the outcome is ignored.
ExtendResync(r) ==
  /\ req[r].pc = "resync"
  /\ \E raw \in Responses("ooo", WindowAnswers(req[r].span)) : Judge("extend", req[r].span)
  /\ Finish(r)
  /\ UNCHANGED <<settings, epoch, rows, shown, hung>>

RequestStep(r) ==
  \/ CheckDepartment(r) \/ ReadPolicy(r) \/ CheckMember(r, "delegator")
  \/ CheckMember(r, "delegate") \/ CheckBothMemberships(r) \/ CheckAvailability(r)
  \/ SetAvailability(r) \/ Insert(r) \/ ExtendReview(r) \/ ExtendResync(r)

Next ==
  \/ GetSettings
  \/ \E p \in PolicyInputs : SetSettings(p)
  \/ PurgeTenant
  \/ \E r \in Requests :
       \/ \E in \in Inputs : CreateStart(r, in)
       \/ \E i \in Ids, days \in ExtendInputs : ExtendStart(r, i, days)
       \/ RequestStep(r)
  \/ \E i \in Ids : Activation(i)

Spec == Init /\ [][Next]_vars

\* A handler goes on until it has answered.
FairSpec == Spec /\ \A r \in Requests : WF_vars(RequestStep(r))
-----------------------------------------------------------------------------
Policies == [max : PolicyDaysMin .. PolicyDaysMax, review : PolicyDaysMin .. PolicyDaysMax]

\* The types of the state, and that what is stored or sent is in the policy's
\* range although bodies are not.
TypeOK ==
  /\ Policy \in Policies /\ settings.ver \in 0 .. MaxSettings
  /\ epoch \in 0 .. MaxEpoch
  /\ refused \subseteq {"create", "activation", "extend"} /\ hung \subseteq Deps
  /\ \A i \in Ids : /\ rows[i].st \in {"none", "scheduled", "active", "deleted"}
                    /\ rows[i].span \in Nat /\ rows[i].ver \in Nat
                    /\ rows[i].open \in BOOLEAN
                    /\ rows[i].st # "none" => InRange(rows[i].review)
  /\ \A r \in Requests : /\ seen[r] \subseteq Policies
                         /\ req[r].pc = "idle" => req[r] = Idle /\ seen[r] = {}

\* Fail closed: a create that reaches its INSERT has heard an unambiguous yes on both
\* members and the department and, unless it is scheduled, on the window it sent,
\* whatever the others said and in whichever order the two membership answers came;
\* and its delegate is present, or the delegation is scheduled and nobody said that
\* he will still be away (checkBothMemberships, the clients' status rules, the OOO
\* pre-flight of Create).
OnlyVettedInserted ==
  \A r \in Requests : req[r].pc = "insert" =>
    LET in == req[r].in  heard == req[r].heard
    IN  /\ heard["delegator"] = "active" /\ heard["delegate"] = "active"
        /\ in.scope = "department" /\ CatalogConfigured => heard["catalog"] = "active"
        /\ \/ heard["availability"] \in {"available", "404"}
           \/ heard["availability"] \in {"ooo_before_start", "ooo_no_end"} /\ Start(in) > 0
        /\ Start(in) <= 0 => heard["ooo"] = "2xx"

\* A delegation is admitted under one policy that was in force while its create
\* ran: both its length and its review window come from that policy, although
\* administrators change it and the tenant is purged meanwhile.
JudgedByOnePolicy ==
  \A r \in Requests : req[r].pc = "insert" =>
    LET row == NewRow(req[r].in, req[r].pol)
    IN  \E p \in seen[r] : /\ row.review = p.review
                           /\ IF row.open THEN row.span = p.review * Day
                                          ELSE row.span <= p.max * Day

\* What Go validates, the CHECK constraints of the schema accept: no create
\* that got as far as its INSERT fails on chk_no_self_delegate, chk_scope_id,
\* chk_ends_after_starts or chk_review_window_days.
SchemaAccepts ==
  \A r \in Requests : req[r].pc = "insert" =>
    LET in == req[r].in  row == NewRow(in, req[r].pol)
    IN  /\ ~ in.self
        /\ \/ in.scope = "all" /\ ~ in.scopeId
           \/ in.scope \in {"department", "tender"} /\ in.scopeId
        /\ row.span > 0 /\ InRange(row.review)

\* Create and the activation job never send User Profile a window it refuses as
\* too long, however the policy changed since: a well-formed create is not answered
\* invalid_delegate and a scheduled delegation is not deferred for ever.
WindowAccepted == refused \subseteq {"extend"}

\* "review_due_at ... always within User Profile's 180-day cap" and "Re-synced on
\* every Extend (below) for the same reason" (Create's comment).
EveryWindowAccepted == refused = {}

\* Settings are upserted without a version check, so the last writer wins; but a
\* version names one policy until the tenant is purged, so a writer who was
\* overwritten finds out from the version of the next answer.
VersionNamesPolicy == \A s, t \in shown : s.ver = t.ver => s = t

\* Every request is answered, also while a service it asks hangs.
RequestsAnswered == \A r \in Requests : req[r].pc # "idle" ~> req[r].pc = "idle"
=============================================================================
