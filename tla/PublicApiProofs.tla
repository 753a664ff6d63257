--------------------------- MODULE PublicApiProofs ---------------------------
(***************************************************************************)
(* Proofs about PublicApi, for any tenants, users, delegations, handlers,  *)
(* TTLs and faults: its types, that lists keep tenants and users apart,    *)
(* that only the entitled change a delegation, and how stale a list is.    *)
(***************************************************************************)
EXTENDS PublicApi, TLAPS

\* A row that a query of a tenant sees is a row of that tenant.
LEMMA VisibleIsRow ==
  ASSUME TypeOK, NEW id \in Ids, NEW t, Visible(id, t)
  PROVE  rows[id] \in RowStates /\ rows[id].tenant = t
BY DEF TypeOK, Visible, NoRow

\* A list read from the table is well formed and the caller's own.
LEMMA ViewIsOwn ==
  ASSUME TypeOK, NEW k \in Keys
  PROVE  /\ View(k) \in SUBSET (Ids \X (1..MaxVer))
         /\ \A e \in View(k) : rows[e[1]].tenant = k[1] /\ rows[e[1]].owner = k[2]
<1>1. \A id \in Listed(k) : rows[id] \in RowStates /\ rows[id].tenant = k[1] /\ rows[id].owner = k[2]
  BY VisibleIsRow DEF Listed
<1>2. Listed(k) \subseteq Ids
  BY DEF Listed
<1>. QED  BY <1>1, <1>2 DEF View, RowStates

\* The types of the requests.
ReqTypes == req \in [Requests -> {Idle} \cup ReqStates] /\ \A r \in Requests : Knows(req[r])

LEMMA BusyIsReq ==
  ASSUME TypeOK, NEW r \in Requests, req[r].pc # "idle"
  PROVE  req[r] \in ReqStates /\ Knows(req[r])
BY DEF TypeOK, Idle

\* A request that has just been admitted is of an identified caller.
LEMMA AdmittedIsReq ==
  ASSUME NEW route \in {"list", "create", "cancel", "extend", "reassign"}, NEW q \in Admitted(route)
  PROVE  /\ \E u \in Users, t \in Tenants :
              q = [pc |-> "idle", route |-> route, user |-> u, tenant |-> t,
                   target |-> None, owner |-> None, list |-> {}, age |-> 0]
         /\ [q EXCEPT !.pc = "query"] \in ReqStates
<1>1. PICK k \in Keys : q = [Idle EXCEPT !.route = route, !.user = k[2], !.tenant = k[1]]
  BY DEF Admitted
<1>2. q = [pc |-> "idle", route |-> route, user |-> k[2], tenant |-> k[1],
           target |-> None, owner |-> None, list |-> {}, age |-> 0]
  BY <1>1 DEF Idle
<1>3. k[2] \in Users /\ k[1] \in Tenants
  BY DEF Keys
<1>4. [q EXCEPT !.pc = "query"] \in ReqStates
  <2>1. [q EXCEPT !.pc = "query"]
          = [pc |-> "query", route |-> route, user |-> k[2], tenant |-> k[1],
             target |-> None, owner |-> None, list |-> {}, age |-> 0]
    BY <1>2
  <2>. QED  BY <2>1, <1>3, ApiAssumption DEF ReqStates
<1>. QED  BY <1>2, <1>3, <1>4

\* A handler goes on with q, or is done.
LEMMA StepTypes ==
  ASSUME TypeOK, NEW r \in Requests, NEW q, NEW pc,
         [q EXCEPT !.pc = pc] \in ReqStates, Knows([q EXCEPT !.pc = pc]), Step(r, q, pc)
  PROVE  ReqTypes'
BY DEF TypeOK, ReqTypes, Step

LEMMA RespondTypes ==
  ASSUME TypeOK, NEW r \in Requests, Respond(r)
  PROVE  ReqTypes'
BY DEF TypeOK, ReqTypes, Respond, Knows, Idle, Working

LEMMA TypesInit == ASSUME Init PROVE TypeOK
BY ApiAssumption DEF Init, TypeOK, Idle, Keys, Working, Knows

\* A transaction writes a well-formed row and leaves a well-formed request.
LEMMA CommitTypes ==
  ASSUME TypeOK, NEW r \in Requests, NEW q, NEW id \in Ids, NEW row \in RowStates,
         NEW pc \in {"evict", "evict_then_insert"},
         [q EXCEPT !.pc = "query"] \in ReqStates,
         Commit(r, q, id, row, pc)
  PROVE  TypeOK'
<1>1. rows' \in [Ids -> {NoRow} \cup RowStates]
  BY ApiAssumption DEF TypeOK, Commit, RowStates, Horizon
<1>2. ReqTypes'
  <2>1. CASE Step(r, [q EXCEPT !.owner = row.owner], pc)
    <3>1. [[q EXCEPT !.owner = row.owner] EXCEPT !.pc = pc] \in ReqStates
      BY DEF ReqStates, RowStates, Working
    <3>2. Knows([[q EXCEPT !.owner = row.owner] EXCEPT !.pc = pc])
      BY DEF Knows, RowStates, ReqStates, Working
    <3>. QED  BY <2>1, <3>1, <3>2, StepTypes
  <2>2. CASE Respond(r)
    BY <2>2, RespondTypes
  <2>. QED  BY <2>1, <2>2 DEF Commit
<1>3. tainted' \subseteq Keys
  BY DEF Commit, Taint, TypeOK, Keys, RowStates
<1>. QED  BY <1>1, <1>2, <1>3 DEF Commit, TypeOK, ReqTypes

\* An insert is a well-formed transaction of a well-formed request.
LEMMA CreatedRequest ==
  ASSUME TypeOK, NEW r \in Requests, CreateCommit(r)
  PROVE  \E q : \E id \in Ids, row \in RowStates :
           [q EXCEPT !.pc = "query"] \in ReqStates /\ Commit(r, q, id, row, "evict")
<1>1. PICK q \in IF req[r].pc = "insert" THEN {req[r]}
                 ELSE {[p EXCEPT !.owner = p.user] : p \in Admitted("create")},
           id \in Ids, status \in {"active", "scheduled"} :
        Commit(r, q, id, [tenant |-> q.tenant, owner |-> q.owner, status |-> status,
                          ver |-> 1, age |-> 0], "evict")
  BY DEF CreateCommit
<1>2. [q EXCEPT !.pc = "query"] \in ReqStates /\ q.tenant \in Tenants /\ q.owner \in Users
  <2>1. CASE req[r].pc = "insert"
    BY <2>1, <1>1, BusyIsReq DEF Knows, ReqStates, Working
  <2>2. CASE req[r].pc # "insert"
    <3>1. PICK p \in Admitted("create") : q = [p EXCEPT !.owner = p.user]
      BY <2>2, <1>1, Zenon
    <3>2. PICK u \in Users, t \in Tenants :
            p = [pc |-> "idle", route |-> "create", user |-> u, tenant |-> t,
                 target |-> None, owner |-> None, list |-> {}, age |-> 0]
      BY AdmittedIsReq
    <3>3. q = [pc |-> "idle", route |-> "create", user |-> u, tenant |-> t,
               target |-> None, owner |-> u, list |-> {}, age |-> 0]
      BY <3>1, <3>2
    <3>4. [q EXCEPT !.pc = "query"]
            = [pc |-> "query", route |-> "create", user |-> u, tenant |-> t,
               target |-> None, owner |-> u, list |-> {}, age |-> 0]
      BY <3>3
    <3>. QED  BY <3>3, <3>4, ApiAssumption DEF ReqStates
  <2>. QED  BY <2>1, <2>2
<1>3. [tenant |-> q.tenant, owner |-> q.owner, status |-> status, ver |-> 1, age |-> 0] \in RowStates
  BY <1>2, ApiAssumption DEF RowStates, Horizon
<1>. QED  BY <1>1, <1>2, <1>3

\* Every step keeps the types.
LEMMA TypesStep == ASSUME TypeOK, [Next]_vars PROVE TypeOK'
<1>1. ASSUME NEW r \in Requests, ListGet(r) PROVE TypeOK'
  <2>1. PICK q \in Admitted("list") : Step(r, q, "query")
    BY <1>1 DEF ListGet
  <2>2. Knows([q EXCEPT !.pc = "query"])
    BY <2>1, AdmittedIsReq DEF Knows, Working, ReqStates
  <2>3. ReqTypes'
    BY <2>1, <2>2, AdmittedIsReq, StepTypes
  <2>. QED  BY <1>1, <2>3 DEF ListGet, TypeOK, ReqTypes
<1>2. ASSUME NEW r \in Requests, ListQuery(r) PROVE TypeOK'
  <2>. DEFINE k == <<req[r].tenant, req[r].user>>
              q == [req[r] EXCEPT !.list = View(k)]
  <2>1. req[r] \in ReqStates /\ k \in Keys
    BY <1>2, BusyIsReq DEF ListQuery, ReqStates, Keys
  <2>2. [q EXCEPT !.pc = "fill"] \in ReqStates /\ Knows([q EXCEPT !.pc = "fill"])
    BY <2>1, ViewIsOwn DEF ReqStates, Knows, Working
  <2>3. ReqTypes'
    BY <1>2, <2>2, StepTypes DEF ListQuery
  <2>. QED  BY <1>2, <2>3 DEF ListQuery, TypeOK, ReqTypes
<1>3. ASSUME NEW r \in Requests, ListFill(r) PROVE TypeOK'
  <2>1. req[r] \in ReqStates /\ ListKey(req[r]) \in Keys
    BY <1>3, BusyIsReq DEF ListFill, ReqStates, Keys, ListKey
  <2>2. cache' \in [Keys -> {None} \cup Entries]
    BY <1>3, <2>1, ApiAssumption DEF ListFill, TypeOK, Entries, ReqStates
  <2>. QED  BY <1>3, <2>2, RespondTypes DEF ListFill, TypeOK, ReqTypes
<1>4. ASSUME NEW r \in Requests, Authorise(r) PROVE TypeOK'
  <2>0. PICK route \in {"cancel", "extend", "reassign"}, id \in Ids :
          \E p \in Admitted(route) : Step(r, [p EXCEPT !.target = id], "act")
    BY <1>4 DEF Authorise
  <2>1. PICK p \in Admitted(route) : Step(r, [p EXCEPT !.target = id], "act")
    BY <2>0
  <2>2. /\ [[p EXCEPT !.target = id] EXCEPT !.pc = "act"] \in ReqStates
        /\ Knows([[p EXCEPT !.target = id] EXCEPT !.pc = "act"])
    <3>1. route \in {"list", "create", "cancel", "extend", "reassign"}
      BY <2>0
    <3>2. PICK u \in Users, t \in Tenants :
            p = [pc |-> "idle", route |-> route, user |-> u, tenant |-> t,
                 target |-> None, owner |-> None, list |-> {}, age |-> 0]
      BY <2>1, <3>1, AdmittedIsReq, Zenon
    <3>3. [p EXCEPT !.target = id]
            = [pc |-> "idle", route |-> route, user |-> u, tenant |-> t,
               target |-> id, owner |-> None, list |-> {}, age |-> 0]
      BY <3>2
    <3>4. [[p EXCEPT !.target = id] EXCEPT !.pc = "act"]
            = [pc |-> "act", route |-> route, user |-> u, tenant |-> t,
               target |-> id, owner |-> None, list |-> {}, age |-> 0]
      <4>1. ASSUME NEW w, w = [pc |-> "idle", route |-> route, user |-> u, tenant |-> t,
                               target |-> id, owner |-> None, list |-> {}, age |-> 0]
            PROVE  [w EXCEPT !.pc = "act"]
                     = [pc |-> "act", route |-> route, user |-> u, tenant |-> t,
                        target |-> id, owner |-> None, list |-> {}, age |-> 0]
        BY <4>1
      <4>. QED  BY <3>3, <4>1, Zenon
    <3>. QED  BY <2>0, <3>1, <3>2, <3>4, ApiAssumption DEF ReqStates, Knows, Working
  <2>3. ReqTypes'
    BY <2>1, <2>2, StepTypes
  <2>. QED  BY <1>4, <2>3 DEF Authorise, TypeOK, ReqTypes
<1>5. ASSUME NEW r \in Requests, ServiceRefuses(r) PROVE TypeOK'
  BY <1>5, RespondTypes DEF ServiceRefuses, TypeOK, ReqTypes
<1>6. ASSUME NEW r \in Requests, CancelCommit(r) PROVE TypeOK'
  <2>1. req[r] \in ReqStates /\ Knows(req[r]) /\ req[r].pc = "act"
    BY <1>6, BusyIsReq DEF CancelCommit
  <2>2. [req[r] EXCEPT !.pc = "query"] \in ReqStates /\ req[r].target \in Ids
    BY <2>1 DEF Knows, ReqStates
  <2>3. [rows[req[r].target] EXCEPT !.status = "over"] \in RowStates
    BY <1>6, <2>2, VisibleIsRow DEF CancelCommit, RowStates
  <2>. QED  BY <1>6, <2>2, <2>3, CommitTypes DEF CancelCommit
<1>7. ASSUME NEW r \in Requests, ExtendCommit(r) PROVE TypeOK'
  <2>1. req[r] \in ReqStates /\ Knows(req[r]) /\ req[r].pc = "act"
    BY <1>7, BusyIsReq DEF ExtendCommit
  <2>2. [req[r] EXCEPT !.pc = "query"] \in ReqStates /\ req[r].target \in Ids
    BY <2>1 DEF Knows, ReqStates
  <2>3. [rows[req[r].target] EXCEPT !.ver = @ + 1] \in RowStates
    BY <1>7, <2>2, VisibleIsRow, ApiAssumption DEF ExtendCommit, RowStates
  <2>. QED  BY <1>7, <2>2, <2>3, CommitTypes DEF ExtendCommit
<1>8. ASSUME NEW r \in Requests, CreateCommit(r) PROVE TypeOK'
  <2>0. PICK q : \E id \in Ids, row \in RowStates :
          [q EXCEPT !.pc = "query"] \in ReqStates /\ Commit(r, q, id, row, "evict")
    BY <1>8, CreatedRequest
  <2>1. PICK id \in Ids, row \in RowStates :
          [q EXCEPT !.pc = "query"] \in ReqStates /\ Commit(r, q, id, row, "evict")
    BY <2>0
  <2>. QED  BY <2>1, CommitTypes
<1>9. ASSUME NEW r \in Requests, Evict(r) PROVE TypeOK'
  <2>1. req[r] \in ReqStates /\ req[r].owner \in Users /\ EvictedKey(req[r]) \in Keys
    BY <1>9, BusyIsReq DEF Evict, Knows, Working, ReqStates, Keys, EvictedKey
  <2>2. ReqTypes'
    <3>1. CASE Step(r, req[r], "insert")
      BY <3>1, <2>1, StepTypes DEF ReqStates, Knows, Working
    <3>. QED  BY <1>9, <3>1, RespondTypes DEF Evict
  <2>3. cache' \in [Keys -> {None} \cup Entries] /\ tainted' \subseteq Keys
    BY <1>9, <2>1 DEF Evict, TypeOK, Taint
  <2>. QED  BY <1>9, <2>2, <2>3 DEF Evict, TypeOK, ReqTypes
<1>10. ASSUME NEW r \in Requests, TimeUp(r) PROVE TypeOK'
  <2>1. tainted' \subseteq Keys
    BY <1>10, BusyIsReq DEF TimeUp, Taint, TypeOK, Knows, Working, ReqStates, Keys
  <2>. QED  BY <1>10, <2>1, RespondTypes DEF TimeUp, TypeOK, ReqTypes
<1>11. ASSUME NEW id \in Ids, JobChange(id) PROVE TypeOK'
  <2>1. rows[id] \in RowStates
    BY <1>11 DEF JobChange, TypeOK, NoRow
  <2>2. rows' \in [Ids -> {NoRow} \cup RowStates]
    BY <1>11, <2>1, ApiAssumption DEF JobChange, TypeOK, RowStates, Horizon
  <2>. QED  BY <1>11, <2>1, <2>2 DEF JobChange, TypeOK, Taint, Keys, RowStates
<1>12. CASE Tick
  <2>1. rows' \in [Ids -> {NoRow} \cup RowStates]
    BY <1>12, ApiAssumption DEF Tick, TypeOK, RowStates, NoRow, Horizon
  <2>2. cache' \in [Keys -> {None} \cup Entries]
    BY <1>12, ApiAssumption DEF Tick, TypeOK, Entries
  <2>3. ReqTypes'
    <3>1. \A r \in Requests : req'[r] \in {Idle} \cup ReqStates /\ Knows(req'[r])
      <4>. SUFFICES ASSUME NEW r \in Requests PROVE req'[r] \in {Idle} \cup ReqStates /\ Knows(req'[r])
        OBVIOUS
      <4>1. CASE req[r].pc = "idle"
        BY <4>1, <1>12 DEF Tick, TypeOK
      <4>2. CASE req[r].pc # "idle"
        <5>1. req'[r] = [req[r] EXCEPT !.age = @ + 1] /\ req[r].age # RequestTimeout
          BY <4>2, <1>12 DEF Tick, Late
        <5>2. req[r] \in ReqStates /\ Knows(req[r])
          BY <4>2, BusyIsReq
        <5>3. req[r].age \in 0..RequestTimeout
          BY <5>2 DEF ReqStates
        <5>4. req[r].age + 1 \in 0..RequestTimeout
          BY <5>1, <5>3, ApiAssumption
        <5>5. req'[r] \in ReqStates
          BY <5>1, <5>2, <5>4 DEF ReqStates
        <5>6. Knows(req'[r])
          BY <5>1, <5>2 DEF Knows, ReqStates
        <5>. QED  BY <5>5, <5>6
      <4>. QED  BY <4>1, <4>2
    <3>. QED  BY <3>1, <1>12 DEF Tick, ReqTypes
  <2>. QED  BY <1>12, <2>1, <2>2, <2>3 DEF Tick, TypeOK, ReqTypes
<1>13. CASE UNCHANGED vars
  BY <1>13 DEF vars, TypeOK, Knows
<1>. QED  BY <1>1, <1>2, <1>3, <1>4, <1>5, <1>6, <1>7, <1>8, <1>9, <1>10, <1>11, <1>12, <1>13
          DEF Next, HandlerStep

(***************************************************************************)
(* Every reachable state is well formed: rows, entries and requests have   *)
(* the shapes that the handlers rely on, whatever fails.                   *)
(***************************************************************************)
THEOREM TypeCorrect == Spec => []TypeOK
BY TypesInit, TypesStep, PTL DEF Spec

\* A row that exists keeps its tenant and its delegator.
Kept == \A id \in Ids : rows[id] \in RowStates =>
          rows'[id].tenant = rows[id].tenant /\ rows'[id].owner = rows[id].owner

\* No statement moves a delegation to another tenant or another delegator.
LEMMA RowsKept == ASSUME TypeOK, [Next]_vars PROVE Kept
<1>1. ASSUME NEW r \in Requests, CancelCommit(r) PROVE Kept
  BY <1>1 DEF CancelCommit, Commit, Kept, TypeOK, RowStates
<1>2. ASSUME NEW r \in Requests, ExtendCommit(r) PROVE Kept
  BY <1>2 DEF ExtendCommit, Commit, Kept, TypeOK, RowStates
<1>3. ASSUME NEW r \in Requests, CreateCommit(r) PROVE Kept
  BY <1>3 DEF CreateCommit, Commit, Kept, TypeOK, RowStates
<1>4. ASSUME NEW id \in Ids, JobChange(id) PROVE Kept
  BY <1>4 DEF JobChange, Kept, TypeOK, RowStates
<1>5. CASE Tick
  BY <1>5 DEF Tick, Kept, TypeOK, RowStates
<1>6. ASSUME UNCHANGED rows PROVE Kept
  BY <1>6 DEF Kept
<1>. QED  BY <1>1, <1>2, <1>3, <1>4, <1>5, <1>6
          DEF Next, HandlerStep, vars, ListGet, ListQuery, ListFill, Authorise, ServiceRefuses,
              Evict, TimeUp

\* What is the caller's own stays the caller's own.
LEMMA OwnStaysOwn ==
  ASSUME TypeOK, Kept, NEW k \in Keys, NEW list \in SUBSET (Ids \X (1..MaxVer)),
         \A e \in list : rows[e[1]].tenant = k[1] /\ rows[e[1]].owner = k[2]
  PROVE  \A e \in list : rows'[e[1]].tenant = k[1] /\ rows'[e[1]].owner = k[2]
<1>. SUFFICES ASSUME NEW e \in list
              PROVE  rows'[e[1]].tenant = k[1] /\ rows'[e[1]].owner = k[2]
  OBVIOUS
<1>1. e[1] \in Ids /\ rows[e[1]].tenant = k[1] /\ rows[e[1]].owner = k[2]
  OBVIOUS
<1>2. rows[e[1]] \in RowStates
  BY <1>1, ApiAssumption DEF TypeOK, NoRow, Keys
<1>. QED  BY <1>1, <1>2 DEF Kept

\* Where the lists of a state come from: the state before, or a query.
LEMMA AnswersComeFrom ==
  ASSUME TypeOK, [Next]_vars, NEW k \in Keys, NEW list \in Answers(k)'
  PROVE  list \in Answers(k) \/ list = View(k)
<1>1. ASSUME NEW j \in {k}, cache'[j] # None, list = cache'[j].list
      PROVE  list \in Answers(k)
  <2>1. ASSUME NEW r \in Requests, ListFill(r) PROVE list \in Answers(k)
    <3>1. req[r] \in ReqStates /\ ListKey(req[r]) \in Keys
      BY <2>1, BusyIsReq DEF ListFill, ReqStates, Keys, ListKey
    <3>2. CASE k = ListKey(req[r]) /\ cache' # cache
      BY <3>2, <3>1, <2>1, <1>1 DEF ListFill, Answers, TypeOK, ListKey
    <3>3. CASE k # ListKey(req[r]) \/ cache' = cache
      BY <3>3, <3>1, <2>1, <1>1 DEF ListFill, Answers, TypeOK
    <3>. QED  BY <3>2, <3>3
  <2>2. ASSUME NEW r \in Requests, Evict(r) PROVE list \in Answers(k)
    BY <2>2, <1>1 DEF Evict, Answers, TypeOK
  <2>3. CASE Tick
    BY <2>3, <1>1 DEF Tick, Answers, TypeOK, Entries
  <2>4. CASE UNCHANGED cache
    BY <2>4, <1>1 DEF Answers
  <2>. QED  BY <2>1, <2>2, <2>3, <2>4
            DEF Next, HandlerStep, vars, ListGet, ListQuery, Authorise, ServiceRefuses,
                CancelCommit, ExtendCommit, CreateCommit, Commit, JobChange, TimeUp
<1>2. ASSUME NEW s \in Requests, req'[s].pc = "fill", <<req'[s].tenant, req'[s].user>> = k,
             list = req'[s].list
      PROVE  list \in Answers(k) \/ list = View(k)
  <2>1. CASE req'[s] = req[s]
    BY <2>1, <1>2 DEF Answers
  <2>2. ASSUME NEW r \in Requests, ListQuery(r) PROVE list \in Answers(k) \/ list = View(k)
    BY <2>2, <1>2, <2>1, BusyIsReq DEF ListQuery, Step, TypeOK, ReqStates
  <2>3. CASE Tick
    BY <2>3, <1>2, BusyIsReq DEF Tick, TypeOK, Answers, ReqStates, Idle
  <2>4. ASSUME NEW r \in Requests, NEW q, NEW pc, [q EXCEPT !.pc = pc].pc # "fill", Step(r, q, pc)
        PROVE  req'[s] = req[s]
    BY <2>4, <1>2 DEF Step, TypeOK
  <2>5. ASSUME NEW r \in Requests, Respond(r) PROVE req'[s] = req[s]
    BY <2>5, <1>2 DEF Respond, TypeOK, Idle
  <2>6. ASSUME NEW r \in Requests, ListGet(r) PROVE req'[s] = req[s]
    <3>1. PICK q \in Admitted("list") : Step(r, q, "query")
      BY <2>6 DEF ListGet
    <3>2. [q EXCEPT !.pc = "query"].pc = "query"
      BY AdmittedIsReq
    <3>. QED  BY <3>1, <3>2, <2>4
  <2>7. ASSUME NEW r \in Requests, Authorise(r) PROVE req'[s] = req[s]
    <3>1. PICK route \in {"cancel", "extend", "reassign"}, id \in Ids :
            \E p \in Admitted(route) : Step(r, [p EXCEPT !.target = id], "act")
      BY <2>7 DEF Authorise
    <3>2. PICK p \in Admitted(route) : Step(r, [p EXCEPT !.target = id], "act")
      BY <3>1
    <3>3. [[p EXCEPT !.target = id] EXCEPT !.pc = "act"].pc = "act"
      BY AdmittedIsReq
    <3>. QED  BY <3>2, <3>3, <2>4
  <2>8. ASSUME NEW r \in Requests, NEW q, NEW id, NEW row, NEW pc \in {"evict", "evict_then_insert"},
               [q EXCEPT !.pc = "query"] \in ReqStates, Commit(r, q, id, row, pc)
        PROVE  req'[s] = req[s]
    <3>1. [[q EXCEPT !.owner = row.owner] EXCEPT !.pc = pc].pc = pc
      BY <2>8 DEF ReqStates
    <3>. QED  BY <2>8, <3>1, <2>4, <2>5 DEF Commit
  <2>9. ASSUME NEW r \in Requests, CancelCommit(r) \/ ExtendCommit(r) PROVE req'[s] = req[s]
    <3>1. [req[r] EXCEPT !.pc = "query"] \in ReqStates
      BY <2>9, BusyIsReq DEF CancelCommit, ExtendCommit, ReqStates
    <3>. QED  BY <2>9, <3>1, <2>8 DEF CancelCommit, ExtendCommit
  <2>10. ASSUME NEW r \in Requests, CreateCommit(r) PROVE req'[s] = req[s]
    BY <2>10, CreatedRequest, <2>8
  <2>11. ASSUME NEW r \in Requests, Evict(r) PROVE req'[s] = req[s]
    <3>1. [req[r] EXCEPT !.pc = "insert"].pc = "insert"
      BY <2>11, BusyIsReq DEF Evict, ReqStates
    <3>. QED  BY <2>11, <3>1, <2>4, <2>5 DEF Evict
  <2>. QED  BY <2>1, <2>2, <2>3, <2>5, <2>6, <2>7, <2>9, <2>10, <2>11
            DEF Next, HandlerStep, vars, ListFill, ServiceRefuses, JobChange, TimeUp
<1>. QED  BY <1>1, <1>2 DEF Answers

(***************************************************************************)
(* DLG-1 never tells of another tenant or another user, through the cache  *)
(* or not: a list is the caller's own when it is read, and delegations     *)
(* never change hands.                                                     *)
(***************************************************************************)
THEOREM ListsStayApart == Spec => []TenantsApart
<1>1. Init => TenantsApart
  BY DEF Init, TenantsApart, Answers, Idle
<1>2. TypeOK /\ TypeOK' /\ TenantsApart /\ [Next]_vars => TenantsApart'
  <2>. SUFFICES ASSUME TypeOK, TypeOK', TenantsApart, [Next]_vars, NEW k \in Keys,
                       NEW list \in Answers(k)'
                PROVE  \A e \in list : rows'[e[1]].tenant = k[1] /\ rows'[e[1]].owner = k[2]
    BY DEF TenantsApart
  <2>1. Kept
    BY RowsKept
  <2>2. list \in Answers(k) \/ list = View(k)
    BY AnswersComeFrom
  <2>3. list \in SUBSET (Ids \X (1..MaxVer))
    BY DEF TypeOK, Answers, Entries, ReqStates, Idle
  <2>4. \A e \in list : rows[e[1]].tenant = k[1] /\ rows[e[1]].owner = k[2]
    BY <2>2, ViewIsOwn DEF TenantsApart
  <2>. QED  BY <2>1, <2>3, <2>4, OwnStaysOwn
<1>. QED  BY <1>1, <1>2, TypeCorrect, PTL DEF Spec

(***************************************************************************)
(* What the steps of a handler do, as the proofs below use it.             *)
(***************************************************************************)
\* Only r goes on; every other handler stays where it is.
Others(r) == \A s \in Requests \ {r} : req'[s] = req[s]

\* A transaction of r writes the row id and leads to the eviction of its list, or
\* its acknowledgement is lost.
Writes(r, id, row) ==
  /\ rows' = [rows EXCEPT ![id] = row] /\ row.age = 0
  /\ \/ /\ rows[id].status = "absent" /\ req[r].pc \in {"idle", "insert"}
        /\ req[r].pc = "insert" => row.tenant = req[r].tenant /\ row.owner = req[r].owner
     \/ /\ rows[id].status # "absent" /\ req[r].pc = "act" /\ id = req[r].target
        /\ row.tenant = rows[id].tenant /\ row.owner = rows[id].owner
  /\ cache' = cache /\ Others(r)
  /\ \/ /\ req'[r].pc \in {"evict", "evict_then_insert"} /\ tainted' = tainted
        /\ req'[r].tenant = row.tenant /\ req'[r].owner = row.owner
        /\ req'[r].pc = "evict_then_insert" =>
             /\ req[r].pc = "act" /\ req'[r].target = req[r].target
             /\ req'[r].tenant = req[r].tenant /\ req'[r].user = req[r].user
     \/ req'[r] = Idle /\ Taint(<<row.tenant, row.owner>>)

LEMMA RespondShape ==
  ASSUME TypeOK, NEW r \in Requests, Respond(r)
  PROVE  Others(r) /\ req'[r] = Idle
BY DEF TypeOK, Respond, Others

LEMMA StepShape ==
  ASSUME TypeOK, NEW r \in Requests, NEW q, NEW pc, Step(r, q, pc)
  PROVE  Others(r) /\ req'[r] = [q EXCEPT !.pc = pc]
BY DEF TypeOK, Step, Others

\* A transaction on a row that the request has looked at.
LEMMA ChangeWrites ==
  ASSUME TypeOK, NEW r \in Requests, req[r].pc = "act",
         Visible(req[r].target, req[r].tenant), NEW row \in RowStates,
         row.tenant = rows[req[r].target].tenant, row.owner = rows[req[r].target].owner,
         NEW pc \in {"evict", "evict_then_insert"}, Commit(r, req[r], req[r].target, row, pc)
  PROVE  \E id \in Ids, new \in RowStates : Writes(r, id, new)
<1>. DEFINE id == req[r].target
            new == [row EXCEPT !.age = 0]
<1>0. req[r] \in ReqStates /\ id \in Ids
  BY BusyIsReq DEF Knows
<1>1. new \in RowStates /\ new.age = 0 /\ new.tenant = row.tenant /\ new.owner = row.owner
  BY ApiAssumption DEF RowStates, Horizon
<1>2. rows' = [rows EXCEPT ![id] = new] /\ cache' = cache
  BY DEF Commit
<1>3. rows[id].status # "absent" /\ rows[id].tenant = req[r].tenant
  BY DEF Visible
<1>4. CASE Step(r, [req[r] EXCEPT !.owner = row.owner], pc) /\ UNCHANGED tainted
  <2>1. Others(r) /\ req'[r] = [[req[r] EXCEPT !.owner = row.owner] EXCEPT !.pc = pc]
    BY <1>4, StepShape
  <2>2. /\ req'[r].pc = pc /\ req'[r].owner = row.owner /\ req'[r].target = id
        /\ req'[r].tenant = req[r].tenant /\ req'[r].user = req[r].user
    BY <1>0, <2>1 DEF ReqStates
  <2>. HIDE DEF id, new
  <2>3. Writes(r, id, new)
    BY <1>1, <1>2, <1>3, <1>4, <2>1, <2>2 DEF Writes, id
  <2>. QED  BY <1>0, <1>1, <2>3 DEF id
<1>5. CASE Respond(r) /\ Taint(<<row.tenant, row.owner>>)
  <2>1. Others(r) /\ req'[r] = Idle
    BY <1>5, RespondShape
  <2>2. Taint(<<new.tenant, new.owner>>)
    BY <1>1, <1>5, Zenon
  <2>. HIDE DEF new
  <2>3. Writes(r, id, new)
    BY <1>1, <1>2, <1>3, <2>1, <2>2 DEF Writes
  <2>. QED  BY <1>0, <1>1, <2>3
<1>. QED  BY <1>4, <1>5 DEF Commit

LEMMA CancelWrites ==
  ASSUME TypeOK, NEW r \in Requests, CancelCommit(r)
  PROVE  \E id \in Ids, row \in RowStates : Writes(r, id, row)
<1>. DEFINE row == [rows[req[r].target] EXCEPT !.status = "over"]
<1>1. req[r].pc = "act" /\ Visible(req[r].target, req[r].tenant) /\ req[r].target \in Ids
  BY BusyIsReq DEF CancelCommit, Knows
<1>2. row \in RowStates /\ row.tenant = rows[req[r].target].tenant /\ row.owner = rows[req[r].target].owner
  BY <1>1, VisibleIsRow DEF RowStates
<1>3. PICK pc \in {"evict", "evict_then_insert"} : Commit(r, req[r], req[r].target, row, pc)
  BY DEF CancelCommit
<1>. HIDE DEF row
<1>. QED  BY <1>1, <1>2, <1>3, ChangeWrites

LEMMA ExtendWrites ==
  ASSUME TypeOK, NEW r \in Requests, ExtendCommit(r)
  PROVE  \E id \in Ids, row \in RowStates : Writes(r, id, row)
<1>. DEFINE row == [rows[req[r].target] EXCEPT !.ver = @ + 1]
<1>1. /\ req[r].pc = "act" /\ Visible(req[r].target, req[r].tenant) /\ req[r].target \in Ids
      /\ rows[req[r].target].ver < MaxVer
  BY BusyIsReq DEF ExtendCommit, Knows
<1>2. row \in RowStates /\ row.tenant = rows[req[r].target].tenant /\ row.owner = rows[req[r].target].owner
  BY <1>1, VisibleIsRow, ApiAssumption DEF RowStates
<1>3. Commit(r, req[r], req[r].target, row, "evict")
  BY DEF ExtendCommit
<1>. HIDE DEF row
<1>. QED  BY <1>1, <1>2, <1>3, ChangeWrites

LEMMA CreateWrites ==
  ASSUME TypeOK, NEW r \in Requests, CreateCommit(r)
  PROVE  \E id \in Ids, row \in RowStates : Writes(r, id, row)
<1>1. PICK q \in IF req[r].pc = "insert" THEN {req[r]}
                 ELSE {[p EXCEPT !.owner = p.user] : p \in Admitted("create")},
           id \in Ids, status \in {"active", "scheduled"} :
        /\ req[r].pc \in {"idle", "insert"} /\ rows[id].status = "absent"
        /\ Commit(r, q, id, [tenant |-> q.tenant, owner |-> q.owner, status |-> status,
                             ver |-> 1, age |-> 0], "evict")
  BY DEF CreateCommit
<1>. DEFINE row == [tenant |-> q.tenant, owner |-> q.owner, status |-> status, ver |-> 1, age |-> 0]
<1>2. /\ q.tenant \in Tenants /\ q.owner \in Users
      /\ req[r].pc = "insert" => q = req[r]
      /\ [[q EXCEPT !.owner = q.owner] EXCEPT !.pc = "evict"].pc = "evict"
      /\ [[q EXCEPT !.owner = q.owner] EXCEPT !.pc = "evict"].tenant = q.tenant
      /\ [[q EXCEPT !.owner = q.owner] EXCEPT !.pc = "evict"].owner = q.owner
  <2>1. CASE req[r].pc = "insert"
    BY <2>1, <1>1, BusyIsReq DEF Knows, ReqStates, Working
  <2>2. CASE req[r].pc # "insert"
    <3>1. PICK p \in Admitted("create") : q = [p EXCEPT !.owner = p.user]
      BY <2>2, <1>1, Zenon
    <3>2. PICK u \in Users, t \in Tenants :
            p = [pc |-> "idle", route |-> "create", user |-> u, tenant |-> t,
                 target |-> None, owner |-> None, list |-> {}, age |-> 0]
      BY AdmittedIsReq
    <3>3. q = [pc |-> "idle", route |-> "create", user |-> u, tenant |-> t,
               target |-> None, owner |-> u, list |-> {}, age |-> 0]
      BY <3>1, <3>2
    <3>. QED  BY <2>2, <3>3
  <2>. QED  BY <2>1, <2>2
<1>3. /\ row \in RowStates /\ row.age = 0 /\ [row EXCEPT !.age = 0] = row
      /\ row.tenant = q.tenant /\ row.owner = q.owner
  BY <1>2, ApiAssumption DEF RowStates, Horizon
<1>4. Commit(r, q, id, row, "evict")
  BY <1>1
<1>. HIDE DEF row
<1>5. rows' = [rows EXCEPT ![id] = row] /\ cache' = cache
  BY <1>3, <1>4 DEF Commit
<1>6. /\ Others(r)
      /\ \/ /\ req'[r].pc = "evict" /\ req'[r].tenant = row.tenant /\ req'[r].owner = row.owner
            /\ tainted' = tainted
         \/ req'[r] = Idle /\ Taint(<<row.tenant, row.owner>>)
  <2>1. CASE Step(r, [q EXCEPT !.owner = row.owner], "evict") /\ UNCHANGED tainted
    <3>1. Others(r) /\ req'[r] = [[q EXCEPT !.owner = q.owner] EXCEPT !.pc = "evict"]
      <4>1. Step(r, [q EXCEPT !.owner = q.owner], "evict")
        BY <2>1, <1>3, Zenon
      <4>. QED  BY <4>1, StepShape
    <3>. QED  BY <2>1, <3>1, <1>2, <1>3
  <2>2. CASE Respond(r) /\ Taint(<<row.tenant, row.owner>>)
    BY <2>2, RespondShape
  <2>. QED  BY <2>1, <2>2, <1>4 DEF Commit
<1>7. Writes(r, id, row)
  BY <1>1, <1>2, <1>3, <1>5, <1>6 DEF Writes
<1>. QED  BY <1>1, <1>3, <1>7

\* The steps of a handler that write no row.
LEMMA ListGetShape ==
  ASSUME TypeOK, NEW r \in Requests, ListGet(r)
  PROVE  /\ Others(r) /\ req[r].pc = "idle" /\ req'[r].pc = "query"
         /\ UNCHANGED <<rows, cache, tainted>>
<1>1. PICK q \in Admitted("list") : Step(r, q, "query")
  BY DEF ListGet
<1>2. Others(r) /\ req'[r] = [q EXCEPT !.pc = "query"]
  BY <1>1, StepShape
<1>3. [q EXCEPT !.pc = "query"].pc = "query"
  BY AdmittedIsReq
<1>. QED  BY <1>2, <1>3 DEF ListGet

LEMMA ListQueryShape ==
  ASSUME TypeOK, NEW r \in Requests, ListQuery(r)
  PROVE  /\ Others(r) /\ req[r].pc = "query" /\ req'[r].pc = "fill"
         /\ req'[r].tenant = req[r].tenant /\ req'[r].user = req[r].user /\ req'[r].age = req[r].age
         /\ req'[r].list = View(<<req[r].tenant, req[r].user>>)
         /\ UNCHANGED <<rows, cache, tainted>>
<1>. DEFINE v == View(<<req[r].tenant, req[r].user>>)
<1>1. Others(r) /\ req'[r] = [[req[r] EXCEPT !.list = v] EXCEPT !.pc = "fill"]
  BY StepShape DEF ListQuery
<1>2. req[r] \in ReqStates
  BY BusyIsReq DEF ListQuery
<1>. HIDE DEF v
<1>3. /\ req'[r].pc = "fill" /\ req'[r].tenant = req[r].tenant /\ req'[r].user = req[r].user
      /\ req'[r].age = req[r].age /\ req'[r].list = v
  BY <1>1, <1>2 DEF ReqStates
<1>. QED  BY <1>1, <1>3 DEF ListQuery, v

LEMMA AuthoriseShape ==
  ASSUME TypeOK, NEW r \in Requests, Authorise(r)
  PROVE  /\ Others(r) /\ req[r].pc = "idle" /\ req'[r].pc = "act"
         /\ req'[r].target \in Ids /\ Visible(req'[r].target, req'[r].tenant)
         /\ rows[req'[r].target].owner = req'[r].user \/ req'[r].user \in Admins
         /\ UNCHANGED <<rows, cache, tainted>>
<1>0. PICK route \in {"cancel", "extend", "reassign"}, id \in Ids :
        \E q \in {[p EXCEPT !.target = id] : p \in Admitted(route)} :
          Visible(id, q.tenant) /\ Entitled(q) /\ Step(r, q, "act")
  BY DEF Authorise
<1>1. PICK q \in {[p EXCEPT !.target = id] : p \in Admitted(route)} :
        Visible(id, q.tenant) /\ Entitled(q) /\ Step(r, q, "act")
  BY <1>0
<1>2. PICK p \in Admitted(route) : q = [p EXCEPT !.target = id]
  BY <1>1
<1>3. route \in {"list", "create", "cancel", "extend", "reassign"}
  BY <1>0
<1>4. PICK u \in Users, t \in Tenants :
        p = [pc |-> "idle", route |-> route, user |-> u, tenant |-> t,
             target |-> None, owner |-> None, list |-> {}, age |-> 0]
  BY <1>2, <1>3, AdmittedIsReq, Zenon
<1>5. q = [pc |-> "idle", route |-> route, user |-> u, tenant |-> t,
           target |-> id, owner |-> None, list |-> {}, age |-> 0]
  BY <1>2, <1>4
<1>6. Others(r) /\ req'[r] = [q EXCEPT !.pc = "act"]
  BY <1>1, StepShape
<1>7. /\ req'[r].pc = "act" /\ req'[r].target = id /\ req'[r].tenant = q.tenant
      /\ req'[r].user = q.user /\ q.target = id
  BY <1>5, <1>6
<1>8. Visible(req'[r].target, req'[r].tenant)
  BY <1>1, <1>7
<1>9. rows[id].owner = q.user \/ q.user \in Admins
  BY <1>1, <1>7 DEF Entitled, IsAdmin
<1>. QED  BY <1>0, <1>6, <1>7, <1>8, <1>9 DEF Authorise

LEMMA EvictShape ==
  ASSUME TypeOK, NEW r \in Requests, Evict(r)
  PROVE  /\ Others(r) /\ rows' = rows
         /\ \/ req'[r] = Idle
            \/ /\ req[r].pc = "evict_then_insert" /\ req'[r].pc = "insert"
               /\ req'[r].tenant = req[r].tenant /\ req'[r].user = req[r].user
               /\ req'[r].target = req[r].target /\ req'[r].owner = req[r].owner
<1>1. req[r] \in ReqStates
  BY BusyIsReq DEF Evict
<1>2. CASE Step(r, req[r], "insert")
  <2>1. Others(r) /\ req'[r] = [req[r] EXCEPT !.pc = "insert"]
    BY <1>2, StepShape
  <2>2. /\ req'[r].pc = "insert" /\ req'[r].tenant = req[r].tenant /\ req'[r].user = req[r].user
        /\ req'[r].target = req[r].target /\ req'[r].owner = req[r].owner
    BY <2>1, <1>1 DEF ReqStates
  <2>3. req[r].pc = "evict" => req'[r] = Idle
    BY RespondShape DEF Evict
  <2>. QED  BY <2>1, <2>2, <2>3 DEF Evict
<1>3. CASE Respond(r)
  BY <1>3, RespondShape DEF Evict
<1>. QED  BY <1>2, <1>3 DEF Evict

LEMMA TickReq ==
  ASSUME TypeOK, Tick, NEW r \in Requests
  PROVE  \/ req[r].pc = "idle" /\ req'[r] = req[r]
         \/ /\ req[r].pc # "idle" /\ req'[r].age = req[r].age + 1
            /\ req'[r].pc = req[r].pc /\ req'[r].tenant = req[r].tenant
            /\ req'[r].user = req[r].user /\ req'[r].target = req[r].target
            /\ req'[r].owner = req[r].owner /\ req'[r].list = req[r].list
<1>1. CASE req[r].pc = "idle"
  BY <1>1 DEF Tick
<1>2. CASE req[r].pc # "idle"
  BY <1>2, BusyIsReq DEF Tick, ReqStates
<1>. QED  BY <1>1, <1>2

(***************************************************************************)
(* What requireSelfOrAdmin found out stays true until the request writes:  *)
(* the row it looked at keeps its tenant and its delegator, and Reassign   *)
(* carries that delegator over to the row it inserts.                      *)
(***************************************************************************)
Sure(q) ==
  q.pc \in {"act", "evict_then_insert", "insert"} =>
    /\ q.target \in Ids /\ rows[q.target] \in RowStates
    /\ rows[q.target].tenant = q.tenant
    /\ rows[q.target].owner = q.user \/ q.user \in Admins
    /\ q.pc # "act" => q.owner = rows[q.target].owner

EntitledInv == \A r \in Requests : Sure(req[r])

LEMMA SureKept ==
  ASSUME TypeOK, TypeOK', Kept
  PROVE  \A q : Sure(q) => Sure(q)'
<1>1. \A id \in Ids : rows[id] \in RowStates => rows'[id] \in RowStates
  BY ApiAssumption DEF TypeOK, Kept, NoRow, RowStates
<1>. QED  BY <1>1 DEF Sure, Kept

LEMMA EntitledStep ==
  ASSUME TypeOK, TypeOK', EntitledInv, [Next]_vars
  PROVE  EntitledInv'
<1>1. Kept
  BY RowsKept
<1>2. ASSUME NEW s \in Requests, req'[s] = req[s] PROVE Sure(req[s])'
  BY <1>1, <1>2, SureKept DEF EntitledInv, Sure
<1>3. ASSUME NEW s \in Requests, req'[s].pc \notin {"act", "evict_then_insert", "insert"}
      PROVE  Sure(req[s])'
  BY <1>3 DEF Sure
<1>4. ASSUME NEW r \in Requests, Others(r), Sure(req[r])' PROVE EntitledInv'
  BY <1>2, <1>4 DEF Others, EntitledInv
<1>5. ASSUME NEW r \in Requests, Respond(r) PROVE EntitledInv'
  BY <1>3, <1>4, <1>5, RespondShape DEF Idle
<1>6. ASSUME NEW r \in Requests, ListGet(r) PROVE EntitledInv'
  BY <1>3, <1>4, <1>6, ListGetShape
<1>7. ASSUME NEW r \in Requests, ListQuery(r) PROVE EntitledInv'
  BY <1>3, <1>4, <1>7, ListQueryShape
<1>8. ASSUME NEW r \in Requests, Authorise(r) PROVE EntitledInv'
  <2>1. /\ Others(r) /\ req'[r].pc = "act" /\ rows' = rows
        /\ req'[r].target \in Ids /\ Visible(req'[r].target, req'[r].tenant)
        /\ rows[req'[r].target].owner = req'[r].user \/ req'[r].user \in Admins
    BY <1>8, AuthoriseShape
  <2>2. rows[req'[r].target] \in RowStates /\ rows[req'[r].target].tenant = req'[r].tenant
    BY <2>1, VisibleIsRow
  <2>3. Sure(req[r])'
    BY <2>1, <2>2 DEF Sure
  <2>. QED  BY <1>4, <2>1, <2>3
<1>9. ASSUME NEW r \in Requests, NEW id \in Ids, NEW row \in RowStates, Writes(r, id, row)
      PROVE  EntitledInv'
  <2>1. CASE req'[r].pc = "evict_then_insert"
    <3>1. /\ req[r].pc = "act" /\ id = req[r].target /\ req'[r].owner = row.owner
          /\ req'[r].target = id /\ req'[r].tenant = req[r].tenant /\ req'[r].user = req[r].user
          /\ row.tenant = rows[id].tenant /\ row.owner = rows[id].owner
      BY <1>9, <2>1 DEF Writes, Idle
    <3>2. Sure(req[r])
      BY DEF EntitledInv
    <3>3. rows'[id] = row
      BY <1>9 DEF Writes, TypeOK
    <3>4. Sure(req[r])'
      BY <2>1, <3>1, <3>2, <3>3 DEF Sure
    <3>. QED  BY <1>4, <1>9, <3>4 DEF Writes
  <2>2. CASE req'[r].pc # "evict_then_insert"
    <3>1. req'[r].pc \notin {"act", "evict_then_insert", "insert"}
      BY <1>9, <2>2 DEF Writes, Idle
    <3>. QED  BY <1>3, <1>4, <1>9, <3>1 DEF Writes
  <2>. QED  BY <2>1, <2>2
<1>10. ASSUME NEW r \in Requests, Evict(r) PROVE EntitledInv'
  <2>1. CASE req'[r] = Idle
    BY <1>3, <1>4, <1>10, <2>1, EvictShape DEF Idle
  <2>2. CASE req'[r] # Idle
    <3>1. /\ Others(r) /\ rows' = rows
          /\ req[r].pc = "evict_then_insert" /\ req'[r].pc = "insert"
          /\ req'[r].tenant = req[r].tenant /\ req'[r].user = req[r].user
          /\ req'[r].target = req[r].target /\ req'[r].owner = req[r].owner
      BY <1>10, <2>2, EvictShape
    <3>2. Sure(req[r])'
      BY <3>1 DEF EntitledInv, Sure
    <3>. QED  BY <1>4, <3>1, <3>2
  <2>. QED  BY <2>1, <2>2
<1>11. CASE Tick
  <2>1. SUFFICES ASSUME NEW r \in Requests PROVE Sure(req[r])'
    BY DEF EntitledInv
  <2>2. \/ req'[r] = req[r]
        \/ /\ req'[r].pc = req[r].pc /\ req'[r].tenant = req[r].tenant
           /\ req'[r].user = req[r].user /\ req'[r].target = req[r].target
           /\ req'[r].owner = req[r].owner
    BY <1>11, TickReq
  <2>3. \A id \in Ids : rows[id] \in RowStates => rows'[id] \in RowStates
    BY <1>1, ApiAssumption DEF TypeOK, Kept, NoRow, RowStates
  <2>. QED  BY <1>1, <1>2, <2>2, <2>3 DEF EntitledInv, Sure, Kept
<1>12. CASE UNCHANGED req
  BY <1>2, <1>12 DEF EntitledInv
<1>. QED  BY <1>5, <1>6, <1>7, <1>8, <1>9, <1>10, <1>11, <1>12,
             CancelWrites, ExtendWrites, CreateWrites
          DEF Next, HandlerStep, vars, JobChange, ListFill, ServiceRefuses, TimeUp

\* The change OnlyEntitledChange allows a request to make.
EntitledAct(r) ==
  (req'[r] # req[r] /\ req[r].pc # "idle") =>
    \A id \in Ids : rows'[id].status # rows[id].status \/ rows'[id].ver # rows[id].ver =>
      /\ rows'[id].tenant = req[r].tenant
      /\ rows'[id].owner = req[r].user \/ req[r].user \in Admins
      /\ rows[id].status = "absent" => rows'[id].owner = rows[req[r].target].owner

LEMMA EntitledActs ==
  ASSUME TypeOK, EntitledInv, [Next]_vars, NEW s \in Requests
  PROVE  EntitledAct(s)
<1>1. ASSUME NEW r \in Requests, NEW new \in Ids, NEW row \in RowStates, Writes(r, new, row)
      PROVE  EntitledAct(s)
  <2>. SUFFICES ASSUME req'[s] # req[s], req[s].pc # "idle", NEW id \in Ids,
                       rows'[id].status # rows[id].status \/ rows'[id].ver # rows[id].ver
                PROVE  /\ rows'[id].tenant = req[s].tenant
                       /\ rows'[id].owner = req[s].user \/ req[s].user \in Admins
                       /\ rows[id].status = "absent" => rows'[id].owner = rows[req[s].target].owner
    BY DEF EntitledAct
  <2>1. s = r
    BY <1>1 DEF Writes, Others
  <2>2. id = new /\ rows'[id] = row
    BY <1>1 DEF Writes, TypeOK
  <2>3. Sure(req[r])
    BY DEF EntitledInv
  <2>4. CASE rows[id].status = "absent"
    <3>1. req[r].pc = "insert" /\ row.tenant = req[r].tenant /\ row.owner = req[r].owner
      BY <1>1, <2>1, <2>2, <2>4 DEF Writes
    <3>. QED  BY <2>1, <2>2, <2>3, <3>1 DEF Sure
  <2>5. CASE rows[id].status # "absent"
    <3>1. /\ req[r].pc = "act" /\ id = req[r].target
          /\ row.tenant = rows[id].tenant /\ row.owner = rows[id].owner
      BY <1>1, <2>1, <2>2, <2>5 DEF Writes
    <3>. QED  BY <2>1, <2>2, <2>3, <2>5, <3>1 DEF Sure
  <2>. QED  BY <2>4, <2>5
<1>2. CASE UNCHANGED rows
  BY <1>2 DEF EntitledAct
<1>3. CASE UNCHANGED req
  BY <1>3 DEF EntitledAct
<1>4. CASE Tick
  <2>1. \A id \in Ids : rows'[id].status = rows[id].status /\ rows'[id].ver = rows[id].ver
    BY <1>4 DEF Tick, TypeOK, RowStates
  <2>. QED  BY <2>1 DEF EntitledAct
<1>. QED  BY <1>1, <1>2, <1>3, <1>4, CancelWrites, ExtendWrites, CreateWrites
          DEF Next, HandlerStep, vars, JobChange, ListGet, ListQuery, ListFill, Authorise,
              ServiceRefuses, Evict, TimeUp

(***************************************************************************)
(* Only the delegator or an admin of the tenant changes a delegation       *)
(* through the API: requireSelfOrAdmin's answer still holds when cancel,   *)
(* extend or reassign writes, whatever other handlers and jobs did to the  *)
(* row in between.                                                         *)
(***************************************************************************)
THEOREM EntitledOnly == Spec => OnlyEntitledChange
<1>1. Init => EntitledInv
  BY DEF Init, EntitledInv, Sure, Idle
<1>2. TypeOK /\ EntitledInv /\ [Next]_vars => [\A r \in Requests : EntitledAct(r)]_vars
  BY EntitledActs
<1>3. TypeOK /\ TypeOK' /\ EntitledInv /\ [Next]_vars => EntitledInv'
  BY EntitledStep
<1>4. Spec => [][\A r \in Requests : EntitledAct(r)]_vars
  BY <1>1, <1>2, <1>3, TypeCorrect, PTL DEF Spec
<1>. QED  BY <1>4 DEF OnlyEntitledChange, EntitledAct

(***************************************************************************)
(* How old the oldest change is that a list may not know of: for a list    *)
(* just read, not older than the request; for a cached one, not older than *)
(* the longest request and the time the entry has been there.              *)
(***************************************************************************)
Right(list, k, id) == id \in Listed(k) <=> <<id, rows[id].ver>> \in list

StaleInv ==
  /\ \A k \in Keys : cache[k] # None => \A id \in Ids :
       rows[id].age > RequestTimeout + (ListTTL - cache[k].left) => Right(cache[k].list, k, id)
  /\ \A r \in Requests : req[r].pc = "fill" => \A id \in Ids :
       rows[id].age > req[r].age => Right(req[r].list, <<req[r].tenant, req[r].user>>, id)


\* What a list says of a row depends on the row alone.
LEMMA RightKept ==
  ASSUME NEW id \in Ids, rows'[id].status = rows[id].status, rows'[id].tenant = rows[id].tenant,
         rows'[id].owner = rows[id].owner, rows'[id].ver = rows[id].ver
  PROVE  \A list, k : Right(list, k, id) <=> Right(list, k, id)'
BY DEF Right, Listed, Visible

\* A list that has just been read is right about every row.
LEMMA ViewIsRight == \A k, id : id \in Ids => Right(View(k), k, id)
BY DEF Right, View, Listed

\* A step that takes no time leaves a row as it is, or makes it new.
LEMMA RowsAgeless ==
  ASSUME TypeOK, [Next]_vars, ~Tick, NEW id \in Ids
  PROVE  rows'[id] = rows[id] \/ rows'[id].age = 0
<1>1. ASSUME NEW r \in Requests, NEW new \in Ids, NEW row \in RowStates, Writes(r, new, row)
      PROVE  rows'[id] = rows[id] \/ rows'[id].age = 0
  BY <1>1 DEF Writes, TypeOK
<1>2. ASSUME NEW new \in Ids, JobChange(new) PROVE rows'[id] = rows[id] \/ rows'[id].age = 0
  <2>1. rows[new] \in RowStates
    BY <1>2 DEF JobChange, TypeOK, NoRow
  <2>. QED  BY <1>2, <2>1 DEF JobChange, TypeOK, RowStates
<1>3. CASE UNCHANGED rows
  BY <1>3
<1>. QED  BY <1>1, <1>2, <1>3, CancelWrites, ExtendWrites, CreateWrites
          DEF Next, HandlerStep, vars, ListGet, ListQuery, ListFill, Authorise, ServiceRefuses,
              Evict, TimeUp

\* Where the entries of a state come from: the state before, or a handler's fill.
LEMMA EntriesComeFrom ==
  ASSUME TypeOK, [Next]_vars, ~Tick, NEW k \in Keys, cache'[k] # None
  PROVE  \/ cache'[k] = cache[k]
         \/ \E r \in Requests :
              /\ req[r].pc = "fill" /\ <<req[r].tenant, req[r].user>> = k
              /\ cache'[k].list = req[r].list /\ cache'[k].left = ListTTL
<1>1. ASSUME NEW r \in Requests, ListFill(r), cache'[k] # cache[k]
      PROVE  /\ req[r].pc = "fill" /\ <<req[r].tenant, req[r].user>> = k
             /\ cache'[k].list = req[r].list /\ cache'[k].left = ListTTL
  BY <1>1 DEF ListFill, ListKey, TypeOK
<1>2. ASSUME NEW r \in Requests, Evict(r) PROVE cache'[k] = cache[k]
  BY <1>2 DEF Evict, TypeOK
<1>3. CASE UNCHANGED cache
  BY <1>3
<1>. QED  BY <1>1, <1>2, <1>3
          DEF Next, HandlerStep, vars, ListGet, ListQuery, Authorise, ServiceRefuses,
              CancelCommit, ExtendCommit, CreateCommit, Commit, JobChange, TimeUp

\* Where the lists that handlers hold come from: the state before, or a query.
LEMMA FillsComeFrom ==
  ASSUME TypeOK, [Next]_vars, ~Tick, NEW s \in Requests, req'[s].pc = "fill"
  PROVE  req'[s] = req[s] \/ ListQuery(s)
<1>1. ASSUME NEW r \in Requests, Others(r), req'[r].pc # "fill" PROVE req'[s] = req[s]
  BY <1>1 DEF Others
<1>2. ASSUME NEW r \in Requests, Respond(r) PROVE req'[s] = req[s]
  BY <1>1, <1>2, RespondShape DEF Idle
<1>3. ASSUME NEW r \in Requests, ListGet(r) \/ Authorise(r) PROVE req'[s] = req[s]
  BY <1>1, <1>3, ListGetShape, AuthoriseShape
<1>4. ASSUME NEW r \in Requests, ListQuery(r) PROVE req'[s] = req[s] \/ ListQuery(s)
  BY <1>4, ListQueryShape DEF Others
<1>5. ASSUME NEW r \in Requests, NEW id, NEW row, Writes(r, id, row) PROVE req'[s] = req[s]
  BY <1>1, <1>5 DEF Writes, Idle
<1>6. ASSUME NEW r \in Requests, Evict(r) PROVE req'[s] = req[s]
  BY <1>1, <1>6, EvictShape DEF Idle
<1>. QED  BY <1>2, <1>3, <1>4, <1>5, <1>6, CancelWrites, ExtendWrites, CreateWrites
          DEF Next, HandlerStep, vars, ListFill, ServiceRefuses, TimeUp, JobChange

\* Time passes: entries and requests grow old at least as fast as the rows.
LEMMA StaleTick ==
  ASSUME TypeOK, StaleInv, Tick
  PROVE  StaleInv'
<1>1. ASSUME NEW id \in Ids
      PROVE  /\ rows'[id].status = rows[id].status /\ rows'[id].tenant = rows[id].tenant
             /\ rows'[id].owner = rows[id].owner /\ rows'[id].ver = rows[id].ver
             /\ rows[id].age \in 0..Horizon /\ rows'[id].age <= rows[id].age + 1
             /\ rows'[id].age > rows[id].age => rows[id].age < Horizon
             /\ rows'[id].age = rows[id].age => rows[id].age \in {0, Horizon}
             /\ rows'[id].age \in Nat
  <2>1. CASE rows[id] = NoRow
    <3>1. rows'[id] = rows[id] /\ rows[id].age = 0
      BY <2>1 DEF Tick, NoRow
    <3>2. 0 \in 0..Horizon
      BY ApiAssumption DEF Horizon
    <3>. QED  BY <3>1, <3>2
  <2>2. CASE rows[id] \in RowStates
    <3>1. rows[id].status # "absent" /\ rows[id].age \in 0..Horizon
      BY <2>2 DEF RowStates
    <3>2. CASE rows[id].age < Horizon
      <4>1. rows'[id] = [rows[id] EXCEPT !.age = @ + 1]
        BY <3>1, <3>2 DEF Tick
      <4>2. /\ rows'[id].status = rows[id].status /\ rows'[id].tenant = rows[id].tenant
            /\ rows'[id].owner = rows[id].owner /\ rows'[id].ver = rows[id].ver
            /\ rows'[id].age = rows[id].age + 1
        BY <2>2, <4>1 DEF RowStates
      <4>. QED  BY <3>1, <3>2, <4>2, ApiAssumption DEF Horizon
    <3>3. CASE ~(rows[id].age < Horizon)
      <4>1. rows'[id] = rows[id]
        BY <3>3 DEF Tick
      <4>2. rows[id].age = Horizon
        BY <3>1, <3>3, ApiAssumption DEF Horizon
      <4>. QED  BY <3>1, <4>1, <4>2, ApiAssumption DEF Horizon
    <3>. QED  BY <3>2, <3>3
  <2>. QED  BY <2>1, <2>2 DEF TypeOK
<1>2. ASSUME NEW k \in Keys, cache'[k] # None, NEW id \in Ids,
             rows'[id].age > RequestTimeout + (ListTTL - cache'[k].left)
      PROVE  Right(cache[k].list, k, id)'
  <2>1. /\ cache[k] # None /\ cache[k].left \in 1..ListTTL /\ cache'[k].left = cache[k].left - 1
        /\ cache'[k].list = cache[k].list
    BY <1>2 DEF Tick, TypeOK, Entries
  <2>2. rows[id].age > RequestTimeout + (ListTTL - cache[k].left)
    BY <1>1, <1>2, <2>1, ApiAssumption DEF Horizon
  <2>3. Right(cache[k].list, k, id)
    BY <2>1, <2>2 DEF StaleInv
  <2>. QED  BY <1>1, <2>1, <2>3 DEF Right, Listed, Visible
<1>3. ASSUME NEW r \in Requests, req'[r].pc = "fill", NEW id \in Ids, rows'[id].age > req'[r].age
      PROVE  Right(req[r].list, <<req[r].tenant, req[r].user>>, id)'
  <2>1. /\ req[r].pc = "fill" /\ req'[r].age = req[r].age + 1
        /\ req'[r].tenant = req[r].tenant /\ req'[r].user = req[r].user
        /\ req'[r].list = req[r].list
    BY <1>3, TickReq DEF Idle
  <2>2. req[r].age \in Nat
    BY <2>1, BusyIsReq, ApiAssumption DEF ReqStates
  <2>3. rows[id].age > req[r].age
    BY <1>1, <1>3, <2>1, <2>2, ApiAssumption DEF Horizon
  <2>4. Right(req[r].list, <<req[r].tenant, req[r].user>>, id)
    BY <2>1, <2>3 DEF StaleInv
  <2>. QED  BY <1>1, <2>1, <2>4 DEF Right, Listed, Visible
<1>. QED  BY <1>2, <1>3 DEF StaleInv

LEMMA StaleStep ==
  ASSUME TypeOK, TypeOK', StaleInv, [Next]_vars
  PROVE  StaleInv'
<1>1. CASE Tick
  BY <1>1, StaleTick
<1>2. CASE ~Tick
  <2>1. ASSUME NEW id \in Ids, rows'[id].age > 0 PROVE rows'[id] = rows[id]
    BY <1>2, <2>1, RowsAgeless
  <2>2. ASSUME NEW k \in Keys, cache'[k] # None, NEW id \in Ids,
               rows'[id].age > RequestTimeout + (ListTTL - cache'[k].left)
        PROVE  Right(cache[k].list, k, id)'
    <3>1. cache'[k].left \in 1..ListTTL
      BY <2>2 DEF TypeOK, Entries
    <3>2. rows'[id].age \in Nat /\ rows'[id].age > 0
      BY <2>2, <3>1, ApiAssumption DEF TypeOK, RowStates, NoRow, Horizon
    <3>3. rows'[id] = rows[id]
      BY <2>1, <3>2
    <3>4. CASE cache'[k] = cache[k]
      BY <2>2, <3>3, <3>4, RightKept DEF StaleInv, Right
    <3>5. ASSUME NEW r \in Requests, req[r].pc = "fill", <<req[r].tenant, req[r].user>> = k,
                 cache'[k].list = req[r].list, cache'[k].left = ListTTL
          PROVE  Right(cache[k].list, k, id)'
      <4>1. req[r].age \in 0..RequestTimeout
        BY <3>5, BusyIsReq DEF ReqStates
      <4>2. rows[id].age > req[r].age
        BY <2>2, <3>2, <3>3, <3>5, <4>1, ApiAssumption
      <4>3. Right(req[r].list, k, id)
        BY <3>5, <4>2 DEF StaleInv
      <4>. QED  BY <3>3, <3>5, <4>3 DEF Right, Listed, Visible
    <3>. QED  BY <1>2, <2>2, <3>4, <3>5, EntriesComeFrom
  <2>3. ASSUME NEW r \in Requests, req'[r].pc = "fill", NEW id \in Ids, rows'[id].age > req'[r].age
        PROVE  Right(req[r].list, <<req[r].tenant, req[r].user>>, id)'
    <3>1. req'[r].age \in Nat
      BY <2>3, ApiAssumption DEF TypeOK, ReqStates, Idle
    <3>2. rows'[id].age \in Nat /\ rows'[id].age > 0
      BY <2>3, <3>1, ApiAssumption DEF TypeOK, RowStates, NoRow, Horizon
    <3>3. rows'[id] = rows[id]
      BY <2>1, <3>2
    <3>4. CASE req'[r] = req[r]
      BY <2>3, <3>3, <3>4 DEF StaleInv, Right, Listed, Visible
    <3>5. CASE ListQuery(r)
      <4>1. /\ req'[r].list = View(<<req[r].tenant, req[r].user>>)
            /\ req'[r].tenant = req[r].tenant /\ req'[r].user = req[r].user
        BY <3>5, ListQueryShape
      <4>2. Right(View(<<req[r].tenant, req[r].user>>), <<req[r].tenant, req[r].user>>, id)
        BY ViewIsRight
      <4>. QED  BY <3>3, <4>1, <4>2 DEF Right, Listed, Visible
    <3>. QED  BY <1>2, <2>3, <3>4, <3>5, FillsComeFrom
  <2>. QED  BY <2>2, <2>3 DEF StaleInv
<1>. QED  BY <1>1, <1>2

(***************************************************************************)
(* A change older than listTTL and the longest request is in every list    *)
(* that DLG-1 may answer with, for every TTL and timeout: failed           *)
(* evictions, lost acknowledgements and jobs that evict nothing delay a    *)
(* list no longer than that.                                               *)
(***************************************************************************)
THEOREM ListsCatchUp == Spec => []StalenessBounded
<1>1. Init => StaleInv
  BY DEF Init, StaleInv, Idle
<1>2. TypeOK /\ StaleInv => StalenessBounded
  <2>. SUFFICES ASSUME TypeOK, StaleInv, NEW k \in Keys, NEW list \in Answers(k), NEW id \in Ids,
                       rows[id].age = Horizon
                PROVE  id \in Listed(k) <=> <<id, rows[id].ver>> \in list
    BY DEF StalenessBounded
  <2>1. CASE cache[k] # None /\ list = cache[k].list
    <3>1. rows[id].age > RequestTimeout + (ListTTL - cache[k].left)
      BY <2>1, ApiAssumption DEF TypeOK, Entries, Horizon
    <3>. QED  BY <2>1, <3>1 DEF StaleInv, Right
  <2>2. ASSUME NEW r \in Requests, req[r].pc = "fill", <<req[r].tenant, req[r].user>> = k,
               list = req[r].list
        PROVE  id \in Listed(k) <=> <<id, rows[id].ver>> \in list
    <3>1. req[r].age \in 0..RequestTimeout
      BY <2>2, BusyIsReq DEF ReqStates
    <3>2. rows[id].age > req[r].age
      BY <3>1, ApiAssumption DEF Horizon
    <3>. QED  BY <2>2, <3>2 DEF StaleInv, Right
  <2>. QED  BY <2>1, <2>2 DEF Answers
<1>3. TypeOK /\ TypeOK' /\ StaleInv /\ [Next]_vars => StaleInv'
  BY StaleStep
<1>. QED  BY <1>1, <1>2, <1>3, TypeCorrect, PTL DEF Spec

\* Unless a key is tainted or about to be evicted, every list of it is the table's:
\* the cached one, and the ones that handlers have read and not cached yet.
FreshInv == \A k \in Keys \ tainted : ~Evicting(k) => \A list \in Answers(k) : list = View(k)

\* A step keeps FreshInv when, for every key it leaves untainted and not about to be
\* evicted, the key was so before and its rows are as they were, or no list is left.
FreshKey(k) ==
  \/ k \notin tainted /\ ~Evicting(k) /\ View(k)' = View(k)
  \/ Answers(k)' = {}

LEMMA FreshByKey ==
  ASSUME TypeOK, [Next]_vars, FreshInv,
         \A k \in Keys \ tainted' : ~Evicting(k)' => FreshKey(k)
  PROVE  FreshInv'
<1>. SUFFICES ASSUME NEW k \in Keys \ tainted', ~Evicting(k)', NEW list \in Answers(k)'
              PROVE  list = View(k)'
  BY DEF FreshInv
<1>1. k \notin tainted /\ ~Evicting(k) /\ View(k)' = View(k)
  BY DEF FreshKey
<1>2. list \in Answers(k) \/ list = View(k)
  BY AnswersComeFrom
<1>. QED  BY <1>1, <1>2 DEF FreshInv

LEMMA NoAnswersLeft ==
  ASSUME NEW k \in Keys, cache'[k] = None, ~Filling(k)'
  PROVE  Answers(k)' = {}
BY DEF Answers, Filling

LEMMA ViewOfSameRows == ASSUME UNCHANGED rows PROVE \A k : View(k)' = View(k)
BY DEF View, Listed, Visible

\* A change of one row shows in the list of its own key only.
LEMMA ViewElsewhere ==
  ASSUME TypeOK, NEW id \in Ids, NEW row \in RowStates, rows' = [rows EXCEPT ![id] = row],
         \/ rows[id].status = "absent"
         \/ row.tenant = rows[id].tenant /\ row.owner = rows[id].owner,
         NEW k \in Keys, k # <<row.tenant, row.owner>>
  PROVE  View(k)' = View(k)
<1>1. k = <<k[1], k[2]>>
  BY DEF Keys
<1>2. \A j \in Ids : j # id => rows'[j] = rows[j]
  BY DEF TypeOK
<1>3. rows'[id] = row
  BY DEF TypeOK
<1>4. id \notin Listed(k) /\ id \notin Listed(k)'
  BY <1>1, <1>3 DEF Listed, Visible
<1>5. Listed(k)' = Listed(k)
  BY <1>2, <1>4 DEF Listed, Visible
<1>6. \A j \in Listed(k) : rows'[j].ver = rows[j].ver
  BY <1>2, <1>4 DEF Listed
<1>. QED  BY <1>5, <1>6 DEF View

\* Handlers that neither begin nor end an eviction leave Evicting as it is.
NoEviction(q) == q.pc \notin {"evict", "evict_then_insert"}

LEMMA SameEvictions ==
  ASSUME NEW r \in Requests, Others(r), NoEviction(req[r])
  PROVE  \A k : Evicting(k) => Evicting(k)'
BY DEF Others, NoEviction, Evicting

LEMMA EvictionOf ==
  ASSUME NEW r \in Requests, Others(r), NEW k, k # <<req[r].tenant, req[r].owner>>
  PROVE  Evicting(k) => Evicting(k)'
BY DEF Others, Evicting

\* A handler that ends its step without a list has not begun to fill.
LEMMA NoNewFill ==
  ASSUME NEW r \in Requests, Others(r), req'[r].pc # "fill"
  PROVE  \A k : ~Filling(k) => ~Filling(k)'
BY DEF Others, Filling

\* Taint leaves a key untainted only when there is no list of it.
LEMMA TaintsLists ==
  ASSUME NEW k, Taint(k)
  PROVE  /\ tainted \subseteq tainted'
         /\ k \notin tainted' => cache[k] = None /\ ~Filling(k)
<1>1. CASE cache[k] # None \/ Filling(k)
  BY <1>1 DEF Taint
<1>2. CASE ~(cache[k] # None \/ Filling(k))
  BY <1>2 DEF Taint
<1>. QED  BY <1>1, <1>2

\* A step of a handler that only reads.
LEMMA FreshReads ==
  ASSUME TypeOK, [Next]_vars, FreshInv, NEW r \in Requests, Others(r),
         NoEviction(req[r]), UNCHANGED <<rows, tainted>>
  PROVE  FreshInv'
<1>1. \A k \in Keys : Evicting(k) => Evicting(k)'
  BY SameEvictions
<1>2. \A k \in Keys : View(k)' = View(k)
  BY ViewOfSameRows
<1>. QED  BY <1>1, <1>2, FreshByKey DEF FreshKey

LEMMA FreshWrites ==
  ASSUME TypeOK, [Next]_vars, FreshInv, NEW r \in Requests, NEW id \in Ids, NEW row \in RowStates,
         Writes(r, id, row)
  PROVE  FreshInv'
<1>. DEFINE own == <<row.tenant, row.owner>>
<1>1. ASSUME NEW k \in Keys, k # own PROVE View(k)' = View(k)
  BY <1>1, ViewElsewhere DEF Writes
<1>2. \A k : Evicting(k) => Evicting(k)'
  BY SameEvictions DEF Writes, NoEviction
<1>3. CASE req'[r] # Idle
  <2>1. tainted' = tainted /\ Evicting(own)'
    BY <1>3 DEF Writes, Evicting
  <2>. HIDE DEF own
  <2>. QED  BY <1>1, <1>2, <2>1, FreshByKey DEF FreshKey
<1>4. CASE req'[r] = Idle
  <2>1. Others(r) /\ cache' = cache /\ req'[r].pc # "fill" /\ Taint(own)
    BY <1>4 DEF Writes, Idle
  <2>2. own \in Keys
    BY DEF Keys, RowStates
  <2>. HIDE DEF own
  <2>3. tainted \subseteq tainted' /\ (own \notin tainted' => cache[own] = None /\ ~Filling(own))
    BY <2>1, TaintsLists
  <2>4. own \notin tainted' => Answers(own)' = {}
    BY <2>1, <2>2, <2>3, NoNewFill, NoAnswersLeft
  <2>. QED  BY <1>1, <1>2, <2>3, <2>4, FreshByKey DEF FreshKey
<1>. QED  BY <1>3, <1>4

LEMMA FreshEvict ==
  ASSUME TypeOK, [Next]_vars, FreshInv, NEW r \in Requests, Evict(r)
  PROVE  FreshInv'
<1>1. Others(r) /\ rows' = rows /\ req'[r].pc # "fill"
  BY EvictShape DEF Idle
<1>2. PICK own \in Keys : own = EvictedKey(req[r])
  BY BusyIsReq DEF Evict, EvictedKey, Knows, Working, ReqStates, Keys
<1>3. \A k : k # own /\ Evicting(k) => Evicting(k)'
  BY <1>1, <1>2, EvictionOf DEF EvictedKey
<1>4. \A k : View(k)' = View(k)
  BY <1>1, ViewOfSameRows
<1>5. \/ /\ cache' = [cache EXCEPT ![own] = None]
         /\ tainted' = IF Filling(own) THEN tainted \cup {own} ELSE tainted \ {own}
      \/ UNCHANGED cache /\ Taint(own)
  BY <1>2 DEF Evict
<1>6. CASE /\ cache' = [cache EXCEPT ![own] = None]
           /\ tainted' = IF Filling(own) THEN tainted \cup {own} ELSE tainted \ {own}
  <2>1. cache'[own] = None
    BY <1>2, <1>6 DEF TypeOK
  <2>2. \A k : k # own /\ k \notin tainted' => k \notin tainted
    <3>1. CASE Filling(own)
      BY <1>6, <3>1
    <3>2. CASE ~Filling(own)
      BY <1>6, <3>2
    <3>. QED  BY <3>1, <3>2
  <2>3. own \notin tainted' => ~Filling(own)
    <3>1. CASE Filling(own)
      BY <1>6, <3>1
    <3>. QED  BY <3>1
  <2>4. own \notin tainted' => Answers(own)' = {}
    BY <1>1, <1>2, <2>1, <2>3, NoNewFill, NoAnswersLeft
  <2>. QED  BY <1>3, <1>4, <2>2, <2>4, FreshByKey DEF FreshKey
<1>7. CASE UNCHANGED cache /\ Taint(own)
  <2>1. tainted \subseteq tainted' /\ (own \notin tainted' => cache[own] = None /\ ~Filling(own))
    BY <1>7, TaintsLists
  <2>2. own \notin tainted' => Answers(own)' = {}
    BY <1>1, <1>2, <1>7, <2>1, NoNewFill, NoAnswersLeft
  <2>. QED  BY <1>3, <1>4, <2>1, <2>2, FreshByKey DEF FreshKey
<1>. QED  BY <1>5, <1>6, <1>7

LEMMA FreshTimeUp ==
  ASSUME TypeOK, [Next]_vars, FreshInv, NEW r \in Requests, TimeUp(r)
  PROVE  FreshInv'
<1>1. Others(r) /\ req'[r] = Idle /\ rows' = rows /\ cache' = cache
  BY RespondShape DEF TimeUp
<1>2. CASE NoEviction(req[r])
  BY <1>1, <1>2, FreshReads DEF TimeUp, NoEviction
<1>3. CASE ~NoEviction(req[r])
  <2>1. PICK own \in Keys : own = <<req[r].tenant, req[r].owner>>
    <3>1. req[r].pc \in Working \ {"act"} /\ req[r].pc # "idle"
      BY <1>3 DEF NoEviction, Working
    <3>. QED  BY <3>1, BusyIsReq DEF Knows, ReqStates, Keys
  <2>2. Taint(own)
    BY <1>3, <2>1 DEF TimeUp, NoEviction
  <2>3. \A k : k # own /\ Evicting(k) => Evicting(k)'
    BY <1>1, <2>1, EvictionOf
  <2>4. \A k : View(k)' = View(k)
    BY <1>1, ViewOfSameRows
  <2>5. tainted \subseteq tainted' /\ (own \notin tainted' => cache[own] = None /\ ~Filling(own))
    BY <2>2, TaintsLists
  <2>6. own \notin tainted' => Answers(own)' = {}
    BY <1>1, <2>5, NoNewFill, NoAnswersLeft DEF Idle
  <2>. QED  BY <2>3, <2>4, <2>5, <2>6, FreshByKey DEF FreshKey
<1>. QED  BY <1>2, <1>3

LEMMA FreshJob ==
  ASSUME TypeOK, [Next]_vars, FreshInv, NEW id \in Ids, JobChange(id)
  PROVE  FreshInv'
<1>0. rows[id] \in RowStates
  BY DEF JobChange, TypeOK, NoRow
<1>1. PICK row \in RowStates : /\ rows' = [rows EXCEPT ![id] = row]
                               /\ row.tenant = rows[id].tenant /\ row.owner = rows[id].owner
  <2>1. /\ \A j \in Ids \ {id} : rows'[j] = rows[j]
        /\ rows'[id] \in RowStates
        /\ rows'[id].tenant = rows[id].tenant /\ rows'[id].owner = rows[id].owner
    BY <1>0, ApiAssumption DEF JobChange, TypeOK, RowStates, Horizon
  <2>2. rows' \in [Ids -> {NoRow} \cup RowStates]
    BY TypesStep DEF TypeOK
  <2>3. rows' = [rows EXCEPT ![id] = rows'[id]]
    BY <2>1, <2>2 DEF TypeOK
  <2>. QED  BY <2>1, <2>3
<1>2. PICK own \in Keys : own = <<rows[id].tenant, rows[id].owner>>
  BY <1>0 DEF RowStates, Keys
<1>3. Taint(own) /\ UNCHANGED <<cache, req>>
  BY <1>2 DEF JobChange
<1>4. ASSUME NEW k \in Keys, k # own PROVE View(k)' = View(k)
  BY <1>1, <1>2, <1>4, ViewElsewhere
<1>5. tainted \subseteq tainted' /\ (own \notin tainted' => cache[own] = None /\ ~Filling(own))
  BY <1>3, TaintsLists
<1>6. \A k : (Filling(k)' <=> Filling(k)) /\ (Evicting(k)' <=> Evicting(k))
  BY <1>3 DEF Filling, Evicting
<1>7. own \notin tainted' => Answers(own)' = {}
  BY <1>3, <1>5, <1>6, NoAnswersLeft
<1>. QED  BY <1>4, <1>5, <1>6, <1>7, FreshByKey DEF FreshKey

LEMMA FreshTick ==
  ASSUME TypeOK, [Next]_vars, FreshInv, Tick
  PROVE  FreshInv'
<1>1. \A k : (Filling(k)' <=> Filling(k)) /\ (Evicting(k)' <=> Evicting(k))
  BY TickReq DEF Filling, Evicting, Idle
<1>2. \A k : View(k)' = View(k)
  <2>1. \A id \in Ids : /\ rows'[id].status = rows[id].status /\ rows'[id].ver = rows[id].ver
                        /\ rows'[id].tenant = rows[id].tenant /\ rows'[id].owner = rows[id].owner
    BY DEF Tick, TypeOK, RowStates
  <2>2. \A k : Listed(k)' = Listed(k)
    BY <2>1 DEF Listed, Visible
  <2>. QED  BY <2>1, <2>2 DEF View, Listed
<1>3. \A k \in Keys \ tainted' : k \notin tainted \/ (cache'[k] = None /\ ~Filling(k))
  BY DEF Tick
<1>4. \A k \in Keys \ tainted' : k \notin tainted \/ Answers(k)' = {}
  BY <1>1, <1>3, NoAnswersLeft
<1>. QED  BY <1>1, <1>2, <1>4, FreshByKey DEF FreshKey

LEMMA FreshStep ==
  ASSUME TypeOK, FreshInv, [Next]_vars
  PROVE  FreshInv'
<1>1. ASSUME NEW r \in Requests, ListGet(r) \/ ListQuery(r) \/ Authorise(r) PROVE FreshInv'
  BY <1>1, ListGetShape, ListQueryShape, AuthoriseShape, FreshReads DEF NoEviction
<1>2. ASSUME NEW r \in Requests, ListFill(r) \/ ServiceRefuses(r) PROVE FreshInv'
  BY <1>2, RespondShape, FreshReads DEF ListFill, ServiceRefuses, NoEviction
<1>3. ASSUME NEW r \in Requests, CancelCommit(r) \/ ExtendCommit(r) \/ CreateCommit(r)
      PROVE  FreshInv'
  BY <1>3, CancelWrites, ExtendWrites, CreateWrites, FreshWrites
<1>4. CASE UNCHANGED vars
  <2>1. \A k \in Keys : (Evicting(k)' <=> Evicting(k)) /\ Answers(k)' = Answers(k)
    BY <1>4 DEF vars, Evicting, Answers
  <2>2. \A k \in Keys : View(k)' = View(k)
    BY <1>4, ViewOfSameRows DEF vars
  <2>. QED  BY <1>4, <2>1, <2>2 DEF vars, FreshInv
<1>. QED  BY <1>1, <1>2, <1>3, <1>4, FreshEvict, FreshTimeUp, FreshJob, FreshTick
          DEF Next, HandlerStep

(***************************************************************************)
(* Evict-after-commit works but for the races it names: a cached list is   *)
(* the table's own once its writers have evicted it, unless a reader stood *)
(* between its query and its fill, an eviction failed or was never         *)
(* reached, or a job or cascade, which evict nothing, changed the row.     *)
(***************************************************************************)
THEOREM FreshOtherwise == Spec => []FreshUnlessRaced
<1>1. Init => FreshInv
  BY DEF Init, FreshInv, Answers, Idle
<1>2. FreshInv => FreshUnlessRaced
  BY DEF FreshInv, FreshUnlessRaced, Answers
<1>3. TypeOK /\ FreshInv /\ [Next]_vars => FreshInv'
  BY FreshStep
<1>. QED  BY <1>1, <1>2, <1>3, TypeCorrect, PTL DEF Spec
==============================================================================
