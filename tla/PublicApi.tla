------------------------------ MODULE PublicApi ------------------------------
(***************************************************************************)
(* The HTTP surface: who a request is from, which tenant its statements    *)
(* are confined to, what its caller may change, and the list cache that    *)
(* DLG-1 reads through.  A row is what these depend on: its tenant, its    *)
(* delegator, whether DLG-1 lists it, and in which version.  What the      *)
(* service does to it in full is in DelegationService; here its writes     *)
(* commit or are refused.  A request that is turned away (no identity, a   *)
(* malformed id, body or key, a missing role, an unknown delegation) has   *)
(* read and changed nothing, and is a request that takes no step.          *)
(***************************************************************************)
EXTENDS Integers, FiniteSets

CONSTANTS
  Tenants, Users, Ids,
  Admins,          \* users whose x-tenant-roles say tenant_admin or tenant_owner
  Requests,        \* handler goroutines
  Faults,          \* the failures a run of the model allows
  ListTTL,         \* listTTL of the cache
  RequestTimeout,  \* TimeoutMiddleware's limit
  MaxVer,          \* bound on versions
  None             \* no user, no tenant, no cache entry

ASSUME ApiAssumption ==
  /\ Admins \subseteq Users
  /\ Faults \subseteq {"valkey_fail", "tx_lost"}
  /\ ListTTL \in Nat \ {0} /\ RequestTimeout \in Nat \ {0} /\ MaxVer \in Nat \ {0}
  /\ None \notin Tenants \cup Users \cup Ids

VARIABLES
  rows,      \* the table
  cache,     \* del:list:{tenant}:{delegator}, with the time each entry has left
  req,       \* what every handler is doing
  tainted    \* history: keys whose eviction may have come too early or not at all

vars == <<rows, cache, req, tainted>>

Keys == Tenants \X Users

\* How long a change may stay unseen.
Horizon == ListTTL + RequestTimeout

\* age: the time since the row was last changed, up to the horizon
NoRow == [tenant |-> None, owner |-> None, status |-> "absent", ver |-> 0, age |-> 0]

\* age: the time since the request came in
Idle == [pc |-> "idle", route |-> "list", user |-> None, tenant |-> None, target |-> None,
         owner |-> None, list |-> {}, age |-> 0]

Init ==
  /\ rows = [id \in Ids |-> NoRow]
  /\ cache = [k \in Keys |-> None]
  /\ req = [r \in Requests |-> Idle]
  /\ tainted = {}

(***************************************************************************)
(* Queries.  The connection's app.tenant_id is the tenant the middleware   *)
(* bound; without one, row-level security shows nothing.                   *)
(***************************************************************************)
\* The tenant's predicate and the row-level policy.
Visible(id, tenant) == rows[id].status # "absent" /\ rows[id].tenant = tenant

\* ListByDelegator, FindActiveByDelegator
Listed(k) == {id \in Ids : Visible(id, k[1]) /\ rows[id].owner = k[2] /\ rows[id].status = "active"}

View(k) == {<<id, rows[id].ver>> : id \in Listed(k)}

\* Mutant: the key forgets the tenant.
ListKeyByUser(q) == <<CHOOSE t \in Tenants : TRUE, q.user>>

\* delegatorListKey
ListKey(q) == <<q.tenant, q.user>>

(***************************************************************************)
(* Requests.  A request arrives with the first step in which it reads or   *)
(* changes what it shares with others.                                     *)
(***************************************************************************)
\* NewRouter, ContextMiddleware and tenantGUCMiddleware: the request is routed, its
\* identity known and its tenant bound.
Admitted(route) == {[Idle EXCEPT !.route = route, !.user = k[2], !.tenant = k[1]] : k \in Keys}

Step(r, q, pc) == req' = [req EXCEPT ![r] = [q EXCEPT !.pc = pc]]

Respond(r) == req' = [req EXCEPT ![r] = Idle]

(***************************************************************************)
(* DLG-1: read through the cache.                                          *)
(***************************************************************************)
\* A miss; a hit answers with the entry and changes nothing.
ListGet(r) ==
  /\ req[r].pc = "idle"
  /\ \E q \in Admitted("list") :
       /\ cache[ListKey(q)] = None \/ "valkey_fail" \in Faults
       /\ Step(r, q, "query")
  /\ UNCHANGED <<rows, cache, tainted>>

ListQuery(r) ==
  /\ req[r].pc = "query"
  /\ Step(r, [req[r] EXCEPT !.list = View(<<req[r].tenant, req[r].user>>)], "fill")
  /\ UNCHANGED <<rows, cache, tainted>>

\* Mutant: entries outlive their TTL.
ListFillForever(r) ==
  /\ req[r].pc = "fill"
  /\ cache' = [cache EXCEPT ![ListKey(req[r])] = [list |-> req[r].list, left |-> Horizon + 1]]
  /\ Respond(r)
  /\ UNCHANGED <<rows, tainted>>

ListFill(r) ==
  /\ req[r].pc = "fill"
  /\ \/ cache' = [cache EXCEPT ![ListKey(req[r])] = [list |-> req[r].list, left |-> ListTTL]]
     \/ "valkey_fail" \in Faults /\ UNCHANGED cache
  /\ Respond(r)
  /\ UNCHANGED <<rows, tainted>>

(***************************************************************************)
(* DLG-3, 4, 5: the row is read to see whose it is, then changed.          *)
(***************************************************************************)
IsAdmin(q) == q.user \in Admins

\* Mutant: any member may.
EntitledMember(q) == TRUE

\* The delegator, or an admin of the tenant.
Entitled(q) == rows[q.target].owner = q.user \/ IsAdmin(q)

\* requireSelfOrAdmin
Authorise(r) ==
  /\ req[r].pc = "idle"
  /\ \E route \in {"cancel", "extend", "reassign"}, id \in Ids :
       \E q \in {[p EXCEPT !.target = id] : p \in Admitted(route)} :
         Visible(id, q.tenant) /\ Entitled(q) /\ Step(r, q, "act")
  /\ UNCHANGED <<rows, cache, tainted>>

\* A body that does not parse, and whatever the service refuses: a version conflict,
\* a finished delegation, a failed check, a dependency that is down.
ServiceRefuses(r) ==
  /\ req[r].pc \in {"act", "insert"} /\ Respond(r)
  /\ UNCHANGED <<rows, cache, tainted>>

\* A handler that has read the list for k and not yet cached it.
Filling(k) == \E s \in Requests : req[s].pc = "fill" /\ <<req[s].tenant, req[s].user>> = k

\* There may be an older list of k, in the cache or on its way there.
Taint(k) == tainted' = IF cache[k] # None \/ Filling(k) THEN tainted \cup {k} ELSE tainted

\* A transaction whose acknowledgement is lost is answered like one that failed, and
\* nothing is evicted.
Commit(r, q, id, row, pc) ==
  /\ rows' = [rows EXCEPT ![id] = [row EXCEPT !.age = 0]]
  /\ \/ Step(r, [q EXCEPT !.owner = row.owner], pc) /\ UNCHANGED tainted
     \/ "tx_lost" \in Faults /\ Respond(r) /\ Taint(<<row.tenant, row.owner>>)
  /\ UNCHANGED cache

\* cancelInternal, for Cancel and for the first half of Reassign
CancelCommit(r) ==
  LET q == req[r]
  IN  /\ q.pc = "act" /\ q.route \in {"cancel", "reassign"}
      /\ Visible(q.target, q.tenant)
      /\ rows[q.target].status \in
           IF q.route = "cancel" THEN {"active", "scheduled"} ELSE {"active"}
      /\ Commit(r, q, q.target, [rows[q.target] EXCEPT !.status = "over"],
                IF q.route = "cancel" THEN "evict" ELSE "evict_then_insert")

ExtendCommit(r) ==
  LET q == req[r]
  IN  /\ q.pc = "act" /\ q.route = "extend"
      /\ Visible(q.target, q.tenant) /\ rows[q.target].status = "active"
      /\ rows[q.target].ver < MaxVer
      /\ Commit(r, q, q.target, [rows[q.target] EXCEPT !.ver = @ + 1], "evict")

\* DLG-2 makes the caller the delegator; Reassign's second half keeps the old one.
CreateCommit(r) ==
  \E q \in IF req[r].pc = "insert" THEN {req[r]}
           ELSE {[p EXCEPT !.owner = p.user] : p \in Admitted("create")},
     id \in Ids, status \in {"active", "scheduled"} :
    /\ req[r].pc \in {"idle", "insert"} /\ rows[id].status = "absent"
    /\ status = "active" \/ q.route = "create"
    /\ Commit(r, q, id, [tenant |-> q.tenant, owner |-> q.owner, status |-> status,
                         ver |-> 1, age |-> 0], "evict")

\* Mutant: the caller's list is evicted, not the delegator's.
EvictedKeyOfCaller(q) == <<q.tenant, q.user>>

EvictedKey(q) == <<q.tenant, q.owner>>

\* InvalidateDelegatorList, after the commit; a failure is logged.
Evict(r) ==
  LET k == EvictedKey(req[r])
  IN  /\ req[r].pc \in {"evict", "evict_then_insert"}
      /\ \/ cache' = [cache EXCEPT ![k] = None]
            /\ tainted' = IF Filling(k) THEN tainted \cup {k} ELSE tainted \ {k}
         \/ "valkey_fail" \in Faults /\ UNCHANGED cache /\ Taint(k)
      /\ IF req[r].pc = "evict" THEN Respond(r) ELSE Step(r, req[r], "insert")
      /\ UNCHANGED rows

(***************************************************************************)
(* Around the handlers.                                                    *)
(***************************************************************************)
\* A job or a cascade starts or ends a delegation, or marks it warned, which touch_row
\* makes a new version of it; none evicts anything.
JobChange(id) ==
  /\ \/ rows[id].status = "scheduled"
        /\ rows' = [rows EXCEPT ![id].status = "active", ![id].age = 0]
     \/ rows[id].status = "active"
        /\ rows' = [rows EXCEPT ![id].status = "over", ![id].age = 0]
     \/ rows[id].status = "active" /\ rows[id].ver < MaxVer
        /\ rows' = [rows EXCEPT ![id].ver = @ + 1, ![id].age = 0]
  /\ Taint(<<rows[id].tenant, rows[id].owner>>)
  /\ UNCHANGED <<cache, req>>

Late(r) == req[r].age = RequestTimeout

\* The request's context ends: no further call of it succeeds.
TimeUp(r) ==
  /\ Late(r)
  /\ IF req[r].pc \in {"evict", "evict_then_insert"}
     THEN Taint(<<req[r].tenant, req[r].owner>>) ELSE UNCHANGED tainted
  /\ Respond(r)
  /\ UNCHANGED <<rows, cache>>

\* Time passes for rows, entries and requests alike.
Tick ==
  /\ \A r \in Requests : ~Late(r)
  /\ rows' = [id \in Ids |-> IF rows[id].status # "absent" /\ rows[id].age < Horizon
                             THEN [rows[id] EXCEPT !.age = @ + 1] ELSE rows[id]]
  /\ req' = [r \in Requests |-> IF req[r].pc = "idle" THEN req[r] ELSE [req[r] EXCEPT !.age = @ + 1]]
  /\ cache' = [k \in Keys |-> IF cache[k] = None \/ cache[k].left = 1
                              THEN None ELSE [cache[k] EXCEPT !.left = @ - 1]]
  /\ tainted' = {k \in tainted : cache'[k] # None \/ Filling(k)}

HandlerStep(r) ==
  \/ ListGet(r) \/ ListQuery(r) \/ ListFill(r)
  \/ Authorise(r) \/ ServiceRefuses(r) \/ CancelCommit(r) \/ ExtendCommit(r)
  \/ CreateCommit(r) \/ Evict(r) \/ TimeUp(r)

Next ==
  \/ \E r \in Requests : HandlerStep(r)
  \/ \E id \in Ids : JobChange(id)
  \/ Tick

Spec == Init /\ [][Next]_vars

(***************************************************************************)
(* Properties                                                              *)
(***************************************************************************)
RowStates ==
  [tenant : Tenants, owner : Users, status : {"scheduled", "active", "over"},
   ver : 1..MaxVer, age : 0..Horizon]

Entries == [list : SUBSET (Ids \X (1..MaxVer)), left : 1..ListTTL]

Working == {"act", "insert", "evict", "evict_then_insert"}

ReqStates ==
  [pc : {"query", "fill"} \cup Working, route : {"list", "create", "cancel", "extend", "reassign"},
   user : Users, tenant : Tenants, target : Ids \cup {None}, owner : Users \cup {None},
   list : SUBSET (Ids \X (1..MaxVer)), age : 0..RequestTimeout]

\* A request that is about to change or to evict knows what.
Knows(q) ==
  /\ q.pc = "act" => q.target \in Ids
  /\ q.pc \in Working \ {"act"} => q.owner \in Users

\* Tables, entries and requests are well formed: a row in use has a tenant and a
\* delegator, no entry has more than its TTL to live, and a request at work is of an
\* identified caller.
TypeOK ==
  /\ rows \in [Ids -> {NoRow} \cup RowStates]
  /\ cache \in [Keys -> {None} \cup Entries]
  /\ req \in [Requests -> {Idle} \cup ReqStates]
  /\ \A r \in Requests : Knows(req[r])
  /\ tainted \subseteq Keys

\* Only the delegator or an admin, and only from within the tenant, changes a
\* delegation through the API, although requireSelfOrAdmin reads the row long before
\* the service changes it, and Reassign never hands a delegation to another delegator.
OnlyEntitledChange ==
  [][\A r \in Requests : (req'[r] # req[r] /\ req[r].pc # "idle") =>
       \A id \in Ids : rows'[id].status # rows[id].status \/ rows'[id].ver # rows[id].ver =>
         /\ rows'[id].tenant = req[r].tenant
         /\ rows'[id].owner = req[r].user \/ req[r].user \in Admins
         /\ rows[id].status = "absent" => rows'[id].owner = rows[req[r].target].owner]_vars

\* What a DLG-1 of the user k[2] in the tenant k[1] may be answered with now: the
\* cached list, or the one a handler has read.
Answers(k) ==
  {cache[j].list : j \in {j \in {k} : cache[j] # None}}
    \cup {req[r].list : r \in {s \in Requests : req[s].pc = "fill" /\ <<req[s].tenant, req[s].user>> = k}}

\* DLG-1 never tells of another tenant or another user: a list, cached or not, holds
\* the caller's own delegations in the caller's tenant.
TenantsApart ==
  \A k \in Keys : \A list \in Answers(k) : \A e \in list :
    rows[e[1]].tenant = k[1] /\ rows[e[1]].owner = k[2]

\* DLG-1 is never wrong about what is older than the cache's TTL and one request: a
\* change that long ago is in every list, whatever reads, writes, jobs, failed
\* evictions, lost acknowledgements and timeouts came between.
StalenessBounded ==
  \A k \in Keys : \A list \in Answers(k), id \in Ids :
    rows[id].age = Horizon => (id \in Listed(k) <=> <<id, rows[id].ver>> \in list)

Evicting(k) ==
  \E r \in Requests : req[r].pc \in {"evict", "evict_then_insert"}
                        /\ <<req[r].tenant, req[r].owner>> = k

\* A cached list equals the table once the writers of its rows have evicted it,
\* unless a reader was between its query and its fill at that moment, the eviction
\* failed or was never reached, or a job changed the row.
FreshUnlessRaced ==
  \A k \in Keys \ tainted : cache[k] # None /\ ~Evicting(k) => cache[k].list = View(k)
=============================================================================
