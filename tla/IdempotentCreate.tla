-------------------------- MODULE IdempotentCreate --------------------------
(***************************************************************************)
(* Create under one Idempotency-Key of one tenant: the calls that carry    *)
(* it, the record Valkey keeps for it, and the delegations they insert.    *)
(* Everything Create does between the claim and the INSERT (validation,    *)
(* membership, User Profile) is one step that may be refused.              *)
(***************************************************************************)
EXTENDS Integers

CONSTANTS
  Calls,    \* POST /delegations with this key, retries included
  Ids,      \* delegation ids
  Faults,   \* the failures a run of the model allows
  None,     \* Valkey has no record of the key
  Pending   \* the record Reserve writes

AllFaults == {"valkey_fail", "valkey_lost", "tx_fail", "tx_lost", "find_fail", "crash"}

ASSUME KeyAssumption ==
  Faults \subseteq AllFaults /\ None \notin Ids /\ Pending \notin Ids /\ None # Pending

VARIABLES
  record,   \* None, Pending, or the id of {created, id}
  made,     \* delegations inserted under the key in its 24 hours
  used,     \* ids that were ever inserted
  scrubbed, \* rows FindByID no longer finds (soft-deleted)
  call,     \* what every call is doing
  lost      \* history: what failed unnoticed in the key's 24 hours

vars == <<record, made, used, scrubbed, call, lost>>

NotSent == [pc |-> "new", reserved |-> FALSE, id |-> None, answer |-> "none"]

Init ==
  /\ record = None /\ made = {} /\ used = {} /\ scrubbed = {} /\ lost = {}
  /\ call = [c \in Calls |-> NotSent]

Goto(c, pc) == call' = [call EXCEPT ![c].pc = pc]

Answer(c, answer) == call' = [call EXCEPT ![c].pc = "done", ![c].answer = answer]

(***************************************************************************)
(* Valkey.  A command fails without effect, or (valkey_lost) takes effect  *)
(* although the caller sees an error.                                      *)
(***************************************************************************)
ValkeyFails == Faults \cap {"valkey_fail", "valkey_lost"} # {}

Lose(what) == lost' = lost \cup {what}

\* SET NX.
SetNX == IF record = None THEN Pending ELSE record

\* The fast path: a finished create is returned, one in flight refused; every
\* failure on the way means "no hit".
Get(c) ==
  /\ call[c].pc = "new"
  /\ \/ record = None /\ Goto(c, "reserve")
     \/ record = Pending /\ Answer(c, "in_flight")
     \/ /\ record \in Ids \ scrubbed
        /\ call' = [call EXCEPT ![c].pc = "done", ![c].answer = "created",
                                ![c].id = record]
     \/ record \in scrubbed /\ Goto(c, "reserve")
     \/ record \in Ids /\ "find_fail" \in Faults /\ Goto(c, "reserve")
     \/ ValkeyFails /\ Goto(c, "reserve")
  /\ UNCHANGED <<record, made, used, scrubbed, lost>>

\* Mutant: a plain write, not SET NX.
ReserveOverwrites(c) ==
  /\ call[c].pc = "reserve"
  /\ record' = Pending
  /\ call' = [call EXCEPT ![c].pc = "work", ![c].reserved = TRUE]
  /\ UNCHANGED <<made, used, scrubbed, lost>>

\* If Valkey is unavailable the create goes on unreserved.
Reserve(c) ==
  /\ call[c].pc = "reserve"
  /\ \/ /\ record = None /\ record' = SetNX
        /\ call' = [call EXCEPT ![c].pc = "work", ![c].reserved = TRUE]
        /\ UNCHANGED lost
     \/ record # None /\ UNCHANGED <<record, lost>> /\ Answer(c, "in_flight")
     \/ "valkey_fail" \in Faults /\ UNCHANGED record /\ Lose("claim") /\ Goto(c, "work")
     \/ "valkey_lost" \in Faults /\ record' = SetNX /\ Lose("claim") /\ Goto(c, "work")
  /\ UNCHANGED <<made, used, scrubbed>>

\* Refused before the INSERT: a 4xx or 503.
Refuse(c) ==
  /\ call[c].pc = "work" /\ Goto(c, "failed")
  /\ UNCHANGED <<record, made, used, scrubbed, lost>>

\* Mutant: the transaction's error is ignored.
InsertErrorIgnored(c) ==
  /\ call[c].pc = "work"
  /\ \E id \in Ids \ used :
       /\ made' = made \/ made' = made \cup {id}
       /\ used' = used \cup made'
       /\ call' = [call EXCEPT ![c].pc = "save", ![c].id = id]
  /\ UNCHANGED <<record, scrubbed, lost>>

\* The transaction.  tx_lost: it commits, the connection drops before the reply,
\* and wrapConnErr makes that a 503 like any other.
Insert(c) ==
  /\ call[c].pc = "work"
  /\ \/ \E id \in Ids \ used :
          /\ made' = made \cup {id} /\ used' = used \cup {id}
          /\ \/ call' = [call EXCEPT ![c].pc = "save", ![c].id = id] /\ UNCHANGED lost
             \/ "tx_lost" \in Faults /\ Lose("commit") /\ Goto(c, "failed")
     \/ "tx_fail" \in Faults /\ Goto(c, "failed") /\ UNCHANGED <<made, used, lost>>
  /\ UNCHANGED <<record, scrubbed>>

\* Best effort: the create has succeeded either way.
Save(c) ==
  /\ call[c].pc = "save"
  /\ \/ record' = call[c].id /\ UNCHANGED lost
     \/ "valkey_fail" \in Faults /\ UNCHANGED record /\ Lose("save")
  /\ Answer(c, "created")
  /\ UNCHANGED <<made, used, scrubbed>>

\* Mutant: the reservation is not released.
ReleaseSkipped(c) ==
  /\ call[c].pc = "failed" /\ Answer(c, "error")
  /\ UNCHANGED <<record, made, used, scrubbed, lost>>

\* The deferred Release of a call that reserved the key and then failed.
Release(c) ==
  /\ call[c].pc = "failed"
  /\ \/ call[c].reserved /\ record' = None /\ UNCHANGED lost
     \/ call[c].reserved /\ "valkey_fail" \in Faults /\ UNCHANGED record /\ Lose("release")
     \/ ~call[c].reserved /\ UNCHANGED <<record, lost>>
  /\ Answer(c, "error")
  /\ UNCHANGED <<made, used, scrubbed>>

Crash(c) ==
  /\ "crash" \in Faults /\ call[c].pc \in {"reserve", "work", "save", "failed"}
  /\ Answer(c, "none") /\ Lose("crash")
  /\ UNCHANGED <<record, made, used, scrubbed>>

\* A cascade soft-deletes the row.
Scrub(id) ==
  /\ id \in made \ scrubbed /\ scrubbed' = scrubbed \cup {id}
  /\ UNCHANGED <<record, made, used, call, lost>>

Running(c) == call[c].pc \notin {"new", "done"}

\* The 24 hours are over; no call lasts that long.
Expire ==
  /\ record # None /\ \A c \in Calls : ~Running(c)
  /\ record' = None /\ made' = {} /\ lost' = {}
  /\ UNCHANGED <<used, scrubbed, call>>

Step(c) == Get(c) \/ Reserve(c) \/ Refuse(c) \/ Insert(c) \/ Save(c) \/ Release(c)

Next ==
  \/ \E c \in Calls : Step(c) \/ Crash(c)
  \/ \E id \in Ids : Scrub(id)
  \/ Expire

Spec == Init /\ [][Next]_vars

(***************************************************************************)
(* Properties                                                              *)
(***************************************************************************)
CallStates ==
  [pc : {"new", "reserve", "work", "save", "failed", "done"}, reserved : BOOLEAN,
   id : Ids \cup {None}, answer : {"none", "created", "in_flight", "error"}]

LostSteps == {"claim", "commit", "save", "release", "crash"}

TypeOK ==
  /\ record \in Ids \cup {None, Pending}
  /\ made \subseteq Ids /\ used \subseteq Ids /\ scrubbed \subseteq Ids
  /\ lost \subseteq LostSteps
  /\ call \in [Calls -> CallStates]

\* Reserve answered every call, and every commit was acknowledged.
Guarded == lost \cap {"claim", "commit"} = {}

\* The 24 hours of a key see at most one delegation.
AtMostOne == \A i, j \in made : i = j

\* A key creates at most one delegation in its 24 hours, however many calls carry
\* it at once or one after the other, and whichever of them fail or crash, as long
\* as Valkey answered each Reserve and no commit's acknowledgement was lost.  A
\* lost Get, Save or Release does no harm.
OneDelegationPerKey == Guarded => AtMostOne

\* A retry is never shut out: when no call with the key is running, the key is free
\* or names a delegation, unless a call died while it ran or
\* Valkey lost its Reserve, Save or Release.  (Then the key is held until its 24
\* hours are over.)
KeyNotStuck ==
  (lost \subseteq {"commit"} /\ \A c \in Calls : ~Running(c))
    => record # Pending

\* Whatever fails, Valkey included: a 201 names a delegation that was inserted, and
\* the record of the key names one inserted in the key's own 24 hours.
SuccessIsReal ==
  /\ \A c \in Calls : call[c].answer = "created" => call[c].id \in used
  /\ record \in Ids => record \in made

(***************************************************************************)
(* Why it works: the calls past Reserve hold the key, one at a time.       *)
(***************************************************************************)
Holds(c) == call[c].pc \in {"work", "save", "failed"}

KeyInv ==
  /\ \A c \in Calls : Holds(c) => call[c].reserved /\ record = Pending
  /\ \A c, d \in Calls : Holds(c) /\ Holds(d) => c = d
  /\ \A c \in Calls : call[c].pc \in {"work", "failed"} => made = {}
  /\ \A c \in Calls : call[c].pc = "save" => made = {call[c].id} /\ call[c].id \in Ids
  /\ record = None => made = {}
  /\ record \in Ids => made = {record}
  /\ AtMostOne
=============================================================================
