----------------------- MODULE IdempotentCreateProofs -----------------------
(***************************************************************************)
(* One delegation per Idempotency-Key, for any number of calls and every   *)
(* fault.  The invariant is KeyInv as long as the key is Guarded: a call   *)
(* past Reserve holds the key, alone, and what has been inserted follows   *)
(* from the record and from how far the holder has come.                   *)
(***************************************************************************)
EXTENDS IdempotentCreate, TLAPS

GuardedInv == TypeOK /\ (Guarded => KeyInv)

LEMMA KeyInitially == Init => GuardedInv
  BY KeyAssumption DEF Init, GuardedInv, KeyInv, TypeOK, CallStates, LostSteps, NotSent, Holds, AtMostOne

LEMMA TypePreserved ==
  ASSUME TypeOK, [Next]_vars
  PROVE  TypeOK'
  <1> USE DEF TypeOK
  <1>1. ASSUME NEW c \in Calls, Get(c) PROVE TypeOK'
    BY <1>1 DEF Get, Goto, Answer, CallStates, LostSteps
  <1>2. ASSUME NEW c \in Calls, Reserve(c) PROVE TypeOK'
    BY <1>2 DEF Reserve, Goto, Answer, SetNX, Lose, CallStates, LostSteps
  <1>3. ASSUME NEW c \in Calls, Refuse(c) PROVE TypeOK'
    BY <1>3 DEF Refuse, Goto, CallStates, LostSteps
  <1>4. ASSUME NEW c \in Calls, Insert(c) PROVE TypeOK'
    BY <1>4 DEF Insert, Goto, Lose, CallStates, LostSteps
  <1>5. ASSUME NEW c \in Calls, Save(c) PROVE TypeOK'
    <2>1. call' = [call EXCEPT ![c].pc = "done", ![c].answer = "created"]
      BY <1>5 DEF Save, Answer
    <2>2. call' \in [Calls -> CallStates]
      BY <2>1 DEF CallStates
    <2>3. record' \in Ids \cup {None, Pending} /\ lost' \subseteq LostSteps
      BY <1>5 DEF Save, Lose, LostSteps, CallStates
    <2> QED  BY <1>5, <2>2, <2>3 DEF Save
  <1>6. ASSUME NEW c \in Calls, Release(c) PROVE TypeOK'
    <2>1. call' = [call EXCEPT ![c].pc = "done", ![c].answer = "error"]
      BY <1>6 DEF Release, Answer
    <2>2. call' \in [Calls -> CallStates]
      BY <2>1 DEF CallStates
    <2>3. record' \in Ids \cup {None, Pending} /\ lost' \subseteq LostSteps
      BY <1>6 DEF Release, Lose, LostSteps, CallStates
    <2> QED  BY <1>6, <2>2, <2>3 DEF Release
  <1>7. ASSUME NEW c \in Calls, Crash(c) PROVE TypeOK'
    <2>1. call' = [call EXCEPT ![c].pc = "done", ![c].answer = "none"]
      BY <1>7 DEF Crash, Answer
    <2>2. call' \in [Calls -> CallStates]
      BY <2>1 DEF CallStates
    <2>3. record' \in Ids \cup {None, Pending} /\ lost' \subseteq LostSteps
      BY <1>7 DEF Crash, Lose, LostSteps, CallStates
    <2> QED  BY <1>7, <2>2, <2>3 DEF Crash
  <1>8. ASSUME NEW id \in Ids, Scrub(id) PROVE TypeOK'
    BY <1>8 DEF Scrub
  <1>9. CASE Expire
    BY <1>9 DEF Expire, LostSteps
  <1>10. CASE UNCHANGED vars
    BY <1>10 DEF vars
  <1> QED  BY <1>1, <1>2, <1>3, <1>4, <1>5, <1>6, <1>7, <1>8, <1>9, <1>10 DEF Next, Step

LEMMA KeyPreserved ==
  ASSUME GuardedInv, [Next]_vars
  PROVE  GuardedInv'
  <1>0. TypeOK /\ TypeOK'
    BY TypePreserved DEF GuardedInv
  <1> SUFFICES ASSUME Guarded' PROVE KeyInv'
    BY <1>0 DEF GuardedInv
  <1> USE KeyAssumption, <1>0
          DEF GuardedInv, Guarded, KeyInv, TypeOK, CallStates, LostSteps, Holds, AtMostOne
  <1>1. ASSUME NEW c \in Calls, Get(c) PROVE KeyInv'
    BY <1>1 DEF Get, Goto, Answer
  <1>2. ASSUME NEW c \in Calls, Reserve(c) PROVE KeyInv'
    <2>1. UNCHANGED lost
      BY <1>2 DEF Reserve, Lose
    <2>2. CASE record = None /\ record' = Pending /\ call[c].pc = "reserve"
               /\ call' = [call EXCEPT ![c].pc = "work", ![c].reserved = TRUE]
      BY <1>2, <2>1, <2>2 DEF Reserve
    <2>3. CASE record' = record
               /\ call' = [call EXCEPT ![c].pc = "done", ![c].answer = "in_flight"]
      BY <1>2, <2>1, <2>3 DEF Reserve
    <2> QED  BY <1>2, <2>1, <2>2, <2>3 DEF Reserve, Goto, Answer, SetNX, Lose
  <1>3. ASSUME NEW c \in Calls, Refuse(c) PROVE KeyInv'
    BY <1>3 DEF Refuse, Goto
  <1>4. ASSUME NEW c \in Calls, Insert(c) PROVE KeyInv'
    BY <1>4 DEF Insert, Goto, Lose
  <1>5. ASSUME NEW c \in Calls, Save(c) PROVE KeyInv'
    BY <1>5 DEF Save, Answer, Lose
  <1>6. ASSUME NEW c \in Calls, Release(c) PROVE KeyInv'
    BY <1>6 DEF Release, Answer, Lose
  <1>7. ASSUME NEW c \in Calls, Crash(c) PROVE KeyInv'
    BY <1>7 DEF Crash, Answer, Lose
  <1>8. ASSUME NEW id \in Ids, Scrub(id) PROVE KeyInv'
    BY <1>8 DEF Scrub
  <1>9. CASE Expire
    BY <1>9 DEF Expire, Running
  <1>10. CASE UNCHANGED vars
    BY <1>10 DEF vars
  <1> QED  BY <1>1, <1>2, <1>3, <1>4, <1>5, <1>6, <1>7, <1>8, <1>9, <1>10 DEF Next, Step

\* Reserve's SET NX lets one call at a time past it, so a key creates at most one
\* delegation in its 24 hours while Valkey answers Reserve and commits are
\* acknowledged; calls may be refused, Get, Save and Release may be lost,
\* transactions may fail, and pods may crash.
THEOREM KeyCreatesOne == Spec => []OneDelegationPerKey
  <1>1. Init => GuardedInv
    BY KeyInitially
  <1>2. GuardedInv /\ [Next]_vars => GuardedInv'
    BY KeyPreserved
  <1>3. GuardedInv => OneDelegationPerKey
    BY DEF GuardedInv, OneDelegationPerKey, KeyInv
  <1> QED  BY <1>1, <1>2, <1>3, PTL DEF Spec

(***************************************************************************)
(* A 201 names a delegation that was inserted.  No guard helps here: the   *)
(* record and the calls carry ids only from INSERTs that committed.        *)
(***************************************************************************)
RealInv ==
  /\ TypeOK /\ SuccessIsReal
  /\ made \subseteq used
  /\ \A c \in Calls : call[c].pc = "save" => call[c].id \in made

LEMMA RealInitially == Init => RealInv
  BY KeyInitially, KeyAssumption DEF Init, GuardedInv, RealInv, SuccessIsReal, NotSent

LEMMA RealPreserved ==
  ASSUME RealInv, [Next]_vars
  PROVE  RealInv'
  <1>0. TypeOK /\ TypeOK'
    BY TypePreserved DEF RealInv
  <1> USE KeyAssumption, <1>0
          DEF RealInv, SuccessIsReal, TypeOK, CallStates, LostSteps
  <1>1. ASSUME NEW c \in Calls, Get(c) PROVE RealInv'
    BY <1>1 DEF Get, Goto, Answer
  <1>2. ASSUME NEW c \in Calls, Reserve(c) PROVE RealInv'
    BY <1>2 DEF Reserve, Goto, Answer, SetNX, Lose
  <1>3. ASSUME NEW c \in Calls, Refuse(c) PROVE RealInv'
    BY <1>3 DEF Refuse, Goto
  <1>4. ASSUME NEW c \in Calls, Insert(c) PROVE RealInv'
    BY <1>4 DEF Insert, Goto, Lose
  <1>5. ASSUME NEW c \in Calls, Save(c) PROVE RealInv'
    BY <1>5 DEF Save, Answer, Lose
  <1>6. ASSUME NEW c \in Calls, Release(c) PROVE RealInv'
    BY <1>6 DEF Release, Answer, Lose
  <1>7. ASSUME NEW c \in Calls, Crash(c) PROVE RealInv'
    BY <1>7 DEF Crash, Answer, Lose
  <1>8. ASSUME NEW id \in Ids, Scrub(id) PROVE RealInv'
    BY <1>8 DEF Scrub
  <1>9. CASE Expire
    BY <1>9 DEF Expire, Running
  <1>10. CASE UNCHANGED vars
    BY <1>10 DEF vars
  <1> QED  BY <1>1, <1>2, <1>3, <1>4, <1>5, <1>6, <1>7, <1>8, <1>9, <1>10 DEF Next, Step

\* Whatever Valkey, the database or the pods do, a 201 names a delegation whose
\* INSERT committed, and the record Save leaves names one of the key's own 24 hours.
THEOREM SuccessesAreReal == Spec => []SuccessIsReal
  <1>1. RealInv => SuccessIsReal
    BY DEF RealInv
  <1> QED  BY <1>1, RealInitially, RealPreserved, PTL DEF Spec

(***************************************************************************)
(* A pending record has an owner, as long as nothing but the               *)
(* acknowledgement of a commit was lost: the call that reserved the key is *)
(* still on its way to Save or Release, and it is the only one.            *)
(***************************************************************************)
Owned ==
  /\ \A c \in Calls : Holds(c) => call[c].reserved /\ record = Pending
  /\ \A c, d \in Calls : Holds(c) /\ Holds(d) => c = d
  /\ record = Pending => \E c \in Calls : Holds(c)

OwnedInv == TypeOK /\ (lost \subseteq {"commit"} => Owned)

LEMMA OwnedInitially == Init => OwnedInv
  BY KeyInitially, KeyAssumption DEF Init, GuardedInv, OwnedInv, Owned, Holds, NotSent

LEMMA OwnedPreserved ==
  ASSUME OwnedInv, [Next]_vars
  PROVE  OwnedInv'
  <1>0. TypeOK /\ TypeOK'
    BY TypePreserved DEF OwnedInv
  <1> SUFFICES ASSUME lost' \subseteq {"commit"} PROVE Owned'
    BY <1>0 DEF OwnedInv
  <1> USE KeyAssumption, <1>0 DEF OwnedInv, Owned, TypeOK, CallStates, LostSteps, Holds
  <1>1. ASSUME NEW c \in Calls, Get(c) PROVE Owned'
    BY <1>1 DEF Get, Goto, Answer
  <1>2. ASSUME NEW c \in Calls, Reserve(c) PROVE Owned'
    <2>1. CASE record = None /\ record' = Pending /\ call[c].pc = "reserve"
               /\ call' = [call EXCEPT ![c].pc = "work", ![c].reserved = TRUE]
      BY <1>2, <2>1 DEF Reserve, Lose
    <2>2. CASE record' = record
               /\ call' = [call EXCEPT ![c].pc = "done", ![c].answer = "in_flight"]
      BY <1>2, <2>2 DEF Reserve, Lose
    <2> QED  BY <1>2, <2>1, <2>2 DEF Reserve, Goto, Answer, SetNX, Lose
  <1>3. ASSUME NEW c \in Calls, Refuse(c) PROVE Owned'
    BY <1>3 DEF Refuse, Goto
  <1>4. ASSUME NEW c \in Calls, Insert(c) PROVE Owned'
    BY <1>4 DEF Insert, Goto, Lose
  <1>5. ASSUME NEW c \in Calls, Save(c) PROVE Owned'
    <2>1. call' = [call EXCEPT ![c].pc = "done", ![c].answer = "created"] /\ Holds(c)
      BY <1>5 DEF Save, Answer
    <2>2. lost' = lost /\ record' # Pending
      BY <1>5, <2>1 DEF Save, Lose
    <2>3. \A d \in Calls : ~Holds(d)'
      BY <2>1, <2>2
    <2> QED  BY <2>2, <2>3
  <1>6. ASSUME NEW c \in Calls, Release(c) PROVE Owned'
    <2>1. call' = [call EXCEPT ![c].pc = "done", ![c].answer = "error"] /\ Holds(c)
      BY <1>6 DEF Release, Answer
    <2>2. lost' = lost /\ record' # Pending
      BY <1>6, <2>1 DEF Release, Lose
    <2>3. \A d \in Calls : ~Holds(d)'
      BY <2>1, <2>2
    <2> QED  BY <2>2, <2>3
  <1>7. ASSUME NEW c \in Calls, Crash(c) PROVE Owned'
    BY <1>7 DEF Crash, Answer, Lose
  <1>8. ASSUME NEW id \in Ids, Scrub(id) PROVE Owned'
    BY <1>8 DEF Scrub
  <1>9. CASE Expire
    BY <1>9 DEF Expire, Running
  <1>10. CASE UNCHANGED vars
    BY <1>10 DEF vars
  <1> QED  BY <1>1, <1>2, <1>3, <1>4, <1>5, <1>6, <1>7, <1>8, <1>9, <1>10 DEF Next, Step

\* Once no call with the key runs, a retry finds it free or naming a delegation: a
\* refused or failed create releases what Reserve claimed, also when its commit went
\* through unseen.  Only a lost Reserve, Save or Release or a dead pod keeps the key.
THEOREM KeyComesFree == Spec => []KeyNotStuck
  <1>1. OwnedInv => KeyNotStuck
    BY DEF OwnedInv, Owned, KeyNotStuck, Holds, Running
  <1> QED  BY <1>1, OwnedInitially, OwnedPreserved, PTL DEF Spec
=============================================================================
