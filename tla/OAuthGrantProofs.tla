--------------------------- MODULE OAuthGrantProofs ---------------------------
(***************************************************************************)
(* Proofs about OAuthGrant, for any callers, grants and bounds.            *)
(*                                                                         *)
(* That a fenced write builds on the configuration it replaces is not      *)
(* inductive.  ReadsHold says why it is so: a revision names one           *)
(* configuration, so whoever still holds the row's revision read the       *)
(* row's configuration, a reconnect included, whose revision is older than *)
(* its reading.                                                            *)
(***************************************************************************)
EXTENDS OAuthGrant, TLAPS

(* What a caller goes on to use of the configuration it read.              *)
Reads == {"claim", "call", "complete", "write"}

ReadsHold ==
  /\ \A a \in Reconnects : attempt[a].rev <= row.rev
  /\ \A x \in Actors :
       /\ actor[x].rev <= row.rev
       /\ actor[x].at \in Reads /\ actor[x].rev = row.rev /\ row.exists =>
            actor[x].grant = row.grant /\ actor[x].manual = row.manual

(* The inductive invariant.                                                *)
IInv == TypeOK /\ ReadsHold

-----------------------------------------------------------------------------
(* Init                                                                    *)

LEMMA InitHolds == Init => IInv
<1> SUFFICES ASSUME Init PROVE IInv
  OBVIOUS
<1> USE NoneIsNoActor, BoundsAreNumbers
<1>1. RowOK
  BY DEF Init, RowOK
<1>2. attempt \in [Reconnects -> Attempts]
  BY DEF Init, Attempts
<1>3. actor \in [Actors -> Callers]
  BY DEF Init, Callers, Idle, NoGrant, Points
<1>4. issued \in Grants /\ sent \subseteq 0 .. issued
  BY DEF Init, Grants
<1>5. count \in [changes : 0 .. MaxChanges, faults : 0 .. MaxFaults]
  BY DEF Init
<1>6. ReadsHold
  BY DEF Init, ReadsHold, Idle, Reads
<1> QED
  BY <1>1, <1>2, <1>3, <1>4, <1>5, <1>6 DEF IInv, TypeOK

LEMMA AtLeastItself == \A n \in Nat : n >= n /\ n <= n
OBVIOUS

(* What a caller may know next.                                            *)
LEMMA CallersKnow ==
  ASSUME TypeOK, NEW x \in Actors, NEW at \in Points
  PROVE  /\ Reading(x, at) \in Callers
         /\ [Idle EXCEPT !.at = at] \in Callers
         /\ Idle \in Callers
         /\ [actor[x] EXCEPT !.at = at] \in Callers
<1>0. issued \in Nat /\ actor[x] \in Callers /\ 0 \in 0 .. issued
  BY BoundsAreNumbers DEF TypeOK, Grants
<1>1. Reading(x, at) \in Callers
  BY <1>0 DEF TypeOK, RowOK, Callers, Reading, NoGrant
<1>2. Idle \in Callers
  BY <1>0 DEF Callers, Idle, NoGrant, Points
<1>3. \A c \in Callers : [c EXCEPT !.at = at] \in Callers
  BY DEF Callers
<1> QED
  BY <1>0, <1>1, <1>2, <1>3

-----------------------------------------------------------------------------
(* What a step has to show                                                 *)

(* The configuration changes only with its revision, and the connection    *)
(* does not come back.                                                     *)
RowMovesOn ==
  /\ row'.rev >= row.rev
  /\ row'.rev = row.rev /\ row'.exists =>
       row.exists /\ row'.grant = row.grant /\ row'.manual = row.manual

(* A caller goes on with what it read, reads the row as it is, or uses     *)
(* nothing any more.                                                       *)
CallerMovesOn(x) ==
  /\ actor'[x].rev <= row.rev
  /\ \/ actor'[x].at \notin Reads
     \/ actor'[x].grant = row.grant /\ actor'[x].manual = row.manual
     \/ /\ actor[x].at \in Reads /\ actor'[x].rev = actor[x].rev
        /\ actor'[x].grant = actor[x].grant /\ actor'[x].manual = actor[x].manual

LEMMA ReadsStayTrue ==
  ASSUME IInv, TypeOK', RowMovesOn, \A x \in Actors : CallerMovesOn(x),
         \A a \in Reconnects : attempt'[a].rev <= row.rev
  PROVE  IInv'
<1>1. row.rev \in Nat /\ row'.rev \in Nat
  BY DEF IInv, TypeOK, RowOK
<1>2. ASSUME NEW a \in Reconnects PROVE attempt'[a].rev <= row'.rev
  <2> attempt'[a].rev \in Nat
    BY DEF TypeOK, Attempts
  <2> QED
    BY <1>1 DEF RowMovesOn
<1>3. ASSUME NEW x \in Actors
      PROVE  /\ actor'[x].rev <= row'.rev
             /\ actor'[x].at \in Reads /\ actor'[x].rev = row'.rev /\ row'.exists =>
                  actor'[x].grant = row'.grant /\ actor'[x].manual = row'.manual
  <2>1. actor'[x].rev \in Nat /\ actor[x].rev \in Nat
    BY DEF IInv, TypeOK, Callers
  <2> QED
    BY <1>1, <2>1 DEF RowMovesOn, CallerMovesOn, IInv, ReadsHold
<1> QED
  BY <1>2, <1>3 DEF IInv, ReadsHold

(* A step of `x` leaves the other callers to what they read.               *)
LEMMA OthersMoveOn ==
  ASSUME IInv, NEW x \in Actors, NEW C, Callers \subseteq C, NEW c \in C,
         actor' = [actor EXCEPT ![x] = c], c.rev <= row.rev,
         \/ c.at \notin Reads
         \/ c.grant = row.grant /\ c.manual = row.manual
         \/ /\ actor[x].at \in Reads /\ c.rev = actor[x].rev
            /\ c.grant = actor[x].grant /\ c.manual = actor[x].manual
  PROVE  actor' \in [Actors -> C] /\ \A y \in Actors : CallerMovesOn(y)
<1>1. actor \in [Actors -> Callers]
  BY DEF IInv, TypeOK
<1>2. ASSUME NEW y \in Actors PROVE CallerMovesOn(y)
  <2>1. CASE y = x
    BY <1>1, <2>1 DEF CallerMovesOn
  <2>2. CASE y # x
    <3>1. actor'[y] = actor[y]
      BY <1>1, <2>2
    <3> QED
      BY <3>1 DEF CallerMovesOn, IInv, ReadsHold
  <2> QED
    BY <2>1, <2>2
<1> QED
  BY <1>1, <1>2

(* A caller that stops, waits or gives up uses nothing it read.            *)
LEMMA StopsWell ==
  ASSUME IInv, NEW x \in Actors, issued' = issued,
         \/ actor' = [actor EXCEPT ![x] = Idle]
         \/ actor' = [actor EXCEPT ![x] = [Idle EXCEPT !.at = "await"]]
         \/ GivesUp(x, "release") \/ GivesUp(x, "mark")
  PROVE  actor' \in [Actors -> Callers'] /\ \A y \in Actors : CallerMovesOn(y)
<1>0. Callers' = Callers /\ row.rev \in Nat /\ actor[x] \in Callers
      /\ actor[x].rev <= row.rev
  BY DEF Callers, IInv, TypeOK, RowOK, ReadsHold
<1>i. Idle \in Callers
  BY CallersKnow DEF IInv, Points
<1>1. CASE actor' = [actor EXCEPT ![x] = Idle]
  <2> DEFINE c == Idle
  <2>1. c \in Callers /\ c.rev <= row.rev /\ c.at \notin Reads
    BY <1>0, <1>i DEF Idle, Reads
  <2> HIDE DEF c
  <2>2. actor' = [actor EXCEPT ![x] = c]
    BY <1>1 DEF c
  <2> QED
    BY <1>0, <2>1, <2>2, OthersMoveOn
<1>2. CASE actor' = [actor EXCEPT ![x] = [Idle EXCEPT !.at = "await"]]
  <2> DEFINE c == [Idle EXCEPT !.at = "await"]
  <2>1. c \in Callers /\ c.rev <= row.rev /\ c.at \notin Reads
    BY <1>0, <1>i DEF Callers, Points, Idle, Reads
  <2> HIDE DEF c
  <2>2. actor' = [actor EXCEPT ![x] = c]
    BY <1>2 DEF c
  <2> QED
    BY <1>0, <2>1, <2>2, OthersMoveOn
<1>3. ASSUME NEW at \in {"release", "mark"}, GivesUp(x, at)
      PROVE  actor' \in [Actors -> Callers'] /\ \A y \in Actors : CallerMovesOn(y)
  <2> DEFINE c == [Idle EXCEPT !.at = at, !.rev = actor[x].rev, !.claim = x]
  <2>2. c \in Callers /\ c.rev <= row.rev /\ c.at \notin Reads
    BY <1>0, <1>i DEF Callers, Points, Reads
  <2> HIDE DEF c
  <2>3. actor' = [actor EXCEPT ![x] = c]
    BY <1>3 DEF GivesUp, c
  <2> QED
    BY <1>0, <2>2, <2>3, OthersMoveOn
<1> QED
  BY <1>1, <1>2, <1>3

(* Ending a claim leaves the configuration alone.                          *)
LEMMA UnclaimedWell ==
  ASSUME IInv, NEW st \in {"idle", "reauthorize"}, issued' = issued,
         row.st = "refreshing", row' = Unclaimed(st)
  PROVE  RowOK' /\ RowMovesOn
<1>1. row.exists /\ row.rev \in Nat /\ RowOK
  BY DEF IInv, TypeOK, RowOK
<1>2. /\ row'.exists = row.exists /\ row'.grant = row.grant /\ row'.rev = row.rev
      /\ row'.manual = row.manual /\ row'.st = st /\ row'.claim = None
      /\ row'.stale = FALSE
  BY <1>1 DEF Unclaimed, RowOK
<1>3. row' \in [exists : BOOLEAN, grant : 0 .. issued, manual : Nat, rev : Nat,
                st : {"idle", "refreshing", "reauthorize"},
                claim : Actors \cup {None}, stale : BOOLEAN]
  BY <1>1 DEF Unclaimed, RowOK
<1> QED
  BY <1>1, <1>2, <1>3 DEF RowOK, RowMovesOn

LEMMA RowKept ==
  ASSUME IInv, issued' \in Nat, issued <= issued', row' = row
  PROVE  RowOK' /\ RowMovesOn
<1>1. issued \in Nat
  BY BoundsAreNumbers DEF IInv, TypeOK, Grants
<1> QED
  BY <1>1 DEF IInv, TypeOK, RowOK, RowMovesOn

(* The attempt of a reconnect that ends is over.                           *)
LEMMA AttemptsEnd ==
  ASSUME IInv, NEW x,
         \/ attempt' = attempt
         \/ x \in Reconnects /\ attempt' = [attempt EXCEPT ![x] = Over]
  PROVE  /\ attempt' \in [Reconnects -> Attempts]
         /\ \A a \in Reconnects : attempt'[a].rev <= row.rev
<1>1. attempt \in [Reconnects -> Attempts] /\ row.rev \in Nat
  BY DEF IInv, TypeOK, RowOK
<1>2. Over \in Attempts /\ Over.rev = 0
  BY DEF Over, Attempts
<1>3. CASE attempt' = attempt
  BY <1>1, <1>3 DEF IInv, ReadsHold
<1>4. CASE x \in Reconnects /\ attempt' = [attempt EXCEPT ![x] = Over]
  <2>1. attempt' \in [Reconnects -> Attempts]
    BY <1>1, <1>2, <1>4
  <2>2. ASSUME NEW a \in Reconnects PROVE attempt'[a].rev <= row.rev
    BY <1>1, <1>2, <1>4 DEF IInv, ReadsHold
  <2> QED
    BY <2>1, <2>2
<1> QED
  BY <1>3, <1>4

(* The parts of a step that calls no provider and asks for nothing.        *)
LEMMA StepKeeps ==
  ASSUME IInv, RowOK', RowMovesOn, actor' \in [Actors -> Callers'],
         \A y \in Actors : CallerMovesOn(y), attempt' \in [Reconnects -> Attempts],
         \A a \in Reconnects : attempt'[a].rev <= row.rev,
         issued' \in Grants, sent' \subseteq 0 .. issued',
         count' \in [changes : 0 .. MaxChanges, faults : 0 .. MaxFaults]
  PROVE  IInv'
<1>1. TypeOK'
  BY DEF TypeOK
<1> QED
  BY <1>1, ReadsStayTrue

LEMMA Quietly ==
  ASSUME IInv, UNCHANGED <<provider, count>>
  PROVE  /\ issued' = issued /\ issued' \in Grants /\ sent' \subseteq 0 .. issued'
         /\ count' \in [changes : 0 .. MaxChanges, faults : 0 .. MaxFaults]
         /\ issued \in Nat
BY BoundsAreNumbers DEF IInv, TypeOK, provider, Grants

-----------------------------------------------------------------------------
(* Who begins                                                              *)

LEMMA ReadsWell ==
  ASSUME IInv, NEW x \in Actors, NEW at \in Points, issued' = issued,
         actor' = [actor EXCEPT ![x] = Reading(x, at)]
  PROVE  actor' \in [Actors -> Callers'] /\ \A y \in Actors : CallerMovesOn(y)
<1>0. Callers' = Callers /\ row.rev \in Nat
  BY DEF Callers, IInv, TypeOK, RowOK
<1>1. Reading(x, at) \in Callers
  BY CallersKnow DEF IInv
<1>2. /\ Reading(x, at).rev <= row.rev /\ Reading(x, at).grant = row.grant
      /\ Reading(x, at).manual = row.manual
  BY <1>0 DEF Reading
<1> QED
  BY <1>0, <1>1, <1>2, OthersMoveOn

LEMMA ResolveKeeps ==
  ASSUME IInv, NEW r \in Resolvers, Resolve(r)
  PROVE  IInv'
<1>0. r \in Actors
  BY DEF Actors
<1>1. RowOK' /\ RowMovesOn /\ issued' = issued
  BY Quietly, RowKept DEF Resolve
<1>2. actor' \in [Actors -> Callers'] /\ \A y \in Actors : CallerMovesOn(y)
  <2>1. CASE Goes(r, "await")
    <3> DEFINE c == [actor[r] EXCEPT !.at = "await"]
    <3>1. Callers' = Callers /\ actor[r] \in Callers /\ actor[r].rev <= row.rev
      BY <1>0, <1>1 DEF IInv, TypeOK, Callers, ReadsHold
    <3>2. c \in Callers /\ c.rev <= row.rev /\ c.at \notin Reads
      BY <3>1 DEF Callers, Reads, Points
    <3>3. actor' = [actor EXCEPT ![r] = c]
      BY <2>1 DEF Goes
    <3> HIDE DEF c
    <3> QED
      BY <1>0, <3>1, <3>2, <3>3, OthersMoveOn
  <2>2. CASE actor' = [actor EXCEPT ![r] = Reading(r, "claim")]
    BY <1>0, <1>1, <2>2, ReadsWell DEF Points
  <2> QED
    BY <2>1, <2>2 DEF Resolve
<1>3. /\ attempt' \in [Reconnects -> Attempts]
      /\ \A a \in Reconnects : attempt'[a].rev <= row.rev
  BY AttemptsEnd DEF Resolve
<1> QED
  BY <1>1, <1>2, <1>3, StepKeeps, Quietly DEF Resolve

LEMMA StartKeeps ==
  ASSUME IInv, NEW started \in SUBSET Reconnects, Start(started)
  PROVE  IInv'
<1>1. PICK swept \in SUBSET {b \in Reconnects : attempt[b].st \in {"pending", "processing"}} :
        /\ attempt' = [b \in Reconnects |->
             IF b \in started THEN [st |-> "pending", rev |-> row.rev]
             ELSE IF b \in swept THEN Over ELSE attempt[b]]
        /\ row' = Fenced(swept)
        /\ UNCHANGED <<actor, provider, count>>
  BY DEF Start
<1>2. issued' = issued
  BY <1>1 DEF provider
<1>3. RowOK' /\ RowMovesOn
  <2>1. CASE row' = row
    BY <1>1, <2>1, Quietly, RowKept
  <2>2. CASE row.st = "refreshing" /\ row' = Unclaimed("reauthorize")
    BY <1>2, <2>2, UnclaimedWell
  <2> QED
    BY <1>1, <2>1, <2>2 DEF Fenced
<1>4. /\ attempt' \in [Reconnects -> Attempts]
      /\ \A a \in Reconnects : attempt'[a].rev <= row.rev
  <2>1. attempt \in [Reconnects -> Attempts] /\ row.rev \in Nat
    BY DEF IInv, TypeOK, RowOK
  <2>2. Over \in Attempts /\ Over.rev = 0 /\ [st |-> "pending", rev |-> row.rev] \in Attempts
    BY <2>1 DEF Over, Attempts
  <2> QED
    BY <1>1, <2>1, <2>2 DEF IInv, ReadsHold
<1>5. actor' \in [Actors -> Callers'] /\ \A y \in Actors : CallerMovesOn(y)
  BY <1>1, <1>2 DEF IInv, TypeOK, Callers, CallerMovesOn, ReadsHold
<1> QED
  BY <1>1, <1>3, <1>4, <1>5, StepKeeps, Quietly

LEMMA CallbackKeeps ==
  ASSUME IInv, NEW a \in Reconnects, Callback(a)
  PROVE  IInv'
<1>0. a \in Actors /\ attempt \in [Reconnects -> Attempts] /\ row.rev \in Nat
  BY DEF Actors, IInv, TypeOK, RowOK
<1>1. RowOK' /\ RowMovesOn /\ issued' = issued
  BY Quietly, RowKept DEF Callback
<1>2. CASE /\ attempt' = [attempt EXCEPT ![a].st = "processing"]
           /\ actor' = [actor EXCEPT ![a] = [Reading(a, "claim") EXCEPT !.rev = attempt[a].rev]]
  <2> DEFINE c == [Reading(a, "claim") EXCEPT !.rev = attempt[a].rev]
  <2>1. /\ attempt' \in [Reconnects -> Attempts]
        /\ \A b \in Reconnects : attempt'[b].rev <= row.rev
    BY <1>0, <1>2 DEF Attempts, IInv, ReadsHold
  <2>2. Reading(a, "claim") \in Callers /\ attempt[a].rev \in Nat
    BY <1>0, CallersKnow DEF IInv, Points, Attempts
  <2>3. /\ c \in Callers /\ c.rev <= row.rev
        /\ c.grant = row.grant /\ c.manual = row.manual
    BY <1>0, <2>2 DEF Callers, Reading, IInv, ReadsHold
  <2>4. Callers' = Callers
    BY <1>1 DEF Callers
  <2> HIDE DEF c
  <2>5. actor' = [actor EXCEPT ![a] = c]
    BY <1>2 DEF c
  <2>6. actor' \in [Actors -> Callers'] /\ \A y \in Actors : CallerMovesOn(y)
    BY <1>0, <2>3, <2>4, <2>5, OthersMoveOn
  <2> QED
    BY <1>1, <2>1, <2>6, StepKeeps, Quietly DEF Callback
<1>3. CASE attempt' = [attempt EXCEPT ![a] = Over] /\ UNCHANGED actor
  <2>1. /\ attempt' \in [Reconnects -> Attempts]
        /\ \A b \in Reconnects : attempt'[b].rev <= row.rev
    BY <1>3, AttemptsEnd
  <2>2. actor' \in [Actors -> Callers'] /\ \A y \in Actors : CallerMovesOn(y)
    BY <1>1, <1>3 DEF IInv, TypeOK, Callers, CallerMovesOn, ReadsHold
  <2> QED
    BY <1>1, <2>1, <2>2, StepKeeps, Quietly DEF Callback
<1> QED
  BY <1>2, <1>3 DEF Callback

(* What an operator's request reads, and its bound.                        *)
LEMMA AskKeeps ==
  ASSUME IInv, NEW x \in Actors, NEW at \in Points, Change,
         actor' = [actor EXCEPT ![x] = Reading(x, at)],
         UNCHANGED <<row, attempt, provider>>
  PROVE  IInv'
<1>1. issued' = issued /\ issued \in Nat /\ issued' \in Grants /\ sent' \subseteq 0 .. issued'
  BY BoundsAreNumbers DEF provider, IInv, TypeOK, Grants
<1>2. RowOK' /\ RowMovesOn
  BY <1>1, RowKept
<1>3. actor' \in [Actors -> Callers'] /\ \A y \in Actors : CallerMovesOn(y)
  BY <1>1, ReadsWell
<1>4. /\ attempt' \in [Reconnects -> Attempts]
      /\ \A a \in Reconnects : attempt'[a].rev <= row.rev
  BY AttemptsEnd
<1>5. count' \in [changes : 0 .. MaxChanges, faults : 0 .. MaxFaults]
  BY BoundsAreNumbers DEF IInv, TypeOK, Change
<1> QED
  BY <1>1, <1>2, <1>3, <1>4, <1>5, StepKeeps

LEMMA WriteEditKeeps ==
  ASSUME IInv, NEW e \in Editors, WriteEdit(e)
  PROVE  IInv'
<1>0. /\ e \in Actors /\ RowOK /\ actor[e] \in Callers /\ issued' = issued
      /\ issued \in Nat
  BY Quietly DEF Actors, IInv, TypeOK, WriteEdit
<1>1. RowOK' /\ RowMovesOn
  <2>1. CASE Unchanged(e)
    <3>1. row' = [row EXCEPT !.grant = actor[e].grant, !.manual = actor[e].manual + 1,
                             !.rev = @ + 1]
      BY <2>1 DEF WriteEdit
    <3>2. /\ row'.rev = row.rev + 1 /\ row'.exists /\ row'.st = row.st
          /\ row'.claim = row.claim /\ row'.stale = row.stale
      BY <1>0, <2>1, <3>1 DEF RowOK, Unchanged
    <3>3. row' \in [exists : BOOLEAN, grant : 0 .. issued, manual : Nat, rev : Nat,
                    st : {"idle", "refreshing", "reauthorize"},
                    claim : Actors \cup {None}, stale : BOOLEAN]
      <4> DEFINE g == actor[e].grant
                 m == actor[e].manual + 1
                 v == row.rev + 1
      <4>1. g \in 0 .. issued /\ m \in Nat /\ v \in Nat
        BY <1>0 DEF RowOK, Callers
      <4> HIDE DEF g, m, v
      <4>2. row' = [row EXCEPT !.grant = g, !.manual = m, !.rev = v]
        BY <3>1 DEF g, m, v
      <4> QED
        BY <1>0, <4>1, <4>2 DEF RowOK
    <3>4. row.rev \in Nat /\ (row.st = "refreshing" <=> row.claim # None)
          /\ (row.stale => row.st = "refreshing")
      BY <1>0 DEF RowOK
    <3>5. RowOK'
      BY <1>0, <3>2, <3>3, <3>4 DEF RowOK
    <3> QED
      BY <3>2, <3>4, <3>5 DEF RowMovesOn
  <2>2. CASE ~Unchanged(e)
    BY <1>0, <2>2, RowKept DEF WriteEdit
  <2> QED
    BY <2>1, <2>2
<1>2. actor' \in [Actors -> Callers'] /\ \A y \in Actors : CallerMovesOn(y)
  BY <1>0, StopsWell DEF WriteEdit
<1>3. /\ attempt' \in [Reconnects -> Attempts]
      /\ \A a \in Reconnects : attempt'[a].rev <= row.rev
  BY AttemptsEnd DEF WriteEdit
<1> QED
  BY <1>1, <1>2, <1>3, StepKeeps, Quietly DEF WriteEdit

LEMMA DisconnectKeeps ==
  ASSUME IInv, NEW d \in Disconnects, Disconnect(d)
  PROVE  IInv'
BY AskKeeps DEF Disconnect, Actors, Points

LEMMA EditKeeps ==
  ASSUME IInv, NEW e \in Editors, Edit(e)
  PROVE  IInv'
BY AskKeeps DEF Edit, Actors, Points

-----------------------------------------------------------------------------
(* The claim and what it fences                                            *)

(* A caller that goes on keeps what it read.                               *)
LEMMA GoesWell ==
  ASSUME IInv, NEW x \in Actors, NEW at \in Points, issued' = issued, Goes(x, at),
         at \in Reads => actor[x].at \in Reads
  PROVE  actor' \in [Actors -> Callers'] /\ \A y \in Actors : CallerMovesOn(y)
<1> DEFINE c == [actor[x] EXCEPT !.at = at]
<1>1. Callers' = Callers /\ actor[x] \in Callers /\ actor[x].rev <= row.rev
  BY DEF IInv, TypeOK, Callers, ReadsHold
<1>2. /\ c \in Callers /\ c.at = at /\ c.rev = actor[x].rev
      /\ c.grant = actor[x].grant /\ c.manual = actor[x].manual
  BY <1>1 DEF Callers
<1>3. actor' = [actor EXCEPT ![x] = c]
  BY DEF Goes
<1> HIDE DEF c
<1> QED
  BY <1>1, <1>2, <1>3, OthersMoveOn

LEMMA EndsWell ==
  ASSUME IInv, NEW x \in Actors, issued' = issued, Ends(x)
  PROVE  /\ actor' \in [Actors -> Callers'] /\ \A y \in Actors : CallerMovesOn(y)
         /\ attempt' \in [Reconnects -> Attempts]
         /\ \A a \in Reconnects : attempt'[a].rev <= row.rev
<1>1. actor' \in [Actors -> Callers'] /\ \A y \in Actors : CallerMovesOn(y)
  BY StopsWell DEF Ends
<1>2. \/ attempt' = attempt
      \/ x \in Reconnects /\ attempt' = [attempt EXCEPT ![x] = Over]
  BY DEF Ends
<1> QED
  BY <1>1, <1>2, AttemptsEnd

LEMMA ClaimKeeps ==
  ASSUME IInv, NEW x \in Actors, Claim(x)
  PROVE  IInv'
<1>0. RowOK /\ issued' = issued /\ issued \in Nat /\ actor[x].at = "claim"
  BY Quietly DEF IInv, TypeOK, Claim
<1>1. CASE /\ Claimable(x)
           /\ row' = [row EXCEPT !.st = "refreshing", !.claim = x, !.stale = FALSE]
           /\ Goes(x, "call") \/ GivesUp(x, "release") \/ GivesUp(x, "mark")
           /\ UNCHANGED attempt
  <2>1. /\ row'.rev = row.rev /\ row'.exists /\ row.exists /\ row'.st = "refreshing"
        /\ row'.claim = x /\ row'.stale = FALSE /\ row'.grant = row.grant
        /\ row'.manual = row.manual /\ row.rev \in Nat
    BY <1>0, <1>1 DEF RowOK, Claimable
  <2>2. row' \in [exists : BOOLEAN, grant : 0 .. issued, manual : Nat, rev : Nat,
                  st : {"idle", "refreshing", "reauthorize"},
                  claim : Actors \cup {None}, stale : BOOLEAN]
    BY <1>0, <1>1 DEF RowOK
  <2>3. RowOK' /\ RowMovesOn
    BY <1>0, <2>1, <2>2, NoneIsNoActor DEF RowOK, RowMovesOn
  <2>4. actor' \in [Actors -> Callers'] /\ \A y \in Actors : CallerMovesOn(y)
    BY <1>0, <1>1, GoesWell, StopsWell DEF Points, Reads
  <2>5. /\ attempt' \in [Reconnects -> Attempts]
        /\ \A a \in Reconnects : attempt'[a].rev <= row.rev
    BY <1>1, AttemptsEnd
  <2> QED
    BY <2>3, <2>4, <2>5, StepKeeps, Quietly DEF Claim
<1>2. CASE UNCHANGED <<row, attempt>> /\ actor' = [actor EXCEPT ![x] = [Idle EXCEPT !.at = "await"]]
  <2>1. RowOK' /\ RowMovesOn
    BY <1>0, <1>2, RowKept
  <2>2. actor' \in [Actors -> Callers'] /\ \A y \in Actors : CallerMovesOn(y)
    BY <1>0, <1>2, StopsWell
  <2>3. /\ attempt' \in [Reconnects -> Attempts]
        /\ \A a \in Reconnects : attempt'[a].rev <= row.rev
    BY <1>2, AttemptsEnd
  <2> QED
    BY <2>1, <2>2, <2>3, StepKeeps, Quietly DEF Claim
<1>3. CASE row' = row /\ Ends(x)
  <2>1. RowOK' /\ RowMovesOn
    BY <1>0, <1>3, RowKept
  <2> QED
    BY <1>0, <1>3, <2>1, EndsWell, StepKeeps, Quietly DEF Claim
<1> QED
  BY <1>1, <1>2, <1>3 DEF Claim

LEMMA FaultsBounded ==
  ASSUME IInv, NoFault \/ Fault
  PROVE  count' \in [changes : 0 .. MaxChanges, faults : 0 .. MaxFaults]
BY BoundsAreNumbers DEF IInv, TypeOK, NoFault, Fault

(* Whichever write ends a claim, and whether or not it fails.              *)
LEMMA LetGoKeeps ==
  ASSUME IInv, NEW x \in Actors, NEW st \in {"idle", "reauthorize"}, LetGo(x, st)
  PROVE  IInv'
<1>1. /\ issued' = issued /\ issued \in Nat /\ issued' \in Grants
      /\ sent' \subseteq 0 .. issued'
  BY BoundsAreNumbers DEF LetGo, provider, IInv, TypeOK, Grants
<1>2. count' \in [changes : 0 .. MaxChanges, faults : 0 .. MaxFaults]
  BY FaultsBounded DEF LetGo
<1>3. RowOK' /\ RowMovesOn
  BY <1>1, RowKept, UnclaimedWell DEF LetGo, Owned
<1>4. /\ actor' \in [Actors -> Callers'] /\ \A y \in Actors : CallerMovesOn(y)
      /\ attempt' \in [Reconnects -> Attempts]
      /\ \A a \in Reconnects : attempt'[a].rev <= row.rev
  BY <1>1, EndsWell DEF LetGo
<1> QED
  BY <1>1, <1>2, <1>3, <1>4, StepKeeps

(* An answer of the provider may hold one grant more than there were.      *)
LEMMA CallProviderKeeps ==
  ASSUME IInv, NEW x \in Actors, CallProvider(x)
  PROVE  IInv'
<1>0. /\ issued \in Nat /\ issued \in Grants /\ actor[x] \in Callers /\ actor[x].at = "call"
      /\ row' = row /\ attempt' = attempt /\ count' = count /\ sent \subseteq 0 .. issued
  BY BoundsAreNumbers DEF IInv, TypeOK, Grants, CallProvider
<1>1. /\ issued' \in Nat /\ issued <= issued' /\ issued' \in Grants
      /\ actor' \in [Actors -> Callers'] /\ \A y \in Actors : CallerMovesOn(y)
  <2>1. CASE Issues(x)
    <3> DEFINE c == [actor[x] EXCEPT !.at = "complete", !.got = issued + 1]
    <3>1. issued' \in Nat /\ issued <= issued' /\ issued' \in Grants /\ issued' = issued + 1
      BY <1>0, <2>1, BoundsAreNumbers DEF Issues, Grants
    <3>2. 0 .. issued \subseteq 0 .. issued' /\ issued + 1 \in 0 .. issued'
      BY <1>0, <3>1
    <3>3. Callers \subseteq Callers'
      BY <3>2 DEF Callers
    <3>4. /\ c \in Callers' /\ c.at = "complete" /\ c.rev = actor[x].rev
          /\ c.grant = actor[x].grant /\ c.manual = actor[x].manual
      BY <1>0, <3>2, <3>3 DEF Callers, Points
    <3>5. actor' = [actor EXCEPT ![x] = c]
      BY <2>1 DEF Issues
    <3>6. actor[x].at \in Reads /\ c.rev <= row.rev
      BY <1>0, <3>4 DEF Reads, IInv, ReadsHold
    <3> HIDE DEF c
    <3>7. actor' \in [Actors -> Callers'] /\ \A y \in Actors : CallerMovesOn(y)
      BY <3>3, <3>4, <3>5, <3>6, OthersMoveOn
    <3> QED
      BY <3>1, <3>7
  <2>2. CASE Goes(x, "complete") /\ UNCHANGED issued
    <3>1. issued' = issued /\ issued <= issued' /\ "complete" \in Points /\ actor[x].at \in Reads
      BY <1>0, <2>2 DEF Points, Reads
    <3>2. actor' \in [Actors -> Callers'] /\ \A y \in Actors : CallerMovesOn(y)
      BY <2>2, <3>1, GoesWell
    <3> QED
      BY <1>0, <3>1, <3>2
  <2>3. CASE GivesUp(x, IF x \in Disconnects THEN "release" ELSE "mark") /\ UNCHANGED issued
    BY <1>0, <2>3, StopsWell
  <2> QED
    BY <2>1, <2>2, <2>3 DEF CallProvider
<1>2. sent' \subseteq 0 .. issued'
  <2>1. 0 .. issued \subseteq 0 .. issued' /\ actor[x].grant \in 0 .. issued
    BY <1>0, <1>1 DEF Callers
  <2> QED
    BY <1>0, <2>1 DEF CallProvider
<1>3. RowOK' /\ RowMovesOn
  BY <1>0, <1>1, RowKept
<1>4. /\ attempt' \in [Reconnects -> Attempts]
      /\ \A a \in Reconnects : attempt'[a].rev <= row.rev
  BY <1>0, AttemptsEnd
<1> QED
  BY <1>0, <1>1, <1>2, <1>3, <1>4, StepKeeps DEF IInv, TypeOK

(* The row a fenced write leaves is whole, and newer than the one it read. *)
LEMMA StoresWell ==
  ASSUME IInv, NEW x \in Actors, issued' = issued, Stores(x)
  PROVE  /\ RowOK' /\ RowMovesOn
         /\ attempt' \in [Reconnects -> Attempts]
         /\ \A a \in Reconnects : attempt'[a].rev <= row.rev
<1>0. RowOK /\ actor[x] \in Callers /\ issued \in Nat /\ row.st = "refreshing"
  BY BoundsAreNumbers DEF IInv, TypeOK, Grants, Stores, MayStore, Owned
<1>1. row.exists /\ row.rev \in Nat /\ actor[x].got \in 0 .. issued /\ actor[x].manual \in Nat
  BY <1>0 DEF RowOK, Callers
<1>2. RowOK' /\ RowMovesOn
  <2>1. CASE row' = [Unclaimed("idle") EXCEPT !.exists = FALSE, !.grant = NoGrant]
    <3>1. /\ row'.exists = FALSE /\ row'.grant = NoGrant /\ row'.st = "idle"
          /\ row'.claim = None /\ row'.stale = FALSE /\ row'.rev = row.rev
      BY <1>0, <2>1 DEF Unclaimed, RowOK
    <3>2. row' \in [exists : BOOLEAN, grant : 0 .. issued, manual : Nat, rev : Nat,
                    st : {"idle", "refreshing", "reauthorize"},
                    claim : Actors \cup {None}, stale : BOOLEAN]
      <4>1. NoGrant \in 0 .. issued
        BY <1>0 DEF NoGrant
      <4> QED
        BY <1>0, <2>1, <4>1 DEF Unclaimed, RowOK
    <3>3. RowOK'
      BY <3>1, <3>2 DEF RowOK
    <3> QED
      BY <1>1, <3>1, <3>3 DEF RowMovesOn
  <2>2. CASE row' = [Unclaimed("idle") EXCEPT !.grant = actor[x].got,
                                              !.manual = actor[x].manual, !.rev = @ + 1]
    <3> DEFINE g == actor[x].got
               m == actor[x].manual
               v == row.rev + 1
    <3>1. g \in 0 .. issued /\ m \in Nat /\ v \in Nat
      BY <1>1
    <3>2. row' = [row EXCEPT !.st = "idle", !.claim = None, !.stale = FALSE, !.grant = g,
                             !.manual = m, !.rev = v]
      BY <1>0, <2>2 DEF Unclaimed, RowOK
    <3> HIDE DEF g, m
    <3>3. /\ row'.exists = row.exists /\ row'.st = "idle" /\ row'.claim = None
          /\ row'.stale = FALSE /\ row'.rev = row.rev + 1
      BY <1>0, <3>2 DEF RowOK
    <3> HIDE DEF v
    <3>4. row' \in [exists : BOOLEAN, grant : 0 .. issued, manual : Nat, rev : Nat,
                    st : {"idle", "refreshing", "reauthorize"},
                    claim : Actors \cup {None}, stale : BOOLEAN]
      BY <1>0, <3>1, <3>2 DEF RowOK
    <3>5. RowOK'
      BY <1>0, <1>1, <3>3, <3>4 DEF RowOK
    <3> QED
      BY <1>1, <3>3, <3>5 DEF RowMovesOn
  <2> QED
    BY <2>1, <2>2 DEF Stores
<1>3. \/ attempt' = attempt
      \/ x \in Reconnects /\ attempt' = [attempt EXCEPT ![x] = Over]
  BY DEF Stores
<1> QED
  BY <1>2, <1>3, AttemptsEnd

LEMMA CompleteKeeps ==
  ASSUME IInv, NEW x \in Actors, Complete(x)
  PROVE  IInv'
<1>1. /\ issued' = issued /\ issued \in Nat /\ issued' \in Grants
      /\ sent' \subseteq 0 .. issued'
  BY BoundsAreNumbers DEF Complete, provider, IInv, TypeOK, Grants
<1>2. count' \in [changes : 0 .. MaxChanges, faults : 0 .. MaxFaults]
  BY FaultsBounded DEF Complete
<1>3. actor' \in [Actors -> Callers'] /\ \A y \in Actors : CallerMovesOn(y)
  BY <1>1, StopsWell DEF Complete
<1>4. /\ RowOK' /\ RowMovesOn
      /\ attempt' \in [Reconnects -> Attempts]
      /\ \A a \in Reconnects : attempt'[a].rev <= row.rev
  <2>1. CASE Stores(x)
    BY <1>1, <2>1, StoresWell
  <2>2. CASE UNCHANGED <<row, attempt>>
    BY <1>1, <2>2, RowKept, AttemptsEnd
  <2> QED
    BY <2>1, <2>2 DEF Complete
<1> QED
  BY <1>1, <1>2, <1>3, <1>4, StepKeeps

-----------------------------------------------------------------------------
(* Waiting, time and faults                                                *)

(* Who waits polls on, is answered, or fences the claim it read.           *)
LEMMA AwaitKeeps ==
  ASSUME IInv, NEW r \in Resolvers, Await(r)
  PROVE  IInv'
<1>0. /\ r \in Actors /\ issued' = issued /\ issued \in Nat /\ RowOK
      /\ Callers' = Callers
  BY Quietly DEF Actors, Await, IInv, TypeOK, Callers
<1>1. RowOK' /\ RowMovesOn
  BY <1>0, RowKept DEF Await
<1>2. actor' \in [Actors -> Callers'] /\ \A y \in Actors : CallerMovesOn(y)
  <2>1. CASE actor' = [actor EXCEPT ![r] = Idle]
    BY <1>0, <2>1, StopsWell
  <2>2. CASE actor' = [actor EXCEPT ![r] =
               [Idle EXCEPT !.at = "fence", !.rev = row.rev, !.claim = row.claim]]
    <3> DEFINE v == row.rev
               k == row.claim
               c == [Idle EXCEPT !.at = "fence", !.rev = v, !.claim = k]
    <3>0. "idle" \in Points /\ TypeOK
      BY DEF IInv, Points
    <3>1. Idle \in Callers /\ v \in Nat /\ v <= row.rev /\ k \in Actors \cup {None}
      <4>1. v \in Nat /\ k \in Actors \cup {None}
        BY <1>0 DEF RowOK
      <4> QED
        BY <1>0, <3>0, <4>1, CallersKnow, AtLeastItself
    <3> HIDE DEF v, k
    <3>2. c \in Callers /\ c.rev <= row.rev /\ c.at \notin Reads
      BY <3>1 DEF Callers, Points, Reads
    <3> HIDE DEF c
    <3>3. actor' = [actor EXCEPT ![r] = c]
      BY <2>2 DEF c, v, k
    <3> QED
      BY <1>0, <3>2, <3>3, OthersMoveOn
  <2> QED
    BY <2>1, <2>2 DEF Await
<1>3. /\ attempt' \in [Reconnects -> Attempts]
      /\ \A a \in Reconnects : attempt'[a].rev <= row.rev
  BY AttemptsEnd DEF Await
<1> QED
  BY <1>1, <1>2, <1>3, StepKeeps, Quietly DEF Await

LEMMA FenceStaleKeeps ==
  ASSUME IInv, NEW r \in Resolvers, FenceStale(r)
  PROVE  IInv'
<1>0. r \in Actors /\ issued' = issued /\ issued \in Nat
  BY Quietly DEF Actors, FenceStale
<1>1. RowOK' /\ RowMovesOn
  BY <1>0, RowKept, UnclaimedWell DEF FenceStale, Owned
<1>2. actor' \in [Actors -> Callers'] /\ \A y \in Actors : CallerMovesOn(y)
  BY <1>0, StopsWell DEF FenceStale
<1>3. /\ attempt' \in [Reconnects -> Attempts]
      /\ \A a \in Reconnects : attempt'[a].rev <= row.rev
  BY AttemptsEnd DEF FenceStale
<1> QED
  BY <1>1, <1>2, <1>3, StepKeeps, Quietly DEF FenceStale

LEMMA ClaimAgesKeeps ==
  ASSUME IInv, ClaimAges
  PROVE  IInv'
<1>0. RowOK /\ issued' = issued /\ issued \in Nat /\ row.rev \in Nat
  BY Quietly DEF IInv, TypeOK, RowOK, ClaimAges
<1>1. /\ row'.exists = row.exists /\ row'.st = row.st /\ row'.claim = row.claim
      /\ row'.rev = row.rev /\ row'.grant = row.grant /\ row'.manual = row.manual
      /\ row.st = "refreshing"
  BY <1>0 DEF ClaimAges, RowOK
<1>2. row' \in [exists : BOOLEAN, grant : 0 .. issued, manual : Nat, rev : Nat,
                st : {"idle", "refreshing", "reauthorize"},
                claim : Actors \cup {None}, stale : BOOLEAN]
  BY <1>0 DEF ClaimAges, RowOK
<1>3. RowOK' /\ RowMovesOn
  BY <1>0, <1>1, <1>2 DEF RowOK, RowMovesOn
<1>4. actor' \in [Actors -> Callers'] /\ \A y \in Actors : CallerMovesOn(y)
  BY <1>0 DEF ClaimAges, IInv, TypeOK, Callers, CallerMovesOn, ReadsHold
<1>5. /\ attempt' \in [Reconnects -> Attempts]
      /\ \A a \in Reconnects : attempt'[a].rev <= row.rev
  BY AttemptsEnd DEF ClaimAges
<1> QED
  BY <1>3, <1>4, <1>5, StepKeeps, Quietly DEF ClaimAges

LEMMA CrashKeeps ==
  ASSUME IInv, NEW x \in Actors, Crash(x)
  PROVE  IInv'
<1>1. /\ issued' = issued /\ issued \in Nat /\ issued' \in Grants
      /\ sent' \subseteq 0 .. issued'
  BY BoundsAreNumbers DEF Crash, provider, IInv, TypeOK, Grants
<1>2. RowOK' /\ RowMovesOn
  BY <1>1, RowKept DEF Crash
<1>3. actor' \in [Actors -> Callers'] /\ \A y \in Actors : CallerMovesOn(y)
  BY <1>1, StopsWell DEF Crash
<1>4. /\ attempt' \in [Reconnects -> Attempts]
      /\ \A a \in Reconnects : attempt'[a].rev <= row.rev
  BY AttemptsEnd DEF Crash
<1>5. count' \in [changes : 0 .. MaxChanges, faults : 0 .. MaxFaults]
  BY FaultsBounded DEF Crash
<1> QED
  BY <1>1, <1>2, <1>3, <1>4, <1>5, StepKeeps

-----------------------------------------------------------------------------
(* The theorems                                                            *)

LEMMA StepOfOneKeeps ==
  ASSUME IInv, NEW x \in Actors, Step(x)
  PROVE  IInv'
<1>1. CASE Claim(x)
  BY <1>1, ClaimKeeps
<1>2. CASE Release(x)
  BY <1>2, LetGoKeeps DEF Release
<1>3. CASE CallProvider(x)
  BY <1>3, CallProviderKeeps
<1>4. CASE Complete(x)
  BY <1>4, CompleteKeeps
<1>5. CASE Mark(x)
  BY <1>5, LetGoKeeps DEF Mark
<1>6. CASE x \in Resolvers /\ (Resolve(x) \/ Await(x) \/ FenceStale(x))
  BY <1>6, ResolveKeeps, AwaitKeeps, FenceStaleKeeps
<1>7. CASE x \in Editors /\ WriteEdit(x)
  BY <1>7, WriteEditKeeps
<1> QED
  BY <1>1, <1>2, <1>3, <1>4, <1>5, <1>6, <1>7 DEF Step

LEMMA NextKeeps == IInv /\ [Next]_vars => IInv'
<1> SUFFICES ASSUME IInv, [Next]_vars PROVE IInv'
  OBVIOUS
<1>1. ASSUME NEW x \in Actors, Step(x) PROVE IInv'
  BY <1>1, StepOfOneKeeps
<1>2. ASSUME NEW x \in Actors, Crash(x) PROVE IInv'
  BY <1>2, CrashKeeps
<1>3. ASSUME NEW a \in Reconnects, StartReconnect(a) PROVE IInv'
  BY <1>3, StartKeeps DEF StartReconnect
<1>4. ASSUME NEW a \in Reconnects, Callback(a) PROVE IInv'
  BY <1>4, CallbackKeeps
<1>5. ASSUME NEW d \in Disconnects, Disconnect(d) PROVE IInv'
  BY <1>5, DisconnectKeeps
<1>6. ASSUME NEW e \in Editors, Edit(e) PROVE IInv'
  BY <1>6, EditKeeps
<1>7. CASE StartElsewhere
  BY <1>7, StartKeeps DEF StartElsewhere
<1>8. CASE ClaimAges
  BY <1>8, ClaimAgesKeeps
<1>9. CASE UNCHANGED vars
  BY <1>9 DEF vars, provider, IInv, TypeOK, RowOK, Callers, ReadsHold
<1> QED
  BY <1>1, <1>2, <1>3, <1>4, <1>5, <1>6, <1>7, <1>8, <1>9 DEF Next

LEMMA Always == Spec => []IInv
<1>1. Init => IInv
  BY InitHolds
<1>2. IInv /\ [Next]_vars => IInv'
  BY NextKeeps
<1> QED
  BY <1>1, <1>2, PTL DEF Spec

(* Every field has its range, and a row is claimed when, and only when, it *)
(* is being refreshed.                                                     *)
THEOREM TypeCorrect == Spec => []TypeOK
<1>1. IInv => TypeOK
  BY DEF IInv
<1> QED
  BY <1>1, Always, PTL

(* What one step may do to the configuration.                              *)
BuildsOnIt ==
  row'.exists =>
    /\ row'.manual >= row.manual
    /\ row'.grant # row.grant =>
         \E x \in Actors :
           /\ actor[x].at = "complete" /\ row'.grant = actor[x].got
           /\ x \notin Reconnects => actor[x].grant = row.grant

(* The steps that do not replace the configuration leave it alone.         *)
LEMMA KeepsConfiguration ==
  ASSUME IInv, \/ row' = row
               \/ row' = [row EXCEPT !.stale = TRUE]
               \/ \E st \in {"idle", "reauthorize"} : row' = Unclaimed(st)
               \/ \E x \in Actors :
                    row' = [row EXCEPT !.st = "refreshing", !.claim = x, !.stale = FALSE]
  PROVE  BuildsOnIt
<1>1. RowOK
  BY DEF IInv, TypeOK
<1>2. row.manual \in Nat /\ row'.grant = row.grant /\ row'.manual = row.manual
  BY <1>1 DEF RowOK, Unclaimed
<1>3. row'.manual >= row.manual
  BY <1>2, AtLeastItself
<1> QED
  BY <1>2, <1>3 DEF BuildsOnIt

(* An owner whose claim and revision still stand read what it replaces.    *)
LEMMA StoresBuildsOnIt ==
  ASSUME IInv, NEW x \in Actors, actor[x].at = "complete", Stores(x)
  PROVE  BuildsOnIt
<1>0. RowOK /\ row.st = "refreshing" /\ actor[x].rev = row.rev
  BY DEF IInv, TypeOK, Stores, MayStore, Owned
<1>1. row.exists /\ row.manual \in Nat
  BY <1>0 DEF RowOK
<1>2. actor[x].grant = row.grant /\ actor[x].manual = row.manual
  BY <1>0, <1>1 DEF IInv, ReadsHold, Reads
<1>3. CASE row' = [Unclaimed("idle") EXCEPT !.exists = FALSE, !.grant = NoGrant]
  <2>1. row'.exists = FALSE
    BY <1>0, <1>3 DEF Unclaimed, RowOK
  <2> QED
    BY <2>1 DEF BuildsOnIt
<1>4. CASE row' = [Unclaimed("idle") EXCEPT !.grant = actor[x].got,
                                            !.manual = actor[x].manual, !.rev = @ + 1]
  <2>1. row'.grant = actor[x].got /\ row'.manual = actor[x].manual
    BY <1>0, <1>4 DEF Unclaimed, RowOK
  <2> QED
    BY <1>1, <1>2, <2>1 DEF BuildsOnIt
<1> QED
  BY <1>3, <1>4 DEF Stores

(* So did an edit whose revision still stands: it keeps the grant.         *)
LEMMA EditBuildsOnIt ==
  ASSUME IInv, NEW e \in Editors, WriteEdit(e)
  PROVE  BuildsOnIt
<1>0. RowOK /\ e \in Actors /\ actor[e].at = "write" /\ row.manual \in Nat
  BY DEF IInv, TypeOK, RowOK, WriteEdit, Actors
<1>1. CASE Unchanged(e)
  <2>1. actor[e].grant = row.grant /\ actor[e].manual = row.manual
    BY <1>0, <1>1 DEF IInv, ReadsHold, Reads, Unchanged
  <2>2. row'.grant = actor[e].grant /\ row'.manual = actor[e].manual + 1
    BY <1>0, <1>1 DEF WriteEdit, RowOK
  <2> QED
    BY <1>0, <2>1, <2>2 DEF BuildsOnIt
<1>2. CASE ~Unchanged(e)
  BY <1>2, KeepsConfiguration DEF WriteEdit
<1> QED
  BY <1>1, <1>2

LEMMA NextBuildsOnIt == IInv /\ [Next]_vars => BuildsOnIt
<1> SUFFICES ASSUME IInv, [Next]_vars PROVE BuildsOnIt
  OBVIOUS
<1>1. ASSUME NEW x \in Actors, Step(x) PROVE BuildsOnIt
  <2>1. CASE Complete(x)
    BY <2>1, StoresBuildsOnIt, KeepsConfiguration DEF Complete
  <2>2. CASE x \in Editors /\ WriteEdit(x)
    BY <2>2, EditBuildsOnIt
  <2>3. CASE Claim(x)
    BY <2>3, KeepsConfiguration DEF Claim
  <2>4. CASE Release(x) \/ Mark(x) \/ FenceStale(x)
    BY <2>4, KeepsConfiguration DEF Release, Mark, LetGo, FenceStale
  <2>5. CASE CallProvider(x) \/ Resolve(x) \/ Await(x)
    BY <2>5, KeepsConfiguration DEF CallProvider, Resolve, Await
  <2> QED
    BY <1>1, <2>1, <2>2, <2>3, <2>4, <2>5 DEF Step
<1>2. ASSUME NEW x \in Actors, Crash(x) PROVE BuildsOnIt
  BY <1>2, KeepsConfiguration DEF Crash
<1>3. ASSUME NEW s, Start(s) PROVE BuildsOnIt
  BY <1>3, KeepsConfiguration DEF Start, Fenced
<1>4. ASSUME NEW a \in Reconnects, Callback(a) PROVE BuildsOnIt
  BY <1>4, KeepsConfiguration DEF Callback
<1>5. ASSUME NEW d, Disconnect(d) PROVE BuildsOnIt
  BY <1>5, KeepsConfiguration DEF Disconnect
<1>6. ASSUME NEW e, Edit(e) PROVE BuildsOnIt
  BY <1>6, KeepsConfiguration DEF Edit
<1>7. CASE ClaimAges
  BY <1>7, KeepsConfiguration DEF ClaimAges
<1>8. CASE UNCHANGED vars
  BY <1>8, KeepsConfiguration DEF vars
<1> QED
  BY <1>1, <1>2, <1>3, <1>4, <1>5, <1>6, <1>7, <1>8
     DEF Next, StartReconnect, StartElsewhere

(* A configuration is replaced only by one built on it, whoever races to   *)
(* replace it and whatever lost claims its writers still hold.             *)
THEOREM BuildsOnWhatItReplaces == Spec => ConfigurationMovesOn
<1>1. IInv /\ [Next]_vars => [BuildsOnIt]_vars
  BY NextBuildsOnIt
<1>2. [][BuildsOnIt]_vars <=> ConfigurationMovesOn
  BY DEF BuildsOnIt, ConfigurationMovesOn
<1> QED
  BY <1>1, <1>2, Always, PTL DEF Spec
=============================================================================
