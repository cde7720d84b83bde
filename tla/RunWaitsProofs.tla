---------------------------- MODULE RunWaitsProofs ----------------------------
(***************************************************************************)
(* Proofs about RunWaits, for any graph, versions, modes and bounds.       *)
(*                                                                         *)
(* What carries them is what a pass may count on between two durable steps *)
(* of a Wait (StageOf): the attempt its replay stopped at, the row a park  *)
(* wrote, the wake it goes on with.  The row of a Wait is written by the   *)
(* pass and by every producer, so the invariant says of each Wait apart    *)
(* what its row, its attempts and its stage owe each other (Local), and    *)
(* the steps are of two kinds: those of one Wait, and those that touch all *)
(* rows of the run at once.                                                *)
(*                                                                         *)
(* Two facts tie the Waits of a run together.  The Waits driven at once    *)
(* are on one side of the graph and nothing above them is open             *)
(* (RoundSound).  And no Wait behind the Canceled outlet is ever moved:    *)
(* it parks under a Cancel claim, which refuses Migrations, so its only    *)
(* attempt is of the pinned version (OutletOf).                            *)
(***************************************************************************)
EXTENDS RunWaits, TLAPS, FiniteSetTheorems, WellFoundedInduction

(* What a pass holds.                                                      *)
RowsHeld ==
  /\ body.at # "off" => row.state = "leased"
  /\ row.state = "gone" <=> exec.status \in Verdicts
  /\ body.at \in {"off", "opening"} =>
       /\ ~body.entered /\ body.released = {}
       /\ \A w \in Waits : body.stage[w] = "out"

(* What a wait row says of its own wake.                                   *)
ParkSound(p) ==
  /\ p.status \in {"absent", "waiting"} => p.wake = "none"
  /\ p.status = "resuming" => p.wake # "none"
  /\ p.status = "timed_out" => p.wake # "resume"

(* What a memoized attempt says of itself.                                 *)
AttemptSound(a) ==
  /\ a.prep # "parked" => a.woke = "none"
  /\ a.resume # "none" => a.woke # "none"

(* All attempts of w are left for the next one.                            *)
AllLeft(w) == \A j \in DOMAIN att[w] : Superseded(att[w][j])

(* k is the attempt of w the replay stops at.                              *)
StopsAt(w, k) ==
  /\ k \in DOMAIN att[w]
  /\ ~Superseded(att[w][k])
  /\ \A j \in 1 .. (k - 1) : Superseded(att[w][j])

(* The wait row of an attempt that parked is there, and closed once one    *)
(* resumed.                                                                *)
ParkOf(w) ==
  /\ ParkSound(park[w])
  /\ \A k \in DOMAIN att[w] :
       /\ AttemptSound(att[w][k])
       /\ att[w][k].prep = "parked" => park[w].status # "absent"
       /\ att[w][k].resume # "none" => ~OpenPark(park[w])

(* What a pass between two durable steps of w may count on.                *)
StageOf(w) ==
  /\ body.stage[w] \in {"wrote", "refused"} =>
       AllLeft(w) /\ Len(att[w]) < WAIT_ATTEMPT_LIMIT
  /\ body.stage[w] = "wrote" => park[w].status # "absent"
  /\ body.stage[w] \in {"unfenced", "fenced", "settled"} =>
       \E k \in DOMAIN att[w] :
         /\ StopsAt(w, k)
         /\ att[w][k].woke # "none" /\ att[w][k].resume = "none"
  /\ body.stage[w] \in {"fenced", "settled"} => body.wake[w] # "none"
  /\ body.wake[w] # "migrate"
  /\ body.stage[w] = "settled" =>
       /\ ~OpenPark(park[w])
       /\ body.wake[w] = "timeout" /\ Mode[w][body.version] = "event" =>
            park[w].wake # "resume" \/ park[w].status = "cancelled"

(* A claim's wake comes from the run's claim.                              *)
ClaimedBy(w) ==
  /\ \/ IsClaimWake(park[w].wake)
     \/ IsClaimWake(body.wake[w])
     \/ \E k \in DOMAIN att[w] : IsClaimWake(att[w][k].woke)
     => exec.claim # "none"
  /\ park[w].status = "cancelled" =>
       \/ exec.claim # "none"
       \/ exec.status \in Verdicts
       \/ Len(att[w]) >= WAIT_ATTEMPT_LIMIT

(* What the pass and its memoized reads know of a Cancel claim.            *)
CancelRead ==
  \/ body.entered
  \/ answer.final = "cancel"
  \/ \E w \in Waits : answer.check[w] = "cancel"
  => exec.claim = "cancel"

(* A Wait behind the Canceled outlet is prepared once, after the claim.    *)
OutletOf(w) ==
  /\ body.stage[w] # "out" => body.entered
  /\ park[w].wake # "migrate"
  /\ body.stage[w] = "wrote" => body.version = exec.version
  /\ body.stage[w] \in {"admit", "wrote", "refused"} => att[w] = <<>>
  /\ body.stage[w] # "admit"
  /\ Len(att[w]) <= 1
  /\ att[w] # <<>> /\ att[w][1].prep = "parked" =>
       /\ att[w][1].woke # "migrate"
       /\ att[w][1].ver = exec.version
       /\ body.at \in {"running", "parking"} => body.version = exec.version
  /\ \/ body.stage[w] \in {"check", "done"}
     \/ exec.status = "canceled" /\ Above[w] = {}
     => /\ att[w] # <<>>
        /\ att[w][1].prep = "parked" => att[w][1].resume # "none"
  /\ att[w] # <<>> => exec.claim = "cancel"

(* The Waits in the round the pass drives.                                 *)
Active(w) == body.stage[w] \notin {"out", "parked", "done"}

RoundSound ==
  /\ \A w \in body.released : body.stage[w] = "done"
  /\ \A w \in Waits : Active(w) => Above[w] \subseteq body.released
  /\ \A w, x \in Waits : Active(w) /\ Active(x) => Side(w) = Side(x)

Pinned(w) ==
  /\ body.stage[w] \in {"fenced", "settled"}
  /\ ~IsClaimWake(body.wake[w])
  /\ \A x \in Beside(w) : body.stage[x] = "out"
  => /\ exec.version = body.version
     /\ exec.status = "running" \/ exec.claim # "none"

(* What holds of each Wait.                                                *)
Local(w) ==
  /\ ParkOf(w) /\ StageOf(w) /\ ClaimedBy(w) /\ Pinned(w)
  /\ w \in Canceled => OutletOf(w)
  /\ park[w].status = "waiting" => ClaimAdmits(exec.claim, Side(w))
  /\ \A k \in DOMAIN att[w] :
       /\ att[w][k].resume = "timeout"
       /\ Mode[w][att[w][k].ver] = "event"
       => park[w].wake # "resume" \/ park[w].status = "cancelled"

(* The inductive invariant.                                                *)
IInv ==
  /\ TypeOK /\ RowsHeld /\ NoWakeSleptThrough /\ CancelRead /\ RoundSound
  /\ \A w \in Waits : Local(w)

-----------------------------------------------------------------------------
(* The attempt a replay stops at                                           *)

(* A nonempty bounded set of numbers has a least element: the elements     *)
(* below each make a family of finite sets, which has a minimal one.       *)
LEMMA LeastOne ==
  ASSUME NEW T \in SUBSET Nat, NEW n \in Nat, \A t \in T : t <= n, T # {}
  PROVE  \E x \in T : \A y \in T : x <= y
<1> DEFINE Below(x) == {y \in T : y <= x}
           Family == {Below(x) : x \in T}
<1>1. IsFiniteSet(T)
  BY FS_BoundedSetOfNaturals
<1>2. Family \subseteq FiniteSubsetsOf(T) /\ Family # {}
  <2>1. FiniteSubsetsOf(T) = SUBSET T
    BY <1>1, FS_FiniteSubsetsOfFinite, Zenon
  <2>2. Family \in SUBSET (SUBSET T)
    OBVIOUS
  <2>3. PICK t \in T : TRUE
    OBVIOUS
  <2>4. Below(t) \in Family
    BY <2>3
  <2> QED
    BY <2>1, <2>2, <2>4, Zenon
<1>3. PICK U \in Family : \A V \in Family : <<V, U>> \notin StrictSubsetOrdering(T)
  BY <1>2, FS_StrictSubsetOrderingWellFounded, WFMin, Zenon
<1>4. PICK x \in T : U = Below(x)
  BY Zenon
<1>5. ASSUME NEW y \in T, y < x PROVE FALSE
  <2>0. x \in Nat /\ y \in Nat /\ x <= x /\ ~(x <= y)
    BY <1>5
  <2>a. \A z \in T : z <= y => z <= x
    BY <1>5
  <2>1. Below(y) \subseteq Below(x) /\ x \in Below(x) /\ x \notin Below(y)
    BY <2>0, <2>a, Zenon
  <2>2. <<Below(y), U>> \in StrictSubsetOrdering(T)
    BY <1>4, <2>1, Zenon DEF StrictSubsetOrdering
  <2> QED
    BY <1>3, <2>2, Zenon
<1>6. \A y \in T : x <= y
  BY <1>4, <1>5
<1> QED
  BY <1>4, <1>6


(* A replay stops: at its first attempt not left, or at a new one.         *)
LEMMA AttemptIs ==
  ASSUME TypeOK, NEW w \in Waits
  PROVE  /\ Attempt(w) \in 1 .. (Len(att[w]) + 1)
         /\ \A j \in 1 .. (Attempt(w) - 1) : Superseded(att[w][j])
         /\ Attempt(w) <= Len(att[w]) => ~Superseded(att[w][Attempt(w)])
         /\ Len(att[w]) \in Nat /\ DOMAIN att[w] = 1 .. Len(att[w])
<1> DEFINE n == Len(att[w])
           T == {k \in 1 .. (n + 1) : k <= n => ~Superseded(att[w][k])}
           P(k) == /\ \A j \in 1 .. (k - 1) : Superseded(att[w][j])
                   /\ k <= n => ~Superseded(att[w][k])
<1>0. att[w] \in Seq(Attempts) /\ n \in Nat /\ DOMAIN att[w] = 1 .. n
  BY DEF TypeOK
<1>1. T \in SUBSET Nat /\ (\A t \in T : t <= n + 1) /\ n + 1 \in T
  BY <1>0
<1> HIDE DEF T
<1>2. PICK k \in T : \A t \in T : k <= t
  BY <1>0, <1>1, LeastOne
<1>3. k \in 1 .. (n + 1) /\ P(k)
  BY <1>0, <1>2 DEF T
<1>4. Attempt(w) = CHOOSE k_1 \in 1 .. (n + 1) : P(k_1)
  BY DEF Attempt
<1> HIDE DEF P
<1>5. Attempt(w) \in 1 .. (n + 1) /\ P(Attempt(w))
  BY <1>3, <1>4
<1> QED
  BY <1>0, <1>5 DEF P

LEMMA AttemptFound ==
  ASSUME TypeOK, NEW w \in Waits
  PROVE  /\ IsNew(w) <=> AllLeft(w)
         /\ \A k : StopsAt(w, k) => Attempt(w) = k /\ ~IsNew(w)
         /\ ~IsNew(w) => StopsAt(w, Attempt(w))
         /\ Attempt(w) = 1 /\ IsNew(w) <=> att[w] = <<>>
         /\ Attempt(w) # 1 => att[w] # <<>> /\ Superseded(att[w][1])
<1>0. /\ Attempt(w) \in 1 .. (Len(att[w]) + 1)
      /\ \A j \in 1 .. (Attempt(w) - 1) : Superseded(att[w][j])
      /\ Attempt(w) <= Len(att[w]) => ~Superseded(att[w][Attempt(w)])
      /\ Len(att[w]) \in Nat /\ DOMAIN att[w] = 1 .. Len(att[w])
      /\ att[w] \in Seq(Attempts)
  BY AttemptIs DEF TypeOK
<1>1. IsNew(w) <=> AllLeft(w)
  BY <1>0 DEF IsNew, AllLeft
<1>2. ASSUME NEW k, StopsAt(w, k) PROVE Attempt(w) = k /\ ~IsNew(w)
  <2>1. k \in 1 .. Len(att[w]) /\ ~Superseded(att[w][k])
        /\ \A j \in 1 .. (k - 1) : Superseded(att[w][j])
    BY <1>0, <1>2 DEF StopsAt
  <2>2. ~(Attempt(w) < k)
    BY <1>0, <2>1
  <2>3. ~(k < Attempt(w))
    BY <1>0, <2>1
  <2> QED
    BY <1>0, <2>1, <2>2, <2>3 DEF IsNew
<1>3. ~IsNew(w) => StopsAt(w, Attempt(w))
  BY <1>0 DEF IsNew, StopsAt
<1>4. Attempt(w) = 1 /\ IsNew(w) <=> att[w] = <<>>
  BY <1>0 DEF IsNew
<1>5. Attempt(w) # 1 => att[w] # <<>> /\ Superseded(att[w][1])
  BY <1>0
<1> QED
  BY <1>1, <1>2, <1>3, <1>4, <1>5

-----------------------------------------------------------------------------
(* Types                                                                   *)

(* What the types need of a pass inside the resume step.                   *)
WakesRead ==
  \A w \in Waits :
    /\ body.wake[w] # "migrate"
    /\ \A k \in DOMAIN att[w] : AttemptSound(att[w][k])

(* The records the types name.                                             *)
Execs ==
  [workflow : DOMAIN Workflows, status : InFlight \cup Verdicts,
   version : Versions, claim : {"none"} \cup ClaimKinds]

Rows == [state : {"queued", "leased", "waiting", "gone"}, wake : {"due", "later"}]

Parks ==
  [status : {"absent", "waiting", "resuming", "resumed", "timed_out", "cancelled"},
   wake : Wakes, type : {"event", "delay"}, deadline : {"ahead", "passed"}]

Answers ==
  [admit : [Waits -> {"unread", "eligible", "exiting", "admitted", "refused"}],
   check : [Waits -> {"unread", "none", "cancel"}],
   plan : [Waits -> [Versions -> {"unread", "error", "skipped", "ahead", "passed"}]],
   final : {"unread", "none"} \cup ClaimKinds, refused : BOOLEAN]

Bodies ==
  [at : {"off", "opening", "running", "parking"},
   version : Versions, stage : [Waits -> Stages],
   wake : [Waits -> Wakes], entered : BOOLEAN,
   released : SUBSET Waits, read : BOOLEAN]

LEMMA Shapes ==
  TypeOK <=> /\ exec \in Execs /\ row \in Rows /\ park \in [Waits -> Parks]
             /\ att \in [Waits -> Seq(Attempts)] /\ answer \in Answers
             /\ body \in Bodies
             /\ moves \in 0 .. MaxMigrations /\ faults \in 0 .. MaxFaults
BY DEF TypeOK, Execs, Rows, Parks, Answers, Bodies

LEMMA ResolvedType ==
  ASSUME TypeOK, NEW wake \in Wakes
  PROVE  Resolved(wake) \in [Waits -> Parks]
<1>1. park \in [Waits -> Parks]
  BY Shapes
<1>2. ASSUME NEW w \in Waits
      PROVE  [park[w] EXCEPT !.status = "resuming", !.wake = wake] \in Parks
  BY <1>1 DEF Parks
<1> QED
  BY <1>1, <1>2 DEF Resolved

LEMMA OffType == OffBody \in Bodies
<1>1. StartVersion \in Versions
  BY GraphAssumption
<1> QED
  BY <1>1 DEF OffBody, Bodies, Stages, Wakes

LEMMA EndRunType ==
  ASSUME TypeOK, NEW status \in Verdicts, EndRun(status)
  PROVE  /\ exec' \in Execs
         /\ exec'.workflow = exec.workflow
         /\ row' \in Rows
         /\ park' \in [Waits -> Parks]
         /\ body' \in Bodies
<1>1. exec \in Execs /\ row \in Rows /\ park \in [Waits -> Parks]
  BY Shapes
<1>2. exec' \in Execs /\ exec'.workflow = exec.workflow
  BY <1>1 DEF EndRun, Execs
<1>3. ASSUME NEW w \in Waits PROVE [park[w] EXCEPT !.status = "cancelled"] \in Parks
  BY <1>1 DEF Parks
<1>4. park' \in [Waits -> Parks]
  BY <1>1, <1>3 DEF EndRun
<1>5. row' \in Rows /\ body' \in Bodies
  BY OffType DEF EndRun, EndPass, Rows
<1> QED
  BY <1>2, <1>4, <1>5

LEMMA PreparedType ==
  ASSUME TypeOK, NEW w \in Waits, NEW prep \in {"parked", "error", "skipped"},
         NEW woke \in Wakes, Prepared(w, prep, woke)
  PROVE  /\ att' \in [Waits -> Seq(Attempts)]
         /\ answer' \in Answers
<1> DEFINE a == [prep |-> prep, ver |-> body.version, woke |-> woke, resume |-> "none"]
<1>1. a \in Attempts
  BY DEF Attempts, Wakes, TypeOK
<1>2. att[w] \in Seq(Attempts) /\ att \in [Waits -> Seq(Attempts)]
  BY DEF TypeOK
<1>3. Append(att[w], a) \in Seq(Attempts)
  BY <1>1, <1>2
<1>4. att' = [att EXCEPT ![w] = Append(att[w], a)]
  BY <1>2 DEF Prepared
<1>5. att' \in [Waits -> Seq(Attempts)]
  BY <1>2, <1>3, <1>4
<1>6. answer' = [answer EXCEPT !.plan[w] = Unresolved]
  BY DEF Prepared
<1> QED
  BY <1>5, <1>6, Shapes DEF Answers, Unresolved

(* The memo of attempt k of w rewritten.                                   *)
LEMMA RewrittenType ==
  ASSUME TypeOK, NEW w \in Waits, NEW k \in DOMAIN att[w], NEW a \in Attempts
  PROVE  [att EXCEPT ![w] = [att[w] EXCEPT ![k] = a]] \in [Waits -> Seq(Attempts)]
<1>1. att[w] \in Seq(Attempts) /\ att \in [Waits -> Seq(Attempts)]
  BY DEF TypeOK
<1>2. [att[w] EXCEPT ![k] = a] \in Seq(Attempts)
  BY <1>1
<1> QED
  BY <1>1, <1>2

LEMMA MovedType ==
  ASSUME TypeOK, NEW w \in Waits, NEW s \in Stages
  PROVE  /\ Go(w, s) => body' \in Bodies
         /\ \A wake \in Wakes : GoWith(w, s, wake) =>
                     body' \in Bodies
<1>1. body \in Bodies
  BY Shapes
<1> QED
  <2>1. [body EXCEPT !.stage[w] = s] \in Bodies
    BY <1>1 DEF Bodies
  <2>2. ASSUME NEW wake \in Wakes
        PROVE  [body EXCEPT !.stage[w] = s, !.wake[w] = wake] \in Bodies
    BY <1>1 DEF Bodies
  <2> QED
    BY <2>1, <2>2 DEF Go, GoWith

LEMMA MissedIsWake ==
  ASSUME TypeOK, NEW w \in Waits
  PROVE  MissedWake(w) \in Wakes /\ ClaimWake(w) \in Wakes
         /\ MissedWake(w) # "migrate" /\ ClaimWake(w) # "migrate"
BY DEF TypeOK, MissedWake, ClaimWake, Wakes, ClaimKinds

LEMMA TypeStep ==
  ASSUME TypeOK, WakesRead, [Next]_vars
  PROVE  TypeOK'
<1> DEFINE
     Good == /\ exec' \in Execs /\ exec'.workflow = exec.workflow
             /\ row' \in Rows /\ park' \in [Waits -> Parks]
             /\ att' \in [Waits -> Seq(Attempts)] /\ answer' \in Answers
             /\ body' \in Bodies
             /\ moves' \in 0 .. MaxMigrations /\ faults' \in 0 .. MaxFaults
<1>0. /\ exec \in Execs /\ row \in Rows /\ park \in [Waits -> Parks]
      /\ att \in [Waits -> Seq(Attempts)] /\ answer \in Answers /\ body \in Bodies
      /\ moves \in 0 .. MaxMigrations /\ faults \in 0 .. MaxFaults
      /\ MaxMigrations \in Nat /\ MaxFaults \in Nat
  BY BoundsAssumption, Shapes DEF Execs, MaxMigrations, MaxFaults
<1>1. Good => TypeOK'
  BY DEF TypeOK, Execs, Rows, Parks, Answers, Bodies, MaxMigrations, MaxFaults
<1>2. ASSUME VersionRefused, UNCHANGED <<moves, faults>> PROVE Good
  BY <1>0, <1>2, OffType DEF VersionRefused, EndPass, Bodies, Rows
<1>3. CASE Claim
  <2>1. body' \in Bodies
    BY <1>3, OffType DEF Claim, Bodies
  <2>2. park' \in [Waits -> Parks]
    BY <1>0, <1>3 DEF Claim, Parks, Wakes
  <2> QED
    BY <1>0, <1>1, <1>3, <2>1, <2>2 DEF Claim, Rows
<1>4. CASE Open
  BY <1>0, <1>1, <1>4 DEF Open, Bodies, Execs
<1>5. CASE Drain
  BY <1>0, <1>1, <1>5 DEF Drain, Bodies, Stages
<1>6. ASSUME NEW w \in Waits, WaitStep(w) PROVE Good
  <2>1. CASE AdmitOpen(w)
    <3>1. PICK found \in {"eligible", "exiting", "refused"} :
             answer' = [answer EXCEPT !.admit[w] = found]
      BY <2>1 DEF AdmitOpen
    <3> QED
      BY <1>0, <2>1, <3>1 DEF AdmitOpen, Answers
  <2>2. CASE AdmitClose(w)
    BY <1>0, <2>2 DEF AdmitClose, Answers
  <2>3. CASE RequestExit(w)
    <3>1. Resolved("exit") \in [Waits -> Parks]
      BY ResolvedType DEF Wakes
    <3>2. answer' \in Answers
      BY <1>0, <2>3 DEF RequestExit, Answers
    <3>3. exec' \in Execs /\ exec'.workflow = exec.workflow
      BY <1>0, <2>3 DEF RequestExit, Execs, ClaimKinds
    <3> QED
      BY <1>0, <2>3, <3>1, <3>2, <3>3 DEF RequestExit
  <2>4. CASE Admitted(w)
    BY <1>0, <2>4, MovedType DEF Admitted, Bodies, Stages
  <2>5. CASE Resolve(w)
    <3>1. PICK plan \in {"error", "skipped", "ahead", "passed"} :
             answer' = [answer EXCEPT !.plan[w][body.version] = plan]
      BY <2>5 DEF Resolve, Resolutions
    <3>2. body.version \in Versions
      BY <1>0 DEF Bodies
    <3> QED
      BY <1>0, <2>5, <3>1, <3>2 DEF Resolve, Answers
  <2>6. CASE PrepareEnds(w)
    BY <1>0, <2>6, MovedType, PreparedType DEF PrepareEnds, Bodies, Answers, Stages, Wakes
  <2>7. CASE StartWait(w)
    <3>1. Parked(w) \in Parks
      BY <1>0, <2>7, GraphAssumption DEF StartWait, ToPark, Parked, Parks, Wakes, Bodies
    <3>2. exec' \in Execs /\ exec'.workflow = exec.workflow
      BY <1>0, <2>7 DEF StartWait, Execs, InFlight
    <3>3. park' \in [Waits -> Parks]
      BY <1>0, <2>7, <3>1 DEF StartWait
    <3>4. body' \in Bodies
      BY <2>7, MovedType DEF StartWait, Stages
    <3> QED
      BY <1>0, <2>7, <3>2, <3>3, <3>4 DEF StartWait
  <2>8. CASE ReparkWait(w)
    <3>1. Parked(w) \in Parks
      BY <1>0, <2>8, GraphAssumption DEF ReparkWait, ToPark, Parked, Parks, Wakes, Bodies
    <3> QED
      BY <1>0, <1>2, <2>8, <3>1, MovedType DEF ReparkWait, Bodies, Stages
  <2>9. CASE PrepareParks(w)
    <3>1. \E woke \in Wakes : Prepared(w, "parked", woke)
      BY <2>9, MissedIsWake DEF PrepareParks, Wakes
    <3> QED
      BY <1>0, <2>9, <3>1, MovedType, PreparedType
         DEF PrepareParks, Bodies, Answers, Stages
  <2>10. CASE PrepareRefused(w)
    <3>1. \/ VersionRefused
          \/ /\ \E prep \in {"parked", "error", "skipped"}, woke \in Wakes :
                  Prepared(w, prep, woke)
             /\ Go(w, "check") \/ Go(w, "drive")
             /\ UNCHANGED <<exec, row, park>>
      BY <2>10, MissedIsWake, Zenon DEF PrepareRefused, Wakes
    <3>2. UNCHANGED <<moves, faults>>
      BY <2>10 DEF PrepareRefused
    <3>3. CASE VersionRefused
      BY <1>2, <3>2, <3>3
    <3> QED
      BY <1>0, <3>1, <3>2, <3>3, MovedType, PreparedType DEF Bodies, Answers, Stages
  <2>11. CASE WaitForEvent(w)
    <3> DEFINE k == Attempt(w)
               a == [att[w][k] EXCEPT !.woke = park[w].wake]
    <3>1. k \in DOMAIN att[w]
      BY <2>11, AttemptFound DEF WaitForEvent, Driving, StopsAt
    <3>2. att[w][k] \in Attempts
      BY <1>0, <3>1
    <3>3. a \in Attempts
      BY <1>0, <3>2 DEF Attempts, Parks
    <3>4. park[w].wake # "none" => att' = [att EXCEPT ![w] = [att[w] EXCEPT ![k] = a]]
      BY <1>0, <2>11 DEF WaitForEvent
    <3>5. att' \in [Waits -> Seq(Attempts)]
      <4>1. CASE att' = att
        BY <1>0, <4>1
      <4>2. CASE att' = [att EXCEPT ![w] = [att[w] EXCEPT ![k] = a]]
        <5> HIDE DEF a, k
        <5> QED
          BY <3>1, <3>3, <4>2, RewrittenType
      <4> QED
        BY <2>11, <3>4, <4>1, <4>2 DEF WaitForEvent
    <3> QED
      BY <1>0, <2>11, <3>5, MovedType DEF WaitForEvent, Bodies, Stages
  <2>12. CASE ResumeFence(w)
    <3>1. Attempt(w) \in DOMAIN att[w]
      BY <2>12, AttemptFound DEF ResumeFence, Resuming, Driving, StopsAt
    <3>2. Current(w).woke \in Wakes
      <4>1. att[w][Attempt(w)] \in Attempts
        BY <1>0, <3>1
      <4> QED
        BY <4>1 DEF Attempts, Current
    <3>3. exec' \in Execs /\ exec'.workflow = exec.workflow
      BY <1>0, <2>12 DEF ResumeFence, Execs, InFlight
    <3>4. body' \in Bodies
      BY <2>12, <3>2, MovedType DEF ResumeFence, Stages
    <3> QED
      BY <1>0, <2>12, <3>3, <3>4 DEF ResumeFence
  <2>13. CASE ResumeRefused(w)
    <3>1. CASE ClaimWake(w) = "none"
      BY <1>2, <2>13, <3>1 DEF ResumeRefused
    <3> QED
      BY <1>0, <2>13, <3>1, MovedType, MissedIsWake DEF ResumeRefused, Bodies, Stages
  <2>14. CASE ResumeSettle(w)
    <3>1. body.wake[w] \in Wakes
      BY <1>0 DEF Bodies
    <3>2. park' \in [Waits -> Parks]
      <4>1. ASSUME NEW st \in {"cancelled", "timed_out", "resumed"}
            PROVE  [park EXCEPT ![w].status = st] \in [Waits -> Parks]
        BY <1>0 DEF Parks
      <4>2. \/ park' = park
            \/ \E st \in {"cancelled", "timed_out", "resumed"} :
                 park' = [park EXCEPT ![w].status = st]
        BY <2>14, Zenon DEF ResumeSettle
      <4> QED
        BY <1>0, <4>1, <4>2
    <3>3. \E wake \in Wakes : GoWith(w, "settled", wake)
      BY <2>14, <3>1 DEF ResumeSettle, Wakes
    <3> QED
      BY <1>0, <2>14, <3>2, <3>3, MovedType DEF ResumeSettle, Bodies, Stages
  <2>15. CASE ResumeEnds(w)
    <3> DEFINE k == Attempt(w)
               a == [att[w][k] EXCEPT !.resume = body.wake[w]]
    <3>4. att' = [att EXCEPT ![w] = [att[w] EXCEPT ![k] = a]]
      BY <1>0, <2>15 DEF ResumeEnds
    <3>5. att' \in [Waits -> Seq(Attempts)]
      <4>1. CASE k \in DOMAIN att[w]
        <5>2. att[w][k] \in Attempts
          BY <1>0, <4>1
        <5>3. body.wake[w] \in Wakes \ {"migrate"}
          BY <1>0 DEF Bodies, WakesRead
        <5>5. a \in Attempts
          BY <5>2, <5>3 DEF Attempts
        <5> QED
          BY <3>4, <4>1, <5>5, RewrittenType
      <4>2. CASE k \notin DOMAIN att[w]
        <5>1. [att[w] EXCEPT ![k] = a] = att[w]
          BY <1>0, <4>2
        <5> QED
          BY <1>0, <3>4, <5>1
      <4> QED
        BY <4>1, <4>2
    <3> QED
      BY <1>0, <2>15, <3>5, MovedType DEF ResumeEnds, Bodies, Stages
  <2>16. CASE AbandonWait(w)
    <3>1. park' \in [Waits -> Parks]
      BY <1>0, <2>16 DEF AbandonWait, Parks
    <3> QED
      BY <1>0, <2>16, <3>1, MovedType DEF AbandonWait, Bodies, Stages
  <2>17. CASE Replayed(w)
    BY <1>0, <2>17, MovedType DEF Replayed, Bodies, Stages
  <2>18. CASE Check(w)
    <3>1. answer' \in Answers
      BY <1>0, <2>18 DEF Check, Answers
    <3>2. body' \in Bodies
      BY <1>0, <2>18 DEF Check, Bodies, Stages
    <3> QED
      BY <1>0, <2>18, <3>1, <3>2 DEF Check
  <2> QED
    BY <1>6, <2>1, <2>2, <2>3, <2>4, <2>5, <2>6, <2>7, <2>8, <2>9, <2>10, <2>11,
       <2>12, <2>13, <2>14, <2>15, <2>16, <2>17, <2>18, Zenon DEF WaitStep
<1>7. CASE MarkWaitingIfParked
  BY <1>0, <1>1, <1>7 DEF MarkWaitingIfParked, Execs, Bodies, InFlight
<1>8. CASE ReleaseParked
  <2>1. row' \in Rows
    BY <1>0, <1>8 DEF ReleaseParked, EndPass, ParkedRelease, Rows
  <2> QED
    BY <1>0, <1>1, <1>8, <2>1, OffType DEF ReleaseParked, EndPass, Bodies
<1>9. CASE ReadOutcome
  BY <1>0, <1>1, <1>9 DEF ReadOutcome, Answers, Bodies, Execs, ClaimKinds
<1>10. CASE RecordEnd
  <2>1. \A s \in Verdicts : EndRun(s) => exec' \in Execs /\ exec'.workflow = exec.workflow
          /\ row' \in Rows /\ park' \in [Waits -> Parks] /\ body' \in Bodies
    BY EndRunType DEF Execs, Rows, Bodies
  <2>2. TerminalStatus \in Verdicts /\ "exited" \in Verdicts
    BY DEF TerminalStatus, Verdicts
  <2>3. \/ (\E s \in Verdicts : EndRun(s)) /\ UNCHANGED answer
        \/ /\ answer' = [answer EXCEPT !.refused = TRUE]
           /\ body' = [body EXCEPT !.entered = TRUE]
           /\ UNCHANGED <<exec, row, park>>
    BY <1>10, <2>2, Zenon DEF RecordEnd
  <2>4. UNCHANGED <<att, moves, faults>>
    BY <1>10 DEF RecordEnd
  <2> QED
    BY <1>0, <1>1, <2>1, <2>3, <2>4 DEF Answers, Bodies
<1>11. CASE PassCut
  <2>1. row' \in Rows /\ body' = OffBody
    BY <1>0, <1>11 DEF PassCut, EndPass, Rows
  <2>2. faults' \in 0 .. MaxFaults
    BY <1>0, <1>11 DEF PassCut
  <2> QED
    BY <1>0, <1>1, <1>11, <2>1, <2>2, OffType DEF PassCut, Bodies
<1>12. CASE BackoffEnds
  BY <1>0, <1>1, <1>12 DEF BackoffEnds, Rows
<1>13. ASSUME NEW w \in Waits, DeadlinePasses(w) PROVE TypeOK'
  BY <1>0, <1>1, <1>13 DEF DeadlinePasses, Rows, Parks
<1>r. Requeued(row) \in Rows
  BY <1>0 DEF Requeued, Rows
<1>14. ASSUME NEW w \in Waits, DeliverEvent(w) PROVE TypeOK'
  BY <1>0, <1>1, <1>14, <1>r DEF DeliverEvent, Parks, Wakes
<1>15. ASSUME NEW v \in Versions, Migrate(v) PROVE TypeOK'
  <2>1. Resolved("migrate") \in [Waits -> Parks]
    BY ResolvedType DEF Wakes
  <2>2. moves' \in 0 .. MaxMigrations
    BY <1>0, <1>15 DEF Migrate
  <2> QED
    BY <1>0, <1>1, <1>15, <1>r, <2>1, <2>2 DEF Migrate, Execs
<1>16. CASE RequestCancel
  <2>1. Resolved("cancel") \in [Waits -> Parks]
    BY ResolvedType DEF Wakes
  <2> QED
    BY <1>0, <1>1, <1>16, <1>r, <2>1 DEF RequestCancel, Execs, ClaimKinds
<1>17. CASE EndInFlight
  <2>1. "superseded" \in Verdicts
    BY DEF Verdicts
  <2> QED
    BY <1>0, <1>1, <1>17, <2>1, EndRunType DEF EndInFlight, Execs, Rows, Bodies
<1>18. CASE UNCHANGED vars
  BY <1>0, <1>1, <1>18 DEF vars
<1> QED
  BY <1>1, <1>3, <1>4, <1>5, <1>6, <1>7, <1>8, <1>9, <1>10, <1>11, <1>12, <1>13, <1>14,
     <1>15, <1>16, <1>17, <1>18, Zenon DEF Next, PassStep, Producer

-----------------------------------------------------------------------------
(* One Wait's step                                                         *)

LEMMA InitIInv == Init => IInv
<1> SUFFICES ASSUME Init PROVE IInv
  OBVIOUS
<1>1. TypeOK
  <2>1. PICK f \in DOMAIN Workflows :
           exec = [workflow |-> f, status |-> "running",
                   version |-> StartVersion, claim |-> "none"]
    BY DEF Init
  <2>2. exec \in Execs /\ MaxMigrations \in Nat /\ MaxFaults \in Nat
    BY <2>1, GraphAssumption, BoundsAssumption
       DEF Execs, InFlight, MaxMigrations, MaxFaults
  <2>3. row \in Rows /\ park \in [Waits -> Parks]
    BY DEF Init, Rows, Parks, Wakes
  <2>4. answer \in Answers
    BY DEF Init, Answers, Unresolved
  <2>5. att \in [Waits -> Seq(Attempts)]
    BY DEF Init
  <2> QED
    BY <2>2, <2>3, <2>4, <2>5, OffType, Shapes DEF Init
<1>2. RowsHeld /\ NoWakeSleptThrough /\ CancelRead /\ RoundSound
  BY DEF Init, RowsHeld, NoWakeSleptThrough, CancelRead, RoundSound, OffBody,
         Verdicts, Active
<1>3. ASSUME NEW w \in Waits PROVE Local(w)
  <2>1. /\ park[w] = [status |-> "absent", wake |-> "none", type |-> "delay",
                      deadline |-> "ahead"]
        /\ att[w] = <<>> /\ DOMAIN att[w] = {} /\ Len(att[w]) = 0
        /\ body.stage[w] = "out" /\ body.wake[w] = "none"
        /\ exec.status = "running" /\ exec.claim = "none"
    BY <1>3 DEF Init, OffBody
  <2> QED
    BY <2>1 DEF Local, ParkOf, ParkSound, StageOf, ClaimedBy, Pinned, OutletOf,
                IsClaimWake, ClaimKinds
<1> QED
  BY <1>1, <1>2, <1>3 DEF IInv

(* Two Waits a pass drives at once are beside each other.                  *)
LEMMA ActiveBeside ==
  ASSUME IInv, NEW w \in Waits, NEW x \in Waits \ {w}, Active(w), Active(x)
  PROVE  w \in Beside(x)
<1>1. Above[w] \subseteq body.released /\ Above[x] \subseteq body.released
  BY DEF IInv, RoundSound
<1>2. w \notin body.released /\ x \notin body.released
  BY DEF IInv, RoundSound, Active
<1>3. Side(w) = Side(x)
  BY DEF IInv, RoundSound
<1> QED
  BY <1>1, <1>2, <1>3 DEF Beside

(* What one Wait's step leaves alone holds on.                             *)
LEMMA LocalStep ==
  ASSUME IInv, TypeOK', NEW w \in Waits, body.at = "running", Active(w),
         NEW s \in Stages \ {"out"}, NEW wake \in Wakes,
         body' = [body EXCEPT !.stage[w] = s, !.wake[w] = wake],
         row' = row,
         NEW status \in InFlight, exec' = [exec EXCEPT !.status = status],
         \A x \in Waits \ {w} : park'[x] = park[x] /\ att'[x] = att[x],
         answer'.check = answer.check, answer'.final = answer.final,
         Local(w)'
  PROVE  IInv'
<1>1. body \in Bodies /\ exec \in Execs /\ row.state = "leased"
  BY Shapes DEF IInv, RowsHeld
<1>2. /\ body'.at = "running" /\ body'.version = body.version
      /\ body'.entered = body.entered /\ body'.released = body.released
      /\ body'.stage[w] = s
      /\ \A x \in Waits \ {w} :
           body'.stage[x] = body.stage[x] /\ body'.wake[x] = body.wake[x]
  BY <1>1 DEF Bodies
<1>3. /\ exec'.workflow = exec.workflow /\ exec'.version = exec.version
      /\ exec'.claim = exec.claim /\ exec'.status = status
      /\ status \notin Verdicts /\ exec.status \notin Verdicts
  BY <1>1 DEF Execs, IInv, RowsHeld, InFlight, Verdicts
<1>4. RowsHeld' /\ NoWakeSleptThrough'
  BY <1>1, <1>2, <1>3 DEF RowsHeld, NoWakeSleptThrough
<1>5. CancelRead'
  BY <1>2, <1>3 DEF IInv, CancelRead
<1>6. RoundSound'
  <2>1. \A x \in Waits : Active(x)' => Active(x)
    BY <1>2 DEF Active
  <2>2. w \notin body.released
    BY DEF IInv, RoundSound, Active
  <2>3. \A x \in Waits : Side(x)' = Side(x) /\ Above'[x] = Above[x]
    BY <1>3 DEF Side, Above
  <2>4. body.released \subseteq Waits
    BY <1>1 DEF Bodies
  <2> QED
    BY <1>2, <2>1, <2>2, <2>3, <2>4 DEF IInv, RoundSound
<1>7. ASSUME NEW x \in Waits \ {w} PROVE Local(x)'
  <2>1. Local(x)
    BY DEF IInv
  <2>2. /\ park'[x] = park[x] /\ att'[x] = att[x]
        /\ body'.stage[x] = body.stage[x] /\ body'.wake[x] = body.wake[x]
    BY <1>2
  <2>3. ParkOf(x)'
    BY <2>1, <2>2 DEF Local, ParkOf, ParkSound, AttemptSound
  <2>4. StageOf(x)'
    BY <2>1, <2>2, <1>2 DEF Local, StageOf, AllLeft, StopsAt, Superseded
  <2>5. ClaimedBy(x)'
    BY <2>1, <2>2, <1>3 DEF Local, ClaimedBy, IsClaimWake
  <2>6. Pinned(x)'
    <3>1. CASE body.stage[x] \in {"fenced", "settled"}
      <4>1. w \in Beside(x)
        BY <3>1, ActiveBeside DEF Active
      <4>2. w \in Beside(x)'
        BY <4>1, <1>3 DEF Beside, Above, Side
      <4> QED
        BY <1>2, <4>2 DEF Pinned
    <3>2. CASE body.stage[x] \notin {"fenced", "settled"}
      BY <2>2, <3>2 DEF Pinned
    <3> QED
      BY <3>1, <3>2
  <2>7. x \in Canceled => OutletOf(x)'
    BY <2>1, <2>2, <1>2, <1>3 DEF Local, OutletOf, Above, Verdicts
  <2>8. park'[x].status = "waiting" => ClaimAdmits(exec'.claim, Side(x)')
    BY <2>1, <2>2, <1>3 DEF Local, Side
  <2> QED
    BY <2>1, <2>2, <2>3, <2>4, <2>5, <2>6, <2>7, <2>8 DEF Local
<1> QED
  BY <1>4, <1>5, <1>6, <1>7 DEF IInv

(* A step that only moves w.                                               *)
LEMMA StageStep ==
  ASSUME IInv, TypeOK', NEW w \in Waits, body.at = "running", Active(w),
         NEW s \in Stages \ {"out"}, NEW wake \in Wakes,
         body' = [body EXCEPT !.stage[w] = s, !.wake[w] = wake],
         UNCHANGED <<row, park, att>>,
         NEW status \in InFlight, exec' = [exec EXCEPT !.status = status],
         answer'.check = answer.check, answer'.final = answer.final,
         StageOf(w)', Pinned(w)', w \in Canceled => OutletOf(w)',
         IsClaimWake(wake) => exec.claim # "none"
  PROVE  IInv'
<1>1. body \in Bodies /\ exec \in Execs /\ Local(w)
  BY Shapes DEF IInv
<1>2. /\ body'.version = body.version /\ body'.wake[w] = wake
      /\ exec'.workflow = exec.workflow /\ exec'.claim = exec.claim
      /\ exec.status \notin Verdicts
  BY <1>1 DEF Bodies, Execs, IInv, RowsHeld, Verdicts
<1>3. ParkOf(w)'
  BY <1>1 DEF Local, ParkOf, ParkSound, AttemptSound
<1>4. ClaimedBy(w)'
  BY <1>1, <1>2 DEF Local, ClaimedBy, IsClaimWake
<1>5. Local(w)'
  BY <1>1, <1>2, <1>3, <1>4 DEF Local, Side
<1> QED
  BY <1>5, LocalStep

(* A step that only memoizes an answer no invariant reads.                 *)
LEMMA AnswerStep ==
  ASSUME IInv, TypeOK', UNCHANGED <<exec, row, park, att, body>>,
         answer'.check = answer.check, answer'.final = answer.final
  PROVE  IInv'
<1>1. RowsHeld' /\ NoWakeSleptThrough' /\ CancelRead'
  BY DEF IInv, RowsHeld, NoWakeSleptThrough, CancelRead
<1>2. RoundSound'
  BY DEF IInv, RoundSound, Active, Side, Above
<1>3. ASSUME NEW x \in Waits PROVE Local(x)'
  <2>1. Local(x)
    BY DEF IInv
  <2>2. ParkOf(x)' /\ ClaimedBy(x)'
    BY <2>1 DEF Local, ParkOf, ParkSound, AttemptSound, ClaimedBy, IsClaimWake
  <2>3. StageOf(x)'
    BY <2>1 DEF Local, StageOf, AllLeft, StopsAt, Superseded
  <2>4. Pinned(x)'
    BY <2>1 DEF Local, Pinned, Beside, Side, Above
  <2>5. x \in Canceled => OutletOf(x)'
    BY <2>1 DEF Local, OutletOf, Above
  <2> QED
    BY <2>1, <2>2, <2>3, <2>4, <2>5 DEF Local, Side
<1> QED
  BY <1>1, <1>2, <1>3 DEF IInv

LEMMA AnsweredStep ==
  ASSUME IInv, TypeOK', NEW w \in Waits, AdmitOpen(w) \/ AdmitClose(w) \/ Resolve(w)
  PROVE  IInv'
<1>1. answer \in Answers
  BY Shapes DEF IInv
<1>2. answer'.check = answer.check /\ answer'.final = answer.final
  <2>1. CASE AdmitOpen(w)
    <3>1. PICK found : answer' = [answer EXCEPT !.admit[w] = found]
      BY <2>1 DEF AdmitOpen
    <3> QED
      BY <1>1, <3>1 DEF Answers
  <2>2. CASE AdmitClose(w)
    BY <1>1, <2>2 DEF AdmitClose, Answers
  <2>3. CASE Resolve(w)
    <3>1. PICK plan : answer' = [answer EXCEPT !.plan[w][body.version] = plan]
      BY <2>3 DEF Resolve
    <3> QED
      BY <1>1, <3>1 DEF Answers
  <2> QED
    BY <2>1, <2>2, <2>3
<1> QED
  BY <1>2, AnswerStep DEF AdmitOpen, AdmitClose, Resolve

(* The replay stops at the first attempt of a Wait behind the outlet.      *)
LEMMA OutletFirst ==
  ASSUME IInv, NEW w \in Canceled, body.at = "running"
  PROVE  Attempt(w) = 1
<1>1. w \in Waits /\ TypeOK
  BY GraphAssumption DEF IInv
<1>2. OutletOf(w)
  BY <1>1 DEF IInv, Local
<1>3. ASSUME Attempt(w) # 1 PROVE FALSE
  <2>1. att[w] # <<>> /\ Superseded(att[w][1])
    BY <1>1, <1>3, AttemptFound
  <2> QED
    BY <1>2, <2>1 DEF OutletOf, Superseded
<1> QED
  BY <1>3

(* The facts of a step of w.                                               *)
LEMMA GoneWith ==
  ASSUME IInv, NEW w \in Waits, NEW s \in Stages, NEW wake, GoWith(w, s, wake)
  PROVE  /\ body'.at = body.at /\ body'.version = body.version
         /\ body'.entered = body.entered /\ body'.released = body.released
         /\ body'.stage[w] = s /\ body'.wake[w] = wake
         /\ body' = [body EXCEPT !.stage[w] = s, !.wake[w] = wake]
<1>1. body \in Bodies
  BY Shapes DEF IInv
<1> QED
  BY <1>1 DEF GoWith, Bodies

LEMMA Gone ==
  ASSUME IInv, NEW w \in Waits, NEW s \in Stages, Go(w, s)
  PROVE  /\ body'.at = body.at /\ body'.version = body.version
         /\ body'.entered = body.entered /\ body'.released = body.released
         /\ body'.stage[w] = s /\ body'.wake[w] = body.wake[w]
         /\ body' = [body EXCEPT !.stage[w] = s, !.wake[w] = body.wake[w]]
<1>1. body \in Bodies
  BY Shapes DEF IInv
<1>2. body.wake = [body.wake EXCEPT ![w] = body.wake[w]]
  BY <1>1 DEF Bodies
<1>3. [body EXCEPT !.stage[w] = s] =
        [body EXCEPT !.stage[w] = s, !.wake[w] = body.wake[w]]
  BY <1>1, <1>2 DEF Bodies
<1> QED
  BY <1>1, <1>3 DEF Go, Bodies

LEMMA Running ==
  ASSUME IInv, NEW w \in Waits
  PROVE  /\ body.wake[w] \in Wakes
         /\ exec = [exec EXCEPT !.status = exec.status]
         /\ body.at = "running" => exec.status \in InFlight /\ row.state = "leased"
         /\ exec.status \in InFlight => exec.status \notin Verdicts
         /\ IsClaimWake(body.wake[w]) => exec.claim # "none"
<1>1. body \in Bodies /\ exec \in Execs
  BY Shapes DEF IInv
<1>2. exec = [exec EXCEPT !.status = exec.status]
  BY <1>1 DEF Execs
<1>3. body.at = "running" => exec.status \in InFlight /\ row.state = "leased"
  BY <1>1 DEF IInv, RowsHeld, Execs, Bodies
<1>4. IsClaimWake(body.wake[w]) => exec.claim # "none"
  BY DEF IInv, Local, ClaimedBy
<1> QED
  BY <1>1, <1>2, <1>3, <1>4 DEF Bodies, InFlight, Verdicts

LEMMA AdmittedStep ==
  ASSUME IInv, TypeOK', NEW w \in Waits, Admitted(w)
  PROVE  IInv'
<1>1. Local(w) /\ body.at = "running" /\ Active(w)
  BY DEF IInv, Admitted, At, Active
<1>2. PICK s \in {"drive", "check"} : Go(w, s)
  BY DEF Admitted
<1>3. /\ body' = [body EXCEPT !.stage[w] = s, !.wake[w] = body.wake[w]]
      /\ body'.stage[w] = s /\ body'.wake[w] = body.wake[w] /\ body.wake[w] \in Wakes
      /\ exec.status \in InFlight /\ exec' = [exec EXCEPT !.status = exec.status]
  <2>1. s \in Stages
    BY DEF Stages
  <2>2. /\ body' = [body EXCEPT !.stage[w] = s, !.wake[w] = body.wake[w]]
        /\ body'.stage[w] = s /\ body'.wake[w] = body.wake[w]
    BY <1>2, <2>1, Gone
  <2> QED
    BY <1>1, <2>2, Running DEF Admitted
<1>4. StageOf(w)' /\ Pinned(w)'
  BY <1>1, <1>3 DEF StageOf, Pinned, Local
<1>5. w \notin Canceled
  BY <1>1 DEF Local, OutletOf, Admitted, At
<1>6. IsClaimWake(body.wake[w]) => exec.claim # "none"
  BY <1>1 DEF Local, ClaimedBy
<1>7. s \in Stages \ {"out"}
  BY DEF Stages
<1> HIDE DEF IInv
<1> QED
  BY <1>1, <1>3, <1>4, <1>5, <1>6, <1>7, StageStep DEF Admitted

(* A prepare step ends an attempt.                                         *)
LEMMA PreparedStep ==
  ASSUME IInv, TypeOK', NEW w \in Waits, body.at = "running", Active(w),
         NEW prep \in {"parked", "error", "skipped"}, NEW woke \in Wakes,
         NEW s \in {"check", "drive"},
         Prepared(w, prep, woke), Go(w, s), UNCHANGED <<exec, row, park>>,
         prep = "parked" => s = "drive" /\ park[w].status # "absent",
         prep # "parked" => woke = "none",
         IsClaimWake(woke) => exec.claim # "none",
         w \in Canceled =>
           /\ att[w] = <<>>
           /\ prep = "parked" => woke # "migrate" /\ body.version = exec.version
  PROVE  IInv'
<1> DEFINE a == [prep |-> prep, ver |-> body.version, woke |-> woke, resume |-> "none"]
<1>1. Local(w) /\ TypeOK
  BY DEF IInv
<1>2. /\ body' = [body EXCEPT !.stage[w] = s, !.wake[w] = body.wake[w]]
      /\ body'.at = "running" /\ body'.version = body.version
      /\ body'.entered = body.entered
      /\ body'.stage[w] = s /\ body'.wake[w] = body.wake[w] /\ body.wake[w] \in Wakes
      /\ exec.status \in InFlight /\ exec' = [exec EXCEPT !.status = exec.status]
  <2>1. s \in Stages
    BY DEF Stages
  <2>2. /\ body' = [body EXCEPT !.stage[w] = s, !.wake[w] = body.wake[w]]
        /\ body'.at = body.at /\ body'.version = body.version
        /\ body'.entered = body.entered
        /\ body'.stage[w] = s /\ body'.wake[w] = body.wake[w]
    BY <2>1, Gone
  <2> QED
    BY <2>2, Running
<1>3. att \in [Waits -> Seq(Attempts)] /\ answer \in Answers
  BY <1>1, Shapes
<1>4. /\ att'[w] = Append(att[w], a)
      /\ \A x \in Waits \ {w} : att'[x] = att[x]
      /\ answer'.check = answer.check /\ answer'.final = answer.final
  BY <1>3 DEF Prepared, Answers
<1>5. /\ Len(att'[w]) = Len(att[w]) + 1 /\ Len(att[w]) \in Nat
      /\ DOMAIN att'[w] = 1 .. (Len(att[w]) + 1) /\ DOMAIN att[w] = 1 .. Len(att[w])
      /\ att'[w][Len(att[w]) + 1] = a
      /\ \A k \in DOMAIN att[w] : att'[w][k] = att[w][k]
      /\ \A k \in DOMAIN att'[w] : k \in DOMAIN att[w] \/ att'[w][k] = a
  BY <1>3, <1>4
<1>6. ParkOf(w)'
  <2>1. ASSUME NEW k \in DOMAIN att'[w]
        PROVE  /\ AttemptSound(att'[w][k])
               /\ att'[w][k].prep = "parked" => park'[w].status # "absent"
               /\ att'[w][k].resume # "none" => ~OpenPark(park'[w])
    <3>1. CASE k \in DOMAIN att[w]
      BY <1>1, <1>5, <3>1 DEF Local, ParkOf
    <3>2. CASE att'[w][k] = a
      BY <3>2 DEF AttemptSound
    <3> QED
      BY <1>5, <3>1, <3>2
  <2>2. ParkSound(park'[w])
    BY <1>1 DEF Local, ParkOf
  <2> QED
    BY <2>1, <2>2 DEF ParkOf, ParkSound, AttemptSound
<1>7. StageOf(w)' /\ Pinned(w)'
  BY <1>1, <1>2 DEF Local, StageOf, Pinned
<1>8. ClaimedBy(w)'
  <2>1. ASSUME NEW k \in DOMAIN att'[w], IsClaimWake(att'[w][k].woke)
        PROVE  exec.claim # "none"
    BY <1>1, <1>5, <2>1 DEF Local, ClaimedBy
  <2>2. Len(att'[w]) > Len(att[w])
    BY <1>5
  <2>3. WAIT_ATTEMPT_LIMIT \in Nat
    BY BoundsAssumption
  <2> QED
    BY <1>1, <1>2, <1>5, <2>1, <2>2, <2>3 DEF Local, ClaimedBy, IsClaimWake
<1>9. w \in Canceled => OutletOf(w)'
  <2> SUFFICES ASSUME w \in Canceled PROVE OutletOf(w)'
    OBVIOUS
  <2>1. att[w] = <<>> /\ Len(att'[w]) = 1 /\ att'[w][1] = a /\ att'[w] # <<>>
    BY <1>5
  <2>2. body.entered /\ exec.claim = "cancel" /\ exec.status # "canceled"
    BY <1>1, <1>2 DEF Local, OutletOf, Active, IInv, CancelRead, InFlight
  <2> QED
    BY <1>1, <1>2, <2>1, <2>2 DEF Local, OutletOf
<1>10. \A k \in DOMAIN att'[w] :
         /\ att'[w][k].resume = "timeout"
         /\ Mode[w][att'[w][k].ver] = "event"
         => park'[w].wake # "resume" \/ park'[w].status = "cancelled"
  BY <1>1, <1>5 DEF Local
<1>11. Local(w)'
  BY <1>1, <1>6, <1>7, <1>8, <1>9, <1>10 DEF Local, Side
<1>12. s \in Stages \ {"out"}
  BY DEF Stages
<1> HIDE DEF a
<1> QED
  BY <1>2, <1>4, <1>11, <1>12, LocalStep

(* A pass that ends with the run going on.                                 *)
LEMMA PassOff ==
  ASSUME IInv, TypeOK', body' = OffBody, UNCHANGED <<exec, park, att>>,
         answer'.check = answer.check, answer'.final = answer.final,
         row'.state # "gone", exec.status \notin Verdicts, NoWakeSleptThrough'
  PROVE  IInv'
<1>1. /\ body'.at = "off" /\ ~body'.entered /\ body'.released = {}
      /\ \A x \in Waits : body'.stage[x] = "out" /\ body'.wake[x] = "none"
  BY DEF OffBody
<1>2. RowsHeld' /\ CancelRead'
  BY <1>1 DEF IInv, RowsHeld, CancelRead
<1>3. RoundSound'
  BY <1>1 DEF RoundSound, Active
<1>4. ASSUME NEW x \in Waits PROVE Local(x)'
  <2>1. Local(x)
    BY DEF IInv
  <2>2. ParkOf(x)'
    BY <2>1 DEF Local, ParkOf, ParkSound, AttemptSound
  <2>3. StageOf(x)' /\ Pinned(x)'
    BY <1>1 DEF StageOf, Pinned
  <2>4. ClaimedBy(x)'
    BY <1>1, <2>1 DEF Local, ClaimedBy, IsClaimWake, ClaimKinds
  <2>5. x \in Canceled => OutletOf(x)'
    <3>1. exec.status # "canceled"
      BY DEF Verdicts
    <3> QED
      BY <1>1, <2>1, <3>1 DEF Local, OutletOf
  <2> QED
    BY <2>1, <2>2, <2>3, <2>4, <2>5 DEF Local, Side
<1> QED
  BY <1>2, <1>3, <1>4 DEF IInv

LEMMA RefusedStep ==
  ASSUME IInv, TypeOK', VersionRefused, body.at = "running"
  PROVE  IInv'
<1>1. /\ body' = OffBody /\ row' = [state |-> "queued", wake |-> "due"]
      /\ UNCHANGED <<exec, park, att, answer>>
  BY DEF VersionRefused, EndPass
<1>2. exec.status \notin Verdicts
  BY DEF IInv, RowsHeld
<1>3. row'.state # "gone" /\ NoWakeSleptThrough'
  BY <1>1 DEF NoWakeSleptThrough
<1> QED
  BY <1>1, <1>2, <1>3, PassOff

(* A new attempt: those before it are left, and the limit is not reached.  *)
LEMMA NewAttempt ==
  ASSUME IInv, NEW w \in Waits, Preparing(w)
  PROVE  /\ Local(w) /\ body.at = "running" /\ Active(w)
         /\ AllLeft(w) /\ Len(att[w]) < WAIT_ATTEMPT_LIMIT
         /\ Attempt(w) = 1 => att[w] = <<>>
         /\ Attempt(w) # 1 => att[w] # <<>>
         /\ w \in Canceled => Attempt(w) = 1
<1>1. TypeOK /\ Local(w)
  BY DEF IInv
<1>2. body.at = "running" /\ Active(w)
  BY DEF Preparing, At, Active
<1>3. AllLeft(w) /\ (Attempt(w) = 1 <=> att[w] = <<>>)
  BY <1>1, AttemptFound DEF Preparing
<1>4. Len(att[w]) < WAIT_ATTEMPT_LIMIT
  BY <1>1, AttemptIs, BoundsAssumption DEF Preparing, IsNew, Abandoned
<1> QED
  BY <1>1, <1>2, <1>3, <1>4, OutletFirst DEF Preparing

LEMMA PrepareEndsStep ==
  ASSUME IInv, TypeOK', NEW w \in Waits, PrepareEnds(w)
  PROVE  IInv'
<1>1. Preparing(w) /\ Plan(w) \in {"error", "skipped"} /\ Prepared(w, Plan(w), "none")
      /\ Go(w, "check") /\ UNCHANGED <<exec, row, park>>
  BY DEF PrepareEnds
<1>2. /\ body.at = "running" /\ Active(w)
      /\ w \in Canceled => att[w] = <<>>
  BY <1>1, NewAttempt
<1>3. ~IsClaimWake("none") /\ "none" \in Wakes
  BY DEF IsClaimWake, ClaimKinds, Wakes
<1>4. Plan(w) \in {"parked", "error", "skipped"} /\ Plan(w) # "parked"
  BY <1>1
<1> HIDE DEF Plan
<1> QED
  BY <1>1, <1>2, <1>3, <1>4, PreparedStep

(* A park written, or found: the row stands and waits for the pass.        *)
LEMMA WroteStep ==
  ASSUME IInv, TypeOK', NEW w \in Waits, Preparing(w), Admits(w),
         exec.version = body.version, Go(w, "wrote"),
         UNCHANGED <<row, att, answer>>,
         NEW status \in InFlight, exec' = [exec EXCEPT !.status = status],
         \A x \in Waits \ {w} : park'[x] = park[x],
         \/ park'[w] = park[w] /\ park[w].status # "absent"
         \/ /\ park'[w] = Parked(w)
            /\ att[w] = <<>> \/ OpenPark(park[w])
  PROVE  IInv'
<1>1. /\ Local(w) /\ body.at = "running" /\ Active(w)
      /\ AllLeft(w) /\ Len(att[w]) < WAIT_ATTEMPT_LIMIT
      /\ w \in Canceled => att[w] = <<>>
  BY NewAttempt
<1>2. /\ body'.at = body.at /\ body'.version = body.version
      /\ body'.entered = body.entered
      /\ body'.stage[w] = "wrote" /\ body'.wake[w] = body.wake[w]
      /\ body' = [body EXCEPT !.stage[w] = "wrote", !.wake[w] = body.wake[w]]
  BY Gone DEF Stages
<1>3. /\ exec'.version = exec.version /\ exec'.claim = exec.claim
      /\ exec'.status = status /\ exec'.workflow = exec.workflow
      /\ exec.status \notin Verdicts
  BY <1>1, Running, Shapes DEF IInv, Execs
<1>4. park'[w] = Parked(w) => park'[w].status = "waiting" /\ park'[w].wake = "none"
  BY DEF Parked
<1>5. ParkOf(w)'
  BY <1>1, <1>4 DEF Local, ParkOf, ParkSound, AttemptSound, OpenPark
<1>6. StageOf(w)'
  <2>1. AllLeft(w)'
    BY <1>1, <1>2 DEF AllLeft, Superseded
  <2> QED
    BY <1>1, <1>2, <1>4, <2>1 DEF Local, StageOf
<1>7. ClaimedBy(w)'
  BY <1>1, <1>2, <1>3, <1>4 DEF Local, ClaimedBy, IsClaimWake, ClaimKinds
<1>8. Pinned(w)'
  BY <1>2 DEF Pinned
<1>9. w \in Canceled => OutletOf(w)'
  <2> SUFFICES ASSUME w \in Canceled PROVE OutletOf(w)'
    OBVIOUS
  <2>1. att'[w] = <<>> /\ Len(att'[w]) = 0 /\ body'.entered
    BY <1>1, <1>2 DEF Local, OutletOf, Active
  <2>2. park'[w].wake # "migrate"
    BY <1>1, <1>4 DEF Local, OutletOf
  <2>3. exec'.status # "canceled"
    BY <1>3 DEF InFlight
  <2> QED
    BY <1>2, <1>3, <2>1, <2>2, <2>3 DEF OutletOf
<1>10. park'[w].status = "waiting" => ClaimAdmits(exec'.claim, Side(w)')
  BY <1>3 DEF Admits, Side
<1>11. \A k \in DOMAIN att'[w] :
         /\ att'[w][k].resume = "timeout"
         /\ Mode[w][att'[w][k].ver] = "event"
         => park'[w].wake # "resume" \/ park'[w].status = "cancelled"
  BY <1>1, <1>4 DEF Local
<1>12. Local(w)'
  BY <1>5, <1>6, <1>7, <1>8, <1>9, <1>10, <1>11 DEF Local
<1>13. "wrote" \in Stages \ {"out"} /\ body.wake[w] \in Wakes
  BY Running DEF Stages
<1> QED
  BY <1>1, <1>2, <1>12, <1>13, LocalStep

(* A park refused: nothing is written.                                     *)
LEMMA NotWrittenStep ==
  ASSUME IInv, TypeOK', NEW w \in Waits, Preparing(w), Go(w, "refused"),
         UNCHANGED <<exec, row, park, att, answer>>
  PROVE  IInv'
<1>1. /\ Local(w) /\ body.at = "running" /\ Active(w)
      /\ AllLeft(w) /\ Len(att[w]) < WAIT_ATTEMPT_LIMIT
      /\ w \in Canceled => att[w] = <<>>
  BY NewAttempt
<1>2. /\ body'.at = body.at /\ body'.version = body.version
      /\ body'.entered = body.entered
      /\ body'.stage[w] = "refused" /\ body'.wake[w] = body.wake[w]
      /\ body' = [body EXCEPT !.stage[w] = "refused", !.wake[w] = body.wake[w]]
  BY Gone DEF Stages
<1>3. AllLeft(w)'
  BY <1>1, <1>2 DEF AllLeft, Superseded
<1>4. StageOf(w)'
  BY <1>1, <1>2, <1>3 DEF Local, StageOf
<1>5. Pinned(w)'
  BY <1>2 DEF Pinned
<1>6. w \in Canceled => OutletOf(w)'
  <2>1. exec.status # "canceled"
    BY <1>1, Running DEF InFlight
  <2> QED
    BY <1>1, <1>2, <2>1 DEF Local, OutletOf, Active
<1>7. /\ "refused" \in Stages \ {"out"} /\ body.wake[w] \in Wakes
      /\ exec.status \in InFlight /\ exec' = [exec EXCEPT !.status = exec.status]
      /\ IsClaimWake(body.wake[w]) => exec.claim # "none"
  BY <1>1, Running DEF Stages
<1> QED
  BY <1>1, <1>2, <1>4, <1>5, <1>6, <1>7, StageStep

LEMMA StartWaitStep ==
  ASSUME IInv, TypeOK', NEW w \in Waits, StartWait(w)
  PROVE  IInv'
<1>1. Preparing(w) /\ Attempt(w) = 1 /\ att[w] = <<>> /\ UNCHANGED <<row, att, answer>>
  BY NewAttempt DEF StartWait, ToPark
<1>2. CASE exec.status \in InFlight /\ Admits(w) /\ exec.version = body.version
  <2>1. exec' = [exec EXCEPT !.status = "waiting"] /\ Go(w, "wrote")
        /\ park' = IF park[w].status \in {"absent", "waiting"}
                           THEN [park EXCEPT ![w] = Parked(w)]
                           ELSE park
    BY <1>2 DEF StartWait
  <2>2. park \in [Waits -> Parks]
    BY Shapes DEF IInv
  <2>3. /\ \A x \in Waits \ {w} : park'[x] = park[x]
        /\ \/ park'[w] = park[w] /\ park[w].status # "absent"
           \/ park'[w] = Parked(w)
    BY <2>1, <2>2
  <2>4. "waiting" \in InFlight
    BY DEF InFlight
  <2> QED
    BY <1>1, <1>2, <2>1, <2>3, <2>4, WroteStep
<1>3. CASE ~(exec.status \in InFlight /\ Admits(w) /\ exec.version = body.version)
  BY <1>1, <1>3, NotWrittenStep DEF StartWait
<1> QED
  BY <1>2, <1>3

LEMMA ReparkWaitStep ==
  ASSUME IInv, TypeOK', NEW w \in Waits, ReparkWait(w)
  PROVE  IInv'
<1>1. Preparing(w) /\ body.at = "running"
  BY DEF ReparkWait, ToPark, Preparing, At
<1>2. CASE ReparkablePark(park[w]) /\ exec.version # body.version
  BY <1>1, <1>2, RefusedStep DEF ReparkWait
<1>3. CASE ReparkablePark(park[w]) /\ exec.version = body.version /\ Admits(w)
  <2>1. park' = [park EXCEPT ![w] = Parked(w)] /\ Go(w, "wrote")
        /\ UNCHANGED <<exec, row, att, answer>>
    BY <1>3 DEF ReparkWait
  <2>2. park \in [Waits -> Parks]
    BY Shapes DEF IInv
  <2>3. OpenPark(park[w])
    BY <1>3 DEF ReparkablePark, OpenPark
  <2>4. exec.status \in InFlight /\ exec' = [exec EXCEPT !.status = exec.status]
    BY <1>1, <2>1, Running
  <2>5. park'[w] = Parked(w) /\ \A x \in Waits \ {w} : park'[x] = park[x]
    BY <2>1, <2>2
  <2> QED
    BY <1>1, <1>3, <2>1, <2>3, <2>4, <2>5, WroteStep
<1>4. CASE ~ReparkablePark(park[w]) \/ (exec.version = body.version /\ ~Admits(w))
  BY <1>1, <1>4, NotWrittenStep DEF ReparkWait
<1> QED
  BY <1>2, <1>3, <1>4

(* A claim's wake is on the row only once the run is claimed.              *)
LEMMA MissedClaim ==
  ASSUME IInv, NEW w \in Waits, body.at = "running", Len(att[w]) < WAIT_ATTEMPT_LIMIT
  PROVE  /\ IsClaimWake(MissedWake(w)) => exec.claim # "none"
         /\ IsClaimWake(ClaimWake(w)) => exec.claim # "none"
         /\ ClaimWake(w) # "none" => IsClaimWake(ClaimWake(w))
         /\ MissedWake(w) \in Wakes /\ ClaimWake(w) \in Wakes
         /\ MissedWake(w) # "migrate" /\ ClaimWake(w) # "migrate"
<1>1. ClaimedBy(w) /\ TypeOK /\ exec \in Execs
  BY Shapes DEF IInv, Local
<1>2. exec.status \notin Verdicts
  BY Running
<1>3. Len(att[w]) \in Nat /\ WAIT_ATTEMPT_LIMIT \in Nat
  BY <1>1, AttemptIs, BoundsAssumption
<1>4. IsClaimWake(MissedWake(w)) => exec.claim # "none"
  BY <1>1, <1>2, <1>3 DEF ClaimedBy, MissedWake, IsClaimWake, ClaimKinds
<1>5. /\ IsClaimWake(ClaimWake(w)) => exec.claim # "none"
      /\ ClaimWake(w) # "none" => IsClaimWake(ClaimWake(w))
  BY <1>1 DEF ClaimWake, IsClaimWake, ClaimKinds, Execs
<1> QED
  BY <1>1, <1>4, <1>5, MissedIsWake

LEMMA PrepareParksStep ==
  ASSUME IInv, TypeOK', NEW w \in Waits, PrepareParks(w)
  PROVE  IInv'
<1>1. /\ body.at = "running" /\ body.stage[w] = "wrote" /\ Active(w) /\ Local(w)
      /\ Go(w, "drive") /\ UNCHANGED <<exec, row, park>>
  BY DEF PrepareParks, At, Active, IInv
<1>2. Len(att[w]) < WAIT_ATTEMPT_LIMIT /\ park[w].status # "absent"
  BY <1>1 DEF Local, StageOf
<1>3. PICK woke \in {MissedWake(w), "timeout", "none"} : Prepared(w, "parked", woke)
  BY DEF PrepareParks
<1>4. woke \in Wakes /\ woke # "migrate" /\ (IsClaimWake(woke) => exec.claim # "none")
  <2>1. CASE woke = MissedWake(w)
    BY <1>1, <1>2, <2>1, MissedClaim
  <2>2. CASE woke \in {"timeout", "none"}
    BY <2>2 DEF Wakes, IsClaimWake, ClaimKinds
  <2> QED
    BY <2>1, <2>2
<1>5. w \in Canceled => att[w] = <<>> /\ body.version = exec.version
  BY <1>1 DEF Local, OutletOf
<1> QED
  BY <1>1, <1>2, <1>3, <1>4, <1>5, PreparedStep

LEMMA PrepareRefusedStep ==
  ASSUME IInv, TypeOK', NEW w \in Waits, PrepareRefused(w)
  PROVE  IInv'
<1>1. /\ body.at = "running" /\ body.stage[w] = "refused" /\ Active(w) /\ Local(w)
      /\ AllLeft(w) /\ Len(att[w]) < WAIT_ATTEMPT_LIMIT
      /\ w \in Canceled => att[w] = <<>>
  BY DEF PrepareRefused, At, Active, IInv, Local, StageOf, OutletOf
<1>2. PICK wake \in {MissedWake(w), ClaimWake(w)} :
         \/ VersionRefused
         \/ /\ Prepared(w, "skipped", "none") /\ Go(w, "check")
            /\ UNCHANGED <<exec, row, park>>
         \/ /\ Prepared(w, "error", "none") /\ Go(w, "check")
            /\ UNCHANGED <<exec, row, park>>
         \/ /\ Attempt(w) # 1 /\ Prepared(w, "parked", wake) /\ Go(w, "drive")
            /\ UNCHANGED <<exec, row, park>>
  BY DEF PrepareRefused
<1>3. CASE VersionRefused
  BY <1>1, <1>3, RefusedStep
<1>4. CASE /\ \/ Prepared(w, "skipped", "none") \/ Prepared(w, "error", "none")
           /\ Go(w, "check") /\ UNCHANGED <<exec, row, park>>
  <2>1. ~IsClaimWake("none") /\ "none" \in Wakes
    BY DEF IsClaimWake, ClaimKinds, Wakes
  <2> QED
    BY <1>1, <1>4, <2>1, PreparedStep
<1>5. CASE /\ Attempt(w) # 1 /\ Prepared(w, "parked", wake) /\ Go(w, "drive")
           /\ UNCHANGED <<exec, row, park>>
  <2>1. att[w] # <<>> /\ Superseded(att[w][1]) /\ 1 \in DOMAIN att[w]
    BY <1>5, AttemptFound, AttemptIs DEF IInv
  <2>2. park[w].status # "absent"
    BY <1>1, <2>1 DEF Local, ParkOf, Superseded
  <2>3. wake \in Wakes /\ (IsClaimWake(wake) => exec.claim # "none")
    BY <1>1, <1>2, MissedClaim
  <2>4. w \notin Canceled
    BY <1>1, <2>1
  <2> QED
    BY <1>1, <1>5, <2>2, <2>3, <2>4, PreparedStep
<1> QED
  BY <1>2, <1>3, <1>4, <1>5

(* The attempt a driven Wait stands at is memoized.                        *)
LEMMA DrivenAttempt ==
  ASSUME IInv, NEW w \in Waits, Driving(w)
  PROVE  /\ Local(w) /\ body.at = "running" /\ body.stage[w] = "drive" /\ Active(w)
         /\ Attempt(w) \in DOMAIN att[w] /\ StopsAt(w, Attempt(w))
         /\ att[w][Attempt(w)] \in Attempts /\ AttemptSound(att[w][Attempt(w)])
         /\ Len(att[w]) \in Nat /\ DOMAIN att[w] = 1 .. Len(att[w])
         /\ w \in Canceled => Attempt(w) = 1
<1>1. TypeOK /\ Local(w)
  BY DEF IInv
<1>2. body.at = "running" /\ body.stage[w] = "drive" /\ Active(w)
  BY DEF Driving, At, Active
<1>3. StopsAt(w, Attempt(w)) /\ Attempt(w) \in DOMAIN att[w]
  BY <1>1, AttemptFound DEF Driving, StopsAt
<1>4. att[w] \in Seq(Attempts)
  BY <1>1, Shapes
<1>5. att[w][Attempt(w)] \in Attempts
  BY <1>3, <1>4
<1>6. AttemptSound(att[w][Attempt(w)])
  BY <1>1, <1>3 DEF Local, ParkOf
<1>7. Len(att[w]) \in Nat /\ DOMAIN att[w] = 1 .. Len(att[w])
  BY <1>4
<1> QED
  BY <1>1, <1>2, <1>3, <1>5, <1>6, <1>7, OutletFirst

(* The memo of an attempt rewritten.                                       *)
LEMMA Rewritten ==
  ASSUME IInv, NEW w \in Waits, NEW k \in DOMAIN att[w], NEW a,
         att' = [att EXCEPT ![w] = [att[w] EXCEPT ![k] = a]]
  PROVE  /\ \A x \in Waits \ {w} : att'[x] = att[x]
         /\ DOMAIN att'[w] = DOMAIN att[w] /\ Len(att'[w]) = Len(att[w])
         /\ att'[w][k] = a
         /\ \A j \in DOMAIN att[w] : j # k => att'[w][j] = att[w][j]
         /\ att[w] # <<>> /\ att'[w] # <<>>
<1>1. att \in [Waits -> Seq(Attempts)] /\ att[w] \in Seq(Attempts)
  BY Shapes DEF IInv
<1>2. att'[w] = [att[w] EXCEPT ![k] = a] /\ \A x \in Waits \ {w} : att'[x] = att[x]
  BY <1>1
<1>3. DOMAIN att'[w] = DOMAIN att[w]
  BY <1>2
<1>4. Len(att[w]) \in Nat /\ DOMAIN att[w] = 1 .. Len(att[w])
  BY <1>1
<1>5. Len(att'[w]) = Len(att[w])
  <2>1. att'[w] \in Seq(Attempts \cup {a})
    BY <1>1, <1>2
  <2>2. Len(att'[w]) \in Nat /\ DOMAIN att'[w] = 1 .. Len(att'[w])
    BY <2>1
  <2> QED
    BY <1>3, <1>4, <2>2
<1>6. att[w] # <<>> /\ att'[w] # <<>>
  BY <1>3
<1> QED
  BY <1>2, <1>3, <1>5, <1>6

LEMMA WaitForEventStep ==
  ASSUME IInv, TypeOK', NEW w \in Waits, WaitForEvent(w)
  PROVE  IInv'
<1> DEFINE k == Attempt(w)
           a == [att[w][k] EXCEPT !.woke = park[w].wake]
<1>1. /\ Local(w) /\ body.at = "running" /\ body.stage[w] = "drive" /\ Active(w)
      /\ k \in DOMAIN att[w] /\ att[w][k] \in Attempts /\ AttemptSound(att[w][k])
      /\ w \in Canceled => k = 1
      /\ att[w][k].prep = "parked" /\ att[w][k].woke = "none"
      /\ UNCHANGED <<exec, row, park, answer>>
  BY DrivenAttempt DEF WaitForEvent, Current
<1>2. /\ body.wake[w] \in Wakes /\ exec = [exec EXCEPT !.status = exec.status]
      /\ exec.status \in InFlight /\ exec.status \notin Verdicts
      /\ IsClaimWake(body.wake[w]) => exec.claim # "none"
  BY <1>1, Running
<1>3. CASE park[w].wake # "none"
  <2>1. /\ att' = [att EXCEPT ![w] = [att[w] EXCEPT ![k] = a]]
        /\ UNCHANGED body
    BY <1>3, Shapes DEF WaitForEvent, IInv
  <2>2. /\ a.prep = "parked" /\ a.woke = park[w].wake /\ a.resume = att[w][k].resume
        /\ a.ver = att[w][k].ver /\ a.resume = "none"
    BY <1>1 DEF Attempts, AttemptSound
  <2> HIDE DEF a, k
  <2>3. /\ \A x \in Waits \ {w} : att'[x] = att[x]
        /\ DOMAIN att'[w] = DOMAIN att[w] /\ Len(att'[w]) = Len(att[w])
        /\ att'[w][k] = a
        /\ \A j \in DOMAIN att[w] : j # k => att'[w][j] = att[w][j]
        /\ att[w] # <<>> /\ att'[w] # <<>>
    BY <1>1, <2>1, Rewritten
  <2>4. ParkOf(w)'
    <3>1. ParkSound(park'[w])
      BY <1>1 DEF Local, ParkOf
    <3>2. ASSUME NEW j \in DOMAIN att'[w]
          PROVE  /\ AttemptSound(att'[w][j])
                 /\ att'[w][j].prep = "parked" => park'[w].status # "absent"
                 /\ att'[w][j].resume # "none" => ~OpenPark(park'[w])
      BY <1>1, <2>2, <2>3 DEF Local, ParkOf, AttemptSound
    <3> QED
      BY <3>1, <3>2 DEF ParkOf, ParkSound, AttemptSound
  <2>5. StageOf(w)' /\ Pinned(w)'
    BY <1>1, <2>1 DEF Local, StageOf, Pinned
  <2>6. ClaimedBy(w)'
    BY <1>1, <2>1, <2>2, <2>3 DEF Local, ClaimedBy, IsClaimWake
  <2>7. w \in Canceled => OutletOf(w)'
    <3>1. exec.status # "canceled"
      BY <1>2 DEF InFlight
    <3> QED
      BY <1>1, <2>1, <2>2, <2>3, <3>1 DEF Local, OutletOf
  <2>8. \A j \in DOMAIN att'[w] :
         /\ att'[w][j].resume = "timeout"
         /\ Mode[w][att'[w][j].ver] = "event"
         => park'[w].wake # "resume" \/ park'[w].status = "cancelled"
    BY <1>1, <2>2, <2>3 DEF Local
  <2>9. Local(w)'
    BY <1>1, <2>4, <2>5, <2>6, <2>7, <2>8 DEF Local, Side
  <2>10. body' = [body EXCEPT !.stage[w] = "drive", !.wake[w] = body.wake[w]]
    BY <1>1, <2>1, Shapes DEF IInv, Bodies
  <2>11. "drive" \in Stages \ {"out"}
    BY DEF Stages
  <2> QED
    BY <1>1, <1>2, <2>3, <2>9, <2>10, <2>11, LocalStep
<1>4. CASE park[w].wake = "none"
  <2>1. Go(w, "parked") /\ UNCHANGED att
    BY <1>4 DEF WaitForEvent
  <2>2. "parked" \in Stages \ {"out"}
    BY DEF Stages
  <2>3. /\ body'.at = body.at /\ body'.version = body.version
        /\ body'.entered = body.entered
        /\ body'.stage[w] = "parked" /\ body'.wake[w] = body.wake[w]
        /\ body' = [body EXCEPT !.stage[w] = "parked", !.wake[w] = body.wake[w]]
    BY <2>1, <2>2, Gone
  <2>4. StageOf(w)' /\ Pinned(w)'
    BY <1>1, <2>3 DEF Local, StageOf, Pinned
  <2>5. w \in Canceled => OutletOf(w)'
    <3>1. exec.status # "canceled"
      BY <1>2 DEF InFlight
    <3> QED
      BY <1>1, <2>1, <2>3, <3>1 DEF Local, OutletOf
  <2> HIDE DEF k, a
  <2> QED
    BY <1>1, <1>2, <2>1, <2>2, <2>3, <2>4, <2>5, StageStep
<1> QED
  BY <1>3, <1>4

LEMMA ResumeFenceStep ==
  ASSUME IInv, TypeOK', NEW w \in Waits, ResumeFence(w)
  PROVE  IInv'
<1>0. PICK k : k = Attempt(w)
  OBVIOUS
<1>1. /\ Local(w) /\ body.at = "running" /\ body.stage[w] = "drive" /\ Active(w)
      /\ k \in DOMAIN att[w] /\ StopsAt(w, k)
      /\ att[w][k] \in Attempts /\ AttemptSound(att[w][k])
      /\ att[w][k].woke # "none" /\ att[w][k].resume = "none"
      /\ UNCHANGED <<row, park, att, answer>>
  BY <1>0, DrivenAttempt DEF ResumeFence, Resuming, Current
<1> DEFINE woke == att[w][k].woke
<1>2. /\ body.wake[w] \in Wakes /\ exec = [exec EXCEPT !.status = exec.status]
      /\ exec.status \in InFlight /\ exec.status \notin Verdicts
      /\ IsClaimWake(body.wake[w]) => exec.claim # "none"
  BY <1>1, Running
<1>3. woke \in Wakes /\ woke # "none" /\ woke # "migrate"
  BY <1>1 DEF AttemptSound, StopsAt, Superseded, Attempts
<1>4. IsClaimWake(woke) => exec.claim # "none"
  BY <1>1 DEF Local, ClaimedBy
<1>5. exec.status # "canceled" /\ "running" \in InFlight
  BY <1>2 DEF InFlight
<1>6. ASSUME NEW s \in {"fenced", "unfenced"}, NEW wake \in Wakes, wake # "migrate",
             GoWith(w, s, wake), s = "fenced" => wake # "none",
             IsClaimWake(wake) => exec.claim # "none",
             NEW status \in InFlight, exec' = [exec EXCEPT !.status = status],
             s = "fenced" /\ ~IsClaimWake(wake) =>
                exec.version = body.version /\ status = "running"
      PROVE  IInv'
  <2>1. s \in Stages \ {"out"}
    BY DEF Stages
  <2>2. /\ body'.at = body.at /\ body'.version = body.version
        /\ body'.entered = body.entered
        /\ body'.stage[w] = s /\ body'.wake[w] = wake
        /\ body' = [body EXCEPT !.stage[w] = s, !.wake[w] = wake]
    <3>1. s \in Stages
      BY <2>1
    <3> QED
      BY <1>6, <3>1, GoneWith
  <2>3. exec'.version = exec.version /\ exec'.claim = exec.claim /\ exec'.status = status
        /\ exec'.workflow = exec.workflow
    BY <1>6, Shapes DEF IInv, Execs
  <2>4. StageOf(w)'
    <3>1. StopsAt(w, k)'
      BY <1>1, <2>2 DEF StopsAt, Superseded
    <3> QED
      BY <1>1, <1>6, <2>2, <3>1 DEF StageOf
  <2>5. Pinned(w)'
    BY <1>6, <2>2, <2>3 DEF Pinned
  <2>6. w \in Canceled => OutletOf(w)'
    <3>1. status # "canceled"
      BY DEF InFlight
    <3> QED
      BY <1>1, <1>6, <2>2, <2>3, <3>1 DEF Local, OutletOf
  <2> QED
    BY <1>1, <1>6, <2>1, <2>2, <2>4, <2>5, <2>6, StageStep
<1>7. \/ IsClaimWake(woke) /\ GoWith(w, "fenced", woke) /\ UNCHANGED exec
      \/ /\ exec.version = body.version /\ exec' = [exec EXCEPT !.status = "running"]
         /\ GoWith(w, "fenced", woke)
      \/ Go(w, "unfenced") /\ UNCHANGED exec
  BY <1>0 DEF ResumeFence, Current
<1> HIDE DEF woke
<1>8. CASE IsClaimWake(woke) /\ GoWith(w, "fenced", woke) /\ UNCHANGED exec
  BY <1>2, <1>3, <1>4, <1>6, <1>8
<1>9. CASE /\ exec.version = body.version /\ exec' = [exec EXCEPT !.status = "running"]
           /\ GoWith(w, "fenced", woke)
  BY <1>3, <1>4, <1>5, <1>6, <1>9
<1>10. CASE Go(w, "unfenced") /\ UNCHANGED exec
  <2>1. GoWith(w, "unfenced", body.wake[w])
    <3>1. "unfenced" \in Stages
      BY DEF Stages
    <3> QED
      BY <1>10, <3>1, Gone DEF GoWith
  <2>2. body.wake[w] # "migrate"
    BY <1>1 DEF Local, StageOf
  <2> QED
    BY <1>2, <1>6, <1>10, <2>1, <2>2
<1> QED
  BY <1>7, <1>8, <1>9, <1>10

LEMMA ResumeRefusedStep ==
  ASSUME IInv, TypeOK', NEW w \in Waits, ResumeRefused(w)
  PROVE  IInv'
<1>1. /\ Local(w) /\ body.at = "running" /\ body.stage[w] = "unfenced" /\ Active(w)
  BY DEF ResumeRefused, At, Active, IInv
<1>2. CASE ClaimWake(w) = "none"
  BY <1>1, <1>2, RefusedStep DEF ResumeRefused
<1>3. CASE ClaimWake(w) # "none"
  <2>1. GoWith(w, "fenced", ClaimWake(w)) /\ UNCHANGED <<exec, row, park, att, answer>>
    BY <1>3 DEF ResumeRefused
  <2>2. /\ IsClaimWake(ClaimWake(w)) /\ exec.claim # "none" /\ ClaimWake(w) \in Wakes
        /\ ClaimWake(w) # "migrate"
    BY <1>3, Shapes, MissedIsWake DEF IInv, Execs, ClaimWake, IsClaimWake, ClaimKinds
  <2>3. "fenced" \in Stages \ {"out"}
    BY DEF Stages
  <2>4. /\ body'.at = body.at /\ body'.version = body.version
        /\ body'.entered = body.entered
        /\ body'.stage[w] = "fenced" /\ body'.wake[w] = ClaimWake(w)
        /\ body' = [body EXCEPT !.stage[w] = "fenced", !.wake[w] = ClaimWake(w)]
    BY <2>1, <2>3, GoneWith
  <2>5. StageOf(w)'
    <3>1. PICK k \in DOMAIN att[w] :
            StopsAt(w, k) /\ att[w][k].woke # "none" /\ att[w][k].resume = "none"
      BY <1>1 DEF Local, StageOf
    <3>2. StopsAt(w, k)'
      BY <2>1, <2>4, <3>1 DEF StopsAt, Superseded
    <3> QED
      BY <1>3, <2>1, <2>2, <2>4, <3>1, <3>2 DEF StageOf
  <2>6. Pinned(w)'
    BY <2>2, <2>4 DEF Pinned
  <2>7. /\ exec.status \in InFlight /\ exec' = [exec EXCEPT !.status = exec.status]
        /\ exec.status # "canceled"
    BY <1>1, <2>1, Running DEF InFlight
  <2>8. w \in Canceled => OutletOf(w)'
    BY <1>1, <2>1, <2>4, <2>7 DEF Local, OutletOf
  <2> QED
    BY <1>1, <2>1, <2>2, <2>3, <2>4, <2>5, <2>6, <2>7, <2>8, StageStep
<1> QED
  BY <1>2, <1>3

LEMMA ResumeSettleStep ==
  ASSUME IInv, TypeOK', NEW w \in Waits, ResumeSettle(w)
  PROVE  IInv'
<1> DEFINE wake    == body.wake[w]
           timeout == wake = "timeout" /\ Mode[w][body.version] = "event"
           arrival == /\ park[w].wake = "resume"
                      /\ OpenPark(park[w]) \/ park[w].status = "resumed"
<1>1. /\ Local(w) /\ body.at = "running" /\ body.stage[w] = "fenced" /\ Active(w)
      /\ UNCHANGED <<exec, row, att, answer>>
  BY DEF ResumeSettle, At, Active, IInv
<1>2. PICK next \in {wake, "resume"} :
        /\ GoWith(w, "settled", next)
        /\ timeout /\ arrival => next = "resume"
        /\ ~(timeout /\ arrival) => next = wake
  BY DEF ResumeSettle
<1>3. PICK st \in {"cancelled", "timed_out", "resumed"} :
        /\ OpenPark(park[w]) => park' = [park EXCEPT ![w].status = st]
        /\ ~OpenPark(park[w]) => park' = park
        /\ st = "cancelled" => IsClaimWake(wake)
        /\ st = "timed_out" => timeout /\ ~arrival
        /\ timeout /\ arrival => st = "resumed"
  BY DEF ResumeSettle, IsClaimWake, ClaimKinds
<1>4. /\ \A x \in Waits \ {w} : park'[x] = park[x]
      /\ park'[w].wake = park[w].wake
      /\ OpenPark(park[w]) => park'[w].status = st
      /\ ~OpenPark(park[w]) => park'[w].status = park[w].status
  <2>1. park \in [Waits -> Parks]
    BY Shapes DEF IInv
  <2> QED
    BY <1>3, <2>1 DEF Parks
<1>5. /\ body'.at = body.at /\ body'.version = body.version
      /\ body'.entered = body.entered
      /\ body'.stage[w] = "settled" /\ body'.wake[w] = next
      /\ body' = [body EXCEPT !.stage[w] = "settled", !.wake[w] = next]
  BY <1>2, GoneWith DEF Stages
<1>6. /\ wake \in Wakes /\ exec' = [exec EXCEPT !.status = exec.status]
      /\ exec.status \in InFlight /\ exec.status # "canceled"
      /\ IsClaimWake(wake) => exec.claim # "none"
      /\ wake # "migrate" /\ wake # "none"
  BY <1>1, Running DEF Local, StageOf, InFlight
<1>7. /\ next \in Wakes /\ next # "none" /\ next # "migrate"
      /\ IsClaimWake(next) => IsClaimWake(wake)
      /\ IsClaimWake(wake) => IsClaimWake(next)
      /\ next = "timeout" => wake = "timeout"
  BY <1>2, <1>6 DEF Wakes, IsClaimWake, ClaimKinds
<1>8. ParkOf(w)'
  BY <1>1, <1>3, <1>4 DEF Local, ParkOf, ParkSound, AttemptSound, OpenPark
<1>9. StageOf(w)'
  <2>1. PICK k \in DOMAIN att[w] :
          StopsAt(w, k) /\ att[w][k].woke # "none" /\ att[w][k].resume = "none"
    BY <1>1 DEF Local, StageOf
  <2>2. StopsAt(w, k)'
    BY <1>1, <1>5, <2>1 DEF StopsAt, Superseded
  <2>3. ~OpenPark(park'[w])
    BY <1>4 DEF OpenPark
  <2>4. ASSUME next = "timeout", Mode[w][body.version] = "event"
        PROVE  park'[w].wake # "resume" \/ park'[w].status = "cancelled"
    <3>1. timeout /\ ~arrival
      BY <1>2, <1>7, <2>4
    <3>2. CASE OpenPark(park[w])
      BY <1>4, <3>1, <3>2
    <3>3. CASE ~OpenPark(park[w])
      <4>1. park[w] \in Parks
        BY Shapes DEF IInv
      <4> QED
        BY <1>1, <1>4, <3>1, <3>3, <4>1 DEF Local, ParkOf, ParkSound, OpenPark, Parks
    <3> QED
      BY <3>2, <3>3
  <2> QED
    BY <1>1, <1>5, <1>7, <2>1, <2>2, <2>3, <2>4 DEF StageOf
<1>10. ClaimedBy(w)'
  BY <1>1, <1>3, <1>4, <1>5, <1>6, <1>7 DEF Local, ClaimedBy, IsClaimWake
<1>11. Pinned(w)'
  <2>1. \A x \in Beside(w) : x \in Waits /\ x # w
    BY DEF Beside
  <2>2. \A x \in Waits \ {w} : body'.stage[x] = body.stage[x]
    BY <1>5, Shapes DEF IInv, Bodies
  <2>3. Beside(w)' = Beside(w)
    BY <1>1 DEF Beside, Side, Above
  <2> QED
    BY <1>1, <1>5, <1>7, <2>1, <2>2, <2>3 DEF Local, Pinned
<1>12. w \in Canceled => OutletOf(w)'
  BY <1>1, <1>4, <1>5, <1>6 DEF Local, OutletOf
<1>13. \A j \in DOMAIN att'[w] :
         /\ att'[w][j].resume = "timeout"
         /\ Mode[w][att'[w][j].ver] = "event"
         => park'[w].wake # "resume" \/ park'[w].status = "cancelled"
  BY <1>1, <1>4 DEF Local, ParkOf
<1>14. Local(w)'
  BY <1>1, <1>4, <1>8, <1>9, <1>10, <1>11, <1>12, <1>13 DEF Local, Side, OpenPark
<1>15. "settled" \in Stages \ {"out"}
  BY DEF Stages
<1> HIDE DEF wake, timeout, arrival
<1> QED
  BY <1>1, <1>4, <1>5, <1>6, <1>7, <1>14, <1>15, LocalStep

LEMMA ResumeEndsStep ==
  ASSUME IInv, TypeOK', NEW w \in Waits, ResumeEnds(w)
  PROVE  IInv'
<1>1. /\ Local(w) /\ body.at = "running" /\ body.stage[w] = "settled" /\ Active(w)
      /\ Go(w, "check") /\ UNCHANGED <<exec, row, park, answer>>
  BY DEF ResumeEnds, At, Active, IInv
<1>2. PICK k \in DOMAIN att[w] :
        StopsAt(w, k) /\ att[w][k].woke # "none" /\ att[w][k].resume = "none"
  BY <1>1 DEF Local, StageOf
<1>3. Attempt(w) = k /\ att[w] \in Seq(Attempts) /\ att \in [Waits -> Seq(Attempts)]
  BY <1>2, AttemptFound, Shapes DEF IInv
<1>4. PICK a : a = [att[w][k] EXCEPT !.resume = body.wake[w]]
  OBVIOUS
<1>5. att' = [att EXCEPT ![w] = [att[w] EXCEPT ![k] = a]]
  BY <1>3, <1>4 DEF ResumeEnds
<1>6. /\ \A x \in Waits \ {w} : att'[x] = att[x]
      /\ DOMAIN att'[w] = DOMAIN att[w] /\ Len(att'[w]) = Len(att[w])
      /\ att'[w][k] = a
      /\ \A j \in DOMAIN att[w] : j # k => att'[w][j] = att[w][j]
      /\ att[w] # <<>> /\ att'[w] # <<>>
  BY <1>5, Rewritten
<1>7. /\ a.prep = att[w][k].prep /\ a.woke = att[w][k].woke /\ a.ver = att[w][k].ver
      /\ a.resume = body.wake[w]
      /\ a.prep = "parked" /\ a.ver = body.version
  <2>1. att[w][k] \in Attempts /\ AttemptSound(att[w][k]) /\ ~Superseded(att[w][k])
    BY <1>1, <1>2, <1>3 DEF Local, ParkOf, StopsAt
  <2> QED
    BY <1>2, <1>4, <2>1 DEF Attempts, AttemptSound, Superseded
<1>8. /\ body'.at = body.at /\ body'.version = body.version
      /\ body'.entered = body.entered
      /\ body'.stage[w] = "check" /\ body'.wake[w] = body.wake[w]
      /\ body' = [body EXCEPT !.stage[w] = "check", !.wake[w] = body.wake[w]]
  BY <1>1, Gone DEF Stages
<1>9. /\ body.wake[w] \in Wakes /\ exec' = [exec EXCEPT !.status = exec.status]
      /\ exec.status \in InFlight /\ exec.status # "canceled"
  BY <1>1, Running DEF InFlight
<1>10. ParkOf(w)'
  <2>1. ParkSound(park'[w])
    BY <1>1 DEF Local, ParkOf
  <2>2. ASSUME NEW j \in DOMAIN att'[w]
        PROVE  /\ AttemptSound(att'[w][j])
               /\ att'[w][j].prep = "parked" => park'[w].status # "absent"
               /\ att'[w][j].resume # "none" => ~OpenPark(park'[w])
    BY <1>1, <1>2, <1>6, <1>7 DEF Local, ParkOf, StageOf, AttemptSound
  <2> QED
    BY <2>1, <2>2 DEF ParkOf, ParkSound, AttemptSound
<1>11. StageOf(w)' /\ Pinned(w)'
  BY <1>1, <1>8 DEF Local, StageOf, Pinned
<1>12. ClaimedBy(w)'
  BY <1>1, <1>6, <1>7, <1>8 DEF Local, ClaimedBy, IsClaimWake
<1>13. w \in Canceled => OutletOf(w)'
  <2> SUFFICES ASSUME w \in Canceled PROVE OutletOf(w)'
    OBVIOUS
  <2>1. k = 1
    BY <1>1, <1>3, OutletFirst
  <2>2. body.wake[w] # "none"
    BY <1>1 DEF Local, StageOf
  <2> QED
    BY <1>1, <1>6, <1>7, <1>8, <1>9, <2>1, <2>2 DEF Local, OutletOf
<1>14. \A j \in DOMAIN att'[w] :
         /\ att'[w][j].resume = "timeout"
         /\ Mode[w][att'[w][j].ver] = "event"
         => park'[w].wake # "resume" \/ park'[w].status = "cancelled"
  BY <1>1, <1>6, <1>7 DEF Local, StageOf
<1>15. Local(w)'
  BY <1>1, <1>10, <1>11, <1>12, <1>13, <1>14 DEF Local, Side
<1>16. "check" \in Stages \ {"out"}
  BY DEF Stages
<1> QED
  BY <1>1, <1>6, <1>8, <1>9, <1>15, <1>16, LocalStep

LEMMA AbandonWaitStep ==
  ASSUME IInv, TypeOK', NEW w \in Waits, AbandonWait(w)
  PROVE  IInv'
<1>1. /\ Local(w) /\ body.at = "running" /\ body.stage[w] = "drive" /\ Active(w)
      /\ Go(w, "check") /\ UNCHANGED <<exec, row, att, answer>>
      /\ Abandoned(w)
  BY DEF AbandonWait, At, Active, IInv
<1>2. /\ \A x \in Waits \ {w} : park'[x] = park[x]
      /\ park'[w].wake = park[w].wake
      /\ OpenPark(park[w]) => park'[w].status = "cancelled"
      /\ ~OpenPark(park[w]) => park'[w].status = park[w].status
  <2>1. park \in [Waits -> Parks]
    BY Shapes DEF IInv
  <2> QED
    BY <2>1 DEF Parks, AbandonWait
<1>3. Len(att[w]) >= WAIT_ATTEMPT_LIMIT
  BY <1>1, AttemptIs, BoundsAssumption DEF Abandoned, IInv
<1>4. w \notin Canceled
  BY <1>1, OutletFirst, BoundsAssumption DEF Abandoned
<1>5. /\ body'.at = body.at /\ body'.version = body.version
      /\ body'.stage[w] = "check" /\ body'.wake[w] = body.wake[w]
      /\ body' = [body EXCEPT !.stage[w] = "check", !.wake[w] = body.wake[w]]
  BY <1>1, Gone DEF Stages
<1>6. /\ body.wake[w] \in Wakes /\ exec' = [exec EXCEPT !.status = exec.status]
      /\ exec.status \in InFlight
  BY <1>1, Running
<1>7. ParkOf(w)'
  BY <1>1, <1>2 DEF Local, ParkOf, ParkSound, AttemptSound, OpenPark
<1>8. StageOf(w)' /\ Pinned(w)'
  BY <1>1, <1>5 DEF Local, StageOf, Pinned
<1>9. ClaimedBy(w)'
  BY <1>1, <1>2, <1>3, <1>5 DEF Local, ClaimedBy, IsClaimWake
<1>10. Local(w)'
  BY <1>1, <1>2, <1>4, <1>7, <1>8, <1>9 DEF Local, Side, OpenPark
<1>11. "check" \in Stages \ {"out"}
  BY DEF Stages
<1> QED
  BY <1>1, <1>2, <1>5, <1>6, <1>10, <1>11, LocalStep

LEMMA ReplayedStep ==
  ASSUME IInv, TypeOK', NEW w \in Waits, Replayed(w)
  PROVE  IInv'
<1>1. /\ Driving(w) /\ Go(w, "check") /\ Outcome(w) # "open"
      /\ UNCHANGED <<exec, row, park, att, answer>>
  BY DEF Replayed
<1>2. /\ Local(w) /\ body.at = "running" /\ Active(w)
      /\ Attempt(w) \in DOMAIN att[w] /\ AttemptSound(att[w][Attempt(w)])
      /\ w \in Canceled => Attempt(w) = 1
  BY <1>1, DrivenAttempt
<1>3. /\ body'.at = body.at /\ body'.version = body.version
      /\ body'.entered = body.entered
      /\ body'.stage[w] = "check" /\ body'.wake[w] = body.wake[w]
      /\ body' = [body EXCEPT !.stage[w] = "check", !.wake[w] = body.wake[w]]
  BY <1>1, Gone DEF Stages
<1>4. /\ body.wake[w] \in Wakes /\ exec' = [exec EXCEPT !.status = exec.status]
      /\ exec.status \in InFlight /\ exec.status # "canceled"
      /\ IsClaimWake(body.wake[w]) => exec.claim # "none"
  BY <1>1, <1>2, Running DEF InFlight
<1>5. StageOf(w)' /\ Pinned(w)'
  BY <1>2, <1>3 DEF Local, StageOf, Pinned
<1>6. w \in Canceled => OutletOf(w)'
  <2> SUFFICES ASSUME w \in Canceled PROVE OutletOf(w)'
    OBVIOUS
  <2>1. att[w] # <<>>
    BY <1>2
  <2>2. att[w][1].prep = "parked" => att[w][1].resume # "none"
    BY <1>1, <1>2 DEF Outcome, Driving, Current, IsClaimWake, ClaimKinds
  <2> QED
    BY <1>1, <1>2, <1>3, <1>4, <2>1, <2>2 DEF Local, OutletOf, Active
<1>7. "check" \in Stages \ {"out"}
  BY DEF Stages
<1> QED
  BY <1>1, <1>2, <1>3, <1>4, <1>5, <1>6, <1>7, StageStep

(* A boundary read, and the nodes below w.                                 *)
LEMMA CheckStep ==
  ASSUME IInv, TypeOK', NEW w \in Waits, Check(w)
  PROVE  IInv'
<1>1. /\ Local(w) /\ body.at = "running" /\ body.stage[w] = "check" /\ Active(w)
      /\ UNCHANGED <<exec, row, park, att>>
      /\ body \in Bodies /\ answer \in Answers
  BY Shapes DEF Check, At, Active, IInv
<1>2. PICK found \in {"none", "cancel"}, entered \in BOOLEAN, goesOn \in BOOLEAN :
        /\ answer' = IF w \in Canceled THEN answer
                        ELSE [answer EXCEPT !.check[w] = found]
        /\ body' = [body EXCEPT !.stage[w] = "done",
                         !.entered = @ \/ entered,
                         !.released = IF goesOn THEN @ \cup {w} ELSE @]
        /\ w \notin Canceled /\ found = "cancel" => exec.claim = "cancel"
        /\ entered => exec.claim = "cancel"
  <2> DEFINE found == IF w \in Canceled THEN "none"
                    ELSE IF answer.check[w] # "unread" THEN answer.check[w]
                    ELSE IF exec.claim = "cancel" THEN "cancel" ELSE "none"
             entered == w \notin Canceled /\ (body.entered \/ found = "cancel")
             admitted == w \in Gated => answer.admit[w] = "admitted"
             goesOn == ~entered /\ admitted /\ Outcome(w) = "continued"
  <2>1. found \in {"none", "cancel"} /\ (found = "cancel" => exec.claim = "cancel")
    BY <1>1 DEF IInv, CancelRead, Answers
  <2>2. entered => exec.claim = "cancel"
    BY <2>1 DEF IInv, CancelRead
  <2>3. entered \in BOOLEAN /\ goesOn \in BOOLEAN
    OBVIOUS
  <2>4. /\ answer' = IF w \in Canceled THEN answer
                        ELSE [answer EXCEPT !.check[w] = found]
        /\ body' = [body EXCEPT !.stage[w] = "done",
                         !.entered = @ \/ entered,
                         !.released = IF goesOn THEN @ \cup {w} ELSE @]
    BY DEF Check
  <2> HIDE DEF found, entered, goesOn
  <2> QED
    BY <2>1, <2>2, <2>3, <2>4
<1>3. /\ body'.at = body.at /\ body'.version = body.version
      /\ body'.entered = (body.entered \/ entered)
      /\ body.released \subseteq body'.released
      /\ body'.released \subseteq body.released \cup {w}
      /\ body'.stage[w] = "done" /\ body'.wake = body.wake
      /\ \A x \in Waits \ {w} : body'.stage[x] = body.stage[x]
  BY <1>1, <1>2 DEF Bodies
<1>4. answer'.final = answer.final
      /\ \A x \in Waits : answer'.check[x] = "cancel" =>
            answer.check[x] = "cancel" \/ exec.claim = "cancel"
  BY <1>1, <1>2 DEF Answers
<1>5. RowsHeld' /\ NoWakeSleptThrough'
  BY <1>1, <1>3 DEF IInv, RowsHeld, NoWakeSleptThrough
<1>6. CancelRead'
  BY <1>1, <1>2, <1>3, <1>4 DEF IInv, CancelRead
<1>7. RoundSound'
  <2>1. \A x \in Waits : Active(x)' => Active(x)
    BY <1>3 DEF Active
  <2>2. \A x \in Waits : Side(x)' = Side(x) /\ Above'[x] = Above[x]
    BY <1>1 DEF Side, Above
  <2>3. body.released \subseteq Waits
    BY <1>1 DEF Bodies
  <2> QED
    BY <1>3, <2>1, <2>2, <2>3 DEF IInv, RoundSound
<1>8. ASSUME NEW x \in Waits PROVE Local(x)'
  <2>1. Local(x)
    BY DEF IInv
  <2>2. body'.stage[x] = body.stage[x] \/ x = w
    BY <1>3
  <2>3. ParkOf(x)'
    BY <1>1, <2>1 DEF Local, ParkOf, ParkSound, AttemptSound
  <2>4. StageOf(x)'
    BY <1>1, <1>3, <2>1, <2>2 DEF Local, StageOf, AllLeft, StopsAt, Superseded
  <2>5. ClaimedBy(x)'
    BY <1>1, <1>3, <2>1 DEF Local, ClaimedBy, IsClaimWake
  <2>6. Pinned(x)'
    <3>1. \A y \in Waits : body'.stage[y] = "out" => body.stage[y] = "out"
      BY <1>3
    <3>2. Beside(x)' = Beside(x) /\ Beside(x) \subseteq Waits
      BY <1>1 DEF Beside, Side, Above
    <3> QED
      BY <1>1, <1>3, <2>1, <2>2, <3>1, <3>2 DEF Local, Pinned
  <2>7. x \in Canceled => OutletOf(x)'
    BY <1>1, <1>3, <2>1, <2>2 DEF Local, OutletOf, Above
  <2> QED
    BY <1>1, <2>1, <2>3, <2>4, <2>5, <2>6, <2>7 DEF Local, Side
<1> QED
  BY <1>5, <1>6, <1>7, <1>8 DEF IInv

-----------------------------------------------------------------------------
(* The producers                                                           *)

(* The parks of a run that are resolved by a wake.                         *)
LEMMA ResolvedParks ==
  ASSUME IInv, NEW wake \in Wakes, wake # "none", park' = Resolved(wake),
         NEW w \in Waits
  PROVE  /\ park[w].status = "waiting" =>
              park'[w].status = "resuming" /\ park'[w].wake = wake
         /\ park[w].status # "waiting" => park'[w] = park[w]
         /\ park'[w].status # "waiting"
<1>1. park \in [Waits -> Parks]
  BY Shapes DEF IInv
<1>2. park'[w] = IF park[w].status = "waiting"
          THEN [park[w] EXCEPT !.status = "resuming", !.wake = wake]
          ELSE park[w]
  BY DEF Resolved
<1> QED
  BY <1>1, <1>2 DEF Parks

(* A claim on an unclaimed run.  The row is left, or made due.             *)
LEMMA ClaimStep ==
  ASSUME IInv, TypeOK', exec.claim = "none", NEW kind \in ClaimKinds,
         exec' = [exec EXCEPT !.claim = kind], park' = Resolved(kind),
         \/ row' = row /\ body.at # "off"
         \/ row' = Requeued(row),
         UNCHANGED <<att, body>>,
         answer'.check = answer.check, answer'.final = answer.final
  PROVE  IInv'
<1>1. /\ exec \in Execs /\ row \in Rows
      /\ kind \in Wakes /\ kind \notin {"none", "migrate", "resume"}
  BY Shapes DEF IInv, ClaimKinds, Wakes
<1>2. /\ exec'.status = exec.status /\ exec'.version = exec.version
      /\ exec'.workflow = exec.workflow /\ exec'.claim = kind
  BY <1>1 DEF Execs
<1>3. row' = row \/ (row.state # "leased" /\ row.state # "gone" /\ row'.state = "queued")
  BY <1>1 DEF Requeued, RequeuedByWake, Rows
<1>4. RowsHeld' /\ NoWakeSleptThrough'
  <2>1. row'.state # "waiting"
    <3>1. CASE row' = row /\ body.at # "off"
      BY <3>1 DEF IInv, RowsHeld
    <3>2. CASE row' = Requeued(row)
      BY <1>1, <3>2 DEF Requeued, RequeuedByWake, Rows
    <3> QED
      BY <3>1, <3>2
  <2> QED
    BY <1>2, <1>3, <2>1 DEF IInv, RowsHeld, NoWakeSleptThrough
<1>5. CancelRead' /\ RoundSound'
  BY <1>2 DEF IInv, CancelRead, RoundSound, Active, Side, Above
<1>6. ASSUME NEW x \in Waits PROVE Local(x)'
  <2>1. Local(x)
    BY DEF IInv
  <2>2. /\ park[x].status = "waiting" =>
              park'[x].status = "resuming" /\ park'[x].wake = kind
        /\ park[x].status # "waiting" => park'[x] = park[x]
        /\ park'[x].status # "waiting"
    BY <1>1, ResolvedParks
  <2>3. ParkOf(x)'
    BY <1>1, <2>1, <2>2 DEF Local, ParkOf, ParkSound, AttemptSound, OpenPark
  <2>4. StageOf(x)'
    BY <1>1, <2>1, <2>2 DEF Local, StageOf, AllLeft, StopsAt, Superseded, OpenPark
  <2>5. ClaimedBy(x)' /\ Pinned(x)'
    BY <1>1, <1>2, <2>1 DEF Local, ClaimedBy, Pinned, Beside, Side, Above
  <2>6. x \in Canceled => OutletOf(x)'
    BY <1>1, <1>2, <2>1, <2>2 DEF Local, OutletOf, Above
  <2>7. \A j \in DOMAIN att'[x] :
         /\ att'[x][j].resume = "timeout"
         /\ Mode[x][att'[x][j].ver] = "event"
         => park'[x].wake # "resume" \/ park'[x].status = "cancelled"
    BY <1>1, <2>1, <2>2 DEF Local
  <2> QED
    BY <2>1, <2>2, <2>3, <2>4, <2>5, <2>6, <2>7 DEF Local, Side
<1> QED
  BY <1>4, <1>5, <1>6 DEF IInv

LEMMA RequestCancelStep ==
  ASSUME IInv, TypeOK', RequestCancel
  PROVE  IInv'
<1>1. "cancel" \in ClaimKinds
  BY DEF ClaimKinds
<1> QED
  BY <1>1, ClaimStep DEF RequestCancel

(* A Migration: no Wait behind the outlet has parked, and a resume behind  *)
(* its fence is on a running run unless another Wait of the round parked.  *)
LEMMA MigrateStep ==
  ASSUME IInv, TypeOK', NEW v \in Versions, Migrate(v)
  PROVE  IInv'
<1>1. /\ exec.status = "waiting" /\ exec.claim = "none" /\ row' = Requeued(row)
      /\ exec' = [exec EXCEPT !.version = v] /\ park' = Resolved("migrate")
      /\ UNCHANGED <<att, answer, body>>
  BY DEF Migrate
<1>2. exec \in Execs /\ row \in Rows
  BY Shapes DEF IInv
<1>3. /\ exec'.status = exec.status /\ exec'.claim = exec.claim
      /\ exec'.workflow = exec.workflow
  BY <1>1, <1>2 DEF Execs
<1>4. RowsHeld' /\ NoWakeSleptThrough'
  <2>1. /\ row'.state # "waiting"
        /\ \/ row' = row
           \/ row.state \notin {"leased", "gone"} /\ row'.state = "queued"
    BY <1>1, <1>2 DEF Requeued, RequeuedByWake, Rows
  <2> QED
    BY <1>1, <1>3, <2>1 DEF IInv, RowsHeld, NoWakeSleptThrough
<1>5. CancelRead' /\ RoundSound'
  BY <1>1, <1>3 DEF IInv, CancelRead, RoundSound, Active, Side, Above
<1>6. ASSUME NEW x \in Waits PROVE Local(x)'
  <2>1. Local(x)
    BY DEF IInv
  <2>2. /\ park[x].status = "waiting" =>
              park'[x].status = "resuming" /\ park'[x].wake = "migrate"
        /\ park[x].status # "waiting" => park'[x] = park[x]
        /\ park'[x].status # "waiting"
    BY <1>1, ResolvedParks DEF Wakes
  <2>3. ParkOf(x)'
    BY <1>1, <2>1, <2>2 DEF Local, ParkOf, ParkSound, AttemptSound, OpenPark
  <2>4. StageOf(x)'
    BY <1>1, <2>1, <2>2 DEF Local, StageOf, AllLeft, StopsAt, Superseded, OpenPark
  <2>5. ClaimedBy(x)'
    BY <1>1, <1>3, <2>1, <2>2 DEF Local, ClaimedBy, IsClaimWake, ClaimKinds
  <2>6. Pinned(x)'
    BY <1>1, <1>3, <2>1 DEF Local, Pinned, Beside, Side, Above
  <2>7. x \in Canceled => OutletOf(x)'
    <3> SUFFICES ASSUME x \in Canceled PROVE OutletOf(x)'
      OBVIOUS
    <3>1. park[x].status # "waiting" /\ att[x] = <<>> /\ ~body.entered
      BY <1>1, <2>1 DEF Local, OutletOf, ClaimAdmits, Side, IInv, CancelRead
    <3> QED
      BY <1>1, <1>3, <2>1, <2>2, <3>1 DEF Local, OutletOf
  <2>8. \A j \in DOMAIN att'[x] :
         /\ att'[x][j].resume = "timeout"
         /\ Mode[x][att'[x][j].ver] = "event"
         => park'[x].wake # "resume" \/ park'[x].status = "cancelled"
    BY <1>1, <2>1, <2>2 DEF Local
  <2> QED
    BY <2>2, <2>3, <2>4, <2>5, <2>6, <2>7, <2>8 DEF Local
<1> QED
  BY <1>4, <1>5, <1>6 DEF IInv

(* A park of w rewritten while it stays, or comes, open.                   *)
LEMMA ParkStep ==
  ASSUME IInv, TypeOK', NEW w \in Waits, OpenPark(park[w]), OpenPark(park'[w]),
         \A x \in Waits \ {w} : park'[x] = park[x],
         ParkSound(park'[w]), ~IsClaimWake(park'[w].wake),
         w \in Canceled => park'[w].wake # "migrate",
         park'[w].status = "waiting" => park[w].status = "waiting",
         UNCHANGED <<exec, att, answer, body>>,
         row'.state = "gone" <=> row.state = "gone",
         row.state = "leased" => row' = row, NoWakeSleptThrough'
  PROVE  IInv'
<1>1. RowsHeld'
  BY DEF IInv, RowsHeld
<1>2. CancelRead' /\ RoundSound'
  BY DEF IInv, CancelRead, RoundSound, Active, Side, Above
<1>3. ASSUME NEW x \in Waits PROVE Local(x)'
  <2>1. Local(x)
    BY DEF IInv
  <2>2. park'[x] = park[x] \/ x = w
    OBVIOUS
  <2>3. ParkOf(x)'
    BY <2>1, <2>2 DEF Local, ParkOf, ParkSound, AttemptSound, OpenPark
  <2>4. StageOf(x)'
    BY <2>1, <2>2 DEF Local, StageOf, AllLeft, StopsAt, Superseded, OpenPark
  <2>5. ClaimedBy(x)'
    BY <2>1, <2>2 DEF Local, ClaimedBy, IsClaimWake, ClaimKinds, OpenPark
  <2>6. Pinned(x)'
    BY <2>1 DEF Local, Pinned, Beside, Side, Above
  <2>7. x \in Canceled => OutletOf(x)'
    BY <2>1, <2>2 DEF Local, OutletOf, Above
  <2>8. \A j \in DOMAIN att'[x] :
         /\ att'[x][j].resume = "timeout"
         /\ Mode[x][att'[x][j].ver] = "event"
         => park'[x].wake # "resume" \/ park'[x].status = "cancelled"
    BY <2>1, <2>2 DEF Local, ParkOf
  <2> QED
    BY <2>1, <2>2, <2>3, <2>4, <2>5, <2>6, <2>7, <2>8 DEF Local, Side
<1> QED
  BY <1>1, <1>2, <1>3 DEF IInv

LEMMA DeadlineStep ==
  ASSUME IInv, TypeOK', NEW w \in Waits, DeadlinePasses(w)
  PROVE  IInv'
<1>1. park[w] \in Parks /\ park \in [Waits -> Parks] /\ row \in Rows
  BY Shapes DEF IInv
<1>2. /\ park'[w] = [park[w] EXCEPT !.deadline = "passed"]
      /\ \A x \in Waits \ {w} : park'[x] = park[x]
  BY <1>1 DEF DeadlinePasses
<1>3. park'[w].status = "waiting" /\ park'[w].wake = park[w].wake
  BY <1>1, <1>2 DEF DeadlinePasses, Parks
<1>4. ParkSound(park[w])
  BY DEF IInv, Local, ParkOf
<1>5. NoWakeSleptThrough'
  BY <1>1, <1>2, <1>3 DEF DeadlinePasses, IInv, NoWakeSleptThrough, OverduePark, Rows
<1>6. row'.state = row.state /\ (row.state = "leased" => row' = row)
  BY <1>1 DEF DeadlinePasses, Rows
<1> QED
  BY <1>2, <1>3, <1>4, <1>5, <1>6, ParkStep
     DEF DeadlinePasses, OpenPark, ParkSound, IsClaimWake, ClaimKinds

LEMMA DeliverEventStep ==
  ASSUME IInv, TypeOK', NEW w \in Waits, DeliverEvent(w)
  PROVE  IInv'
<1>1. park[w] \in Parks /\ park \in [Waits -> Parks] /\ row \in Rows
  BY Shapes DEF IInv
<1>2. /\ park'[w] = [park[w] EXCEPT !.status = "resuming", !.wake = "resume"]
      /\ \A x \in Waits \ {w} : park'[x] = park[x]
  BY <1>1 DEF DeliverEvent
<1>3. park'[w].status = "resuming" /\ park'[w].wake = "resume" /\ OpenPark(park[w])
  BY <1>1, <1>2 DEF DeliverEvent, Parks, ClaimablePark, OpenPark
<1>4. row'.state # "waiting"
  BY <1>1 DEF DeliverEvent, Requeued, RequeuedByWake, Rows
<1>5. row' = row \/ (row.state \notin {"leased", "gone"} /\ row'.state = "queued")
  BY <1>1 DEF DeliverEvent, Requeued, RequeuedByWake, Rows
<1> QED
  BY <1>2, <1>3, <1>4, <1>5, ParkStep
     DEF DeliverEvent, OpenPark, ParkSound, IsClaimWake, ClaimKinds, NoWakeSleptThrough

LEMMA RequestExitStep ==
  ASSUME IInv, TypeOK', NEW w \in Waits, RequestExit(w)
  PROVE  IInv'
<1>1. /\ Local(w) /\ body.at = "running" /\ body.stage[w] = "admit" /\ w \notin Canceled
      /\ answer' = [answer EXCEPT !.admit[w] = "refused"]
      /\ UNCHANGED <<row, att, body>>
  BY DEF RequestExit, At, IInv, Local, OutletOf
<1>2. answer'.check = answer.check /\ answer'.final = answer.final
  BY <1>1, Shapes DEF IInv, Answers
<1>3. CASE ~CanAdmitNode
  BY <1>1, <1>2, <1>3, AnswerStep DEF RequestExit
<1>4. CASE CanAdmitNode
  <2>1. /\ exec' = [exec EXCEPT !.claim = "exit"] /\ park' = Resolved("exit")
        /\ exec.claim = "none"
    BY <1>4 DEF RequestExit, CanAdmitNode
  <2>2. "exit" \in ClaimKinds
    BY DEF ClaimKinds
  <2> QED
    BY <1>1, <1>2, <2>1, <2>2, ClaimStep
<1> QED
  BY <1>3, <1>4

-----------------------------------------------------------------------------
(* The pass as a whole                                                     *)

(* What a step that leaves the parks and the memo alone keeps of a Wait.   *)
LEMMA BodyStep ==
  ASSUME IInv, NEW x \in Waits, park'[x] = park[x], att'[x] = att[x],
         body'.wake[x] = body.wake[x],
         exec'.workflow = exec.workflow, exec'.version = exec.version,
         exec'.claim = exec.claim,
         exec'.status = exec.status \/ exec'.status \notin Verdicts,
         exec.status \notin Verdicts,
         StageOf(x)', Pinned(x)', x \in Canceled => OutletOf(x)'
  PROVE  Local(x)'
<1>1. Local(x)
  BY DEF IInv
<1>2. ParkOf(x)'
  BY <1>1 DEF Local, ParkOf, ParkSound, AttemptSound
<1>3. ClaimedBy(x)'
  BY <1>1 DEF Local, ClaimedBy, IsClaimWake
<1> QED
  BY <1>1, <1>2, <1>3 DEF Local, Side

LEMMA ClaimStepOfPass ==
  ASSUME IInv, TypeOK', Claim
  PROVE  IInv'
<1>1. /\ body'.at = "opening" /\ ~body'.entered /\ body'.released = {}
      /\ \A x \in Waits : body'.stage[x] = "out" /\ body'.wake[x] = "none"
  BY DEF Claim, OffBody
<1>2. row'.state = "leased" /\ row.state # "gone" /\ UNCHANGED <<exec, att, answer>>
  BY Shapes DEF Claim, IInv, Rows
<1>3. RowsHeld' /\ NoWakeSleptThrough' /\ CancelRead'
  BY <1>1, <1>2 DEF IInv, RowsHeld, NoWakeSleptThrough, CancelRead
<1>4. RoundSound'
  BY <1>1 DEF RoundSound, Active
<1>5. ASSUME NEW x \in Waits PROVE Local(x)'
  <2>1. Local(x) /\ exec.status \notin Verdicts
    BY <1>2 DEF IInv, RowsHeld
  <2>2. \/ park'[x] = park[x]
        \/ /\ park[x].status = "waiting"
           /\ park'[x].status = "resuming" /\ park'[x].wake = "timeout"
    BY Shapes DEF Claim, IInv, Parks, OverduePark
  <2>3. ParkOf(x)'
    BY <1>2, <2>1, <2>2 DEF Local, ParkOf, ParkSound, AttemptSound, OpenPark
  <2>4. StageOf(x)' /\ Pinned(x)'
    BY <1>1 DEF StageOf, Pinned
  <2>5. ClaimedBy(x)'
    BY <1>1, <1>2, <2>1, <2>2 DEF Local, ClaimedBy, IsClaimWake, ClaimKinds
  <2>6. x \in Canceled => OutletOf(x)'
    <3>1. exec.status # "canceled"
      BY <2>1 DEF Verdicts
    <3> QED
      BY <1>1, <1>2, <2>1, <2>2, <3>1 DEF Local, OutletOf
  <2>7. \A j \in DOMAIN att'[x] :
         /\ att'[x][j].resume = "timeout"
         /\ Mode[x][att'[x][j].ver] = "event"
         => park'[x].wake # "resume" \/ park'[x].status = "cancelled"
    BY <1>2, <2>1, <2>2 DEF Local
  <2> QED
    BY <1>2, <2>1, <2>2, <2>3, <2>4, <2>5, <2>6, <2>7 DEF Local, Side
<1> QED
  BY <1>3, <1>4, <1>5 DEF IInv

LEMMA OpenStep ==
  ASSUME IInv, TypeOK', Open
  PROVE  IInv'
<1>1. /\ body'.at = "running" /\ body'.version = exec.version
      /\ body'.stage = body.stage /\ body'.wake = body.wake
      /\ body'.entered = body.entered /\ body'.released = body.released
      /\ UNCHANGED <<exec, row, park, att, answer>>
      /\ body.at = "opening" /\ ~body.entered /\ body.released = {}
      /\ \A x \in Waits : body.stage[x] = "out"
  BY Shapes DEF Open, IInv, RowsHeld, Bodies
<1>2. RowsHeld' /\ NoWakeSleptThrough' /\ CancelRead'
  BY <1>1 DEF IInv, RowsHeld, NoWakeSleptThrough, CancelRead
<1>3. RoundSound'
  BY <1>1 DEF RoundSound, Active
<1>4. exec.status \notin Verdicts
  BY <1>1 DEF IInv, RowsHeld
<1>5. ASSUME NEW x \in Waits PROVE Local(x)'
  <2>1. Local(x)
    BY DEF IInv
  <2>2. StageOf(x)' /\ Pinned(x)'
    BY <1>1, <2>1 DEF Local, StageOf, Pinned
  <2>3. x \in Canceled => OutletOf(x)'
    BY <1>1, <1>4, <2>1 DEF Local, OutletOf, Above
  <2> QED
    BY <1>1, <1>4, <2>2, <2>3, BodyStep
<1> QED
  BY <1>2, <1>3, <1>5 DEF IInv

LEMMA DrainStep ==
  ASSUME IInv, TypeOK', Drain
  PROVE  IInv'
<1>1. /\ body'.at = "running" /\ body'.version = body.version
      /\ body'.wake = body.wake
      /\ body'.entered = body.entered /\ body'.released = body.released
      /\ \A x \in Waits : body'.stage[x] =
            IF x \in Held THEN IF x \in Gated THEN "admit" ELSE "drive"
                          ELSE body.stage[x]
      /\ UNCHANGED <<exec, row, park, att, answer>>
      /\ body.at = "running"
      /\ \A x \in Waits : body.stage[x] \in {"out", "parked", "done"}
      /\ body \in Bodies
  BY Shapes DEF Drain, Quiet, IInv, Bodies
<1>2. \A x \in Held :
        /\ x \in Waits /\ body.stage[x] = "out" /\ Above[x] \subseteq body.released
        /\ body.entered <=> x \in Canceled
  BY DEF Held
<1>3. RowsHeld' /\ NoWakeSleptThrough' /\ CancelRead'
  BY <1>1 DEF IInv, RowsHeld, NoWakeSleptThrough, CancelRead
<1>4. \A x \in Waits : Active(x)' <=> x \in Held
  BY <1>1 DEF Active
<1>5. RoundSound'
  <2>1. \A x \in body'.released : body'.stage[x] = "done"
    BY <1>1, <1>2 DEF IInv, RoundSound, Bodies
  <2>2. \A x \in Waits : Above'[x] = Above[x] /\ Side(x)' = Side(x)
    BY <1>1 DEF Above, Side
  <2>3. \A x, y \in Held : Side(x) = Side(y)
    BY <1>2 DEF Side
  <2> QED
    BY <1>1, <1>2, <1>4, <2>1, <2>2, <2>3 DEF RoundSound
<1>6. exec.status \notin Verdicts
  BY <1>1 DEF IInv, RowsHeld
<1>7. ASSUME NEW x \in Waits PROVE Local(x)'
  <2>1. Local(x)
    BY DEF IInv
  <2>2. /\ body'.stage[x] \in {"admit", "drive", "out", "parked", "done"}
        /\ body'.stage[x] = body.stage[x] \/ x \in Held
    BY <1>1
  <2>3. StageOf(x)' /\ Pinned(x)'
    BY <1>1, <2>1, <2>2 DEF Local, StageOf, Pinned
  <2>4. x \in Canceled => OutletOf(x)'
    <3> SUFFICES ASSUME x \in Canceled PROVE OutletOf(x)'
      OBVIOUS
    <3>1. body'.stage[x] # "admit"
      BY <1>1, <2>1, GraphAssumption DEF Local, OutletOf
    <3>2. body'.stage[x] # "out" => body'.entered
      BY <1>1, <1>2, <2>1, <2>2 DEF Local, OutletOf
    <3>3. body'.stage[x] \in {"check", "done"} => body.stage[x] = "done"
      BY <1>1, <2>2
    <3>4. exec.status # "canceled"
      BY <1>6 DEF Verdicts
    <3> QED
      BY <1>1, <2>1, <2>2, <3>1, <3>2, <3>3, <3>4 DEF Local, OutletOf
  <2> QED
    BY <1>1, <1>6, <2>3, <2>4, BodyStep
<1> QED
  BY <1>3, <1>5, <1>7 DEF IInv

LEMMA MarkWaitingStep ==
  ASSUME IInv, TypeOK', MarkWaitingIfParked
  PROVE  IInv'
<1>1. /\ body'.at = "parking" /\ body'.version = body.version
      /\ body'.wake = body.wake /\ body'.stage = body.stage
      /\ body'.entered = body.entered /\ body'.released = body.released
      /\ UNCHANGED <<row, park, att, answer>>
      /\ body.at = "running" /\ body \in Bodies
      /\ \A x \in Waits : body.stage[x] \in {"out", "parked", "done"}
  BY Shapes DEF MarkWaitingIfParked, Quiet, IInv, Bodies
<1>2. /\ exec'.workflow = exec.workflow /\ exec'.version = exec.version
      /\ exec'.claim = exec.claim
      /\ exec'.status = exec.status \/ exec'.status \notin Verdicts
      /\ exec.status \notin Verdicts /\ exec'.status \notin Verdicts
  <2>1. exec \in Execs /\ exec.status \notin Verdicts
    BY <1>1, Shapes DEF IInv, RowsHeld
  <2> QED
    BY <2>1 DEF MarkWaitingIfParked, Execs, Verdicts
<1>3. RowsHeld' /\ NoWakeSleptThrough' /\ CancelRead'
  BY <1>1, <1>2 DEF IInv, RowsHeld, NoWakeSleptThrough, CancelRead
<1>4. RoundSound'
  BY <1>1 DEF RoundSound, IInv, Active
<1>5. ASSUME NEW x \in Waits PROVE Local(x)'
  <2>1. Local(x)
    BY DEF IInv
  <2>2. StageOf(x)' /\ Pinned(x)'
    BY <1>1, <2>1 DEF Local, StageOf, Pinned
  <2>3. x \in Canceled => OutletOf(x)'
    <3>1. exec'.status # "canceled"
      BY <1>2 DEF Verdicts
    <3> QED
      BY <1>1, <1>2, <2>1, <3>1 DEF Local, OutletOf
  <2> QED
    BY <1>1, <1>2, <2>2, <2>3, BodyStep
<1> QED
  BY <1>3, <1>4, <1>5 DEF IInv

(* No park holds a wake the release would sleep through.                   *)
LEMMA ReleaseParkedStep ==
  ASSUME IInv, TypeOK', ReleaseParked
  PROVE  IInv'
<1>1. /\ body' = OffBody /\ row' = ParkedRelease(row, ParkRows)
      /\ UNCHANGED <<exec, park, att, answer>> /\ body.at = "parking"
  BY DEF ReleaseParked, EndPass
<1>2. row \in Rows /\ exec.status \notin Verdicts
  BY <1>1, Shapes DEF IInv, RowsHeld
<1>3. row'.state \in {"queued", "waiting"}
  BY <1>1, <1>2 DEF ParkedRelease, Rows
<1>4. ASSUME row'.state = "waiting" PROVE NoWakeSleptThrough'
  <2> DEFINE open == {p \in ParkRows : p.status = "waiting"}
             unconsumed == \E p \in ParkRows : p.status = "resuming" /\ p.wake # "none"
  <2>1. /\ ~unconsumed /\ open # {}
        /\ (\E p \in open : p.deadline = "passed") => row'.wake = "due"
    BY <1>1, <1>2, <1>4 DEF ParkedRelease, Rows
  <2>2. \A w \in Waits : park[w] \in ParkRows
    BY DEF ParkRows
  <2>3. \E w \in Waits : park[w].status = "waiting"
    BY <2>1 DEF ParkRows
  <2>4. \A w \in Waits : park[w].status # "resuming"
    BY <2>1, <2>2 DEF IInv, Local, ParkOf, ParkSound
  <2>5. \A w \in Waits : OverduePark(park[w]) => row'.wake = "due"
    BY <2>1, <2>2 DEF OverduePark
  <2> HIDE DEF open, unconsumed
  <2> QED
    BY <1>1, <2>3, <2>4, <2>5 DEF NoWakeSleptThrough
<1>5. NoWakeSleptThrough'
  BY <1>4 DEF NoWakeSleptThrough
<1> QED
  BY <1>1, <1>2, <1>3, <1>5, PassOff

LEMMA PassCutStep ==
  ASSUME IInv, TypeOK', PassCut
  PROVE  IInv'
<1>1. /\ body' = OffBody /\ UNCHANGED <<exec, park, att, answer>>
      /\ row.state = "leased" /\ exec.status \notin Verdicts
  BY DEF PassCut, EndPass, IInv, RowsHeld
<1>2. row'.state \in {"leased", "queued"}
  BY <1>1 DEF PassCut, EndPass
<1> QED
  BY <1>1, <1>2, PassOff DEF NoWakeSleptThrough

LEMMA BackoffEndsStep ==
  ASSUME IInv, TypeOK', BackoffEnds
  PROVE  IInv'
<1>1. /\ row.state = "queued" /\ row'.state = "queued"
      /\ UNCHANGED <<exec, park, att, answer, body>>
  BY DEF BackoffEnds
<1>2. RowsHeld' /\ NoWakeSleptThrough' /\ CancelRead'
  BY <1>1 DEF IInv, RowsHeld, NoWakeSleptThrough, CancelRead
<1>3. RoundSound'
  BY <1>1 DEF IInv, RoundSound, Active, Side, Above
<1>4. exec.status \notin Verdicts
  BY <1>1 DEF IInv, RowsHeld
<1>5. ASSUME NEW x \in Waits PROVE Local(x)'
  <2>1. Local(x)
    BY DEF IInv
  <2>2. StageOf(x)'
    BY <1>1, <2>1 DEF Local, StageOf, AllLeft, StopsAt, Superseded
  <2>3. Pinned(x)'
    BY <1>1, <2>1 DEF Local, Pinned, Beside, Side, Above
  <2>4. x \in Canceled => OutletOf(x)'
    BY <1>1, <2>1 DEF Local, OutletOf, Above
  <2> QED
    BY <1>1, <1>4, <2>2, <2>3, <2>4, BodyStep
<1> QED
  BY <1>2, <1>3, <1>5 DEF IInv

(* The pass takes the Canceled outlet.                                     *)
LEMMA EnteredStep ==
  ASSUME IInv, TypeOK', NEW entered \in BOOLEAN, entered => exec.claim = "cancel",
         body.at = "running", UNCHANGED <<exec, row, park, att>>,
         body'.at = body.at, body'.version = body.version, body'.stage = body.stage,
         body'.wake = body.wake, body'.released = body.released,
         body'.entered = (body.entered \/ entered),
         answer'.check = answer.check,
         answer'.final = "cancel" => answer.final = "cancel" \/ exec.claim = "cancel"
  PROVE  IInv'
<1>1. RowsHeld' /\ NoWakeSleptThrough' /\ CancelRead'
  BY DEF IInv, RowsHeld, NoWakeSleptThrough, CancelRead
<1>2. RoundSound'
  BY DEF IInv, RoundSound, Active, Side, Above
<1>3. exec.status \notin Verdicts
  BY DEF IInv, RowsHeld
<1>4. ASSUME NEW x \in Waits PROVE Local(x)'
  <2>1. Local(x)
    BY DEF IInv
  <2>2. StageOf(x)'
    BY <2>1 DEF Local, StageOf, AllLeft, StopsAt, Superseded
  <2>3. Pinned(x)'
    BY <2>1 DEF Local, Pinned, Beside, Side, Above
  <2>4. x \in Canceled => OutletOf(x)'
    BY <2>1 DEF Local, OutletOf, Above
  <2> QED
    BY <1>3, <2>2, <2>3, <2>4, BodyStep
<1> QED
  BY <1>1, <1>2, <1>4 DEF IInv

LEMMA ReadOutcomeStep ==
  ASSUME IInv, TypeOK', ReadOutcome
  PROVE  IInv'
<1>1. answer \in Answers /\ body \in Bodies /\ body.at = "running"
  BY Shapes DEF IInv, ReadOutcome, Walked, Quiet
<1>2. PICK found \in {"unread", "none"} \cup ClaimKinds :
        /\ found = exec.claim \/ found = answer.final
        /\ answer' = [answer EXCEPT !.final = found]
        /\ body' = [body EXCEPT !.read = TRUE, !.entered = @ \/ found = "cancel"]
  BY <1>1, Shapes DEF IInv, ReadOutcome, Answers, Execs
<1>3. found = "cancel" => exec.claim = "cancel"
  BY <1>2 DEF IInv, CancelRead
<1>4. /\ body'.at = body.at /\ body'.version = body.version /\ body'.stage = body.stage
      /\ body'.wake = body.wake /\ body'.released = body.released
      /\ body'.entered = (body.entered \/ found = "cancel")
      /\ answer'.check = answer.check /\ answer'.final = found
  BY <1>1, <1>2 DEF Bodies, Answers
<1>5. UNCHANGED <<exec, row, park, att>> /\ (found = "cancel") \in BOOLEAN
  BY DEF ReadOutcome
<1>6. PICK entered \in BOOLEAN : entered <=> found = "cancel"
  OBVIOUS
<1>7. body'.entered = (body.entered \/ entered)
  BY <1>4, <1>6
<1> QED
  BY <1>1, <1>3, <1>4, <1>5, <1>6, <1>7, EnteredStep

(* A terminal write ends the run.                                          *)
LEMMA EndedStep ==
  ASSUME IInv, TypeOK', NEW status \in Verdicts, EndRun(status),
         UNCHANGED <<att, answer>>,
         status = "canceled" =>
           \A x \in Canceled : Above[x] = {} =>
             /\ att[x] # <<>>
             /\ att[x][1].prep = "parked" => att[x][1].resume # "none"
  PROVE  IInv'
<1>1. /\ body' = OffBody /\ row'.state = "gone"
      /\ exec \in Execs /\ park \in [Waits -> Parks]
  BY Shapes DEF EndRun, EndPass, IInv
<1>2. /\ exec'.workflow = exec.workflow /\ exec'.version = exec.version
      /\ exec'.claim = exec.claim /\ exec'.status = status
  BY <1>1 DEF EndRun, Execs
<1>3. /\ body'.at = "off" /\ ~body'.entered /\ body'.released = {}
      /\ \A x \in Waits : body'.stage[x] = "out" /\ body'.wake[x] = "none"
  BY <1>1 DEF OffBody
<1>4. RowsHeld' /\ NoWakeSleptThrough' /\ CancelRead'
  BY <1>1, <1>2, <1>3 DEF IInv, RowsHeld, NoWakeSleptThrough, CancelRead
<1>5. RoundSound'
  BY <1>3 DEF RoundSound, Active
<1>6. ASSUME NEW x \in Waits PROVE Local(x)'
  <2>1. Local(x)
    BY DEF IInv
  <2>2. /\ park'[x].wake = park[x].wake
        /\ OpenPark(park[x]) => park'[x].status = "cancelled"
        /\ ~OpenPark(park[x]) => park'[x] = park[x]
    BY <1>1 DEF EndRun, Parks
  <2>3. ParkOf(x)'
    BY <2>1, <2>2 DEF Local, ParkOf, ParkSound, AttemptSound, OpenPark
  <2>4. StageOf(x)' /\ Pinned(x)'
    BY <1>3 DEF StageOf, Pinned
  <2>5. ClaimedBy(x)'
    BY <1>2, <1>3, <2>1, <2>2 DEF Local, ClaimedBy, IsClaimWake, ClaimKinds
  <2>6. x \in Canceled => OutletOf(x)'
    BY <1>2, <1>3, <2>1, <2>2 DEF Local, OutletOf, Above
  <2>7. \A j \in DOMAIN att'[x] :
         /\ att'[x][j].resume = "timeout"
         /\ Mode[x][att'[x][j].ver] = "event"
         => park'[x].wake # "resume" \/ park'[x].status = "cancelled"
    BY <2>1, <2>2 DEF Local
  <2> QED
    BY <2>2, <2>3, <2>4, <2>5, <2>6, <2>7 DEF Local, OpenPark
<1> QED
  BY <1>4, <1>5, <1>6 DEF IInv

LEMMA RecordEndStep ==
  ASSUME IInv, TypeOK', RecordEnd
  PROVE  IInv'
<1>1. /\ Quiet /\ Held = {} /\ ~IsParked /\ body.at = "running"
      /\ UNCHANGED att /\ answer \in Answers /\ body \in Bodies
  BY Shapes DEF RecordEnd, Walked, Quiet, IInv
<1>2. CASE EndRun(TerminalStatus) /\ UNCHANGED answer
  <2>1. TerminalStatus \in Verdicts
    BY DEF TerminalStatus, Verdicts
  <2>2. TerminalStatus = "canceled" => body.entered
    BY DEF TerminalStatus
  <2>3. ASSUME NEW x \in Canceled, body.entered, Above[x] = {}
        PROVE  /\ att[x] # <<>>
               /\ att[x][1].prep = "parked" => att[x][1].resume # "none"
    <3>1. x \in Waits /\ OutletOf(x)
      BY GraphAssumption DEF IInv, Local
    <3>2. body.stage[x] # "out"
      BY <1>1, <2>3, <3>1 DEF Held
    <3>3. body.stage[x] = "done"
      BY <1>1, <3>1, <3>2 DEF Quiet, IsParked
    <3> QED
      BY <3>1, <3>3 DEF OutletOf
  <2> QED
    BY <1>1, <1>2, <2>1, <2>2, <2>3, EndedStep
<1>3. CASE EndRun("exited") /\ UNCHANGED answer
  <2>1. "exited" \in Verdicts
    BY DEF Verdicts
  <2> QED
    BY <1>1, <1>3, <2>1, EndedStep
<1>4. CASE /\ answer' = [answer EXCEPT !.refused = TRUE] /\ exec.claim = "cancel"
           /\ body' = [body EXCEPT !.entered = TRUE]
           /\ UNCHANGED <<exec, row, park>>
  <2>1. /\ body'.at = body.at /\ body'.version = body.version /\ body'.stage = body.stage
        /\ body'.wake = body.wake /\ body'.released = body.released
        /\ body'.entered = (body.entered \/ TRUE)
        /\ answer'.check = answer.check /\ answer'.final = answer.final
    BY <1>1, <1>4 DEF Bodies, Answers
  <2> QED
    BY <1>1, <1>4, <2>1, EnteredStep
<1> QED
  BY <1>2, <1>3, <1>4 DEF RecordEnd

LEMMA EndInFlightStep ==
  ASSUME IInv, TypeOK', EndInFlight
  PROVE  IInv'
<1>1. "superseded" \in Verdicts /\ "superseded" # "canceled"
  BY DEF Verdicts
<1> QED
  BY <1>1, EndedStep DEF EndInFlight

-----------------------------------------------------------------------------
(* The invariant                                                           *)

LEMMA StepIInv == IInv /\ [Next]_vars => IInv'
<1> SUFFICES ASSUME IInv, [Next]_vars PROVE IInv'
  OBVIOUS
<1>1. TypeOK'
  <2>1. WakesRead
    BY DEF IInv, Local, StageOf, ParkOf, WakesRead
  <2> QED
    BY <2>1, TypeStep DEF IInv
<1>2. ASSUME NEW w \in Waits, WaitStep(w) PROVE IInv'
  BY <1>1, <1>2, AnsweredStep, RequestExitStep, AdmittedStep, PrepareEndsStep,
     StartWaitStep, ReparkWaitStep, PrepareParksStep, PrepareRefusedStep,
     WaitForEventStep, ResumeFenceStep, ResumeRefusedStep, ResumeSettleStep,
     ResumeEndsStep, AbandonWaitStep, ReplayedStep, CheckStep, Zenon DEF WaitStep
<1>3. ASSUME Producer PROVE IInv'
  BY <1>1, <1>3, DeliverEventStep, MigrateStep, RequestCancelStep, EndInFlightStep,
     Zenon DEF Producer
<1>4. CASE UNCHANGED vars
  <2>1. UNCHANGED <<exec, row, park, att, body, answer>>
    BY <1>4 DEF vars
  <2> QED
    BY <1>1, <2>1, AnswerStep
<1> QED
  BY <1>1, <1>2, <1>3, <1>4, ClaimStepOfPass, OpenStep, DrainStep, MarkWaitingStep,
     ReleaseParkedStep, ReadOutcomeStep, RecordEndStep, PassCutStep, BackoffEndsStep,
     DeadlineStep, Zenon DEF Next, PassStep

(* What the action properties say of a step.                               *)
ClaimStands ==
  /\ exec.claim # "none" =>
       exec'.claim = exec.claim /\ exec'.version = exec.version
  /\ exec.status \in InFlight /\ exec'.status \in Verdicts =>
       exec'.status \in CASE exec'.claim = "cancel" -> {"canceled"}
                         [] exec'.claim = "exit" -> {"exited"}
                         [] OTHER -> Verdicts \ {"canceled", "exited"}

EventStands ==
  \A w \in Waits :
    HoldsEvent(w) =>
      \/ park'[w] = park[w]
      \/ park'[w] = [park[w] EXCEPT !.status = "resumed"]
      \/ /\ park'[w] = [park[w] EXCEPT !.status = "cancelled"]
         /\ \/ exec.claim # "none"
            \/ exec'.status \in Verdicts
            \/ Abandoned(w)

ResumesPinned ==
  \A w \in Waits :
    /\ At(w, "settled") /\ att'[w] # att[w]
    /\ \A x \in Beside(w) : body.stage[x] = "out"
    => \/ IsClaimWake(body.wake[w])
       \/ exec.version = body.version

(* Neither writes to the status of a run in flight nor a write of no row   *)
(* decides its end.                                                        *)
LEMMA StatusOnly ==
  ASSUME TypeOK, NEW status \in InFlight,
         exec' = exec \/ exec' = [exec EXCEPT !.status = status]
  PROVE  ClaimStands
<1>1. exec \in Execs
  BY Shapes
<1>2. exec'.claim = exec.claim /\ exec'.version = exec.version
  BY <1>1 DEF Execs
<1>3. exec.status \in InFlight => exec'.status \notin Verdicts
  BY <1>1 DEF Execs, InFlight, Verdicts
<1> QED
  BY <1>2, <1>3 DEF ClaimStands

(* The claim a recorded end goes with.                                     *)
LEMMA EndedByClaim ==
  ASSUME TypeOK, NEW status \in Verdicts, EndRun(status),
         status = "canceled" => exec.claim = "cancel",
         status = "exited" => exec.claim = "exit",
         status \notin {"canceled", "exited"} => exec.claim = "none"
  PROVE  ClaimStands
<1>1. exec \in Execs
  BY Shapes
<1>2. /\ exec'.claim = exec.claim /\ exec'.version = exec.version
      /\ exec'.status = status
  BY <1>1 DEF Execs, EndRun
<1> QED
  BY <1>2 DEF ClaimStands

LEMMA StepClaimStands == IInv /\ [Next]_vars => ClaimStands
<1> SUFFICES ASSUME IInv, [Next]_vars PROVE ClaimStands
  OBVIOUS
<1>1. TypeOK /\ exec \in Execs
  BY Shapes DEF IInv
<1>2. "running" \in InFlight /\ "waiting" \in InFlight
  BY DEF InFlight
<1>3. ASSUME exec' = exec \/ exec' = [exec EXCEPT !.status = "running"]
                         \/ exec' = [exec EXCEPT !.status = "waiting"]
      PROVE  ClaimStands
  BY <1>1, <1>2, <1>3, StatusOnly
<1>4. ASSUME exec.claim = "none",
             \/ \E kind \in ClaimKinds : exec' = [exec EXCEPT !.claim = kind]
             \/ \E v \in Versions : exec' = [exec EXCEPT !.version = v]
      PROVE  ClaimStands
  <2>1. exec'.status = exec.status
    BY <1>1, <1>4 DEF Execs
  <2> QED
    BY <1>4, <2>1 DEF ClaimStands, InFlight, Verdicts
<1>5. ASSUME NEW w \in Waits, WaitStep(w) PROVE ClaimStands
  <2>1. CASE RequestExit(w)
    BY <1>3, <1>4, <2>1 DEF RequestExit, CanAdmitNode, ClaimKinds
  <2>2. CASE StartWait(w) \/ ReparkWait(w) \/ ResumeFence(w)
    BY <1>3, <2>2 DEF StartWait, ReparkWait, ResumeFence, VersionRefused
  <2>3. CASE PrepareRefused(w) \/ ResumeRefused(w)
    BY <1>3, <2>3 DEF PrepareRefused, ResumeRefused, VersionRefused
  <2>4. CASE \/ AdmitOpen(w) \/ AdmitClose(w) \/ Admitted(w) \/ Resolve(w)
             \/ PrepareEnds(w) \/ PrepareParks(w) \/ WaitForEvent(w)
             \/ ResumeSettle(w) \/ ResumeEnds(w) \/ AbandonWait(w)
             \/ Replayed(w) \/ Check(w)
    BY <1>3, <2>4
       DEF AdmitOpen, AdmitClose, Admitted, Resolve, PrepareEnds, PrepareParks,
           WaitForEvent, ResumeSettle, ResumeEnds, AbandonWait, Replayed, Check
  <2> QED
    BY <1>5, <2>1, <2>2, <2>3, <2>4, Zenon DEF WaitStep
<1>6. CASE RecordEnd
  <2>1. ASSUME FinishAdmits(TerminalStatus), EndRun(TerminalStatus)
        PROVE  ClaimStands
    <3>1. TerminalStatus \in {"exited", "canceled", "failed", "completed"}
      BY DEF TerminalStatus
    <3>2. TerminalStatus \in Verdicts
      BY <3>1 DEF Verdicts
    <3>3. /\ TerminalStatus = "canceled" => exec.claim = "cancel"
          /\ TerminalStatus = "exited" => exec.claim = "exit"
          /\ TerminalStatus \notin {"canceled", "exited"} => exec.claim = "none"
      BY <2>1 DEF FinishAdmits
    <3> QED
      BY <1>1, <2>1, <3>2, <3>3, EndedByClaim
  <2>2. ASSUME exec.claim = "exit", EndRun("exited")
        PROVE  ClaimStands
    BY <1>1, <2>2, EndedByClaim DEF Verdicts
  <2> QED
    BY <1>3, <1>6, <2>1, <2>2 DEF RecordEnd
<1>7. CASE Producer
  <2>1. CASE RequestCancel
    BY <1>4, <2>1 DEF RequestCancel, ClaimKinds
  <2>2. CASE \E v \in Versions : Migrate(v)
    BY <1>4, <2>2 DEF Migrate
  <2>3. CASE EndInFlight
    BY <1>1, <2>3, EndedByClaim DEF EndInFlight, Verdicts
  <2>4. CASE \E w \in Waits : DeliverEvent(w)
    BY <1>3, <2>4 DEF DeliverEvent
  <2> QED
    BY <1>7, <2>1, <2>2, <2>3, <2>4 DEF Producer
<1>8. CASE MarkWaitingIfParked
  BY <1>3, <1>8 DEF MarkWaitingIfParked
<1>9. CASE \/ Claim \/ Open \/ Drain \/ ReleaseParked \/ ReadOutcome \/ PassCut
           \/ BackoffEnds \/ (\E w \in Waits : DeadlinePasses(w)) \/ UNCHANGED vars
  BY <1>3, <1>9 DEF Claim, Open, Drain, ReleaseParked, ReadOutcome, PassCut,
                    BackoffEnds, DeadlinePasses, vars
<1> QED
  BY <1>5, <1>6, <1>7, <1>8, <1>9, Zenon DEF Next, PassStep

(* A write that leaves the rows with an Event alone, or ends them.         *)
LEMMA ParksStand ==
  ASSUME \A w \in Waits : HoldsEvent(w) => park'[w] = park[w]
  PROVE  EventStands
BY DEF EventStands

LEMMA ResolvedStands ==
  ASSUME NEW wake, park' = Resolved(wake)
  PROVE  EventStands
BY ParksStand DEF Resolved, HoldsEvent

LEMMA EndStands ==
  ASSUME TypeOK, NEW status \in Verdicts, EndRun(status)
  PROVE  EventStands
<1>1. exec'.status \in Verdicts
  <2>1. exec \in Execs
    BY Shapes
  <2> QED
    BY <2>1 DEF EndRun, Execs
<1>2. ASSUME NEW w \in Waits, HoldsEvent(w)
      PROVE  park'[w] = [park[w] EXCEPT !.status = "cancelled"]
  BY <1>2 DEF EndRun, HoldsEvent, OpenPark
<1> QED
  BY <1>1, <1>2 DEF EventStands

(* A write of the row of w alone.                                          *)
LEMMA OneParkStands ==
  ASSUME TypeOK, NEW w \in Waits, NEW new, park' = [park EXCEPT ![w] = new],
         HoldsEvent(w) =>
           \/ new = [park[w] EXCEPT !.status = "resumed"]
           \/ /\ new = [park[w] EXCEPT !.status = "cancelled"]
              /\ exec.claim # "none" \/ Abandoned(w)
  PROVE  EventStands
<1>1. park \in [Waits -> Parks]
  BY Shapes
<1>2. park'[w] = new /\ \A x \in Waits : x # w => park'[x] = park[x]
  BY <1>1
<1> QED
  BY <1>2 DEF EventStands

LEMMA StepEventStands == IInv /\ [Next]_vars => EventStands
<1> SUFFICES ASSUME IInv, [Next]_vars PROVE EventStands
  OBVIOUS
<1>1. TypeOK /\ park \in [Waits -> Parks]
  BY Shapes DEF IInv
<1>2. ASSUME UNCHANGED park PROVE EventStands
  BY <1>2, ParksStand
<1>3. ASSUME NEW w \in Waits, WaitStep(w) PROVE EventStands
  <2>1. CASE RequestExit(w)
    BY <1>2, <2>1, ResolvedStands DEF RequestExit
  <2>2. CASE StartWait(w)
    <3>1. ASSUME park[w].status \in {"absent", "waiting"},
                 park' = [park EXCEPT ![w] = Parked(w)]
          PROVE  EventStands
      <4>1. ~HoldsEvent(w)
        BY <3>1 DEF HoldsEvent
      <4> QED
        BY <1>1, <3>1, <4>1, OneParkStands
    <3> QED
      BY <1>2, <2>2, <3>1 DEF StartWait
  <2>3. CASE ReparkWait(w)
    <3>1. ASSUME ReparkablePark(park[w]), park' = [park EXCEPT ![w] = Parked(w)]
          PROVE  EventStands
      <4>1. ~HoldsEvent(w)
        BY <3>1 DEF HoldsEvent, ReparkablePark
      <4> QED
        BY <1>1, <3>1, <4>1, OneParkStands
    <3> QED
      BY <1>2, <2>3, <3>1 DEF ReparkWait, VersionRefused
  <2>4. CASE ResumeSettle(w)
    <3> DEFINE how == IF IsClaimWake(body.wake[w]) THEN "cancelled"
                      ELSE IF /\ body.wake[w] = "timeout"
                              /\ Mode[w][body.version] = "event"
                              /\ ~(/\ park[w].wake = "resume"
                                   /\ OpenPark(park[w]) \/ park[w].status = "resumed")
                        THEN "timed_out" ELSE "resumed"
    <3>1. HoldsEvent(w) =>
            IF IsClaimWake(body.wake[w]) THEN how = "cancelled" ELSE how = "resumed"
      BY DEF HoldsEvent, OpenPark
    <3>2. IsClaimWake(body.wake[w]) => exec.claim # "none"
      BY DEF IInv, Local, ClaimedBy
    <3>3. \/ UNCHANGED park
          \/ park' = [park EXCEPT ![w] = [park[w] EXCEPT !.status = how]]
      BY <1>1, <2>4 DEF ResumeSettle
    <3> QED
      BY <1>1, <1>2, <3>1, <3>2, <3>3, OneParkStands
  <2>5. CASE AbandonWait(w)
    <3>1. \/ UNCHANGED park
          \/ park' = [park EXCEPT ![w] = [park[w] EXCEPT !.status = "cancelled"]]
      BY <1>1, <2>5 DEF AbandonWait
    <3>2. Abandoned(w)
      BY <2>5 DEF AbandonWait
    <3> QED
      BY <1>1, <1>2, <3>1, <3>2, OneParkStands
  <2>6. CASE PrepareRefused(w) \/ ResumeRefused(w)
    BY <1>2, <2>6 DEF PrepareRefused, ResumeRefused, VersionRefused
  <2>7. CASE \/ AdmitOpen(w) \/ AdmitClose(w) \/ Admitted(w) \/ Resolve(w)
             \/ PrepareEnds(w) \/ PrepareParks(w) \/ WaitForEvent(w)
             \/ ResumeFence(w) \/ ResumeEnds(w) \/ Replayed(w) \/ Check(w)
    BY <1>2, <2>7
       DEF AdmitOpen, AdmitClose, Admitted, Resolve, PrepareEnds, PrepareParks,
           WaitForEvent, ResumeFence, ResumeEnds, Replayed, Check
  <2> QED
    BY <1>3, <2>1, <2>2, <2>3, <2>4, <2>5, <2>6, <2>7, Zenon DEF WaitStep
<1>4. CASE Claim
  BY <1>4, ParksStand DEF Claim, OverduePark, HoldsEvent
<1>5. CASE RecordEnd
  <2>1. TerminalStatus \in Verdicts /\ "exited" \in Verdicts
    BY DEF TerminalStatus, Verdicts
  <2> QED
    BY <1>1, <1>2, <1>5, <2>1, EndStands DEF RecordEnd
<1>6. CASE Producer
  <2>1. CASE RequestCancel
    BY <2>1, ResolvedStands DEF RequestCancel
  <2>2. CASE \E v \in Versions : Migrate(v)
    BY <2>2, ResolvedStands DEF Migrate
  <2>3. CASE EndInFlight
    BY <1>1, <2>3, EndStands DEF EndInFlight, Verdicts
  <2>4. ASSUME NEW w \in Waits, DeliverEvent(w) PROVE EventStands
    <3>1. ~HoldsEvent(w)
      BY <2>4 DEF DeliverEvent, ClaimablePark, HoldsEvent
    <3>2. park' = [park EXCEPT ![w] =
                     [park[w] EXCEPT !.status = "resuming", !.wake = "resume"]]
      BY <1>1, <2>4 DEF DeliverEvent
    <3> QED
      BY <1>1, <3>1, <3>2, OneParkStands
  <2> QED
    BY <1>6, <2>1, <2>2, <2>3, <2>4 DEF Producer
<1>7. ASSUME NEW w \in Waits, DeadlinePasses(w) PROVE EventStands
  <2>1. ~HoldsEvent(w)
    BY <1>7 DEF DeadlinePasses, HoldsEvent
  <2>2. park' = [park EXCEPT ![w] = [park[w] EXCEPT !.deadline = "passed"]]
    BY <1>1, <1>7 DEF DeadlinePasses
  <2> QED
    BY <1>1, <2>1, <2>2, OneParkStands
<1>8. CASE \/ Open \/ Drain \/ MarkWaitingIfParked \/ ReleaseParked \/ ReadOutcome
           \/ PassCut \/ BackoffEnds \/ UNCHANGED vars
  BY <1>2, <1>8 DEF Open, Drain, MarkWaitingIfParked, ReleaseParked, ReadOutcome,
                    PassCut, BackoffEnds, vars
<1> QED
  BY <1>3, <1>4, <1>5, <1>6, <1>7, <1>8, Zenon DEF Next, PassStep

-----------------------------------------------------------------------------
(* What holds of every behaviour                                           *)

LEMMA Invariant == Spec => []IInv
<1>1. IInv /\ [Next]_vars => IInv'
  BY StepIInv
<1> QED
  BY <1>1, InitIInv, PTL DEF Spec

(***************************************************************************)
(* Every variable keeps its type: an attempt is only ever appended or      *)
(* given a wake of its own kind, and a bound holds for the workflow the    *)
(* run is of, which no step changes.                                       *)
(***************************************************************************)
THEOREM TypeCorrect == Spec => []TypeOK
<1>1. IInv => TypeOK
  BY DEF IInv
<1> QED
  BY <1>1, Invariant, PTL

(***************************************************************************)
(* A run asleep has a park that wakes it, whatever races the release: the  *)
(* release reads every park in the write that puts the run to sleep, and a *)
(* producer's wake and the row it requeues are one write.                  *)
(***************************************************************************)
THEOREM NoRunSleepsThroughAWake == Spec => []NoWakeSleptThrough
<1>1. IInv => NoWakeSleptThrough
  BY DEF IInv
<1> QED
  BY <1>1, Invariant, PTL

(***************************************************************************)
(* No Wait stays parked on a side of the graph the run's claim closed,     *)
(* whichever of the claim and the park was written first.                  *)
(***************************************************************************)
THEOREM ClaimsCloseTheirSide == Spec => []ClaimLeavesNoParkWaiting
<1>1. IInv => ClaimLeavesNoParkWaiting
  BY DEF IInv, Local, ClaimLeavesNoParkWaiting
<1> QED
  BY <1>1, Invariant, PTL

(***************************************************************************)
(* No attempt of an event Wait ends as a timeout with an Event on its row, *)
(* for any modes of the versions the run is moved between.                 *)
(***************************************************************************)
THEOREM EventsBeatTimeouts == Spec => []EventBeatsTimeout
<1>1. IInv => EventBeatsTimeout
  BY DEF IInv, Local, EventBeatsTimeout
<1> QED
  BY <1>1, Invariant, PTL

(***************************************************************************)
(* The Canceled outlet is entered only with a Cancel claim, and a run is   *)
(* recorded canceled only once the Waits that head its outlet have ended.  *)
(***************************************************************************)
THEOREM CanceledThroughItsOutlet == Spec => []CanceledAfterItsOutlet
<1>1. ASSUME IInv PROVE CanceledAfterItsOutlet
  <2>1. ASSUME NEW w \in Canceled
        PROVE  /\ w \in Waits /\ OutletOf(w)
               /\ Len(att[w]) \in Nat /\ (att[w] # <<>> => Len(att[w]) # 0)
    <3>1. w \in Waits
      BY GraphAssumption
    <3>2. att[w] \in Seq(Attempts)
      BY <1>1, <3>1 DEF IInv, TypeOK
    <3> QED
      BY <1>1, <3>1, <3>2 DEF IInv, Local
  <2>2. ASSUME NEW w \in Canceled, att[w] # <<>>
        PROVE  att[w][Len(att[w])] = att[w][1]
    <3>1. Len(att[w]) \in Nat /\ Len(att[w]) # 0 /\ Len(att[w]) <= 1
      BY <2>1, <2>2 DEF OutletOf
    <3>2. \A n \in Nat : n # 0 /\ n <= 1 => n = 1
      OBVIOUS
    <3>3. Len(att[w]) = 1
      BY <3>1, <3>2, Zenon
    <3> QED
      BY <3>3
  <2> QED
    BY <2>1, <2>2 DEF OutletOf, CanceledAfterItsOutlet
<1> QED
  BY <1>1, Invariant, PTL

(***************************************************************************)
(* The first claim is never replaced, pins the version, and names the      *)
(* verdict the run is recorded with.                                       *)
(***************************************************************************)
THEOREM FirstClaimDecides == Spec => ClaimDecidesTheEnd
<1>1. IInv /\ [Next]_vars => [ClaimStands]_vars
  BY StepClaimStands
<1>2. Spec => [][ClaimStands]_vars
  BY <1>1, Invariant, PTL DEF Spec
<1> QED
  BY <1>2 DEF ClaimDecidesTheEnd, ClaimStands

(***************************************************************************)
(* An Event a park was claimed for stays on its row until the Wait resumes *)
(* with it, unless a claim, the run's end or an abandoned Wait closes it.  *)
(***************************************************************************)
THEOREM EventsAreKept == Spec => AcceptedEventKept
<1>1. IInv /\ [Next]_vars => [EventStands]_vars
  BY StepEventStands
<1>2. Spec => [][EventStands]_vars
  BY <1>1, Invariant, PTL DEF Spec
<1> QED
  BY <1>2 DEF AcceptedEventKept, EventStands, HoldsEvent

(***************************************************************************)
(* A Wait whose resume nothing beside it can disturb resumes under the     *)
(* version the run pins.                                                   *)
(***************************************************************************)
THEOREM ResumesUnderThePin == Spec => ResumedUnderPinnedVersion
<1>1. IInv => ResumesPinned
  BY DEF IInv, Local, Pinned, At, ResumesPinned
<1>2. IInv /\ [Next]_vars => [ResumesPinned]_vars
  BY <1>1
<1>3. Spec => [][ResumesPinned]_vars
  BY <1>2, Invariant, PTL DEF Spec
<1> QED
  BY <1>3 DEF ResumedUnderPinnedVersion, ResumesPinned
=============================================================================
