--------------------------- MODULE CronTimersProofs ---------------------------
(***************************************************************************)
(* Proofs about CronTimers, for any schedules, graphs, requests, passes    *)
(* and bounds.                                                             *)
(*                                                                         *)
(* Three things carry them.  A row comes to name a pass only when that     *)
(* pass, idle, claims it, so what is true of a pass that holds its row has *)
(* been true since the claim.  A row is there exactly while the published  *)
(* version declares its schedule and nothing is paused, so a fire that     *)
(* holds its row and whose snapshot nothing rewrote decides from the       *)
(* version still published (TimersMatch, FireSees).  And the slots of a    *)
(* row that somebody may still answer lie past every slot answered         *)
(* already, which one operator's requests keep and two do not (Ahead).     *)
(***************************************************************************)
EXTENDS CronTimers, TLAPS, FiniteSetTheorems, WellFoundedInduction

Rows ==
  [st : {"none", "waiting", "queued", "leased"}, wake : 0 .. Undated,
   owner : Passes \cup {None}, attempt : Nat, since : 0 .. MaxNow]

Asked ==
  [op : {"none", "publish", "pause", "resume"}, version : Nat,
   graph : Graphs \cup {None}, now : 0 .. MaxNow]

Doing ==
  [at : {"idle", "check", "fire", "firing", "skip", "spent"},
   s : Schedules \cup {None}, tries : 0 .. STALE_FIRE_ATTEMPTS - 1,
   version : Nat, mode : Modes, slot : 0 .. MaxNow, next : 0 .. Undated,
   checked : BOOLEAN, clean : BOOLEAN, verdict : {"current", "stale", "dropped"}]

Answered == [s : Schedules, slot : 0 .. MaxNow]

Shapes ==
  /\ clock \in 0 .. MaxNow
  /\ versions \in Seq(Graphs) /\ mode \in Modes /\ paused \in BOOLEAN
  /\ timer \in [Schedules -> Rows]
  /\ request \in [Requests -> Asked]
  /\ pass \in [Passes -> Doing]
  /\ count \in [changes : Nat, losses : Nat]
  /\ answered \in Seq(Answered)

(* What the records owe each other.                                        *)
RowsNamed == \A s \in Schedules : timer[s].st = "leased" <=> timer[s].owner # None

RequestsRead ==
  \A e \in Requests :
    /\ request[e].version <= Published /\ request[e].now <= clock
    /\ request[e].op = "publish" => request[e].graph \in Graphs
    /\ request[e].op \in {"pause", "resume"} => e \in Operators

PassesRead ==
  \A p \in Passes :
    /\ pass[p].at = "idle" <=> pass[p].s = None
    /\ pass[p].version <= Published

TypeInv == Shapes /\ RowsNamed /\ RequestsRead /\ PassesRead

(* A fire that holds its row was not dropped by its snapshot, and if its   *)
(* transaction can commit, what it saw published is published.             *)
FireSees ==
  \A p \in Passes : pass[p].at = "firing" /\ Holds(p) =>
    /\ pass[p].verdict # "dropped"
    /\ pass[p].clean /\ pass[p].verdict = "current" =>
         pass[p].version = Published

(* No slot lies between the one a pass answers and the next wake it read.  *)
SlotRead(p) ==
  /\ pass[p].slot < pass[p].next
  /\ pass[p].slot <= clock
  /\ pass[p].next \in Slots[pass[p].s] \cup {Undated}
  /\ \A x \in Slots[pass[p].s] : x < pass[p].next => x <= pass[p].slot

SlotsRead ==
  \A p \in Passes : pass[p].at \in {"fire", "firing", "skip"} => SlotRead(p)

(* The inductive invariant.                                                *)
IInv == TypeInv /\ TimersMatch /\ FireSees /\ SlotsRead /\ EachSlotAnswered

-----------------------------------------------------------------------------
(* What one operator's requests keep                                       *)

(* At most one request pauses and resumes the workflow: two make a slot    *)
(* fire twice (CronTimersTwice.cfg).                                       *)
OneOperator == \A o, q \in Operators : o = q

(* Every slot of s answered so far lies before x, or is not past it.       *)
AllBefore(s, x) == \A i \in DOMAIN answered : answered[i].s = s => answered[i].slot < x
NonePast(s, x) == \A i \in DOMAIN answered : answered[i].s = s => answered[i].slot <= x

(* A claimed row still owes a slot that has come.                          *)
Owes(s) == \E x \in Slots[s] : x <= clock /\ AllBefore(s, x)

RowsAhead ==
  \A s \in Schedules :
    /\ timer[s].st = "waiting" =>
         timer[s].wake \in Slots[s] \cup {Undated} /\ AllBefore(s, timer[s].wake)
    /\ timer[s].st \in {"queued", "leased"} => Owes(s)

PassesAhead ==
  \A p \in Passes : pass[p].at \in {"fire", "firing", "skip"} /\ Holds(p) =>
    AllBefore(pass[p].s, pass[p].slot)

(* A request that may still make a row read the clock after the last slot  *)
(* answered for it.                                                        *)
RequestsAhead ==
  \A e \in Requests :
    /\ request[e].op = "pause" => ~paused
    /\ request[e].op = "resume" =>
         paused /\ \A s \in Schedules : NonePast(s, request[e].now)
    /\ request[e].op = "publish" /\ request[e].version = Published =>
         \A s \in Schedules \ SchedulesOf(Published) : NonePast(s, request[e].now)

ClockPasses == \A i \in DOMAIN answered : answered[i].slot <= clock

Ahead == RowsAhead /\ PassesAhead /\ ClockPasses /\ SlotsAnsweredOnce

-----------------------------------------------------------------------------
(* The least and the greatest of bounded numbers                           *)

(* A nonempty bounded set of numbers has a least element: the elements     *)
(* below each make a family of finite sets, which has a minimal one.       *)
LEMMA LeastOne ==
  ASSUME NEW T \in SUBSET Nat, NEW n \in Nat, \A t \in T : t <= n, T # {}
  PROVE  \E x \in T : \A y \in T : x <= y
<1> DEFINE Below(x) == {y \in T : y <= x}
           Family == {Below(x) : x \in T}
<1>1. IsFiniteSet(T)
  BY FS_BoundedSetOfNaturals
<1>2. Family \subseteq FiniteSubsetsOf(T) /\ Family # {}
  <2>1. FiniteSubsetsOf(T) = SUBSET T
    BY <1>1, FS_FiniteSubsetsOfFinite, Zenon
  <2>2. Family \in SUBSET (SUBSET T)
    OBVIOUS
  <2>3. PICK t \in T : TRUE
    OBVIOUS
  <2>4. Below(t) \in Family
    BY <2>3
  <2> QED
    BY <2>1, <2>2, <2>4, Zenon
<1>3. PICK U \in Family : \A V \in Family : <<V, U>> \notin StrictSubsetOrdering(T)
  BY <1>2, FS_StrictSubsetOrderingWellFounded, WFMin, Zenon
<1>4. PICK x \in T : U = Below(x)
  BY Zenon
<1>5. ASSUME NEW y \in T, y < x PROVE FALSE
  <2>0. x \in Nat /\ y \in Nat /\ x <= x /\ ~(x <= y)
    BY <1>5
  <2>a. \A z \in T : z <= y => z <= x
    BY <1>5
  <2>1. Below(y) \subseteq Below(x) /\ x \in Below(x) /\ x \notin Below(y)
    BY <2>0, <2>a, Zenon
  <2>2. <<Below(y), U>> \in StrictSubsetOrdering(T)
    BY <1>4, <2>1, Zenon DEF StrictSubsetOrdering
  <2> QED
    BY <1>3, <2>2, Zenon
<1>6. \A y \in T : x <= y
  BY <1>4, <1>5
<1> QED
  BY <1>4, <1>6

(* And a greatest, by the elements above each.                             *)
LEMMA GreatestOne ==
  ASSUME NEW T \in SUBSET Nat, NEW n \in Nat, \A t \in T : t <= n, T # {}
  PROVE  \E x \in T : \A y \in T : x >= y
<1> DEFINE Gap == {n - t : t \in T}
<1>1. Gap \in SUBSET Nat /\ \A g \in Gap : g <= n
  OBVIOUS
<1>a. Gap # {}
  <2>1. PICK t \in T : TRUE
    OBVIOUS
  <2>2. n - t \in Gap
    BY <2>1
  <2> QED
    BY <2>2
<1>2. PICK g \in Gap : \A h \in Gap : g <= h
  BY <1>1, <1>a, LeastOne
<1>3. PICK x \in T : g = n - x
  OBVIOUS
<1>4. ASSUME NEW y \in T PROVE x >= y
  <2>1. n - y \in Gap
    OBVIOUS
  <2>2. n - x <= n - y /\ x \in Nat /\ y \in Nat
    BY <1>2, <1>3, <2>1
  <2> QED
    BY <2>2
<1> QED
  BY <1>4

LEMMA MinIsLeast ==
  ASSUME NEW T \in SUBSET Nat, NEW n \in Nat, \A t \in T : t <= n, T # {}
  PROVE  Min(T) \in T /\ \A y \in T : Min(T) <= y
BY LeastOne DEF Min

LEMMA MaxIsGreatest ==
  ASSUME NEW T \in SUBSET Nat, NEW n \in Nat, \A t \in T : t <= n, T # {}
  PROVE  Max(T) \in T /\ \A y \in T : Max(T) >= y
BY GreatestOne DEF Max

(* The next wake of a schedule: its first slot past the clock.             *)
LEMMA WakeAfter ==
  ASSUME NEW s \in Schedules, NEW now \in 0 .. MaxNow
  PROVE  /\ CronWakeAfter(s, now) \in Slots[s] \cup {Undated}
         /\ CronWakeAfter(s, now) \in 0 .. Undated
         /\ CronWakeAfter(s, now) > now
         /\ \A x \in Slots[s] : x > now => CronWakeAfter(s, now) <= x
<1> DEFINE T == {x \in Slots[s] : x > now} \cup {Undated}
<1>1. Slots[s] \subseteq 1 .. MaxNow /\ MaxNow \in Nat
  BY SlotsAreTimes, BoundsAreNumbers
<1>2. Undated \in Nat /\ Undated = MaxNow + 1
  BY <1>1 DEF Undated
<1>3. T \in SUBSET Nat /\ T # {} /\ \A t \in T : t <= Undated
  BY <1>1, <1>2
<1>4. CronWakeAfter(s, now) = Min(T)
  BY DEF CronWakeAfter
<1> HIDE DEF T
<1>5. Min(T) \in T /\ \A y \in T : Min(T) <= y
  BY <1>2, <1>3, MinIsLeast
<1>6. \A t \in T : t \in Slots[s] \cup {Undated} /\ t \in 0 .. Undated /\ t > now
  BY <1>1, <1>2 DEF T
<1>7. \A x \in Slots[s] : x > now => x \in T
  BY DEF T
<1> QED
  BY <1>4, <1>5, <1>6, <1>7

(* The slot a pass answers: the last one the clock has reached.            *)
LEMMA Latest ==
  ASSUME NEW s \in Schedules, NEW now \in 0 .. MaxNow
  PROVE  /\ LatestSlot(s, now) \in 0 .. MaxNow
         /\ LatestSlot(s, now) <= now
         /\ \A x \in Slots[s] : x <= now => x <= LatestSlot(s, now)
<1> DEFINE T == {0} \cup {x \in Slots[s] : x <= now}
<1>1. Slots[s] \subseteq 1 .. MaxNow /\ MaxNow \in Nat
  BY SlotsAreTimes, BoundsAreNumbers
<1>2. T \in SUBSET Nat /\ T # {} /\ now \in Nat /\ \A t \in T : t <= now
  BY <1>1
<1>3. LatestSlot(s, now) = Max(T)
  BY DEF LatestSlot
<1> HIDE DEF T
<1>4. Max(T) \in T /\ \A y \in T : Max(T) >= y
  BY <1>2, MaxIsGreatest
<1>5. \A t \in T : t \in 0 .. MaxNow /\ t <= now
  BY <1>1, <1>2 DEF T
<1>6. \A x \in Slots[s] : x <= now => x \in T
  BY DEF T
<1>7. \A x \in Slots[s] : x \in Nat
  BY <1>1
<1>8. Max(T) \in Nat
  BY <1>2, <1>4
<1> QED
  BY <1>3, <1>4, <1>5, <1>6, <1>7, <1>8

(* What a pass reads of its schedule leaves no slot out.                   *)
LEMMA ReadLeavesNone ==
  ASSUME NEW s \in Schedules, NEW now \in 0 .. MaxNow
  PROVE  /\ LatestSlot(s, now) < CronWakeAfter(s, now)
         /\ \A x \in Slots[s] : x < CronWakeAfter(s, now) => x <= LatestSlot(s, now)
<1>1. LatestSlot(s, now) \in Nat /\ CronWakeAfter(s, now) \in Nat /\ now \in Nat
  BY Latest, WakeAfter, BoundsAreNumbers DEF Undated
<1>2. LatestSlot(s, now) <= now /\ now < CronWakeAfter(s, now)
  BY Latest, WakeAfter
<1>3. ASSUME NEW x \in Slots[s], x < CronWakeAfter(s, now) PROVE x <= LatestSlot(s, now)
  <2>1. x \in Nat
    BY SlotsAreTimes, BoundsAreNumbers
  <2>2. x <= now
    BY <1>1, <1>3, <2>1, WakeAfter
  <2> QED
    BY <2>2, Latest
<1> QED
  BY <1>1, <1>2, <1>3

-----------------------------------------------------------------------------
(* Shapes                                                                  *)

LEMMA RecordsTyped ==
  /\ NoTimer \in Rows /\ Idle \in Doing /\ NoRequest \in Asked
  /\ None \notin Schedules /\ None \notin Passes /\ None \notin Graphs
  /\ MaxNow \in Nat /\ Undated = MaxNow + 1
<1> USE BoundsAreNumbers, NoneIsNoOne
<1>1. NoTimer \in Rows
  BY DEF NoTimer, Rows, Undated
<1>2. Idle \in Doing
  BY DEF Idle, Doing, Undated, Modes
<1>3. NoRequest \in Asked
  BY DEF NoRequest, Asked
<1> QED
  BY <1>1, <1>2, <1>3 DEF Undated

LEMMA NewTimerTyped ==
  ASSUME NEW s \in Schedules, NEW now \in 0 .. MaxNow
  PROVE  /\ NewTimer(s, now) \in Rows
         /\ NewTimer(s, now).st = "waiting" /\ NewTimer(s, now).owner = None
         /\ NewTimer(s, now).since = now
         /\ NewTimer(s, now).wake = CronWakeAfter(s, now)
<1>1. CronWakeAfter(s, now) \in 0 .. Undated
  BY WakeAfter
<1> QED
  BY <1>1 DEF NewTimer, Rows

LEMMA InitTyped == Init => IInv /\ Ahead /\ RequestsAhead
<1> SUFFICES ASSUME Init PROVE IInv /\ Ahead /\ RequestsAhead
  OBVIOUS
<1> USE RecordsTyped DEF Init
<1>1. Shapes
  <2>0. 0 \in 0 .. MaxNow
    BY BoundsAreNumbers
  <2>1. clock \in 0 .. MaxNow /\ mode \in Modes /\ paused \in BOOLEAN
    BY <2>0 DEF Modes
  <2>2. versions \in Seq(Graphs) /\ answered \in Seq(Answered)
    OBVIOUS
  <2>3. /\ timer \in [Schedules -> Rows] /\ request \in [Requests -> Asked]
        /\ pass \in [Passes -> Doing] /\ count \in [changes : Nat, losses : Nat]
    OBVIOUS
  <2> QED
    BY <2>1, <2>2, <2>3 DEF Shapes
<1>2. RowsNamed
  BY DEF RowsNamed, NoTimer
<1>3. RequestsRead
  BY DEF RequestsRead, NoRequest, Published
<1>4. PassesRead
  BY DEF PassesRead, Idle, Published
<1>5. TimersMatch
  BY DEF TimersMatch, NoTimer, TimerSchedules, SchedulesOf, Published
<1>6. FireSees
  BY DEF FireSees, Idle
<1>7. SlotsRead
  BY DEF SlotsRead, Idle
<1>8. EachSlotAnswered
  BY DEF EachSlotAnswered, NoTimer
<1>9. RowsAhead
  BY DEF RowsAhead, NoTimer
<1>10. PassesAhead /\ ClockPasses /\ SlotsAnsweredOnce
  BY DEF PassesAhead, ClockPasses, SlotsAnsweredOnce, Idle
<1>11. RequestsAhead
  BY DEF RequestsAhead, NoRequest
<1> QED
  BY <1>1, <1>2, <1>3, <1>4, <1>5, <1>6, <1>7, <1>8, <1>9, <1>10, <1>11
     DEF IInv, TypeInv, Ahead

LEMMA TypeInvSays == TypeInv => TypeOK
<1> SUFFICES ASSUME TypeInv PROVE TypeOK
  OBVIOUS
<1> USE RecordsTyped DEF TypeInv, Shapes
<1>1. Published \in Nat
  BY DEF Published
<1>2. \A s \in Schedules :
        /\ timer[s].st \in {"none", "waiting", "queued", "leased"}
        /\ timer[s].wake \in 0 .. Undated /\ timer[s].since \in 0 .. MaxNow
        /\ timer[s].attempt \in Nat
        /\ timer[s].owner \in Passes \cup {None}
        /\ timer[s].st = "leased" <=> timer[s].owner # None
  <2> SUFFICES ASSUME NEW s \in Schedules
               PROVE  /\ timer[s] \in Rows
                      /\ timer[s].st = "leased" <=> timer[s].owner # None
    BY DEF Rows
  <2> QED
    BY DEF RowsNamed
<1>3. \A e \in Requests :
        /\ request[e].op \in {"none", "publish", "pause", "resume"}
        /\ request[e].version \in 0 .. Published /\ request[e].now \in 0 .. clock
  <2> SUFFICES ASSUME NEW e \in Requests
               PROVE  /\ request[e] \in Asked
                      /\ request[e].version <= Published /\ request[e].now <= clock
    BY <1>1 DEF Asked
  <2> QED
    BY DEF RequestsRead
<1>4. \A p \in Passes :
        /\ pass[p].at \in {"idle", "check", "fire", "firing", "skip", "spent"}
        /\ pass[p].at = "idle" <=> pass[p].s = None
        /\ pass[p].tries \in 0 .. STALE_FIRE_ATTEMPTS - 1
        /\ pass[p].version \in 0 .. Published
        /\ pass[p].verdict \in {"current", "stale", "dropped"}
  <2> SUFFICES ASSUME NEW p \in Passes
               PROVE  /\ pass[p] \in Doing
                      /\ pass[p].at = "idle" <=> pass[p].s = None
                      /\ pass[p].version <= Published
    BY <1>1 DEF Doing
  <2> QED
    BY DEF PassesRead
<1> QED
  BY <1>2, <1>3, <1>4 DEF TypeOK

-----------------------------------------------------------------------------
(* What a step of a pass comes to                                          *)

HasSlot == {"fire", "firing", "skip"}

(* The pass works on: it may fix the version its fire commits, and what it *)
(* answers is what it answered before or what it reads of its schedule now.*)
WorksOn(p) ==
  \E r \in Doing :
    /\ pass' = [pass EXCEPT ![p] = r]
    /\ UNCHANGED <<timer, answered>>
    /\ r.at # "idle" /\ r.s = pass[p].s /\ r.version <= Published
    /\ r.at = "firing" => r.version = pass[p].version /\ r.verdict = Verdict(p)
    /\ r.at \in HasSlot =>
         \/ pass[p].at \in HasSlot /\ r.slot = pass[p].slot /\ r.next = pass[p].next
         \/ r.slot = LatestSlot(r.s, clock) /\ r.next = CronWakeAfter(r.s, clock)

(* It stops, and its row stays as it is.                                   *)
GivesUp(p) == Stops(p) /\ UNCHANGED <<timer, answered>>

(* It stops, and its row is released for a retry.                          *)
Releases(p) ==
  /\ Holds(p) /\ Stops(p) /\ UNCHANGED answered
  /\ timer' = [timer EXCEPT ![pass[p].s] =
       [@ EXCEPT !.st = "queued", !.wake = clock, !.owner = None,
                 !.attempt = Row(p).attempt + 1]]

(* It answers its slot: a fire on the published version, or a skip.        *)
MovesOn(p) ==
  /\ Holds(p) /\ MoveOn(p) /\ pass[p].at \in {"firing", "skip"}
  /\ pass[p].at = "firing" =>
       /\ pass[p].clean /\ pass[p].verdict = "current"
       /\ pass[p].s \in SchedulesOf(pass[p].version)

PassStep(p) ==
  /\ pass[p].at # "idle" /\ UNCHANGED <<clock, workflow, request>>
  /\ count' \in [changes : Nat, losses : Nat]
  /\ WorksOn(p) \/ GivesUp(p) \/ Releases(p) \/ MovesOn(p)

LEMMA WorkTyped ==
  ASSUME TypeInv, NEW p \in Passes, pass[p].at # "idle"
  PROVE  /\ pass[p] \in Doing /\ pass[p].s \in Schedules
         /\ timer[pass[p].s] \in Rows /\ pass[p].version <= Published
         /\ Published \in Nat
BY DEF TypeInv, Shapes, PassesRead, Doing, Published

(* A pass that holds its row is one whose schedule is still published.     *)
LEMMA HeldIsPublished ==
  ASSUME TypeInv, TimersMatch, NEW p \in Passes, pass[p].at # "idle", Holds(p)
  PROVE  /\ timer[pass[p].s].st = "leased"
         /\ ~paused /\ Published > 0 /\ pass[p].s \in SchedulesOf(Published)
<1>1. pass[p].s \in Schedules /\ timer[pass[p].s].owner = p /\ p # None /\ Published \in Nat
  BY WorkTyped, RecordsTyped DEF Holds, Row
<1>2. timer[pass[p].s].st = "leased"
  BY <1>1 DEF TypeInv, RowsNamed
<1>3. pass[p].s \in TimerSchedules(paused, SchedulesOf(Published))
  BY <1>1, <1>2 DEF TimersMatch
<1> QED
  BY <1>1, <1>2, <1>3 DEF TimerSchedules, SchedulesOf

LEMMA FailsComesTo ==
  ASSUME TypeInv, NEW p \in Passes, pass[p].at # "idle", Fails(p), UNCHANGED answered
  PROVE  WorksOn(p) \/ GivesUp(p) \/ Releases(p)
<1>1. CASE ~Holds(p)
  BY <1>1 DEF Fails, GivesUp
<1>2. CASE Holds(p) /\ RetriesSpent(Row(p).attempt + 1)
  <2> DEFINE r == [pass[p] EXCEPT !.at = "spent"]
  <2>1. r \in Doing /\ r.at = "spent" /\ r.s = pass[p].s /\ r.version <= Published
    BY WorkTyped DEF Doing
  <2>2. pass' = [pass EXCEPT ![p] = r] /\ UNCHANGED <<timer, answered>>
    BY <1>2 DEF Fails
  <2> HIDE DEF r
  <2> QED
    BY <2>1, <2>2 DEF WorksOn, HasSlot
<1>3. CASE Holds(p) /\ ~RetriesSpent(Row(p).attempt + 1)
  BY <1>3 DEF Fails, Releases
<1> QED
  BY <1>1, <1>2, <1>3

LEMMA StaleComesTo ==
  ASSUME TypeInv, NEW p \in Passes, pass[p].at # "idle", Stale(p), UNCHANGED answered
  PROVE  WorksOn(p) \/ GivesUp(p) \/ Releases(p)
<1>1. CASE pass[p].tries + 1 < STALE_FIRE_ATTEMPTS
  <2> DEFINE r == [Idle EXCEPT !.at = "check", !.s = pass[p].s, !.tries = pass[p].tries + 1]
  <2>1. pass[p].tries \in Nat /\ pass[p].s \in Schedules /\ Published \in Nat
    BY WorkTyped DEF Doing
  <2>2. pass[p].tries + 1 \in 0 .. STALE_FIRE_ATTEMPTS - 1
    BY <1>1, <2>1, BoundsAreNumbers
  <2>a. Idle \in Doing
    BY RecordsTyped
  <2>b. r \in Doing
    BY <2>1, <2>2, <2>a DEF Doing
  <2>c. r.at = "check" /\ r.s = pass[p].s /\ r.version <= Published
    BY <2>1 DEF Idle
  <2>3. r \in Doing /\ r.at = "check" /\ r.s = pass[p].s /\ r.version <= Published
    BY <2>b, <2>c
  <2>4. pass' = [pass EXCEPT ![p] = r] /\ UNCHANGED <<timer, answered>>
    BY <1>1 DEF Stale
  <2> HIDE DEF r
  <2> QED
    BY <2>3, <2>4 DEF WorksOn, HasSlot
<1>2. CASE ~(pass[p].tries + 1 < STALE_FIRE_ATTEMPTS)
  BY <1>2, FailsComesTo DEF Stale
<1> QED
  BY <1>1, <1>2

LEMMA CountsStay == TypeInv /\ UNCHANGED count => count' \in [changes : Nat, losses : Nat]
BY DEF TypeInv, Shapes

LEMMA CrashComesTo ==
  ASSUME TypeInv, NEW p \in Passes, Crash(p)
  PROVE  PassStep(p)
<1>1. count' \in [changes : Nat, losses : Nat]
  BY DEF Crash, TypeInv, Shapes
<1> QED
  BY <1>1 DEF Crash, PassStep, GivesUp

LEMMA CheckComesTo ==
  ASSUME TypeInv, NEW p \in Passes, Check(p)
  PROVE  PassStep(p)
<1> DEFINE s == pass[p].s
           at == IF versions[Published].runnable THEN "fire" ELSE "skip"
           r == [pass[p] EXCEPT !.at = at,
                   !.checked = TRUE, !.version = Published, !.mode = mode,
                   !.slot = LatestSlot(s, clock), !.next = CronWakeAfter(s, clock)]
<1>1. pass[p].at # "idle"
  BY DEF Check
<1>2. /\ pass[p] \in Doing /\ s \in Schedules /\ Published \in Nat
      /\ mode \in Modes /\ clock \in 0 .. MaxNow
  BY <1>1, WorkTyped DEF TypeInv, Shapes
<1>3. LatestSlot(s, clock) \in 0 .. MaxNow /\ CronWakeAfter(s, clock) \in 0 .. Undated
  BY <1>2, Latest, WakeAfter
<1>4. at \in {"fire", "skip"}
  OBVIOUS
<1>5. pass' = [pass EXCEPT ![p] = r] /\ UNCHANGED <<timer, answered>>
  BY DEF Check
<1> HIDE DEF at
<1>6. r \in Doing
  BY <1>2, <1>3, <1>4 DEF Doing
<1>7. /\ r.at \in {"fire", "skip"} /\ r.s = s /\ r.version <= Published
      /\ r.slot = LatestSlot(s, clock) /\ r.next = CronWakeAfter(s, clock)
  BY <1>2, <1>4 DEF Doing
<1> HIDE DEF r
<1>8. WorksOn(p)
  BY <1>5, <1>6, <1>7 DEF WorksOn
<1> QED
  BY <1>1, <1>8, CountsStay DEF Check, PassStep

LEMMA ReadSpentComesTo ==
  ASSUME TypeInv, NEW p \in Passes, ReadSpentSlot(p)
  PROVE  PassStep(p)
<1> DEFINE s == pass[p].s
           r == [pass[p] EXCEPT !.at = "skip", !.checked = FALSE,
                   !.slot = LatestSlot(s, clock), !.next = CronWakeAfter(s, clock)]
<1>1. pass[p].at # "idle"
  BY DEF ReadSpentSlot
<1>2. pass[p] \in Doing /\ s \in Schedules /\ clock \in 0 .. MaxNow /\ pass[p].version <= Published
  BY <1>1, WorkTyped DEF TypeInv, Shapes
<1>3. LatestSlot(s, clock) \in 0 .. MaxNow /\ CronWakeAfter(s, clock) \in 0 .. Undated
  BY <1>2, Latest, WakeAfter
<1>4. /\ r \in Doing /\ r.at = "skip" /\ r.s = s /\ r.version <= Published
      /\ r.slot = LatestSlot(s, clock) /\ r.next = CronWakeAfter(s, clock)
  BY <1>2, <1>3 DEF Doing
<1>5. pass' = [pass EXCEPT ![p] = r] /\ UNCHANGED <<timer, answered>>
  BY DEF ReadSpentSlot
<1> HIDE DEF r
<1>6. WorksOn(p)
  BY <1>4, <1>5 DEF WorksOn
<1> QED
  BY <1>1, <1>6, CountsStay DEF ReadSpentSlot, PassStep

LEMMA BeginFireComesTo ==
  ASSUME TypeInv, NEW p \in Passes, BeginFire(p)
  PROVE  PassStep(p)
<1> DEFINE r == [pass[p] EXCEPT !.at = "firing", !.verdict = Verdict(p), !.clean = TRUE]
<1>1. pass[p].at = "fire"
  BY DEF BeginFire
<1>2. pass[p] \in Doing /\ pass[p].version <= Published
  BY <1>1, WorkTyped
<1>3. Verdict(p) \in {"current", "stale", "dropped"}
  BY DEF Verdict
<1>4. /\ r \in Doing /\ r.at = "firing" /\ r.s = pass[p].s /\ r.version = pass[p].version
      /\ r.verdict = Verdict(p) /\ r.slot = pass[p].slot /\ r.next = pass[p].next
  BY <1>2, <1>3 DEF Doing
<1>5. pass' = [pass EXCEPT ![p] = r] /\ UNCHANGED <<timer, answered>>
  BY DEF BeginFire
<1> HIDE DEF r
<1>6. WorksOn(p)
  BY <1>1, <1>2, <1>4, <1>5 DEF WorksOn, HasSlot
<1> QED
  BY <1>1, <1>6, CountsStay DEF BeginFire, PassStep

LEMMA CommitFireComesTo ==
  ASSUME TypeInv, TimersMatch, FireSees, NEW p \in Passes, CommitFire(p)
  PROVE  PassStep(p)
<1>1. pass[p].at = "firing" /\ pass[p].at # "idle"
  BY DEF CommitFire
<1>2. CASE ~Holds(p)
  <2>1. GivesUp(p)
    BY <1>2 DEF CommitFire, GivesUp
  <2> QED
    BY <1>1, <2>1, CountsStay DEF CommitFire, PassStep
<1>3. CASE Holds(p) /\ ~pass[p].clean
  <2> DEFINE r == [pass[p] EXCEPT !.at = "fire", !.verdict = "current"]
  <2>1. /\ r \in Doing /\ r.at = "fire" /\ r.s = pass[p].s /\ r.version <= Published
        /\ r.slot = pass[p].slot /\ r.next = pass[p].next
    BY <1>1, WorkTyped DEF Doing
  <2>2. pass' = [pass EXCEPT ![p] = r] /\ UNCHANGED <<timer, answered>>
    BY <1>3 DEF CommitFire
  <2> HIDE DEF r
  <2>3. WorksOn(p)
    BY <1>1, <2>1, <2>2 DEF WorksOn, HasSlot
  <2> QED
    BY <1>1, <2>3, CountsStay DEF CommitFire, PassStep
<1>4. CASE Holds(p) /\ pass[p].clean /\ pass[p].verdict = "stale"
  <2>1. Stale(p) /\ UNCHANGED answered
    BY <1>4 DEF CommitFire
  <2> QED
    BY <1>1, <2>1, StaleComesTo, CountsStay DEF CommitFire, PassStep
<1>5. CASE Holds(p) /\ pass[p].clean /\ pass[p].verdict # "stale"
  <2>1. pass[p].verdict = "current" /\ pass[p].version = Published
    BY <1>1, <1>5, WorkTyped DEF FireSees, Doing
  <2>2. pass[p].s \in SchedulesOf(pass[p].version)
    BY <1>1, <1>5, <2>1, HeldIsPublished
  <2>3. MoveOn(p)
    BY <1>5, <2>1, <2>2 DEF CommitFire
  <2>4. MovesOn(p)
    BY <1>1, <1>5, <2>1, <2>2, <2>3 DEF MovesOn
  <2> QED
    BY <1>1, <2>4, CountsStay DEF CommitFire, PassStep
<1> QED
  BY <1>2, <1>3, <1>4, <1>5

(* A skip that holds its row finds its workflow published and not paused.  *)
LEMMA SkipSlotComesTo ==
  ASSUME TypeInv, TimersMatch, NEW p \in Passes, SkipSlot(p)
  PROVE  PassStep(p)
<1> DEFINE verdict == IF pass[p].checked THEN Verdict(p) ELSE "current"
<1>1. pass[p].at = "skip" /\ pass[p].at # "idle"
  BY DEF SkipSlot
<1>2. CASE ~Holds(p)
  <2>1. GivesUp(p)
    BY <1>2 DEF SkipSlot, GivesUp
  <2> QED
    BY <1>1, <2>1, CountsStay DEF SkipSlot, PassStep
<1>3. CASE Holds(p)
  <2>1. verdict # "dropped"
    BY <1>1, <1>3, HeldIsPublished DEF Verdict
  <2>2. CASE verdict = "stale"
    <3>1. Stale(p) /\ UNCHANGED answered
      BY <1>3, <2>2 DEF SkipSlot
    <3> QED
      BY <1>1, <3>1, StaleComesTo, CountsStay DEF SkipSlot, PassStep
  <2>3. CASE verdict # "stale"
    <3>1. MoveOn(p)
      BY <1>3, <2>1, <2>3 DEF SkipSlot
    <3>2. MovesOn(p)
      BY <1>1, <1>3, <3>1 DEF MovesOn
    <3> QED
      BY <1>1, <3>2, CountsStay DEF SkipSlot, PassStep
  <2> QED
    BY <2>2, <2>3
<1> QED
  BY <1>2, <1>3

LEMMA BodyFailsComesTo ==
  ASSUME TypeInv, NEW p \in Passes, BodyFails(p)
  PROVE  PassStep(p)
<1>1. pass[p].at # "idle" /\ Fails(p) /\ UNCHANGED answered
  BY DEF BodyFails
<1> QED
  BY <1>1, FailsComesTo, CountsStay DEF BodyFails, PassStep

-----------------------------------------------------------------------------
(* Shapes are kept                                                         *)

LEMMA OneRowChanges ==
  ASSUME TypeInv, NEW s \in Schedules, NEW r \in Rows,
         r.st = "leased" <=> r.owner # None, timer' = [timer EXCEPT ![s] = r]
  PROVE  timer' \in [Schedules -> Rows] /\ RowsNamed'
BY DEF TypeInv, Shapes, RowsNamed

LEMMA OnePassChanges ==
  ASSUME TypeInv, NEW p \in Passes, NEW r \in Doing, UNCHANGED versions,
         r.at = "idle" <=> r.s = None, r.version <= Published,
         pass' = [pass EXCEPT ![p] = r]
  PROVE  pass' \in [Passes -> Doing] /\ PassesRead'
BY DEF TypeInv, Shapes, PassesRead, Published

LEMMA StopsTyped ==
  ASSUME TypeInv, NEW p \in Passes, UNCHANGED versions, Stops(p)
  PROVE  /\ pass' \in [Passes -> Doing] /\ PassesRead'
         /\ pass'[p].at = "idle" /\ \A q \in Passes \ {p} : pass'[q] = pass[q]
<1>1. Idle \in Doing /\ Idle.at = "idle" /\ Idle.s = None /\ Idle.version <= Published
  BY RecordsTyped DEF Idle, Published, TypeInv, Shapes
<1>2. pass' = [pass EXCEPT ![p] = Idle] /\ pass \in [Passes -> Doing]
  BY DEF Stops, TypeInv, Shapes
<1> HIDE DEF Idle
<1> QED
  BY <1>1, <1>2, OnePassChanges

LEMMA WorksOnTyped ==
  ASSUME TypeInv, NEW p \in Passes, pass[p].at # "idle", UNCHANGED versions, WorksOn(p)
  PROVE  pass' \in [Passes -> Doing] /\ PassesRead'
<1>1. PICK r \in Doing :
        /\ r.at # "idle" /\ r.s = pass[p].s /\ r.version <= Published
        /\ pass' = [pass EXCEPT ![p] = r]
  BY DEF WorksOn
<1>2. r.s # None
  BY <1>1, WorkTyped, RecordsTyped
<1> QED
  BY <1>1, <1>2, OnePassChanges

LEMMA ReleasedTyped ==
  ASSUME TypeInv, NEW p \in Passes, pass[p].at # "idle", Releases(p)
  PROVE  /\ timer' \in [Schedules -> Rows] /\ RowsNamed'
         /\ timer'[pass[p].s].st = "queued" /\ timer'[pass[p].s].owner = None
         /\ \A s \in Schedules \ {pass[p].s} : timer'[s] = timer[s]
<1> DEFINE s == pass[p].s
           r == [timer[s] EXCEPT !.st = "queued", !.wake = clock, !.owner = None,
                                 !.attempt = timer[s].attempt + 1]
<1>1. s \in Schedules /\ timer[s] \in Rows /\ timer \in [Schedules -> Rows]
  BY WorkTyped DEF TypeInv, Shapes
<1>2. clock \in 0 .. Undated /\ timer[s].attempt + 1 \in Nat
  BY <1>1, RecordsTyped DEF TypeInv, Shapes, Rows
<1>3. r \in Rows /\ r.st = "queued" /\ r.owner = None
  BY <1>1, <1>2 DEF Rows
<1>4. timer' = [timer EXCEPT ![s] = r]
  BY <1>1 DEF Releases, Row
<1> HIDE DEF r
<1> QED
  BY <1>1, <1>3, <1>4, OneRowChanges

LEMMA MovedOnTyped ==
  ASSUME TypeInv, NEW p \in Passes, pass[p].at # "idle", MovesOn(p)
  PROVE  /\ timer' \in [Schedules -> Rows] /\ RowsNamed' /\ answered' \in Seq(Answered)
         /\ timer'[pass[p].s].st = "waiting" /\ timer'[pass[p].s].owner = None
         /\ timer'[pass[p].s].wake = pass[p].next
         /\ timer'[pass[p].s].since = timer[pass[p].s].since
         /\ \A s \in Schedules \ {pass[p].s} : timer'[s] = timer[s]
         /\ Stops(p)
<1> DEFINE s == pass[p].s
           r == [timer[s] EXCEPT !.st = "waiting", !.wake = pass[p].next, !.owner = None,
                                 !.attempt = 0]
<1>1. /\ s \in Schedules /\ timer[s] \in Rows /\ timer \in [Schedules -> Rows]
      /\ answered \in Seq(Answered) /\ pass[p] \in Doing
  BY WorkTyped DEF TypeInv, Shapes
<1>2. r \in Rows /\ r.st = "waiting" /\ r.owner = None /\ r.wake = pass[p].next
      /\ r.since = timer[s].since
  BY <1>1 DEF Rows, Doing
<1>3. timer' = [timer EXCEPT ![s] = r] /\ Stops(p)
  BY DEF MovesOn, MoveOn
<1>4. [s |-> s, slot |-> pass[p].slot] \in Answered
  BY <1>1 DEF Answered, Doing
<1>5. answered' = Append(answered, [s |-> s, slot |-> pass[p].slot])
  BY DEF MovesOn, MoveOn
<1>6. answered' \in Seq(Answered)
  BY <1>1, <1>4, <1>5
<1> HIDE DEF r
<1> QED
  BY <1>1, <1>2, <1>3, <1>6, OneRowChanges

LEMMA PassStepTyped ==
  ASSUME TypeInv, NEW p \in Passes, PassStep(p)
  PROVE  TypeInv'
<1>1. /\ pass[p].at # "idle" /\ UNCHANGED <<clock, versions, mode, paused, request>>
      /\ count' \in [changes : Nat, losses : Nat]
  BY DEF PassStep, workflow
<1>2. /\ timer' \in [Schedules -> Rows] /\ RowsNamed' /\ answered' \in Seq(Answered)
      /\ pass' \in [Passes -> Doing] /\ PassesRead'
  <2>1. CASE WorksOn(p)
    <3>1. UNCHANGED <<timer, answered>>
      BY <2>1 DEF WorksOn
    <3> QED
      BY <1>1, <2>1, <3>1, WorksOnTyped DEF TypeInv, Shapes, RowsNamed
  <2>2. CASE GivesUp(p)
    BY <1>1, <2>2, StopsTyped DEF GivesUp, TypeInv, Shapes, RowsNamed
  <2>3. CASE Releases(p)
    BY <1>1, <2>3, StopsTyped, ReleasedTyped DEF Releases, TypeInv, Shapes
  <2>4. CASE MovesOn(p)
    BY <1>1, <2>4, StopsTyped, MovedOnTyped
  <2> QED
    BY <2>1, <2>2, <2>3, <2>4 DEF PassStep
<1>3. RequestsRead'
  BY <1>1 DEF TypeInv, RequestsRead, Published
<1>4. Shapes'
  BY <1>1, <1>2 DEF TypeInv, Shapes
<1> QED
  BY <1>2, <1>3, <1>4 DEF TypeInv

(* A claim.                                                                *)
Leases(p, s) ==
  /\ pass[p].at = "idle" /\ timer[s].st # "none"
  /\ timer[s].st = "waiting" => timer[s].wake <= clock
  /\ UNCHANGED <<clock, workflow, request, answered>>
  /\ count' \in [changes : Nat, losses : Nat]
  /\ \E attempt \in Nat : Lease(p, s, attempt)

LEMMA ClaimsLease ==
  ASSUME TypeInv, NEW p \in Passes, NEW s \in Schedules, Claim(p, s) \/ ClaimExpired(p, s)
  PROVE  Leases(p, s)
<1>1. timer[s].attempt \in Nat /\ timer[s].attempt + 1 \in Nat
  BY DEF TypeInv, Shapes, Rows
<1>2. CASE Claim(p, s)
  BY <1>1, <1>2, CountsStay DEF Claim, Leases
<1>3. CASE ClaimExpired(p, s)
  <2>1. count' \in [changes : Nat, losses : Nat]
    BY <1>3 DEF ClaimExpired, TypeInv, Shapes
  <2> QED
    BY <1>1, <1>3, <2>1 DEF ClaimExpired, Leases
<1> QED
  BY <1>2, <1>3

LEMMA LeaseTyped ==
  ASSUME TypeInv, NEW p \in Passes, NEW s \in Schedules, Leases(p, s)
  PROVE  /\ TypeInv'
         /\ timer'[s].st = "leased" /\ timer'[s].owner = p
         /\ \A t \in Schedules \ {s} : timer'[t] = timer[t]
         /\ pass'[p].at \in {"check", "spent"} /\ pass'[p].s = s
         /\ \A q \in Passes \ {p} : pass'[q] = pass[q]
<1>1. PICK attempt \in Nat : Lease(p, s, attempt)
  BY DEF Leases
<1> DEFINE row == [timer[s] EXCEPT !.st = "leased", !.owner = p, !.attempt = attempt]
           at == IF RetriesSpent(attempt) THEN "spent" ELSE "check"
           r == [Idle EXCEPT !.s = s, !.at = at]
<1>2. /\ timer[s] \in Rows /\ timer \in [Schedules -> Rows] /\ pass \in [Passes -> Doing]
      /\ Published \in Nat
  BY DEF TypeInv, Shapes, Published
<1>3. row \in Rows /\ row.st = "leased" /\ row.owner = p /\ p # None
  BY <1>2, RecordsTyped DEF Rows
<1>4. timer' = [timer EXCEPT ![s] = row] /\ pass' = [pass EXCEPT ![p] = r]
  BY <1>1, <1>2 DEF Lease
<1>5. at \in {"spent", "check"}
  OBVIOUS
<1>6. r.at = at /\ r.s = s /\ r.version = 0 /\ s # None
  BY RecordsTyped DEF Idle
<1>7. Idle \in Doing
  BY RecordsTyped
<1> HIDE DEF at
<1>8. r \in Doing
  BY <1>5, <1>7 DEF Doing
<1> HIDE DEF row, r
<1>9. UNCHANGED <<clock, versions, mode, paused, request, answered>>
  BY DEF Leases, workflow
<1>10. timer' \in [Schedules -> Rows] /\ RowsNamed'
  BY <1>3, <1>4, OneRowChanges
<1>a. r.version <= Published /\ (r.at = "idle" <=> r.s = None)
  BY <1>2, <1>5, <1>6
<1>11. pass' \in [Passes -> Doing] /\ PassesRead'
  BY <1>4, <1>8, <1>9, <1>a, OnePassChanges
<1>12. RequestsRead'
  BY <1>9 DEF TypeInv, RequestsRead, Published
<1>13. Shapes'
  BY <1>9, <1>10, <1>11 DEF Leases, TypeInv, Shapes
<1> QED
  BY <1>2, <1>3, <1>4, <1>5, <1>6, <1>10, <1>11, <1>12, <1>13 DEF TypeInv

-----------------------------------------------------------------------------
(* What a request's step comes to                                          *)

(* The rows, the passes and what is published stay, and time may pass.     *)
Stays ==
  /\ UNCHANGED <<versions, paused, timer, pass, answered>>
  /\ clock' \in 0 .. MaxNow /\ clock <= clock'

(* The timers become those of what is published now.                       *)
Rewrites(now) ==
  /\ now \in 0 .. MaxNow /\ now <= clock
  /\ UNCHANGED <<clock, answered>>
  /\ ReplaceCronTimers(TimerSchedules(paused', SchedulesOf(Published)'), now)

LEMMA AskedTyped ==
  ASSUME TypeInv, NEW e \in Requests
  PROVE  /\ request \in [Requests -> Asked] /\ request[e] \in Asked
         /\ request[e].version <= Published /\ request[e].now <= clock
         /\ request[e].op = "publish" => request[e].graph \in Graphs
BY DEF TypeInv, Shapes, RequestsRead

LEMMA DeclaredAreSchedules ==
  /\ \A g \in Graphs : g.schedules \subseteq Schedules /\ g.runnable \in BOOLEAN
  /\ TypeInv => SchedulesOf(Published) \subseteq Schedules
<1>1. \A g \in Graphs : g.schedules \subseteq Schedules /\ g.runnable \in BOOLEAN
  BY GraphsDeclareSchedules
<1>2. ASSUME TypeInv PROVE SchedulesOf(Published) \subseteq Schedules
  <2>1. versions \in Seq(Graphs) /\ Published = Len(versions)
    BY <1>2 DEF TypeInv, Shapes, Published
  <2>2. CASE Published = 0
    BY <2>2 DEF SchedulesOf
  <2>3. CASE Published # 0
    <3>1. versions[Published] \in Graphs
      BY <2>1, <2>3
    <3> QED
      BY <1>1, <2>3, <3>1 DEF SchedulesOf
  <2> QED
    BY <2>2, <2>3
<1> QED
  BY <1>1, <1>2

LEMMA TouchedTyped ==
  ASSUME TypeInv, NEW schedules \in SUBSET Schedules, pass' = Touched(schedules)
  PROVE  /\ pass' \in [Passes -> Doing]
         /\ \A p \in Passes :
              /\ pass'[p].at = pass[p].at /\ pass'[p].s = pass[p].s
              /\ pass'[p].version = pass[p].version
              /\ pass'[p].verdict = pass[p].verdict
              /\ pass'[p].slot = pass[p].slot /\ pass'[p].next = pass[p].next
              /\ pass'[p].clean => ~(pass[p].at = "firing" /\ pass[p].s \in schedules)
<1>1. ASSUME NEW p \in Passes
      PROVE  /\ pass'[p] \in Doing
             /\ pass'[p].at = pass[p].at /\ pass'[p].s = pass[p].s
             /\ pass'[p].version = pass[p].version
             /\ pass'[p].verdict = pass[p].verdict
             /\ pass'[p].slot = pass[p].slot /\ pass'[p].next = pass[p].next
             /\ pass'[p].clean => ~(pass[p].at = "firing" /\ pass[p].s \in schedules)
  <2> DEFINE clean == pass[p].clean /\ ~(pass[p].at = "firing" /\ pass[p].s \in schedules)
  <2>1. pass[p] \in Doing
    BY DEF TypeInv, Shapes
  <2>2. clean \in BOOLEAN
    BY <2>1 DEF Doing
  <2>3. pass'[p] = [pass[p] EXCEPT !.clean = clean]
    BY DEF Touched
  <2>4. clean => ~(pass[p].at = "firing" /\ pass[p].s \in schedules)
    OBVIOUS
  <2> HIDE DEF clean
  <2> QED
    BY <2>1, <2>2, <2>3, <2>4 DEF Doing
<1>2. pass' = [p \in Passes |-> pass'[p]]
  BY DEF Touched
<1> QED
  BY <1>1, <1>2

LEMMA ReplacedTyped ==
  ASSUME TypeInv, NEW schedules \in SUBSET Schedules, NEW now \in 0 .. MaxNow,
         ReplaceCronTimers(schedules, now)
  PROVE  /\ timer' \in [Schedules -> Rows] /\ RowsNamed'
         /\ \A s \in Schedules :
              /\ s \notin schedules => timer'[s] = NoTimer
              /\ s \in schedules /\ timer[s].st # "none" => timer'[s] = timer[s]
              /\ s \in schedules /\ timer[s].st = "none" => timer'[s] = NewTimer(s, now)
         /\ pass' = Touched(schedules)
<1>1. ASSUME NEW s \in Schedules
      PROVE  /\ timer'[s] \in Rows
             /\ timer'[s].st = "leased" <=> timer'[s].owner # None
             /\ s \notin schedules => timer'[s] = NoTimer
             /\ s \in schedules /\ timer[s].st # "none" => timer'[s] = timer[s]
             /\ s \in schedules /\ timer[s].st = "none" => timer'[s] = NewTimer(s, now)
  <2>1. timer'[s] = IF s \notin schedules THEN NoTimer
                    ELSE IF timer[s].st # "none" THEN timer[s] ELSE NewTimer(s, now)
    BY DEF ReplaceCronTimers
  <2>2. timer[s] \in Rows /\ (timer[s].st = "leased" <=> timer[s].owner # None)
    BY DEF TypeInv, Shapes, RowsNamed
  <2>3. NoTimer \in Rows /\ NoTimer.st = "none" /\ NoTimer.owner = None
    BY RecordsTyped DEF NoTimer
  <2>4. /\ NewTimer(s, now) \in Rows /\ NewTimer(s, now).st = "waiting"
        /\ NewTimer(s, now).owner = None
    BY NewTimerTyped
  <2> QED
    BY <2>1, <2>2, <2>3, <2>4
<1>2. timer' = [s \in Schedules |-> timer'[s]] /\ pass' = Touched(schedules)
  BY DEF ReplaceCronTimers
<1> QED
  BY <1>1, <1>2 DEF RowsNamed

LEMMA RewrittenTyped ==
  ASSUME TypeInv, NEW now \in Nat, Rewrites(now), versions' \in Seq(Graphs),
         Published <= Published', mode' \in Modes, paused' \in BOOLEAN,
         UNCHANGED count, request' \in [Requests -> Asked], RequestsRead'
  PROVE  TypeInv'
<1> DEFINE schedules == TimerSchedules(paused', SchedulesOf(Published)')
<1>1. schedules \in SUBSET Schedules
  <2>1. \A v \in Nat : v = Published' /\ v # 0 => versions'[v] \in Graphs
    BY DEF Published
  <2>2. SchedulesOf(Published)' \subseteq Schedules
    BY <2>1, DeclaredAreSchedules DEF SchedulesOf, Published
  <2> QED
    BY <2>2 DEF TimerSchedules
<1>2. now \in 0 .. MaxNow /\ ReplaceCronTimers(schedules, now) /\ UNCHANGED <<clock, answered>>
  BY DEF Rewrites
<1> HIDE DEF schedules
<1>3. timer' \in [Schedules -> Rows] /\ RowsNamed' /\ pass' = Touched(schedules)
  BY <1>1, <1>2, ReplacedTyped
<1>4. /\ pass' \in [Passes -> Doing]
      /\ \A p \in Passes : /\ pass'[p].at = pass[p].at /\ pass'[p].s = pass[p].s
                           /\ pass'[p].version = pass[p].version
  BY <1>1, <1>3, TouchedTyped
<1>5. Published \in Nat /\ Published' \in Nat
  BY DEF TypeInv, Shapes, Published
<1>6. \A p \in Passes : pass[p].version \in Nat
  BY DEF TypeInv, Shapes, Doing
<1>7. PassesRead'
  BY <1>4, <1>5, <1>6 DEF TypeInv, PassesRead
<1>8. Shapes'
  BY <1>2, <1>3, <1>4 DEF TypeInv, Shapes
<1> QED
  BY <1>3, <1>7, <1>8 DEF TypeInv

(* A publish that was beaten to it changes nothing but its request.        *)
LEMMA PublishComesTo ==
  ASSUME TypeInv, NEW e \in Publishers, Publish(e)
  PROVE  /\ TypeInv'
         /\ \/ Stays
            \/ /\ Rewrites(request[e].now) /\ UNCHANGED paused
               /\ request[e].version = Published
               /\ Published' = Published + 1
               /\ versions' = Append(versions, request[e].graph)
<1> DEFINE asked == request[e]
<1>1. /\ e \in Requests /\ asked \in Asked /\ asked.version <= Published
      /\ asked.now <= clock /\ asked.graph \in Graphs /\ asked.op = "publish"
      /\ Published \in Nat /\ versions \in Seq(Graphs)
  BY AskedTyped DEF Publish, Requests, TypeInv, Shapes, Published
<1>2. /\ UNCHANGED <<clock, mode, paused, count, answered>>
      /\ request' = [request EXCEPT ![e] = NoRequest]
  BY DEF Publish
<1>3. request' \in [Requests -> Asked]
  BY <1>1, <1>2, RecordsTyped, AskedTyped
<1>4. ASSUME Published' \in Nat, Published <= Published' PROVE RequestsRead'
  <2> SUFFICES ASSUME NEW d \in Requests
               PROVE  /\ request'[d].version <= Published' /\ request'[d].now <= clock
                      /\ request'[d].op = "publish" => request'[d].graph \in Graphs
                      /\ request'[d].op \in {"pause", "resume"} => d \in Operators
    BY <1>2 DEF RequestsRead
  <2>1. CASE d = e
    BY <1>1, <1>2, <1>4, <2>1, AskedTyped DEF NoRequest, TypeInv, Shapes
  <2>2. CASE d # e
    <3>1. request'[d] = request[d] /\ request[d].version \in Nat
      BY <1>1, <1>2, <2>2, AskedTyped DEF Asked
    <3> QED
      BY <1>1, <1>4, <3>1 DEF TypeInv, RequestsRead
  <2> QED
    BY <2>1, <2>2
<1>5. CASE asked.version # Published
  <2>1. UNCHANGED <<versions, timer, pass>> /\ Published' = Published
    BY <1>5 DEF Publish, Published
  <2>2. RequestsRead'
    BY <1>1, <1>4, <2>1
  <2>3. Stays
    BY <1>2, <2>1 DEF Stays, TypeInv, Shapes
  <2>4. Shapes' /\ RowsNamed' /\ PassesRead'
    BY <1>2, <1>3, <2>1 DEF TypeInv, Shapes, RowsNamed, PassesRead
  <2> QED
    BY <2>2, <2>3, <2>4 DEF TypeInv
<1>6. CASE asked.version = Published
  <2>1. /\ versions' = Append(versions, asked.graph)
        /\ ReplaceCronTimers(TimerSchedules(paused, asked.graph.schedules), asked.now)
    BY <1>6 DEF Publish
  <2>2. /\ versions' \in Seq(Graphs) /\ Published' = Published + 1
        /\ versions'[Published + 1] = asked.graph
    BY <1>1, <2>1 DEF Published
  <2>3. SchedulesOf(Published)' = asked.graph.schedules
    BY <1>1, <2>2 DEF SchedulesOf
  <2>4. Rewrites(asked.now) /\ asked.now \in Nat
    BY <1>1, <1>2, <2>1, <2>3 DEF Rewrites, Asked
  <2>5. RequestsRead'
    BY <1>1, <1>4, <2>2
  <2>6. TypeInv'
    BY <1>1, <1>2, <1>3, <2>2, <2>4, <2>5, RewrittenTyped DEF TypeInv, Shapes
  <2> QED
    BY <1>2, <1>6, <2>1, <2>2, <2>4, <2>6
<1> QED
  BY <1>5, <1>6

LEMMA SetPausedComesTo ==
  ASSUME TypeInv, NEW e \in Operators, SetPaused(e)
  PROVE  /\ TypeInv' /\ Rewrites(request[e].now)
         /\ UNCHANGED versions /\ request[e].op \in {"pause", "resume"}
         /\ paused' = (request[e].op = "pause")
<1>1. /\ e \in Requests /\ request[e] \in Asked /\ request[e].now <= clock
      /\ Published \in Nat
  BY AskedTyped DEF Requests, TypeInv, Shapes, Published
<1>2. /\ UNCHANGED <<clock, versions, mode, count, answered>>
      /\ request' = [request EXCEPT ![e] = NoRequest]
      /\ paused' = (request[e].op = "pause") /\ request[e].op \in {"pause", "resume"}
      /\ ReplaceCronTimers(TimerSchedules(paused', SchedulesOf(Published)), request[e].now)
  BY DEF SetPaused
<1>3. request' \in [Requests -> Asked]
  BY <1>1, <1>2, RecordsTyped, AskedTyped
<1>4. Published' = Published /\ SchedulesOf(Published)' = SchedulesOf(Published)
  BY <1>2 DEF Published, SchedulesOf
<1>5. RequestsRead'
  <2> SUFFICES ASSUME NEW d \in Requests
               PROVE  /\ request'[d].version <= Published /\ request'[d].now <= clock
                      /\ request'[d].op = "publish" => request'[d].graph \in Graphs
                      /\ request'[d].op \in {"pause", "resume"} => d \in Operators
    BY <1>2, <1>4 DEF RequestsRead
  <2>1. CASE d = e
    BY <1>1, <1>2, <2>1, AskedTyped DEF NoRequest, TypeInv, Shapes
  <2>2. CASE d # e
    BY <1>1, <1>2, <2>2, AskedTyped DEF TypeInv, RequestsRead
  <2> QED
    BY <2>1, <2>2
<1>6. Rewrites(request[e].now) /\ request[e].now \in Nat
  BY <1>1, <1>2, <1>4 DEF Rewrites, Asked
<1>7. TypeInv'
  BY <1>1, <1>2, <1>3, <1>4, <1>5, <1>6, RewrittenTyped DEF TypeInv, Shapes
<1> QED
  BY <1>2, <1>6, <1>7

LEMMA OthersStay ==
  ASSUME TypeInv,
         \/ Tick \/ SwitchMode
         \/ \E e \in Publishers : AskPublish(e)
         \/ \E e \in Operators : AskPause(e)
  PROVE  TypeInv' /\ Stays
<1>1. clock \in 0 .. MaxNow /\ clock \in Nat /\ MaxNow \in Nat /\ Published \in Nat
  BY RecordsTyped DEF TypeInv, Shapes, Published
<1>2. CASE Tick
  <2>1. UNCHANGED <<versions, mode, paused, timer, request, pass, count, answered>>
    BY <1>2 DEF Tick, workflow
  <2>2. clock' \in 0 .. MaxNow /\ clock <= clock'
    BY <1>1, <1>2 DEF Tick
  <2>3. RequestsRead'
    <3> SUFFICES ASSUME NEW d \in Requests PROVE request[d].now <= clock'
      BY <2>1 DEF TypeInv, RequestsRead, Published
    <3> QED
      BY <1>1, <2>2, AskedTyped DEF Asked
  <2> QED
    BY <2>1, <2>2, <2>3 DEF Stays, TypeInv, Shapes, RowsNamed, PassesRead, Published
<1>3. CASE SwitchMode
  <2>1. UNCHANGED <<clock, versions, paused, timer, request, pass, answered>>
    BY <1>3 DEF SwitchMode
  <2>2. mode' \in Modes /\ count' \in [changes : Nat, losses : Nat]
    BY <1>3 DEF SwitchMode, TypeInv, Shapes
  <2> QED
    BY <1>1, <2>1, <2>2
       DEF Stays, TypeInv, Shapes, RowsNamed, RequestsRead, PassesRead, Published
<1>4. ASSUME NEW e \in Publishers, AskPublish(e) PROVE TypeInv' /\ Stays
  <2>1. UNCHANGED <<clock, versions, mode, paused, timer, pass, count, answered>>
    BY <1>4 DEF AskPublish, workflow
  <2>2. PICK g \in Graphs : request' = [request EXCEPT ![e] =
          [op |-> "publish", version |-> Published, graph |-> g, now |-> clock]]
    BY <1>4 DEF AskPublish
  <2>3. request' \in [Requests -> Asked] /\ RequestsRead'
    <3> DEFINE r == [op |-> "publish", version |-> Published, graph |-> g, now |-> clock]
    <3>1. r \in Asked
      BY <1>1 DEF Asked
    <3>2. request \in [Requests -> Asked] /\ e \in Requests
      BY DEF TypeInv, Shapes, Requests
    <3>3. request' \in [Requests -> Asked]
      BY <2>2, <3>1, <3>2
    <3>4. ASSUME NEW d \in Requests
          PROVE  /\ request'[d].version <= Published /\ request'[d].now <= clock
                 /\ request'[d].op = "publish" => request'[d].graph \in Graphs
                 /\ request'[d].op \in {"pause", "resume"} => d \in Operators
      BY <1>1, <2>2, <3>2 DEF TypeInv, RequestsRead
    <3> QED
      BY <2>1, <3>3, <3>4 DEF RequestsRead, Published
  <2> QED
    BY <1>1, <2>1, <2>3 DEF Stays, TypeInv, Shapes, RowsNamed, PassesRead, Published
<1>5. ASSUME NEW e \in Operators, AskPause(e) PROVE TypeInv' /\ Stays
  <2> DEFINE op == IF paused THEN "resume" ELSE "pause"
             r == [NoRequest EXCEPT !.op = op, !.now = clock]
  <2>1. UNCHANGED <<clock, versions, mode, paused, timer, pass, answered>>
    BY <1>5 DEF AskPause, workflow
  <2>2. request' = [request EXCEPT ![e] = r] /\ count' \in [changes : Nat, losses : Nat]
    BY <1>5 DEF AskPause, TypeInv, Shapes
  <2>3. op \in {"pause", "resume"}
    OBVIOUS
  <2> HIDE DEF op
  <2>4. r \in Asked /\ r.op = op /\ r.now = clock /\ r.version = 0
    BY <1>1, <2>3, RecordsTyped DEF Asked, NoRequest
  <2> HIDE DEF r
  <2>5. request \in [Requests -> Asked] /\ e \in Requests
    BY DEF TypeInv, Shapes, Requests
  <2>6. request' \in [Requests -> Asked]
    BY <2>2, <2>4, <2>5
  <2>7. ASSUME NEW d \in Requests
        PROVE  /\ request'[d].version <= Published /\ request'[d].now <= clock
               /\ request'[d].op = "publish" => request'[d].graph \in Graphs
               /\ request'[d].op \in {"pause", "resume"} => d \in Operators
    BY <1>1, <2>2, <2>3, <2>4, <2>5 DEF TypeInv, RequestsRead
  <2>8. RequestsRead'
    BY <2>1, <2>7 DEF RequestsRead, Published
  <2> QED
    BY <1>1, <2>1, <2>2, <2>6, <2>8 DEF Stays, TypeInv, Shapes, RowsNamed, PassesRead, Published
<1> QED
  BY <1>2, <1>3, <1>4, <1>5

-----------------------------------------------------------------------------
(* The timers are those published, and fires see what is published         *)

(* A pass's step leaves the others as they were, and gives none a row.     *)
LEMMA OthersHold ==
  ASSUME TypeInv, NEW p \in Passes, PassStep(p)
  PROVE  /\ \A q \in Passes \ {p} : pass'[q] = pass[q]
         /\ \A q \in Passes : \A s \in Schedules :
              timer'[s].owner = q => timer[s].owner = q
         /\ pass'[p].at # "idle" => WorksOn(p)
<1>0. pass[p].at # "idle" /\ pass \in [Passes -> Doing] /\ UNCHANGED versions
  BY DEF PassStep, TypeInv, Shapes, workflow
<1>1. CASE WorksOn(p)
  BY <1>0, <1>1 DEF WorksOn
<1>2. CASE GivesUp(p)
  BY <1>0, <1>2, StopsTyped DEF GivesUp
<1>3. CASE Releases(p)
  <2>1. pass'[p].at = "idle" /\ \A q \in Passes \ {p} : pass'[q] = pass[q]
    BY <1>0, <1>3, StopsTyped DEF Releases
  <2> QED
    BY <1>0, <1>3, <2>1, ReleasedTyped, RecordsTyped
<1>4. CASE MovesOn(p)
  <2>1. pass'[p].at = "idle" /\ \A q \in Passes \ {p} : pass'[q] = pass[q]
    BY <1>0, <1>4, StopsTyped, MovedOnTyped
  <2> QED
    BY <1>0, <1>4, <2>1, MovedOnTyped, RecordsTyped
<1> QED
  BY <1>1, <1>2, <1>3, <1>4 DEF PassStep

LEMMA RewrittenSchedules ==
  ASSUME TypeInv, TypeInv', NEW now, Rewrites(now),
         NEW schedules, schedules = TimerSchedules(paused', SchedulesOf(Published)')
  PROVE  /\ schedules \in SUBSET Schedules
         /\ \A s \in Schedules :
              /\ s \notin schedules => timer'[s] = NoTimer
              /\ s \in schedules /\ timer[s].st # "none" => timer'[s] = timer[s]
              /\ s \in schedules /\ timer[s].st = "none" => timer'[s] = NewTimer(s, now)
         /\ pass' = Touched(schedules)
<1>1. SchedulesOf(Published)' \subseteq Schedules
  <2>1. \A v \in Nat : v = Published' /\ v # 0 => versions'[v] \in Graphs
    BY DEF Published, TypeInv, Shapes
  <2>2. Published' \in Nat
    BY DEF Published, TypeInv, Shapes
  <2> QED
    BY <2>1, <2>2, DeclaredAreSchedules DEF SchedulesOf, Published
<1>2. schedules \in SUBSET Schedules
  BY <1>1 DEF TimerSchedules
<1>3. now \in 0 .. MaxNow /\ ReplaceCronTimers(schedules, now)
  BY DEF Rewrites
<1> QED
  BY <1>2, <1>3, ReplacedTyped

LEMMA RewritesMatch ==
  ASSUME TypeInv, TypeInv', NEW now, Rewrites(now)
  PROVE  TimersMatch'
<1> DEFINE schedules == TimerSchedules(paused', SchedulesOf(Published)')
<1> HIDE DEF schedules
<1>1. schedules = TimerSchedules(paused', SchedulesOf(Published)')
  BY DEF schedules
<1>2. now \in 0 .. MaxNow
  BY DEF Rewrites
<1>3. ASSUME NEW s \in Schedules
      PROVE  timer'[s].st # "none" <=> s \in schedules
  <2>1. NoTimer.st = "none" /\ NewTimer(s, now).st = "waiting"
    BY <1>2, NewTimerTyped DEF NoTimer
  <2> QED
    BY <1>1, <2>1, RewrittenSchedules
<1> QED
  BY <1>1, <1>3 DEF TimersMatch

LEMMA LeasesMatch ==
  ASSUME TypeInv, TimersMatch, NEW p \in Passes, NEW s \in Schedules, Leases(p, s)
  PROVE  TimersMatch'
<1>1. UNCHANGED <<versions, paused>>
  BY DEF Leases, workflow
<1>2. \A t \in Schedules : timer'[t].st # "none" <=> timer[t].st # "none"
  BY LeaseTyped DEF Leases
<1> QED
  BY <1>1, <1>2 DEF TimersMatch, Published, SchedulesOf

LEMMA PassStepMatches ==
  ASSUME TypeInv, TimersMatch, NEW p \in Passes, PassStep(p)
  PROVE  TimersMatch'
<1>1. UNCHANGED <<versions, paused>> /\ pass[p].at # "idle" /\ pass[p].s \in Schedules
  BY WorkTyped DEF PassStep, workflow
<1>2. \A t \in Schedules : timer'[t].st # "none" <=> timer[t].st # "none"
  <2>1. CASE UNCHANGED timer
    BY <2>1
  <2>2. CASE Releases(p)
    BY <1>1, <2>2, ReleasedTyped, HeldIsPublished DEF Releases
  <2>3. CASE MovesOn(p)
    BY <1>1, <2>3, MovedOnTyped, HeldIsPublished DEF MovesOn
  <2> QED
    BY <2>1, <2>2, <2>3 DEF PassStep, WorksOn, GivesUp
<1> QED
  BY <1>1, <1>2 DEF TimersMatch, Published, SchedulesOf

LEMMA RewritesKeepFires ==
  ASSUME TypeInv, TypeInv', FireSees, NEW now, Rewrites(now)
  PROVE  FireSees'
<1> DEFINE schedules == TimerSchedules(paused', SchedulesOf(Published)')
<1> HIDE DEF schedules
<1>1. schedules = TimerSchedules(paused', SchedulesOf(Published)')
  BY DEF schedules
<1>2. ASSUME NEW p \in Passes, pass'[p].at = "firing", timer'[pass'[p].s].owner = p
      PROVE  ~pass'[p].clean /\ pass'[p].verdict # "dropped"
  <2>1. /\ pass'[p].at = pass[p].at /\ pass'[p].s = pass[p].s
        /\ pass'[p].verdict = pass[p].verdict
        /\ pass'[p].clean => ~(pass[p].at = "firing" /\ pass[p].s \in schedules)
    BY <1>1, RewrittenSchedules, TouchedTyped
  <2>2. pass[p].s \in Schedules /\ p # None
    BY <1>2, <2>1, WorkTyped, RecordsTyped
  <2>3. NoTimer.owner = None /\ NewTimer(pass[p].s, now).owner = None
    BY <2>2, NewTimerTyped DEF NoTimer, Rewrites
  <2>4. pass[p].s \in schedules /\ timer'[pass[p].s] = timer[pass[p].s]
    BY <1>1, <1>2, <2>1, <2>2, <2>3, RewrittenSchedules
  <2> QED
    BY <1>2, <2>1, <2>4 DEF FireSees, Holds, Row
<1> QED
  BY <1>2 DEF FireSees, Holds, Row

LEMMA LeasesKeepFires ==
  ASSUME TypeInv, FireSees, NEW p \in Passes, NEW s \in Schedules, Leases(p, s)
  PROVE  FireSees'
<1>1. UNCHANGED versions
  BY DEF Leases, workflow
<1>2. ASSUME NEW q \in Passes, pass'[q].at = "firing", timer'[pass'[q].s].owner = q
      PROVE  pass'[q] = pass[q] /\ timer[pass[q].s].owner = q
  <2>1. q # p /\ pass'[q] = pass[q]
    BY <1>2, LeaseTyped
  <2>2. pass[q].s \in Schedules
    BY <1>2, <2>1, WorkTyped
  <2> QED
    BY <1>2, <2>1, <2>2, LeaseTyped
<1> QED
  BY <1>1, <1>2 DEF FireSees, Holds, Row, Published

LEMMA PassStepKeepsFires ==
  ASSUME TypeInv, TimersMatch, FireSees, NEW p \in Passes, PassStep(p)
  PROVE  FireSees'
<1>1. UNCHANGED <<versions, paused>> /\ pass[p].at # "idle" /\ Published' = Published
  BY DEF PassStep, workflow, Published
<1> SUFFICES ASSUME NEW q \in Passes, pass'[q].at = "firing", timer'[pass'[q].s].owner = q
             PROVE  /\ pass'[q].verdict # "dropped"
                    /\ pass'[q].clean /\ pass'[q].verdict = "current" =>
                         pass'[q].version = Published
  BY <1>1 DEF FireSees, Holds, Row
<1>2. CASE q # p
  <2>1. pass'[q] = pass[q] /\ pass[q].s \in Schedules
    BY <1>2, OthersHold, WorkTyped
  <2>2. Holds(q)
    BY <2>1, OthersHold DEF Holds, Row
  <2> QED
    BY <2>1, <2>2 DEF FireSees
<1>3. CASE q = p
  <2>1. PICK r \in Doing :
          /\ pass' = [pass EXCEPT ![p] = r] /\ UNCHANGED timer
          /\ r.s = pass[p].s
          /\ r.at = "firing" => r.version = pass[p].version /\ r.verdict = Verdict(p)
    BY <1>3, OthersHold DEF WorksOn
  <2>2. pass'[p] = r
    BY <2>1 DEF TypeInv, Shapes
  <2>3. Holds(p)
    BY <1>3, <2>1, <2>2 DEF Holds, Row
  <2>4. ~paused /\ Published > 0 /\ Published \in Nat
    BY <1>1, <2>3, HeldIsPublished, WorkTyped
  <2> QED
    BY <1>3, <2>1, <2>2, <2>4 DEF Verdict
<1> QED
  BY <1>2, <1>3

-----------------------------------------------------------------------------
(* Every slot is answered                                                  *)

LEMMA SlotsAreNumbers ==
  /\ \A s \in Schedules : Slots[s] \subseteq Nat /\ \A x \in Slots[s] : x < Undated
  /\ Undated \in Nat
BY SlotsAreTimes, BoundsAreNumbers DEF Undated

LEMMA StaysReadsSlots ==
  ASSUME TypeInv, SlotsRead, Stays
  PROVE  SlotsRead'
<1>1. clock \in Nat /\ clock' \in Nat /\ clock <= clock' /\ UNCHANGED pass
  BY RecordsTyped DEF Stays, TypeInv, Shapes
<1>2. \A p \in Passes : pass[p].slot \in Nat
  BY RecordsTyped DEF TypeInv, Shapes, Doing
<1> QED
  BY <1>1, <1>2 DEF SlotsRead, SlotRead

LEMMA RewritesReadSlots ==
  ASSUME TypeInv, TypeInv', SlotsRead, NEW now, Rewrites(now)
  PROVE  SlotsRead'
<1>1. \A p \in Passes : /\ pass'[p].at = pass[p].at /\ pass'[p].s = pass[p].s
                        /\ pass'[p].slot = pass[p].slot /\ pass'[p].next = pass[p].next
  BY RewrittenSchedules, TouchedTyped
<1> QED
  BY <1>1 DEF SlotsRead, SlotRead, Rewrites

LEMMA LeasesReadSlots ==
  ASSUME TypeInv, SlotsRead, NEW p \in Passes, NEW s \in Schedules, Leases(p, s)
  PROVE  SlotsRead'
<1>1. \A q \in Passes : pass'[q].at \in {"check", "spent"} \/ pass'[q] = pass[q]
  BY LeaseTyped
<1> QED
  BY <1>1 DEF SlotsRead, SlotRead, Leases

LEMMA PassStepReadsSlots ==
  ASSUME TypeInv, SlotsRead, NEW p \in Passes, PassStep(p)
  PROVE  SlotsRead'
<1>1. UNCHANGED clock /\ pass[p].at # "idle" /\ clock \in 0 .. MaxNow
  BY DEF PassStep, TypeInv, Shapes
<1> SUFFICES ASSUME NEW q \in Passes, pass'[q].at \in HasSlot
             PROVE  /\ pass'[q].slot < pass'[q].next
                    /\ pass'[q].slot <= clock
                    /\ pass'[q].next \in Slots[pass'[q].s] \cup {Undated}
                    /\ \A x \in Slots[pass'[q].s] :
                         x < pass'[q].next => x <= pass'[q].slot
  BY <1>1 DEF SlotsRead, SlotRead, HasSlot
<1>2. CASE q # p
  <2>1. pass'[q] = pass[q]
    BY <1>2, OthersHold
  <2> QED
    BY <2>1 DEF SlotsRead, SlotRead, HasSlot
<1>3. CASE q = p
  <2>0. pass'[p].at # "idle"
    BY <1>3 DEF HasSlot
  <2>1. PICK r \in Doing :
          /\ pass' = [pass EXCEPT ![p] = r]
          /\ r.s = pass[p].s
          /\ r.at \in HasSlot =>
               \/ /\ pass[p].at \in HasSlot
                  /\ r.slot = pass[p].slot /\ r.next = pass[p].next
               \/ r.slot = LatestSlot(r.s, clock) /\ r.next = CronWakeAfter(r.s, clock)
    BY <2>0, OthersHold DEF WorksOn
  <2>2. pass'[p] = r /\ r.s \in Schedules
    BY <1>1, <2>1, WorkTyped DEF TypeInv, Shapes
  <2>3. CASE /\ pass[p].at \in HasSlot
             /\ r.slot = pass[p].slot /\ r.next = pass[p].next
    BY <1>3, <2>1, <2>2, <2>3 DEF SlotsRead, SlotRead, HasSlot
  <2>4. CASE r.slot = LatestSlot(r.s, clock) /\ r.next = CronWakeAfter(r.s, clock)
    <3>1. /\ LatestSlot(r.s, clock) < CronWakeAfter(r.s, clock)
          /\ LatestSlot(r.s, clock) <= clock
          /\ CronWakeAfter(r.s, clock) \in Slots[r.s] \cup {Undated}
          /\ \A x \in Slots[r.s] :
               x < CronWakeAfter(r.s, clock) => x <= LatestSlot(r.s, clock)
      BY <1>1, <2>2, Latest, WakeAfter, ReadLeavesNone
    <3> QED
      BY <1>3, <2>2, <2>4, <3>1
  <2> QED
    BY <1>3, <2>1, <2>2, <2>3, <2>4
<1> QED
  BY <1>2, <1>3

LEMMA RewritesAnswer ==
  ASSUME TypeInv, TypeInv', EachSlotAnswered, NEW now, Rewrites(now)
  PROVE  EachSlotAnswered'
<1>1. UNCHANGED answered /\ now \in 0 .. MaxNow /\ now \in Nat
  BY RecordsTyped DEF Rewrites
<1> SUFFICES ASSUME NEW s \in Schedules, timer'[s].st = "waiting", NEW x \in Slots[s],
                    timer'[s].since < x, x < timer'[s].wake
             PROVE  Answers(s, x, timer'[s].wake)
  BY <1>1 DEF EachSlotAnswered, Answers
<1>2. NoTimer.st # "waiting"
  BY DEF NoTimer
<1>3. CASE timer'[s] = timer[s]
  BY <1>3 DEF EachSlotAnswered
<1>4. CASE timer'[s] = NewTimer(s, now)
  <2>1. timer'[s].since = now /\ timer'[s].wake = CronWakeAfter(s, now)
    BY <1>1, <1>4, NewTimerTyped
  <2>2. CronWakeAfter(s, now) <= x
    BY <1>1, <2>1, WakeAfter
  <2>3. x \in Nat /\ CronWakeAfter(s, now) \in Nat
    BY <1>1, WakeAfter, SlotsAreNumbers
  <2> QED
    BY <2>1, <2>2, <2>3
<1> QED
  BY <1>2, <1>3, <1>4, RewrittenSchedules

LEMMA LeasesAnswer ==
  ASSUME TypeInv, EachSlotAnswered, NEW p \in Passes, NEW s \in Schedules, Leases(p, s)
  PROVE  EachSlotAnswered'
<1>1. UNCHANGED answered
  BY DEF Leases
<1>2. \A t \in Schedules : timer'[t].st = "waiting" => timer'[t] = timer[t]
  BY LeaseTyped
<1> QED
  BY <1>1, <1>2 DEF EachSlotAnswered, Answers

(* The slot a pass answers is the last before the row's next wake, and it  *)
(* stands for every slot since the row was made.                           *)
LEMMA PassStepAnswers ==
  ASSUME TypeInv, SlotsRead, EachSlotAnswered, NEW p \in Passes, PassStep(p)
  PROVE  EachSlotAnswered'
<1>1. pass[p].at # "idle" /\ pass[p].s \in Schedules /\ answered \in Seq(Answered)
  BY WorkTyped DEF PassStep, TypeInv, Shapes
<1>2. CASE UNCHANGED <<timer, answered>>
  BY <1>2 DEF EachSlotAnswered, Answers
<1>3. CASE Releases(p)
  <2>1. \A t \in Schedules : timer'[t].st = "waiting" => timer'[t] = timer[t]
    BY <1>1, <1>3, ReleasedTyped
  <2> QED
    BY <1>3, <2>1 DEF EachSlotAnswered, Answers, Releases
<1>4. CASE MovesOn(p)
  <2> DEFINE a == [s |-> pass[p].s, slot |-> pass[p].slot]
  <2>1. answered' = Append(answered, a) /\ pass[p].at \in {"firing", "skip"}
    BY <1>4 DEF MovesOn, MoveOn
  <2>2. /\ Len(answered) + 1 \in DOMAIN answered' /\ answered'[Len(answered) + 1] = a
        /\ \A i \in DOMAIN answered : i \in DOMAIN answered' /\ answered'[i] = answered[i]
    BY <1>1, <2>1
  <2> SUFFICES ASSUME NEW s \in Schedules, timer'[s].st = "waiting", NEW x \in Slots[s],
                      timer'[s].since < x, x < timer'[s].wake
               PROVE  \E i \in DOMAIN answered' :
                        /\ answered'[i].s = s /\ answered'[i].slot >= x
                        /\ answered'[i].slot < timer'[s].wake
    BY DEF EachSlotAnswered, Answers
  <2>3. CASE s # pass[p].s
    <3>1. timer'[s] = timer[s]
      BY <1>1, <1>4, <2>3, MovedOnTyped
    <3>2. PICK i \in DOMAIN answered :
            /\ answered[i].s = s /\ answered[i].slot >= x
            /\ answered[i].slot < timer[s].wake
      BY <3>1 DEF EachSlotAnswered, Answers
    <3> QED
      BY <2>2, <3>1, <3>2
  <2>4. CASE s = pass[p].s
    <3>1. timer'[s].wake = pass[p].next
      BY <1>1, <1>4, <2>4, MovedOnTyped
    <3>2. pass[p].slot < pass[p].next /\ x <= pass[p].slot
      BY <2>1, <2>4, <3>1 DEF SlotsRead, SlotRead
    <3>3. x \in Nat /\ pass[p].slot \in Nat
      BY SlotsAreNumbers, RecordsTyped DEF TypeInv, Shapes, Doing
    <3>4. a.s = s /\ a.slot >= x /\ a.slot < timer'[s].wake
      BY <2>4, <3>1, <3>2, <3>3
    <3> QED
      BY <2>2, <3>4
  <2> QED
    BY <2>3, <2>4
<1> QED
  BY <1>2, <1>3, <1>4 DEF PassStep, WorksOn, GivesUp

-----------------------------------------------------------------------------
(* The invariant                                                           *)

LEMMA StaysKeep ==
  ASSUME IInv, TypeInv', Stays
  PROVE  IInv'
<1>1. UNCHANGED <<versions, paused, timer, pass, answered>>
  BY DEF Stays
<1>2. SlotsRead'
  BY StaysReadsSlots DEF IInv
<1>3. TimersMatch' /\ EachSlotAnswered'
  BY <1>1 DEF IInv, TimersMatch, EachSlotAnswered, Answers, Published, SchedulesOf
<1>4. FireSees'
  BY <1>1 DEF IInv, FireSees, Holds, Row, Published
<1> QED
  BY <1>2, <1>3, <1>4 DEF IInv

LEMMA RewritesKeep ==
  ASSUME IInv, TypeInv', NEW now, Rewrites(now)
  PROVE  IInv'
BY RewritesMatch, RewritesKeepFires, RewritesReadSlots, RewritesAnswer DEF IInv

LEMMA LeasesKeep ==
  ASSUME IInv, NEW p \in Passes, NEW s \in Schedules, Leases(p, s)
  PROVE  IInv'
BY LeaseTyped, LeasesMatch, LeasesKeepFires, LeasesReadSlots, LeasesAnswer DEF IInv

LEMMA PassStepKeeps ==
  ASSUME IInv, NEW p \in Passes, PassStep(p)
  PROVE  IInv'
BY PassStepTyped, PassStepMatches, PassStepKeepsFires, PassStepReadsSlots, PassStepAnswers
   DEF IInv

LEMMA PassActions ==
  ASSUME IInv, NEW p \in Passes, Work(p) \/ BodyFails(p) \/ Crash(p)
  PROVE  PassStep(p) \/ \E s \in Schedules : Leases(p, s)
<1>1. TypeInv /\ TimersMatch /\ FireSees
  BY DEF IInv
<1>2. CASE \E s \in Schedules : Claim(p, s) \/ ClaimExpired(p, s)
  BY <1>1, <1>2, ClaimsLease
<1>3. CASE Check(p)
  BY <1>1, <1>3, CheckComesTo
<1>4. CASE BeginFire(p)
  BY <1>1, <1>4, BeginFireComesTo
<1>5. CASE CommitFire(p)
  BY <1>1, <1>5, CommitFireComesTo
<1>6. CASE ReadSpentSlot(p)
  BY <1>1, <1>6, ReadSpentComesTo
<1>7. CASE SkipSlot(p)
  BY <1>1, <1>7, SkipSlotComesTo
<1>8. CASE BodyFails(p)
  BY <1>1, <1>8, BodyFailsComesTo
<1>9. CASE Crash(p)
  BY <1>1, <1>9, CrashComesTo
<1> QED
  BY <1>2, <1>3, <1>4, <1>5, <1>6, <1>7, <1>8, <1>9 DEF Work

(* Every step is one of four kinds.                                        *)
LEMMA StepsComeTo ==
  ASSUME IInv, [Next]_vars
  PROVE  \/ TypeInv' /\ Stays
         \/ TypeInv' /\ \E e \in Publishers : Publish(e) /\ Rewrites(request[e].now)
         \/ TypeInv' /\ \E e \in Operators : SetPaused(e) /\ Rewrites(request[e].now)
         \/ \E p \in Passes, s \in Schedules : Leases(p, s)
         \/ \E p \in Passes : PassStep(p)
<1>1. TypeInv
  BY DEF IInv
<1>2. CASE \/ Tick \/ SwitchMode
           \/ \E e \in Publishers : AskPublish(e)
           \/ \E e \in Operators : AskPause(e)
  BY <1>1, <1>2, OthersStay
<1>3. CASE \E e \in Publishers : Publish(e)
  BY <1>1, <1>3, PublishComesTo
<1>4. CASE \E e \in Operators : SetPaused(e)
  BY <1>1, <1>4, SetPausedComesTo
<1>5. CASE \E p \in Passes : Work(p) \/ BodyFails(p) \/ Crash(p)
  BY <1>5, PassActions
<1>6. CASE UNCHANGED vars
  <2>1. UNCHANGED <<clock, versions, mode, paused, timer, request, pass, count, answered>>
    BY <1>6 DEF vars, workflow
  <2>2. Stays
    BY <1>1, <2>1, RecordsTyped DEF Stays, TypeInv, Shapes
  <2>3. TypeInv'
    BY <1>1, <2>1
       DEF TypeInv, Shapes, RowsNamed, RequestsRead, PassesRead, Published
  <2> QED
    BY <2>2, <2>3
<1> QED
  BY <1>2, <1>3, <1>4, <1>5, <1>6 DEF Next

LEMMA StepKeeps == IInv /\ [Next]_vars => IInv'
BY StepsComeTo, StaysKeep, RewritesKeep, LeasesKeep, PassStepKeeps

LEMMA Inductive == Spec => []IInv
<1>1. Init => IInv
  BY InitTyped
<1> QED
  BY <1>1, StepKeeps, PTL DEF Spec

(* The records keep their shapes: a row is leased exactly while it names a *)
(* pass, and a request or a pass knows no version not yet published.       *)
THEOREM TypeCorrect == Spec => []TypeOK
<1>1. IInv => TypeOK
  BY TypeInvSays DEF IInv
<1> QED
  BY <1>1, Inductive, PTL

(* Between transactions the timers are those of the published version's    *)
(* schedules, and none while paused: no fire, skip, failure or lost lease  *)
(* takes a timer away or leaves one behind.                                *)
THEOREM TimersAlwaysMatch == Spec => []TimersMatch
<1>1. IInv => TimersMatch
  BY DEF IInv
<1> QED
  BY <1>1, Inductive, PTL

(* A timer at rest has passed over no slot since it was written.           *)
THEOREM EverySlotAnswered == Spec => []EachSlotAnswered
<1>1. IInv => EachSlotAnswered
  BY DEF IInv
<1> QED
  BY <1>1, Inductive, PTL

FiresNow ==
  \A p \in Passes :
    pass[p].at = "firing" /\ pass'[p].at = "idle" /\ answered' # answered =>
      /\ pass[p].version = Published
      /\ pass[p].s \in TimerSchedules(paused, SchedulesOf(Published))

LEMMA StepFiresNow == IInv /\ [Next]_vars => FiresNow
<1> SUFFICES ASSUME IInv, [Next]_vars, NEW p \in Passes,
                    pass[p].at = "firing", pass'[p].at = "idle", answered' # answered
             PROVE  /\ pass[p].version = Published
                    /\ pass[p].s \in TimerSchedules(paused, SchedulesOf(Published))
  BY DEF FiresNow
<1>1. TypeInv /\ TimersMatch /\ FireSees
  BY DEF IInv
<1>2. PICK q \in Passes : PassStep(q)
  BY StepsComeTo DEF Stays, Rewrites, Leases
<1>3. MovesOn(q)
  BY <1>2 DEF PassStep, WorksOn, GivesUp, Releases
<1>4. q = p
  BY <1>1, <1>2, OthersHold
<1>5. Holds(p) /\ pass[p].clean /\ pass[p].verdict = "current"
  BY <1>3, <1>4 DEF MovesOn
<1>6. pass[p].version = Published
  BY <1>1, <1>5 DEF FireSees
<1> QED
  BY <1>1, <1>5, <1>6, HeldIsPublished DEF TimerSchedules

(* A fire that commits opens its run on the version published as it        *)
(* commits, which declares its schedule, in a workflow that is not paused. *)
THEOREM FiresWhatIsPublished == Spec => FiresPublished
<1>1. IInv /\ [Next]_vars => [FiresNow]_vars
  BY StepFiresNow
<1>2. Spec => [][FiresNow]_vars
  BY <1>1, Inductive, PTL DEF Spec
<1> QED
  BY <1>2 DEF FiresPublished, FiresNow

-----------------------------------------------------------------------------
(* One operator: no slot twice                                             *)

LEMMA AnsweredTyped ==
  ASSUME TypeInv
  PROVE  \A i \in DOMAIN answered : answered[i].slot \in Nat /\ answered[i].s \in Schedules
<1>1. answered \in Seq(Answered)
  BY DEF TypeInv, Shapes
<1>2. \A i \in DOMAIN answered : answered[i] \in Answered
  BY <1>1
<1> QED
  BY <1>2, RecordsTyped DEF Answered

(* Who holds a row after a rewrite or a claim, and works on it, held it    *)
(* before, and has the slot it had.                                        *)
LEMMA RewritesHold ==
  ASSUME TypeInv, TypeInv', NEW now, Rewrites(now),
         NEW p \in Passes, pass'[p].at # "idle", timer'[pass'[p].s].owner = p
  PROVE  /\ Holds(p) /\ pass'[p].at = pass[p].at /\ pass'[p].s = pass[p].s
         /\ pass'[p].slot = pass[p].slot
<1>1. /\ pass'[p].at = pass[p].at /\ pass'[p].s = pass[p].s
      /\ pass'[p].slot = pass[p].slot
  BY RewrittenSchedules, TouchedTyped
<1>2. pass[p].s \in Schedules /\ p # None
  BY <1>1, WorkTyped, RecordsTyped
<1>3. NoTimer.owner = None /\ NewTimer(pass[p].s, now).owner = None
  BY <1>2, NewTimerTyped DEF NoTimer, Rewrites
<1>4. timer'[pass[p].s] = timer[pass[p].s]
  BY <1>1, <1>2, <1>3, RewrittenSchedules
<1> QED
  BY <1>1, <1>4 DEF Holds, Row

LEMMA LeasesHold ==
  ASSUME TypeInv, NEW p \in Passes, NEW s \in Schedules, Leases(p, s),
         NEW q \in Passes, pass'[q].at \in HasSlot, timer'[pass'[q].s].owner = q
  PROVE  pass'[q] = pass[q] /\ Holds(q)
<1>1. q # p /\ pass'[q] = pass[q]
  BY LeaseTyped DEF HasSlot
<1>2. pass[q].s \in Schedules
  BY <1>1, WorkTyped DEF HasSlot
<1> QED
  BY <1>1, <1>2, LeaseTyped DEF Holds, Row

LEMMA StaysAhead ==
  ASSUME TypeInv, Ahead, Stays
  PROVE  Ahead'
<1>1. /\ UNCHANGED <<timer, pass, answered>> /\ clock \in Nat /\ clock' \in Nat
      /\ clock <= clock'
  BY RecordsTyped DEF Stays, TypeInv, Shapes
<1>2. ClockPasses' /\ SlotsAnsweredOnce'
  BY <1>1, AnsweredTyped DEF Ahead, ClockPasses, SlotsAnsweredOnce
<1>3. PassesAhead'
  BY <1>1 DEF Ahead, PassesAhead, AllBefore, Holds, Row
<1>4. RowsAhead'
  <2>1. ASSUME NEW s \in Schedules, Owes(s) PROVE Owes(s)'
    BY <1>1, <2>1, SlotsAreNumbers DEF Owes, AllBefore
  <2> QED
    BY <1>1, <2>1 DEF Ahead, RowsAhead, AllBefore
<1> QED
  BY <1>2, <1>3, <1>4 DEF Ahead

LEMMA RewritesAhead ==
  ASSUME TypeInv, TypeInv', Ahead, NEW now, Rewrites(now),
         \A s \in Schedules : timer[s].st = "none" /\ timer'[s].st # "none" =>
           NonePast(s, now)
  PROVE  Ahead'
<1>1. UNCHANGED <<clock, answered>> /\ now \in 0 .. MaxNow /\ now \in Nat
  BY RecordsTyped DEF Rewrites
<1>2. ClockPasses' /\ SlotsAnsweredOnce'
  BY <1>1 DEF Ahead, ClockPasses, SlotsAnsweredOnce
<1>3. PassesAhead'
  <2> SUFFICES ASSUME NEW p \in Passes, pass'[p].at \in {"fire", "firing", "skip"},
                      timer'[pass'[p].s].owner = p
               PROVE  AllBefore(pass'[p].s, pass'[p].slot)
    BY <1>1 DEF PassesAhead, Holds, Row, AllBefore
  <2> QED
    BY RewritesHold DEF Ahead, PassesAhead
<1>4. RowsAhead'
  <2> SUFFICES ASSUME NEW s \in Schedules
               PROVE  /\ timer'[s].st = "waiting" =>
                           /\ timer'[s].wake \in Slots[s] \cup {Undated}
                           /\ AllBefore(s, timer'[s].wake)
                      /\ timer'[s].st \in {"queued", "leased"} => Owes(s)
    BY <1>1 DEF RowsAhead, AllBefore, Owes
  <2>1. CASE timer'[s] = timer[s]
    BY <2>1 DEF Ahead, RowsAhead
  <2>2. CASE timer'[s] = NoTimer
    BY <2>2 DEF NoTimer
  <2>3. CASE timer'[s] = NewTimer(s, now) /\ timer[s].st = "none"
    <3>1. timer'[s].st = "waiting" /\ timer'[s].wake = CronWakeAfter(s, now)
      BY <1>1, <2>3, NewTimerTyped
    <3>2. /\ CronWakeAfter(s, now) \in Slots[s] \cup {Undated}
          /\ CronWakeAfter(s, now) > now /\ CronWakeAfter(s, now) \in Nat
      BY <1>1, WakeAfter, SlotsAreNumbers
    <3>3. NonePast(s, now)
      BY <2>3, <3>1
    <3>4. AllBefore(s, CronWakeAfter(s, now))
      BY <1>1, <3>2, <3>3, AnsweredTyped DEF AllBefore, NonePast
    <3> QED
      BY <3>1, <3>2, <3>4
  <2> QED
    BY <2>1, <2>2, <2>3, RewrittenSchedules
<1> QED
  BY <1>2, <1>3, <1>4 DEF Ahead

LEMMA LeasesAhead ==
  ASSUME TypeInv, Ahead, NEW p \in Passes, NEW s \in Schedules, Leases(p, s)
  PROVE  Ahead'
<1>1. UNCHANGED <<clock, answered>> /\ clock \in Nat /\ clock < Undated
  BY RecordsTyped DEF Leases, TypeInv, Shapes
<1>2. ClockPasses' /\ SlotsAnsweredOnce'
  BY <1>1 DEF Ahead, ClockPasses, SlotsAnsweredOnce
<1>3. PassesAhead'
  <2> SUFFICES ASSUME NEW q \in Passes, pass'[q].at \in HasSlot,
                      timer'[pass'[q].s].owner = q
               PROVE  AllBefore(pass'[q].s, pass'[q].slot)
    BY <1>1 DEF PassesAhead, Holds, Row, AllBefore, HasSlot
  <2> QED
    BY LeasesHold DEF Ahead, PassesAhead, HasSlot
<1>4. Owes(s)
  <2>1. timer[s] \in Rows /\ timer[s].st # "none"
    BY DEF Leases, TypeInv, Shapes
  <2>2. CASE timer[s].st = "waiting"
    <3>1. timer[s].wake <= clock
      BY <2>2 DEF Leases
    <3>2. timer[s].wake \in Slots[s] \cup {Undated} /\ AllBefore(s, timer[s].wake)
      BY <2>2 DEF Ahead, RowsAhead
    <3>3. timer[s].wake \in Slots[s]
      BY <1>1, <3>1, <3>2, SlotsAreNumbers
    <3> QED
      BY <3>1, <3>2, <3>3 DEF Owes
  <2>3. CASE timer[s].st \in {"queued", "leased"}
    BY <2>3 DEF Ahead, RowsAhead
  <2> QED
    BY <2>1, <2>2, <2>3 DEF Rows
<1>5. RowsAhead'
  <2>1. Owes(s)'
    BY <1>1, <1>4 DEF Owes, AllBefore
  <2>2. timer'[s].st = "leased" /\ \A t \in Schedules \ {s} : timer'[t] = timer[t]
    BY LeaseTyped
  <2> QED
    BY <1>1, <2>1, <2>2 DEF Ahead, RowsAhead, Owes, AllBefore
<1> QED
  BY <1>2, <1>3, <1>5 DEF Ahead

(* A pass that reads its slot while it holds its row reads one past every  *)
(* slot answered: the row owes one.                                        *)
LEMMA ReadsAhead ==
  ASSUME TypeInv, TimersMatch, RowsAhead, NEW p \in Passes, pass[p].at # "idle", Holds(p)
  PROVE  AllBefore(pass[p].s, LatestSlot(pass[p].s, clock))
<1> DEFINE s == pass[p].s
<1>1. s \in Schedules /\ timer[s].st = "leased" /\ clock \in 0 .. MaxNow
  BY WorkTyped, HeldIsPublished DEF TypeInv, Shapes
<1>2. PICK x \in Slots[s] : x <= clock /\ AllBefore(s, x)
  BY <1>1 DEF RowsAhead, Owes
<1>3. x <= LatestSlot(s, clock) /\ x \in Nat /\ LatestSlot(s, clock) \in Nat
  BY <1>1, <1>2, Latest, SlotsAreNumbers, RecordsTyped
<1> QED
  BY <1>2, <1>3, AnsweredTyped DEF AllBefore

LEMMA QuietPassAhead ==
  ASSUME TypeInv, TimersMatch, Ahead, NEW p \in Passes, PassStep(p),
         UNCHANGED <<timer, answered>>
  PROVE  Ahead'
<1>1. UNCHANGED <<clock, timer, answered>> /\ pass[p].at # "idle"
  BY DEF PassStep
<1>2. RowsAhead' /\ ClockPasses' /\ SlotsAnsweredOnce'
  BY <1>1 DEF Ahead, RowsAhead, AllBefore, Owes, ClockPasses, SlotsAnsweredOnce
<1>3. PassesAhead'
  <2> SUFFICES ASSUME NEW q \in Passes, pass'[q].at \in HasSlot,
                      timer[pass'[q].s].owner = q
               PROVE  AllBefore(pass'[q].s, pass'[q].slot)
    BY <1>1 DEF PassesAhead, Holds, Row, AllBefore, HasSlot
  <2>1. CASE q # p
    <3>1. pass'[q] = pass[q]
      BY <2>1, OthersHold
    <3> QED
      BY <3>1 DEF Ahead, PassesAhead, Holds, Row, HasSlot
  <2>2. CASE q = p
    <3>0. pass'[p].at # "idle"
      BY <2>2 DEF HasSlot
    <3>1. PICK r \in Doing :
            /\ pass' = [pass EXCEPT ![p] = r]
            /\ r.s = pass[p].s
            /\ r.at \in HasSlot =>
                 \/ pass[p].at \in HasSlot /\ r.slot = pass[p].slot
                 \/ r.slot = LatestSlot(r.s, clock)
      BY <3>0, OthersHold DEF WorksOn
    <3>2. pass'[p] = r
      BY <3>1 DEF TypeInv, Shapes
    <3>3. Holds(p)
      BY <2>2, <3>1, <3>2 DEF Holds, Row
    <3>4. CASE pass[p].at \in HasSlot /\ r.slot = pass[p].slot
      BY <2>2, <3>1, <3>2, <3>3, <3>4 DEF Ahead, PassesAhead, HasSlot
    <3>5. CASE r.slot = LatestSlot(r.s, clock)
      BY <1>1, <2>2, <3>1, <3>2, <3>3, <3>5, ReadsAhead DEF Ahead
    <3> QED
      BY <2>2, <3>1, <3>2, <3>4, <3>5
  <2> QED
    BY <2>1, <2>2
<1> QED
  BY <1>2, <1>3 DEF Ahead

LEMMA ReleasesAhead ==
  ASSUME TypeInv, TimersMatch, Ahead, NEW p \in Passes, PassStep(p), Releases(p)
  PROVE  Ahead'
<1>1. UNCHANGED <<clock, answered>> /\ pass[p].at # "idle" /\ pass[p].s \in Schedules
  BY WorkTyped DEF PassStep, Releases
<1>2. ClockPasses' /\ SlotsAnsweredOnce'
  BY <1>1 DEF Ahead, ClockPasses, SlotsAnsweredOnce
<1>3. PassesAhead'
  <2> SUFFICES ASSUME NEW q \in Passes, pass'[q].at \in HasSlot,
                      timer'[pass'[q].s].owner = q
               PROVE  AllBefore(pass'[q].s, pass'[q].slot)
    BY <1>1 DEF PassesAhead, Holds, Row, AllBefore, HasSlot
  <2>1. pass'[p].at = "idle"
    BY <1>1, StopsTyped DEF Releases, PassStep, workflow
  <2>2. pass'[q] = pass[q] /\ pass[q].s \in Schedules
    BY <2>1, OthersHold, WorkTyped DEF HasSlot
  <2>3. Holds(q)
    BY <2>2, OthersHold DEF Holds, Row
  <2> QED
    BY <2>2, <2>3 DEF Ahead, PassesAhead, HasSlot
<1>4. RowsAhead'
  <2>1. Owes(pass[p].s)
    BY <1>1, HeldIsPublished DEF Releases, Ahead, RowsAhead
  <2>2. /\ timer'[pass[p].s].st = "queued"
        /\ \A t \in Schedules \ {pass[p].s} : timer'[t] = timer[t]
    BY <1>1, ReleasedTyped
  <2> QED
    BY <1>1, <2>1, <2>2 DEF Ahead, RowsAhead, Owes, AllBefore
<1> QED
  BY <1>2, <1>3, <1>4 DEF Ahead

LEMMA AnswersGrow ==
  ASSUME TypeInv, NEW p \in Passes, MovesOn(p)
  PROVE  /\ DOMAIN answered' = DOMAIN answered \cup {Len(answered) + 1}
         /\ \A i \in DOMAIN answered : answered'[i] = answered[i]
         /\ Len(answered) + 1 \notin DOMAIN answered
         /\ answered'[Len(answered) + 1].s = pass[p].s
         /\ answered'[Len(answered) + 1].slot = pass[p].slot
<1>1. answered \in Seq(Answered)
  BY DEF TypeInv, Shapes
<1>2. answered' = Append(answered, [s |-> pass[p].s, slot |-> pass[p].slot])
  BY DEF MovesOn, MoveOn
<1> QED
  BY <1>1, <1>2

LEMMA MovesOnAhead ==
  ASSUME TypeInv, TimersMatch, SlotsRead, Ahead,
         NEW p \in Passes, PassStep(p), MovesOn(p)
  PROVE  Ahead'
<1> DEFINE s == pass[p].s
           slot == pass[p].slot
<1>0. UNCHANGED clock /\ pass[p].at # "idle"
  BY DEF PassStep
<1>a. pass[p] \in Doing /\ s \in Schedules
  BY <1>0, WorkTyped
<1>b. slot \in Nat /\ pass[p].next \in Nat
  BY <1>a, RecordsTyped DEF Doing
<1>c. clock \in Nat
  BY RecordsTyped DEF TypeInv, Shapes
<1>1. /\ s \in Schedules /\ slot \in Nat /\ pass[p].next \in Nat /\ clock \in Nat
      /\ UNCHANGED clock /\ pass[p].at # "idle"
  BY <1>0, <1>a, <1>b, <1>c
<1>2. /\ slot < pass[p].next /\ slot <= clock
      /\ pass[p].next \in Slots[s] \cup {Undated}
  BY DEF MovesOn, SlotsRead, SlotRead
<1>3. AllBefore(s, slot)
  BY DEF MovesOn, Ahead, PassesAhead
<1>4. \A t \in Schedules : \A x : t # s /\ AllBefore(t, x) => AllBefore(t, x)'
  BY AnswersGrow DEF AllBefore
<1>5. ClockPasses'
  BY <1>1, <1>2, AnswersGrow DEF Ahead, ClockPasses
<1>6. SlotsAnsweredOnce'
  <2>1. \A i \in DOMAIN answered :
          ~(answered[i].s = s /\ answered[i].slot = slot)
    BY <1>1, <1>3, AnsweredTyped DEF AllBefore
  <2> QED
    BY <2>1, AnswersGrow DEF Ahead, SlotsAnsweredOnce
<1>7. RowsAhead'
  <2> SUFFICES ASSUME NEW t \in Schedules
               PROVE  /\ timer'[t].st = "waiting" =>
                           /\ timer'[t].wake \in Slots[t] \cup {Undated}
                           /\ \A i \in DOMAIN answered' :
                                answered'[i].s = t => answered'[i].slot < timer'[t].wake
                      /\ timer'[t].st \in {"queued", "leased"} => Owes(t)'
    BY DEF RowsAhead, AllBefore
  <2>1. CASE t = s
    <3>1. timer'[s].st = "waiting" /\ timer'[s].wake = pass[p].next
      BY <1>1, MovedOnTyped
    <3>2. \A i \in DOMAIN answered : answered[i].s = s => answered[i].slot < pass[p].next
      BY <1>1, <1>2, <1>3, AnsweredTyped DEF AllBefore
    <3>3. \A i \in DOMAIN answered' : answered'[i].s = s => answered'[i].slot < pass[p].next
      BY <1>2, <3>2, AnswersGrow
    <3> QED
      BY <1>2, <2>1, <3>1, <3>3
  <2>2. CASE t # s
    <3>1. timer'[t] = timer[t]
      BY <1>1, <2>2, MovedOnTyped
    <3>2. timer[t].st = "waiting" => AllBefore(t, timer[t].wake)
      BY DEF Ahead, RowsAhead
    <3>3. ASSUME Owes(t) PROVE Owes(t)'
      BY <1>1, <1>4, <2>2, <3>3 DEF Owes
    <3>4. AllBefore(t, timer[t].wake) =>
            \A i \in DOMAIN answered' :
              answered'[i].s = t => answered'[i].slot < timer'[t].wake
      BY <2>2, <3>1, AnswersGrow DEF AllBefore
    <3> QED
      BY <3>1, <3>2, <3>3, <3>4 DEF Ahead, RowsAhead
  <2> QED
    BY <2>1, <2>2
<1>8. PassesAhead'
  <2> SUFFICES ASSUME NEW q \in Passes, pass'[q].at \in HasSlot,
                      timer'[pass'[q].s].owner = q
               PROVE  \A i \in DOMAIN answered' :
                        answered'[i].s = pass'[q].s => answered'[i].slot < pass'[q].slot
    BY DEF PassesAhead, Holds, Row, AllBefore, HasSlot
  <2>1. pass'[p].at = "idle"
    BY <1>1, StopsTyped, MovedOnTyped DEF PassStep, workflow
  <2>2. pass'[q] = pass[q] /\ pass[q].s \in Schedules
    BY <2>1, OthersHold, WorkTyped DEF HasSlot
  <2>3. Holds(q)
    BY <2>2, OthersHold DEF Holds, Row
  <2>4. pass[q].s # s
    BY <1>1, <2>2, MovedOnTyped, RecordsTyped
  <2>5. AllBefore(pass[q].s, pass[q].slot)
    BY <2>2, <2>3 DEF Ahead, PassesAhead, HasSlot
  <2> QED
    BY <2>2, <2>4, <2>5, AnswersGrow DEF AllBefore
<1> QED
  BY <1>5, <1>6, <1>7, <1>8 DEF Ahead

(* Tick and SwitchMode ask for nothing; a request made now has read the    *)
(* clock after every slot answered.                                        *)
LEMMA AsksAhead ==
  ASSUME TypeInv, RequestsAhead, ClockPasses,
         \/ Tick \/ SwitchMode
         \/ \E e \in Publishers : AskPublish(e)
         \/ \E e \in Operators : AskPause(e)
  PROVE  RequestsAhead'
<1>1. UNCHANGED <<versions, paused, answered>>
  BY OthersStay DEF Stays
<1>2. \A s \in Schedules : NonePast(s, clock)
  BY DEF ClockPasses, NonePast
<1>3. CASE UNCHANGED request
  BY <1>1, <1>3 DEF RequestsAhead, NonePast, Published, SchedulesOf
<1>4. ASSUME NEW e \in Publishers, AskPublish(e) PROVE RequestsAhead'
  <2>1. PICK g \in Graphs : request' = [request EXCEPT ![e] =
          [op |-> "publish", version |-> Published, graph |-> g, now |-> clock]]
    BY <1>4 DEF AskPublish
  <2>2. request'[e].op = "publish" /\ request'[e].now = clock
        /\ \A d \in Requests \ {e} : request'[d] = request[d]
    BY <2>1 DEF TypeInv, Shapes, Requests
  <2> QED
    BY <1>1, <1>2, <2>2 DEF RequestsAhead, NonePast, Published, SchedulesOf
<1>5. ASSUME NEW e \in Operators, AskPause(e) PROVE RequestsAhead'
  <2> DEFINE op == IF paused THEN "resume" ELSE "pause"
  <2>1. request' = [request EXCEPT ![e] = [NoRequest EXCEPT !.op = op, !.now = clock]]
    BY <1>5 DEF AskPause
  <2>2. (op = "resume" /\ paused) \/ (op = "pause" /\ ~paused)
    OBVIOUS
  <2> HIDE DEF op
  <2>3. request'[e].op = op /\ request'[e].now = clock
        /\ \A d \in Requests \ {e} : request'[d] = request[d]
    BY <2>1 DEF TypeInv, Shapes, Requests, NoRequest
  <2> QED
    BY <1>1, <1>2, <2>2, <2>3 DEF RequestsAhead, NonePast, Published, SchedulesOf
<1>6. CASE Tick \/ SwitchMode
  BY <1>3, <1>6 DEF Tick, SwitchMode
<1> QED
  BY <1>4, <1>5, <1>6

(* A row a publish makes was nobody's until then: its schedule was not     *)
(* declared, so nothing answered it since the request read the clock.      *)
LEMMA PublishAhead ==
  ASSUME TypeInv, TimersMatch, Ahead, RequestsAhead, NEW e \in Publishers, Publish(e)
  PROVE  Ahead' /\ RequestsAhead'
<1>1. /\ UNCHANGED <<paused, answered>> /\ request[e].op = "publish" /\ e \in Requests
      /\ request' = [request EXCEPT ![e] = NoRequest] /\ Published \in Nat
  BY DEF Publish, Requests, TypeInv, Shapes, Published
<1>2. request'[e].op = "none" /\ \A d \in Requests \ {e} : request'[d] = request[d]
  BY <1>1 DEF TypeInv, Shapes, NoRequest
<1>3. TypeInv'
  BY PublishComesTo
<1>4. CASE Stays
  <2>1. RequestsAhead'
    BY <1>1, <1>2, <1>4 DEF Stays, RequestsAhead, NonePast, Published, SchedulesOf
  <2> QED
    BY <1>4, <2>1, StaysAhead
<1>5. CASE /\ Rewrites(request[e].now) /\ request[e].version = Published
           /\ Published' = Published + 1
  <2>1. \A s \in Schedules : timer[s].st = "none" /\ timer'[s].st # "none" =>
          NonePast(s, request[e].now)
    <3> SUFFICES ASSUME NEW s \in Schedules, timer[s].st = "none", timer'[s].st # "none"
                 PROVE  s \notin SchedulesOf(Published)
      BY <1>1, <1>5 DEF RequestsAhead
    <3>1. s \in TimerSchedules(paused', SchedulesOf(Published)')
      BY <1>3, <1>5, RewritesMatch DEF TimersMatch
    <3>2. ~paused
      BY <1>1, <3>1 DEF TimerSchedules
    <3> QED
      BY <3>2 DEF TimersMatch, TimerSchedules
  <2>2. Ahead'
    BY <1>3, <1>5, <2>1, RewritesAhead
  <2>3. \A d \in Requests : request'[d].op = "publish" => request'[d].version # Published'
    <3> SUFFICES ASSUME NEW d \in Requests, d # e PROVE request[d].version # Published + 1
      BY <1>2, <1>5
    <3>1. request[d].version \in Nat /\ request[d].version <= Published
      BY AskedTyped DEF Asked
    <3> QED
      BY <1>1, <3>1
  <2>4. RequestsAhead'
    BY <1>1, <1>2, <2>3 DEF RequestsAhead, NonePast
  <2> QED
    BY <2>2, <2>4
<1> QED
  BY <1>4, <1>5, PublishComesTo

(* A resume makes rows for schedules none of which was answered since it   *)
(* read the clock: the workflow has been paused, by this operator.         *)
LEMMA SetPausedAhead ==
  ASSUME OneOperator, TypeInv, TimersMatch, Ahead, RequestsAhead,
         NEW e \in Operators, SetPaused(e)
  PROVE  Ahead' /\ RequestsAhead'
<1>1. /\ TypeInv' /\ Rewrites(request[e].now) /\ UNCHANGED <<versions, answered>>
      /\ request[e].op \in {"pause", "resume"} /\ paused' = (request[e].op = "pause")
  BY SetPausedComesTo DEF Rewrites
<1>2. /\ request' = [request EXCEPT ![e] = NoRequest] /\ e \in Requests
      /\ request'[e].op = "none" /\ \A d \in Requests \ {e} : request'[d] = request[d]
  BY DEF SetPaused, TypeInv, Shapes, NoRequest, Requests
<1>3. \A d \in Requests : request'[d].op \notin {"pause", "resume"}
  BY <1>2 DEF OneOperator, TypeInv, RequestsRead
<1>4. RequestsAhead'
  BY <1>1, <1>2, <1>3 DEF RequestsAhead, NonePast, Published, SchedulesOf
<1>5. \A s \in Schedules : timer[s].st = "none" /\ timer'[s].st # "none" =>
        NonePast(s, request[e].now)
  <2>1. CASE request[e].op = "pause"
    <3>1. \A s \in Schedules : timer'[s].st = "none"
      BY <1>1, <2>1, RewritesMatch DEF TimersMatch, TimerSchedules
    <3> QED
      BY <3>1
  <2>2. CASE request[e].op = "resume"
    BY <1>2, <2>2 DEF RequestsAhead
  <2> QED
    BY <1>1, <2>1, <2>2
<1>6. Ahead'
  BY <1>1, <1>5, RewritesAhead
<1> QED
  BY <1>4, <1>6

LEMMA PassStepAhead ==
  ASSUME IInv, Ahead, RequestsAhead, NEW p \in Passes, PassStep(p)
  PROVE  Ahead' /\ RequestsAhead'
<1>0. TypeInv /\ TimersMatch /\ SlotsRead
  BY DEF IInv
<1>1. UNCHANGED <<versions, paused, request>> /\ pass[p].at # "idle"
  BY DEF PassStep, workflow
<1>2. CASE UNCHANGED <<timer, answered>>
  <2>1. RequestsAhead'
    BY <1>1, <1>2 DEF RequestsAhead, NonePast, Published, SchedulesOf
  <2> QED
    BY <1>0, <1>2, <2>1, QuietPassAhead
<1>3. CASE Releases(p)
  <2>1. RequestsAhead'
    BY <1>1, <1>3 DEF Releases, RequestsAhead, NonePast, Published, SchedulesOf
  <2> QED
    BY <1>0, <1>3, <2>1, ReleasesAhead
<1>4. CASE MovesOn(p)
  <2>1. ~paused /\ pass[p].s \in SchedulesOf(Published)
    BY <1>0, <1>1, <1>4, HeldIsPublished DEF MovesOn
  <2>2. \A s \in Schedules \ {pass[p].s} : \A x : NonePast(s, x) => NonePast(s, x)'
    BY <1>0, <1>4, AnswersGrow DEF NonePast
  <2>3. \A e \in Requests : request[e].op # "resume"
    BY <2>1 DEF RequestsAhead
  <2>4. RequestsAhead'
    <3> SUFFICES ASSUME NEW e \in Requests, request[e].op = "publish",
                        request[e].version = Published,
                        NEW s \in Schedules \ SchedulesOf(Published)
                 PROVE  NonePast(s, request[e].now)'
      BY <1>1, <2>1, <2>3 DEF RequestsAhead, Published, SchedulesOf
    <3>1. NonePast(s, request[e].now) /\ s # pass[p].s
      BY <2>1 DEF RequestsAhead
    <3> QED
      BY <1>0, <1>1, <1>4, <3>1, AnswersGrow DEF NonePast
  <2> QED
    BY <1>0, <1>4, <2>4, MovesOnAhead
<1> QED
  BY <1>2, <1>3, <1>4 DEF PassStep, WorksOn, GivesUp

LEMMA StepAhead ==
  ASSUME OneOperator, IInv, Ahead, RequestsAhead, [Next]_vars
  PROVE  Ahead' /\ RequestsAhead'
<1>1. TypeInv /\ TimersMatch /\ ClockPasses
  BY DEF IInv, Ahead
<1>2. CASE \/ Tick \/ SwitchMode
           \/ \E e \in Publishers : AskPublish(e)
           \/ \E e \in Operators : AskPause(e)
  BY <1>1, <1>2, OthersStay, StaysAhead, AsksAhead
<1>3. CASE \E e \in Publishers : Publish(e)
  BY <1>1, <1>3, PublishAhead
<1>4. CASE \E e \in Operators : SetPaused(e)
  BY <1>1, <1>4, SetPausedAhead
<1>5. ASSUME NEW p \in Passes, Work(p) \/ BodyFails(p) \/ Crash(p)
      PROVE  Ahead' /\ RequestsAhead'
  <2>1. CASE PassStep(p)
    BY <2>1, PassStepAhead
  <2>2. ASSUME NEW s \in Schedules, Leases(p, s) PROVE Ahead' /\ RequestsAhead'
    <3>1. RequestsAhead'
      BY <2>2 DEF Leases, workflow, RequestsAhead, NonePast, Published, SchedulesOf
    <3> QED
      BY <1>1, <2>2, <3>1, LeasesAhead
  <2> QED
    BY <1>5, <2>1, <2>2, PassActions
<1>6. CASE UNCHANGED vars
  BY <1>6 DEF vars, workflow, Ahead, RequestsAhead, RowsAhead, PassesAhead, ClockPasses,
              SlotsAnsweredOnce, AllBefore, NonePast, Owes, Holds, Row, Published, SchedulesOf
<1> QED
  BY <1>2, <1>3, <1>4, <1>5, <1>6 DEF Next

(* With one operator, no slot of a schedule is answered twice, by however  *)
(* many passes, publishes, crashes and lost leases.                        *)
THEOREM NoSlotTwice ==
  ASSUME OneOperator
  PROVE  Spec => []SlotsAnsweredOnce
<1>1. Init => Ahead /\ RequestsAhead
  BY InitTyped
<1>2. IInv /\ Ahead /\ RequestsAhead /\ [Next]_vars => Ahead' /\ RequestsAhead'
  BY StepAhead
<1>3. Spec => [](Ahead /\ RequestsAhead)
  BY <1>1, <1>2, Inductive, PTL DEF Spec
<1>4. Ahead => SlotsAnsweredOnce
  BY DEF Ahead
<1> QED
  BY <1>3, <1>4, PTL
====
