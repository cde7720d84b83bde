------------------------------ MODULE CronTimers ------------------------------
(***************************************************************************)
(* The cron timers of one workflow, beside the requests that rewrite them. *)
(*                                                                         *)
(* A timer is a schedule row due at its schedule's next slot.  A pass that *)
(* claims one checks the published version, and then fires its latest slot *)
(* in a serializable transaction fenced on the lease, which opens the run  *)
(* and moves the timer to its next slot.  Publish, a pause and a resume    *)
(* rewrite the timers under it; each of these requests decides and reads   *)
(* the clock before the transaction that writes.                           *)
(*                                                                         *)
(* The draft, whose revision only refuses more publishes, and what the     *)
(* admission of a fired run does to others (Delivery) are left out: a      *)
(* first-wins refusal moves the timer as a run does.                       *)
(***************************************************************************)
EXTENDS Naturals, Sequences, FiniteSetsExt

CONSTANTS
  Schedules,            \* schedules a graph may declare: expression and zone
  Slots,                \* the fire times of each schedule
  Graphs,               \* [schedules, runnable]: the graphs one may publish
  Publishers,           \* requests that publish, one at a time each
  Operators,            \* requests that pause or resume, one at a time each
  Passes,               \* the passes worker loops can be making at once
  STALE_FIRE_ATTEMPTS,  \* checks of the published version by one fire, 3
  STEP_RETRY_LIMIT,     \* failures of the pass before its slot is skipped, 4
  MaxNow,               \* bound: the clock
  MaxVersions,          \* bound: versions published
  MaxChanges,           \* bound: pauses and resumes asked for, and changes of
                        \*   the Published mode
  MaxLosses,            \* bound: passes a crash ends, and leases that expire
                        \*   under a pass still at work
  None

ASSUME SlotsAreTimes == Slots \in [Schedules -> SUBSET (1 .. MaxNow)]
ASSUME BoundsAreNumbers ==
  /\ MaxNow \in Nat /\ STALE_FIRE_ATTEMPTS \in Nat \ {0} /\ STEP_RETRY_LIMIT \in Nat
ASSUME GraphsDeclareSchedules ==
  Graphs \subseteq [schedules : SUBSET Schedules, runnable : BOOLEAN]
ASSUME NoneIsNoOne == None \notin Passes \cup Schedules \cup Graphs

Modes == {"live", "test"}

VARIABLES
  clock,
  versions,  \* the graphs published, the last of them the workflow's own
  mode,      \* the Published mode
  paused,
  timer,     \* the row of each schedule, which may not be there
  request,   \* what each request has read
  pass,      \* what each pass is doing
  count,     \* how often each bounded event has happened
  answered   \* history: every slot fired or skipped, in order

workflow == <<versions, mode, paused>>
vars == <<clock, workflow, timer, request, pass, count, answered>>

Requests == Publishers \cup Operators

-----------------------------------------------------------------------------
(* Rows                                                                    *)

Published == Len(versions)
SchedulesOf(v) == IF v = 0 THEN {} ELSE versions[v].schedules

(* Mutant: a paused workflow's timers are written all the same.            *)
TimerSchedules_Paused(isPaused, declared) == declared
(* `timerSchedules`: the schedules a workflow keeps a timer for.           *)
TimerSchedules(isPaused, declared) == IF isPaused THEN {} ELSE declared

(* An expression with no later slot sleeps past every real one.            *)
Undated == MaxNow + 1
CronWakeAfter(s, now) == Min({x \in Slots[s] : x > now} \cup {Undated})
LatestSlot(s, now) == Max({0} \cup {x \in Slots[s] : x <= now})

(* `since` is the clock of the write that made the row.                    *)
NoTimer == [st |-> "none", wake |-> 0, owner |-> None, attempt |-> 0, since |-> 0]
NewTimer(s, now) ==
  [st |-> "waiting", wake |-> CronWakeAfter(s, now), owner |-> None,
   attempt |-> 0, since |-> now]

Idle == [at |-> "idle", s |-> None, tries |-> 0, version |-> 0, mode |-> "live",
         slot |-> 0, next |-> 0, checked |-> FALSE, clean |-> TRUE,
         verdict |-> "current"]

NoRequest == [op |-> "none", version |-> 0, graph |-> None, now |-> 0]

Row(p) == timer[pass[p].s]

(* Mutant: a pass's writes name its row and not its lease.                 *)
Holds_AnyLease(p) == Row(p).st # "none"
(* The fence: a row that no longer names the pass refuses its writes.      *)
Holds(p) == Row(p).owner = p

Stops(p) == pass' = [pass EXCEPT ![p] = Idle]

-----------------------------------------------------------------------------
(* The requests that write timers                                          *)

(* Mutant: a row Publish keeps is locked but not rewritten.                *)
Touched_Nothing(schedules) == pass
(* A kept row is rewritten with its own wake, so a fire whose snapshot is  *)
(* older than this transaction fails to serialize.                         *)
Touched(schedules) ==
  [p \in Passes |->
     [pass[p] EXCEPT !.clean =
        @ /\ ~(pass[p].at = "firing" /\ pass[p].s \in schedules)]]

(* `replaceCronTimers`: the row of a schedule that stays is kept, lease    *)
(* and all; the others are deleted, and the new schedules get new rows.    *)
ReplaceCronTimers(schedules, now) ==
  /\ timer' = [s \in Schedules |->
       IF s \notin schedules THEN NoTimer
       ELSE IF timer[s].st # "none" THEN timer[s] ELSE NewTimer(s, now)]
  /\ pass' = Touched(schedules)

(* `publishWorkflow` up to its transaction: what the editor expected is    *)
(* what is published, and the graph is not the one already published.      *)
AskPublish(e) ==
  /\ request[e].op = "none" /\ Published < MaxVersions
  /\ \E g \in Graphs :
       /\ Published > 0 => versions[Published] # g
       /\ request' = [request EXCEPT ![e] =
            [op |-> "publish", version |-> Published, graph |-> g, now |-> clock]]
  /\ UNCHANGED <<clock, workflow, timer, pass, count, answered>>

(* `insertPublishedVersion`: its version number is taken, or its update of *)
(* the workflow misses, once another publish has moved the pointer.        *)
Publish(e) ==
  LET asked == request[e] IN
  /\ asked.op = "publish"
  /\ request' = [request EXCEPT ![e] = NoRequest]
  /\ IF asked.version # Published
     THEN UNCHANGED <<versions, timer, pass>>
     ELSE /\ versions' = Append(versions, asked.graph)
          /\ ReplaceCronTimers(TimerSchedules(paused, asked.graph.schedules), asked.now)
  /\ UNCHANGED <<clock, mode, paused, count, answered>>

(* `setPausedState` up to its transaction: a request that would change     *)
(* nothing writes nothing.                                                 *)
AskPause(e) ==
  /\ request[e].op = "none" /\ count.changes < MaxChanges
  /\ request' = [request EXCEPT ![e] =
       [NoRequest EXCEPT !.op = IF paused THEN "resume" ELSE "pause", !.now = clock]]
  /\ count' = [count EXCEPT !.changes = @ + 1]
  /\ UNCHANGED <<clock, workflow, timer, pass, answered>>

(* `setPaused`, which checks nothing again: a pause deletes every timer    *)
(* and a resume writes them for the published version.                     *)
SetPaused(e) ==
  /\ request[e].op \in {"pause", "resume"}
  /\ paused' = (request[e].op = "pause")
  /\ request' = [request EXCEPT ![e] = NoRequest]
  /\ ReplaceCronTimers(TimerSchedules(paused', SchedulesOf(Published)), request[e].now)
  /\ UNCHANGED <<clock, versions, mode, count, answered>>

(* `updateMetadata`, which leaves the timers alone.                        *)
SwitchMode ==
  /\ count.changes < MaxChanges
  /\ mode' \in Modes \ {mode}
  /\ count' = [count EXCEPT !.changes = @ + 1]
  /\ UNCHANGED <<clock, versions, paused, timer, request, pass, answered>>

Tick ==
  /\ clock < MaxNow
  /\ clock' = clock + 1
  /\ UNCHANGED <<workflow, timer, request, pass, count, answered>>

-----------------------------------------------------------------------------
(* The pass over a timer                                                   *)

RetriesSpent(attempt) == attempt > STEP_RETRY_LIMIT

AtWork(p, s) == pass[p].at # "idle" /\ pass[p].s = s

(* The claim of row `s`.  A row whose retries are spent is skipped.        *)
Lease(p, s, attempt) ==
  /\ timer' = [timer EXCEPT ![s].st = "leased", ![s].owner = p, ![s].attempt = attempt]
  /\ pass' = [pass EXCEPT ![p] =
       [Idle EXCEPT !.s = s, !.at = IF RetriesSpent(attempt) THEN "spent" ELSE "check"]]

Claim(p, s) ==
  /\ pass[p].at = "idle"
  /\ timer[s].st \in {"waiting", "queued"} /\ timer[s].wake <= clock
  /\ Lease(p, s, timer[s].attempt)
  /\ UNCHANGED <<clock, workflow, request, count, answered>>

(* A lease that expires counts one failure.  Its pass may have crashed, or *)
(* be still at work.                                                       *)
ClaimExpired(p, s) ==
  /\ pass[p].at = "idle" /\ timer[s].st = "leased"
  /\ \/ ~AtWork(timer[s].owner, s) /\ UNCHANGED count
     \/ /\ AtWork(timer[s].owner, s) /\ count.losses < MaxLosses
        /\ count' = [count EXCEPT !.losses = @ + 1]
  /\ Lease(p, s, timer[s].attempt + 1)
  /\ UNCHANGED <<clock, workflow, request, answered>>

Crash(p) ==
  /\ pass[p].at # "idle" /\ count.losses < MaxLosses
  /\ count' = [count EXCEPT !.losses = @ + 1]
  /\ Stops(p)
  /\ UNCHANGED <<clock, workflow, timer, request, answered>>

(* One check of the published version: the pass reads the version and the  *)
(* mode, then the clock, and a graph the preflight refuses is skipped.     *)
Check(p) ==
  /\ pass[p].at = "check"
  /\ Published > 0
  /\ pass' = [pass EXCEPT ![p] =
       [@ EXCEPT !.at = IF versions[Published].runnable THEN "fire" ELSE "skip",
                 !.checked = TRUE, !.version = Published, !.mode = mode,
                 !.slot = LatestSlot(pass[p].s, clock),
                 !.next = CronWakeAfter(pass[p].s, clock)]]
  /\ UNCHANGED <<clock, workflow, timer, request, count, answered>>

(* Mutant: a pass that fails is released with the failures it had.         *)
Fails_Uncounted(p) ==
  IF ~Holds(p) THEN Stops(p) /\ UNCHANGED timer
  ELSE /\ Stops(p)
       /\ timer' = [timer EXCEPT ![pass[p].s] =
            [@ EXCEPT !.st = "queued", !.wake = clock, !.owner = None]]
(* The body fails.  Its row is released for a retry, whose backoff is not  *)
(* modelled; the failure past the limit skips the slot in the same pass.   *)
Fails(p) ==
  IF ~Holds(p) THEN Stops(p) /\ UNCHANGED timer
  ELSE IF RetriesSpent(Row(p).attempt + 1)
  THEN pass' = [pass EXCEPT ![p].at = "spent"] /\ UNCHANGED timer
  ELSE /\ Stops(p)
       /\ timer' = [timer EXCEPT ![pass[p].s] =
            [@ EXCEPT !.st = "queued", !.wake = clock, !.owner = None,
                      !.attempt = Row(p).attempt + 1]]

BodyFails(p) ==
  /\ \/ pass[p].at \in {"check", "fire", "firing"}
     \/ pass[p].at = "skip" /\ pass[p].checked
  /\ Fails(p)
  /\ UNCHANGED <<clock, workflow, request, count, answered>>

(* The published version moved since the check: the fire checks again, and *)
(* fails once it has checked STALE_FIRE_ATTEMPTS times.                    *)
Stale(p) ==
  IF pass[p].tries + 1 < STALE_FIRE_ATTEMPTS
  THEN /\ pass' = [pass EXCEPT ![p] =
            [Idle EXCEPT !.at = "check", !.s = pass[p].s, !.tries = pass[p].tries + 1]]
       /\ UNCHANGED timer
  ELSE Fails(p)

(* `cronPublicationVerdict`, from the workflow row and what the pass       *)
(* checked of it.                                                          *)
Verdict(p) ==
  IF paused \/ Published = 0 THEN "dropped"
  ELSE IF Published # pass[p].version \/ mode # pass[p].mode THEN "stale"
  ELSE "current"

(* Mutant: the next wake is read off the clock once the slot has run.      *)
MoveOn_LateClock(p) ==
  LET s == pass[p].s IN
  /\ timer' = [timer EXCEPT ![s] =
       [@ EXCEPT !.st = "waiting", !.wake = CronWakeAfter(s, clock),
                 !.owner = None, !.attempt = 0]]
  /\ answered' = Append(answered, [s |-> s, slot |-> pass[p].slot])
  /\ Stops(p)
(* Mutant: the timer moves on without its lease cleared.                   *)
MoveOn_Leased(p) ==
  LET s == pass[p].s IN
  /\ timer' = [timer EXCEPT ![s] =
       [@ EXCEPT !.st = "waiting", !.wake = pass[p].next, !.attempt = 0]]
  /\ answered' = Append(answered, [s |-> s, slot |-> pass[p].slot])
  /\ Stops(p)
(* The slot is answered and its timer moves on, with no lease.             *)
MoveOn(p) ==
  LET s == pass[p].s IN
  /\ timer' = [timer EXCEPT ![s] =
       [@ EXCEPT !.st = "waiting", !.wake = pass[p].next, !.owner = None, !.attempt = 0]]
  /\ answered' = Append(answered, [s |-> s, slot |-> pass[p].slot])
  /\ Stops(p)

DropTimer(p) ==
  /\ timer' = [timer EXCEPT ![pass[p].s] = NoTimer]
  /\ Stops(p)
  /\ UNCHANGED answered

(* `fireCronTimer` begins: a serializable transaction takes its snapshot,  *)
(* and decides from the workflow row in it.                                *)
BeginFire(p) ==
  /\ pass[p].at = "fire"
  /\ pass' = [pass EXCEPT ![p] =
       [@ EXCEPT !.at = "firing", !.verdict = Verdict(p), !.clean = TRUE]]
  /\ UNCHANGED <<clock, workflow, timer, request, count, answered>>

(* It commits.  The fence refuses a row that is not the pass's; one that   *)
(* was rewritten since the snapshot aborts the transaction, which runs     *)
(* again from a new one.                                                   *)
CommitFire(p) ==
  LET verdict == pass[p].verdict
      declared == pass[p].s \in SchedulesOf(pass[p].version)
  IN
  /\ pass[p].at = "firing"
  /\ IF ~Holds(p) THEN Stops(p) /\ UNCHANGED <<timer, answered>>
     ELSE IF ~pass[p].clean
     THEN pass' = [pass EXCEPT ![p].at = "fire", ![p].verdict = "current"] /\ UNCHANGED <<timer, answered>>
     ELSE IF verdict = "stale" THEN Stale(p) /\ UNCHANGED answered
     ELSE IF verdict = "dropped" \/ ~declared THEN DropTimer(p)
     ELSE MoveOn(p)
  /\ UNCHANGED <<clock, workflow, request, count>>

(* `skipSpentSchedule` reads the clock for the slot it skips.              *)
ReadSpentSlot(p) ==
  /\ pass[p].at = "spent"
  /\ pass' = [pass EXCEPT ![p] =
       [@ EXCEPT !.at = "skip", !.checked = FALSE,
                 !.slot = LatestSlot(pass[p].s, clock),
                 !.next = CronWakeAfter(pass[p].s, clock)]]
  /\ UNCHANGED <<clock, workflow, timer, request, count, answered>>

(* `skipCronSlot` locks the timer before it reads the workflow row.  With  *)
(* no version checked, after spent retries, it reads none.                 *)
SkipSlot(p) ==
  LET verdict == IF pass[p].checked THEN Verdict(p) ELSE "current" IN
  /\ pass[p].at = "skip"
  /\ IF ~Holds(p) THEN Stops(p) /\ UNCHANGED <<timer, answered>>
     ELSE IF verdict = "dropped" THEN DropTimer(p)
     ELSE IF verdict = "stale" THEN Stale(p) /\ UNCHANGED answered
     ELSE MoveOn(p)
  /\ UNCHANGED <<clock, workflow, request, count>>

-----------------------------------------------------------------------------
Init ==
  /\ clock = 0 /\ versions = <<>> /\ mode = "live" /\ paused = FALSE
  /\ timer = [s \in Schedules |-> NoTimer]
  /\ request = [e \in Requests |-> NoRequest]
  /\ pass = [p \in Passes |-> Idle]
  /\ count = [changes |-> 0, losses |-> 0]
  /\ answered = <<>>

Work(p) ==
  \/ Check(p) \/ BeginFire(p) \/ CommitFire(p) \/ ReadSpentSlot(p) \/ SkipSlot(p)
  \/ \E s \in Schedules : Claim(p, s) \/ ClaimExpired(p, s)

Next ==
  \/ Tick \/ SwitchMode
  \/ \E e \in Publishers : AskPublish(e) \/ Publish(e)
  \/ \E e \in Operators : AskPause(e) \/ SetPaused(e)
  \/ \E p \in Passes : Work(p) \/ BodyFails(p) \/ Crash(p)

Spec == Init /\ [][Next]_vars

(* While some pass has work to do, one of them does it: worker loops keep  *)
(* polling.  No pass has to go on.                                         *)
FairSpec == Spec /\ WF_vars(\E p \in Passes : Work(p))

-----------------------------------------------------------------------------
(* Properties                                                              *)

(* Every row, request and pass has its shape; a row is leased when, and    *)
(* only when, it names a pass, and no row is past its last retry but by    *)
(* expired leases.                                                         *)
TypeOK ==
  /\ clock \in 0 .. MaxNow
  /\ versions \in Seq(Graphs) /\ mode \in Modes /\ paused \in BOOLEAN
  /\ \A s \in Schedules :
       /\ timer[s].st \in {"none", "waiting", "queued", "leased"}
       /\ timer[s].wake \in 0 .. Undated /\ timer[s].since \in 0 .. MaxNow
       /\ timer[s].attempt \in Nat
       /\ timer[s].owner \in Passes \cup {None}
       /\ timer[s].st = "leased" <=> timer[s].owner # None
  /\ \A e \in Requests :
       /\ request[e].op \in {"none", "publish", "pause", "resume"}
       /\ request[e].version \in 0 .. Published /\ request[e].now \in 0 .. clock
  /\ \A p \in Passes :
       /\ pass[p].at \in {"idle", "check", "fire", "firing", "skip", "spent"}
       /\ pass[p].at = "idle" <=> pass[p].s = None
       /\ pass[p].tries \in 0 .. STALE_FIRE_ATTEMPTS - 1
       /\ pass[p].version \in 0 .. Published
       /\ pass[p].verdict \in {"current", "stale", "dropped"}

(* Between transactions the timers are those of the published version's    *)
(* schedules, and a paused workflow has none (`timerSchedules`), however   *)
(* publishes, pauses, resumes and fires interleave.                        *)
TimersMatch ==
  \A s \in Schedules :
    timer[s].st # "none" <=> s \in TimerSchedules(paused, SchedulesOf(Published))

Answers(s, from, to) ==
  \E i \in DOMAIN answered :
    answered[i].s = s /\ answered[i].slot >= from /\ answered[i].slot < to

(* A timer at rest has passed over no slot: each one between the write     *)
(* that made it and its wake was fired or skipped, itself or through a     *)
(* later one (ADR 0007: a fire missed fires once, for the latest slot).    *)
EachSlotAnswered ==
  \A s \in Schedules : timer[s].st = "waiting" =>
    \A x \in Slots[s] :
      timer[s].since < x /\ x < timer[s].wake => Answers(s, x, timer[s].wake)

(* A slot of a schedule is answered at most once (ADR 0007), by however    *)
(* many passes its row was leased to.                                      *)
SlotsAnsweredOnce ==
  \A i, j \in DOMAIN answered :
    answered[i].s = answered[j].s /\ answered[i].slot = answered[j].slot => i = j

(* A fire opens its run on the version published when it commits, which    *)
(* declares its schedule, and never for a paused workflow.                 *)
FiresPublished ==
  [][\A p \in Passes :
       pass[p].at = "firing" /\ pass'[p].at = "idle" /\ answered' # answered =>
         /\ pass[p].version = Published
         /\ pass[p].s \in TimerSchedules(paused, SchedulesOf(Published))]_vars

(* A timer that comes due moves on or is taken away: no pass that fails,   *)
(* crashes or loses its lease, and no publish that moves under it, leaves  *)
(* it due for ever.  With EachSlotAnswered, every slot comes to an answer. *)
Due(s) == timer[s].st # "none" /\ timer[s].wake <= clock
DueTimersMoveOn == \A s \in Schedules : Due(s) ~> ~Due(s)
=============================================================================
