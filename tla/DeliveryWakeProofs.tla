-------------------------- MODULE DeliveryWakeProofs --------------------------
(***************************************************************************)
(* What an arrival wakes, proved for any number of arrivals, passes and    *)
(* runs, and for any page size.                                            *)
(*                                                                         *)
(* A pass works from a copy of the memo it read and may have lost its      *)
(* lease, so nothing in the state says which Waits it still means to wake. *)
(* The invariant relates the three copies of a page - the memo, the book   *)
(* of each pass, what a pass has left to offer - to the parks:             *)
(*                                                                         *)
(*   OnStep           a pass is at the first step its book does not answer *)
(*   AllReached       a page names Waits their runs have come to already   *)
(*   OneWaitInv       the passes that wake for one arrival hold the same   *)
(*                    pages, and none names a later Wait of a run than the *)
(*                    one it woke                                          *)
(*   StartInv         a memoized outcome names the run of its arrival, and *)
(*                    no page of that arrival does                         *)
(*   CloseInv         a delivered page's candidates are closed; a page     *)
(*                    under way is closed but for what is left to offer    *)
(*   OwedInv          a Wait open when the Event came, and open still, is  *)
(*                    on a page or after all of them in a scan that goes   *)
(*                    on                                                   *)
(*                                                                         *)
(* First come the forms a step can take for a run, a park, a memo and a    *)
(* pass (RunMove, ParkMove, Saving, Opening, Waking, Ruling, Rests); each  *)
(* part of the invariant is then a case split on those forms.              *)
(***************************************************************************)
EXTENDS DeliveryProofs

-----------------------------------------------------------------------------
(* The parts of the invariant                                              *)

(* The step of the fan-out a pass is at.                                   *)
StepOf(at) == IF at \in {"subscribers", "list", "wake", "settle"} THEN at ELSE "lifecycle"

UnderWay(p) == pass[p].at \notin {"idle", "open"}

OnStep == \A p \in Passes : UnderWay(p) => NextStep(pass[p].book) = StepOf(pass[p].at)

(* A park that is not resolved has no wake, and a token was rotated by a   *)
(* Migration each time.                                                    *)
ParksSound ==
  \A r \in Runs :
    /\ park[r].st # "resuming" => park[r].wake = NoWake
    /\ park[r].token <= count.migrations
    /\ park[r].st = "resuming" /\ park[r].wake.kind = "migrate" =>
         park[r].token < count.migrations

(* A candidate names a Wait its run has come to, by a token it has had.    *)
Reached(c) ==
  /\ run[c.run].status # "absent"
  /\ \/ c.pos < park[c.run].pos
     \/ c.pos = park[c.run].pos /\ c.token <= park[c.run].token

PagesReached(b) == \A i \in DOMAIN b.pages : \A c \in b.pages[i] : Reached(c)

AllReached ==
  /\ \A d \in Deliveries : PagesReached(memo[d])
  /\ \A p \in Passes :
       /\ UnderWay(p) => PagesReached(pass[p].book)
       /\ \A c \in pass[p].todo : Reached(c)
  /\ \A d \in Deliveries : \A x \in woke[d] \cup owed[d] :
       run[x[1]].status # "absent" /\ x[2] <= park[x[1]].pos

(* What a pass offers, a page of its memo holds.                           *)
Names(e, c) == e.run = c.run /\ e.pos = c.pos

OfferedIsListed ==
  \A p \in Passes : \A c \in pass[p].todo :
    \E i \in DOMAIN pass[p].book.pages : \E e \in pass[p].book.pages[i] : Names(e, c)

(* Nothing is left to list.                                                *)
Listed(b) == b.listed /\ ~NeedsRules(b) /\ ~("wait" \in b.roles /\ b.more)

(* No Wait the arrival woke is before another candidate of its run.        *)
Topmost(d, pages) ==
  \A x \in woke[d] : \A i \in DOMAIN pages : \A c \in pages[i] :
    c.run = x[1] => c.pos <= x[2]

WakesKept ==
  count.resends = 0 => \A d \in Deliveries :
    /\ inbox[d] = "pending" /\ Listed(memo[d]) => Topmost(d, memo[d].pages)
    /\ woke[d] # {} => Arrived(d) /\ (inbox[d] = "pending" => Listed(memo[d]))

(* Passes that wake for one arrival work through the same pages.           *)
PassesAgree ==
  count.resends = 0 => \A p \in Passes : pass[p].at = "wake" =>
    /\ Topmost(pass[p].d, pass[p].book.pages)
    /\ inbox[pass[p].d] = "pending" =>
         Listed(memo[pass[p].d]) /\ memo[pass[p].d].pages = pass[p].book.pages
    /\ \A q \in Passes : pass[q].at = "wake" /\ pass[q].d = pass[p].d =>
         pass[q].book.pages = pass[p].book.pages

OneWaitInv == WakesKept /\ PassesAgree /\ WakesOneWaitOfARun

(* What a memoized outcome says of an arrival that every version starts.   *)
Answered(d, life) ==
  \/ life.kind = "started" /\ \E r \in life.runs : run[r].by = d
  \/ life.kind = "refused" /\ refusal[d]

ViewsHold ==
  \A p \in Passes : pass[p].at = "admitting" =>
    /\ \A r \in pass[p].view.own : run[r].by = pass[p].d
    /\ pass[p].view.refused /\ Kept(pass[p].d) => refusal[pass[p].d]

BookAnswers(d, b) ==
  /\ b.listed => "start" \in b.roles
  /\ b.life # NoLife => Answered(d, b.life)
  /\ \A i \in DOMAIN b.pages : \A c \in b.pages[i] : run[c.run].by # d

StartsAnswer ==
  \A d \in Deliveries : AlwaysStarts(d) =>
    /\ Kept(d) => BookAnswers(d, memo[d])
    /\ \A p \in Passes : pass[p].d = d /\ UnderWay(p) =>
         /\ pass[p].at \notin {"decline", "cancel"}
         /\ Kept(d) => BookAnswers(d, pass[p].book)
         /\ Kept(d) /\ pass[p].at = "outcome" => Answered(d, pass[p].life)
         /\ \A c \in pass[p].todo : run[c.run].by # d

StartInv == ViewsHold /\ StartsAnswer /\ NotWokenByItsStart

(* A candidate is closed once its Wait is passed or resolved for good.     *)
Closed(c) == ~(SameWait(c) /\ Claimable(park[c.run]))

(* A candidate to be read again was not refused under its newest token.    *)
RereadsStale ==
  \A p \in Passes : \A c \in pass[p].todo :
    c.step = "reread" /\ c.token = park[c.run].token => Closed(c)

WokenClosed(b) ==
  /\ b.woken <= Len(b.pages)
  /\ count.migrations <= 1 =>
       \A i \in 1 .. b.woken : \A c \in b.pages[i] : Closed(c)

PagesClosed ==
  /\ \A d \in Deliveries : WokenClosed(memo[d])
  /\ \A p \in Passes :
       /\ UnderWay(p) => WokenClosed(pass[p].book)
       /\ pass[p].at = "wake" /\ count.migrations <= 1 =>
            \A e \in pass[p].book.pages[pass[p].book.woken + 1] :
              Closed(e) \/ \E c \in pass[p].todo : Names(e, c)

CloseInv == RereadsStale /\ PagesClosed

(* The runs an outcome settled await nothing an earlier arrival found.     *)
LifeSettled(d, life) ==
  \A r \in life.runs :
    run[r].by = d \/ run[r].status \in {"over", "swept"} \/ run[r].claim # NoDelivery

LivesSettled ==
  /\ \A d \in Deliveries : LifeSettled(d, memo[d].life)
  /\ \A p \in Passes :
       /\ UnderWay(p) => LifeSettled(pass[p].d, pass[p].book.life)
       /\ pass[p].at = "outcome" => LifeSettled(pass[p].d, pass[p].life)

(* A Wait the arrival found open and may still wake.                       *)
OpenFor(x) ==
  /\ run[x[1]].status = "live" /\ run[x[1]].claim = NoDelivery
  /\ park[x[1]].pos = x[2] /\ Claimable(park[x[1]])

OwedSound ==
  \A d \in Deliveries : \A x \in owed[d] :
    Arrived(d) /\ d \in Here.wakes /\ run[x[1]].by # d

(* An open Wait is on a page already, or after all of them.                *)
Covered(d, b) ==
  \A x \in owed[d] : OpenFor(x) =>
    /\ b.listed => "wait" \in b.roles
    /\ \/ \E i \in DOMAIN b.pages : \E e \in b.pages[i] : e.run = x[1] /\ e.pos = x[2]
       \/ /\ b.more
          /\ \A i \in DOMAIN b.pages : \A e \in b.pages[i] :
               Before(e, [run |-> x[1], pos |-> x[2]])

BooksCover ==
  count.migrations = 0 =>
    /\ \A d \in Deliveries : Covered(d, memo[d])
    /\ \A p \in Passes : UnderWay(p) => Covered(pass[p].d, pass[p].book)

OwedInv == LivesSettled /\ OwedSound /\ BooksCover /\ DeliveredReachesWaits

-----------------------------------------------------------------------------
(* What a step can do to one run and its park                              *)

RunMove(r) ==
  \/ run'[r] = run[r]
  \/ /\ run[r].status = "absent" /\ run'[r].status = "live"
     /\ run'[r].claim = NoDelivery
     /\ \E p \in Passes :
          pass[p].at = "admitting" /\ CommitStart(p) /\ run'[r].by = pass[p].d
  \/ /\ run'[r].by = run[r].by /\ run'[r].claim = run[r].claim
     /\ <<run[r].status, run'[r].status>> \in {<<"live", "over">>, <<"over", "swept">>}
  \/ /\ run'[r].by = run[r].by /\ run'[r].status = run[r].status
     /\ r \in InFlight /\ run'[r].claim # NoDelivery

Rotated(k) == [k EXCEPT !.st = "waiting", !.token = k.token + 1, !.wake = NoWake]

ParkMove(r) ==
  \/ park'[r] = park[r]
  \/ park[r].st = "none" /\ park'[r] = NextPark(park[r])
  \/ park'[r] = Gone(park[r])
  \/ /\ park[r].st # "none" /\ park[r].wake.kind = "migrate"
     /\ park'[r] = Rotated(park[r])
  \/ /\ Claimable(park[r])
     /\ \E kind \in {"resume", "cancel"}, d \in OrNone :
          park'[r] = Resolved(park[r], kind, d)
  \/ /\ park[r].st = "waiting" /\ count'.migrations = count.migrations + 1
     /\ park'[r] = Resolved(park[r], "migrate", NoDelivery)

LEMMA StartMovesRuns ==
  ASSUME TypeInv, NEW p \in Passes, CommitStart(p), NEW r \in Runs
  PROVE  RunMove(r) /\ ParkMove(r)
<1>1. CASE UNCHANGED runs
  BY <1>1 DEF runs, RunMove, ParkMove
<1>2. CASE ~UNCHANGED runs
  <2> DEFINE displaced == pass[p].view.inFlight \cap InFlight
  <2>1. OpenRun(p, displaced) /\ pass[p].at = "admitting"
    BY <1>2 DEF CommitStart
  <2>2. displaced \subseteq InFlight
    OBVIOUS
  <2> HIDE DEF displaced
  <2>3. PICK n \in Runs \ Standing :
        /\ run[n].status = "absent"
        /\ run' = [s \in Runs |->
             IF s = n THEN [status |-> "live", by |-> pass[p].d, claim |-> NoDelivery]
             ELSE IF s \in displaced THEN [run[s] EXCEPT !.status = "over"]
             ELSE run[s]]
        /\ park' = [s \in Runs |-> IF s \in displaced THEN Gone(park[s]) ELSE park[s]]
    BY <2>1 DEF OpenRun
  <2>4. run[r] \in RunRows
    BY DEF TypeInv, RunTypes
  <2>5. ParkMove(r)
    BY <2>3 DEF ParkMove
  <2>6. CASE r = n
    BY <2>1, <2>3, <2>5, <2>6 DEF RunMove
  <2>7. CASE r # n /\ r \in displaced
    <3>1. run'[r] = [run[r] EXCEPT !.status = "over"] /\ run[r].status = "live"
      BY <2>2, <2>3, <2>7 DEF InFlight
    <3> QED
      BY <2>4, <2>5, <3>1 DEF RunMove, RunRows
  <2>8. CASE r # n /\ r \notin displaced
    BY <2>3, <2>5, <2>8 DEF RunMove
  <2> QED
    BY <2>6, <2>7, <2>8
<1> QED
  BY <1>1, <1>2

LEMMA CancelMovesRuns ==
  ASSUME TypeInv, NEW p \in Passes, RequestCancel(p), NEW r \in Runs
  PROVE  RunMove(r) /\ ParkMove(r)
<1>1. CASE UNCHANGED runs
  BY <1>1 DEF runs, RunMove, ParkMove
<1>2. CASE ~UNCHANGED runs
  <2>1. /\ run' = [s \in Runs |-> IF s \in InFlight
                                  THEN [run[s] EXCEPT !.claim = pass[p].d] ELSE run[s]]
        /\ park' = [s \in Runs |-> IF s \in InFlight /\ park[s].st = "waiting"
                                   THEN Resolved(park[s], "cancel", pass[p].d)
                                   ELSE park[s]]
    BY <1>2 DEF RequestCancel
  <2>2. pass[p].d \in Deliveries /\ pass[p].d # NoDelivery /\ run[r] \in RunRows
    BY NoDeliveryIsNone DEF RequestCancel, TypeInv, FlowInv, PassesNamed, RunTypes
  <2>3. RunMove(r)
    BY <2>1, <2>2 DEF RunMove, RunRows
  <2>4. ParkMove(r)
    <3>1. CASE r \in InFlight /\ park[r].st = "waiting"
      <4>1. park'[r] = Resolved(park[r], "cancel", pass[p].d)
        BY <2>1, <3>1
      <4>2. Claimable(park[r]) /\ pass[p].d \in OrNone
        BY <2>2, <3>1 DEF Claimable, OrNone
      <4> QED
        BY <4>1, <4>2 DEF ParkMove
    <3>2. CASE ~(r \in InFlight /\ park[r].st = "waiting")
      BY <2>1, <3>2 DEF ParkMove
    <3> QED
      BY <3>1, <3>2
  <2> QED
    BY <2>3, <2>4
<1> QED
  BY <1>1, <1>2

LEMMA WakeMovesParks ==
  ASSUME TypeInv, NEW p \in Passes, NEW c \in pass[p].todo, WakeWait(p, c), NEW r \in Runs
  PROVE  RunMove(r) /\ ParkMove(r)
<1>1. run' = run
  BY DEF WakeWait
<1>2. CASE park' = park
  BY <1>1, <1>2 DEF RunMove, ParkMove
<1>3. CASE park' # park
  <2>1. /\ park' = [park EXCEPT ![c.run] = Resolved(park[c.run], "resume", pass[p].d)]
        /\ Claimable(park[c.run]) /\ pass[p].at = "wake"
    BY <1>3 DEF WakeWait
  <2>2. pass[p].d \in OrNone
    BY <2>1 DEF OrNone, TypeInv, FlowInv, PassesNamed
  <2>3. ParkMove(r)
    BY <2>1, <2>2 DEF ParkMove, TypeInv, RunTypes
  <2> QED
    BY <1>1, <2>3 DEF RunMove
<1> QED
  BY <1>2, <1>3

LEMMA RunsMoveThemselves ==
  ASSUME TypeInv, NEW q \in Runs, RunStep(q), NEW r \in Runs
  PROVE  RunMove(r) /\ ParkMove(r)
<1>0. run \in [Runs -> RunRows] /\ park \in [Runs -> ParkRows] /\ count \in Counts
  BY DEF TypeInv, RunTypes
<1>1. CASE RunParks(q)
  <2>1. park' = [park EXCEPT ![q] = NextPark(park[q])] /\ park[q].st = "none" /\ run' = run
    BY <1>1 DEF RunParks
  <2> QED
    BY <1>0, <2>1 DEF RunMove, ParkMove
<1>2. CASE RunWakes(q)
  <2>1. /\ run' = run /\ park[q].st \in {"waiting", "resuming"}
        /\ park' = [park EXCEPT ![q] = IF park[q].wake.kind = "migrate"
                                       THEN Rotated(park[q]) ELSE Gone(park[q])]
    BY <1>2 DEF RunWakes, Rotated
  <2> QED
    BY <1>0, <2>1 DEF RunMove, ParkMove
<1>3. CASE RunEnds(q)
  <2>1. /\ park' = park /\ run[q].status = "live"
        /\ run' = [run EXCEPT ![q] = [run[q] EXCEPT !.status = "over"]]
    BY <1>3 DEF RunEnds
  <2>2. run'[r] = IF r = q THEN [run[q] EXCEPT !.status = "over"] ELSE run[r]
    BY <1>0, <2>1
  <2> QED
    BY <1>0, <2>1, <2>2 DEF RunMove, ParkMove, RunRows
<1>4. CASE Migrate(q)
  <2>1. /\ run' = run /\ park[q].st = "waiting"
        /\ park' = [park EXCEPT ![q] = Resolved(park[q], "migrate", NoDelivery)]
        /\ count' = [count EXCEPT !.migrations = count.migrations + 1]
    BY <1>4 DEF Migrate
  <2>2. count'.migrations = count.migrations + 1
    BY <1>0, <2>1 DEF Counts
  <2> QED
    BY <1>0, <2>1, <2>2 DEF RunMove, ParkMove
<1>5. CASE SweepRun(q)
  <2>1. /\ park' = park /\ run[q].status = "over"
        /\ run' = [run EXCEPT ![q] = [run[q] EXCEPT !.status = "swept"]]
    BY <1>5 DEF SweepRun, Sweepable
  <2>2. run'[r] = IF r = q THEN [run[q] EXCEPT !.status = "swept"] ELSE run[r]
    BY <1>0, <2>1
  <2> QED
    BY <1>0, <2>1, <2>2 DEF RunMove, ParkMove, RunRows
<1> QED
  BY <1>1, <1>2, <1>3, <1>4, <1>5 DEF RunStep

LEMMA RunsMoveOn ==
  ASSUME TypeInv, [Next]_vars, NEW r \in Runs
  PROVE  RunMove(r) /\ ParkMove(r)
<1> USE DEF runs
<1>0. ASSUME UNCHANGED runs PROVE RunMove(r) /\ ParkMove(r)
  BY <1>0 DEF RunMove, ParkMove
<1>1. ASSUME NEW d \in Deliveries,
             \/ Receive(d) \/ PollInbox(d) \/ Resend(d) \/ LeaseExpires(d)
             \/ SweepInbox(d) \/ SweepRefusal(d) \/ \E p \in Passes : Claim(p, d)
      PROVE  UNCHANGED runs
  BY <1>1, Zenon DEF Receive, PollInbox, Resend, LeaseExpires, SweepInbox, SweepRefusal, Claim
<1>2. ASSUME NEW p \in Passes, PassStep(p) \/ StepThrows(p) \/ Crash(p),
             ~(CommitStart(p) \/ RequestCancel(p) \/ \E c \in pass[p].todo : WakeWait(p, c))
      PROVE  UNCHANGED runs
  BY <1>2, Zenon DEF PassStep, Open, ListSubscribers, ReadLifecycle, RecordRefusal,
       BeginStart, DeclineStart, SaveOutcome, ListPage,
       SavePage, FinishDelivery, RereadWait, StepThrows, Crash
<1>3. ASSUME Publish \/ UNCHANGED vars PROVE UNCHANGED runs
  BY <1>3 DEF Publish, vars
<1> HIDE DEF runs
<1> QED
  BY <1>0, <1>1, <1>2, <1>3, StartMovesRuns, CancelMovesRuns, WakeMovesParks,
     RunsMoveThemselves DEF Next

LEMMA MigrationsCount ==
  ASSUME TypeInv, [Next]_vars
  PROVE  /\ count.migrations <= count'.migrations
         /\ count'.resends = count.resends
            \/ (count'.resends = count.resends + 1 /\ \E d \in Deliveries : Resend(d))
<1>0. count \in Counts
  BY DEF TypeInv, RunTypes
<1>a. CASE UNCHANGED count
  BY <1>0, <1>a DEF Counts
<1>1. CASE \E d \in Deliveries : Resend(d)
  <2>1. count' = [count EXCEPT !.resends = count.resends + 1]
    BY <1>1 DEF Resend
  <2> QED
    BY <1>0, <1>1, <2>1 DEF Counts
<1>2. CASE \E d \in Deliveries : LeaseExpires(d)
  <2>1. count' = count \/ count' = [count EXCEPT !.expiries = count.expiries + 1]
    BY <1>2 DEF LeaseExpires
  <2> QED
    BY <1>0, <2>1 DEF Counts
<1>3. CASE \E p \in Passes : Crash(p)
  <2>1. count' = [count EXCEPT !.crashes = count.crashes + 1]
    BY <1>3 DEF Crash
  <2> QED
    BY <1>0, <2>1 DEF Counts
<1>4. CASE \E r \in Runs : Migrate(r)
  <2>1. count' = [count EXCEPT !.migrations = count.migrations + 1]
    BY <1>4 DEF Migrate
  <2> QED
    BY <1>0, <2>1 DEF Counts
<1>5. ASSUME NEW d \in Deliveries,
             Receive(d) \/ PollInbox(d) \/ SweepInbox(d) \/ SweepRefusal(d)
               \/ \E p \in Passes : Claim(p, d)
      PROVE  UNCHANGED count
  BY <1>5, Zenon DEF Receive, PollInbox, SweepInbox, SweepRefusal, Claim
<1>6. ASSUME NEW p \in Passes, PassStep(p) \/ StepThrows(p) PROVE UNCHANGED count
  BY <1>6, Zenon DEF PassStep, Open, ListSubscribers, ReadLifecycle, RecordRefusal,
       BeginStart, CommitStart, DeclineStart, RequestCancel, SaveOutcome, ListPage,
       SavePage, FinishDelivery, WakeWait, RereadWait, StepThrows
<1>7. ASSUME NEW r \in Runs, RunStep(r), ~Migrate(r) PROVE UNCHANGED count
  BY <1>7, Zenon DEF RunStep, RunParks, RunWakes, RunEnds, SweepRun
<1>8. ASSUME Publish \/ UNCHANGED vars PROVE UNCHANGED count
  BY <1>8 DEF Publish, vars
<1> QED
  BY <1>a, <1>1, <1>2, <1>3, <1>4, <1>5, <1>6, <1>7, <1>8 DEF Next

(* What a park looks like after its own move.                              *)
LEMMA ParkFields ==
  ASSUME NEW k \in ParkRows
  PROVE  /\ Gone(k).pos = k.pos /\ Gone(k).st = "none" /\ Gone(k).token = k.token
         /\ Gone(k).wake = NoWake
         /\ NextPark(k).pos = k.pos + 1 /\ NextPark(k).st = "waiting"
         /\ NextPark(k).token = 0 /\ NextPark(k).wake = NoWake
         /\ Rotated(k).pos = k.pos /\ Rotated(k).st = "waiting"
         /\ Rotated(k).token = k.token + 1 /\ Rotated(k).wake = NoWake
         /\ NoWake.kind = "none"
BY DEF ParkRows, Gone, NextPark, Rotated, NoWake

LEMMA ResolvedFields ==
  ASSUME NEW k \in ParkRows, NEW kind, NEW d
  PROVE  /\ Resolved(k, kind, d).pos = k.pos /\ Resolved(k, kind, d).st = "resuming"
         /\ Resolved(k, kind, d).token = k.token
         /\ Resolved(k, kind, d).wake.kind = kind /\ Resolved(k, kind, d).wake.by = d
BY DEF ParkRows, Resolved

LEMMA ParksStaySound ==
  ASSUME TypeInv, ParksSound, [Next]_vars
  PROVE  ParksSound'
<1> SUFFICES ASSUME NEW r \in Runs
             PROVE  /\ park'[r].st # "resuming" => park'[r].wake = NoWake
                    /\ park'[r].token <= count'.migrations
                    /\ park'[r].st = "resuming" /\ park'[r].wake.kind = "migrate" =>
                         park'[r].token < count'.migrations
  BY DEF ParksSound
<1>1. /\ park[r] \in ParkRows /\ count \in Counts /\ count' \in Counts
      /\ count.migrations <= count'.migrations
  BY Continues, MigrationsCount DEF TypeInv, RunTypes
<1>2. /\ park[r].st # "resuming" => park[r].wake = NoWake
      /\ park[r].token <= count.migrations
      /\ park[r].st = "resuming" /\ park[r].wake.kind = "migrate" =>
           park[r].token < count.migrations
  BY DEF ParksSound
<1>3. ParkMove(r)
  BY RunsMoveOn
<1>4. park[r].token \in Nat /\ count.migrations \in Nat /\ count'.migrations \in Nat
      /\ park[r].st \in {"none", "waiting", "resuming"}
  BY <1>1 DEF ParkRows, Counts
<1>5. CASE park'[r] = park[r]
  BY <1>1, <1>2, <1>4, <1>5
<1>6. CASE park'[r] = NextPark(park[r]) \/ park'[r] = Gone(park[r])
  BY <1>1, <1>2, <1>4, <1>6, ParkFields
<1>7. CASE park[r].st # "none" /\ park[r].wake.kind = "migrate" /\ park'[r] = Rotated(park[r])
  BY <1>1, <1>2, <1>4, <1>7, ParkFields
<1>8. ASSUME NEW kind \in {"resume", "cancel"}, NEW d \in OrNone,
             park'[r] = Resolved(park[r], kind, d)
      PROVE  /\ park'[r].st = "resuming" /\ park'[r].token <= count'.migrations
             /\ park'[r].wake.kind # "migrate"
  BY <1>1, <1>2, <1>4, <1>8, ResolvedFields
<1>9. CASE /\ park[r].st = "waiting" /\ count'.migrations = count.migrations + 1
           /\ park'[r] = Resolved(park[r], "migrate", NoDelivery)
  BY <1>1, <1>2, <1>4, <1>9, ResolvedFields
<1> QED
  BY <1>3, <1>5, <1>6, <1>7, <1>8, <1>9 DEF ParkMove

(* A run and its Wait only move on.                                        *)
LEMMA RunsGoOn ==
  ASSUME TypeInv, RunsOfArrivals, ParksSound, [Next]_vars, NEW r \in Runs
  PROVE  /\ run[r].status # "absent" =>
              /\ run'[r].status # "absent" /\ run'[r].by = run[r].by
              /\ run'[r].status = "live" => run[r].status = "live"
         /\ run[r].claim # NoDelivery => run'[r].claim # NoDelivery
         /\ run[r].status \in {"over", "swept"} => run'[r].status \in {"over", "swept"}
         /\ park[r].pos <= park'[r].pos
         /\ park'[r].pos = park[r].pos =>
              /\ park[r].token <= park'[r].token
              /\ Claimable(park'[r]) => Claimable(park[r])
<1>1. /\ park[r] \in ParkRows /\ run[r] \in RunRows
      /\ (run[r].status = "absent" => run[r].claim = NoDelivery)
      /\ (park[r].st # "resuming" => park[r].wake = NoWake)
  BY DEF TypeInv, RunTypes, RunsOfArrivals, ParksSound
<1>2. RunMove(r) /\ ParkMove(r)
  BY RunsMoveOn
<1>3. park[r].token \in Nat /\ park[r].pos \in Nat
      /\ park[r].st \in {"none", "waiting", "resuming"}
  BY <1>1 DEF ParkRows
<1>4. /\ run[r].status # "absent" =>
              /\ run'[r].status # "absent" /\ run'[r].by = run[r].by
              /\ run'[r].status = "live" => run[r].status = "live"
      /\ run[r].claim # NoDelivery => run'[r].claim # NoDelivery
      /\ run[r].status \in {"over", "swept"} => run'[r].status \in {"over", "swept"}
  BY <1>1, <1>2 DEF RunMove, InFlight
<1>5. /\ park[r].pos <= park'[r].pos
      /\ park'[r].pos = park[r].pos =>
              /\ park[r].token <= park'[r].token
              /\ Claimable(park'[r]) => Claimable(park[r])
  <2>1. CASE park'[r] = park[r]
    BY <1>3, <2>1
  <2>2. CASE park'[r] = NextPark(park[r])
    BY <1>1, <1>3, <2>2, ParkFields
  <2>3. CASE park'[r] = Gone(park[r])
    BY <1>1, <1>3, <2>3, ParkFields DEF Claimable
  <2>4. CASE /\ park[r].st # "none" /\ park[r].wake.kind = "migrate"
             /\ park'[r] = Rotated(park[r])
    BY <1>1, <1>3, <2>4, ParkFields DEF Claimable
  <2>5. CASE Claimable(park[r]) /\ \E kind, d : park'[r] = Resolved(park[r], kind, d)
    BY <1>1, <1>3, <2>5, ResolvedFields
  <2> QED
    BY <1>2, <2>1, <2>2, <2>3, <2>4, <2>5 DEF ParkMove, Claimable
<1> QED
  BY <1>4, <1>5

LEMMA ReachedStays ==
  ASSUME TypeInv, RunsOfArrivals, ParksSound, [Next]_vars, NEW c, c.run \in Runs,
         c.pos \in Nat, c.token \in Nat, Reached(c)
  PROVE  Reached(c)' /\ (Closed(c) => Closed(c)')
<1>1. /\ park[c.run] \in ParkRows /\ park'[c.run] \in ParkRows
  BY Continues DEF TypeInv, RunTypes
<1>2. /\ park[c.run].pos \in Nat /\ park[c.run].token \in Nat
      /\ park'[c.run].pos \in Nat /\ park'[c.run].token \in Nat
  BY <1>1 DEF ParkRows
<1>3. /\ run[c.run].status # "absent"
      /\ run'[c.run].status # "absent"
      /\ run'[c.run].status = "live" => run[c.run].status = "live"
      /\ park[c.run].pos <= park'[c.run].pos
      /\ park'[c.run].pos = park[c.run].pos =>
              /\ park[c.run].token <= park'[c.run].token
              /\ Claimable(park'[c.run]) => Claimable(park[c.run])
  BY RunsGoOn DEF Reached
<1> QED
  BY <1>2, <1>3 DEF Reached, Closed, SameWait

-----------------------------------------------------------------------------
(* What a step can do to the fan-out                                       *)

(* How the memo of a pass grows by the step it saves.                      *)
Grows(p, b) ==
  LET old == pass[p].book IN
  /\ b \in Books
  /\ \/ /\ pass[p].at = "subscribers" /\ b.listed /\ b.roles = RolesOf(pass[p].d)
        /\ b.life = old.life /\ b.pages = old.pages /\ b.more = old.more
        /\ b.woken = old.woken
     \/ /\ pass[p].at = "outcome" /\ b.life = pass[p].life
        /\ b.listed = old.listed /\ b.roles = old.roles /\ b.pages = old.pages
        /\ b.more = old.more /\ b.woken = old.woken
     \/ /\ pass[p].at = "list" /\ b.pages = Append(old.pages, PageOf(Candidates(old)))
        /\ b.more = HasMore(PageOf(Candidates(old)))
        /\ b.listed = old.listed /\ b.roles = old.roles /\ b.life = old.life
        /\ b.woken = old.woken
     \/ /\ pass[p].at = "wake" /\ pass[p].todo = {} /\ b.woken = old.woken + 1
        /\ b.listed = old.listed /\ b.roles = old.roles /\ b.life = old.life
        /\ b.pages = old.pages /\ b.more = old.more

GoesOnWith(p, b) ==
  /\ pass' = [pass EXCEPT ![p] = Continue(p, b)]
  /\ UNCHANGED <<inbox, sched, runs, decisions, workflow, count, history>>

Saving(p, b) ==
  /\ UnderWay(p) /\ Holds(p) /\ Grows(p, b) /\ GoesOnWith(p, b)
  /\ memo' = [memo EXCEPT ![pass[p].d] = b]

Opening(p) ==
  /\ pass[p].at = "open" /\ inbox[pass[p].d] = "pending"
  /\ GoesOnWith(p, memo[pass[p].d]) /\ UNCHANGED memo

Waking(p) == \E c \in pass[p].todo : WakeWait(p, c) \/ RereadWait(p, c)

(* The Lifecycle Rules go on within their step.                            *)
Ruling(p) ==
  /\ \/ ReadLifecycle(p) \/ RecordRefusal(p) \/ BeginStart(p) \/ CommitStart(p)
     \/ DeclineStart(p) \/ RequestCancel(p)
  /\ \A q \in Passes : q # p => pass'[q] = pass[q]
  /\ pass'[p].d = pass[p].d /\ pass'[p].book = pass[p].book
  /\ pass'[p].todo = pass[p].todo
  /\ UnderWay(p) /\ StepOf(pass[p].at) = "lifecycle"
  /\ pass'[p].at \notin {"idle", "open"} /\ StepOf(pass'[p].at) = "lifecycle"
  /\ UNCHANGED <<rows, workflow, count, woke, owed>>

Rests(q) == pass'[q] = Idle \/ (pass'[q].at = "open" /\ pass'[q].todo = {})

(* Any other step leaves the memo of a pending arrival, and every pass     *)
(* that it does not bring to rest.                                         *)
Aside ==
  /\ \A q \in Passes : pass'[q] = pass[q] \/ Rests(q)
  /\ \A d \in Deliveries :
       /\ SameBook(memo'[d], memo[d]) \/ memo'[d] = NoMemo
       /\ inbox'[d] = "pending" => SameBook(memo'[d], memo[d])
  /\ woke' = woke

LEMMA UnfailedFields ==
  ASSUME NEW b \in Books
  PROVE  LET e == [b EXCEPT !.fails = 0] IN
         /\ e \in Books
         /\ e.listed = b.listed /\ e.roles = b.roles /\ e.life = b.life
         /\ e.pages = b.pages /\ e.more = b.more /\ e.woken = b.woken
BY DEF Books

LEMMA SavingKinds ==
  ASSUME TypeInv, NEW p \in Passes,
         ListSubscribers(p) \/ SaveOutcome(p) \/ ListPage(p) \/ SavePage(p)
  PROVE  Aside \/ \E b \in Books : Saving(p, b)
<1> DEFINE old == pass[p].book
<1>1. /\ pass \in [Passes -> PassStates] /\ UnderWay(p) /\ old \in Books
      /\ pass[p].life \in Lives /\ pass[p].d \in Deliveries
  BY DEF ListSubscribers, SaveOutcome, ListPage, SavePage, TypeInv, FlowInv,
     FlowTypes, PassStates, PassesNamed, UnderWay
<1>2. UNCHANGED <<inbox, sched, runs, decisions, workflow, count, history>>
  BY DEF ListSubscribers, SaveOutcome, ListPage, SavePage
<1> HIDE DEF old
<1>3. \E e \in Books : WriteMemo(p, e) /\ Grows(p, e)
  <2> USE DEF old
  <2>1. CASE ListSubscribers(p)
    <3> DEFINE e == [old EXCEPT !.listed = TRUE, !.roles = RolesOf(pass[p].d)]
    <3>1. e \in Books
      BY <1>1, BooksGrow DEF Types, TypeInv, FlowInv
    <3>2. Grows(p, e)
      BY <1>1, <2>1, <3>1 DEF Grows, ListSubscribers, Books
    <3> QED
      BY <2>1, <3>1, <3>2 DEF ListSubscribers
  <2>2. CASE SaveOutcome(p)
    <3> DEFINE e == [old EXCEPT !.life = pass[p].life]
    <3>1. e \in Books
      BY <1>1, BooksGrow DEF Types, TypeInv, FlowInv
    <3>2. Grows(p, e)
      BY <1>1, <2>2, <3>1 DEF Grows, SaveOutcome, Books
    <3> QED
      BY <2>2, <3>1, <3>2 DEF SaveOutcome
  <2>3. CASE ListPage(p)
    <3> DEFINE page == PageOf(Candidates(old))
               e == [old EXCEPT !.pages = Append(old.pages, page), !.more = HasMore(page)]
    <3>1. e \in Books
      BY <1>1, BooksGrow DEF Types, TypeInv, FlowInv
    <3>2. WriteMemo(p, e) /\ pass[p].at = "list"
      BY <2>3, Zenon DEF ListPage
    <3> HIDE DEF page
    <3>3. /\ e.pages = Append(old.pages, page) /\ e.more = HasMore(page)
          /\ e.listed = old.listed /\ e.roles = old.roles /\ e.life = old.life
          /\ e.woken = old.woken
      BY <1>1 DEF Books
    <3>4. Grows(p, e)
      BY <3>1, <3>2, <3>3 DEF Grows, page
    <3> QED
      BY <3>1, <3>2, <3>4
  <2>4. CASE SavePage(p)
    <3> DEFINE e == [old EXCEPT !.woken = old.woken + 1]
    <3>1. e \in Books
      BY <1>1, BooksGrow DEF Types, TypeInv, FlowInv
    <3>2. Grows(p, e)
      BY <1>1, <2>4, <3>1 DEF Grows, SavePage, Books
    <3> QED
      BY <2>4, <3>1, <3>2 DEF SavePage
  <2> QED
    BY <2>1, <2>2, <2>3, <2>4
<1>4. PICK e \in Books : WriteMemo(p, e) /\ Grows(p, e)
  BY <1>3
<1>5. CASE ~Holds(p)
  <2>1. pass' = [pass EXCEPT ![p] = Idle] /\ memo' = memo
    BY <1>4, <1>5 DEF WriteMemo
  <2>2. Aside
    BY <1>1, <1>2, <2>1 DEF Aside, Rests, SameBook, history
  <2> QED
    BY <2>2
<1>6. CASE Holds(p)
  <2> DEFINE b == [e EXCEPT !.fails = 0]
  <2>1. /\ memo' = [memo EXCEPT ![pass[p].d] = b]
        /\ pass' = [pass EXCEPT ![p] = Continue(p, b)]
    BY <1>4, <1>6 DEF WriteMemo
  <2>2. /\ b \in Books
        /\ b.listed = e.listed /\ b.roles = e.roles /\ b.life = e.life
        /\ b.pages = e.pages /\ b.more = e.more /\ b.woken = e.woken
    BY UnfailedFields
  <2> HIDE DEF b
  <2>3. Grows(p, b)
    BY <1>4, <2>2 DEF Grows
  <2>4. Saving(p, b)
    BY <1>1, <1>2, <1>6, <2>1, <2>3 DEF Saving, GoesOnWith
  <2> QED
    BY <2>2, <2>4
<1> QED
  BY <1>5, <1>6

LEMMA RulingKinds ==
  ASSUME TypeInv, NEW p \in Passes,
         \/ ReadLifecycle(p) \/ RecordRefusal(p) \/ BeginStart(p) \/ CommitStart(p)
         \/ DeclineStart(p) \/ RequestCancel(p)
  PROVE  Aside \/ Ruling(p)
<1>1. /\ pass \in [Passes -> PassStates]
      /\ UnderWay(p) /\ StepOf(pass[p].at) = "lifecycle"
      /\ UNCHANGED <<rows, workflow, count, woke, owed>>
  BY DEF ReadLifecycle, RecordRefusal, BeginStart, CommitStart, DeclineStart, RequestCancel,
     TypeInv, FlowInv, FlowTypes, UnderWay, StepOf, history
<1> DEFINE Moves(X) == pass' = [pass EXCEPT ![p] = X]
<1>2. ASSUME NEW X \in PassStates, Moves(X), X.d = pass[p].d, X.book = pass[p].book,
             X.todo = pass[p].todo, X.at \notin {"idle", "open"}, StepOf(X.at) = "lifecycle"
      PROVE  Ruling(p)
  <2>1. pass'[p] = X /\ \A q \in Passes : q # p => pass'[q] = pass[q]
    BY <1>1, <1>2
  <2> QED
    BY <1>1, <1>2, <2>1 DEF Ruling
<1>3. \A at : at \in {"outcome", "cancel", "decline", "admit", "refuse", "admitting"} =>
         at \notin {"idle", "open"} /\ StepOf(at) = "lifecycle" /\ at \in Points
  BY DEF StepOf, Points, StepPoints
<1>4. pass[p] \in PassStates
  BY <1>1
<1>5. ASSUME NEW k \in {"none", "unrunnable", "declined", "refused", "started", "canceled"},
             NEW R \in SUBSET Runs, Comes(p, Outcome(k, R))
      PROVE  Ruling(p)
  <2> DEFINE o == Outcome(k, R)
             X == [pass[p] EXCEPT !.at = "outcome", !.life = o, !.view = NoView]
  <2>1. o \in Lives /\ NoView \in Views
    BY OutcomesTyped, NothingIsTyped
  <2>2. Comes(p, o)
    BY <1>5
  <2> HIDE DEF o
  <2>3. /\ X \in PassStates /\ X.d = pass[p].d /\ X.book = pass[p].book
        /\ X.todo = pass[p].todo /\ X.at = "outcome"
    BY <1>3, <1>4, <2>1 DEF PassStates
  <2>4. Moves(X)
    BY <1>4, <2>2 DEF Comes, PassStates
  <2> HIDE DEF X, Moves
  <2> QED
    BY <1>2, <1>3, <2>3, <2>4
<1>6. ASSUME NEW at \in {"cancel", "decline", "admit", "refuse", "admitting"},
             NEW c \in Policies, NEW v \in Views,
             pass' = [pass EXCEPT ![p] = [pass[p] EXCEPT !.at = at, !.concurrency = c, !.view = v]]
      PROVE  Ruling(p)
  <2> DEFINE X == [pass[p] EXCEPT !.at = at, !.concurrency = c, !.view = v]
  <2>1. /\ X \in PassStates /\ X.d = pass[p].d /\ X.book = pass[p].book
        /\ X.todo = pass[p].todo /\ X.at = at
    BY <1>3, <1>4 DEF PassStates
  <2>2. Moves(X)
    BY <1>6
  <2> HIDE DEF X, Moves
  <2> QED
    BY <1>2, <1>3, <2>1, <2>2
<1> HIDE DEF Moves
<1>7. pass[p].concurrency \in Policies /\ pass[p].view \in Views
  BY <1>4 DEF PassStates
<1>8. CASE ReadLifecycle(p)
  <2>1. Publications[version].concurrency \in Policies
    BY Surroundings DEF Types, TypeInv, FlowInv, RunTypes
  <2>2. \/ \E k \in {"none", "unrunnable", "refused", "started"}, R \in SUBSET Runs :
             Comes(p, Outcome(k, R))
        \/ \E at \in {"cancel", "decline", "admit", "refuse"} :
             pass' = [pass EXCEPT ![p].at = at,
                        ![p].concurrency = Publications[version].concurrency]
    <3>1. \/ Comes(p, Outcome("refused", {})) \/ Comes(p, Outcome("started", OpenedBy(pass[p].d)))
          \/ \E k \in {"none", "unrunnable"} : Comes(p, Outcome(k, {}))
          \/ \E at \in {"cancel", "decline", "admit", "refuse"} :
               pass' = [pass EXCEPT ![p].at = at,
                          ![p].concurrency = Publications[version].concurrency]
      BY <1>8 DEF ReadLifecycle
    <3> QED
      BY <3>1, OutcomesTyped
  <2>3. ASSUME NEW at \in {"cancel", "decline", "admit", "refuse"},
               pass' = [pass EXCEPT ![p].at = at,
                          ![p].concurrency = Publications[version].concurrency]
        PROVE  Ruling(p)
    <3> DEFINE c == Publications[version].concurrency
    <3>1. pass' = [pass EXCEPT ![p] = [pass[p] EXCEPT !.at = at, !.concurrency = c,
                                       !.view = pass[p].view]]
      BY <1>1, <2>3 DEF PassStates
    <3> HIDE DEF c
    <3>2. c \in Policies
      BY <2>1 DEF c
    <3> QED
      BY <1>6, <1>7, <3>1, <3>2
  <2> QED
    BY <1>5, <2>2, <2>3
<1>9. CASE RecordRefusal(p)
  <2>1. CASE OpenedBy(pass[p].d) # {}
    <3>1. pass' = [pass EXCEPT ![p] = [pass[p] EXCEPT !.at = "admit",
              !.concurrency = pass[p].concurrency, !.view = pass[p].view]]
      BY <1>4, <1>9, <2>1 DEF RecordRefusal, PassStates
    <3> QED
      BY <1>6, <1>7, <3>1
  <2>2. CASE OpenedBy(pass[p].d) = {}
    BY <1>5, <1>9, <2>2 DEF RecordRefusal
  <2> QED
    BY <2>1, <2>2
<1>10. CASE BeginStart(p)
  <2>1. View(p) \in Views
    BY <1>10, ViewsTyped DEF TypeInv, FlowInv, PassesNamed, BeginStart
  <2>2. pass' = [pass EXCEPT ![p] = [pass[p] EXCEPT !.at = "admitting",
            !.concurrency = pass[p].concurrency, !.view = View(p)]]
    BY <1>4, <1>10 DEF BeginStart, PassStates
  <2> QED
    BY <1>6, <1>7, <2>1, <2>2
<1>11. CASE CommitStart(p)
  <2>1. \/ \E k \in {"refused", "started"}, R \in SUBSET Runs : Comes(p, Outcome(k, R))
        \/ \E at \in {"decline", "admit"} : pass' = [pass EXCEPT ![p].at = at, ![p].view = NoView]
    <3>1. pass[p].view.own \in SUBSET Runs
      BY <1>7 DEF Views
    <3>2. \/ Comes(p, Outcome("refused", {}))
          \/ Comes(p, Outcome("started", pass[p].view.own))
          \/ Comes(p, Outcome("started", OpenedBy(pass[p].d)))
          \/ \E at \in {"decline", "admit"} : pass' = [pass EXCEPT ![p].at = at, ![p].view = NoView]
          \/ OpenRun(p, pass[p].view.inFlight \cap InFlight)
      BY <1>11, Zenon DEF CommitStart
    <3>3. CASE OpenRun(p, pass[p].view.inFlight \cap InFlight)
      <4>1. PICK r \in Runs \ Standing :
              Comes(p, Outcome("started", {r} \cup (pass[p].view.inFlight \cap InFlight)))
        BY <3>3 DEF OpenRun
      <4>2. {r} \cup (pass[p].view.inFlight \cap InFlight) \in SUBSET Runs
        BY OutcomesTyped
      <4> QED
        BY <4>1, <4>2
    <3> QED
      BY <3>1, <3>2, <3>3, OutcomesTyped
  <2>2. ASSUME NEW at \in {"decline", "admit"},
               pass' = [pass EXCEPT ![p].at = at, ![p].view = NoView]
        PROVE  Ruling(p)
    <3>1. pass' = [pass EXCEPT ![p] = [pass[p] EXCEPT !.at = at,
                     !.concurrency = pass[p].concurrency, !.view = NoView]]
      BY <1>1, <2>2 DEF PassStates
    <3> QED
      BY <1>6, <1>7, <3>1, NothingIsTyped
  <2> QED
    BY <1>5, <2>1, <2>2
<1>12. CASE DeclineStart(p)
  BY <1>5, <1>12 DEF DeclineStart
<1>13. CASE RequestCancel(p)
  <2>1. CASE inbox[pass[p].d] = "swept"
    <3>1. pass' = [pass EXCEPT ![p] = Idle] /\ UNCHANGED rows
      BY <1>13, <2>1 DEF RequestCancel
    <3>2. Aside
      BY <1>1, <3>1 DEF Aside, Rests, SameBook, rows
    <3> QED
      BY <3>2
  <2>2. CASE inbox[pass[p].d] # "swept"
    <3>1. \E R \in SUBSET Runs : Comes(p, Outcome("canceled", R))
      <4>1. {r \in Runs : run[r].claim = pass[p].d} \in SUBSET Runs
        OBVIOUS
      <4> QED
        BY <1>13, <2>2, <4>1, OutcomesTyped DEF RequestCancel
    <3> QED
      BY <1>5, <3>1
  <2> QED
    BY <2>1, <2>2
<1> QED
  BY <1>8, <1>9, <1>10, <1>11, <1>12, <1>13

LEMMA SettlingIsAside ==
  ASSUME TypeInv, NEW p \in Passes, pass[p].at # "idle",
         NEW status \in {"delivered", "failed"}, Settle(p, status), woke' = woke
  PROVE  Aside
<1>1. pass' = [pass EXCEPT ![p] = Idle] /\ pass \in [Passes -> PassStates]
  BY DEF Settle, TypeInv, FlowInv, FlowTypes
<1>2. \A q \in Passes : pass'[q] = pass[q] \/ Rests(q)
  BY <1>1 DEF Rests
<1>3. CASE ~Holds(p)
  <2>1. UNCHANGED rows
    BY <1>3 DEF Settle
  <2> QED
    BY <1>2, <2>1 DEF Aside, SameBook, rows
<1>4. CASE Holds(p)
  <2> DEFINE d == pass[p].d
  <2>1. /\ inbox' = [inbox EXCEPT ![d] = IF inbox[d] = "pending" THEN status ELSE inbox[d]]
        /\ memo' = [memo EXCEPT ![d] = NoMemo] /\ d \in Deliveries
    BY <1>4 DEF Settle, TypeInv, FlowInv, PassesNamed
  <2>2. \A e \in Deliveries : e # d => memo'[e] = memo[e]
    BY <2>1 DEF TypeInv, FlowInv, FlowTypes
  <2>3. memo'[d] = NoMemo /\ inbox'[d] # "pending"
    BY <2>1 DEF TypeInv, FlowInv, FlowTypes
  <2> QED
    BY <1>2, <2>2, <2>3 DEF Aside, SameBook
<1> QED
  BY <1>3, <1>4

LEMMA OpeningKinds ==
  ASSUME TypeInv, NEW p \in Passes, Open(p)
  PROVE  Aside \/ Opening(p)
<1> DEFINE d == pass[p].d
<1>1. /\ d \in Deliveries /\ pass[p].at = "open" /\ inbox[d] \in Rows /\ inbox[d] # "absent"
      /\ UNCHANGED <<runs, decisions, workflow, count, history>>
      /\ pass \in [Passes -> PassStates]
  BY DEF Open, TypeInv, FlowInv, FlowTypes, PassesNamed, Arrived
<1>2. CASE pass' = [pass EXCEPT ![p] = Idle] /\ UNCHANGED rows
  BY <1>1, <1>2 DEF Aside, Rests, SameBook, rows, history
<1>3. ASSUME NEW status \in {"delivered", "failed"}, Settle(p, status) PROVE Aside
  BY <1>1, <1>3, SettlingIsAside DEF history
<1>4. CASE /\ inbox[d] = "pending"
           /\ pass' = [pass EXCEPT ![p] = Continue(p, memo[d])] /\ UNCHANGED rows
  BY <1>1, <1>4 DEF Opening, GoesOnWith, rows
<1>5. \/ pass' = [pass EXCEPT ![p] = Idle] /\ UNCHANGED rows
      \/ \E status \in {"delivered", "failed"} : Settle(p, status)
      \/ /\ inbox[d] = "pending"
         /\ pass' = [pass EXCEPT ![p] = Continue(p, memo[d])] /\ UNCHANGED rows
  BY <1>1 DEF Open, Rows
<1> QED
  BY <1>2, <1>3, <1>4, <1>5

(* Whatever a step does, it does one of these things to the fan-out.       *)
LEMMA StepKinds ==
  ASSUME TypeInv, [Next]_vars
  PROVE  \/ Aside
         \/ \E p \in Passes : \/ Opening(p) \/ Waking(p) \/ Ruling(p)
                              \/ \E b \in Books : Saving(p, b)
<1>0. /\ pass \in [Passes -> PassStates] /\ memo \in [Deliveries -> Books]
  BY DEF TypeInv, FlowInv, FlowTypes
<1>a. ASSUME UNCHANGED <<pass, memo, woke>> PROVE Aside
  BY <1>a DEF Aside, SameBook
<1>1. ASSUME NEW d \in Deliveries,
             Receive(d) \/ PollInbox(d) \/ Resend(d) \/ SweepInbox(d) \/ SweepRefusal(d)
      PROVE  UNCHANGED <<pass, memo, woke>>
  BY <1>1, Zenon DEF Receive, PollInbox, Resend, SweepInbox, SweepRefusal, rows, history
<1>2. ASSUME NEW d \in Deliveries, LeaseExpires(d) PROVE Aside
  <2>1. memo' = [memo EXCEPT ![d] = [memo[d] EXCEPT !.fails = memo[d].fails + 1]]
        /\ UNCHANGED <<pass, woke>>
    BY <1>2 DEF LeaseExpires, history
  <2>2. memo[d] \in Books
    BY <1>0
  <2>3. \A e \in Deliveries : SameBook(memo'[e], memo[e])
    BY <1>0, <2>1, <2>2 DEF SameBook, Books
  <2> QED
    BY <2>1, <2>3 DEF Aside
<1>3. ASSUME NEW d \in Deliveries, NEW p \in Passes, Claim(p, d) PROVE Aside
  <2> DEFINE X == [Idle EXCEPT !.at = "open", !.d = d]
  <2>1. X.at = "open" /\ X.todo = {}
    BY DEF Idle
  <2>2. pass' = [pass EXCEPT ![p] = X] /\ UNCHANGED <<memo, woke>>
    BY <1>3 DEF Claim, history
  <2> HIDE DEF X
  <2> QED
    BY <1>0, <2>1, <2>2 DEF Aside, Rests, SameBook
<1>4. ASSUME NEW p \in Passes, StepThrows(p) PROVE Aside
  <2>1. pass[p].at # "idle" /\ woke' = woke /\ pass[p].d \in Deliveries
    BY <1>4 DEF StepThrows, StepPoints, history, TypeInv, FlowInv, PassesNamed
  <2>2. CASE Settle(p, "failed")
    BY <2>1, <2>2, SettlingIsAside
  <2>3. CASE ~Settle(p, "failed")
    <3> DEFINE d == pass[p].d
    <3>1. /\ pass' = [pass EXCEPT ![p] = Idle]
          /\ memo' = [memo EXCEPT ![d] = [memo[d] EXCEPT !.fails = memo[d].fails + 1]]
      BY <1>4, <2>3 DEF StepThrows
    <3>2. memo[d] \in Books
      BY <1>0, <2>1
    <3>3. \A e \in Deliveries : SameBook(memo'[e], memo[e])
      BY <1>0, <3>1, <3>2 DEF SameBook, Books
    <3>4. \A q \in Passes : pass'[q] = pass[q] \/ Rests(q)
      BY <1>0, <3>1 DEF Rests
    <3> QED
      BY <2>1, <3>3, <3>4 DEF Aside
  <2> QED
    BY <2>2, <2>3
<1>5. ASSUME NEW p \in Passes, Crash(p) PROVE Aside
  <2>1. pass' = [pass EXCEPT ![p] = Idle] /\ UNCHANGED <<memo, woke>>
    BY <1>5 DEF Crash, rows, history
  <2> QED
    BY <1>0, <2>1 DEF Aside, Rests, SameBook
<1>6. ASSUME NEW p \in Passes, FinishDelivery(p) PROVE Aside
  BY <1>6, SettlingIsAside DEF FinishDelivery, history
<1>7. ASSUME NEW r \in Runs, RunStep(r) PROVE UNCHANGED <<pass, memo, woke>>
  BY <1>7, Zenon DEF RunStep, RunParks, RunWakes, RunEnds, Migrate, SweepRun, rows, history
<1>8. ASSUME Publish \/ UNCHANGED vars PROVE UNCHANGED <<pass, memo, woke>>
  BY <1>8 DEF Publish, vars, rows, history
<1>9. ASSUME NEW p \in Passes, PassStep(p)
      PROVE  Aside \/ Opening(p) \/ Waking(p) \/ Ruling(p) \/ \E b \in Books : Saving(p, b)
  BY <1>6, <1>9, OpeningKinds, SavingKinds, RulingKinds DEF PassStep, Waking
<1> QED
  BY <1>a, <1>1, <1>2, <1>3, <1>4, <1>5, <1>7, <1>8, <1>9 DEF Next

(* The pass of each kind of step, field by field.                          *)
LEMMA AfterGoingOn ==
  ASSUME TypeInv, NEW p \in Passes, NEW b \in Books, GoesOnWith(p, b)
  PROVE  /\ \A q \in Passes : q # p => pass'[q] = pass[q]
         /\ pass'[p].at = NextStep(b) /\ pass'[p].book = b /\ pass'[p].d = pass[p].d
         /\ pass'[p].life = NoLife
         /\ pass'[p].todo = IF NextStep(b) = "wake"
              THEN {Candidate(c, "claim") : c \in b.pages[b.woken + 1]} ELSE {}
         /\ pass'[p].at \in {"subscribers", "lifecycle", "list", "wake", "settle"}
<1>1. pass \in [Passes -> PassStates] /\ Types
  BY DEF TypeInv, FlowInv, FlowTypes, Types
<1>2. pass'[p] = Continue(p, b) /\ \A q \in Passes : q # p => pass'[q] = pass[q]
  BY <1>1 DEF GoesOnWith
<1> DEFINE c == Continue(p, b)
           offered == IF NextStep(b) = "wake"
              THEN {Candidate(x, "claim") : x \in b.pages[b.woken + 1]} ELSE {}
<1>3. /\ c.at = NextStep(b) /\ c.book = b /\ c.d = pass[p].d /\ c.life = NoLife
      /\ c.todo = offered
  BY <1>1, GoesOn
<1>4. NextStep(b) \in {"subscribers", "lifecycle", "list", "wake", "settle"}
  BY NextSteps
<1>5. pass'[p] = c
  BY <1>2
<1> HIDE DEF c, offered
<1>6. /\ pass'[p].at = NextStep(b) /\ pass'[p].book = b /\ pass'[p].d = pass[p].d
      /\ pass'[p].life = NoLife /\ pass'[p].todo = offered
  BY <1>3, <1>5
<1>7. pass'[p].at \in {"subscribers", "lifecycle", "list", "wake", "settle"}
  BY <1>4, <1>6
<1> QED
  BY <1>2, <1>6, <1>7 DEF offered

LEMMA AfterWaking ==
  ASSUME TypeInv, NEW p \in Passes, Waking(p)
  PROVE  /\ \A q \in Passes : q # p => pass'[q] = pass[q]
         /\ pass'[p].at = "wake" /\ pass[p].at = "wake"
         /\ pass'[p].book = pass[p].book /\ pass'[p].d = pass[p].d
         /\ UNCHANGED <<rows, run, decisions, workflow, count, owed, after>>
<1>1. pass \in [Passes -> PassStates] /\ pass[p].at = "wake"
  BY DEF TypeInv, FlowInv, FlowTypes, Waking, WakeWait, RereadWait
<1>2. \E T : pass' = [pass EXCEPT ![p].todo = T]
  BY DEF Waking, WakeWait, RereadWait
<1>3. UNCHANGED <<rows, run, decisions, workflow, count, owed, after>>
  BY DEF Waking, WakeWait, RereadWait, runs, history
<1> QED
  BY <1>1, <1>2, <1>3 DEF PassStates

(* What is the same of two memos that differ in their failures.            *)
LEMMA SameBooks ==
  ASSUME NEW b \in Books, NEW c \in Books, SameBook(b, c)
  PROVE  /\ b.listed = c.listed /\ b.roles = c.roles /\ b.life = c.life
         /\ b.pages = c.pages /\ b.more = c.more /\ b.woken = c.woken
         /\ NextStep(b) = NextStep(c) /\ (Listed(b) <=> Listed(c))
<1>1. /\ b.listed = c.listed /\ b.roles = c.roles /\ b.life = c.life
      /\ b.pages = c.pages /\ b.more = c.more /\ b.woken = c.woken
  <2>1. LET x == [b EXCEPT !.fails = 0] y == [c EXCEPT !.fails = 0] IN
        /\ x.listed = b.listed /\ x.roles = b.roles /\ x.life = b.life
        /\ x.pages = b.pages /\ x.more = b.more /\ x.woken = b.woken
        /\ y.listed = c.listed /\ y.roles = c.roles /\ y.life = c.life
        /\ y.pages = c.pages /\ y.more = c.more /\ y.woken = c.woken
    BY DEF Books
  <2> QED
    BY <2>1, Zenon DEF SameBook
<1> QED
  BY <1>1 DEF NextStep, NeedsRules, Listed

(* The steps of the fan-out, by what the memo holds.                       *)
LEMMA NextStepMeans ==
  ASSUME NEW b \in Books
  PROVE  /\ NextStep(b) = "subscribers" => ~b.listed
         /\ NextStep(b) = "lifecycle" => b.listed /\ NeedsRules(b)
         /\ NextStep(b) = "list" =>
              b.listed /\ ~NeedsRules(b) /\ "wait" \in b.roles /\ b.more
         /\ NextStep(b) = "wake" => Listed(b) /\ b.woken < Len(b.pages)
         /\ NextStep(b) = "settle" => Listed(b) /\ ~(b.woken < Len(b.pages))
         /\ ~b.listed => NextStep(b) = "subscribers"
         /\ b.listed /\ NeedsRules(b) => NextStep(b) = "lifecycle"
BY DEF NextStep, Listed

-----------------------------------------------------------------------------
(* One memo, and one pass, in a step                                       *)

LEMMA Bookkeeping ==
  ASSUME TypeInv
  PROVE  /\ Types
         /\ pass \in [Passes -> PassStates] /\ memo \in [Deliveries -> Books]
         /\ \A p \in Passes : /\ pass[p].book \in Books /\ pass[p].todo \in SUBSET Offered
                              /\ pass[p].at # "idle" => pass[p].d \in Deliveries
         /\ \A d \in Deliveries : memo[d] \in Books
BY DEF TypeInv, FlowInv, FlowTypes, Types, PassStates, PassesNamed

LEMMA MemoMoves ==
  ASSUME TypeInv, [Next]_vars, NEW d \in Deliveries
  PROVE  \/ SameBook(memo'[d], memo[d])
         \/ memo'[d] = NoMemo /\ inbox'[d] # "pending"
         \/ \E p \in Passes : \E b \in Books :
              Saving(p, b) /\ d = pass[p].d /\ memo'[d] = b
<1>1. CASE Aside
  BY <1>1 DEF Aside
<1>2. ASSUME NEW p \in Passes, Opening(p) \/ Waking(p) \/ Ruling(p)
      PROVE  memo' = memo
  <2>1. CASE Waking(p)
    BY <2>1, AfterWaking DEF rows
  <2> QED
    BY <1>2, <2>1 DEF Opening, Ruling, rows
<1>3. ASSUME NEW p \in Passes, NEW b \in Books, Saving(p, b)
      PROVE  memo'[d] = memo[d] \/ (d = pass[p].d /\ memo'[d] = b)
  BY <1>3, Bookkeeping DEF Saving
<1> QED
  BY <1>1, <1>2, <1>3, StepKinds DEF SameBook

LEMMA PassMoves ==
  ASSUME TypeInv, [Next]_vars, NEW q \in Passes
  PROVE  \/ pass'[q] = pass[q] \/ Rests(q)
         \/ Opening(q) \/ Waking(q) \/ Ruling(q) \/ \E b \in Books : Saving(q, b)
<1>1. CASE Aside
  BY <1>1 DEF Aside
<1>2. ASSUME NEW p \in Passes, p # q,
             Opening(p) \/ Waking(p) \/ Ruling(p) \/ \E b \in Books : Saving(p, b)
      PROVE  pass'[q] = pass[q]
  <2>1. CASE Opening(p)
    <3>1. memo[pass[p].d] \in Books /\ GoesOnWith(p, memo[pass[p].d])
      BY <2>1, Bookkeeping DEF Opening
    <3> QED
      BY <1>2, <3>1, AfterGoingOn
  <2>2. CASE Waking(p)
    BY <1>2, <2>2, AfterWaking
  <2>3. CASE Ruling(p)
    BY <1>2, <2>3 DEF Ruling
  <2>4. CASE \E b \in Books : Saving(p, b)
    BY <1>2, <2>4, AfterGoingOn DEF Saving
  <2> QED
    BY <1>2, <2>1, <2>2, <2>3, <2>4
<1> QED
  BY <1>1, <1>2, StepKinds

(* A pass that opens or saves goes on with a memo.                         *)
GoesAhead(q, b) ==
  /\ b \in Books
  /\ \/ Opening(q) /\ b = memo[pass[q].d]
     \/ Saving(q, b)
  /\ pass'[q].at = NextStep(b) /\ pass'[q].book = b /\ pass'[q].d = pass[q].d
  /\ pass'[q].todo = IF NextStep(b) = "wake"
       THEN {Candidate(c, "claim") : c \in b.pages[b.woken + 1]} ELSE {}
  /\ pass'[q].at \in {"subscribers", "lifecycle", "list", "wake", "settle"}

LEMMA PassKinds ==
  ASSUME TypeInv, [Next]_vars, NEW q \in Passes
  PROVE  \/ pass'[q] = pass[q] \/ Rests(q) \/ Waking(q) \/ Ruling(q)
         \/ \E b \in Books : GoesAhead(q, b)
<1>1. CASE Opening(q)
  <2>1. PICK b \in Books : b = memo[pass[q].d] /\ GoesOnWith(q, b)
    BY <1>1, Bookkeeping DEF Opening
  <2>2. GoesAhead(q, b)
    BY <1>1, <2>1, AfterGoingOn, Zenon DEF GoesAhead
  <2> QED
    BY <2>2
<1>2. ASSUME NEW b \in Books, Saving(q, b) PROVE GoesAhead(q, b)
  BY <1>2, AfterGoingOn, Zenon DEF GoesAhead, Saving
<1> QED
  BY <1>1, <1>2, PassMoves

LEMMA RestsAre ==
  ASSUME NEW q, Rests(q)
  PROVE  pass'[q].at \in {"idle", "open"} /\ pass'[q].todo = {}
BY NothingIsTyped DEF Rests

LEMMA StepsStay ==
  ASSUME TypeInv, OnStep, [Next]_vars
  PROVE  OnStep'
<1> SUFFICES ASSUME NEW q \in Passes, pass'[q].at \notin {"idle", "open"}
             PROVE  NextStep(pass'[q].book) = StepOf(pass'[q].at)
  BY DEF OnStep, UnderWay
<1>1. CASE pass'[q] = pass[q]
  BY <1>1 DEF OnStep, UnderWay
<1>2. CASE Rests(q)
  BY <1>2, RestsAre
<1>3. CASE Waking(q)
  <2>1. pass'[q].at = "wake" /\ pass[q].at = "wake" /\ pass'[q].book = pass[q].book
    BY <1>3, AfterWaking
  <2> QED
    BY <2>1 DEF OnStep, UnderWay
<1>4. CASE Ruling(q)
  BY <1>4 DEF Ruling, OnStep
<1>5. ASSUME NEW b \in Books, GoesAhead(q, b)
      PROVE  NextStep(pass'[q].book) = StepOf(pass'[q].at)
  BY <1>5 DEF GoesAhead, StepOf
<1> QED
  BY <1>1, <1>2, <1>3, <1>4, <1>5, PassKinds

-----------------------------------------------------------------------------
(* Candidates, and the Waits the history names, have been come to          *)

LEMMA PagesStay ==
  ASSUME TypeInv, RunsOfArrivals, ParksSound, [Next]_vars, NEW b \in Books, PagesReached(b)
  PROVE  PagesReached(b)'
<1> SUFFICES ASSUME NEW i \in DOMAIN b.pages, NEW c \in b.pages[i] PROVE Reached(c)'
  BY DEF PagesReached
<1>1. c \in Saved
  BY DEF Books
<1>2. Reached(c)
  BY DEF PagesReached
<1> QED
  BY <1>1, <1>2, ReachedStays DEF Saved

(* Appending a page adds that page, last.                                  *)
LEMMA PageAppended ==
  ASSUME NEW pages \in Seq(SUBSET Saved), NEW page \in SUBSET Saved
  PROVE  LET more == Append(pages, page) IN
         /\ DOMAIN more = 1 .. Len(pages) + 1 /\ Len(more) = Len(pages) + 1
         /\ DOMAIN pages = 1 .. Len(pages) /\ Len(pages) \in Nat
         /\ \A i \in DOMAIN pages : i \in DOMAIN more /\ more[i] = pages[i]
         /\ Len(pages) + 1 \in DOMAIN more /\ more[Len(pages) + 1] = page
         /\ \A i \in DOMAIN more : i = Len(pages) + 1 \/ i \in DOMAIN pages
OBVIOUS

LEMMA CandidatesReached ==
  ASSUME TypeInv, NEW b \in Books, NEW c \in Candidates(b)
  PROVE  /\ c.run \in ParkedOnEvent /\ c.run \notin Settled(b)
         /\ c.pos = park[c.run].pos /\ c.token = park[c.run].token
         /\ run[c.run].status = "live" /\ Reached(c)
<1>1. PICK r \in ParkedOnEvent \ Settled(b) :
        c = [run |-> r, pos |-> park[r].pos, token |-> park[r].token]
  BY DEF Candidates
<1>2. park[r].token \in Nat
  BY <1>1 DEF TypeInv, RunTypes, ParkRows, ParkedOnEvent
<1> QED
  BY <1>1, <1>2 DEF ParkedOnEvent, Reached

(* What a saved step adds to the pages has just been come to.              *)
LEMMA SavedReached ==
  ASSUME TypeInv, RunsOfArrivals, ParksSound, [Next]_vars, NEW p \in Passes, NEW b \in Books,
         Saving(p, b), PagesReached(pass[p].book)
  PROVE  PagesReached(b)'
<1>1. PICK old \in Books : old = pass[p].book
  BY Bookkeeping
<1>2. PagesReached(old)'
  <2>1. PagesReached(old)
    BY <1>1
  <2> QED
    BY <2>1, PagesStay
<1>3. CASE b.pages = old.pages
  BY <1>2, <1>3 DEF PagesReached
<1>4. CASE b.pages = Append(old.pages, PageOf(Candidates(old)))
  <2> DEFINE page == PageOf(Candidates(old))
  <2>1. /\ page \in SUBSET Saved /\ page \in SUBSET Candidates(old)
        /\ old.pages \in Seq(SUBSET Saved)
    BY <1>1, Bookkeeping, CandidatesTyped DEF Books
  <2>2. ASSUME NEW c \in page PROVE Reached(c)'
    <3>1. c \in Saved /\ Reached(c)
      BY <2>1, CandidatesReached
    <3> QED
      BY <3>1, ReachedStays DEF Saved
  <2>3. b.pages = Append(old.pages, page)
    BY <1>4
  <2> HIDE DEF page
  <2>4. SUFFICES ASSUME NEW i \in DOMAIN b.pages, NEW c \in b.pages[i] PROVE Reached(c)'
    BY DEF PagesReached
  <2>5. CASE i \in DOMAIN old.pages
    <3>1. c \in old.pages[i]
      BY <2>1, <2>3, <2>5, PageAppended
    <3> QED
      BY <1>2, <2>5, <3>1 DEF PagesReached
  <2>6. CASE i \notin DOMAIN old.pages
    <3>1. c \in page
      BY <2>1, <2>3, <2>6, PageAppended
    <3> QED
      BY <2>2, <3>1
  <2> QED
    BY <2>5, <2>6
<1> QED
  BY <1>1, <1>3, <1>4, Zenon DEF Saving, Grows

LEMMA CandidateFields ==
  ASSUME NEW c, NEW step
  PROVE  /\ Candidate(c, step).run = c.run /\ Candidate(c, step).pos = c.pos
         /\ Candidate(c, step).token = c.token /\ Candidate(c, step).step = step
BY DEF Candidate

(* What a wake does with the candidates left.                              *)
LEMMA OffersLeft ==
  ASSUME TypeInv, NEW p \in Passes, Waking(p)
  PROVE  \E c \in pass[p].todo :
           \A e \in pass'[p].todo :
             \/ e \in pass[p].todo /\ e # c
             \/ /\ WakeWait(p, c) /\ UNCHANGED <<park, woke>>
                /\ ~(SameWait(c) /\ park[c.run].token = c.token /\ Claimable(park[c.run]))
                /\ e \in Offered /\ e.run = c.run /\ e.pos = c.pos /\ e.token = c.token
                /\ e.step = "reread"
             \/ /\ RereadWait(p, c) /\ Refreshable(c, pass[p].d)
                /\ e \in Offered /\ e.run = c.run /\ e.pos = c.pos
                /\ e.token = park[c.run].token /\ e.step = "claim"
<1>1. PICK c \in pass[p].todo : WakeWait(p, c) \/ RereadWait(p, c)
  BY DEF Waking
<1>2. /\ pass \in [Passes -> PassStates] /\ pass[p] \in PassStates
      /\ pass[p].todo \in SUBSET Offered /\ c \in Offered
  BY Bookkeeping
<1>3. park \in [Runs -> ParkRows]
  BY DEF TypeInv, RunTypes
<1>4. CASE WakeWait(p, c)
  <2> DEFINE k == park[c.run]
             named == SameWait(c) /\ k.token = c.token
             rest == pass[p].todo \ {c}
             again == Candidate(c, "reread")
  <2>1. /\ again \in Offered /\ again.run = c.run /\ again.pos = c.pos
        /\ again.token = c.token /\ again.step = "reread"
    BY <1>2 DEF Candidate, Offered
  <2>2. \/ pass'[p].todo = rest
        \/ /\ ~(named /\ Claimable(k)) /\ UNCHANGED <<park, woke>>
           /\ pass'[p].todo = rest \cup {again}
    <3>1. \/ pass' = [pass EXCEPT ![p].todo = rest]
          \/ /\ ~(named /\ Claimable(k)) /\ UNCHANGED <<park, woke>>
             /\ pass' = [pass EXCEPT ![p].todo = rest \cup {again}]
      <4> HIDE DEF again
      <4> QED
        BY <1>4, Zenon DEF WakeWait, again
    <3> HIDE DEF again, named, rest
    <3> QED
      BY <1>2, <3>1 DEF PassStates
  <2> HIDE DEF again
  <2> QED
    BY <1>4, <2>1, <2>2
<1>5. CASE RereadWait(p, c)
  <2> DEFINE new == [c EXCEPT !.token = park[c.run].token, !.step = "claim"]
  <2>1. /\ new \in Offered /\ new.run = c.run /\ new.pos = c.pos
        /\ new.token = park[c.run].token /\ new.step = "claim"
    BY <1>2, <1>3 DEF Offered, ParkRows
  <2>2. pass' = [pass EXCEPT ![p].todo = (pass[p].todo \ {c}) \cup
                   (IF Refreshable(c, pass[p].d) THEN {new} ELSE {})]
    BY <1>5 DEF RereadWait
  <2> HIDE DEF new
  <2>3. pass'[p].todo = (pass[p].todo \ {c}) \cup
                   (IF Refreshable(c, pass[p].d) THEN {new} ELSE {})
    BY <1>2, <2>2 DEF PassStates
  <2> QED
    BY <1>5, <2>1, <2>3
<1> QED
  BY <1>1, <1>4, <1>5

(* A Wait is woken for an arrival by a wake of one of its passes.          *)
WokenBy(p, c) ==
  /\ pass[p].at = "wake" /\ c.step = "claim" /\ WakeWait(p, c)
  /\ SameWait(c) /\ Claimable(park[c.run]) /\ park[c.run].token = c.token

LEMMA WokeGrows ==
  ASSUME TypeInv, [Next]_vars, NEW d \in Deliveries
  PROVE  \/ woke'[d] = woke[d]
         \/ \E p \in Passes : \E c \in pass[p].todo :
              /\ d = pass[p].d /\ WokenBy(p, c)
              /\ woke'[d] = woke[d] \cup {<<c.run, c.pos>>}
<1>1. ASSUME NEW p \in Passes, Waking(p)
      PROVE  \/ woke'[d] = woke[d]
             \/ \E c \in pass[p].todo : /\ d = pass[p].d /\ WokenBy(p, c)
                                        /\ woke'[d] = woke[d] \cup {<<c.run, c.pos>>}
  <2>1. PICK c \in pass[p].todo : WakeWait(p, c) \/ RereadWait(p, c)
    BY <1>1 DEF Waking
  <2>2. CASE UNCHANGED woke
    BY <2>2
  <2>3. CASE ~UNCHANGED woke
    <3>1. /\ WakeWait(p, c) /\ WokenBy(p, c)
          /\ woke' = [woke EXCEPT ![pass[p].d] = woke[pass[p].d] \cup {<<c.run, c.pos>>}]
      BY <2>1, <2>3 DEF WakeWait, RereadWait, WokenBy, history
    <3>2. woke \in [Deliveries -> SUBSET Waits]
      BY DEF TypeInv, RunTypes
    <3>3. CASE d = pass[p].d
      BY <3>1, <3>2, <3>3
    <3>4. CASE d # pass[p].d
      BY <3>1, <3>2, <3>4
    <3> QED
      BY <3>3, <3>4
  <2> QED
    BY <2>2, <2>3
<1>2. CASE Aside
  BY <1>2 DEF Aside
<1>3. ASSUME NEW p \in Passes, Opening(p) \/ Ruling(p) \/ \E b \in Books : Saving(p, b)
      PROVE  woke'[d] = woke[d]
  BY <1>3 DEF Opening, Ruling, Saving, GoesOnWith, history
<1> QED
  BY <1>1, <1>2, <1>3, StepKinds

(* What an arrival is owed is recorded when it comes.                      *)
LEMMA OwedRecorded ==
  ASSUME TypeInv, [Next]_vars, NEW d \in Deliveries
  PROVE  \/ owed'[d] = owed[d]
         \/ /\ Receive(d)
            /\ owed'[d] = IF d \in Here.wakes
                          THEN {<<r, park[r].pos>> : r \in OpenOnEvent} ELSE {}
<1> USE DEF history
<1>1. ASSUME NEW e \in Deliveries,
             \/ PollInbox(e) \/ Resend(e) \/ LeaseExpires(e) \/ SweepInbox(e)
             \/ SweepRefusal(e) \/ \E p \in Passes : Claim(p, e)
      PROVE  owed' = owed
  BY <1>1, Zenon DEF PollInbox, Resend, LeaseExpires, SweepInbox, SweepRefusal, Claim
<1>2. ASSUME NEW p \in Passes, PassStep(p) \/ StepThrows(p) \/ Crash(p) PROVE owed' = owed
  BY <1>2, Zenon DEF PassStep, Open, ListSubscribers, ReadLifecycle, RecordRefusal,
       BeginStart, CommitStart, DeclineStart, RequestCancel, SaveOutcome, ListPage,
       SavePage, FinishDelivery, WakeWait, RereadWait, StepThrows, Crash
<1>3. ASSUME NEW r \in Runs, RunStep(r) PROVE owed' = owed
  BY <1>3, Zenon DEF RunStep, RunParks, RunWakes, RunEnds, Migrate, SweepRun
<1>4. CASE Publish \/ UNCHANGED vars
  BY <1>4 DEF Publish, vars
<1>5. ASSUME NEW e \in Deliveries, Receive(e)
      PROVE  \/ owed'[d] = owed[d]
             \/ /\ Receive(d)
                /\ owed'[d] = IF d \in Here.wakes
                              THEN {<<r, park[r].pos>> : r \in OpenOnEvent} ELSE {}
  <2> DEFINE open == IF e \in Here.wakes
                     THEN {<<r, park[r].pos>> : r \in OpenOnEvent} ELSE {}
  <2>1. owed' = [owed EXCEPT ![e] = open] /\ owed \in [Deliveries -> SUBSET Waits]
    BY <1>5 DEF Receive, TypeInv, RunTypes
  <2>2. CASE e = d
    BY <1>5, <2>1, <2>2
  <2>3. CASE e # d
    <3> HIDE DEF open
    <3> QED
      BY <2>1, <2>3
  <2> QED
    BY <2>2, <2>3
<1> QED
  BY <1>1, <1>2, <1>3, <1>4, <1>5 DEF Next

LEMMA WaitsReached ==
  ASSUME TypeInv, RunsOfArrivals, ParksSound, AllReached, [Next]_vars,
         NEW d \in Deliveries, NEW x \in (woke[d] \cup owed[d])'
  PROVE  run'[x[1]].status # "absent" /\ x[2] <= park'[x[1]].pos
<1>1. park \in [Runs -> ParkRows] /\ park' \in [Runs -> ParkRows] /\ run \in [Runs -> RunRows]
  BY Continues DEF TypeInv, RunTypes
<1>2. ASSUME NEW r \in Runs, NEW n \in Nat, run[r].status # "absent", n <= park[r].pos
      PROVE  run'[r].status # "absent" /\ n <= park'[r].pos
  <2>1. park[r].pos \in Nat /\ park'[r].pos \in Nat
    BY <1>1 DEF ParkRows
  <2> QED
    BY <1>2, <2>1, RunsGoOn
<1>3. CASE x \in woke[d] \cup owed[d]
  <2>1. x[1] \in Runs /\ x[2] \in Nat /\ run[x[1]].status # "absent" /\ x[2] <= park[x[1]].pos
    BY <1>3 DEF AllReached, TypeInv, RunTypes, Waits
  <2> QED
    BY <1>2, <2>1
<1>4. CASE x \notin woke[d] /\ x \in woke'[d]
  <2>0. PICK p \in Passes :
          \E c \in pass[p].todo : WokenBy(p, c) /\ x = <<c.run, c.pos>>
    BY <1>4, WokeGrows
  <2>1. PICK c \in pass[p].todo : WokenBy(p, c) /\ x = <<c.run, c.pos>>
    BY <2>0
  <2>2. c \in Offered
    BY Bookkeeping
  <2>3. /\ c.run \in Runs /\ c.pos \in Nat /\ run[c.run].status # "absent"
        /\ c.pos <= park[c.run].pos
    BY <1>1, <2>1, <2>2 DEF WokenBy, SameWait, Offered, ParkRows
  <2> QED
    BY <1>2, <2>1, <2>3
<1>5. CASE x \notin owed[d] /\ x \in owed'[d]
  <2>1. PICK r \in OpenOnEvent : x = <<r, park[r].pos>>
    BY <1>5, OwedRecorded
  <2>2. r \in Runs /\ park[r].pos \in Nat /\ run[r].status # "absent"
    BY <1>1, <2>1 DEF OpenOnEvent, ParkRows
  <2> QED
    BY <1>2, <2>1, <2>2
<1> QED
  BY <1>3, <1>4, <1>5

LEMMA AllStayReached ==
  ASSUME TypeInv, RunsOfArrivals, ParksSound, AllReached, [Next]_vars
  PROVE  AllReached'
<1>1. NoMemo.pages = <<>> /\ TypeInv'
  BY NothingIsTyped, Continues
<1>2. ASSUME NEW d \in Deliveries PROVE PagesReached(memo[d])'
  <2>1. PICK b \in Books : b = memo[d]
    BY Bookkeeping
  <2>2. PagesReached(b)
    BY <2>1 DEF AllReached
  <2>3. PagesReached(b)'
    BY <2>2, PagesStay
  <2>4. CASE SameBook(memo'[d], memo[d])
    <3>1. PICK e \in Books : e = memo'[d]
      BY <1>1, Bookkeeping, Continues DEF TypeInv, FlowInv, FlowTypes
    <3>2. e.pages = b.pages
      BY <2>1, <2>4, <3>1, SameBooks
    <3> QED
      BY <2>3, <3>1, <3>2 DEF PagesReached
  <2>5. CASE memo'[d] = NoMemo
    BY <1>1, <2>5 DEF PagesReached
  <2>6. ASSUME NEW p \in Passes, NEW e \in Books, Saving(p, e), memo'[d] = e
        PROVE  PagesReached(memo[d])'
    <3>1. PagesReached(pass[p].book)
      BY <2>6 DEF Saving, AllReached
    <3>2. PagesReached(e)'
      BY <2>6, <3>1, SavedReached
    <3> QED
      BY <2>6, <3>2 DEF PagesReached
  <2> QED
    BY <2>4, <2>5, <2>6, MemoMoves
<1>3. ASSUME NEW q \in Passes, NEW b \in Books, GoesAhead(q, b) PROVE PagesReached(b)'
  <2>1. CASE Saving(q, b)
    <3>1. PagesReached(pass[q].book)
      BY <2>1 DEF Saving, AllReached
    <3> QED
      BY <2>1, <3>1, SavedReached
  <2>2. CASE Opening(q) /\ b = memo[pass[q].d]
    <3>1. pass[q].d \in Deliveries
      BY <2>2, Bookkeeping DEF Opening
    <3>2. PagesReached(b)
      BY <2>2, <3>1 DEF AllReached
    <3> QED
      BY <3>2, PagesStay
  <2> QED
    BY <1>3, <2>1, <2>2 DEF GoesAhead
<1>4. ASSUME NEW q \in Passes, pass'[q].at \notin {"idle", "open"}
      PROVE  PagesReached(pass[q].book)'
  <2>1. CASE pass'[q].book = pass[q].book /\ UnderWay(q)
    <3>1. PICK b \in Books : b = pass[q].book
      BY Bookkeeping
    <3>2. PagesReached(b)
      BY <2>1, <3>1 DEF AllReached
    <3>3. PagesReached(b)'
      BY <3>2, PagesStay
    <3> QED
      BY <2>1, <3>1, <3>3 DEF PagesReached
  <2>2. ASSUME NEW b \in Books, GoesAhead(q, b) PROVE PagesReached(pass[q].book)'
    <3>1. PagesReached(b)' /\ pass'[q].book = b
      BY <1>3, <2>2 DEF GoesAhead
    <3> QED
      BY <3>1 DEF PagesReached
  <2>3. \/ pass'[q].book = pass[q].book /\ UnderWay(q)
        \/ \E b \in Books : GoesAhead(q, b)
    <3>1. CASE pass'[q] = pass[q]
      BY <1>4, <3>1 DEF UnderWay
    <3>2. CASE Rests(q)
      BY <1>4, <3>2, RestsAre
    <3>3. CASE Waking(q)
      BY <3>3, AfterWaking DEF UnderWay
    <3>4. CASE Ruling(q)
      BY <3>4 DEF Ruling
    <3> QED
      BY <3>1, <3>2, <3>3, <3>4, PassKinds
  <2> QED
    BY <2>1, <2>2, <2>3
<1>5. ASSUME NEW q \in Passes, NEW c \in pass'[q].todo PROVE Reached(c)'
  <2>1. ASSUME c \in pass[q].todo PROVE Reached(c)'
    <3>1. c \in Offered /\ Reached(c)
      BY <2>1, Bookkeeping DEF AllReached
    <3> QED
      BY <3>1, ReachedStays DEF Offered
  <2>2. CASE pass'[q] = pass[q] \/ Ruling(q) \/ Rests(q)
    <3>1. c \in pass[q].todo
      BY <1>5, <2>2, RestsAre DEF Ruling
    <3> QED
      BY <2>1, <3>1
  <2>3. CASE Waking(q)
    <3>1. PICK e \in pass[q].todo :
            \/ c \in pass[q].todo
            \/ c \in Offered /\ c.run = e.run /\ c.pos = e.pos /\ c.token = e.token
            \/ /\ c \in Offered /\ c.run = e.run /\ c.pos = e.pos
               /\ c.token = park[e.run].token /\ SameWait(e)
      BY <1>5, <2>3, OffersLeft DEF Refreshable
    <3>2. Reached(e) /\ e \in Offered
      BY Bookkeeping DEF AllReached
    <3>3. ASSUME c \in Offered, Reached(c) PROVE Reached(c)'
      BY <3>3, ReachedStays DEF Offered
    <3>4. CASE c \in Offered /\ c.run = e.run /\ c.pos = e.pos /\ c.token = e.token
      BY <3>2, <3>3, <3>4 DEF Reached
    <3>5. CASE /\ c \in Offered /\ c.run = e.run /\ c.pos = e.pos
               /\ c.token = park[e.run].token /\ SameWait(e)
      <4>1. c.token \in Nat
        BY <3>5 DEF Offered
      <4> QED
        BY <3>3, <3>5, <4>1 DEF Reached, SameWait
    <3> QED
      BY <2>1, <3>1, <3>4, <3>5
  <2>4. ASSUME NEW b \in Books, GoesAhead(q, b) PROVE Reached(c)'
    <3>1. NextStep(b) = "wake" /\ \E e \in b.pages[b.woken + 1] : c = Candidate(e, "claim")
      BY <1>5, <2>4 DEF GoesAhead
    <3>2. PICK e \in b.pages[b.woken + 1] : c = Candidate(e, "claim")
      BY <3>1
    <3>3. b.woken + 1 \in DOMAIN b.pages
      BY <3>1, NextSteps
    <3>4. Reached(e)'
      BY <1>3, <2>4, <3>3 DEF PagesReached
    <3> QED
      BY <3>2, <3>4, CandidateFields DEF Reached
  <2> QED
    BY <2>2, <2>3, <2>4, PassKinds
<1> QED
  BY <1>2, <1>4, <1>5, WaitsReached DEF AllReached, UnderWay

LEMMA OffersStayListed ==
  ASSUME TypeInv, OfferedIsListed, [Next]_vars
  PROVE  OfferedIsListed'
<1> SUFFICES ASSUME NEW q \in Passes, NEW c \in pass'[q].todo
             PROVE  \E i \in DOMAIN pass'[q].book.pages :
                      \E e \in pass'[q].book.pages[i] : Names(e, c)
  BY DEF OfferedIsListed, Names
<1>1. CASE pass'[q] = pass[q] \/ Ruling(q) \/ Rests(q)
  <2>1. c \in pass[q].todo /\ pass'[q].book = pass[q].book
    BY <1>1, RestsAre DEF Ruling
  <2> QED
    BY <2>1 DEF OfferedIsListed
<1>2. CASE Waking(q)
  <2>1. \E e \in pass[q].todo : c.run = e.run /\ c.pos = e.pos
    BY <1>2, OffersLeft
  <2>2. PICK e \in pass[q].todo : c.run = e.run /\ c.pos = e.pos
    BY <2>1
  <2>3. pass'[q].book = pass[q].book
    BY <1>2, AfterWaking
  <2> QED
    BY <2>2, <2>3 DEF OfferedIsListed, Names
<1>3. ASSUME NEW b \in Books, GoesAhead(q, b)
      PROVE  \E i \in DOMAIN pass'[q].book.pages :
               \E e \in pass'[q].book.pages[i] : Names(e, c)
  <2>1. NextStep(b) = "wake" /\ \E e \in b.pages[b.woken + 1] : c = Candidate(e, "claim")
    BY <1>3 DEF GoesAhead
  <2>2. pass'[q].book = b /\ b.woken + 1 \in DOMAIN b.pages
    BY <1>3, <2>1, NextSteps DEF GoesAhead
  <2> QED
    BY <2>1, <2>2, CandidateFields DEF Names
<1> QED
  BY <1>1, <1>2, <1>3, PassKinds

-----------------------------------------------------------------------------
(* An arrival wakes one Wait of a run                                      *)

(* A row becomes pending when its arrival comes, or comes again.           *)
LEMMA BecomesPending ==
  ASSUME TypeInv, [Next]_vars, NEW d \in Deliveries, inbox'[d] = "pending"
  PROVE  inbox[d] = "pending" \/ Receive(d) \/ (Resend(d) /\ count'.resends # 0)
<1> USE DEF rows
<1>0. inbox \in [Deliveries -> Rows] /\ count \in Counts
  BY DEF TypeInv, FlowInv, FlowTypes, RunTypes
<1>1. ASSUME NEW e \in Deliveries, Receive(e)
      PROVE  inbox[d] = "pending" \/ Receive(d)
  BY <1>0, <1>1 DEF Receive
<1>2. ASSUME NEW e \in Deliveries, Resend(e)
      PROVE  inbox[d] = "pending" \/ (Resend(d) /\ count'.resends # 0)
  <2>1. count' = [count EXCEPT !.resends = count.resends + 1]
    BY <1>2 DEF Resend
  <2>2. count'.resends # 0
    BY <1>0, <2>1 DEF Counts
  <2> QED
    BY <1>0, <1>2, <2>2 DEF Resend
<1>3. ASSUME NEW e \in Deliveries,
             PollInbox(e) \/ LeaseExpires(e) \/ SweepRefusal(e) \/ \E p \in Passes : Claim(p, e)
      PROVE  inbox' = inbox
  BY <1>3, Zenon DEF PollInbox, LeaseExpires, SweepRefusal, Claim
<1>4. ASSUME NEW e \in Deliveries, SweepInbox(e) PROVE inbox[d] = "pending"
  BY <1>0, <1>4 DEF SweepInbox
<1>5. ASSUME NEW p \in Passes, PassStep(p) \/ StepThrows(p) \/ Crash(p)
      PROVE  inbox[d] = "pending"
  <2>1. ASSUME NEW status \in {"delivered", "failed"}, Settle(p, status), pass[p].at # "idle"
        PROVE  inbox[d] = "pending"
    BY <1>0, <2>1, SettlingMoves
  <2>2. CASE Open(p)
    <3>1. pass[p].at # "idle"
      BY <2>2 DEF Open
    <3>2. inbox' = inbox \/ \E s \in {"delivered", "failed"} : Settle(p, s)
      <4>1. inbox[pass[p].d] \in {"pending", "delivered", "failed", "swept"}
        BY <3>1 DEF TypeInv, FlowInv, FlowTypes, PassesNamed, Arrived, Rows
      <4> QED
        BY <2>2, <4>1 DEF Open
    <3> QED
      BY <2>1, <3>1, <3>2
  <2>3. CASE FinishDelivery(p)
    BY <2>1, <2>3 DEF FinishDelivery
  <2>4. CASE StepThrows(p)
    <3>1. pass[p].at # "idle"
      BY <2>4 DEF StepThrows, StepPoints
    <3>2. inbox' = inbox \/ Settle(p, "failed")
      BY <2>4 DEF StepThrows
    <3> QED
      BY <2>1, <3>1, <3>2
  <2>5. ASSUME ~(Open(p) \/ FinishDelivery(p) \/ StepThrows(p)) PROVE inbox' = inbox
    BY <1>5, <2>5, Zenon DEF PassStep, ListSubscribers, ReadLifecycle, RecordRefusal,
       BeginStart, CommitStart, DeclineStart, RequestCancel, SaveOutcome, ListPage,
       SavePage, WakeWait, RereadWait, Crash
  <2> QED
    BY <2>2, <2>3, <2>4, <2>5
<1>6. ASSUME NEW r \in Runs, RunStep(r) PROVE inbox' = inbox
  BY <1>6, Zenon DEF RunStep, RunParks, RunWakes, RunEnds, Migrate, SweepRun
<1>7. CASE Publish \/ UNCHANGED vars
  BY <1>7 DEF Publish, vars
<1> QED
  BY <1>1, <1>2, <1>3, <1>4, <1>5, <1>6, <1>7 DEF Next

(* The lease a pass saves under is that of a pending row, whose memo it    *)
(* knows.                                                                  *)
LEMMA SavesWhatItKnows ==
  ASSUME TypeInv, NEW p \in Passes, NEW b \in Books, Saving(p, b)
  PROVE  /\ pass[p].d \in Deliveries /\ inbox[pass[p].d] = "pending"
         /\ memo'[pass[p].d] = b /\ inbox' = inbox
         /\ memo[pass[p].d].pages = pass[p].book.pages
         /\ Listed(memo[pass[p].d]) <=> Listed(pass[p].book)
         /\ memo[pass[p].d].life = pass[p].book.life
<1>1. UnderWay(p) /\ Holds(p)
  BY DEF Saving
<1>2. pass[p].d \in Deliveries /\ pass[p].book \in Books /\ memo[pass[p].d] \in Books
  BY <1>1, Bookkeeping DEF UnderWay
<1>3. SameBook(pass[p].book, memo[pass[p].d]) /\ inbox[pass[p].d] = "pending"
  BY <1>1, <1>2, PassesAreNoMarks DEF TypeInv, FlowInv, Fenced, Scheduled, UnderWay, Holds
<1>4. memo'[pass[p].d] = b /\ inbox' = inbox
  BY <1>2, Bookkeeping DEF Saving, GoesOnWith
<1> QED
  BY <1>2, <1>3, <1>4, SameBooks

(* Once every page is listed, a step saves wakes and no page.              *)
LEMMA ListedStays ==
  ASSUME TypeInv, OnStep, NEW p \in Passes, NEW b \in Books, Saving(p, b),
         Listed(pass[p].book)
  PROVE  b.pages = pass[p].book.pages /\ Listed(b)
<1>1. PICK old \in Books : old = pass[p].book
  BY Bookkeeping
<1>2. NextStep(old) = StepOf(pass[p].at) /\ Listed(old)
  BY <1>1 DEF OnStep, Saving
<1>3. pass[p].at \notin {"subscribers", "outcome", "list"}
  BY <1>2, NextStepMeans DEF StepOf, Listed
<1>4. /\ b.listed = old.listed /\ b.roles = old.roles /\ b.life = old.life
      /\ b.pages = old.pages /\ b.more = old.more
  BY <1>1, <1>3 DEF Saving, Grows
<1> QED
  BY <1>1, <1>2, <1>4 DEF Listed, NeedsRules

LEMMA MemoStaysListed ==
  ASSUME TypeInv, OnStep, [Next]_vars, NEW d \in Deliveries,
         inbox'[d] = "pending", Listed(memo[d])
  PROVE  memo'[d].pages = memo[d].pages /\ Listed(memo'[d])
<1>1. memo[d] \in Books /\ memo'[d] \in Books
  BY Continues, Bookkeeping DEF TypeInv, FlowInv, FlowTypes
<1>2. CASE SameBook(memo'[d], memo[d])
  BY <1>1, <1>2, SameBooks
<1>3. ASSUME NEW p \in Passes, NEW b \in Books, Saving(p, b), d = pass[p].d
      PROVE  memo'[d].pages = memo[d].pages /\ Listed(memo'[d])
  BY <1>3, SavesWhatItKnows, ListedStays
<1> QED
  BY <1>2, <1>3, MemoMoves

(* A pass comes to a wake with the pages its memo holds.                   *)
LEMMA ComesToWake ==
  ASSUME TypeInv, [Next]_vars, NEW q \in Passes, pass'[q].at = "wake"
  PROVE  /\ pass'[q].d = pass[q].d /\ pass[q].d \in Deliveries
         /\ \/ pass[q].at = "wake" /\ pass'[q].book.pages = pass[q].book.pages
            \/ /\ inbox[pass[q].d] = "pending" /\ inbox' = inbox /\ woke' = woke
               /\ memo'[pass[q].d].pages = pass'[q].book.pages
               /\ Listed(memo'[pass[q].d])
<1>1. CASE pass'[q] = pass[q]
  BY <1>1, Bookkeeping
<1>2. CASE Rests(q)
  BY <1>2, RestsAre
<1>3. CASE Waking(q)
  BY <1>3, AfterWaking, Bookkeeping
<1>4. CASE Ruling(q)
  <2>1. StepOf(pass'[q].at) = "lifecycle"
    BY <1>4 DEF Ruling
  <2> QED
    BY <2>1 DEF StepOf
<1>5. ASSUME NEW b \in Books, GoesAhead(q, b)
      PROVE  /\ pass'[q].d = pass[q].d /\ pass[q].d \in Deliveries
             /\ inbox[pass[q].d] = "pending" /\ inbox' = inbox /\ woke' = woke
             /\ memo'[pass[q].d].pages = pass'[q].book.pages
             /\ Listed(memo'[pass[q].d])
  <2>1. pass'[q].book = b /\ pass'[q].d = pass[q].d /\ Listed(b)
    BY <1>5, NextStepMeans DEF GoesAhead
  <2>2. CASE Opening(q) /\ b = memo[pass[q].d]
    <3>1. /\ inbox[pass[q].d] = "pending" /\ inbox' = inbox /\ woke' = woke /\ memo' = memo
          /\ pass[q].d \in Deliveries
      BY <2>2, Bookkeeping DEF Opening, GoesOnWith, history
    <3> QED
      BY <2>1, <2>2, <3>1
  <2>3. CASE Saving(q, b)
    BY <2>1, <2>3, SavesWhatItKnows DEF Saving, GoesOnWith, history
  <2> QED
    BY <1>5, <2>2, <2>3 DEF GoesAhead
<1> QED
  BY <1>1, <1>2, <1>3, <1>4, <1>5, PassKinds

(* The Wait a pass wakes is the last its run has come to, so none the      *)
(* arrival woke before is after it, and no page names one after it.        *)
LEMMA WakesTheLast ==
  ASSUME TypeInv, AllReached, OfferedIsListed, PassesAgree, WakesOneWaitOfARun,
         count.resends = 0, NEW p \in Passes, NEW c \in pass[p].todo, NEW d \in Deliveries,
         d = pass[p].d, WokenBy(p, c), woke'[d] = woke[d] \cup {<<c.run, c.pos>>}
  PROVE  /\ Topmost(d, pass[p].book.pages)
         /\ \A x \in woke'[d] : \A i \in DOMAIN pass[p].book.pages :
              \A e \in pass[p].book.pages[i] : e.run = x[1] => e.pos <= x[2]
         /\ \A x, y \in woke'[d] : x[1] = y[1] => x = y
<1> DEFINE P == pass[p].book.pages
           z == <<c.run, c.pos>>
<1>1. Topmost(d, P) /\ pass[p].at = "wake"
  BY DEF PassesAgree, WokenBy
<1>2. c.run \in Runs /\ c.pos \in Nat /\ c.pos = park[c.run].pos
  BY Bookkeeping DEF Offered, WokenBy, SameWait
<1>3. pass[p].book \in Books /\ P \in Seq(SUBSET Saved)
  BY Bookkeeping DEF Books
<1>4. ASSUME NEW i \in DOMAIN P, NEW e \in P[i], e.run = c.run PROVE e.pos <= c.pos
  <2>1. e \in Saved /\ Reached(e)
    BY <1>1, <1>3, <1>4 DEF AllReached, PagesReached, UnderWay
  <2>2. e.pos \in Nat
    BY <2>1 DEF Saved
  <2> QED
    BY <1>2, <1>4, <2>1, <2>2 DEF Reached
<1>5. ASSUME NEW y \in woke[d], y[1] = c.run PROVE y = z
  <2>1. y \in Waits /\ y[2] <= park[y[1]].pos
    BY DEF TypeInv, RunTypes, AllReached
  <2>2. y = <<y[1], y[2]>> /\ y[2] \in Nat
    BY <2>1 DEF Waits
  <2>3. PICK i \in DOMAIN P : \E e \in P[i] : Names(e, c)
    BY DEF OfferedIsListed
  <2>4. PICK e \in P[i] : Names(e, c)
    BY <2>3
  <2>5. c.pos <= y[2]
    BY <1>1, <1>5, <2>4 DEF Topmost, Names
  <2> QED
    BY <1>2, <1>5, <2>1, <2>2, <2>5
<1>6. ASSUME NEW x \in woke'[d], NEW i \in DOMAIN P, NEW e \in P[i], e.run = x[1]
      PROVE  e.pos <= x[2]
  <2>1. CASE x \in woke[d]
    BY <1>1, <1>6, <2>1 DEF Topmost
  <2>2. CASE x = z
    BY <1>4, <1>6, <2>2
  <2> QED
    BY <2>1, <2>2
<1>7. \A x, y \in woke[d] : x[1] = y[1] => x = y
  BY DEF WakesOneWaitOfARun
<1>8. ASSUME NEW x \in woke'[d], NEW y \in woke'[d], x[1] = y[1] PROVE x = y
  <2>1. CASE x = z
    BY <1>5, <1>8, <2>1
  <2>2. CASE y = z
    BY <1>5, <1>8, <2>2
  <2> QED
    BY <1>7, <1>8, <2>1, <2>2
<1> QED
  BY <1>1, <1>6, <1>8

LEMMA OneWaitStays ==
  ASSUME TypeInv, OnStep, AllReached, OfferedIsListed, OneWaitInv, [Next]_vars
  PROVE  OneWaitInv'
<1> SUFFICES ASSUME count'.resends = 0
             PROVE  WakesKept' /\ PassesAgree' /\ WakesOneWaitOfARun'
  BY DEF OneWaitInv, WakesKept, PassesAgree, WakesOneWaitOfARun
<1>1. count.resends = 0
  <2>1. count \in Counts
    BY DEF TypeInv, RunTypes
  <2> QED
    BY <2>1, MigrationsCount DEF Counts
<1>2. ASSUME NEW d \in Deliveries, Arrived(d), inbox'[d] = "pending"
      PROVE  inbox[d] = "pending"
  BY <1>2, BecomesPending DEF Receive, Arrived
<1>3. ASSUME NEW p \in Passes, NEW c \in pass[p].todo, NEW d \in Deliveries, d = pass[p].d,
             WokenBy(p, c), woke'[d] = woke[d] \cup {<<c.run, c.pos>>}
      PROVE  /\ \A x \in woke'[d] : \A i \in DOMAIN pass[p].book.pages :
                  \A e \in pass[p].book.pages[i] : e.run = x[1] => e.pos <= x[2]
             /\ \A x, y \in woke'[d] : x[1] = y[1] => x = y
  BY <1>1, <1>3, WakesTheLast DEF OneWaitInv
<1>4. WakesOneWaitOfARun'
  <2> SUFFICES ASSUME NEW d \in Deliveries PROVE \A x, y \in woke'[d] : x[1] = y[1] => x = y
    BY DEF WakesOneWaitOfARun
  <2>1. CASE woke'[d] = woke[d]
    BY <1>1, <2>1 DEF OneWaitInv, WakesOneWaitOfARun
  <2>2. CASE \E p \in Passes : \E c \in pass[p].todo :
               /\ d = pass[p].d /\ WokenBy(p, c)
               /\ woke'[d] = woke[d] \cup {<<c.run, c.pos>>}
    BY <1>3, <2>2
  <2> QED
    BY <2>1, <2>2, WokeGrows
(* Where the pages were the last ones before the step, they still are.     *)
<1>5. ASSUME NEW d \in Deliveries, NEW P, Topmost(d, P),
             \A p \in Passes : pass[p].at = "wake" /\ pass[p].d = d => pass[p].book.pages = P
      PROVE  Topmost(d, P)'
  <2>1. CASE woke'[d] = woke[d]
    BY <1>5, <2>1 DEF Topmost
  <2>2. ASSUME NEW p \in Passes, NEW c \in pass[p].todo, d = pass[p].d, WokenBy(p, c),
               woke'[d] = woke[d] \cup {<<c.run, c.pos>>}
        PROVE  Topmost(d, P)'
    <3>1. pass[p].book.pages = P
      BY <1>5, <2>2 DEF WokenBy
    <3> QED
      BY <1>3, <2>2, <3>1 DEF Topmost
  <2> QED
    BY <2>1, <2>2, WokeGrows
<1>6. ASSUME NEW d \in Deliveries
      PROVE  /\ inbox'[d] = "pending" /\ Listed(memo'[d]) =>
                  \A x \in woke'[d] : \A i \in DOMAIN memo'[d].pages :
                    \A e \in memo'[d].pages[i] : e.run = x[1] => e.pos <= x[2]
             /\ woke'[d] # {} =>
                  inbox'[d] # "absent" /\ (inbox'[d] = "pending" => Listed(memo'[d]))
  <2>1. \/ woke'[d] = woke[d]
        \/ Arrived(d) /\ (inbox[d] = "pending" => Listed(memo[d]))
    BY <1>1, WokeGrows DEF WokenBy, OneWaitInv, PassesAgree, TypeInv, FlowInv, PassesNamed
  <2>2. /\ woke[d] # {} => Arrived(d) /\ (inbox[d] = "pending" => Listed(memo[d]))
        /\ inbox[d] = "pending" /\ Listed(memo[d]) => Topmost(d, memo[d].pages)
    BY <1>1 DEF OneWaitInv, WakesKept
  <2>3. ASSUME woke'[d] # {}
        PROVE  inbox'[d] # "absent" /\ (inbox'[d] = "pending" => Listed(memo'[d]))
    <3>1. Arrived(d) /\ (inbox[d] = "pending" => Listed(memo[d]))
      BY <2>1, <2>2, <2>3
    <3>2. inbox'[d] # "absent"
      BY <3>1, RowsGoOn DEF Arrived
    <3> QED
      BY <1>2, <3>1, <3>2, MemoStaysListed
  <2>4. ASSUME inbox'[d] = "pending", woke'[d] # {}
        PROVE  \A x \in woke'[d] : \A i \in DOMAIN memo'[d].pages :
                    \A e \in memo'[d].pages[i] : e.run = x[1] => e.pos <= x[2]
    <3>1. Arrived(d) /\ (inbox[d] = "pending" => Listed(memo[d]))
      BY <2>1, <2>2, <2>4
    <3>2. inbox[d] = "pending" /\ Listed(memo[d])
      BY <1>2, <2>4, <3>1
    <3>3. Topmost(d, memo[d].pages)
      BY <2>2, <3>2
    <3>4. PICK P : P = memo[d].pages
      OBVIOUS
    <3>5. \A p \in Passes : pass[p].at = "wake" /\ pass[p].d = d => pass[p].book.pages = P
      BY <1>1, <3>2, <3>4 DEF OneWaitInv, PassesAgree
    <3>6. Topmost(d, P)'
      BY <1>5, <3>3, <3>4, <3>5
    <3>7. memo'[d].pages = P
      BY <2>4, <3>2, <3>4, MemoStaysListed
    <3> QED
      BY <3>6, <3>7 DEF Topmost
  <2> QED
    BY <2>3, <2>4
<1>7. WakesKept'
  BY <1>6 DEF WakesKept, Topmost, Arrived
<1>8. ASSUME NEW q \in Passes, pass'[q].at = "wake", inbox'[pass'[q].d] = "pending"
      PROVE  Listed(memo'[pass'[q].d]) /\ memo'[pass'[q].d].pages = pass'[q].book.pages
  <2>1. PICK d \in Deliveries : d = pass[q].d /\ d = pass'[q].d
    BY <1>8, ComesToWake
  <2>2. CASE pass[q].at = "wake" /\ pass'[q].book.pages = pass[q].book.pages
    <3>1. inbox[d] = "pending"
      BY <1>2, <1>8, <2>1, <2>2 DEF TypeInv, FlowInv, PassesNamed
    <3>2. Listed(memo[d]) /\ memo[d].pages = pass[q].book.pages
      BY <1>1, <2>1, <2>2, <3>1 DEF OneWaitInv, PassesAgree
    <3> QED
      BY <1>8, <2>1, <2>2, <3>1, <3>2, MemoStaysListed
  <2>3. CASE Listed(memo'[d]) /\ memo'[d].pages = pass'[q].book.pages
    BY <2>1, <2>3
  <2> QED
    BY <1>8, <2>1, <2>2, <2>3, ComesToWake
<1>9. ASSUME NEW q \in Passes, pass'[q].at = "wake"
      PROVE  \A x \in woke'[pass'[q].d] : \A i \in DOMAIN pass'[q].book.pages :
               \A e \in pass'[q].book.pages[i] : e.run = x[1] => e.pos <= x[2]
  <2>1. PICK d \in Deliveries : d = pass[q].d /\ d = pass'[q].d
    BY <1>9, ComesToWake
  <2>2. CASE pass[q].at = "wake" /\ pass'[q].book.pages = pass[q].book.pages
    <3>1. PICK P : P = pass[q].book.pages
      OBVIOUS
    <3>2. /\ Topmost(d, P)
          /\ \A p \in Passes : pass[p].at = "wake" /\ pass[p].d = d => pass[p].book.pages = P
      BY <1>1, <2>1, <2>2, <3>1 DEF OneWaitInv, PassesAgree
    <3>3. Topmost(d, P)'
      BY <1>5, <3>2
    <3> QED
      BY <2>1, <2>2, <3>1, <3>3 DEF Topmost
  <2>3. CASE /\ inbox[d] = "pending" /\ inbox' = inbox
             /\ memo'[d].pages = pass'[q].book.pages /\ Listed(memo'[d])
    BY <1>6, <2>1, <2>3
  <2> QED
    BY <1>9, <2>1, <2>2, <2>3, ComesToWake
<1>10. ASSUME NEW q \in Passes, NEW p \in Passes, pass'[q].at = "wake", pass'[p].at = "wake",
              pass'[q].d = pass'[p].d
       PROVE  pass'[q].book.pages = pass'[p].book.pages
  <2>1. CASE inbox'[pass'[p].d] = "pending"
    BY <1>8, <1>10, <2>1
  <2>2. CASE inbox'[pass'[p].d] # "pending"
    <3>1. pass[q].at = "wake" /\ pass'[q].book.pages = pass[q].book.pages
      BY <1>10, <2>2, ComesToWake
    <3>2. pass[p].at = "wake" /\ pass'[p].book.pages = pass[p].book.pages
      BY <1>10, <2>2, ComesToWake
    <3>3. pass[q].d = pass[p].d
      BY <1>10, ComesToWake
    <3> QED
      BY <1>1, <3>1, <3>2, <3>3 DEF OneWaitInv, PassesAgree
  <2> QED
    BY <2>1, <2>2
<1>11. PassesAgree'
  BY <1>8, <1>9, <1>10 DEF PassesAgree, Topmost
<1> QED
  BY <1>4, <1>7, <1>11

-----------------------------------------------------------------------------
(* An arrival does not wake the run it started                             *)

LEMMA StartsStay ==
  ASSUME [Next]_vars, NEW d
  PROVE  AlwaysStarts(d)' <=> AlwaysStarts(d)
BY SettingStays DEF AlwaysStarts

LEMMA RefusalStays ==
  ASSUME TypeInv, [Next]_vars, NEW d \in Deliveries, refusal[d], Kept(d)
  PROVE  refusal'[d]
<1> USE DEF decisions
<1>0. refusal \in [Deliveries -> BOOLEAN]
  BY DEF TypeInv, RunTypes
<1>1. ASSUME NEW e \in Deliveries,
             \/ Receive(e) \/ PollInbox(e) \/ Resend(e) \/ LeaseExpires(e) \/ SweepInbox(e)
             \/ \E p \in Passes : Claim(p, e)
      PROVE  refusal' = refusal
  BY <1>1, Zenon DEF Receive, PollInbox, Resend, LeaseExpires, SweepInbox, Claim
<1>2. ASSUME NEW e \in Deliveries, SweepRefusal(e) PROVE refusal'[d]
  BY <1>0, <1>2 DEF SweepRefusal, Kept
<1>3. ASSUME NEW p \in Passes, RecordRefusal(p) PROVE refusal'[d]
  BY <1>0, <1>3 DEF RecordRefusal
<1>4. ASSUME NEW p \in Passes, PassStep(p) \/ StepThrows(p) \/ Crash(p), ~RecordRefusal(p)
      PROVE  refusal' = refusal
  BY <1>4, Zenon DEF PassStep, Open, ListSubscribers, ReadLifecycle,
       BeginStart, CommitStart, DeclineStart, RequestCancel, SaveOutcome, ListPage,
       SavePage, FinishDelivery, WakeWait, RereadWait, StepThrows, Crash
<1>5. ASSUME NEW r \in Runs, RunStep(r) PROVE refusal' = refusal
  BY <1>5, Zenon DEF RunStep, RunParks, RunWakes, RunEnds, Migrate, SweepRun
<1>6. CASE Publish \/ UNCHANGED vars
  BY <1>6 DEF Publish, vars
<1> QED
  BY <1>1, <1>2, <1>3, <1>4, <1>5, <1>6 DEF Next

(* A run keeps the arrival that opened it, and no other comes to have      *)
(* opened it.                                                              *)
LEMMA OpenersStay ==
  ASSUME TypeInv, RunsOfArrivals, ParksSound, [Next]_vars, NEW d \in Deliveries,
         NEW r \in Runs
  PROVE  /\ run[r].by = d => run'[r].by = d
         /\ run[r].status # "absent" /\ run[r].by # d => run'[r].by # d
<1>1. run[r].by = d => run[r].status # "absent"
  BY NoDeliveryIsNone DEF RunsOfArrivals
<1> QED
  BY <1>1, RunsGoOn

LEMMA AnswerStays ==
  ASSUME TypeInv, RunsOfArrivals, ParksSound, [Next]_vars, NEW d \in Deliveries,
         NEW life \in Lives, Kept(d), Answered(d, life)
  PROVE  Answered(d, life)'
<1>1. life.runs \in SUBSET Runs
  BY DEF Lives
<1>2. refusal[d] => refusal'[d]
  BY RefusalStays
<1>3. \A r \in life.runs : run[r].by = d => run'[r].by = d
  BY <1>1, OpenersStay
<1> QED
  BY <1>2, <1>3 DEF Answered

LEMMA BookAnswersStays ==
  ASSUME TypeInv, RunsOfArrivals, ParksSound, [Next]_vars, NEW d \in Deliveries,
         NEW b \in Books, Kept(d), PagesReached(b), BookAnswers(d, b)
  PROVE  BookAnswers(d, b)'
<1>1. b.life # NoLife => Answered(d, b.life)'
  <2>1. b.life \in Lives
    BY DEF Books
  <2>2. b.life # NoLife => Answered(d, b.life)
    BY DEF BookAnswers
  <2>3. PICK life \in Lives : life = b.life
    BY <2>1
  <2>4. life # NoLife => Answered(d, life)'
    BY <2>2, <2>3, AnswerStays
  <2> QED
    BY <2>3, <2>4
<1>2. ASSUME NEW i \in DOMAIN b.pages, NEW c \in b.pages[i] PROVE run'[c.run].by # d
  <2>1. c.run \in Runs /\ run[c.run].status # "absent" /\ run[c.run].by # d
    BY DEF BookAnswers, PagesReached, Reached, Books, Saved
  <2> QED
    BY <2>1, OpenersStay
<1>3. b.listed => "start" \in b.roles
  BY DEF BookAnswers
<1> QED
  BY <1>1, <1>2, <1>3 DEF BookAnswers

(* Two memos that differ in their failures answer alike.                   *)
LEMMA SameAnswers ==
  ASSUME NEW d, NEW b \in Books, NEW c \in Books, SameBook(b, c)
  PROVE  /\ BookAnswers(d, b) <=> BookAnswers(d, c)
         /\ (BookAnswers(d, b) <=> BookAnswers(d, c))'
BY SameBooks DEF BookAnswers

(* What a step saves answers for its arrival.                              *)
LEMMA SavedAnswers ==
  ASSUME DecisionInv, OnStep, StartsAnswer, NEW p \in Passes, NEW b \in Books,
         Saving(p, b), NEW d \in Deliveries, d = pass[p].d, AlwaysStarts(d)
  PROVE  BookAnswers(d, b)'
<1>0. TypeInv /\ RunsOfArrivals /\ OneRun /\ Refusals
  BY DEF DecisionInv, Ledger
<1>1. Kept(d)
  BY <1>0, SavesWhatItKnows DEF Kept
<1>2. PICK old \in Books : old = pass[p].book
  BY <1>0, Bookkeeping
<1>3. BookAnswers(d, old) /\ Grows(p, b) /\ NextStep(old) = StepOf(pass[p].at)
  BY <1>1, <1>2 DEF StartsAnswer, Saving, OnStep
<1>4. run' = run /\ refusal' = refusal
  BY DEF Saving, GoesOnWith, runs, decisions
<1>5. SUFFICES BookAnswers(d, b)
  BY <1>4 DEF BookAnswers, Answered
<1>6. CASE /\ pass[p].at = "subscribers" /\ b.roles = RolesOf(d)
           /\ b.life = old.life /\ b.pages = old.pages
  <2>1. "start" \in RolesOf(d)
    <3>1. Published(d) = "start"
      BY <1>0 DEF AlwaysStarts, Published, TypeInv, RunTypes
    <3> QED
      BY <3>1 DEF RolesOf, StartRoles
  <2> QED
    BY <1>3, <1>6, <2>1 DEF BookAnswers
<1>7. CASE /\ pass[p].at = "outcome" /\ b.life = pass[p].life
           /\ b.listed = old.listed /\ b.roles = old.roles /\ b.pages = old.pages
  <2>1. Answered(d, pass[p].life)
    BY <1>1, <1>7 DEF StartsAnswer, UnderWay
  <2> QED
    BY <1>3, <1>7, <2>1 DEF BookAnswers
<1>8. CASE /\ pass[p].at = "list" /\ b.pages = Append(old.pages, PageOf(Candidates(old)))
           /\ b.listed = old.listed /\ b.roles = old.roles /\ b.life = old.life
  <2>1. "start" \in old.roles /\ ~NeedsRules(old)
    BY <1>3, <1>8, NextStepMeans DEF StepOf, BookAnswers
  <2>2. Answered(d, old.life)
    BY <1>3, <2>1 DEF NeedsRules, BookAnswers
  <2>3. ASSUME NEW c \in Candidates(old) PROVE run[c.run].by # d
    <3>1. c.run \in Runs /\ c.run \notin old.life.runs
      BY <1>0, CandidatesReached DEF Settled, ParkedOnEvent
    <3>2. CASE old.life.kind = "refused" /\ refusal[d]
      BY <1>0, <1>1, <3>1, <3>2 DEF Refusals
    <3>3. CASE \E r \in old.life.runs : run[r].by = d
      <4>1. PICK r \in old.life.runs : run[r].by = d
        BY <3>3
      <4>2. r \in Runs
        BY DEF Books, Lives
      <4> QED
        BY <1>0, <1>1, <3>1, <4>1, <4>2, NoDeliveryIsNone DEF OneRun
    <3> QED
      BY <2>2, <3>2, <3>3 DEF Answered
  <2> DEFINE page == PageOf(Candidates(old))
  <2>4. page \in SUBSET Saved /\ page \in SUBSET Candidates(old) /\ old.pages \in Seq(SUBSET Saved)
    BY <1>0, Bookkeeping, CandidatesTyped DEF Books
  <2> HIDE DEF page
  <2>5. b.pages = Append(old.pages, page)
    BY <1>8 DEF page
  <2>6. ASSUME NEW i \in DOMAIN b.pages, NEW c \in b.pages[i] PROVE run[c.run].by # d
    <3>1. CASE i \in DOMAIN old.pages
      <4>1. c \in old.pages[i]
        BY <2>4, <2>5, <2>6, <3>1, PageAppended
      <4> QED
        BY <1>3, <3>1, <4>1 DEF BookAnswers
    <3>2. CASE i \notin DOMAIN old.pages
      <4>1. c \in page
        BY <2>4, <2>5, <2>6, <3>2, PageAppended
      <4> QED
        BY <2>3, <2>4, <4>1
    <3> QED
      BY <3>1, <3>2
  <2> QED
    BY <1>3, <1>8, <2>6 DEF BookAnswers
<1>9. CASE /\ b.listed = old.listed /\ b.roles = old.roles /\ b.life = old.life
           /\ b.pages = old.pages
  BY <1>3, <1>9 DEF BookAnswers
<1> QED
  BY <1>2, <1>3, <1>6, <1>7, <1>8, <1>9, Zenon DEF Grows

LEMMA ComesFields ==
  ASSUME TypeInv, NEW p \in Passes, NEW o, Comes(p, o)
  PROVE  pass'[p].at = "outcome" /\ pass'[p].life = o
<1>1. pass \in [Passes -> PassStates] /\ pass[p] \in PassStates
  BY Bookkeeping
<1>2. pass' = [pass EXCEPT ![p] = [pass[p] EXCEPT !.at = "outcome", !.life = o, !.view = NoView]]
  BY DEF Comes
<1> QED
  BY <1>1, <1>2 DEF PassStates

(* Answered, in the state a step leads to.                                 *)
AnsweredThen(d, life) ==
  \/ life.kind = "started" /\ \E r \in life.runs : run'[r].by = d
  \/ life.kind = "refused" /\ refusal'[d]

LEMMA RulingAnswers ==
  ASSUME DecisionInv, StartInv, NEW q \in Passes, Ruling(q), NEW d \in Deliveries,
         d = pass[q].d, AlwaysStarts(d)
  PROVE  /\ pass'[q].at \notin {"decline", "cancel"}
         /\ Kept(d) /\ pass'[q].at = "outcome" => AnsweredThen(d, pass'[q].life)
<1>0. /\ TypeInv /\ pass \in [Passes -> PassStates] /\ refusal \in [Deliveries -> BOOLEAN]
      /\ UnderWay(q)
  BY Bookkeeping DEF DecisionInv, TypeInv, RunTypes, Ruling
<1>1. /\ Published(d) = "start" /\ pass[q].at \notin {"decline", "cancel"}
      /\ \A v \in DOMAIN Publications : Publications[v].concurrency # "first-wins"
  BY <1>0 DEF AlwaysStarts, Published, TypeInv, RunTypes, StartInv, StartsAnswer
<1>2. ASSUME NEW o, Comes(q, o), Kept(d) => AnsweredThen(d, o)
      PROVE  /\ pass'[q].at \notin {"decline", "cancel"}
             /\ Kept(d) /\ pass'[q].at = "outcome" => AnsweredThen(d, pass'[q].life)
  <2>1. pass'[q].at = "outcome" /\ pass'[q].life = o
    BY <1>0, <1>2, ComesFields
  <2> QED
    BY <1>2, <2>1
<1>3. ASSUME NEW at \in {"admit", "refuse", "admitting"}, pass'[q].at = at
      PROVE  /\ pass'[q].at \notin {"decline", "cancel"}
             /\ Kept(d) /\ pass'[q].at = "outcome" => AnsweredThen(d, pass'[q].life)
  BY <1>3
<1>4. ASSUME OpenedBy(d) # {}, run' = run PROVE AnsweredThen(d, Outcome("started", OpenedBy(d)))
  BY <1>4 DEF AnsweredThen, Outcome, OpenedBy
<1>5. ASSUME refusal'[d] PROVE AnsweredThen(d, Outcome("refused", {}))
  BY <1>5 DEF AnsweredThen, Outcome
<1>6. CASE ReadLifecycle(q)
  <2>1. run' = run /\ refusal' = refusal
    BY <1>6 DEF ReadLifecycle, runs, decisions
  <2>2. \/ refusal[d] /\ Comes(q, Outcome("refused", {}))
        \/ OpenedBy(d) # {} /\ Comes(q, Outcome("started", OpenedBy(d)))
        \/ \E at \in {"admit", "refuse"} :
             pass' = [pass EXCEPT ![q].at = at,
                        ![q].concurrency = Publications[version].concurrency]
    BY <1>1, <1>6 DEF ReadLifecycle
  <2>3. CASE refusal[d] /\ Comes(q, Outcome("refused", {}))
    BY <1>2, <1>5, <2>1, <2>3
  <2>4. CASE OpenedBy(d) # {} /\ Comes(q, Outcome("started", OpenedBy(d)))
    BY <1>2, <1>4, <2>1, <2>4
  <2>5. ASSUME NEW at \in {"admit", "refuse"},
               pass' = [pass EXCEPT ![q].at = at,
                          ![q].concurrency = Publications[version].concurrency]
        PROVE  pass'[q].at = at
    BY <1>0, <2>5 DEF PassStates
  <2> QED
    BY <1>3, <2>2, <2>3, <2>4, <2>5
<1>7. CASE RecordRefusal(q)
  <2>1. CASE OpenedBy(d) # {}
    <3>1. pass' = [pass EXCEPT ![q].at = "admit"]
      BY <1>7, <2>1 DEF RecordRefusal
    <3>2. pass'[q].at = "admit"
      BY <1>0, <3>1 DEF PassStates
    <3> QED
      BY <1>3, <3>2
  <2>2. CASE OpenedBy(d) = {}
    <3>1. refusal'[d] /\ Comes(q, Outcome("refused", {}))
      BY <1>0, <1>7, <2>2 DEF RecordRefusal
    <3> QED
      BY <1>2, <1>5, <3>1
  <2> QED
    BY <2>1, <2>2
<1>8. CASE BeginStart(q)
  <2>1. pass' = [pass EXCEPT ![q].at = "admitting", ![q].view = View(q)]
    BY <1>8 DEF BeginStart
  <2>2. pass'[q].at = "admitting"
    BY <1>0, <2>1 DEF PassStates
  <2> QED
    BY <1>3, <2>2
<1>9. CASE CommitStart(q)
  <2> DEFINE seen == pass[q].view
  <2>1. /\ pass[q].at = "admitting" /\ refusal' = refusal
        /\ pass[q].concurrency # "first-wins"
    BY <1>1, <1>9 DEF CommitStart, decisions, DecisionInv, PassRoles
  <2>2. /\ \A r \in seen.own : run[r].by = d
        /\ seen.refused /\ Kept(d) => refusal[d]
    BY <2>1 DEF StartInv, ViewsHold
  <2>3. CASE seen.refused /\ Comes(q, Outcome("refused", {}))
    BY <1>2, <1>5, <2>1, <2>2, <2>3
  <2>4. CASE seen.own # {} /\ Comes(q, Outcome("started", seen.own)) /\ run' = run
    <3>1. AnsweredThen(d, Outcome("started", seen.own))
      BY <2>2, <2>4 DEF AnsweredThen, Outcome
    <3> QED
      BY <1>2, <2>4, <3>1
  <2>5. CASE pass' = [pass EXCEPT ![q].at = "admit", ![q].view = NoView]
    <3>1. pass'[q].at = "admit"
      BY <1>0, <2>5 DEF PassStates
    <3> QED
      BY <1>3, <3>1
  <2>6. CASE OpenedBy(d) # {} /\ Comes(q, Outcome("started", OpenedBy(d))) /\ run' = run
    BY <1>2, <1>4, <2>6
  <2>7. CASE OpenRun(q, seen.inFlight \cap InFlight)
    <3>1. PICK n \in Runs \ Standing :
            /\ run' = [s \in Runs |->
                 IF s = n THEN [status |-> "live", by |-> pass[q].d, claim |-> NoDelivery]
                 ELSE IF s \in seen.inFlight \cap InFlight
                 THEN [run[s] EXCEPT !.status = "over"] ELSE run[s]]
            /\ Comes(q, Outcome("started", {n} \cup (seen.inFlight \cap InFlight)))
      BY <2>7, Zenon DEF OpenRun
    <3>2. run'[n].by = d
      BY <3>1
    <3>3. AnsweredThen(d, Outcome("started", {n} \cup (seen.inFlight \cap InFlight)))
      BY <3>2 DEF AnsweredThen, Outcome
    <3> QED
      BY <1>2, <3>1, <3>3
  <2>8. \/ seen.refused /\ Comes(q, Outcome("refused", {}))
        \/ seen.own # {} /\ Comes(q, Outcome("started", seen.own)) /\ run' = run
        \/ pass' = [pass EXCEPT ![q].at = "admit", ![q].view = NoView]
        \/ OpenedBy(d) # {} /\ Comes(q, Outcome("started", OpenedBy(d))) /\ run' = run
        \/ OpenRun(q, seen.inFlight \cap InFlight)
    BY <1>9, <2>1, Zenon DEF CommitStart, runs
  <2> QED
    BY <2>3, <2>4, <2>5, <2>6, <2>7, <2>8
<1>10. CASE DeclineStart(q) \/ RequestCancel(q)
  BY <1>1, <1>10 DEF DeclineStart, RequestCancel
<1> QED
  BY <1>6, <1>7, <1>8, <1>9, <1>10 DEF Ruling

LEMMA ViewsStay ==
  ASSUME TypeInv, RunsOfArrivals, ParksSound, ViewsHold, [Next]_vars
  PROVE  ViewsHold'
<1> SUFFICES ASSUME NEW q \in Passes, pass'[q].at = "admitting"
             PROVE  /\ \A r \in pass'[q].view.own : run'[r].by = pass'[q].d
                    /\ pass'[q].view.refused /\ Kept(pass[q].d)' => refusal'[pass'[q].d]
  BY DEF ViewsHold
<1>0. pass \in [Passes -> PassStates] /\ pass[q] \in PassStates
  BY Bookkeeping
<1>1. CASE pass'[q] = pass[q]
  <2>1. pass[q].d \in Deliveries /\ pass[q].view \in Views
    BY <1>0, <1>1, Bookkeeping DEF PassStates
  <2>2. PICK d \in Deliveries : d = pass[q].d
    BY <2>1
  <2>3. /\ \A r \in pass[q].view.own : run[r].by = d /\ r \in Runs
        /\ pass[q].view.refused /\ Kept(d) => refusal[d]
    BY <1>1, <2>1, <2>2 DEF ViewsHold, Views
  <2>4. pass[q].view.refused /\ Kept(d)' => refusal'[d]
    BY <2>3, RefusalStays, RowsGoOn
  <2> QED
    BY <1>1, <2>2, <2>3, <2>4, OpenersStay DEF Kept
<1>2. CASE Rests(q) \/ Waking(q) \/ \E b \in Books : GoesAhead(q, b)
  BY <1>2, RestsAre, AfterWaking DEF GoesAhead
<1>3. CASE Ruling(q)
  <2>1. ASSUME NEW o PROVE ~Comes(q, o)
    BY ComesFields
  <2>2. ASSUME NEW at, at # "admitting", NEW c, NEW v
        PROVE  pass' # [pass EXCEPT ![q] = [pass[q] EXCEPT !.at = at, !.concurrency = c, !.view = v]]
    BY <1>0, <2>2 DEF PassStates
  <2>3. BeginStart(q)
    <3>1. ~ReadLifecycle(q)
      <4>1. ASSUME NEW at \in {"cancel", "decline", "admit", "refuse"},
                   pass' = [pass EXCEPT ![q].at = at,
                              ![q].concurrency = Publications[version].concurrency]
            PROVE  FALSE
        <5>1. pass'[q].at = at
          BY <1>0, <4>1 DEF PassStates
        <5> QED
          BY <5>1
      <4> QED
        BY <2>1, <4>1 DEF ReadLifecycle
    <3>2. ~RecordRefusal(q)
      <4>1. pass' # [pass EXCEPT ![q].at = "admit"]
        BY <1>0 DEF PassStates
      <4> QED
        BY <2>1, <4>1 DEF RecordRefusal
    <3>3. ~CommitStart(q)
      <4>1. ASSUME NEW at \in {"decline", "admit"},
                   pass' = [pass EXCEPT ![q].at = at, ![q].view = NoView]
            PROVE  FALSE
        <5>1. pass'[q].at = at
          BY <1>0, <4>1 DEF PassStates
        <5> QED
          BY <5>1
      <4>2. \A D : ~OpenRun(q, D)
        BY <2>1 DEF OpenRun
      <4> QED
        BY <2>1, <4>1, <4>2, Zenon DEF CommitStart
    <3>4. ~DeclineStart(q) /\ ~RequestCancel(q)
      <4>1. pass' # [pass EXCEPT ![q] = Idle]
        BY <1>0, NothingIsTyped
      <4> QED
        BY <2>1, <4>1 DEF DeclineStart, RequestCancel
    <3> QED
      BY <1>3, <3>1, <3>2, <3>3, <3>4 DEF Ruling
  <2>4. /\ pass' = [pass EXCEPT ![q] = [pass[q] EXCEPT !.at = "admitting", !.view = View(q)]]
        /\ run' = run /\ refusal' = refusal
    BY <2>3 DEF BeginStart, runs, decisions
  <2>5. pass'[q].view = View(q) /\ pass'[q].d = pass[q].d
    <3>1. PICK v : v = View(q)
      OBVIOUS
    <3>2. pass' = [pass EXCEPT ![q] = [pass[q] EXCEPT !.at = "admitting", !.view = v]]
      BY <2>4, <3>1
    <3>3. pass'[q].view = v /\ pass'[q].d = pass[q].d
      BY <1>0, <3>2 DEF PassStates
    <3> QED
      BY <3>1, <3>3
  <2>6. View(q).own = OpenedBy(pass[q].d)
    BY DEF View
  <2>7. View(q).refused = (Guarded /\ refusal[pass[q].d])
    BY Zenon DEF View
  <2>8. \A r \in OpenedBy(pass[q].d) : run[r].by = pass[q].d
    BY DEF OpenedBy
  <2>9. \A r \in pass'[q].view.own : run'[r].by = pass'[q].d
    BY <2>4, <2>5, <2>6, <2>8
  <2>10. pass'[q].view.refused => refusal[pass[q].d]
    BY <2>5, <2>7, Zenon
  <2> QED
    BY <2>4, <2>5, <2>9, <2>10
<1> QED
  BY <1>1, <1>2, <1>3, PassKinds

LEMMA MemosAnswer ==
  ASSUME DecisionInv, ParksSound, OnStep, AllReached, StartInv, [Next]_vars,
         NEW d \in Deliveries, AlwaysStarts(d), Kept(d)'
  PROVE  BookAnswers(d, memo[d])'
<1>0. /\ TypeInv /\ RunsOfArrivals /\ Kept(d) /\ StartsAnswer
      /\ NoMemo.pages = <<>> /\ NoMemo.life = NoLife /\ ~NoMemo.listed
  BY RowsGoOn, NothingIsTyped DEF DecisionInv, Ledger, StartInv
<1>1. PICK b \in Books : b = memo[d]
  BY <1>0, Bookkeeping
<1>2. PICK e \in Books : e = memo'[d]
  BY <1>0, Continues DEF TypeInv, FlowInv, FlowTypes
<1>3. PagesReached(b) /\ BookAnswers(d, b)
  BY <1>0, <1>1 DEF AllReached, StartsAnswer
<1>4. BookAnswers(d, b)'
  BY <1>0, <1>3, BookAnswersStays
<1>5. CASE SameBook(memo'[d], memo[d])
  <2>1. SameBook(e, b)
    BY <1>1, <1>2, <1>5 DEF SameBook
  <2>2. BookAnswers(d, e)'
    BY <1>4, <2>1, SameAnswers
  <2> QED
    BY <1>2, <2>2 DEF BookAnswers, Answered
<1>6. CASE memo'[d] = NoMemo
  BY <1>0, <1>6 DEF BookAnswers
<1>7. ASSUME NEW p \in Passes, NEW c \in Books, Saving(p, c), d = pass[p].d, memo'[d] = c
      PROVE  BookAnswers(d, memo[d])'
  <2>1. BookAnswers(d, c)'
    BY <1>0, <1>7, SavedAnswers
  <2> QED
    BY <1>7, <2>1 DEF BookAnswers, Answered
<1> QED
  BY <1>0, <1>5, <1>6, <1>7, MemoMoves

LEMMA StartsGoOn ==
  ASSUME DecisionInv, ParksSound, OnStep, AllReached, StartInv, [Next]_vars
  PROVE  StartInv'
<1>0. TypeInv /\ RunsOfArrivals /\ StartsAnswer
  BY DEF DecisionInv, Ledger, StartInv
<1>1. ViewsHold'
  BY <1>0, ViewsStay DEF StartInv
<1>2. ASSUME NEW d \in Deliveries, AlwaysStarts(d),
             NEW q \in Passes, pass'[q].d = d, pass'[q].at \notin {"idle", "open"}
      PROVE  /\ pass'[q].at \notin {"decline", "cancel"}
             /\ Kept(d)' => BookAnswers(d, pass[q].book)'
             /\ Kept(d)' /\ pass'[q].at = "outcome" => AnsweredThen(d, pass'[q].life)
             /\ \A c \in pass'[q].todo : run'[c.run].by # d
  <2>1. Kept(d)' => Kept(d)
    BY <1>0, RowsGoOn
  <2>2. ASSUME UnderWay(q), pass[q].d = d, pass'[q].book = pass[q].book, Kept(d)'
        PROVE  BookAnswers(d, pass[q].book)'
    <3>1. PICK b \in Books : b = pass[q].book
      BY <1>0, Bookkeeping
    <3>2. PagesReached(b) /\ BookAnswers(d, b)
      BY <1>0, <1>2, <2>1, <2>2, <3>1 DEF AllReached, StartsAnswer
    <3>3. BookAnswers(d, b)'
      BY <1>0, <2>1, <2>2, <3>2, BookAnswersStays
    <3> QED
      BY <2>2, <3>1, <3>3 DEF BookAnswers, Answered
  <2>3. ASSUME NEW c, NEW e \in pass[q].todo, UnderWay(q), pass[q].d = d, c.run = e.run
        PROVE  run'[c.run].by # d
    <3>1. e \in Offered /\ Reached(e) /\ run[e.run].by # d
      BY <1>0, <1>2, <2>3, Bookkeeping DEF AllReached, StartsAnswer
    <3> QED
      BY <1>0, <2>3, <3>1, OpenersStay DEF Offered, Reached
  <2>4. CASE pass'[q] = pass[q]
    <3>1. UnderWay(q) /\ pass[q].d = d
      BY <1>2, <2>4 DEF UnderWay
    <3>2. pass[q].at \notin {"decline", "cancel"}
      BY <1>0, <1>2, <3>1 DEF StartsAnswer
    <3>3. Kept(d)' /\ pass[q].at = "outcome" => AnsweredThen(d, pass[q].life)
      <4>1. PICK life \in Lives : life = pass[q].life
        BY <1>0, Bookkeeping DEF PassStates
      <4>2. ASSUME Kept(d)', pass[q].at = "outcome" PROVE Answered(d, life)'
        BY <1>0, <1>2, <2>1, <3>1, <4>1, <4>2, AnswerStays DEF StartsAnswer
      <4> QED
        BY <4>1, <4>2 DEF Answered, AnsweredThen
    <3> QED
      BY <2>2, <2>3, <2>4, <3>1, <3>2, <3>3
  <2>5. CASE Rests(q)
    BY <1>2, <2>5, RestsAre
  <2>6. CASE Waking(q)
    <3>1. /\ pass[q].at = "wake" /\ pass'[q].at = "wake" /\ UnderWay(q)
          /\ pass[q].d = d /\ pass'[q].book = pass[q].book
      BY <1>0, <1>2, <2>6, AfterWaking DEF UnderWay
    <3>2. ASSUME NEW c \in pass'[q].todo PROVE run'[c.run].by # d
      <4>1. \E e \in pass[q].todo : c.run = e.run
        BY <1>0, <2>6, OffersLeft
      <4> QED
        BY <2>3, <3>1, <4>1
    <3> QED
      BY <2>2, <3>1, <3>2
  <2>7. CASE Ruling(q)
    <3>1. /\ UnderWay(q) /\ pass[q].d = d /\ pass'[q].book = pass[q].book
          /\ pass'[q].todo = pass[q].todo
      BY <1>2, <2>7 DEF Ruling
    <3>2. /\ pass'[q].at \notin {"decline", "cancel"}
          /\ Kept(d) /\ pass'[q].at = "outcome" => AnsweredThen(d, pass'[q].life)
      BY <1>2, <2>7, <3>1, RulingAnswers
    <3> QED
      BY <2>1, <2>2, <2>3, <3>1, <3>2
  <2>8. ASSUME NEW b \in Books, GoesAhead(q, b)
        PROVE  /\ pass'[q].at \notin {"decline", "cancel"}
               /\ Kept(d)' => BookAnswers(d, pass[q].book)'
               /\ Kept(d)' /\ pass'[q].at = "outcome" => AnsweredThen(d, pass'[q].life)
               /\ \A c \in pass'[q].todo : run'[c.run].by # d
    <3>1. /\ pass'[q].at \in {"subscribers", "lifecycle", "list", "wake", "settle"}
          /\ pass'[q].book = b /\ pass[q].d = d
          /\ pass'[q].todo = IF NextStep(b) = "wake"
               THEN {Candidate(c, "claim") : c \in b.pages[b.woken + 1]} ELSE {}
      BY <1>2, <2>8 DEF GoesAhead
    <3>2. BookAnswers(d, b)'
      <4>1. CASE Saving(q, b)
        BY <1>0, <1>2, <3>1, <4>1, SavedAnswers
      <4>2. CASE Opening(q) /\ b = memo[pass[q].d]
        <5>1. b = memo[d] /\ Kept(d)
          BY <3>1, <4>2 DEF Opening, Kept
        <5>2. PagesReached(b) /\ BookAnswers(d, b)
          BY <1>0, <1>2, <5>1 DEF AllReached, StartsAnswer
        <5> QED
          BY <1>0, <5>1, <5>2, BookAnswersStays
      <4> QED
        BY <2>8, <4>1, <4>2 DEF GoesAhead
    <3>3. ASSUME NEW c \in pass'[q].todo PROVE run'[c.run].by # d
      <4>1. /\ NextStep(b) = "wake" /\ \E e \in b.pages[b.woken + 1] : c = Candidate(e, "claim")
            /\ b.woken + 1 \in DOMAIN b.pages
        BY <3>1, <3>3, NextSteps
      <4>2. \A e \in b.pages[b.woken + 1] : run'[e.run].by # d
        BY <3>2, <4>1 DEF BookAnswers
      <4> QED
        BY <4>1, <4>2, CandidateFields
    <3>4. BookAnswers(d, pass[q].book)'
      BY <3>1, <3>2 DEF BookAnswers, Answered
    <3> QED
      BY <3>1, <3>3, <3>4
  <2> QED
    BY <1>0, <2>4, <2>5, <2>6, <2>7, <2>8, PassKinds
<1>3. StartsAnswer'
  <2> SUFFICES ASSUME NEW d \in Deliveries, AlwaysStarts(d)'
               PROVE  /\ Kept(d)' => BookAnswers(d, memo[d])'
                      /\ \A q \in Passes : pass'[q].d = d /\ pass'[q].at \notin {"idle", "open"} =>
                           /\ pass'[q].at \notin {"decline", "cancel"}
                           /\ Kept(d)' => BookAnswers(d, pass[q].book)'
                           /\ Kept(d)' /\ pass'[q].at = "outcome" =>
                                AnsweredThen(d, pass'[q].life)
                           /\ \A c \in pass'[q].todo : run'[c.run].by # d
    BY DEF StartsAnswer, UnderWay, Answered, AnsweredThen
  <2>1. AlwaysStarts(d)
    BY StartsStay
  <2> QED
    BY <1>2, <2>1, MemosAnswer
<1>4. NotWokenByItsStart'
  <2> SUFFICES ASSUME NEW d \in Deliveries, AlwaysStarts(d)', NEW x \in woke'[d]
               PROVE  run'[x[1]].by # d
    BY DEF NotWokenByItsStart
  <2>1. AlwaysStarts(d)
    BY StartsStay
  <2>2. CASE x \in woke[d]
    <3>1. x[1] \in Runs /\ run[x[1]].status # "absent" /\ run[x[1]].by # d
      BY <1>0, <2>1, <2>2 DEF TypeInv, RunTypes, Waits, AllReached, StartInv, NotWokenByItsStart
    <3> QED
      BY <1>0, <3>1, OpenersStay
  <2>3. ASSUME NEW p \in Passes, NEW c \in pass[p].todo, d = pass[p].d, WokenBy(p, c),
               x = <<c.run, c.pos>>
        PROVE  run'[x[1]].by # d
    <3>1. c \in Offered /\ Reached(c) /\ run[c.run].by # d
      BY <1>0, <2>1, <2>3, Bookkeeping DEF AllReached, StartsAnswer, WokenBy, UnderWay
    <3> QED
      BY <1>0, <2>3, <3>1, OpenersStay DEF Offered, Reached
  <2> QED
    BY <1>0, <2>2, <2>3, WokeGrows
<1> QED
  BY <1>1, <1>3, <1>4 DEF StartInv

-----------------------------------------------------------------------------
(* No saved candidate is left open behind its page                         *)

LEMMA TodoReached ==
  ASSUME TypeInv, AllReached, NEW p \in Passes, NEW c \in pass[p].todo
  PROVE  /\ c \in Offered /\ c.run \in Runs /\ c.pos \in Nat /\ c.token \in Nat
         /\ Reached(c)
         /\ park[c.run].pos \in Nat /\ park[c.run].token \in Nat
<1>1. c \in Offered /\ Reached(c)
  BY Bookkeeping DEF AllReached
<1>2. c.run \in Runs /\ c.pos \in Nat /\ c.token \in Nat
  BY <1>1 DEF Offered
<1> QED
  BY <1>1, <1>2 DEF TypeInv, RunTypes, ParkRows

(* A candidate leaves the pass closed, or goes on being offered: a Wait    *)
(* that a second Migration woke again is the only one given up open.       *)
LEMMA OffersKeep ==
  ASSUME TypeInv, ParksSound, AllReached, RereadsStale, count.migrations <= 1,
         NEW p \in Passes, Waking(p), NEW c \in pass[p].todo
  PROVE  Closed(c)' \/ \E e \in pass'[p].todo : e.run = c.run /\ e.pos = c.pos
<1>1. /\ pass \in [Passes -> PassStates] /\ pass[p] \in PassStates
      /\ park \in [Runs -> ParkRows] /\ count.migrations \in Nat
  BY Bookkeeping DEF TypeInv, RunTypes, Counts
<1>2. PICK f \in pass[p].todo : WakeWait(p, f) \/ RereadWait(p, f)
  BY DEF Waking
<1>3. /\ f \in Offered /\ f.run \in Runs /\ f.pos \in Nat /\ f.token \in Nat /\ Reached(f)
      /\ park[f.run].pos \in Nat /\ park[f.run].token \in Nat /\ park[f.run] \in ParkRows
  BY <1>1, TodoReached
<1>4. ASSUME NEW new, pass' = [pass EXCEPT ![p].todo = (pass[p].todo \ {f}) \cup new]
      PROVE  pass'[p].todo = (pass[p].todo \ {f}) \cup new
  BY <1>1, <1>4 DEF PassStates
<1>5. run' = run
  BY <1>2 DEF WakeWait, RereadWait, runs
<1>6. CASE WakeWait(p, f)
  <2> DEFINE k == park[f.run]
             named == SameWait(f) /\ k.token = f.token
  <2>1. CASE named /\ Claimable(k)
    <3>1. /\ park' = [park EXCEPT ![f.run] = Resolved(k, "resume", pass[p].d)]
          /\ pass' = [pass EXCEPT ![p].todo = (pass[p].todo \ {f}) \cup {}]
      BY <1>6, <2>1 DEF WakeWait
    <3>2. park'[f.run] = Resolved(park[f.run], "resume", pass[p].d)
      BY <1>1, <1>3, <3>1
    <3>3. ~Claimable(park'[f.run])
      BY <1>3, <3>2, ResolvedFields DEF Claimable
    <3>4. c.run = f.run => Closed(c)'
      BY <3>3 DEF Closed
    <3>5. pass'[p].todo = (pass[p].todo \ {f}) \cup {}
      BY <1>4, <3>1
    <3> QED
      BY <3>4, <3>5
  <2>2. CASE ~(named /\ Claimable(k)) /\ named /\ ClaimedBy(k, pass[p].d)
    <3>1. /\ park' = park
          /\ pass' = [pass EXCEPT ![p].todo = (pass[p].todo \ {f}) \cup {}]
      BY <1>6, <2>2 DEF WakeWait
    <3>2. Closed(f)'
      BY <1>5, <2>2, <3>1 DEF Closed, SameWait
    <3>3. pass'[p].todo = (pass[p].todo \ {f}) \cup {}
      BY <1>4, <3>1
    <3> QED
      BY <3>2, <3>3
  <2>3. CASE ~(named /\ Claimable(k)) /\ ~(named /\ ClaimedBy(k, pass[p].d))
    <3>1. pass' = [pass EXCEPT ![p].todo = (pass[p].todo \ {f}) \cup {Candidate(f, "reread")}]
      BY <1>6, <2>3 DEF WakeWait
    <3>2. pass'[p].todo = (pass[p].todo \ {f}) \cup {Candidate(f, "reread")}
      BY <1>4, <3>1
    <3> QED
      BY <3>2, CandidateFields
  <2> QED
    BY <2>1, <2>2, <2>3
<1>7. CASE RereadWait(p, f)
  <2> DEFINE again == [f EXCEPT !.token = park[f.run].token, !.step = "claim"]
  <2>1. /\ f.step = "reread" /\ park' = park
        /\ pass' = [pass EXCEPT ![p].todo = (pass[p].todo \ {f}) \cup
                      (IF Refreshable(f, pass[p].d) THEN {again} ELSE {})]
    BY <1>7 DEF RereadWait, runs
  <2>2. again.run = f.run /\ again.pos = f.pos
    BY <1>3 DEF Offered
  <2> HIDE DEF again
  <2>3. pass'[p].todo = (pass[p].todo \ {f}) \cup
                      (IF Refreshable(f, pass[p].d) THEN {again} ELSE {})
    BY <1>4, <2>1
  <2>4. ASSUME ~Refreshable(f, pass[p].d) PROVE Closed(f)
    <3>1. CASE ~SameWait(f)
      BY <3>1 DEF Closed
    <3>2. CASE park[f.run].token = f.token
      BY <2>1, <3>2 DEF RereadsStale
    <3>3. CASE SameWait(f) /\ park[f.run].token # f.token
      <4>1. park[f.run].st # "waiting"
        BY <2>4, <3>3 DEF Refreshable
      <4>2. f.token < park[f.run].token
        <5>1. f.pos = park[f.run].pos /\ ~(f.pos < park[f.run].pos)
          BY <1>3, <3>3 DEF SameWait
        <5>2. f.token <= park[f.run].token
          BY <1>3, <5>1 DEF Reached
        <5> QED
          BY <1>3, <3>3, <5>2
      <4>3. ~(park[f.run].st = "resuming" /\ park[f.run].wake.kind = "migrate")
        BY <1>1, <1>3, <4>2 DEF ParksSound
      <4> QED
        BY <4>1, <4>3 DEF Closed, Claimable
    <3> QED
      BY <3>1, <3>2, <3>3
  <2>5. Closed(f) => Closed(f)'
    BY <1>5, <2>1 DEF Closed, SameWait
  <2> QED
    BY <2>2, <2>3, <2>4, <2>5
<1> QED
  BY <1>2, <1>6, <1>7

LEMMA RereadsStayStale ==
  ASSUME TypeInv, RunsOfArrivals, ParksSound, AllReached, RereadsStale, [Next]_vars
  PROVE  RereadsStale'
<1> SUFFICES ASSUME NEW q \in Passes, NEW c \in pass'[q].todo, c.step = "reread",
                    c.token = park'[c.run].token
             PROVE  Closed(c)'
  BY DEF RereadsStale
<1>1. ASSUME c \in pass[q].todo PROVE Closed(c)'
  <2>1. /\ c.run \in Runs /\ c.pos \in Nat /\ c.token \in Nat /\ Reached(c)
        /\ park[c.run].pos \in Nat /\ park[c.run].token \in Nat
    BY <1>1, TodoReached
  <2>2. CASE Closed(c)
    BY <2>1, <2>2, ReachedStays
  <2>3. CASE ~Closed(c)
    <3>1. c.token # park[c.run].token /\ c.pos = park[c.run].pos
      BY <1>1, <2>3 DEF RereadsStale, Closed, SameWait
    <3>2. c.token < park[c.run].token
      BY <2>1, <3>1 DEF Reached
    <3>3. park'[c.run].pos # c.pos
      BY <2>1, <3>1, <3>2, RunsGoOn
    <3> QED
      BY <3>3 DEF Closed, SameWait
  <2> QED
    BY <2>2, <2>3
<1>2. CASE pass'[q] = pass[q] \/ Ruling(q) \/ Rests(q)
  BY <1>1, <1>2, RestsAre DEF Ruling
<1>3. CASE Waking(q)
  <2>1. PICK e \in pass[q].todo :
          \/ c \in pass[q].todo
          \/ /\ WakeWait(q, e) /\ UNCHANGED <<park, woke>>
             /\ ~(SameWait(e) /\ park[e.run].token = e.token /\ Claimable(park[e.run]))
             /\ c \in Offered /\ c.run = e.run /\ c.pos = e.pos /\ c.token = e.token
    BY <1>3, OffersLeft
  <2>2. run' = run
    BY <1>3, AfterWaking
  <2> QED
    BY <1>1, <2>1, <2>2 DEF Closed, SameWait
<1>4. ASSUME NEW b \in Books, GoesAhead(q, b) PROVE FALSE
  BY <1>4, CandidateFields DEF GoesAhead
<1> QED
  BY <1>2, <1>3, <1>4, PassKinds

LEMMA WokenStays ==
  ASSUME TypeInv, RunsOfArrivals, ParksSound, [Next]_vars, NEW b \in Books,
         PagesReached(b), WokenClosed(b)
  PROVE  WokenClosed(b)'
<1>1. count.migrations \in Nat /\ count'.migrations \in Nat /\ b.woken \in Nat
      /\ DOMAIN b.pages = 1 .. Len(b.pages) /\ Len(b.pages) \in Nat
  BY Continues DEF TypeInv, RunTypes, Counts, Books
<1>2. ASSUME count'.migrations <= 1, NEW i \in 1 .. b.woken, NEW c \in b.pages[i]
      PROVE  Closed(c)'
  <2>1. i \in DOMAIN b.pages /\ count.migrations <= 1
    BY <1>1, <1>2, MigrationsCount DEF WokenClosed
  <2>2. c \in Saved /\ Reached(c) /\ Closed(c)
    BY <1>2, <2>1 DEF Books, PagesReached, WokenClosed
  <2> QED
    BY <2>2, ReachedStays DEF Saved
<1>3. b.woken <= Len(b.pages)
  BY DEF WokenClosed
<1> QED
  BY <1>2, <1>3 DEF WokenClosed

LEMMA SavedClosed ==
  ASSUME TypeInv, RunsOfArrivals, ParksSound, OnStep, AllReached, PagesClosed,
         [Next]_vars, NEW p \in Passes, NEW b \in Books, Saving(p, b)
  PROVE  WokenClosed(b)'
<1>1. PICK old \in Books : old = pass[p].book
  BY Bookkeeping
<1>2. /\ WokenClosed(old) /\ PagesReached(old) /\ Grows(p, b)
      /\ NextStep(old) = StepOf(pass[p].at)
  BY <1>1 DEF Saving, PagesClosed, AllReached, OnStep
<1>3. WokenClosed(old)'
  BY <1>2, WokenStays
<1>4. /\ old.woken \in Nat /\ old.pages \in Seq(SUBSET Saved)
      /\ DOMAIN old.pages = 1 .. Len(old.pages) /\ Len(old.pages) \in Nat
      /\ old.woken <= Len(old.pages)
  BY <1>2 DEF Books, WokenClosed
<1>5. CASE b.pages = old.pages /\ b.woken = old.woken
  BY <1>3, <1>5 DEF WokenClosed
<1>6. CASE b.pages = Append(old.pages, PageOf(Candidates(old))) /\ b.woken = old.woken
  <2> DEFINE page == PageOf(Candidates(old))
  <2>1. page \in SUBSET Saved
    BY Bookkeeping, CandidatesTyped
  <2>2. b.pages = Append(old.pages, page)
    BY <1>6
  <2> HIDE DEF page
  <2>3. Len(b.pages) = Len(old.pages) + 1
        /\ \A i \in DOMAIN old.pages : b.pages[i] = old.pages[i]
    BY <1>4, <2>1, <2>2, PageAppended
  <2> QED
    BY <1>3, <1>4, <1>6, <2>3 DEF WokenClosed
<1>7. CASE /\ pass[p].at = "wake" /\ pass[p].todo = {} /\ b.woken = old.woken + 1
           /\ b.pages = old.pages
  <2>1. old.woken + 1 \in DOMAIN old.pages
    BY <1>2, <1>7, NextSteps DEF StepOf
  <2>2. ASSUME count.migrations <= 1, NEW c \in old.pages[old.woken + 1] PROVE Closed(c)
    BY <1>1, <1>7, <2>2 DEF PagesClosed
  <2>3. run' = run /\ park' = park /\ count' = count
    BY DEF Saving, GoesOnWith, runs
  <2>4. ASSUME count'.migrations <= 1, NEW i \in 1 .. b.woken, NEW c \in b.pages[i]
        PROVE  Closed(c)'
    <3>1. CASE i \in 1 .. old.woken
      BY <1>3, <1>7, <2>4, <3>1 DEF WokenClosed
    <3>2. CASE i = old.woken + 1
      BY <1>7, <2>2, <2>3, <2>4, <3>2 DEF Closed, SameWait
    <3> QED
      BY <1>4, <1>7, <3>1, <3>2
  <2>5. b.woken <= Len(b.pages)
    BY <1>4, <1>7, <2>1
  <2> QED
    BY <2>4, <2>5 DEF WokenClosed
<1> QED
  BY <1>1, <1>2, <1>5, <1>6, <1>7, Zenon DEF Grows

LEMMA ClosingGoesOn ==
  ASSUME TypeInv, RunsOfArrivals, ParksSound, OnStep, AllReached, CloseInv, [Next]_vars
  PROVE  CloseInv'
<1>0. RereadsStale /\ PagesClosed /\ NoMemo \in Books /\ NoMemo.woken = 0 /\ NoMemo.pages = <<>>
  BY NothingIsTyped DEF CloseInv, NoMemo
<1>1. RereadsStale'
  BY <1>0, RereadsStayStale
<1>2. WokenClosed(NoMemo)'
  BY <1>0 DEF WokenClosed
<1>3. ASSUME NEW d \in Deliveries PROVE WokenClosed(memo[d])'
  <2>1. PICK b \in Books : b = memo[d]
    BY Bookkeeping
  <2>2. PICK e \in Books : e = memo'[d]
    BY Continues DEF TypeInv, FlowInv, FlowTypes
  <2>3. WokenClosed(b)'
    <3>1. WokenClosed(b) /\ PagesReached(b)
      BY <1>0, <2>1 DEF PagesClosed, AllReached
    <3> QED
      BY <3>1, WokenStays
  <2>4. CASE SameBook(memo'[d], memo[d])
    <3>1. e.pages = b.pages /\ e.woken = b.woken
      BY <2>1, <2>2, <2>4, SameBooks
    <3> QED
      BY <2>2, <2>3, <3>1 DEF WokenClosed
  <2>5. CASE memo'[d] = NoMemo
    BY <1>2, <2>5 DEF WokenClosed
  <2>6. ASSUME NEW p \in Passes, NEW c \in Books, Saving(p, c), memo'[d] = c
        PROVE  WokenClosed(memo[d])'
    <3>1. WokenClosed(c)'
      BY <1>0, <2>6, SavedClosed
    <3> QED
      BY <2>6, <3>1 DEF WokenClosed
  <2> QED
    BY <2>4, <2>5, <2>6, MemoMoves
<1>4. ASSUME NEW q \in Passes, NEW b \in Books, GoesAhead(q, b) PROVE WokenClosed(b)'
  <2>1. CASE Saving(q, b)
    BY <1>0, <2>1, SavedClosed
  <2>2. CASE Opening(q) /\ b = memo[pass[q].d]
    <3>1. pass[q].d \in Deliveries
      BY <2>2, Bookkeeping DEF Opening
    <3>2. WokenClosed(b) /\ PagesReached(b)
      BY <1>0, <2>2, <3>1 DEF PagesClosed, AllReached
    <3> QED
      BY <3>2, WokenStays
  <2> QED
    BY <1>4, <2>1, <2>2 DEF GoesAhead
<1>5. ASSUME NEW q \in Passes, UnderWay(q)
      PROVE  \A b \in Books : b = pass[q].book => WokenClosed(b)'
  <2> SUFFICES ASSUME NEW b \in Books, b = pass[q].book PROVE WokenClosed(b)'
    OBVIOUS
  <2>1. WokenClosed(b) /\ PagesReached(b)
    BY <1>0, <1>5 DEF PagesClosed, AllReached
  <2> QED
    BY <2>1, WokenStays
<1>6. ASSUME NEW q \in Passes, pass'[q].at \notin {"idle", "open"}
      PROVE  WokenClosed(pass[q].book)'
  <2>1. CASE pass'[q].book = pass[q].book /\ UnderWay(q)
    <3>1. PICK b \in Books : b = pass[q].book
      BY Bookkeeping
    <3>2. WokenClosed(b)'
      BY <1>5, <2>1, <3>1
    <3> QED
      BY <2>1, <3>1, <3>2 DEF WokenClosed
  <2>2. ASSUME NEW b \in Books, GoesAhead(q, b) PROVE WokenClosed(pass[q].book)'
    <3>1. WokenClosed(b)' /\ pass'[q].book = b
      BY <1>4, <2>2 DEF GoesAhead
    <3> QED
      BY <3>1 DEF WokenClosed
  <2>3. \/ pass'[q].book = pass[q].book /\ UnderWay(q)
        \/ \E b \in Books : GoesAhead(q, b)
    <3>1. CASE pass'[q] = pass[q]
      BY <1>6, <3>1 DEF UnderWay
    <3>2. CASE Rests(q)
      BY <1>6, <3>2, RestsAre
    <3>3. CASE Waking(q)
      BY <3>3, AfterWaking DEF UnderWay
    <3>4. CASE Ruling(q)
      BY <3>4 DEF Ruling
    <3> QED
      BY <3>1, <3>2, <3>3, <3>4, PassKinds
  <2> QED
    BY <2>1, <2>2, <2>3
<1>7. ASSUME NEW q \in Passes, pass'[q].at = "wake", count'.migrations <= 1,
             NEW e, e \in pass'[q].book.pages[pass'[q].book.woken + 1]
      PROVE  Closed(e)' \/ \E c \in pass'[q].todo : Names(e, c)
  <2>0. count.migrations <= 1
    <3>1. count.migrations \in Nat /\ count'.migrations \in Nat
      BY Continues DEF TypeInv, RunTypes, Counts
    <3> QED
      BY <1>7, <3>1, MigrationsCount
  <2>1. ASSUME pass[q].at = "wake", pass'[q].book = pass[q].book
        PROVE  Closed(e)' \/ \E c \in pass[q].todo : Names(e, c)
    <3>1. PICK b \in Books : b = pass[q].book
      BY Bookkeeping
    <3>2. NextStep(b) = "wake" /\ b.woken + 1 \in DOMAIN b.pages
      BY <2>1, <3>1, NextSteps DEF OnStep, UnderWay, StepOf
    <3>3. e \in Saved /\ Reached(e)
      BY <1>7, <2>1, <3>1, <3>2 DEF Books, AllReached, PagesReached, UnderWay
    <3>4. Closed(e) \/ \E c \in pass[q].todo : Names(e, c)
      BY <1>0, <1>7, <2>0, <2>1 DEF PagesClosed
    <3> QED
      BY <3>3, <3>4, ReachedStays DEF Saved
  <2>2. CASE pass'[q] = pass[q]
    BY <1>7, <2>1, <2>2
  <2>3. CASE Rests(q)
    BY <1>7, <2>3, RestsAre
  <2>4. CASE Waking(q)
    <3>1. pass[q].at = "wake" /\ pass'[q].book = pass[q].book
      BY <2>4, AfterWaking
    <3>2. ASSUME NEW c \in pass[q].todo, Names(e, c)
          PROVE  Closed(e)' \/ \E f \in pass'[q].todo : Names(e, f)
      <4>1. Closed(c)' \/ \E f \in pass'[q].todo : f.run = c.run /\ f.pos = c.pos
        BY <1>0, <2>0, <2>4, OffersKeep
      <4> QED
        BY <3>2, <4>1 DEF Names, Closed, SameWait
    <3> QED
      BY <2>1, <3>1, <3>2
  <2>5. CASE Ruling(q)
    <3>1. StepOf(pass'[q].at) = "lifecycle"
      BY <2>5 DEF Ruling
    <3> QED
      BY <1>7, <3>1 DEF StepOf
  <2>6. ASSUME NEW b \in Books, GoesAhead(q, b)
        PROVE  \E c \in pass'[q].todo : Names(e, c)
    <3>1. pass'[q].book = b /\ pass'[q].todo = {Candidate(c, "claim") : c \in b.pages[b.woken + 1]}
      BY <1>7, <2>6 DEF GoesAhead
    <3>2. Candidate(e, "claim") \in pass'[q].todo
      BY <1>7, <3>1
    <3> QED
      BY <3>2, CandidateFields DEF Names
  <2> QED
    BY <2>2, <2>3, <2>4, <2>5, <2>6, PassKinds
<1>8. PagesClosed'
  BY <1>3, <1>6, <1>7 DEF PagesClosed, UnderWay, Names
<1> QED
  BY <1>1, <1>8 DEF CloseInv

-----------------------------------------------------------------------------
(* A delivered arrival has reached the Waits it found open                 *)

(* A Wait does not open again to what came before it closed.               *)
LEMMA OpenFalls ==
  ASSUME TypeInv, RunsOfArrivals, ParksSound, AllReached, [Next]_vars,
         NEW d \in Deliveries, NEW x \in owed[d], OpenFor(x)'
  PROVE  OpenFor(x)
<1>1. /\ x[1] \in Runs /\ x[2] \in Nat /\ run[x[1]].status # "absent"
      /\ x[2] <= park[x[1]].pos
  BY DEF TypeInv, RunTypes, Waits, AllReached
<1>2. /\ park[x[1]].pos \in Nat /\ park'[x[1]].pos \in Nat
      /\ run[x[1]] \in RunRows /\ run'[x[1]] \in RunRows
  BY <1>1, Continues DEF TypeInv, RunTypes, ParkRows
<1>3. park'[x[1]].pos = x[2] /\ park[x[1]].pos = x[2]
  BY <1>1, <1>2, RunsGoOn DEF OpenFor
<1> QED
  BY <1>1, <1>3, RunsGoOn DEF OpenFor

(* What is settled of a run stays so.                                      *)
LEMMA SettledStays ==
  ASSUME TypeInv, RunsOfArrivals, ParksSound, [Next]_vars, NEW d \in Deliveries,
         NEW life \in Lives, LifeSettled(d, life)
  PROVE  LifeSettled(d, life)'
<1> SUFFICES ASSUME NEW r \in life.runs
             PROVE  \/ run'[r].by = d \/ run'[r].status \in {"over", "swept"}
                    \/ run'[r].claim # NoDelivery
  BY DEF LifeSettled
<1>1. r \in Runs
  BY DEF Lives
<1>2. run[r].by = d \/ run[r].status \in {"over", "swept"} \/ run[r].claim # NoDelivery
  BY DEF LifeSettled
<1> QED
  BY <1>1, <1>2, OpenersStay, RunsGoOn

(* LifeSettled, in the state a step leads to.                              *)
LifeSettledThen(d, life) ==
  \A r \in life.runs :
    run'[r].by = d \/ run'[r].status \in {"over", "swept"} \/ run'[r].claim # NoDelivery

LEMMA RulingSettles ==
  ASSUME DecisionInv, ViewsHold, NEW q \in Passes, Ruling(q),
         pass'[q].at = "outcome"
  PROVE  LifeSettledThen(pass[q].d, pass'[q].life)
<1>0. /\ TypeInv /\ pass \in [Passes -> PassStates] /\ pass[q] \in PassStates
      /\ pass[q].d \in Deliveries /\ pass[q].d # NoDelivery /\ run \in [Runs -> RunRows]
  BY Bookkeeping, NoDeliveryIsNone DEF DecisionInv, TypeInv, RunTypes, Ruling, UnderWay
<1>1. ASSUME NEW o, Comes(q, o), LifeSettledThen(pass[q].d, o)
      PROVE  LifeSettledThen(pass[q].d, pass'[q].life)
  BY <1>0, <1>1, ComesFields
<1>2. \A kind : LifeSettledThen(pass[q].d, Outcome(kind, {}))
  BY DEF LifeSettledThen, Outcome
<1>3. ASSUME NEW R, \A r \in R : run[r].by = pass[q].d, run' = run, NEW kind
      PROVE  LifeSettledThen(pass[q].d, Outcome(kind, R))
  BY <1>3 DEF LifeSettledThen, Outcome
<1>4. \A r \in OpenedBy(pass[q].d) : run[r].by = pass[q].d
  BY DEF OpenedBy
<1>5. ASSUME NEW at, at # "outcome", NEW c, NEW v,
             pass' = [pass EXCEPT ![q] = [pass[q] EXCEPT !.at = at, !.concurrency = c, !.view = v]]
      PROVE  FALSE
  BY <1>0, <1>5 DEF PassStates
<1>6. CASE ReadLifecycle(q)
  <2>1. run' = run
    BY <1>6 DEF ReadLifecycle, runs
  <2>2. ASSUME NEW at \in {"cancel", "decline", "admit", "refuse"},
               pass' = [pass EXCEPT ![q].at = at,
                          ![q].concurrency = Publications[version].concurrency]
        PROVE  FALSE
    <3>1. pass'[q].at = at
      BY <1>0, <2>2 DEF PassStates
    <3> QED
      BY <3>1
  <2>3. \/ \E kind \in {"refused", "none", "unrunnable"} : Comes(q, Outcome(kind, {}))
        \/ Comes(q, Outcome("started", OpenedBy(pass[q].d)))
    BY <1>6, <2>2 DEF ReadLifecycle
  <2> QED
    BY <1>1, <1>2, <1>3, <1>4, <2>1, <2>3
<1>7. CASE RecordRefusal(q)
  <2>1. pass' # [pass EXCEPT ![q].at = "admit"]
    BY <1>0 DEF PassStates
  <2>2. Comes(q, Outcome("refused", {}))
    BY <1>7, <2>1 DEF RecordRefusal
  <2> QED
    BY <1>1, <1>2, <2>2
<1>8. CASE BeginStart(q)
  <2>1. pass' = [pass EXCEPT ![q].at = "admitting", ![q].view = View(q)]
    BY <1>8 DEF BeginStart
  <2>2. pass'[q].at = "admitting"
    BY <1>0, <2>1 DEF PassStates
  <2> QED
    BY <2>2
<1>9. CASE CommitStart(q)
  <2> DEFINE seen == pass[q].view
  <2>1. \A r \in seen.own : run[r].by = pass[q].d
    BY <1>9 DEF CommitStart, ViewsHold
  <2>2. ASSUME NEW at \in {"decline", "admit"},
               pass' = [pass EXCEPT ![q].at = at, ![q].view = NoView]
        PROVE  FALSE
    <3>1. pass'[q].at = at
      BY <1>0, <2>2 DEF PassStates
    <3> QED
      BY <3>1
  <2>3. \/ Comes(q, Outcome("refused", {}))
        \/ Comes(q, Outcome("started", seen.own)) /\ run' = run
        \/ Comes(q, Outcome("started", OpenedBy(pass[q].d))) /\ run' = run
        \/ OpenRun(q, seen.inFlight \cap InFlight)
    BY <1>9, <2>2, Zenon DEF CommitStart, runs
  <2>4. ASSUME NEW D \in SUBSET InFlight, OpenRun(q, D)
        PROVE  LifeSettledThen(pass[q].d, pass'[q].life)
    <3>1. PICK n \in Runs \ Standing :
            /\ run' = [s \in Runs |->
                 IF s = n THEN [status |-> "live", by |-> pass[q].d, claim |-> NoDelivery]
                 ELSE IF s \in D THEN [run[s] EXCEPT !.status = "over"] ELSE run[s]]
            /\ Comes(q, Outcome("started", {n} \cup D))
      BY <2>4, Zenon DEF OpenRun
    <3>2. ASSUME NEW r \in {n} \cup D
          PROVE  run'[r].by = pass[q].d \/ run'[r].status \in {"over", "swept"}
      <4>1. r \in Runs
        BY <2>4 DEF InFlight
      <4>2. CASE r = n
        BY <3>1, <4>2
      <4>3. CASE r # n
        <5>1. run'[r] = [run[r] EXCEPT !.status = "over"] /\ run[r] \in RunRows
          BY <1>0, <3>1, <3>2, <4>1, <4>3
        <5> QED
          BY <5>1 DEF RunRows
      <4> QED
        BY <4>2, <4>3
    <3>3. LifeSettledThen(pass[q].d, Outcome("started", {n} \cup D))
      BY <3>2 DEF LifeSettledThen, Outcome
    <3> QED
      BY <1>1, <3>1, <3>3
  <2> QED
    BY <1>1, <1>2, <1>3, <1>4, <2>1, <2>3, <2>4
<1>10. CASE DeclineStart(q)
  BY <1>1, <1>2, <1>10 DEF DeclineStart
<1>11. CASE RequestCancel(q)
  <2>1. pass' # [pass EXCEPT ![q] = Idle]
    BY <1>0, NothingIsTyped
  <2>2. CASE /\ run' = run
             /\ Comes(q, Outcome("canceled", {r \in Runs : run[r].claim = pass[q].d}))
    <3>1. LifeSettledThen(pass[q].d,
            Outcome("canceled", {r \in Runs : run[r].claim = pass[q].d}))
      BY <1>0, <2>2 DEF LifeSettledThen, Outcome
    <3> QED
      BY <1>1, <2>2, <3>1
  <2>3. CASE /\ run' = [r \in Runs |-> IF r \in InFlight
                                       THEN [run[r] EXCEPT !.claim = pass[q].d] ELSE run[r]]
             /\ Comes(q, Outcome("canceled", InFlight))
    <3>1. ASSUME NEW r \in InFlight PROVE run'[r].claim # NoDelivery
      <4>1. run'[r] = [run[r] EXCEPT !.claim = pass[q].d] /\ run[r] \in RunRows
        BY <1>0, <2>3, <3>1 DEF InFlight
      <4> QED
        BY <1>0, <4>1 DEF RunRows
    <3>2. LifeSettledThen(pass[q].d, Outcome("canceled", InFlight))
      BY <3>1 DEF LifeSettledThen, Outcome
    <3> QED
      BY <1>1, <2>3, <3>2
  <2> QED
    BY <1>11, <2>1, <2>2, <2>3 DEF RequestCancel, runs
<1> QED
  BY <1>6, <1>7, <1>8, <1>9, <1>10, <1>11 DEF Ruling

LEMMA SavedSettles ==
  ASSUME TypeInv, LivesSettled, NEW p \in Passes, NEW b \in Books, Saving(p, b)
  PROVE  /\ LifeSettled(pass[p].d, b.life)
         /\ b.life \in Lives /\ pass[p].d \in Deliveries /\ run' = run
<1>1. b.life \in {pass[p].book.life, pass[p].life}
      /\ (pass[p].at # "outcome" => b.life = pass[p].book.life)
      /\ (pass[p].at = "outcome" => b.life = pass[p].life)
  BY DEF Saving, Grows
<1>2. b.life \in Lives /\ pass[p].d \in Deliveries /\ run' = run
  BY Bookkeeping DEF Saving, GoesOnWith, runs, Books, UnderWay
<1> QED
  BY <1>1, <1>2 DEF LivesSettled, Saving

LEMMA LivesStaySettled ==
  ASSUME DecisionInv, ParksSound, ViewsHold, LivesSettled, [Next]_vars
  PROVE  LivesSettled'
<1>0. TypeInv /\ RunsOfArrivals /\ NoMemo.life.runs = {}
  BY NothingIsTyped DEF DecisionInv, Ledger, NoLife
<1>1. ASSUME NEW d \in Deliveries PROVE LifeSettledThen(d, memo'[d].life)
  <2>1. LifeSettledThen(d, memo[d].life)
    <3>1. PICK life \in Lives : life = memo[d].life
      BY <1>0, Bookkeeping DEF Books
    <3>2. LifeSettled(d, life)
      BY <3>1 DEF LivesSettled
    <3>3. LifeSettled(d, life)'
      BY <1>0, <3>2, SettledStays
    <3> QED
      BY <3>1, <3>3 DEF LifeSettled, LifeSettledThen
  <2>2. CASE SameBook(memo'[d], memo[d])
    <3>1. memo[d] \in Books /\ memo'[d] \in Books
      BY <1>0, Continues, Bookkeeping DEF TypeInv, FlowInv, FlowTypes
    <3> QED
      BY <2>1, <2>2, <3>1, SameBooks
  <2>3. CASE memo'[d] = NoMemo
    BY <1>0, <2>3 DEF LifeSettledThen
  <2>4. ASSUME NEW p \in Passes, NEW b \in Books, Saving(p, b), d = pass[p].d, memo'[d] = b
        PROVE  LifeSettledThen(d, memo'[d].life)
    BY <1>0, <2>4, SavedSettles DEF LifeSettled, LifeSettledThen
  <2> QED
    BY <1>0, <2>2, <2>3, <2>4, MemoMoves
<1>2. ASSUME NEW q \in Passes, pass'[q].at \notin {"idle", "open"}
      PROVE  /\ LifeSettledThen(pass'[q].d, pass'[q].book.life)
             /\ pass'[q].at = "outcome" => LifeSettledThen(pass'[q].d, pass'[q].life)
  <2>1. ASSUME UnderWay(q), NEW life \in Lives, LifeSettled(pass[q].d, life)
        PROVE  LifeSettledThen(pass[q].d, life)
    <3>1. PICK d \in Deliveries : d = pass[q].d
      BY <1>0, <2>1, Bookkeeping DEF UnderWay
    <3>2. LifeSettled(d, life)
      BY <2>1, <3>1
    <3>3. LifeSettled(d, life)'
      BY <1>0, <3>2, SettledStays
    <3> QED
      BY <3>1, <3>3 DEF LifeSettled, LifeSettledThen
  <2>2. ASSUME UnderWay(q) PROVE LifeSettledThen(pass[q].d, pass[q].book.life)
    <3>1. pass[q].book.life \in Lives
      BY <1>0, Bookkeeping DEF Books
    <3> QED
      BY <2>1, <2>2, <3>1 DEF LivesSettled
  <2>3. CASE pass'[q] = pass[q]
    <3>1. UnderWay(q) /\ pass[q].life \in Lives
      BY <1>0, <1>2, <2>3, Bookkeeping DEF UnderWay, PassStates
    <3> QED
      BY <2>1, <2>2, <2>3, <3>1 DEF LivesSettled
  <2>4. CASE Rests(q)
    BY <1>2, <2>4, RestsAre
  <2>5. CASE Waking(q)
    <3>1. /\ UnderWay(q) /\ pass'[q].at = "wake"
          /\ pass'[q].d = pass[q].d /\ pass'[q].book = pass[q].book
      BY <1>0, <2>5, AfterWaking DEF UnderWay
    <3> QED
      BY <2>2, <3>1
  <2>6. CASE Ruling(q)
    <3>1. UnderWay(q) /\ pass'[q].d = pass[q].d /\ pass'[q].book = pass[q].book
      BY <2>6 DEF Ruling
    <3> QED
      BY <2>2, <2>6, <3>1, RulingSettles
  <2>7. ASSUME NEW b \in Books, GoesAhead(q, b)
        PROVE  /\ LifeSettledThen(pass'[q].d, pass'[q].book.life)
               /\ pass'[q].at # "outcome"
    <3>1. /\ pass'[q].book = b /\ pass'[q].d = pass[q].d
          /\ pass'[q].at \in {"subscribers", "lifecycle", "list", "wake", "settle"}
      BY <2>7 DEF GoesAhead
    <3>2. CASE Saving(q, b)
      BY <1>0, <3>1, <3>2, SavedSettles DEF LifeSettled, LifeSettledThen
    <3>3. CASE Opening(q) /\ b = memo[pass[q].d]
      <4>1. pass[q].d \in Deliveries /\ memo' = memo
        BY <1>0, <3>3, Bookkeeping DEF Opening
      <4> QED
        BY <1>1, <3>1, <3>3, <4>1
    <3> QED
      BY <2>7, <3>1, <3>2, <3>3 DEF GoesAhead
  <2> QED
    BY <1>0, <2>3, <2>4, <2>5, <2>6, <2>7, PassKinds
<1> QED
  BY <1>1, <1>2 DEF LivesSettled, LifeSettled, LifeSettledThen, UnderWay

LEMMA OwedStaysSound ==
  ASSUME DecisionInv, ParksSound, AllReached, OwedSound, [Next]_vars
  PROVE  OwedSound'
<1> SUFFICES ASSUME NEW d \in Deliveries, NEW x \in owed'[d]
             PROVE  Arrived(d)' /\ d \in (Here.wakes)' /\ run'[x[1]].by # d
  BY DEF OwedSound
<1>0. TypeInv /\ RunsOfArrivals /\ Here' = Here
  BY SettingStays DEF DecisionInv, Ledger, Here
<1>1. CASE x \in owed[d]
  <2>1. Arrived(d) /\ d \in Here.wakes /\ run[x[1]].by # d
    BY <1>1 DEF OwedSound
  <2>2. x[1] \in Runs /\ run[x[1]].status # "absent"
    BY <1>0, <1>1 DEF AllReached, TypeInv, RunTypes, Waits
  <2> QED
    BY <1>0, <2>1, <2>2, RowsGoOn, OpenersStay
<1>2. CASE Receive(d) /\ owed'[d] = IF d \in Here.wakes
                             THEN {<<r, park[r].pos>> : r \in OpenOnEvent} ELSE {}
  <2>1. d \in Here.wakes /\ \E r \in OpenOnEvent : x = <<r, park[r].pos>>
    BY <1>2
  <2>2. x[1] \in Runs /\ run' = run
    BY <1>2, <2>1 DEF OpenOnEvent, Receive, runs
  <2>3. run[x[1]].by # d
    BY <1>0, <1>2, <2>2, NoDeliveryIsNone DEF RunsOfArrivals, Arrived, Receive
  <2>4. Arrived(d)'
    BY <1>0, <1>2 DEF Arrived, Receive, TypeInv, FlowInv, FlowTypes
  <2> QED
    BY <1>0, <2>1, <2>2, <2>3, <2>4
<1> QED
  BY <1>0, <1>1, <1>2, OwedRecorded

(* A Wait open to the Event with no Migration about is one a page lists.   *)
LEMMA OpenIsParked ==
  ASSUME TypeInv, ParksSound, count.migrations = 0, NEW d \in Deliveries,
         NEW x \in owed[d], OpenFor(x)
  PROVE  /\ x[1] \in Runs /\ x[1] \in ParkedOnEvent /\ x[2] = park[x[1]].pos
         /\ run[x[1]].status = "live" /\ run[x[1]].claim = NoDelivery
<1>1. x[1] \in Runs
  BY DEF TypeInv, RunTypes, Waits
<1>2. park[x[1]].token \in Nat
  BY <1>1 DEF TypeInv, RunTypes, ParkRows
<1>3. park[x[1]].st = "waiting"
  BY <1>1, <1>2 DEF OpenFor, Claimable, ParksSound
<1> QED
  BY <1>1, <1>3 DEF OpenFor, ParkedOnEvent

(* A pass that lists a page leaves no open Wait before its end.            *)
LEMMA ListsWhatIsOpen ==
  ASSUME TypeInv, ParksSound, OwedSound, count.migrations = 0,
         NEW d \in Deliveries, NEW old \in Books, Covered(d, old), LifeSettled(d, old.life),
         NEW b \in Books, old.more, b.roles = old.roles, b.listed = old.listed,
         b.pages = Append(old.pages, PageOf(Candidates(old))),
         b.more = HasMore(PageOf(Candidates(old)))
  PROVE  Covered(d, b)
<1> SUFFICES ASSUME NEW x \in owed[d], OpenFor(x)
             PROVE  /\ b.listed => "wait" \in b.roles
                    /\ \/ \E i \in DOMAIN b.pages :
                            \E e \in b.pages[i] : e.run = x[1] /\ e.pos = x[2]
                       \/ /\ b.more
                          /\ \A i \in DOMAIN b.pages : \A e \in b.pages[i] :
                               Before(e, [run |-> x[1], pos |-> x[2]])
  BY DEF Covered
<1> DEFINE S == Candidates(old)
           T == PageOf(S)
           c == [run |-> x[1], pos |-> park[x[1]].pos, token |-> park[x[1]].token]
           last == Len(old.pages) + 1
<1>1. /\ S \in SUBSET Saved /\ T \in SUBSET S /\ Fits(S, T) /\ IsFiniteSet(S)
      /\ old.pages \in Seq(SUBSET Saved)
  BY Bookkeeping, CandidatesTyped DEF Books
<1>2. /\ x[1] \in Runs /\ x[1] \in ParkedOnEvent /\ x[2] = park[x[1]].pos
      /\ run[x[1]].status = "live" /\ run[x[1]].claim = NoDelivery
  BY OpenIsParked
<1>3. /\ old.listed => "wait" \in old.roles
      /\ \/ \E i \in DOMAIN old.pages :
              \E e \in old.pages[i] : e.run = x[1] /\ e.pos = x[2]
         \/ \A i \in DOMAIN old.pages : \A e \in old.pages[i] :
              Before(e, [run |-> x[1], pos |-> x[2]])
  BY DEF Covered
<1>4. b.pages = Append(old.pages, T) /\ b.more = HasMore(T)
  OBVIOUS
<1> HIDE DEF T
<1>5. /\ \A i \in DOMAIN old.pages : i \in DOMAIN b.pages /\ b.pages[i] = old.pages[i]
      /\ last \in DOMAIN b.pages /\ b.pages[last] = T
      /\ \A i \in DOMAIN b.pages : i = last \/ i \in DOMAIN old.pages
  <2>1. T \in SUBSET Saved
    BY <1>1
  <2> QED
    BY <1>1, <1>4, <2>1, PageAppended
<1>6. CASE \E i \in DOMAIN old.pages :
             \E e \in old.pages[i] : e.run = x[1] /\ e.pos = x[2]
  BY <1>3, <1>5, <1>6
<1>7. CASE \A i \in DOMAIN old.pages : \A e \in old.pages[i] :
             Before(e, [run |-> x[1], pos |-> x[2]])
  <2>1. c.run = x[1] /\ c.pos = x[2]
    BY <1>2
  <2>2. x[1] \notin Settled(old)
    BY <1>2 DEF Settled, LifeSettled, OwedSound
  <2>3. \A e : Before(e, c) <=> Before(e, [run |-> x[1], pos |-> x[2]])
    BY <2>1 DEF Before
  <2>4. c \in S
    <3>1. \A i \in DOMAIN old.pages : \A e \in old.pages[i] : Before(e, c)
      BY <1>7, <2>3
    <3>2. x[1] \in ParkedOnEvent \ Settled(old)
      BY <1>2, <2>2
    <3> QED
      BY <3>1, <3>2, Zenon DEF Candidates
  <2>5. CASE c \in T
    BY <1>3, <1>5, <2>1, <2>5
  <2>6. CASE c \notin T
    <3> HIDE DEF c, S
    <3>1. Cardinality(T) = PAGE_SIZE
      BY <1>1, <2>4, <2>6, FS_Subset DEF Fits
    <3>2. \A e \in T : Before(e, c)
      BY <1>1, <2>4, <2>6 DEF Fits
    <3>3. b.more
      BY <1>4, <3>1 DEF HasMore
    <3>4. ASSUME NEW i \in DOMAIN b.pages, NEW e \in b.pages[i]
          PROVE  Before(e, [run |-> x[1], pos |-> x[2]])
      <4>1. CASE i = last
        BY <1>5, <2>3, <3>2, <3>4, <4>1
      <4>2. CASE i \in DOMAIN old.pages
        BY <1>5, <1>7, <3>4, <4>2
      <4> QED
        BY <1>5, <4>1, <4>2
    <3> QED
      BY <1>3, <3>3, <3>4
  <2> QED
    BY <2>5, <2>6
<1> QED
  BY <1>3, <1>6, <1>7

LEMMA SavedCovers ==
  ASSUME TypeInv, ParksSound, OnStep, LivesSettled, OwedSound, BooksCover,
         count.migrations = 0, NEW p \in Passes, NEW b \in Books, Saving(p, b)
  PROVE  Covered(pass[p].d, b)
<1>1. PICK old \in Books : old = pass[p].book
  BY Bookkeeping
<1>2. PICK d \in Deliveries : d = pass[p].d
  BY Bookkeeping DEF Saving, UnderWay
<1>3. /\ Covered(d, old) /\ LifeSettled(d, old.life)
      /\ NextStep(old) = StepOf(pass[p].at)
  BY <1>1, <1>2 DEF Saving, LivesSettled, OnStep, BooksCover
<1>4. CASE /\ pass[p].at = "subscribers" /\ b.roles = RolesOf(d)
           /\ b.pages = old.pages /\ b.more = old.more
  <2>1. ASSUME NEW x \in owed[d], OpenFor(x) PROVE "wait" \in RolesOf(d)
    <3>1. d \in Here.wakes /\ ParkedOnEvent # {}
      BY <2>1, OpenIsParked DEF OwedSound
    <3> QED
      BY <3>1 DEF RolesOf
  <2> QED
    BY <1>2, <1>3, <1>4, <2>1 DEF Covered
<1>5. CASE /\ b.listed = old.listed /\ b.roles = old.roles
           /\ b.pages = old.pages /\ b.more = old.more
  BY <1>2, <1>3, <1>5 DEF Covered
<1>6. CASE /\ pass[p].at = "list" /\ b.pages = Append(old.pages, PageOf(Candidates(old)))
           /\ b.more = HasMore(PageOf(Candidates(old)))
           /\ b.listed = old.listed /\ b.roles = old.roles
  <2>1. old.more
    BY <1>3, <1>6, NextStepMeans DEF StepOf
  <2>2. Covered(d, b)
    BY <1>3, <1>6, <2>1, ListsWhatIsOpen
  <2> QED
    BY <1>2, <2>2
<1>7. \/ /\ pass[p].at = "subscribers" /\ b.roles = RolesOf(d)
         /\ b.pages = old.pages /\ b.more = old.more
      \/ /\ b.listed = old.listed /\ b.roles = old.roles
         /\ b.pages = old.pages /\ b.more = old.more
      \/ /\ pass[p].at = "list" /\ b.pages = Append(old.pages, PageOf(Candidates(old)))
         /\ b.more = HasMore(PageOf(Candidates(old)))
         /\ b.listed = old.listed /\ b.roles = old.roles
  BY <1>1, <1>2, Zenon DEF Saving, Grows
<1> QED
  BY <1>2, <1>4, <1>5, <1>6, <1>7

LEMMA CoveredStays ==
  ASSUME TypeInv, RunsOfArrivals, ParksSound, AllReached, [Next]_vars,
         NEW d \in Deliveries, Arrived(d), NEW b \in Books, Covered(d, b)
  PROVE  Covered(d, b)'
<1>1. owed'[d] = owed[d]
  BY OwedRecorded DEF Receive, Arrived
<1>2. ASSUME NEW x \in owed'[d], OpenFor(x)' PROVE x \in owed[d] /\ OpenFor(x)
  BY <1>1, <1>2, OpenFalls
<1> QED
  BY <1>2 DEF Covered

(* Covered, in the state a step leads to.                                  *)
CoveredThen(d, b) ==
  \A x \in owed'[d] : OpenFor(x)' =>
    /\ b.listed => "wait" \in b.roles
    /\ \/ \E i \in DOMAIN b.pages : \E e \in b.pages[i] : e.run = x[1] /\ e.pos = x[2]
       \/ /\ b.more
          /\ \A i \in DOMAIN b.pages : \A e \in b.pages[i] :
               Before(e, [run |-> x[1], pos |-> x[2]])

LEMMA BooksStayCovering ==
  ASSUME DecisionInv, ParksSound, OnStep, AllReached, LivesSettled, OwedSound, BooksCover,
         [Next]_vars, count.migrations = 0
  PROVE  /\ \A d \in Deliveries : CoveredThen(d, memo'[d])
         /\ \A q \in Passes : pass'[q].at \notin {"idle", "open"} =>
              CoveredThen(pass'[q].d, pass'[q].book)
<1>0. /\ TypeInv /\ RunsOfArrivals
      /\ ~NoMemo.listed /\ NoMemo.more /\ NoMemo.pages = <<>>
  BY NothingIsTyped DEF DecisionInv, Ledger, NoMemo
<1>1. ASSUME NEW d \in Deliveries, Arrived(d), NEW b \in Books, Covered(d, b)
      PROVE  CoveredThen(d, b)
  <2>1. Covered(d, b)'
    BY <1>0, <1>1, CoveredStays
  <2> QED
    BY <2>1 DEF Covered, CoveredThen
<1>2. ASSUME NEW d PROVE CoveredThen(d, NoMemo)
  BY <1>0 DEF CoveredThen
<1>3. ASSUME NEW p \in Passes, NEW b \in Books, Saving(p, b)
      PROVE  CoveredThen(pass[p].d, b)
  <2>1. PICK d \in Deliveries : d = pass[p].d
    BY <1>0, <1>3, SavesWhatItKnows
  <2>2. Arrived(d) /\ Covered(d, b)
    BY <1>0, <1>3, <2>1, SavedCovers, SavesWhatItKnows DEF Arrived
  <2> QED
    BY <1>1, <2>1, <2>2
<1>4. ASSUME NEW d \in Deliveries PROVE CoveredThen(d, memo'[d])
  <2>1. CASE memo[d] = NoMemo /\ SameBook(memo'[d], memo[d])
    <3>1. PICK e \in Books : e = memo'[d]
      BY <1>0, Continues DEF TypeInv, FlowInv, FlowTypes
    <3>2. e.listed = NoMemo.listed /\ e.more = NoMemo.more /\ e.pages = NoMemo.pages
      BY <2>1, <3>1, SameBooks, NothingIsTyped
    <3> QED
      BY <1>0, <3>1, <3>2 DEF CoveredThen
  <2>2. CASE memo[d] # NoMemo /\ SameBook(memo'[d], memo[d])
    <3>1. Arrived(d)
      BY <1>0, <2>2 DEF Arrived, TypeInv, FlowInv, Scheduled
    <3>2. PICK b \in Books : b = memo[d]
      BY <1>0, Bookkeeping
    <3>3. PICK e \in Books : e = memo'[d]
      BY <1>0, Continues DEF TypeInv, FlowInv, FlowTypes
    <3>4. e.listed = b.listed /\ e.roles = b.roles /\ e.more = b.more /\ e.pages = b.pages
      BY <2>2, <3>2, <3>3, SameBooks
    <3>5. CoveredThen(d, b)
      BY <1>1, <3>1, <3>2 DEF BooksCover
    <3> QED
      BY <3>3, <3>4, <3>5 DEF CoveredThen
  <2>3. CASE memo'[d] = NoMemo
    BY <1>2, <2>3
  <2>4. ASSUME NEW p \in Passes, NEW b \in Books, Saving(p, b), d = pass[p].d, memo'[d] = b
        PROVE  CoveredThen(d, memo'[d])
    BY <1>3, <2>4
  <2> QED
    BY <1>0, <2>1, <2>2, <2>3, <2>4, MemoMoves
<1>5. ASSUME NEW q \in Passes, pass'[q].at \notin {"idle", "open"}
      PROVE  CoveredThen(pass'[q].d, pass'[q].book)
  <2>1. ASSUME UnderWay(q) PROVE CoveredThen(pass[q].d, pass[q].book)
    <3>1. PICK d \in Deliveries : d = pass[q].d /\ Arrived(d)
      BY <1>0, <2>1 DEF TypeInv, FlowInv, PassesNamed, UnderWay
    <3>2. PICK b \in Books : b = pass[q].book
      BY <1>0, Bookkeeping
    <3>3. Covered(d, b)
      BY <2>1, <3>1, <3>2 DEF BooksCover
    <3> QED
      BY <1>1, <3>1, <3>2, <3>3
  <2>2. CASE pass'[q] = pass[q]
    BY <1>5, <2>1, <2>2 DEF UnderWay
  <2>3. CASE Rests(q)
    BY <1>5, <2>3, RestsAre
  <2>4. CASE Waking(q)
    <3>1. UnderWay(q) /\ pass'[q].d = pass[q].d /\ pass'[q].book = pass[q].book
      BY <1>0, <2>4, AfterWaking DEF UnderWay
    <3> QED
      BY <2>1, <3>1
  <2>5. CASE Ruling(q)
    <3>1. UnderWay(q) /\ pass'[q].d = pass[q].d /\ pass'[q].book = pass[q].book
      BY <2>5 DEF Ruling
    <3> QED
      BY <2>1, <3>1
  <2>6. ASSUME NEW b \in Books, GoesAhead(q, b)
        PROVE  CoveredThen(pass'[q].d, pass'[q].book)
    <3>1. pass'[q].book = b /\ pass'[q].d = pass[q].d
      BY <2>6 DEF GoesAhead
    <3>2. CASE Saving(q, b)
      BY <1>3, <3>1, <3>2
    <3>3. CASE Opening(q) /\ b = memo[pass[q].d]
      <4>1. pass[q].d \in Deliveries /\ memo' = memo
        BY <1>0, <3>3, Bookkeeping DEF Opening
      <4> QED
        BY <1>4, <3>1, <3>3, <4>1
    <3> QED
      BY <2>6, <3>1, <3>2, <3>3 DEF GoesAhead
  <2> QED
    BY <1>0, <2>2, <2>3, <2>4, <2>5, <2>6, PassKinds
<1> QED
  BY <1>4, <1>5

(* Only the end of a fan-out delivers an arrival.                          *)
LEMMA BecomesDelivered ==
  ASSUME TypeInv, [Next]_vars, NEW d \in Deliveries, inbox'[d] = "delivered"
  PROVE  \/ inbox[d] = "delivered"
         \/ \E p \in Passes : FinishDelivery(p) /\ d = pass[p].d
<1> USE DEF rows
<1>0. inbox \in [Deliveries -> Rows]
  BY DEF TypeInv, FlowInv, FlowTypes
<1>1. ASSUME NEW e \in Deliveries, Receive(e) \/ Resend(e) \/ SweepInbox(e)
      PROVE  inbox[d] = "delivered"
  BY <1>0, <1>1 DEF Receive, Resend, SweepInbox
<1>2. ASSUME NEW e \in Deliveries,
             PollInbox(e) \/ LeaseExpires(e) \/ SweepRefusal(e) \/ \E p \in Passes : Claim(p, e)
      PROVE  inbox' = inbox
  BY <1>2, Zenon DEF PollInbox, LeaseExpires, SweepRefusal, Claim
<1>3. ASSUME NEW p \in Passes, PassStep(p) \/ StepThrows(p) \/ Crash(p)
      PROVE  inbox[d] = "delivered" \/ (FinishDelivery(p) /\ d = pass[p].d)
  <2>1. ASSUME NEW status \in {"delivered", "failed"}, Settle(p, status), pass[p].at # "idle"
        PROVE  inbox' = inbox
               \/ (inbox[pass[p].d] = "pending" /\ inbox' = [inbox EXCEPT ![pass[p].d] = status])
    <3>1. CASE ~Holds(p)
      BY <2>1, <3>1 DEF Settle
    <3>2. CASE Holds(p)
      <4>1. pass[p].d \in Deliveries /\ sched[pass[p].d] = p
        BY <2>1, <3>2 DEF TypeInv, FlowInv, PassesNamed, Holds
      <4>2. inbox[pass[p].d] = "pending"
        BY <4>1, PassesAreNoMarks DEF TypeInv, FlowInv, Scheduled
      <4> QED
        BY <2>1, <3>2, <4>2 DEF Settle
    <3> QED
      BY <3>1, <3>2
  <2>2. CASE Open(p)
    <3>1. pass[p].at # "idle"
      BY <2>2 DEF Open
    <3>2. \/ inbox' = inbox
          \/ Settle(p, "failed")
          \/ \E s \in {"delivered", "failed"} : Settle(p, s) /\ inbox[pass[p].d] = s
      <4>1. inbox[pass[p].d] \in {"pending", "delivered", "failed", "swept"}
        BY <3>1 DEF TypeInv, FlowInv, FlowTypes, PassesNamed, Arrived, Rows
      <4> QED
        BY <2>2, <4>1 DEF Open
    <3> QED
      BY <1>0, <2>1, <3>1, <3>2
  <2>3. CASE FinishDelivery(p)
    <3>1. inbox' = inbox \/ inbox' = [inbox EXCEPT ![pass[p].d] = "delivered"]
      BY <2>1, <2>3 DEF FinishDelivery
    <3> QED
      BY <1>0, <2>3, <3>1
  <2>4. CASE StepThrows(p)
    <3>1. pass[p].at # "idle"
      BY <2>4 DEF StepThrows, StepPoints
    <3>2. inbox' = inbox \/ Settle(p, "failed")
      BY <2>4 DEF StepThrows
    <3> QED
      BY <1>0, <2>1, <3>1, <3>2
  <2>5. ASSUME ~(Open(p) \/ FinishDelivery(p) \/ StepThrows(p)) PROVE inbox' = inbox
    BY <1>3, <2>5, Zenon DEF PassStep, ListSubscribers, ReadLifecycle, RecordRefusal,
       BeginStart, CommitStart, DeclineStart, RequestCancel, SaveOutcome, ListPage,
       SavePage, WakeWait, RereadWait, Crash
  <2> QED
    BY <2>2, <2>3, <2>4, <2>5
<1>4. ASSUME NEW r \in Runs, RunStep(r) PROVE inbox' = inbox
  BY <1>4, Zenon DEF RunStep, RunParks, RunWakes, RunEnds, Migrate, SweepRun
<1>5. CASE Publish \/ UNCHANGED vars
  BY <1>5 DEF Publish, vars
<1> QED
  BY <1>1, <1>2, <1>3, <1>4, <1>5 DEF Next

(* A pass that has nothing left to wake leaves no Wait open to the Event:  *)
(* the Wait would be on a page, and the candidates of its pages are closed. *)
LEMMA NothingLeftOpen ==
  ASSUME TypeInv, ParksSound, OnStep, CloseInv, OwedSound, BooksCover,
         count.migrations = 0, NEW p \in Passes, pass[p].at = "settle"
  PROVE  \A x \in owed[pass[p].d] : ~OpenFor(x)
<1>1. PICK b \in Books : b = pass[p].book
  BY Bookkeeping
<1>2. PICK d \in Deliveries : d = pass[p].d
  BY Bookkeeping
<1> SUFFICES ASSUME NEW x \in owed[d], OpenFor(x) PROVE FALSE
  BY <1>2
<1>3. Covered(d, b) /\ WokenClosed(b) /\ NextStep(b) = "settle"
  BY <1>1, <1>2 DEF BooksCover, CloseInv, PagesClosed, OnStep, UnderWay, StepOf
<1>4. Listed(b) /\ b.woken = Len(b.pages) /\ b.pages \in Seq(SUBSET Saved)
  BY <1>3, NextStepMeans DEF WokenClosed, Books
<1>5. \E i \in DOMAIN b.pages : \E e \in b.pages[i] : e.run = x[1] /\ e.pos = x[2]
  BY <1>3, <1>4 DEF Covered, Listed
<1>6. PICK i \in DOMAIN b.pages : \E e \in b.pages[i] : e.run = x[1] /\ e.pos = x[2]
  BY <1>5
<1>7. PICK e \in b.pages[i] : e.run = x[1] /\ e.pos = x[2]
  BY <1>6
<1>8. Closed(e)
  BY <1>3, <1>4 DEF WokenClosed
<1> QED
  BY <1>7, <1>8 DEF Closed, SameWait, OpenFor

LEMMA DeliveredStaysReached ==
  ASSUME TypeInv, RunsOfArrivals, ParksSound, OnStep, AllReached, CloseInv, OwedSound,
         BooksCover, DeliveredReachesWaits, [Next]_vars
  PROVE  DeliveredReachesWaits'
<1> SUFFICES ASSUME count'.migrations = 0, NEW d \in Deliveries, inbox'[d] = "delivered",
                    NEW x \in owed'[d], OpenFor(x)'
             PROVE  FALSE
  BY DEF DeliveredReachesWaits, EveryOpenWaitReached, OpenFor
<1>1. count.migrations = 0
  <2>1. count \in Counts
    BY DEF TypeInv, RunTypes
  <2> QED
    BY <2>1, MigrationsCount DEF Counts
<1>2. owed'[d] = owed[d]
  <2>1. inbox \in [Deliveries -> Rows]
    BY DEF TypeInv, FlowInv, FlowTypes
  <2> QED
    BY <2>1, OwedRecorded DEF Receive
<1>3. x \in owed[d] /\ OpenFor(x)
  BY <1>2, OpenFalls
<1>4. CASE inbox[d] = "delivered"
  BY <1>1, <1>3, <1>4 DEF DeliveredReachesWaits, EveryOpenWaitReached, OpenFor
<1>5. CASE \E p \in Passes : FinishDelivery(p) /\ d = pass[p].d
  <2>1. PICK p \in Passes : FinishDelivery(p) /\ d = pass[p].d
    BY <1>5
  <2>2. pass[p].at = "settle"
    BY <2>1 DEF FinishDelivery
  <2> QED
    BY <1>1, <1>3, <2>1, <2>2, NothingLeftOpen
<1> QED
  BY <1>4, <1>5, BecomesDelivered

LEMMA OwedGoesOn ==
  ASSUME DecisionInv, OnStep, ParksSound, AllReached, ViewsHold, CloseInv, OwedInv,
         [Next]_vars
  PROVE  OwedInv'
<1>0. /\ TypeInv /\ RunsOfArrivals /\ LivesSettled /\ OwedSound /\ BooksCover
      /\ DeliveredReachesWaits
  BY DEF DecisionInv, Ledger, OwedInv
<1>1. LivesSettled'
  BY <1>0, LivesStaySettled
<1>2. OwedSound'
  BY <1>0, OwedStaysSound
<1>3. BooksCover'
  <2> SUFFICES ASSUME count'.migrations = 0
               PROVE  /\ \A d \in Deliveries : CoveredThen(d, memo'[d])
                      /\ \A p \in Passes : pass'[p].at \notin {"idle", "open"} =>
                           CoveredThen(pass'[p].d, pass'[p].book)
    BY DEF BooksCover, Covered, CoveredThen, UnderWay
  <2>1. count \in Counts
    BY <1>0 DEF TypeInv, RunTypes
  <2>2. count.migrations = 0
    BY <1>0, <2>1, MigrationsCount DEF Counts
  <2> QED
    BY <1>0, <2>2, BooksStayCovering
<1>4. DeliveredReachesWaits'
  BY <1>0, DeliveredStaysReached
<1> QED
  BY <1>1, <1>2, <1>3, <1>4 DEF OwedInv
-----------------------------------------------------------------------------
(***************************************************************************)
(* The invariant, and what follows from it.                                *)
(***************************************************************************)
WakeInv ==
  /\ DecisionInv
  /\ OnStep /\ ParksSound /\ AllReached /\ OfferedIsListed
  /\ OneWaitInv /\ StartInv /\ CloseInv /\ OwedInv

LEMMA WakesBegin == Init => WakeInv
<1> SUFFICES ASSUME Init PROVE WakeInv
  OBVIOUS
<1>1. DecisionInv /\ TypeInv
  BY DecisionsBegin, Begins
<1>2. /\ NoMemo \in Books /\ ~NoMemo.listed /\ NoMemo.life = NoLife /\ NoMemo.pages = <<>>
      /\ NoMemo.woken = 0 /\ NoMemo.more /\ NoMemo.life.runs = {}
      /\ Idle.at = "idle" /\ Idle.todo = {}
  BY NothingIsTyped DEF NoMemo, NoLife
<1>3. /\ \A d \in Deliveries : /\ inbox[d] = "absent" /\ memo[d] = NoMemo
                               /\ woke[d] = {} /\ owed[d] = {}
      /\ \A p \in Passes : pass[p] = Idle
      /\ count.migrations = 0
  BY DEF Init
<1>4. OnStep /\ AllReached /\ OfferedIsListed
  BY <1>2, <1>3 DEF OnStep, AllReached, PagesReached, OfferedIsListed, UnderWay
<1>5. ParksSound
  <2>1. ASSUME NEW r \in Runs
        PROVE  park[r].st # "resuming" /\ park[r].wake = NoWake /\ park[r].token = 0
    BY DEF Init, NextPark, NoPark
  <2> QED
    BY <1>3, <2>1 DEF ParksSound
<1>6. OneWaitInv
  BY <1>2, <1>3 DEF OneWaitInv, WakesKept, PassesAgree, WakesOneWaitOfARun, Topmost
<1>7. StartInv
  BY <1>2, <1>3 DEF StartInv, ViewsHold, StartsAnswer, NotWokenByItsStart, BookAnswers,
                    UnderWay
<1>8. CloseInv
  <2>1. WokenClosed(NoMemo)
    BY <1>2 DEF WokenClosed
  <2> QED
    BY <1>2, <1>3, <2>1 DEF CloseInv, RereadsStale, PagesClosed, UnderWay
<1>9. OwedInv
  BY <1>2, <1>3 DEF OwedInv, LivesSettled, LifeSettled, OwedSound, BooksCover, Covered,
                    DeliveredReachesWaits, EveryOpenWaitReached, UnderWay
<1> QED
  BY <1>1, <1>4, <1>5, <1>6, <1>7, <1>8, <1>9 DEF WakeInv

LEMMA WakesGoOn == WakeInv /\ [Next]_vars => WakeInv'
<1> SUFFICES ASSUME WakeInv, [Next]_vars PROVE WakeInv'
  OBVIOUS
<1>1. TypeInv /\ RunsOfArrivals /\ ViewsHold
  BY DEF WakeInv, DecisionInv, Ledger, StartInv
<1>2. DecisionInv'
  BY DecisionsGoOn DEF WakeInv
<1>3. OnStep' /\ ParksSound' /\ OfferedIsListed'
  BY <1>1, StepsStay, ParksStaySound, OffersStayListed DEF WakeInv
<1>4. AllReached'
  BY <1>1, AllStayReached DEF WakeInv
<1>5. OneWaitInv'
  BY <1>1, OneWaitStays DEF WakeInv
<1>6. StartInv'
  BY StartsGoOn DEF WakeInv
<1>7. CloseInv'
  BY <1>1, ClosingGoesOn DEF WakeInv
<1>8. OwedInv'
  BY <1>1, OwedGoesOn DEF WakeInv
<1> QED
  BY <1>2, <1>3, <1>4, <1>5, <1>6, <1>7, <1>8 DEF WakeInv

LEMMA WakesHold == Spec => []WakeInv
BY WakesBegin, WakesGoOn, PTL DEF Spec

(* An arrival that was never reopened after a failure wakes one Wait of a  *)
(* run: every page is saved before the first wake, so the Wait a woken run *)
(* parks next on the same Event is on none (fanOutDelivery).               *)
THEOREM OneWaitOfARun == Spec => []WakesOneWaitOfARun
<1>1. WakeInv => WakesOneWaitOfARun
  BY DEF WakeInv, OneWaitInv
<1> QED
  BY <1>1, WakesHold, PTL

(* Where every version starts the Event, no attempt, zombie or retry hands *)
(* it to a Wait of the run it started (settledExecutionIds).               *)
THEOREM StartWakesOthers == Spec => []NotWokenByItsStart
<1>1. WakeInv => NotWokenByItsStart
  BY DEF WakeInv, StartInv
<1> QED
  BY <1>1, WakesHold, PTL

(* Until a second Migration, a saved candidate is open no more once its    *)
(* page is delivered (canRefreshWaitCandidate).                            *)
THEOREM PagesWoken == Spec => []CandidatesWoken
<1>1. WakeInv => CandidatesWoken
  <2> SUFFICES ASSUME WakeInv, count.migrations <= 1, NEW d \in Deliveries,
                      NEW i \in 1 .. memo[d].woken, NEW c \in memo[d].pages[i]
               PROVE  ~(SameWait(c) /\ Claimable(park[c.run]))
    BY DEF CandidatesWoken
  <2>1. WokenClosed(memo[d])
    BY DEF WakeInv, CloseInv, PagesClosed
  <2> QED
    BY <2>1 DEF WokenClosed, Closed
<1> QED
  BY <1>1, WakesHold, PTL

(* Where no Migration moved a run, a delivered Event has reached every     *)
(* Wait it found open, whatever the number of pages, of passes and of      *)
(* retries (listWaitsForEvent, resumeWaitsMatchingEvent).                  *)
THEOREM OpenWaitsReached == Spec => []DeliveredReachesWaits
<1>1. WakeInv => DeliveredReachesWaits
  BY DEF WakeInv, OwedInv
<1> QED
  BY <1>1, WakesHold, PTL
=============================================================================
