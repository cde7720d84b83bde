------------------------------- MODULE Delivery -------------------------------
(***************************************************************************)
(* The delivery of Events to one workflow, for one entity.                 *)
(*                                                                         *)
(* An arrival is an inbox row.  A `delivery` schedule row makes a worker's *)
(* pass fan it out in durable steps: the subscriber list, the Lifecycle    *)
(* Rules (a start, a refusal or a Cancel), every page of parked Waits, and *)
(* the wakes of each page.  The step memo and the settling write are       *)
(* fenced on the pass's owner token; what the steps themselves write - the *)
(* run, the refusal, the Cancel decision, the wakes - is not, so a pass    *)
(* that lost its lease keeps committing them beside its successor.         *)
(*                                                                         *)
(* The pass machinery is LeasedPass; here a lost lease queues the row and  *)
(* charges one failure to the step under way.  A run is kept to what a     *)
(* delivery reads and writes of it: whether it is in flight, its Cancel    *)
(* claim and its one open Event Wait (RunWaits has the rest).  Exit        *)
(* claims, a Wait's match expression, pauses and further workflows, whose  *)
(* rows and steps are disjoint, are left out.                              *)
(***************************************************************************)
EXTENDS Naturals, Sequences, FiniteSets, FiniteSetsExt

CONSTANTS
  Deliveries,        \* the arrivals, each an inbox id
  Runs,              \* run ids: 1 .. N, and the order of wait ids
  Passes,            \* the passes worker loops can be making at once
  Settings,          \* by name, a workflow and the surroundings of it:
                     \*   arrivals: those that come
                     \*   publications: the versions published, in order,
                     \*     each arrival's Event in it and its Concurrency
                     \*   standing: the runs in flight at first, parked
                     \*   guarded: whether the workflow tracks an Entity
                     \*   wakes: the arrivals whose Event the Waits await
                     \*   refused: those whose payload their Event refuses
                     \*   hosted: those a host inserts by the SQL contract
                     \*   outlet: whether a Canceled outlet parks again
                     \*   and the bounds waits, of one run in sequence,
                     \*     resends, expiries, crashes and migrations
  PAGE_SIZE,         \* WAIT_CANDIDATE_PAGE_SIZE, 200 in the code
  STEP_RETRY_LIMIT,  \* failures of one step before the delivery fails
  NoDelivery

(* What an arrival's Event is in a published version: "declined" is a     *)
(* start its Start Filter refuses, "unrunnable" a start of a graph the     *)
(* preflight refuses.                                                      *)
StartRoles == {"start", "declined", "unrunnable"}
EventRoles == {"none", "cancel"} \cup StartRoles

Comparing == {"first-wins", "newest-wins"}
Policies == {"unlimited"} \cup Comparing

ASSUME RunsAreIds == Runs \subseteq Nat /\ IsFiniteSet(Runs)
ASSUME NoDeliveryIsNone == NoDelivery \notin Deliveries
ASSUME PassesAreNoMarks == "none" \notin Passes /\ "queued" \notin Passes
ASSUME PagesHoldSome == PAGE_SIZE \in Nat \ {0}

(* A workflow whose every version compares the entity's runs was admitting *)
(* one at a time before, too.                                              *)
ASSUME SettingsAreSound ==
  \A s \in DOMAIN Settings :
    LET here == Settings[s] IN
    /\ here.standing \subseteq Runs
    /\ here.publications \in
         Seq([role : [Deliveries -> EventRoles], concurrency : Policies])
    /\ here.publications # <<>>
    /\ (\A v \in DOMAIN here.publications :
          here.publications[v].concurrency \in Comparing)
         => \A r, q \in here.standing : r = q

VARIABLES
  setting,  \* which of the Settings this is: no step changes it
  inbox,    \* the inbox row of each arrival
  sched,    \* its schedule row: "none", "queued", or the pass that leases it
  memo,     \* the memo rows of its steps
  run,      \* [status, by, claim]: by the arrival that opened it
  park,     \* the Event Wait of each run: [pos, st, token, wake]
  refusal,  \* whether an Entity admission refusal is recorded
  decided,  \* whether a Cancel decision is recorded
  version,  \* the index of the published version
  pass,     \* what each pass is doing
  count,    \* how often each bounded event has happened
  woke,     \* history: the Waits <<run, position>> each arrival woke
  owed,     \* history: the Waits open to the Event when it arrived
  after     \* history: the Cancel decisions committed before a run opened

rows == <<inbox, sched, memo>>
decisions == <<refusal, decided>>
workflow == <<setting, version>>
runs == <<run, park>>
history == <<woke, owed, after>>
vars == <<rows, runs, decisions, workflow, pass, count, history>>

-----------------------------------------------------------------------------
(* Rows                                                                    *)

Here == Settings[setting]
Publications == Here.publications
Standing == Here.standing
Guarded == Here.guarded

NoLife == [kind |-> "unread", runs |-> {}]
Outcome(kind, rs) == [kind |-> kind, runs |-> rs]

NoMemo == [listed |-> FALSE, roles |-> {}, life |-> NoLife, pages |-> <<>>,
           more |-> TRUE, woken |-> 0, fails |-> 0]

NoView == [inFlight |-> {}, own |-> {}, refused |-> FALSE]

Idle == [at |-> "idle", d |-> NoDelivery, book |-> NoMemo, life |-> NoLife,
         concurrency |-> "unlimited", view |-> NoView, todo |-> {}]

NoWake == [kind |-> "none", by |-> NoDelivery]
NoPark == [pos |-> 0, st |-> "none", token |-> 0, wake |-> NoWake]
NextPark(k) == [pos |-> k.pos + 1, st |-> "waiting", token |-> 0, wake |-> NoWake]
Resolved(k, kind, d) ==
  [k EXCEPT !.st = "resuming", !.wake = [kind |-> kind, by |-> d]]
Gone(k) == [k EXCEPT !.st = "none", !.wake = NoWake]

InFlight == {r \in Runs : run[r].status = "live" /\ run[r].claim = NoDelivery}

(* Mutant: an arrival's run is looked for among the runs still in flight.   *)
OpenedBy_InFlight(d) == {r \in Runs : run[r].status = "live" /\ run[r].by = d}
(* `findByDelivery`: the run an arrival opened, whatever it has done since. *)
OpenedBy(d) == {r \in Runs : run[r].status \in {"live", "over"} /\ run[r].by = d}

(* `claimablePark`.                                                        *)
Claimable(k) == k.st = "waiting" \/ (k.st = "resuming" /\ k.wake.kind = "migrate")

ParkedOnEvent == {r \in Runs : run[r].status = "live" /\ park[r].st = "waiting"}

(* The Waits the Event may claim: a Migration's wake does not close one.   *)
OpenOnEvent == {r \in Runs : run[r].status = "live" /\ Claimable(park[r])}

Published(d) == Publications[version].role[d]

-----------------------------------------------------------------------------
(* The delivery's own rows                                                 *)

(* A pass's memo and settling writes are refused once the row is not its.  *)
Holds(p) == sched[pass[p].d] = p

(* What `listEventSubscribers` finds: the start or cancel role of the      *)
(* subscription index Publish wrote, and the wait role of any parked run.  *)
RolesOf(d) ==
  (CASE Published(d) \in StartRoles -> {"start"}
     [] Published(d) = "cancel" -> {"cancel"}
     [] OTHER -> {})
  \cup (IF d \in Here.wakes /\ ParkedOnEvent # {} THEN {"wait"} ELSE {})

NeedsRules(b) == b.roles \cap {"start", "cancel"} # {} /\ b.life = NoLife

(* Mutant: a page's wakes are written before the next page is read.        *)
NextStep_WakesBeforeNextPage(b) ==
  IF ~b.listed THEN "subscribers"
  ELSE IF NeedsRules(b) THEN "lifecycle"
  ELSE IF b.woken < Len(b.pages) THEN "wake"
  ELSE IF "wait" \in b.roles /\ b.more THEN "list" ELSE "settle"
(* The first step of the fan-out that the memo does not answer.            *)
NextStep(b) ==
  IF ~b.listed THEN "subscribers"
  ELSE IF NeedsRules(b) THEN "lifecycle"
  ELSE IF "wait" \in b.roles /\ b.more THEN "list"
  ELSE IF b.woken < Len(b.pages) THEN "wake" ELSE "settle"

Candidate(c, step) == [run |-> c.run, pos |-> c.pos, token |-> c.token, step |-> step]

(* The pass goes on with the memo `b`: a page's delivery starts with every *)
(* candidate the page saved.                                               *)
Continue(p, b) ==
  [pass[p] EXCEPT
     !.at = NextStep(b), !.book = b, !.life = NoLife, !.view = NoView,
     !.todo = IF NextStep(b) = "wake"
              THEN {Candidate(c, "claim") : c \in b.pages[b.woken + 1]}
              ELSE {}]

(* The memo row of the step under way; a refused write stops the pass.     *)
WriteMemo(p, b) ==
  IF Holds(p)
  THEN /\ memo' = [memo EXCEPT ![pass[p].d] = [b EXCEPT !.fails = 0]]
       /\ pass' = [pass EXCEPT ![p] = Continue(p, [b EXCEPT !.fails = 0])]
  ELSE /\ pass' = [pass EXCEPT ![p] = Idle]
       /\ UNCHANGED memo

(* Mutant: settling leaves the schedule row behind.                        *)
Settle_KeepsSchedule(p, status) ==
  /\ pass' = [pass EXCEPT ![p] = Idle]
  /\ IF Holds(p)
     THEN LET d == pass[p].d IN
          /\ inbox' = [inbox EXCEPT ![d] = IF @ = "pending" THEN status ELSE @]
          /\ sched' = [sched EXCEPT ![d] = "queued"]
          /\ memo' = [memo EXCEPT ![d] = NoMemo]
     ELSE UNCHANGED rows
(* `finishDelivery` and `failDelivery`: the inbox row settles if it is     *)
(* still pending, and the schedule row goes with its memo.                 *)
Settle(p, status) ==
  /\ pass' = [pass EXCEPT ![p] = Idle]
  /\ IF Holds(p)
     THEN LET d == pass[p].d IN
          /\ inbox' = [inbox EXCEPT ![d] = IF @ = "pending" THEN status ELSE @]
          /\ sched' = [sched EXCEPT ![d] = "none"]
          /\ memo' = [memo EXCEPT ![d] = NoMemo]
     ELSE UNCHANGED rows

-----------------------------------------------------------------------------
(* Arrivals                                                                *)

(* `writeArrival` on a new key: the inbox row and its schedule row.  A     *)
(* host's own insert leaves the schedule row to the poll.                  *)
Receive(d) ==
  /\ inbox[d] = "absent" /\ d \in Here.arrivals
  /\ inbox' = [inbox EXCEPT ![d] = "pending"]
  /\ sched' = [sched EXCEPT ![d] = IF d \in Here.hosted THEN "none" ELSE "queued"]
  /\ owed' = [owed EXCEPT ![d] = IF d \in Here.wakes
                                 THEN {<<r, park[r].pos>> : r \in OpenOnEvent}
                                 ELSE {}]
  /\ UNCHANGED <<memo, runs, decisions, workflow, pass, count, woke, after>>

PollInbox(d) ==
  /\ inbox[d] = "pending" /\ sched[d] = "none"
  /\ sched' = [sched EXCEPT ![d] = "queued"]
  /\ UNCHANGED <<inbox, memo, runs, decisions, workflow, pass, count, history>>

(* `writeArrival` on a key a failed row holds reopens the row, with a new  *)
(* schedule row and so no memo.  Any other row answers as a duplicate.     *)
Resend(d) ==
  /\ inbox[d] = "failed"
  /\ count.resends < Here.resends
  /\ inbox' = [inbox EXCEPT ![d] = "pending"]
  /\ sched' = [sched EXCEPT ![d] = "queued"]
  /\ count' = [count EXCEPT !.resends = @ + 1]
  /\ UNCHANGED <<memo, runs, decisions, workflow, pass, history>>

(* The inbox sweep.  Cancel decisions go with the row by cascade.          *)
SweepInbox(d) ==
  /\ inbox[d] \in {"delivered", "failed"}
  /\ inbox' = [inbox EXCEPT ![d] = "swept"]
  /\ decided' = [decided EXCEPT ![d] = FALSE]
  /\ UNCHANGED <<sched, memo, runs, refusal, workflow, pass, count, history>>

-----------------------------------------------------------------------------
(* One pass                                                                *)

Claim(p, d) ==
  /\ pass[p].at = "idle" /\ sched[d] = "queued"
  /\ sched' = [sched EXCEPT ![d] = p]
  /\ pass' = [pass EXCEPT ![p] = [Idle EXCEPT !.at = "open", !.d = d]]
  /\ UNCHANGED <<inbox, memo, runs, decisions, workflow, count, history>>

(* The pass reads the inbox row and the memo.  A row that is gone leaves   *)
(* nothing to do, a settled one only its schedule row; a payload its Event *)
(* refuses, or a step the last expired lease spent, fails the delivery.    *)
Open(p) ==
  LET d == pass[p].d IN
  /\ pass[p].at = "open"
  /\ CASE inbox[d] = "swept" ->
            pass' = [pass EXCEPT ![p] = Idle] /\ UNCHANGED rows
       [] inbox[d] \in {"delivered", "failed"} -> Settle(p, inbox[d])
       [] inbox[d] = "pending" ->
            IF d \in Here.refused \/ memo[d].fails >= STEP_RETRY_LIMIT
            THEN Settle(p, "failed")
            ELSE pass' = [pass EXCEPT ![p] = Continue(p, memo[d])] /\ UNCHANGED rows
  /\ UNCHANGED <<runs, decisions, workflow, count, history>>

(* `subscribers-*`: reading commutes with everything but a lost lease,     *)
(* which refuses the write, so one action reads and saves.                 *)
ListSubscribers(p) ==
  /\ pass[p].at = "subscribers"
  /\ WriteMemo(p, [pass[p].book EXCEPT !.listed = TRUE, !.roles = RolesOf(pass[p].d)])
  /\ UNCHANGED <<inbox, sched, runs, decisions, workflow, count, history>>

(* The step under way has its outcome, and goes on to save it.             *)
Comes(p, outcome) ==
  pass' = [pass EXCEPT ![p].at = "outcome", ![p].life = outcome, ![p].view = NoView]

(* `applyLifecycleRules` up to its first write: a decision an earlier      *)
(* attempt committed answers, ahead of the published version's own rules.  *)
(* The Entity resolver is external: it admits a guarded start or not.      *)
ReadLifecycle(p) ==
  LET d == pass[p].d
      role == Published(d)
      goes(at) == pass' = [pass EXCEPT
        ![p].at = at, ![p].concurrency = Publications[version].concurrency]
  IN /\ pass[p].at = "lifecycle"
     /\ IF "start" \in pass[p].book.roles /\ (refusal[d] \/ OpenedBy(d) # {})
        THEN Comes(p, IF refusal[d] THEN Outcome("refused", {})
                                    ELSE Outcome("started", OpenedBy(d)))
        ELSE \/ role \in {"none", "unrunnable"} /\ Comes(p, Outcome(role, {}))
             \/ role = "cancel" /\ goes("cancel")
             \/ role = "declined" /\ goes("decline")
             \/ role = "start" /\ goes("admit")
             \/ role = "start" /\ Guarded /\ goes("refuse")
     /\ UNCHANGED <<rows, runs, decisions, workflow, count, history>>

-----------------------------------------------------------------------------
(* Starts                                                                  *)

(* `recordAdmissionRefusal`, serializable: the run another attempt opened  *)
(* answers first, and the start goes on to admission to find it.           *)
RecordRefusal(p) ==
  LET d == pass[p].d IN
  /\ pass[p].at = "refuse"
  /\ IF OpenedBy(d) # {}
     THEN /\ pass' = [pass EXCEPT ![p].at = "admit"]
          /\ UNCHANGED refusal
     ELSE /\ refusal' = [refusal EXCEPT ![d] = TRUE]
          /\ Comes(p, Outcome("refused", {}))
  /\ UNCHANGED <<rows, runs, decided, workflow, count, history>>

(* Whether `startForEntity` needs a serializable transaction.              *)
AdmissionReads(p) == Guarded \/ pass[p].concurrency \in Comparing

(* What `admitStart` reads: the refusal of a guarded start, the run this   *)
(* arrival opened, and the runs in flight when the Concurrency compares.   *)
View(p) ==
  [inFlight |-> IF pass[p].concurrency \in Comparing THEN InFlight ELSE {},
   own |-> OpenedBy(pass[p].d),
   refused |-> Guarded /\ refusal[pass[p].d]]

(* `startForEntity` begins: a serializable transaction reads one snapshot. *)
BeginStart(p) ==
  /\ pass[p].at = "admit"
  /\ pass' = [pass EXCEPT ![p].at = "admitting", ![p].view = View(p)]
  /\ UNCHANGED <<rows, runs, decisions, workflow, count, history>>

(* `openRun`, with the runs a newest-wins start displaces: each ends       *)
(* superseded and its park is cancelled.                                   *)
OpenRun(p, displaced) ==
  \E r \in Runs \ Standing :
    /\ run[r].status = "absent"
    /\ \A s \in Runs \ Standing : run[s].status = "absent" => r <= s
    /\ run' = [s \in Runs |->
         IF s = r THEN [status |-> "live", by |-> pass[p].d, claim |-> NoDelivery]
         ELSE IF s \in displaced THEN [run[s] EXCEPT !.status = "over"]
         ELSE run[s]]
    /\ park' = [s \in Runs |-> IF s \in displaced THEN Gone(park[s]) ELSE park[s]]
    /\ after' = [after EXCEPT ![r] = {d \in Deliveries : decided[d]}]
    /\ Comes(p, Outcome("started", {r} \cup displaced))

(* Mutant: the transaction runs at the database's default isolation.       *)
Serialized_ReadCommitted(p) == TRUE
(* A serializable transaction that writes commits only while what it read  *)
(* still stands: PostgreSQL aborts it otherwise, and it runs again.        *)
Serialized(p) == AdmissionReads(p) => pass[p].view = View(p)

(* The end of `startForEntity`.  A recorded refusal answers, then the run  *)
(* this arrival opened, then first-wins defers to a run in flight.         *)
CommitStart(p) ==
  LET seen == pass[p].view
      d == pass[p].d
  IN
  /\ pass[p].at = "admitting"
  /\ \/ /\ seen.refused
        /\ Comes(p, Outcome("refused", {}))
        /\ UNCHANGED <<runs, after>>
     \/ /\ ~seen.refused /\ seen.own # {}
        /\ Comes(p, Outcome("started", seen.own))
        /\ UNCHANGED <<runs, after>>
     \/ /\ ~seen.refused /\ seen.own = {}
        /\ pass[p].concurrency = "first-wins" /\ seen.inFlight # {}
        /\ pass' = [pass EXCEPT ![p].at = "decline", ![p].view = NoView]
        /\ UNCHANGED <<runs, after>>
     \/ /\ ~seen.refused /\ seen.own = {}
        /\ pass[p].concurrency # "first-wins" \/ seen.inFlight = {}
        /\ IF ~Serialized(p)
           THEN /\ pass' = [pass EXCEPT ![p].at = "admit", ![p].view = NoView]
                /\ UNCHANGED <<runs, after>>
           ELSE IF OpenedBy(d) # {}
           THEN Comes(p, Outcome("started", OpenedBy(d))) /\ UNCHANGED <<runs, after>>
           ELSE OpenRun(p, seen.inFlight \cap InFlight)
  /\ UNCHANGED <<rows, decisions, workflow, count, woke, owed>>

(* A Start Filter's or first-wins' refusal: an audit row, which no later   *)
(* attempt reads.                                                          *)
DeclineStart(p) ==
  /\ pass[p].at = "decline"
  /\ Comes(p, Outcome("declined", {}))
  /\ UNCHANGED <<rows, runs, decisions, workflow, count, history>>

-----------------------------------------------------------------------------
(* Cancels                                                                 *)

(* Mutant: a retried Cancel flags again instead of reading its decision.   *)
RequestCancel_NoDecision(p) ==
  LET d == pass[p].d IN
  /\ pass[p].at = "cancel"
  /\ decided' = [decided EXCEPT ![d] = TRUE]
  /\ run' = [r \in Runs |-> IF r \in InFlight THEN [run[r] EXCEPT !.claim = d]
                                              ELSE run[r]]
  /\ park' = [r \in Runs |-> IF r \in InFlight /\ park[r].st = "waiting"
                             THEN Resolved(park[r], "cancel", d) ELSE park[r]]
  /\ Comes(p, Outcome("canceled", InFlight))
  /\ UNCHANGED <<rows, refusal, workflow, count, history>>
(* `requestCancelForEntity`: the first attempt to insert the decision row  *)
(* claims the runs in flight and resolves their open parks; a later one    *)
(* answers the runs the first claimed.  The decision references its inbox  *)
(* row, so the step of a pass that outlived the row fails.                 *)
RequestCancel(p) ==
  LET d == pass[p].d IN
  /\ pass[p].at = "cancel"
  /\ IF inbox[d] = "swept"
     THEN /\ pass' = [pass EXCEPT ![p] = Idle]
          /\ UNCHANGED <<runs, decided>>
     ELSE IF decided[d]
     THEN /\ Comes(p, Outcome("canceled", {r \in Runs : run[r].claim = d}))
          /\ UNCHANGED <<runs, decided>>
     ELSE /\ decided' = [decided EXCEPT ![d] = TRUE]
          /\ run' = [r \in Runs |-> IF r \in InFlight
                                    THEN [run[r] EXCEPT !.claim = d] ELSE run[r]]
          /\ park' = [r \in Runs |-> IF r \in InFlight /\ park[r].st = "waiting"
                                     THEN Resolved(park[r], "cancel", d)
                                     ELSE park[r]]
          /\ Comes(p, Outcome("canceled", InFlight))
  /\ UNCHANGED <<rows, refusal, workflow, count, history>>

(* `lifecycle-*` is saved with its outcome.                                *)
SaveOutcome(p) ==
  /\ pass[p].at = "outcome"
  /\ WriteMemo(p, [pass[p].book EXCEPT !.life = pass[p].life])
  /\ UNCHANGED <<inbox, sched, runs, decisions, workflow, count, history>>

-----------------------------------------------------------------------------
(* Waits                                                                   *)

Before(c, e) == c.run < e.run \/ (c.run = e.run /\ c.pos < e.pos)

(* Mutant: the run this arrival just started is offered its own Event.     *)
Settled_Nothing(b) == {}
(* `settledExecutionIds`: the runs the Lifecycle Rules just settled.       *)
Settled(b) == b.life.runs

(* `listWaitsForEvent`, the rows after the cursor of the pages before.     *)
Candidates(b) ==
  {c \in {[run |-> r, pos |-> park[r].pos, token |-> park[r].token] :
            r \in ParkedOnEvent \ Settled(b)} :
     \A i \in DOMAIN b.pages : \A e \in b.pages[i] : Before(e, c)}

PageOf(S) ==
  CHOOSE T \in SUBSET S :
    /\ Cardinality(T) = IF Cardinality(S) < PAGE_SIZE THEN Cardinality(S) ELSE PAGE_SIZE
    /\ \A c \in T, e \in S \ T : Before(c, e)

(* Mutant: the scan stops at the first page, full or not.                  *)
HasMore_Never(page) == FALSE
(* Only a full page is followed by another.                                *)
HasMore(page) == Cardinality(page) = PAGE_SIZE

(* `wait-candidates-*`: read and saved, as ListSubscribers is.             *)
ListPage(p) ==
  LET b == pass[p].book
      page == PageOf(Candidates(b))
  IN /\ pass[p].at = "list"
     /\ WriteMemo(p, [b EXCEPT !.pages = Append(@, page), !.more = HasMore(page)])
     /\ UNCHANGED <<inbox, sched, runs, decisions, workflow, count, history>>

ClaimedBy(k, d) == k.st = "resuming" /\ k.wake = [kind |-> "resume", by |-> d]

SameWait(c) == run[c.run].status = "live" /\ park[c.run].pos = c.pos

(* `claimWaitState` for one candidate: the row by its id and its token.    *)
WakeWait(p, c) ==
  LET d == pass[p].d
      k == park[c.run]
      named == SameWait(c) /\ k.token = c.token
      rest == pass[p].todo \ {c}
  IN
  /\ pass[p].at = "wake" /\ c \in pass[p].todo /\ c.step = "claim"
  /\ IF named /\ Claimable(k)
     THEN /\ park' = [park EXCEPT ![c.run] = Resolved(k, "resume", d)]
          /\ woke' = [woke EXCEPT ![d] = @ \cup {<<c.run, c.pos>>}]
          /\ pass' = [pass EXCEPT ![p].todo = rest]
     ELSE /\ pass' = [pass EXCEPT ![p].todo =
                        IF named /\ ClaimedBy(k, d) THEN rest
                        ELSE rest \cup {Candidate(c, "reread")}]
          /\ UNCHANGED <<park, woke>>
  /\ UNCHANGED <<rows, run, decisions, workflow, count, owed, after>>

(* Mutant: a park whose token was rotated is given up.                     *)
Refreshable_Never(c, d) == FALSE
(* `canRefreshWaitCandidate`: the same row under a newer token, waiting or *)
(* resolved by this delivery.                                              *)
Refreshable(c, d) ==
  /\ SameWait(c)
  /\ park[c.run].token # c.token
  /\ park[c.run].st = "waiting" \/ ClaimedBy(park[c.run], d)

(* A claim that took nothing rereads the row and tries its newer token.    *)
RereadWait(p, c) ==
  /\ pass[p].at = "wake" /\ c \in pass[p].todo /\ c.step = "reread"
  /\ pass' = [pass EXCEPT ![p].todo = (@ \ {c}) \cup
       (IF Refreshable(c, pass[p].d)
        THEN {[c EXCEPT !.token = park[c.run].token, !.step = "claim"]} ELSE {})]
  /\ UNCHANGED <<rows, runs, decisions, workflow, count, history>>

(* `waits-*` is saved once every candidate of its page was offered.        *)
SavePage(p) ==
  /\ pass[p].at = "wake" /\ pass[p].todo = {}
  /\ WriteMemo(p, [pass[p].book EXCEPT !.woken = @ + 1])
  /\ UNCHANGED <<inbox, sched, runs, decisions, workflow, count, history>>

FinishDelivery(p) ==
  /\ pass[p].at = "settle"
  /\ Settle(p, "delivered")
  /\ UNCHANGED <<runs, decisions, workflow, count, history>>

-----------------------------------------------------------------------------
(* Faults                                                                  *)

StepPoints == {"subscribers", "lifecycle", "refuse", "admit", "admitting",
               "decline", "cancel", "list", "wake"}

(* Mutant: a failure that releases the row is not kept in the memo.        *)
StepThrows_NotCounted(p) ==
  LET d == pass[p].d IN
  /\ pass[p].at \in StepPoints
  /\ pass[p].at = "wake" => Cardinality(pass[p].todo) = 1
  /\ pass' = [pass EXCEPT ![p] = Idle]
  /\ sched' = [sched EXCEPT ![d] = IF Holds(p) THEN "queued" ELSE @]
  /\ UNCHANGED <<inbox, memo, runs, decisions, workflow, count, history>>
(* A step fails: its failure is counted and the row released, or, with     *)
(* its retries spent, the delivery fails.  A page's step fails only after  *)
(* every other candidate was tried.                                        *)
StepThrows(p) ==
  LET d == pass[p].d IN
  /\ pass[p].at \in StepPoints
  /\ pass[p].at = "wake" => Cardinality(pass[p].todo) = 1
  /\ IF memo[d].fails + 1 >= STEP_RETRY_LIMIT \/ ~Holds(p)
     THEN Settle(p, "failed")
     ELSE /\ pass' = [pass EXCEPT ![p] = Idle]
          /\ sched' = [sched EXCEPT ![d] = "queued"]
          /\ memo' = [memo EXCEPT ![d].fails = @ + 1]
          /\ UNCHANGED inbox
  /\ UNCHANGED <<runs, decisions, workflow, count, history>>

(* The worker process of a pass dies; its lease stays.                     *)
Crash(p) ==
  /\ pass[p].at # "idle" /\ count.crashes < Here.crashes
  /\ pass' = [pass EXCEPT ![p] = Idle]
  /\ count' = [count EXCEPT !.crashes = @ + 1]
  /\ UNCHANGED <<rows, runs, decisions, workflow, history>>

(* A lease runs out: the next claim takes the row, and counts a failure    *)
(* against the step under way.  The pass, if it still runs, does not know. *)
LeaseExpires(d) ==
  /\ sched[d] \in Passes
  /\ memo' = [memo EXCEPT ![d].fails = @ + 1]
  /\ sched' = [sched EXCEPT ![d] = "queued"]
  /\ IF pass[sched[d]].d = d
     THEN /\ count.expiries < Here.expiries
          /\ count' = [count EXCEPT !.expiries = @ + 1]
     ELSE UNCHANGED count
  /\ UNCHANGED <<inbox, runs, decisions, workflow, pass, history>>

-----------------------------------------------------------------------------
(* The runs, Publish, a Migration and retention                            *)

RunParks(r) ==
  /\ run[r].status = "live" /\ park[r].st = "none" /\ park[r].pos < Here.waits
  /\ run[r].claim = NoDelivery \/ Here.outlet
  /\ park' = [park EXCEPT ![r] = NextPark(@)]
  /\ UNCHANGED <<rows, run, decisions, workflow, pass, count, history>>

(* A pass reads the wake: a migrate wake parks the Wait again under a new  *)
(* token, any other - or the Wait's timeout - lets the run go on.          *)
RunWakes(r) ==
  /\ run[r].status = "live" /\ park[r].st \in {"waiting", "resuming"}
  /\ park' = [park EXCEPT ![r] =
       IF @.wake.kind = "migrate"
       THEN [@ EXCEPT !.st = "waiting", !.token = park[r].token + 1, !.wake = NoWake]
       ELSE Gone(@)]
  /\ UNCHANGED <<rows, run, decisions, workflow, pass, count, history>>

RunEnds(r) ==
  /\ run[r].status = "live" /\ park[r].st = "none"
  /\ run' = [run EXCEPT ![r].status = "over"]
  /\ UNCHANGED <<rows, park, decisions, workflow, pass, count, history>>

Migrate(r) ==
  /\ r \in InFlight /\ park[r].st = "waiting"
  /\ count.migrations < Here.migrations
  /\ park' = [park EXCEPT ![r] = Resolved(@, "migrate", NoDelivery)]
  /\ count' = [count EXCEPT !.migrations = @ + 1]
  /\ UNCHANGED <<rows, run, decisions, workflow, pass, history>>

Publish ==
  /\ version < Len(Publications)
  /\ version' = version + 1
  /\ UNCHANGED <<setting, rows, runs, decisions, pass, count, history>>

(* `sweepableExecution`: a run stays while its arrival's inbox row does.   *)
Sweepable(r) ==
  run[r].status = "over" /\ (run[r].by # NoDelivery => inbox[run[r].by] = "swept")

SweepRun(r) ==
  /\ Sweepable(r)
  /\ run' = [run EXCEPT ![r].status = "swept"]
  /\ UNCHANGED <<rows, park, decisions, workflow, pass, count, history>>

(* Mutant: a refusal is swept by its age alone.                            *)
SweepRefusal_ByAge(d) ==
  /\ refusal[d]
  /\ refusal' = [refusal EXCEPT ![d] = FALSE]
  /\ UNCHANGED <<rows, runs, decided, workflow, pass, count, history>>
(* `sweepableWorkflowAudit`, for the refusal a redelivery answers from.    *)
SweepRefusal(d) ==
  /\ refusal[d] /\ inbox[d] = "swept"
  /\ refusal' = [refusal EXCEPT ![d] = FALSE]
  /\ UNCHANGED <<rows, runs, decided, workflow, pass, count, history>>

-----------------------------------------------------------------------------
Init ==
  /\ setting \in DOMAIN Settings
  /\ inbox = [d \in Deliveries |-> "absent"]
  /\ sched = [d \in Deliveries |-> "none"]
  /\ memo = [d \in Deliveries |-> NoMemo]
  /\ run = [r \in Runs |-> [status |-> IF r \in Standing THEN "live" ELSE "absent",
                            by |-> NoDelivery, claim |-> NoDelivery]]
  /\ park = [r \in Runs |-> IF r \in Standing THEN NextPark(NoPark) ELSE NoPark]
  /\ refusal = [d \in Deliveries |-> FALSE]
  /\ decided = [d \in Deliveries |-> FALSE]
  /\ version = 1
  /\ pass = [p \in Passes |-> Idle]
  /\ count = [resends |-> 0, expiries |-> 0, crashes |-> 0, migrations |-> 0]
  /\ woke = [d \in Deliveries |-> {}]
  /\ owed = [d \in Deliveries |-> {}]
  /\ after = [r \in Runs |-> {}]

(* What a pass does once it holds a row.                                   *)
PassStep(p) ==
  \/ Open(p) \/ ListSubscribers(p)
  \/ ReadLifecycle(p) \/ RecordRefusal(p) \/ BeginStart(p) \/ CommitStart(p)
  \/ DeclineStart(p) \/ RequestCancel(p) \/ SaveOutcome(p)
  \/ ListPage(p) \/ SavePage(p) \/ FinishDelivery(p)
  \/ \E c \in pass[p].todo : WakeWait(p, c) \/ RereadWait(p, c)

RunStep(r) ==
  RunParks(r) \/ RunWakes(r) \/ RunEnds(r) \/ Migrate(r) \/ SweepRun(r)

Next ==
  \/ \E d \in Deliveries :
       \/ Receive(d) \/ PollInbox(d) \/ Resend(d) \/ LeaseExpires(d)
       \/ SweepInbox(d) \/ SweepRefusal(d)
       \/ \E p \in Passes : Claim(p, d)
  \/ \E p \in Passes : PassStep(p) \/ StepThrows(p) \/ Crash(p)
  \/ \E r \in Runs : RunStep(r)
  \/ Publish

(* A worker loop polls the inbox, claims what is queued and carries every  *)
(* pass on; a lease nobody renews runs out.  Nothing is assumed of         *)
(* arrivals, runs, faults or the sweeps.                                   *)
Fairness ==
  /\ \A d \in Deliveries :
       /\ WF_vars(PollInbox(d))
       /\ WF_vars(\E p \in Passes : Claim(p, d))
       /\ WF_vars(LeaseExpires(d))
  /\ \A p \in Passes : WF_vars(PassStep(p))

Spec == Init /\ [][Next]_vars
FairSpec == Spec /\ Fairness

-----------------------------------------------------------------------------
(* Properties                                                              *)

Rows == {"absent", "pending", "delivered", "failed", "swept"}
Kept(d) == inbox[d] # "swept"
Points == StepPoints \cup {"idle", "open", "outcome", "settle"}

(* No Start Filter, Cancel or run in flight keeps the arrival from a start. *)
AlwaysStarts(d) ==
  \A v \in DOMAIN Publications :
    Publications[v].role[d] = "start" /\ Publications[v].concurrency # "first-wins"

(* The save rules keep one version from naming an Event a start and a      *)
(* Cancel at once; here no Publish gives an arrival the other role either. *)
RolesStay ==
  \A s \in DOMAIN Settings : \A d \in Deliveries :
    \A v, w \in DOMAIN Settings[s].publications :
      Settings[s].publications[v].role[d] = "cancel" =>
        Settings[s].publications[w].role[d] # "start"

(* A memo belongs to a scheduled delivery, a leased row to a pending       *)
(* arrival, and what a pass remembers of its memo is what the rows hold    *)
(* for as long as the lease is its own (the code's fence).                 *)
TypeOK ==
  /\ inbox \in [Deliveries -> Rows]
  /\ sched \in [Deliveries -> {"none", "queued"} \cup Passes]
  /\ version \in DOMAIN Publications
  /\ \A d \in Deliveries :
       /\ sched[d] = "none" => memo[d] = NoMemo
       /\ sched[d] # "none" => inbox[d] = "pending"
  /\ \A p \in Passes :
       /\ pass[p].at \in Points
       /\ pass[p].at \notin {"idle", "open"} /\ Holds(p) =>
            [pass[p].book EXCEPT !.fails = 0] = [memo[pass[p].d] EXCEPT !.fails = 0]

(* However often its delivery is retried, swept of its lease, run twice at *)
(* once or reopened after a failure, an arrival opens one run for as long  *)
(* as its inbox row is kept (openRun, findByDelivery, sweepableExecution). *)
OneRunPerArrival ==
  \A d \in Deliveries : Kept(d) => Cardinality({r \in Runs : run[r].by = d}) <= 1

(* Concurrency: while every version compares the entity's runs, at most    *)
(* one run is in flight without a claim (admitWithConcurrency in a         *)
(* serializable transaction).                                              *)
OneInFlight ==
  (\A v \in DOMAIN Publications : Publications[v].concurrency \in Comparing)
    => Cardinality(InFlight) <= 1

(* An arrival wakes one Wait of a run, not the sequential Waits the run    *)
(* parks on the same Event afterwards (fanOutDelivery saves every page     *)
(* before it writes any wake).                                             *)
WakesOneWaitOfARun ==
  \A d \in Deliveries : count.resends = 0 =>
    \A x, y \in woke[d] : x[1] = y[1] => x = y

(* The Event that started a run is not the Event its first Wait waits for  *)
(* (settledExecutionIds), while every version has it start: a pass that    *)
(* lost its lease may start the run another attempt had declined.          *)
NotWokenByItsStart ==
  \A d \in Deliveries : AlwaysStarts(d) => \A x \in woke[d] : run[x[1]].by # d

(* A Cancel claims the runs in flight when it was decided: its retries     *)
(* claim none that opened since (workflow_cancel_decisions).               *)
CancelReachesEarlierRuns ==
  \A r \in Runs : run[r].claim # NoDelivery => run[r].claim \notin after[r]

(* A delivered Event has reached every Wait it found open: a Wait whose    *)
(* Migration wake is pending too (claimablePark, release-policy.ts).       *)
EveryOpenWaitReached ==
  \A d \in Deliveries : inbox[d] = "delivered" =>
    \A x \in owed[d] : ~(run[x[1]].status = "live" /\ run[x[1]].claim = NoDelivery
                         /\ park[x[1]].pos = x[2] /\ Claimable(park[x[1]]))

(* The same where no Migration moved a run (listWaitsForEvent,             *)
(* resumeWaitsMatchingEvent): no page of candidates is left out.           *)
DeliveredReachesWaits == count.migrations = 0 => EveryOpenWaitReached

(* No saved candidate is left open once its page is delivered, though a    *)
(* Migration may have rotated its token (canRefreshWaitCandidate); a       *)
(* second one may wake it again before the reread, which then gives it up. *)
CandidatesWoken ==
  count.migrations <= 1 =>
    \A d \in Deliveries : \A i \in 1 .. memo[d].woken : \A c \in memo[d].pages[i] :
      ~(SameWait(c) /\ Claimable(park[c.run]))

(* A recorded arrival is delivered or fails (the executor's promise), with *)
(* finitely many failures.                                                 *)
Settles == \A d \in Deliveries : inbox[d] = "pending" ~> inbox[d] # "pending"

-----------------------------------------------------------------------------
(* The refinement: what the inbox promises of an arrival                   *)

Row(d) ==
  CASE inbox[d] = "absent" -> "new"
    [] inbox[d] = "pending" -> "pending"
    [] inbox[d] \in {"delivered", "failed"} -> "settled"
    [] OTHER -> "gone"

DecisionsOf(d) ==
  IF ~Kept(d) THEN {}
  ELSE (IF \E r \in Runs : run[r].by = d THEN {"started"} ELSE {})
       \cup (IF refusal[d] THEN {"refused"} ELSE {})
       \cup (IF decided[d] THEN {"canceled"} ELSE {})

Promise == INSTANCE Arrival WITH
  row <- [d \in Deliveries |-> Row(d)],
  outcome <- [d \in Deliveries |-> DecisionsOf(d)]

(* Retries, zombies, failures, reopenings, Publishes and sweeps leave each *)
(* arrival with at most one decision, kept while its row is kept.          *)
KeepsPromise == Promise!Spec
=============================================================================
