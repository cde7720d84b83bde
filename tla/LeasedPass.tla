------------------------------ MODULE LeasedPass ------------------------------
(***************************************************************************)
(* The durable executor over one run: its schedule row, its step memo and  *)
(* the passes that workers run over it (executor/pass.ts,                  *)
(* executor/runtime.ts, services/executions/repo/schedule.ts).             *)
(*                                                                         *)
(* A pass claims the row under a fresh owner token, loads the memo, runs   *)
(* the body, whose steps may run side by side, and ends with a terminal    *)
(* write or a release.  A heartbeat runs beside the body.  A worker may    *)
(* die, stall past its lease or lose the answer of a write at any point,   *)
(* and a stalled pass goes on as a zombie while its successor works.       *)
(*                                                                         *)
(* `Passes` are the slots passes run in.  A slot is claimed for again only *)
(* once nothing of its last pass is left, so the slot stands for the owner *)
(* token.  The body is abstracted to its steps: a step starts once the     *)
(* steps before it succeeded, and Terminal, which belongs to no node and   *)
(* writes the run's terminal record, once every node step is settled.      *)
(* Waits are the business of RunWaits.                                     *)
(***************************************************************************)
EXTENDS ReleasePolicy, Sequences, SequencesExt

CONSTANTS
    Passes,      \* the slots passes run in
    NodeSteps,   \* the steps that do a node's work
    Terminal,    \* the step that writes the terminal record
    Before,      \* [NodeSteps -> SUBSET NodeSteps]: every step upstream
    NoBeat,      \* no heartbeat is on its way to the database
    MaxFaults    \* bound: drains, and passes cut off while they open

ASSUME StepsAssumption ==
    /\ Terminal \notin NodeSteps
    /\ NoStep \notin NodeSteps \cup {Terminal}
    /\ NoBeat \notin NodeSteps \cup {Terminal, NoStep}
    /\ Before \in [NodeSteps -> SUBSET NodeSteps]

ASSUME PassesAssumption == NoPass \notin Passes

ASSUME FaultsAssumption == MaxFaults \in Nat

Steps == NodeSteps \cup {Terminal}

VARIABLES
    row,      \* the schedule row, as ReleasePolicy describes it
    memo,     \* [Steps -> memo row]
    pass,     \* [Passes -> the pass in the slot]
    subject,  \* how the run stands: "open" or how it ended
    tried,    \* history: how often a lease holder started a step, up to
              \* one more than STEP_RETRY_LIMIT
    begun,    \* history: the steps started under the current lease
    faults    \* drains, and passes cut off while they open, so far

vars == <<row, memo, pass, subject, tried, begun, faults>>

----------------------------------------------------------------------------

(* A pass's life.  "threw" and "lost" are the two ways PassState is        *)
(* stopped; in "ending" the terminal write committed and its answer is     *)
(* still on the way, so the pass itself does not know.                     *)
Phases == {"idle", "opening", "loading", "running", "threw", "lost",
           "ending", "ended"}

IdlePass == [at      |-> "idle",
             attempt |-> 0,                            \* claimed.attempt
             book    |-> [s \in Steps |-> "none"],     \* the memo it loaded
             running |-> <<>>,                         \* oldest first
             threw   |-> NoStep,
             beat    |-> NoBeat]

InitRow == [state |-> "queued", wake |-> "due", owner |-> NoPass,
            lease |-> "live", attempt |-> 0, running |-> NoStep]

NoMemos == [s \in Steps |-> NoMemo]

TypeOK ==
    /\ row \in [state   : {"queued", "leased", "gone"},
                wake    : {"due", "later"},
                owner   : Passes \cup {NoPass},
                lease   : {"live", "expired"},
                attempt : Nat,
                running : Steps \cup {NoStep}]
    /\ memo \in [Steps -> [status   : MemoStatus,
                            failures : 0..(STEP_RETRY_LIMIT + 1)]]
    /\ pass \in [Passes -> [at      : Phases,
                            attempt : Nat,
                            book    : [Steps -> MemoStatus],
                            running : Seq(Steps),
                            threw   : Steps \cup {NoStep},
                            beat    : Steps \cup {NoStep, NoBeat}]]
    /\ subject \in {"open", "completed", "failed", "canceled"}
    /\ tried \in [Steps -> Nat]
    /\ begun \in SUBSET Steps
    /\ faults \in 0..MaxFaults

Init ==
    /\ row = InitRow
    /\ memo = NoMemos
    /\ pass = [p \in Passes |-> IdlePass]
    /\ subject = "open"
    /\ tried = [s \in Steps |-> 0]
    /\ begun = {}
    /\ faults = 0

----------------------------------------------------------------------------

(* What no count of the code's own bounds: a drain, and a pass that dies   *)
(* or stalls before it acts on the count its claim read.                   *)
SpendFault == faults < MaxFaults /\ faults' = faults + 1

----------------------------------------------------------------------------
(* The fence.                                                              *)

\* Mutant: the fence checks that the row is leased and not by whom.
Holds_AnyLease(p) == row.state = "leased"

(* The row is still leased under p's token.  Every write of a pass is one  *)
(* transaction that takes the row under this condition first.              *)
Holds(p) == row.state = "leased" /\ row.owner = p

(* PassState.runningStep: the earliest started of the steps running.       *)
RunningStep(p) ==
    IF pass[p].running = <<>> THEN NoStep ELSE Head(pass[p].running)

IsRunning(p, s) == s \in Range(pass[p].running)

(* The steps still running once s, which runs at most once, is finished.   *)
Finished(p, s) ==
    LET running == pass[p].running
    IN  RemoveAt(running, CHOOSE i \in DOMAIN running : running[i] = s)

(* Nothing of the body is left: its branches wound down, and the scope     *)
(* that held the heartbeat closed after the beat in flight.                *)
WoundDown(p) == pass[p].running = <<>> /\ pass[p].beat = NoBeat

(* The pass in slot p is over.                                             *)
Leave(p) == pass' = [pass EXCEPT ![p] = IdlePass]

(* A terminal write: it deletes the schedule row and the memo with it.     *)
EndSubject(as) ==
    /\ subject' = as
    /\ row' = [InitRow EXCEPT !.state = "gone"]
    /\ memo' = NoMemos
    /\ begun' = {}
    /\ UNCHANGED <<tried, faults>>

(* settlePass's endFailed: refused by the fence, it writes nothing.        *)
EndFailed(p) ==
    /\ Leave(p)
    /\ \/ Holds(p) /\ EndSubject("failed")
       \/ ~Holds(p) /\ UNCHANGED <<row, memo, subject, tried, begun, faults>>

(* releasePass, counting a failure on `step` when it is not NoStep.        *)
Release(p, step, released) ==
    /\ Leave(p)
    /\ UNCHANGED <<subject, tried>>
    /\ \/ /\ Holds(p)
          /\ memo' = IF step = NoStep THEN memo
                     ELSE [memo EXCEPT ![step] = CountStepFailure(@)]
          /\ row' = released
          /\ begun' = {}
       \/ ~Holds(p) /\ UNCHANGED <<row, memo, begun>>

----------------------------------------------------------------------------
(* Claiming and opening.                                                   *)

\* Mutant: the claim leaves the step the last lease recorded on the row.
Claim_KeepsRunningStep(p) ==
    /\ pass[p].at = "idle"
    /\ DueSchedule(row)
    /\ row' = [row EXCEPT !.state = "leased", !.owner = p, !.lease = "live",
                          !.attempt = ClaimAttempt(row)]
    /\ memo' = IF SweptStep(row) = NoStep THEN memo
               ELSE [memo EXCEPT ![SweptStep(row)] = CountStepFailure(@)]
    /\ pass' = [pass EXCEPT ![p] =
                  [IdlePass EXCEPT !.at = "opening",
                                   !.attempt = ClaimAttempt(row)]]
    /\ begun' = {}
    /\ UNCHANGED <<subject, tried, faults>>

(* claimDue: lease a due row, or sweep an expired lease and count it       *)
(* against the step it recorded, or against the row when it recorded none. *)
Claim(p) ==
    /\ pass[p].at = "idle"
    /\ DueSchedule(row)
    /\ row' = [row EXCEPT !.state = "leased", !.owner = p, !.lease = "live",
                          !.attempt = ClaimAttempt(row), !.running = NoStep]
    /\ memo' = IF SweptStep(row) = NoStep THEN memo
               ELSE [memo EXCEPT ![SweptStep(row)] = CountStepFailure(@)]
    /\ pass' = [pass EXCEPT ![p] =
                  [IdlePass EXCEPT !.at = "opening",
                                   !.attempt = ClaimAttempt(row)]]
    /\ begun' = {}
    /\ UNCHANGED <<subject, tried, faults>>

(* body.open finds the run ended elsewhere; its dropSchedule is refused,   *)
(* because the row went with the run.                                      *)
OpenUnavailable(p) ==
    /\ pass[p].at = "opening"
    /\ subject # "open"
    /\ Leave(p)
    /\ UNCHANGED <<row, memo, subject, tried, begun, faults>>

(* body.open finds the run in flight.  A row whose own retries are spent   *)
(* ends its run failed before the memo is read.                            *)
OpenReady(p) ==
    /\ pass[p].at = "opening"
    /\ subject = "open"
    /\ \/ /\ ~RetriesSpent(pass[p].attempt)
          /\ pass' = [pass EXCEPT ![p].at = "loading"]
          /\ UNCHANGED <<row, memo, subject, tried, begun, faults>>
       \/ /\ RetriesSpent(pass[p].attempt)
          /\ EndFailed(p)

\* Mutant: the pass starts from an empty memo.
LoadMemo_Forgets(p) ==
    /\ pass[p].at = "loading"
    /\ pass' = [pass EXCEPT ![p].at = "running"]
    /\ UNCHANGED <<row, memo, subject, tried, begun, faults>>

(* loadMemo: every memo row is read once, and the body starts.             *)
LoadMemo(p) ==
    /\ pass[p].at = "loading"
    /\ pass' = [pass EXCEPT ![p].at = "running",
                            ![p].book = [s \in Steps |-> memo[s].status]]
    /\ UNCHANGED <<row, memo, subject, tried, begun, faults>>

----------------------------------------------------------------------------
(* The body.                                                               *)

(* A node step is settled once its memo is final or a step upstream of it  *)
(* failed its own node, which starts nothing below it.                     *)
Settled(book, s) ==
    IsFinal(book[s]) \/ \E t \in Before[s] : book[t] = "failed"

\* Mutant: a step starts below one that was given up.
Ready_AfterAnySettled(book, s) ==
    IF s = Terminal THEN \A t \in NodeSteps : Settled(book, t)
                    ELSE \A t \in Before[s] : IsFinal(book[t])

Ready(book, s) ==
    IF s = Terminal THEN \A t \in NodeSteps : Settled(book, t)
                    ELSE \A t \in Before[s] : book[t] = "succeeded"

(* runtime.run on a step the memo answers nothing for.                     *)
StepStart(p, s) ==
    /\ pass[p].at = "running"
    /\ ~IsFinal(pass[p].book[s])
    /\ Ready(pass[p].book, s)
    /\ ~IsRunning(p, s)
    /\ pass' = [pass EXCEPT ![p].running = Append(@, s)]
    /\ \/ /\ Holds(p)
          /\ tried' = [tried EXCEPT ![s] =
                         IF @ > STEP_RETRY_LIMIT THEN @ ELSE @ + 1]
          /\ begun' = begun \cup {s}
       \/ ~Holds(p) /\ UNCHANGED <<tried, begun>>
    /\ UNCHANGED <<row, memo, subject, faults>>

(* The memo rows after writeStepMemo for s: a settled row is not written.  *)
Remembered(s) ==
    [memo EXCEPT ![s].status = IF IsFinal(@) THEN @ ELSE "succeeded"]

(* A node step returned and the pass still runs: book.remember writes its  *)
(* memo row.  The write may commit and be answered, commit and have its    *)
(* answer lost, or be refused; a database failure that commits nothing is  *)
(* StepFails.                                                              *)
StepReturns(p, s) ==
    /\ pass[p].at = "running"
    /\ s # Terminal
    /\ IsRunning(p, s)
    /\ \/ /\ Holds(p)
          /\ memo' = Remembered(s)
          /\ row' = [row EXCEPT !.lease = "live",
                                !.running = RunningAfterMemo(row, s)]
          /\ \/ pass' = [pass EXCEPT ![p].running = Finished(p, s),
                                     ![p].book[s] = "succeeded"]
             \/ pass' = [pass EXCEPT ![p].running = Finished(p, s),
                                     ![p].at = "threw", ![p].threw = s]
       \/ /\ ~Holds(p)
          /\ pass' = [pass EXCEPT ![p].running = Finished(p, s),
                                  ![p].at = "lost"]
          /\ UNCHANGED <<row, memo>>
    /\ UNCHANGED <<subject, tried, begun, faults>>

(* A step threw, or the database failed its write, while the pass runs:    *)
(* the pass stops on that step.                                            *)
StepFails(p, s) ==
    /\ pass[p].at = "running"
    /\ IsRunning(p, s)
    /\ pass' = [pass EXCEPT ![p].running = Finished(p, s),
                            ![p].at = "threw", ![p].threw = s]
    /\ UNCHANGED <<row, memo, subject, tried, begun, faults>>

(* A step ends in a pass that already stopped: its write is refused        *)
(* without reaching the database, and the first stop stands.               *)
StepDropped(p, s) ==
    /\ pass[p].at \in {"threw", "lost"}
    /\ IsRunning(p, s)
    /\ pass' = [pass EXCEPT ![p].running = Finished(p, s)]
    /\ UNCHANGED <<row, memo, subject, tried, begun, faults>>

(* The Terminal step's finishRun.                                          *)
TerminalWrite(p) ==
    /\ pass[p].at = "running"
    /\ IsRunning(p, Terminal)
    /\ \/ /\ Holds(p)
          /\ pass' = [pass EXCEPT ![p].at = "ending"]
          /\ EndSubject("completed")
       \/ /\ ~Holds(p)
          /\ pass' = [pass EXCEPT ![p].running = Finished(p, Terminal),
                                  ![p].at = "lost"]
          /\ UNCHANGED <<row, memo, subject, tried, begun, faults>>

(* finishRun's answer arrives: PassState.ended.  Or it is lost, which the  *)
(* pass takes for a step that threw.                                       *)
TerminalAnswer(p) ==
    /\ pass[p].at = "ending"
    /\ \/ pass' = [pass EXCEPT ![p].running = Finished(p, Terminal),
                               ![p].at = "ended"]
       \/ pass' = [pass EXCEPT ![p].running = Finished(p, Terminal),
                               ![p].at = "threw", ![p].threw = Terminal]
    /\ UNCHANGED <<row, memo, subject, tried, begun, faults>>

----------------------------------------------------------------------------
(* The heartbeat.                                                          *)

(* The body has nothing left to run, so its scope closes on the heartbeat. *)
BodyOver(p) ==
    /\ pass[p].running = <<>>
    /\ \/ pass[p].at = "threw"
       \/ pass[p].at = "running" /\ pass[p].book[Terminal] = "failed"

(* needsLease, and a body that still runs.                                 *)
BeatStart(p) ==
    /\ pass[p].at \in {"running", "threw", "ending"}
    /\ ~BodyOver(p)
    /\ pass[p].beat = NoBeat
    /\ pass' = [pass EXCEPT ![p].beat = RunningStep(p)]
    /\ UNCHANGED <<row, memo, subject, tried, begun, faults>>

\* Mutant: every refused renewal is taken for a lost lease.
BeatLand_NoFindSchedule(p) ==
    /\ pass[p].beat # NoBeat
    /\ \/ /\ Holds(p)
          /\ row' = [row EXCEPT !.lease = "live", !.running = pass[p].beat]
          /\ pass' = [pass EXCEPT ![p].beat = NoBeat]
       \/ /\ ~Holds(p)
          /\ pass' = [pass EXCEPT ![p].beat = NoBeat, ![p].at = "lost"]
          /\ UNCHANGED row
    /\ UNCHANGED <<memo, subject, tried, begun, faults>>

(* The renewal sent at BeatStart reaches the database: it renews the lease *)
(* and records the step read back then.  A refusal that finds the row gone *)
(* leaves the pass's phase alone; any other stops the pass.                *)
BeatLand(p) ==
    /\ pass[p].beat # NoBeat
    /\ \/ /\ Holds(p)
          /\ row' = [row EXCEPT !.lease = "live", !.running = pass[p].beat]
          /\ pass' = [pass EXCEPT ![p].beat = NoBeat]
       \/ /\ ~Holds(p)
          /\ pass' = [pass EXCEPT ![p].beat = NoBeat,
                        ![p].at = IF row.state = "gone" THEN @ ELSE "lost"]
          /\ UNCHANGED row
    /\ UNCHANGED <<memo, subject, tried, begun, faults>>

(* The database fails the renewal; the next beat tries again.              *)
BeatFails(p) ==
    /\ pass[p].beat # NoBeat
    /\ pass' = [pass EXCEPT ![p].beat = NoBeat]
    /\ UNCHANGED <<row, memo, subject, tried, begun, faults>>

----------------------------------------------------------------------------
(* Ending a pass.                                                          *)

(* The body fails on the spent Terminal step, which has no node to fail.   *)
BodySpent(p) ==
    /\ pass[p].at = "running"
    /\ WoundDown(p)
    /\ pass[p].book[Terminal] = "failed"
    /\ Ready(pass[p].book, Terminal)
    /\ EndFailed(p)

(* The body fails on something no step owns.                               *)
BodyFails(p) ==
    /\ pass[p].at = "running"
    /\ WoundDown(p)
    /\ \/ /\ RetriesSpent(pass[p].attempt + 1)
          /\ EndFailed(p)
       \/ /\ ~RetriesSpent(pass[p].attempt + 1)
          /\ Release(p, NoStep, BodyFailedRelease(row))
          /\ UNCHANGED faults

(* A pass stopped by a step that threw counts it.                          *)
ReleaseThrew(p) ==
    /\ pass[p].at = "threw"
    /\ WoundDown(p)
    /\ LET s == pass[p].threw
       IN  Release(p, s, StepFailedRelease(row, CountStepFailure(memo[s])))
    /\ UNCHANGED faults

(* A pass that lost its lease, or ended its run, writes no release.        *)
LeaveStopped(p) ==
    /\ pass[p].at \in {"lost", "ended"}
    /\ WoundDown(p)
    /\ Leave(p)
    /\ UNCHANGED <<row, memo, subject, tried, begun, faults>>

(* The worker stops gracefully, or its time budget ends between steps.     *)
Drain(p) ==
    /\ pass[p].at # "idle"
    /\ pass[p].beat = NoBeat
    /\ Release(p, NoStep, InterruptedRelease(row))
    /\ SpendFault

(* The worker's time budget ends while a step runs, and counts on it.      *)
BudgetCut(p) ==
    /\ pass[p].running # <<>>
    /\ pass[p].beat = NoBeat
    /\ Release(p, RunningStep(p), InterruptedRelease(row))
    /\ UNCHANGED faults

(* The worker dies, or the database fails a write outside the body: the    *)
(* row stays as it is.                                                     *)
Crash(p) ==
    /\ pass[p].at # "idle"
    /\ Leave(p)
    /\ IF pass[p].at = "opening" THEN SpendFault ELSE UNCHANGED faults
    /\ UNCHANGED <<row, memo, subject, tried, begun>>

----------------------------------------------------------------------------
(* Outside the passes.                                                     *)

(* The lease runs out before a write renews it.                            *)
LeaseExpires ==
    /\ row.state = "leased"
    /\ row.lease = "live"
    /\ row' = [row EXCEPT !.lease = "expired"]
    /\ IF pass[row.owner].at = "opening" THEN SpendFault ELSE UNCHANGED faults
    /\ UNCHANGED <<memo, pass, subject, tried, begun>>

(* A retry's backoff ends.                                                 *)
BackoffEnds ==
    /\ row.state = "queued"
    /\ row.wake = "later"
    /\ row' = [row EXCEPT !.wake = "due"]
    /\ UNCHANGED <<memo, pass, subject, tried, begun, faults>>

(* endExecutions: another writer ends the run, whoever leases its row.     *)
EndExecutions ==
    /\ subject = "open"
    /\ EndSubject("canceled")
    /\ UNCHANGED pass

----------------------------------------------------------------------------

(* What a worker does for a pass without being interrupted.                *)
Progress(p) ==
    \/ OpenUnavailable(p)
    \/ OpenReady(p)
    \/ LoadMemo(p)
    \/ \E s \in Steps : \/ StepStart(p, s)
                        \/ StepReturns(p, s)
                        \/ StepFails(p, s)
                        \/ StepDropped(p, s)
    \/ TerminalWrite(p)
    \/ TerminalAnswer(p)
    \/ BodySpent(p)
    \/ ReleaseThrew(p)
    \/ LeaveStopped(p)

Beat(p) == BeatLand(p) \/ BeatFails(p)

Next ==
    \/ \E p \in Passes : \/ Claim(p)
                         \/ Progress(p)
                         \/ BeatStart(p)
                         \/ Beat(p)
                         \/ BodyFails(p)
                         \/ Drain(p)
                         \/ BudgetCut(p)
                         \/ Crash(p)
    \/ LeaseExpires
    \/ BackoffEnds
    \/ EndExecutions

Spec == Init /\ [][Next]_vars

(* Nothing renews a dead owner's lease, time passes, and some worker polls *)
(* for due rows.  A live pass goes on, a step that started returns or      *)
(* throws, and a write is answered.  A worker that never dies is not       *)
(* assumed.                                                                *)
Fairness ==
    /\ \A p \in Passes : WF_vars(Progress(p)) /\ WF_vars(Beat(p))
    /\ WF_vars(\E p \in Passes : Claim(p))
    /\ WF_vars(LeaseExpires /\ pass[row.owner].at = "idle")
    /\ WF_vars(BackoffEnds)

FairSpec == Spec /\ Fairness

----------------------------------------------------------------------------
(* Properties.                                                             *)

(* A step's failure count never exceeds the number of times a lease holder *)
(* really started it: no crash, sweep, budget cut, lost answer or stale    *)
(* heartbeat counts one try twice or charges a step that did not run.      *)
ChargedTriesOnly == \A s \in Steps : memo[s].failures <= tried[s]

(* A step is given up, which fails its node or its run, only after every   *)
(* one of its STEP_RETRY_LIMIT + 1 tries was really started.               *)
FailedOnlyAfterAllTries ==
    \A s \in Steps : memo[s].status = "failed" => tried[s] > STEP_RETRY_LIMIT

(* The pass that holds the lease never runs a step whose result is         *)
(* memoized: what it loaded, and what it wrote since, is what the memo     *)
(* says, so a replay does no settled work again.  A write whose answer was *)
(* lost must have stopped the pass.                                        *)
OwnerBookCurrent ==
    \A p \in Passes :
        Holds(p) /\ pass[p].at = "running" =>
            /\ \A s \in Steps :
                  IsFinal(memo[s].status) \/ IsFinal(pass[p].book[s])
                    => memo[s].status = pass[p].book[s]
            /\ \A s \in Steps : IsRunning(p, s) => ~IsFinal(memo[s].status)

(* A memo row that settled keeps what it settled to until the run ends,    *)
(* whichever zombie, sweep or late release writes next.                    *)
MemoFinal ==
    [][\A s \in Steps :
          IsFinal(memo[s].status) =>
              memo'[s] = memo[s] \/ subject' # "open"]_vars

(* While one pass holds the lease, no step of another pass changes the     *)
(* row, the memo or the run: a worker that stalled past its lease writes   *)
(* nothing, its terminal record included.                                  *)
ZombieWritesNothing ==
    [][\A p, q \in Passes :
          p # q /\ pass'[p] # pass[p] /\ Holds(q) /\ row.lease = "live" =>
              UNCHANGED <<row, memo, subject>>]_vars

(* A pass whose own terminal write committed is never told it lost its     *)
(* lease by the heartbeat that then finds the row gone.                    *)
OwnEndIsNotALostLease ==
    [][\A p \in Passes :
          pass[p].at \in {"ending", "ended"} => pass'[p].at # "lost"]_vars

(* Without its rows, leases and passes the run is a DurableJob, whose      *)
(* steps are what the memo says of them.                                   *)
Job == INSTANCE DurableJob WITH
    result  <- [s \in Steps |-> IF IsFinal(memo[s].status)
                                  THEN memo[s].status ELSE "open"],
    charges <- [s \in Steps |-> memo[s].failures]

(* The executor keeps the job's promise: whichever worker works, dies or   *)
(* lags, a step settles or is charged only while the run is open, above it *)
(* everything succeeded and it is not settled itself, and the run          *)
(* completes only with all of its node steps settled.                      *)
ImplementsJob == Job!Spec

(* However workers die, stall and lose answers, the run ends: every        *)
(* failure is counted against a step or against the row, and each count is *)
(* bounded.                                                                *)
RunEnds == <>(subject # "open")
============================================================================
