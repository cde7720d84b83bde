----------------------------- MODULE ReleasePolicy -----------------------------
(***************************************************************************)
(* The decisions both database backends share about a schedule row and the *)
(* parks of the run it schedules: services/executions/repo/release-policy. *)
(* Each operator is a pure function of rows; LeasedPass and RunWaits apply *)
(* them inside the transactions that hold those rows.                      *)
(*                                                                         *)
(* A schedule row is a record with the fields                              *)
(*   state    "queued" | "leased" | "waiting" | "gone" (deleted)           *)
(*   wake     "due" when wake_at <= now, "later" when wake_at > now        *)
(*   owner    the pass whose owner token the row holds                     *)
(*   lease    "live" | "expired", lease_expires_at against now             *)
(*   attempt  the row's own failure count                                  *)
(*   running  the step the row records as running, or NoStep               *)
(* Times are kept only as their comparison with now.                       *)
(***************************************************************************)
EXTENDS Naturals

CONSTANTS
    STEP_RETRY_LIMIT,   \* 4 in the code
    NoStep,             \* a null running_step_id
    NoPass              \* a null owner_token

ASSUME RetryLimitAssumption == STEP_RETRY_LIMIT \in Nat

----------------------------------------------------------------------------
(* Step memo rows.  "none" is a step with no memo row.                     *)

MemoStatus == {"none", "failing", "succeeded", "failed"}

NoMemo == [status |-> "none", failures |-> 0]

(* A memo row a replay answers from: the step never runs again.            *)
IsFinal(status) == status \in {"succeeded", "failed"}

\* Mutant: the limit is reached one failure early.
CountStepFailure_GivesUpEarly(m) ==
    IF IsFinal(m.status) THEN m
    ELSE [status   |-> IF m.failures + 1 >= STEP_RETRY_LIMIT
                         THEN "failed" ELSE "failing",
          failures |-> m.failures + 1]

\* Mutant: the limit is reached one failure late.
CountStepFailure_GivesUpLate(m) ==
    IF IsFinal(m.status) THEN m
    ELSE [status   |-> IF m.failures > STEP_RETRY_LIMIT
                         THEN "failed" ELSE "failing",
          failures |-> m.failures + 1]

\* Mutant: a row that already settled is counted all the same.
CountStepFailure_RecountsSettled(m) ==
    [status   |-> IF m.failures + 1 > STEP_RETRY_LIMIT
                    THEN "failed" ELSE "failing",
     failures |-> m.failures + 1]

(* The memo row a counted failure leaves; a settled row is left alone.     *)
CountStepFailure(m) ==
    IF IsFinal(m.status) THEN m
    ELSE [status   |-> IF m.failures + 1 > STEP_RETRY_LIMIT
                         THEN "failed" ELSE "failing",
          failures |-> m.failures + 1]

(* Whether a schedule row's own failure count ends its subject.            *)
RetriesSpent(attempt) == attempt > STEP_RETRY_LIMIT

----------------------------------------------------------------------------
(* Claiming.                                                               *)

ExpiredLease(row) == row.state = "leased" /\ row.lease = "expired"

(* The rows a claim lane takes.                                            *)
DueSchedule(row) ==
    \/ row.state \in {"queued", "waiting"} /\ row.wake = "due"
    \/ ExpiredLease(row)

\* Mutant: sweeping a lease that named no step counts nothing.
ClaimAttempt_CountsNothing(row) == row.attempt

(* A lease that expired under no recorded step counts against the row.     *)
ClaimAttempt(row) ==
    IF row.state = "leased" /\ row.running = NoStep
      THEN row.attempt + 1 ELSE row.attempt

(* The step an expired lease is counted against instead, or NoStep.        *)
SweptStep(row) == IF row.state = "leased" THEN row.running ELSE NoStep

(* The row's running step once a memo write for s commits.                 *)
RunningAfterMemo(row, s) == IF row.running = s THEN NoStep ELSE row.running

----------------------------------------------------------------------------
(* Releasing.                                                              *)

(* A row handed back: the lease columns are cleared.                       *)
ReleasedRow(row, state, wake, attempt) ==
    [row EXCEPT !.state = state, !.wake = wake, !.attempt = attempt,
                !.owner = NoPass, !.lease = "live", !.running = NoStep]

(* `counted` is the memo row the release counted the failure on, or the    *)
(* settled row it left alone: only a step still failing waits a backoff.   *)
StepFailedRelease(row, counted) ==
    ReleasedRow(row, "queued",
                IF counted.status = "failing" THEN "later" ELSE "due", 0)

BodyFailedRelease(row) == ReleasedRow(row, "queued", "later", row.attempt + 1)

InterruptedRelease(row) == ReleasedRow(row, "queued", "due", row.attempt)
----------------------------------------------------------------------------
(* Parks.  A wait row is a record with the fields                          *)
(*   status    "absent" | "waiting" | "resuming" | "resumed" |             *)
(*             "timed_out" | "cancelled"                                   *)
(*   wake      what resolved it, or "none"                                 *)
(*   type      "event" | "delay"                                           *)
(*   deadline  "ahead" | "passed", wait_until against now                  *)

ClaimKinds == {"cancel", "exit"}

IsClaimWake(wake) == wake \in ClaimKinds

(* Which claim lets a side of the graph work: none on the Started side,    *)
(* the run's own Cancel claim behind the Canceled outlet.                  *)
ClaimAdmits(claim, side) ==
    claim = IF side = "canceled" THEN "cancel" ELSE "none"

OpenPark(park) == park.status \in {"waiting", "resuming"}

OverduePark(park) == park.status = "waiting" /\ park.deadline = "passed"

(* A park an Event may resolve: any other wake has already won it.         *)
ClaimablePark(park) ==
    \/ park.status = "waiting"
    \/ park.status = "resuming" /\ park.wake = "migrate"

\* Mutant: a re-park writes over whatever wake the park holds.
ReparkablePark_AnyWake(park) == park.status \in {"waiting", "resuming"}

(* A park a re-park may write over.                                        *)
ReparkablePark(park) ==
    \/ park.status = "waiting"
    \/ park.status = "resuming" /\ park.wake \in {"migrate", "timeout"}

(* Every open park of a run is still waiting: what a Migration classified. *)
MatchesClassification(parks) ==
    \A park \in parks : OpenPark(park) => park.status = "waiting"

(* A schedule row after a producer's wake: one asleep, or in a backoff, is *)
(* made due; a leased row is left for its release.                         *)
RequeuedByWake(row) ==
    \/ row.state = "waiting"
    \/ row.state = "queued" /\ row.wake = "later"

Requeued(row) ==
    IF RequeuedByWake(row) THEN [row EXCEPT !.state = "queued", !.wake = "due"]
    ELSE row

\* Mutant: the release sleeps although a wake arrived while the pass ran.
ParkedRelease_IgnoresWakes(row, parks) ==
    LET open == {park \in parks : park.status = "waiting"}
    IN  IF open = {}
          THEN [row EXCEPT !.state = "queued", !.wake = "due"]
          ELSE [row EXCEPT !.state = "waiting",
                  !.wake = IF \E park \in open : park.deadline = "passed"
                             THEN "due" ELSE "later"]

(* The row of a pass that ended parked: back to the queue when a wake is   *)
(* unconsumed or nothing is left waiting, asleep until the first deadline  *)
(* otherwise.                                                              *)
ParkedRelease(row, parks) ==
    LET open == {park \in parks : park.status = "waiting"}
        unconsumed == \E park \in parks :
                         park.status = "resuming" /\ park.wake # "none"
    IN  IF unconsumed \/ open = {}
          THEN [row EXCEPT !.state = "queued", !.wake = "due"]
          ELSE [row EXCEPT !.state = "waiting",
                  !.wake = IF \E park \in open : park.deadline = "passed"
                             THEN "due" ELSE "later"]
============================================================================
