------------------------------- MODULE RunWaits -------------------------------
(***************************************************************************)
(* One Execution, its wait rows and the body of the passes that run it,    *)
(* against the producers that wake, claim, move and end it: engine/wait,   *)
(* engine/scheduler, engine/core, engine/cancel-boundary and the writes of *)
(* services/executions/repo they reach.                                    *)
(*                                                                         *)
(* Only the pass that holds the lease writes (LeasedPass checks that), so  *)
(* one body stands for all of a run's passes.  A pass loads the Workflow   *)
(* Version the run pins, replays the memoized steps and goes on from them. *)
(* The graph is abstracted to its Waits: the nodes between two Waits run   *)
(* through, and a Wait is admitted the way any action node is.             *)
(***************************************************************************)
EXTENDS ReleasePolicy, Sequences, FiniteSets

CONSTANTS
    Waits,              \* the graph's Wait nodes
    Canceled,           \* those behind the Canceled outlet
    Gated,              \* Started-side Waits whose admission reads Eligibility
    Workflows,          \* the workflows a run may be of, by name:
                        \* [above : [Waits -> SUBSET Waits], every Wait
                        \*    upstream of each,
                        \*  broken : SUBSET (Waits \X Versions), the
                        \*    configs that name no target,
                        \*  migrations, faults : bounds on Migrations and
                        \*    on passes cut off]
    Versions,           \* the published versions, all holding these Waits
    StartVersion,       \* the version the run starts under
    Mode,               \* [Waits -> [Versions -> {"event", "delay"}]]
    SkipsOnTimeout,     \* <<wait, version>> whose timeout ends its branch
    WAIT_ATTEMPT_LIMIT  \* 50 in the code

ASSUME GraphAssumption ==
    /\ Canceled \subseteq Waits
    /\ Gated \subseteq Waits \ Canceled
    /\ StartVersion \in Versions
    /\ Mode \in [Waits -> [Versions -> {"event", "delay"}]]
    /\ \A f \in DOMAIN Workflows :
          /\ Workflows[f].above \in [Waits -> SUBSET Waits]
          /\ Workflows[f].broken \subseteq Waits \X Versions
    /\ SkipsOnTimeout \subseteq {x \in Waits \X Versions :
                                  Mode[x[1]][x[2]] = "event"}

(* Any Waits of a workflow hold one that none of them is above.            *)
ASSUME AcyclicAssumption ==
    \A f \in DOMAIN Workflows : \A S \in (SUBSET Waits) \ {{}} :
        \E w \in S : Workflows[f].above[w] \cap S = {}

ASSUME BoundsAssumption ==
    /\ WAIT_ATTEMPT_LIMIT \in Nat \ {0}
    /\ \A f \in DOMAIN Workflows :
          Workflows[f].migrations \in Nat /\ Workflows[f].faults \in Nat

VARIABLES
    exec,    \* the execution row: [workflow, status, version, claim]
    row,     \* its schedule row: [state, wake], as ReleasePolicy has it
    park,    \* [Waits -> wait row], as ReleasePolicy has it
    att,     \* [Waits -> Seq(the memoized steps of one attempt)]
    answer,  \* the other memoized steps: [admit, check, plan, final,
             \* refused]
    body,    \* the pass: [at, version, stage, wake, entered, released, read]
    moves,   \* Migrations so far
    faults   \* passes cut off so far

vars == <<exec, row, park, att, answer, body, moves, faults>>

----------------------------------------------------------------------------

Above == Workflows[exec.workflow].above
Broken == Workflows[exec.workflow].broken
MaxMigrations == Workflows[exec.workflow].migrations
MaxFaults == Workflows[exec.workflow].faults

InFlight == {"running", "waiting"}

Verdicts == {"completed", "failed", "canceled", "exited", "superseded"}

Wakes == {"none", "resume", "timeout", "migrate", "cancel", "exit"}

(* One attempt of a Wait: what its prepare step memoized and under which   *)
(* version, the wake its park memoized ("none" while it is parked), and    *)
(* the wake its resume step memoized.                                      *)
Attempts == [prep   : {"parked", "error", "skipped"},
             ver    : Versions,
             woke   : Wakes,
             resume : Wakes \ {"migrate"}]

(* Where a Wait stands in this pass: held back, in its admission, between  *)
(* two durable steps, inside the prepare step, inside the resume step,     *)
(* before its boundary read, parked, or done.                              *)
Stages == {"out", "admit", "drive", "wrote", "refused", "fenced",
           "unfenced", "settled", "check", "parked", "done"}

Unresolved == [v \in Versions |-> "unread"]

OffBody == [at       |-> "off",
            version  |-> StartVersion,
            stage    |-> [w \in Waits |-> "out"],
            wake     |-> [w \in Waits |-> "none"],
            entered  |-> FALSE,    \* CancelBoundary.entered
            released |-> {},       \* Waits whose downstream may run
            read     |-> FALSE]    \* the outcome read is behind this pass

TypeOK ==
    /\ exec \in [workflow : DOMAIN Workflows, status : InFlight \cup Verdicts,
                 version : Versions, claim : {"none"} \cup ClaimKinds]
    /\ row \in [state : {"queued", "leased", "waiting", "gone"},
                wake : {"due", "later"}]
    /\ park \in [Waits -> [status : {"absent", "waiting", "resuming",
                                     "resumed", "timed_out", "cancelled"},
                           wake : Wakes, type : {"event", "delay"},
                           deadline : {"ahead", "passed"}]]
    /\ att \in [Waits -> Seq(Attempts)]
    /\ answer \in [admit : [Waits -> {"unread", "eligible", "exiting",
                                      "admitted", "refused"}],
                   check : [Waits -> {"unread", "none", "cancel"}],
                   plan : [Waits -> [Versions -> {"unread", "error", "skipped",
                                                  "ahead", "passed"}]],
                   final : {"unread", "none"} \cup ClaimKinds,
                   refused : BOOLEAN]
    /\ body \in [at : {"off", "opening", "running", "parking"},
                 version : Versions, stage : [Waits -> Stages],
                 wake : [Waits -> Wakes], entered : BOOLEAN,
                 released : SUBSET Waits, read : BOOLEAN]
    /\ moves \in 0..MaxMigrations
    /\ faults \in 0..MaxFaults

Init ==
    /\ \E f \in DOMAIN Workflows :
          exec = [workflow |-> f, status |-> "running",
                  version |-> StartVersion, claim |-> "none"]
    /\ row = [state |-> "queued", wake |-> "due"]
    /\ park = [w \in Waits |-> [status |-> "absent", wake |-> "none",
                                type |-> "delay", deadline |-> "ahead"]]
    /\ att = [w \in Waits |-> <<>>]
    /\ answer = [admit |-> [w \in Waits |-> "unread"],
                 check |-> [w \in Waits |-> "unread"],
                 plan |-> [w \in Waits |-> Unresolved],
                 final |-> "unread", refused |-> FALSE]
    /\ body = OffBody
    /\ moves = 0
    /\ faults = 0

----------------------------------------------------------------------------
(* Reading the rows.                                                       *)

Side(w) == IF w \in Canceled THEN "canceled" ELSE "started"

\* Mutant: a Cancel claim admits the work of either side.
Admits_EitherSide(w) == exec.claim \in {"none", "cancel"}

Admits(w) == ClaimAdmits(exec.claim, Side(w))

(* readClaimWake: the claim as a wake, unless it is this side's own work.  *)
ClaimWake(w) == IF Admits(w) THEN "none" ELSE exec.claim

ParkRows == {park[w] : w \in Waits}

(* readMissedWake: a wake that reached the row before the park, unless the *)
(* re-park supersedes it.                                                  *)
MissedWake(w) ==
    IF park[w].status = "cancelled" THEN "cancel"
    ELSE IF /\ park[w].status \in {"waiting", "resuming", "resumed"}
            /\ park[w].wake \in {"resume", "cancel", "exit"}
      THEN park[w].wake ELSE "none"

(* resolveOpenParks, over the wait rows.                                   *)
Resolved(wake) ==
    [w \in Waits |->
        IF park[w].status = "waiting"
          THEN [park[w] EXCEPT !.status = "resuming", !.wake = wake]
          ELSE park[w]]

----------------------------------------------------------------------------
(* Replaying a Wait.                                                       *)

\* Mutant: a Migration's wake is told by the version alone.
Superseded_VersionOnly(a) ==
    /\ a.prep = "parked"
    /\ a.woke # "none"
    /\ a.ver # body.version

(* An attempt this body leaves for the next one: a Migration woke it, or   *)
(* another version prepared it and its park is over.                       *)
Superseded(a) ==
    /\ a.prep = "parked"
    /\ a.woke # "none"
    /\ a.woke = "migrate" \/ a.ver # body.version

(* The first attempt the replay does not leave.                            *)
Attempt(w) ==
    CHOOSE k \in 1..(Len(att[w]) + 1) :
        /\ \A j \in 1..(k - 1) : Superseded(att[w][j])
        /\ k <= Len(att[w]) => ~Superseded(att[w][k])

IsNew(w) == Attempt(w) = Len(att[w]) + 1

Abandoned(w) == Attempt(w) > WAIT_ATTEMPT_LIMIT

(* The attempt the replay stops at, when it is memoized.                   *)
Current(w) == att[w][Attempt(w)]

(* How the Wait's node ended: "open" while it has not.                     *)
Outcome(w) ==
    IF Abandoned(w) THEN "failed"
    ELSE IF IsNew(w) THEN "open"
    ELSE LET a == Current(w) IN
         IF a.prep = "error" THEN "failed"
         ELSE IF \/ a.prep = "skipped"
                 \/ IsClaimWake(a.resume)
                 \/ a.resume = "timeout" /\ <<w, a.ver>> \in SkipsOnTimeout
           THEN "halted"
         ELSE IF a.resume = "none" THEN "open" ELSE "continued"

----------------------------------------------------------------------------
(* Moving the pass.                                                        *)

At(w, stage) == body.at = "running" /\ body.stage[w] = stage

Go(w, stage) == body' = [body EXCEPT !.stage[w] = stage]

GoWith(w, stage, wake) ==
    body' = [body EXCEPT !.stage[w] = stage, !.wake[w] = wake]

(* The prepare step ends an attempt, and its resolutions with it.          *)
Prepared(w, prep, woke) ==
    /\ att' = [att EXCEPT ![w] =
                 Append(@, [prep |-> prep, ver |-> body.version,
                            woke |-> woke, resume |-> "none"])]
    /\ answer' = [answer EXCEPT !.plan[w] = Unresolved]

(* The pass ends with the release `released`.                              *)
EndPass(released) == body' = OffBody /\ row' = released

(* A version fence refused a write of the body: releasePass fence_refused. *)
VersionRefused ==
    /\ EndPass([state |-> "queued", wake |-> "due"])
    /\ UNCHANGED <<exec, park, att, answer>>

(* A terminal write: open parks are cancelled, and the schedule row goes,  *)
(* the memo with it; nothing is left for a pass to do.                     *)
EndRun(status) ==
    /\ exec' = [exec EXCEPT !.status = status]
    /\ park' = [w \in Waits |->
                  IF OpenPark(park[w])
                    THEN [park[w] EXCEPT !.status = "cancelled"]
                    ELSE park[w]]
    /\ EndPass([state |-> "gone", wake |-> "due"])

----------------------------------------------------------------------------
(* The pass.                                                               *)

\* Mutant: the claim leases the row and resolves no overdue park.
Claim_LeavesOverdueParks ==
    /\ body.at = "off"
    /\ \/ row.state = "leased"
       \/ row.state \in {"queued", "waiting"} /\ row.wake = "due"
    /\ row' = [row EXCEPT !.state = "leased"]
    /\ body' = [OffBody EXCEPT !.at = "opening"]
    /\ UNCHANGED <<exec, park, att, answer, moves, faults>>

(* claimDue: a due row, or one whose last pass died and whose lease ran    *)
(* out, is leased, and its overdue parks are resolved as timeouts.         *)
Claim ==
    /\ body.at = "off"
    /\ \/ row.state = "leased"
       \/ row.state \in {"queued", "waiting"} /\ row.wake = "due"
    /\ row' = [row EXCEPT !.state = "leased"]
    /\ park' = [w \in Waits |->
                  IF OverduePark(park[w])
                    THEN [park[w] EXCEPT !.status = "resuming",
                                         !.wake = "timeout"]
                    ELSE park[w]]
    /\ body' = [OffBody EXCEPT !.at = "opening"]
    /\ UNCHANGED <<exec, att, answer, moves, faults>>

(* loadPersistedRunInput: the body is the graph of the pinned version.     *)
Open ==
    /\ body.at = "opening"
    /\ body' = [body EXCEPT !.at = "running", !.version = exec.version]
    /\ UNCHANGED <<exec, row, park, att, answer, moves, faults>>

(* Every Wait the pass entered is parked or done.                          *)
Quiet ==
    /\ body.at = "running"
    /\ \A w \in Waits : body.stage[w] \in {"out", "parked", "done"}

(* The Waits held back.  A pass that took the Canceled outlet drops what   *)
(* it held for the Started branch.                                         *)
Held ==
    {w \in Waits :
        /\ body.stage[w] = "out"
        /\ Above[w] \subseteq body.released
        /\ body.entered <=> w \in Canceled}

(* drainDeferredWaits: a round of held Waits is entered side by side once  *)
(* the round before it has parked or finished.                             *)
Drain ==
    /\ Quiet
    /\ Held # {}
    /\ body' = [body EXCEPT !.stage = [w \in Waits |->
                  IF w \in Held THEN IF w \in Gated THEN "admit" ELSE "drive"
                                ELSE body.stage[w]]]
    /\ UNCHANGED <<exec, row, park, att, answer, moves, faults>>

----------------------------------------------------------------------------
(* Admission.                                                              *)

CanAdmitNode == exec.status \in InFlight /\ exec.claim = "none"

(* The first claim check, then the host's Eligibility answer.              *)
AdmitOpen(w) ==
    /\ At(w, "admit")
    /\ answer.admit[w] = "unread"
    /\ \E found \in IF CanAdmitNode THEN {"eligible", "exiting"}
                                    ELSE {"refused"} :
          answer' = [answer EXCEPT !.admit[w] = found]
    /\ UNCHANGED <<exec, row, park, att, body, moves, faults>>

(* The second claim check: a claim that won during the host's read stops   *)
(* the node itself.                                                        *)
AdmitClose(w) ==
    /\ At(w, "admit")
    /\ answer.admit[w] = "eligible"
    /\ answer' = [answer EXCEPT !.admit[w] =
                    IF CanAdmitNode THEN "admitted" ELSE "refused"]
    /\ UNCHANGED <<exec, row, park, att, body, moves, faults>>

(* requestExit: the claim and the wakes of the run's other parks are one   *)
(* write.  A claim that came first stands.                                 *)
RequestExit(w) ==
    /\ At(w, "admit")
    /\ answer.admit[w] = "exiting"
    /\ IF CanAdmitNode
         THEN /\ exec' = [exec EXCEPT !.claim = "exit"]
              /\ park' = Resolved("exit")
         ELSE UNCHANGED <<exec, park>>
    /\ answer' = [answer EXCEPT !.admit[w] = "refused"]
    /\ UNCHANGED <<row, att, body, moves, faults>>

Admitted(w) ==
    /\ At(w, "admit")
    /\ \/ answer.admit[w] = "admitted" /\ Go(w, "drive")
       \/ answer.admit[w] = "refused" /\ Go(w, "check")
    /\ UNCHANGED <<exec, row, park, att, answer, moves, faults>>

----------------------------------------------------------------------------
(* Preparing an attempt.                                                   *)

Preparing(w) == At(w, "drive") /\ IsNew(w) /\ ~Abandoned(w)

(* What the mode resolves the attempt to: a config that names no target,   *)
(* a target ahead, a target the clock reached already, or, on the first    *)
(* attempt of a delay, one too late to wait for.                           *)
Resolutions(w) ==
    IF <<w, body.version>> \in Broken THEN {"error"}
    ELSE IF Attempt(w) = 1 /\ Mode[w][body.version] = "delay"
      THEN {"ahead", "passed", "skipped"}
    ELSE {"ahead", "passed"}

(* The attempt's resolution under the loaded version.                      *)
Plan(w) == answer.plan[w][body.version]

(* The resolve step, memoized under the version so that a prepare step run *)
(* again writes the same park.                                             *)
Resolve(w) ==
    /\ Preparing(w)
    /\ Plan(w) = "unread"
    /\ \E plan \in Resolutions(w) :
          answer' = [answer EXCEPT !.plan[w][body.version] = plan]
    /\ UNCHANGED <<exec, row, park, att, body, moves, faults>>

(* An attempt resolved to an error or a skip ends the node without         *)
(* touching the wait row.                                                  *)
PrepareEnds(w) ==
    /\ Preparing(w)
    /\ Plan(w) \in {"error", "skipped"}
    /\ Prepared(w, Plan(w), "none")
    /\ Go(w, "check")
    /\ UNCHANGED <<exec, row, park, moves, faults>>

ToPark(w) == Preparing(w) /\ Plan(w) \in {"ahead", "passed"}

(* What the park writes on the row.  A row still waiting is one this       *)
(* attempt wrote before it was cut off, whose deadline is the same.        *)
Parked(w) ==
    [status |-> "waiting", wake |-> "none", type |-> Mode[w][body.version],
     deadline |-> IF park[w].status = "waiting" THEN park[w].deadline
                                                ELSE Plan(w)]

(* startWait: fenced on the version, the run and its claim, the park also  *)
(* moves the run to waiting.  A row a lost attempt already wrote is only   *)
(* written over while it is still waiting.                                 *)
StartWait(w) ==
    /\ ToPark(w)
    /\ Attempt(w) = 1
    /\ IF /\ exec.status \in InFlight
          /\ Admits(w)
          /\ exec.version = body.version
         THEN /\ exec' = [exec EXCEPT !.status = "waiting"]
              /\ park' = IF park[w].status \in {"absent", "waiting"}
                           THEN [park EXCEPT ![w] = Parked(w)]
                           ELSE park
              /\ Go(w, "wrote")
         ELSE /\ Go(w, "refused")
              /\ UNCHANGED <<exec, park>>
    /\ UNCHANGED <<row, att, answer, moves, faults>>

(* reparkWait: a later attempt puts the same row back to waiting.          *)
ReparkWait(w) ==
    /\ ToPark(w)
    /\ Attempt(w) > 1
    /\ IF ReparkablePark(park[w]) /\ exec.version # body.version
         THEN VersionRefused
         ELSE /\ IF ReparkablePark(park[w]) /\ Admits(w)
                   THEN /\ park' = [park EXCEPT ![w] = Parked(w)]
                        /\ Go(w, "wrote")
                   ELSE /\ Go(w, "refused")
                        /\ UNCHANGED park
              /\ UNCHANGED <<exec, row, att, answer>>
    /\ UNCHANGED <<moves, faults>>

(* The prepare step ends: a wake that arrived between the write and the    *)
(* park is taken instead of parking, and a target already past is not      *)
(* parked on.                                                              *)
PrepareParks(w) ==
    /\ At(w, "wrote")
    /\ Prepared(w, "parked",
                IF MissedWake(w) # "none" THEN MissedWake(w)
                ELSE IF Plan(w) = "passed" THEN "timeout" ELSE "none")
    /\ Go(w, "drive")
    /\ UNCHANGED <<exec, row, park, moves, faults>>

(* The park was refused.  A claim, or a wake that beat the re-park, is     *)
(* acted on; a first park refused without a claim met a Migration; and a   *)
(* re-park with neither fails its node.                                    *)
PrepareRefused(w) ==
    /\ At(w, "refused")
    /\ LET first == Attempt(w) = 1
           wake  == IF ~first /\ MissedWake(w) # "none" THEN MissedWake(w)
                    ELSE ClaimWake(w)
       IN  \/ /\ first /\ wake = "none"
              /\ VersionRefused
           \/ /\ first /\ wake # "none"
              /\ Prepared(w, "skipped", "none")
              /\ Go(w, "check")
              /\ UNCHANGED <<exec, row, park>>
           \/ /\ ~first /\ wake = "none"
              /\ Prepared(w, "error", "none")
              /\ Go(w, "check")
              /\ UNCHANGED <<exec, row, park>>
           \/ /\ ~first /\ wake # "none"
              /\ Prepared(w, "parked", wake)
              /\ Go(w, "drive")
              /\ UNCHANGED <<exec, row, park>>
    /\ UNCHANGED <<moves, faults>>

----------------------------------------------------------------------------
(* Parking and resuming.                                                   *)

Driving(w) == At(w, "drive") /\ ~IsNew(w) /\ ~Abandoned(w)

(* waitForEvent: a wake on the row is memoized; a row without one parks    *)
(* the branch.                                                             *)
WaitForEvent(w) ==
    /\ Driving(w)
    /\ Current(w).prep = "parked"
    /\ Current(w).woke = "none"
    /\ IF park[w].wake # "none"
         THEN /\ att' = [att EXCEPT ![w][Attempt(w)].woke = park[w].wake]
              /\ UNCHANGED body
         ELSE Go(w, "parked") /\ UNCHANGED att
    /\ UNCHANGED <<exec, row, park, answer, moves, faults>>

Resuming(w) ==
    /\ Driving(w)
    /\ Current(w).woke # "none"
    /\ Current(w).resume = "none"

\* Mutant: the resume is not fenced on the version the body loaded.
ResumeFence_AnyVersion(w) ==
    /\ Resuming(w)
    /\ IF IsClaimWake(Current(w).woke)
         THEN GoWith(w, "fenced", Current(w).woke) /\ UNCHANGED exec
       ELSE IF exec.status \in InFlight /\ Admits(w)
         THEN /\ exec' = [exec EXCEPT !.status = "running"]
              /\ GoWith(w, "fenced", Current(w).woke)
       ELSE Go(w, "unfenced") /\ UNCHANGED exec
    /\ UNCHANGED <<row, park, att, answer, moves, faults>>

(* openResume's fence: markRunning, which a claim wake goes without.       *)
ResumeFence(w) ==
    /\ Resuming(w)
    /\ IF IsClaimWake(Current(w).woke)
         THEN GoWith(w, "fenced", Current(w).woke) /\ UNCHANGED exec
       ELSE IF /\ exec.status \in InFlight
               /\ exec.version = body.version
               /\ Admits(w)
         THEN /\ exec' = [exec EXCEPT !.status = "running"]
              /\ GoWith(w, "fenced", Current(w).woke)
       ELSE Go(w, "unfenced") /\ UNCHANGED exec
    /\ UNCHANGED <<row, park, att, answer, moves, faults>>

(* The fence refused the wake: a claim replaces it, and without one the    *)
(* run was moved, which ends the pass.                                     *)
ResumeRefused(w) ==
    /\ At(w, "unfenced")
    /\ IF ClaimWake(w) = "none" THEN VersionRefused
       ELSE /\ GoWith(w, "fenced", ClaimWake(w))
            /\ UNCHANGED <<exec, row, park, att, answer>>
    /\ UNCHANGED <<moves, faults>>

\* Mutant: a timeout settles an event Wait whatever the row recorded.
ResumeSettle_TimeoutWins(w) ==
    /\ At(w, "fenced")
    /\ LET wake == body.wake[w]
       IN  /\ park' = IF OpenPark(park[w])
                        THEN [park EXCEPT ![w].status =
                               IF IsClaimWake(wake) THEN "cancelled"
                               ELSE IF wake = "timeout" THEN "timed_out"
                               ELSE "resumed"]
                        ELSE park
           /\ Go(w, "settled")
    /\ UNCHANGED <<exec, row, att, answer, moves, faults>>

\* Mutant: a Wait that resumed on an Event leaves its row resuming.
ResumeSettle_LeavesResumed(w) ==
    /\ At(w, "fenced")
    /\ LET wake == body.wake[w]
       IN  /\ park' = IF OpenPark(park[w]) /\ wake # "resume"
                        THEN [park EXCEPT ![w].status =
                               IF IsClaimWake(wake) THEN "cancelled"
                               ELSE "timed_out"]
                        ELSE park
           /\ Go(w, "settled")
    /\ UNCHANGED <<exec, row, att, answer, moves, faults>>

(* settleWaitTimeout lets an Event that reached the row first win over the *)
(* timeout of an event Wait; any other wake is markWaitStatus.             *)
ResumeSettle(w) ==
    /\ At(w, "fenced")
    /\ LET wake    == body.wake[w]
           timeout == wake = "timeout" /\ Mode[w][body.version] = "event"
           arrival == /\ park[w].wake = "resume"
                      /\ OpenPark(park[w]) \/ park[w].status = "resumed"
       IN  /\ park' = IF OpenPark(park[w])
                        THEN [park EXCEPT ![w].status =
                               IF IsClaimWake(wake) THEN "cancelled"
                               ELSE IF timeout /\ ~arrival THEN "timed_out"
                               ELSE "resumed"]
                        ELSE park
           /\ GoWith(w, "settled",
                     IF timeout /\ arrival THEN "resume" ELSE wake)
    /\ UNCHANGED <<exec, row, att, answer, moves, faults>>

ResumeEnds(w) ==
    /\ At(w, "settled")
    /\ att' = [att EXCEPT ![w][Attempt(w)].resume = body.wake[w]]
    /\ Go(w, "check")
    /\ UNCHANGED <<exec, row, park, answer, moves, faults>>

(* abandonWait: the attempts are used up, and the row is closed.           *)
AbandonWait(w) ==
    /\ At(w, "drive")
    /\ Abandoned(w)
    /\ park' = IF OpenPark(park[w])
                 THEN [park EXCEPT ![w].status = "cancelled"] ELSE park
    /\ Go(w, "check")
    /\ UNCHANGED <<exec, row, att, answer, moves, faults>>

(* A replay finds the Wait's node already ended.                           *)
Replayed(w) ==
    /\ Driving(w)
    /\ Outcome(w) # "open"
    /\ Go(w, "check")
    /\ UNCHANGED <<exec, row, park, att, answer, moves, faults>>

(* CancelBoundary.settle, then the nodes below: the first boundary read    *)
(* that finds a Cancel claim takes the Canceled outlet, and a pass that    *)
(* took it schedules nothing more on the Started branch.                   *)
Check(w) ==
    /\ At(w, "check")
    /\ LET found == IF w \in Canceled THEN "none"
                    ELSE IF answer.check[w] # "unread" THEN answer.check[w]
                    ELSE IF exec.claim = "cancel" THEN "cancel" ELSE "none"
           entered == w \notin Canceled /\ (body.entered \/ found = "cancel")
           admitted == w \in Gated => answer.admit[w] = "admitted"
           goesOn == ~entered /\ admitted /\ Outcome(w) = "continued"
       IN  /\ answer' = IF w \in Canceled THEN answer
                        ELSE [answer EXCEPT !.check[w] = found]
           /\ body' = [body EXCEPT !.stage[w] = "done",
                         !.entered = @ \/ entered,
                         !.released = IF goesOn THEN @ \cup {w} ELSE @]
    /\ UNCHANGED <<exec, row, park, att, moves, faults>>

----------------------------------------------------------------------------
(* Ending the pass.                                                        *)

IsParked == \E w \in Waits : body.stage[w] = "parked"

\* Mutant: the pass that parked leaves the status its last Wait wrote.
MarkWaitingIfParked_StatusStands ==
    /\ Quiet
    /\ Held = {}
    /\ IsParked
    /\ body' = [body EXCEPT !.at = "parking"]
    /\ UNCHANGED <<exec, row, park, att, answer, moves, faults>>

(* endParked: a resume in this pass may have moved the run to running.     *)
MarkWaitingIfParked ==
    /\ Quiet
    /\ Held = {}
    /\ IsParked
    /\ exec' = IF /\ exec.status = "running"
                  /\ exec.claim # "exit"
                  /\ \E w \in Waits : park[w].status = "waiting"
                 THEN [exec EXCEPT !.status = "waiting"] ELSE exec
    /\ body' = [body EXCEPT !.at = "parking"]
    /\ UNCHANGED <<row, park, att, answer, moves, faults>>

ReleaseParked ==
    /\ body.at = "parking"
    /\ EndPass(ParkedRelease(row, ParkRows))
    /\ UNCHANGED <<exec, park, att, answer, moves, faults>>

Walked == Quiet /\ Held = {} /\ ~IsParked

(* The memoized read of the run's claim once the Started branch ran out;   *)
(* a Cancel claim it finds takes the Canceled outlet.                      *)
ReadOutcome ==
    /\ Walked
    /\ ~body.read
    /\ LET found == IF answer.final = "unread" THEN exec.claim
                                               ELSE answer.final
       IN  /\ answer' = [answer EXCEPT !.final = found]
           /\ body' = [body EXCEPT !.read = TRUE,
                                   !.entered = @ \/ found = "cancel"]
    /\ UNCHANGED <<exec, row, park, att, moves, faults>>

(* What the traversal says of the run.                                     *)
TerminalStatus ==
    IF answer.final = "exit" THEN "exited"
    ELSE IF body.entered THEN "canceled"
    ELSE IF \E w \in Waits : body.stage[w] = "done" /\ Outcome(w) = "failed"
      THEN "failed" ELSE "completed"

(* finishRun's guard: the claim the row holds is the status's own.         *)
FinishAdmits(status) ==
    exec.claim = CASE status = "canceled" -> "cancel"
                   [] status = "exited" -> "exit"
                   [] OTHER -> "none"

\* Mutant: a Cancel claim that refuses the record is recorded at once.
RecordEnd_SkipsOutlet ==
    /\ Walked
    /\ body.read
    /\ \/ FinishAdmits(TerminalStatus) /\ EndRun(TerminalStatus)
       \/ /\ ~FinishAdmits(TerminalStatus)
          /\ EndRun(IF exec.claim = "exit" THEN "exited" ELSE "canceled")
    /\ UNCHANGED <<att, answer, moves, faults>>

(* "workflow-run-completed".  A claim that landed after the outcome read    *)
(* refuses the record.  An Exit is recorded instead; a Cancel claim is     *)
(* memoized, and the run takes the Canceled outlet before                  *)
(* "workflow-run-canceled".                                                *)
RecordEnd ==
    /\ Walked
    /\ body.read
    /\ \/ /\ answer.refused => body.entered
          /\ FinishAdmits(TerminalStatus)
          /\ EndRun(TerminalStatus)
          /\ UNCHANGED answer
       \/ /\ ~answer.refused
          /\ ~FinishAdmits(TerminalStatus)
          /\ exec.claim = "exit"
          /\ EndRun("exited")
          /\ UNCHANGED answer
       \/ /\ answer.refused \/ ~FinishAdmits(TerminalStatus)
          /\ exec.claim = "cancel"
          /\ ~body.entered
          /\ answer' = [answer EXCEPT !.refused = TRUE]
          /\ body' = [body EXCEPT !.entered = TRUE]
          /\ UNCHANGED <<exec, row, park>>
    /\ UNCHANGED <<att, moves, faults>>

(* The pass is cut off: its worker dies and the lease is left to run out,  *)
(* it is drained, or one of its steps fails and waits a backoff.           *)
PassCut ==
    /\ body.at # "off"
    /\ faults < MaxFaults
    /\ faults' = faults + 1
    /\ \E left \in {row, [state |-> "queued", wake |-> "due"],
                         [state |-> "queued", wake |-> "later"]} :
          EndPass(left)
    /\ UNCHANGED <<exec, park, att, answer, moves>>

----------------------------------------------------------------------------
(* The clock and the producers.                                            *)

BackoffEnds ==
    /\ row = [state |-> "queued", wake |-> "later"]
    /\ row' = [row EXCEPT !.wake = "due"]
    /\ UNCHANGED <<exec, park, att, answer, body, moves, faults>>

(* A park's deadline passes; a row asleep was released until the first of  *)
(* its run's deadlines.                                                    *)
DeadlinePasses(w) ==
    /\ park[w].status = "waiting"
    /\ park[w].deadline = "ahead"
    /\ park' = [park EXCEPT ![w].deadline = "passed"]
    /\ row' = IF row.state = "waiting" THEN [row EXCEPT !.wake = "due"] ELSE row
    /\ UNCHANGED <<exec, att, answer, body, moves, faults>>

(* claimWaitState: an Event or a manual resume resolves the park.          *)
DeliverEvent(w) ==
    /\ park[w].type = "event"
    /\ ClaimablePark(park[w])
    /\ exec.status \in InFlight
    /\ exec.claim # "exit"
    /\ park' = [park EXCEPT ![w].status = "resuming", ![w].wake = "resume"]
    /\ row' = Requeued(row)
    /\ UNCHANGED <<exec, att, answer, body, moves, faults>>

\* Mutant: the repin takes a run whatever its claim.
Migrate_IgnoresClaim(v) ==
    /\ moves < MaxMigrations
    /\ exec.status = "waiting"
    /\ exec.version # v
    /\ \E w \in Waits : OpenPark(park[w])
    /\ MatchesClassification(ParkRows)
    /\ exec' = [exec EXCEPT !.version = v]
    /\ park' = Resolved("migrate")
    /\ row' = Requeued(row)
    /\ moves' = moves + 1
    /\ UNCHANGED <<att, answer, body, faults>>

(* repinVersion: an unclaimed run parked on Waits that are all still       *)
(* waiting moves to another version, and every park is woken to prepare    *)
(* again.  A classification that went stale is refused, so the             *)
(* classification and the repin are one step here.                         *)
Migrate(v) ==
    /\ moves < MaxMigrations
    /\ exec.status = "waiting"
    /\ exec.version # v
    /\ exec.claim = "none"
    /\ \E w \in Waits : OpenPark(park[w])
    /\ MatchesClassification(ParkRows)
    /\ exec' = [exec EXCEPT !.version = v]
    /\ park' = Resolved("migrate")
    /\ row' = Requeued(row)
    /\ moves' = moves + 1
    /\ UNCHANGED <<att, answer, body, faults>>

(* requestCancelForEntity: the first claim stands, and the run's parks are *)
(* woken with it.                                                          *)
RequestCancel ==
    /\ exec.status \in InFlight
    /\ exec.claim = "none"
    /\ exec' = [exec EXCEPT !.claim = "cancel"]
    /\ park' = Resolved("cancel")
    /\ row' = Requeued(row)
    /\ UNCHANGED <<att, answer, body, moves, faults>>

(* endInFlight: a Concurrency policy ends an unclaimed run.  A pass still  *)
(* on it finds every write refused.                                        *)
EndInFlight ==
    /\ exec.status \in InFlight
    /\ exec.claim = "none"
    /\ EndRun("superseded")
    /\ UNCHANGED <<att, answer, moves, faults>>

----------------------------------------------------------------------------

WaitStep(w) ==
    \/ AdmitOpen(w)
    \/ AdmitClose(w)
    \/ RequestExit(w)
    \/ Admitted(w)
    \/ Resolve(w)
    \/ PrepareEnds(w)
    \/ StartWait(w)
    \/ ReparkWait(w)
    \/ PrepareParks(w)
    \/ PrepareRefused(w)
    \/ WaitForEvent(w)
    \/ ResumeFence(w)
    \/ ResumeRefused(w)
    \/ ResumeSettle(w)
    \/ ResumeEnds(w)
    \/ AbandonWait(w)
    \/ Replayed(w)
    \/ Check(w)

PassStep ==
    \/ Open
    \/ Drain
    \/ \E w \in Waits : WaitStep(w)
    \/ MarkWaitingIfParked
    \/ ReleaseParked
    \/ ReadOutcome
    \/ RecordEnd

Producer ==
    \/ \E w \in Waits : DeliverEvent(w)
    \/ \E v \in Versions : Migrate(v)
    \/ RequestCancel
    \/ EndInFlight

Next ==
    \/ Claim
    \/ PassStep
    \/ PassCut
    \/ BackoffEnds
    \/ \E w \in Waits : DeadlinePasses(w)
    \/ Producer

Spec == Init /\ [][Next]_vars

(* Some worker polls for due rows, a pass that is not cut off goes on, and *)
(* time passes.  No Event, Migration, claim or cut is assumed.             *)
Fairness ==
    /\ WF_vars(Claim)
    /\ WF_vars(PassStep)
    /\ WF_vars(BackoffEnds)
    /\ \A w \in Waits : WF_vars(DeadlinePasses(w))

FairSpec == Spec /\ Fairness

----------------------------------------------------------------------------
(* Properties.                                                             *)

(* A run asleep has a park that wakes it: it waits on some row, no row of  *)
(* its parks holds a wake, and once a deadline passed it is due.  Events,  *)
(* claims, Migrations and deadlines race the release that puts it to       *)
(* sleep, and a wake missed there would be lost for good.                  *)
NoWakeSleptThrough ==
    row.state = "waiting" =>
        /\ \E w \in Waits : park[w].status = "waiting"
        /\ \A w \in Waits : park[w].status # "resuming"
        /\ \A w \in Waits : OverduePark(park[w]) => row.wake = "due"

(* No Wait parks, or stays parked, on a side of the graph the run's claim  *)
(* closed: a claim resolves the parks that stand, and refuses the parks    *)
(* that branches admitted before it still try to write.                    *)
ClaimLeavesNoParkWaiting ==
    \A w \in Waits :
        park[w].status = "waiting" => ClaimAdmits(exec.claim, Side(w))

(* The first claim decides how the run ends: it is never replaced, the run *)
(* keeps its version from then on, and the verdict is the claim's own.     *)
ClaimDecidesTheEnd ==
    [][/\ exec.claim # "none" =>
            exec'.claim = exec.claim /\ exec'.version = exec.version
       /\ exec.status \in InFlight /\ exec'.status \in Verdicts =>
            exec'.status \in CASE exec'.claim = "cancel" -> {"canceled"}
                              [] exec'.claim = "exit" -> {"exited"}
                              [] OTHER -> Verdicts \ {"canceled", "exited"}]_vars

(* The Canceled outlet is entered only by a run with a Cancel claim, and   *)
(* such a run is recorded canceled only once the Waits that head its       *)
(* outlet have ended, however late the claim arrived.                      *)
CanceledAfterItsOutlet ==
    \A w \in Canceled :
        /\ att[w] # <<>> => exec.claim = "cancel"
        /\ exec.status = "canceled" /\ Above[w] = {} =>
              /\ att[w] # <<>>
              /\ LET a == att[w][Len(att[w])]
                 IN  a.prep = "parked" => a.resume # "none"

(* An Event the run accepted is not timed out: no attempt of an event Wait *)
(* ends as a timeout with an Event on its row, whichever was read first.   *)
(* A row that was closed, by the run's end or an abandoned Wait, is out of *)
(* it, and so is an attempt prepared as a delay: a version may hold the    *)
(* Wait as one, and act on the time the run was first prepared for.        *)
EventBeatsTimeout ==
    \A w \in Waits : \A k \in DOMAIN att[w] :
        /\ att[w][k].resume = "timeout"
        /\ Mode[w][att[w][k].ver] = "event"
        => park[w].wake # "resume" \/ park[w].status = "cancelled"

(* The Wait's row holds an Event it has yet to resume with.                *)
HoldsEvent(w) == park[w].status = "resuming" /\ park[w].wake = "resume"

(* An Event the run accepted stays on its row until the Wait resumes with  *)
(* it: no re-park, timeout, Migration or later Event writes over it, and   *)
(* only a claim, the run's end or an abandoned Wait closes the row.        *)
AcceptedEventKept ==
    [][\A w \in Waits :
          HoldsEvent(w) =>
              \/ park'[w] = park[w]
              \/ park'[w] = [park[w] EXCEPT !.status = "resumed"]
              \/ /\ park'[w] = [park[w] EXCEPT !.status = "cancelled"]
                 /\ \/ exec.claim # "none"
                    \/ exec'.status \in Verdicts
                    \/ Abandoned(w)]_vars

(* A run that completes had acted on every Event it accepted: of the parks *)
(* its terminal write closes, none holds more than a Migration's wake.     *)
CompletionDropsNoEvent ==
    [][exec.status # "completed" /\ exec'.status = "completed" =>
          \A w \in Waits : OpenPark(park[w]) => park[w].wake = "migrate"]_vars

(* The Waits a pass may drive in the same round as w.                      *)
Beside(w) ==
    {x \in Waits \ {w} :
        Side(x) = Side(w) /\ x \notin Above[w] /\ w \notin Above[x]}

(* A Wait resumes only under the version the run pins: a Migration that    *)
(* lands between a pass loading its graph and the resume step's end sends  *)
(* the pass around again.  Only a Wait beside it that parks in this pass   *)
(* can move the run back to waiting behind the fence and let one in.       *)
ResumedUnderPinnedVersion ==
    [][\A w \in Waits :
          /\ At(w, "settled") /\ att'[w] # att[w]
          /\ \A x \in Beside(w) : body.stage[x] = "out"
          => \/ IsClaimWake(body.wake[w])
             \/ exec.version = body.version]_vars

(* Without its rows, its passes and its graph the run is an Execution.     *)
Lifecycle == INSTANCE Execution WITH
    status   <- exec.status,
    version  <- exec.version,
    claim    <- exec.claim,
    accepted <- {w \in Waits : HoldsEvent(w)},
    asleep   <- row.state = "waiting"

(* The rows keep the Execution's promise: whichever pass, Event, deadline, *)
(* claim, Migration or supersession comes when, the run sleeps only as a   *)
(* waiting one that owes no Event an answer, is moved only then and never  *)
(* once it is claimed, and ends once, as its first claim says.             *)
ImplementsExecution == Lifecycle!Spec

(* Every park is mortal, so a run nobody wakes, claims or ends still ends. *)
RunEnds == <>(exec.status \in Verdicts)
============================================================================
