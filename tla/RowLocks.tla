------------------------------ MODULE RowLocks -------------------------------
(***************************************************************************)
(* The row locks that the PostgreSQL transactions on one workflow, its     *)
(* cron timer and its runs take, and the order they take them in           *)
(* (services/executions/repo, services/workflows/repo.ts,                  *)
(* lib/db/batched-delete.ts).                                              *)
(*                                                                         *)
(* What a transaction writes is the business of the other modules.  Here   *)
(* it is its statements, one after the other, and each statement the rows  *)
(* it locks and how strongly.  A statement selects its rows when it is     *)
(* issued and locks them one by one; a row another transaction locked      *)
(* meanwhile is waited for, and left out if by then it no longer matches.  *)
(* Locks are held until the transaction ends.                              *)
(*                                                                         *)
(* A run is its schedule row, its execution row, its audit rows (entries   *)
(* and node logs) and its wait rows.  One row stands for its wait rows,    *)
(* one for its audit rows and one for the timers: whoever waits for        *)
(* several of these in one statement holds the run's, or the workflow's,   *)
(* other rows against everyone else who does.                              *)
(***************************************************************************)
EXTENDS Naturals, Sequences, FiniteSets

CONSTANTS
    Sessions,       \* the database sessions
    Runs,           \* the runs, named by the order of their schedule ids
    ExecutionPlace, \* [Runs -> Nat]: the order of their execution ids
    Mixes,          \* the situations looked at, by name:
                    \* [runs : [Runs -> Lives], kinds : SUBSET Kinds,
                    \*  atOnce : Nat], atOnce the most transactions open
    NoRow           \* a session that waits for no row

ASSUME SessionsAssumption == IsFiniteSet(Sessions)

ASSUME RunsAssumption == Runs \subseteq Nat \ {0}

ASSUME PlaceAssumption ==
    /\ ExecutionPlace \in [Runs -> Nat]
    /\ \A r, q \in Runs : r # q => ExecutionPlace[r] # ExecutionPlace[q]

VARIABLES
    mix,      \* the situation, for good
    life,     \* [Runs \cup {0} -> Lives]; 0 is the workflow and its timer
    session   \* [Sessions -> the transaction in it]

vars == <<mix, life, session>>

----------------------------------------------------------------------------
(* Rows and locks.                                                         *)

Lives == {"unborn", "live", "ended", "gone"}

RunTables == {"schedule", "execution", "audit", "wait"}

WorkflowTables == {"workflow", "timer", "decision"}

Rows == (RunTables \X Runs) \cup (WorkflowTables \X {0})

ASSUME NoRowAssumption == NoRow \notin Rows

(* A run that ended has no schedule row.                                   *)
Exists(x) == life[x[2]] \in IF x[1] = "schedule" THEN {"live"}
                                                 ELSE {"live", "ended"}

(* The strengths of a row lock: for key share, for share, for no key       *)
(* update (an update that leaves the keys alone) and for update (a delete).*)
KeyShare == 1
Share    == 2
NoKey    == 3
Update   == 4

(* PostgreSQL's table of conflicting row locks.                            *)
Conflict(m, n) == m + n > 4

(* A statement: the table it locks rows of, how strongly, and whether it   *)
(* takes them in the order of their ids.                                   *)
Locks(table, mode) == [table |-> table, mode |-> mode, byId |-> FALSE]

LocksById(table, mode) == [table |-> table, mode |-> mode, byId |-> TRUE]

----------------------------------------------------------------------------
(* The statements of each transaction.                                     *)

\* Mutant: the rows are locked in whatever order the query finds them.
lockSchedules_AnyOrder == <<Locks("schedule", Update)>>

(* The schedule rows of the runs a write is about to change come first.    *)
lockSchedules == <<LocksById("schedule", Update)>>

(* A pass's write stands on its schedule row, shared with the writes that  *)
(* its other branches make meanwhile.                                      *)
writeFenced == <<Locks("schedule", Share)>>

(* A wait row, new or found, and the workflow it names.                    *)
startWait == writeFenced \o <<Locks("execution", NoKey), Locks("wait", Update),
                              Locks("workflow", KeyShare)>>

reparkWait == writeFenced \o <<Locks("execution", Update), Locks("wait", NoKey)>>

(* settleWaitTimeout, markWaitStatus and recordParkStep.                   *)
settleWaitTimeout == writeFenced \o <<Locks("wait", NoKey)>>

(* markRunning and markWaitingIfParked.                                    *)
markRunning == writeFenced \o <<Locks("execution", NoKey)>>

requestExit == writeFenced \o <<Locks("execution", NoKey), Locks("wait", NoKey)>>

(* A node log or an audit entry names its run, and an entry its workflow.  *)
recordEntry ==
    writeFenced \o <<Locks("execution", KeyShare), Locks("workflow", KeyShare)>>

closeNodeLog == writeFenced \o <<Locks("audit", NoKey)>>

(* renewLease, writeStepMemo, releasePass and dropSchedule change the row  *)
(* the pass stands on.                                                     *)
passWrite == <<Locks("schedule", Update)>>

(* Runs end, their open wait rows close and their schedule rows go.        *)
endExecutions ==
    lockSchedules \o <<Locks("execution", NoKey), Locks("wait", NoKey)>>

(* finishRun, under its fence.                                             *)
finishRun == passWrite \o endExecutions

claimWaitState == lockSchedules \o <<Locks("wait", NoKey)>>

repinVersion ==
    lockSchedules \o <<Locks("execution", Update), LocksById("wait", Update)>>

(* The decision row keeps a second attempt of the same delivery waiting.   *)
requestCancelForEntity ==
    lockSchedules \o <<Locks("decision", Update), Locks("execution", NoKey),
                       Locks("wait", NoKey), Locks("workflow", KeyShare)>>

(* The runs in flight end, and the new run names its workflow.             *)
admitWithConcurrency == endExecutions \o <<Locks("workflow", KeyShare)>>

fireCronTimer == <<Locks("timer", Update)>> \o admitWithConcurrency

skipCronSlot == <<Locks("timer", Update), Locks("workflow", KeyShare)>>

(* The rows claimed, whichever lane they are of, are those nobody locks;   *)
(* the parks of their runs that are overdue follow.                        *)
claimDue == <<Locks("wait", NoKey)>>

(* The new version names its workflow before the workflow is changed.      *)
insertPublishedVersion ==
    <<Locks("workflow", KeyShare), Locks("workflow", NoKey),
      LocksById("timer", Update)>>

setPaused == <<Locks("workflow", NoKey), LocksById("timer", Update)>>

(* What a deleted execution row takes with it by cascade, in the order the *)
(* foreign keys were declared.                                             *)
cascade == <<Locks("audit", Update), Locks("wait", Update),
             Locks("schedule", Update)>>

deleteAllForWorkflow ==
    lockSchedules \o <<LocksById("execution", Update)>> \o cascade

(* The workflow's own cascade comes to the audit rows before the runs.     *)
deleteById ==
    setPaused \o <<Locks("workflow", Update), Locks("audit", Update),
                   Locks("execution", Update)>> \o cascade

(* The runs swept are those nobody locks.                                  *)
sweepEndedExecutions == cascade

Plans ==
    [startWait              |-> startWait,
     reparkWait             |-> reparkWait,
     settleWaitTimeout      |-> settleWaitTimeout,
     markRunning            |-> markRunning,
     requestExit            |-> requestExit,
     recordEntry            |-> recordEntry,
     closeNodeLog           |-> closeNodeLog,
     passWrite              |-> passWrite,
     finishRun              |-> finishRun,
     endInFlight            |-> endExecutions,
     claimWaitState         |-> claimWaitState,
     repinVersion           |-> repinVersion,
     requestCancelForEntity |-> requestCancelForEntity,
     admitWithConcurrency   |-> admitWithConcurrency,
     fireCronTimer          |-> fireCronTimer,
     skipCronSlot           |-> skipCronSlot,
     claimDue               |-> claimDue,
     insertPublishedVersion |-> insertPublishedVersion,
     setPaused              |-> setPaused,
     deleteAllForWorkflow   |-> deleteAllForWorkflow,
     deleteById             |-> deleteById,
     sweepEndedExecutions   |-> sweepEndedExecutions]

Kinds == DOMAIN Plans

ASSUME MixesAssumption ==
    \A m \in DOMAIN Mixes : /\ Mixes[m].runs \in [Runs -> Lives]
                           /\ Mixes[m].kinds \in SUBSET Kinds
                           /\ Mixes[m].atOnce \in Nat

(* A write of a pass, which ends where its row is no longer the pass's.    *)
OfRunPass == {"startWait", "reparkWait", "settleWaitTimeout", "markRunning",
              "requestExit", "recordEntry", "closeNodeLog", "passWrite",
              "finishRun"}

Fenced == OfRunPass \cup {"fireCronTimer", "skipCronSlot"}

OfOneRun == OfRunPass \cup {"endInFlight", "claimWaitState", "repinVersion"}

OfTheEntity == {"requestCancelForEntity", "admitWithConcurrency", "fireCronTimer"}

OfTheWorkflow == {"deleteAllForWorkflow", "deleteById"}

SkipLocked == {"claimDue", "sweepEndedExecutions"}

Deletes == OfTheWorkflow \cup {"sweepEndedExecutions"}

Ends == {"finishRun", "endInFlight", "admitWithConcurrency", "fireCronTimer"}

Opens == {"admitWithConcurrency", "fireCronTimer"}

----------------------------------------------------------------------------
(* A transaction: its kind, the runs its first read found, the statement   *)
(* it is at, the rows that statement still has to lock, the one among them *)
(* it is locking, and how it holds each row.                               *)

Idle == [kind |-> "none", runs |-> {}, at |-> 0, todo |-> {}, on |-> NoRow,
         held |-> [x \in Rows |-> 0]]

Statement(s) == Plans[s.kind][s.at]

(* Whether a statement of s, whatever its table, selects the row.          *)
Selects(s, x) ==
    /\ Exists(x)
    /\ \/ x[2] = 0
       \/ s.kind \in OfTheWorkflow
       \/ /\ x[2] \in s.runs
          /\ life[x[2]] = IF s.kind = "sweepEndedExecutions" THEN "ended"
                                                             ELSE "live"

(* The order of the rows of one table by id.                               *)
Place(x) == IF x[1] = "execution" THEN ExecutionPlace[x[2]] ELSE x[2]

First(rows) == {x \in rows : \A y \in rows : Place(x) <= Place(y)}

(* s goes on to lock one of `rows`, or is done with its statement.         *)
TurnsTo(s, rows) ==
    IF rows = {} THEN {[s EXCEPT !.todo = {}, !.on = NoRow]}
    ELSE {[s EXCEPT !.todo = rows \ {x}, !.on = x] :
             x \in IF Statement(s).byId THEN First(rows) ELSE rows}

(* s issues its next statement.                                            *)
Issues(s) ==
    LET next == [s EXCEPT !.at = @ + 1]
    IN  TurnsTo(next, {x \in Rows : /\ x[1] = Statement(next).table
                                    /\ Selects(s, x)
                                    /\ s.held[x] < Statement(next).mode})

Becomes(t, s) == session' = [session EXCEPT ![t] = s]

----------------------------------------------------------------------------
(* The steps of a session.                                                 *)

Living == {r \in Runs : life[r] = "live"}

(* The runs a transaction of the kind may be about.                        *)
Subjects(kind) ==
    IF kind \in OfOneRun THEN {{r} : r \in Living}
    ELSE IF kind \in OfTheEntity THEN SUBSET Living
    ELSE {{}}

(* Bound: a situation has so many transactions open at once.               *)
Free(t) ==
    /\ session[t] = Idle
    /\ Cardinality({u \in Sessions : session[u] # Idle}) < mix.atOnce

Begin(t) ==
    /\ Free(t)
    /\ life[0] = "live"
    /\ \E kind \in mix.kinds \ SkipLocked : \E subjects \in Subjects(kind) :
          \E s \in Issues([Idle EXCEPT !.kind = kind, !.runs = subjects]) :
             Becomes(t, s)
    /\ UNCHANGED <<mix, life>>

(* The rows no other transaction holds.                                    *)
Unlocked(rows) == {x \in rows : \A u \in Sessions : session[u].held[x] = 0}

(* A batch is taken `for update skip locked`: no row of it is waited for.  *)
BeginUnlocked(t) ==
    /\ Free(t)
    /\ \E kind \in mix.kinds \cap SkipLocked :
          LET batch == IF kind = "claimDue"
                         THEN {x \in Rows : x[1] \in {"schedule", "timer"}
                                             /\ Exists(x)}
                         ELSE {x \in Rows : x[1] = "execution"
                                             /\ life[x[2]] = "ended"}
          IN  \E taken \in SUBSET Unlocked(batch) :
                 /\ taken # {}
                 /\ Becomes(t, [Idle EXCEPT
                       !.kind = kind,
                       !.runs = {x[2] : x \in taken} \ {0},
                       !.held = [x \in Rows |-> IF x \in taken THEN Update ELSE 0]])
    /\ UNCHANGED <<mix, life>>

Issue(t) ==
    /\ session[t].kind # "none"
    /\ session[t].on = NoRow
    /\ session[t].at < Len(Plans[session[t].kind])
    /\ \E s \in Issues(session[t]) : Becomes(t, s)
    /\ UNCHANGED <<mix, life>>

(* t asks for a row that u holds against it.                               *)
WaitsFor(t, u) ==
    /\ t # u
    /\ session[t].on # NoRow
    /\ Conflict(session[u].held[session[t].on], Statement(session[t]).mode)

(* The row is free for t: it is locked, or passed over if it no longer is  *)
(* one the statement selects.  A fence that lost its row ends the write.   *)
Take(t) ==
    /\ session[t].on # NoRow
    /\ \A u \in Sessions : ~WaitsFor(t, u)
    /\ LET s == session[t]
       IN  IF Selects(s, s.on)
             THEN \E n \in TurnsTo([s EXCEPT !.held[s.on] = Statement(s).mode], s.todo) :
                     Becomes(t, n)
           ELSE IF s.kind \in Fenced /\ s.at = 1
             THEN Becomes(t, Idle)
           ELSE \E n \in TurnsTo(s, s.todo) : Becomes(t, n)
    /\ UNCHANGED <<mix, life>>

(* The runs whose execution rows s wrote.                                  *)
Written(s) == {r \in Runs : s.held[<<"execution", r>>] >= NoKey}

Commit(t) ==
    /\ session[t].kind # "none"
    /\ session[t].on = NoRow
    /\ session[t].at = Len(Plans[session[t].kind])
    /\ LET s == session[t]
       IN  \E opened \in {{}} \cup IF s.kind \in Opens
                                    THEN {{r} : r \in {q \in Runs : life[q] = "unborn"}}
                                    ELSE {} :
              life' = [r \in Runs \cup {0} |->
                         IF r \in opened THEN "live"
                         ELSE IF s.kind \in Deletes /\ r \in Written(s) THEN "gone"
                         ELSE IF s.kind = "deleteById" /\ r = 0 THEN "gone"
                         ELSE IF s.kind \in Ends /\ r \in Written(s) THEN "ended"
                         ELSE life[r]]
    /\ Becomes(t, Idle)
    /\ UNCHANGED mix

(* The transaction is aborted, or ends at a statement that finds nothing   *)
(* to do.                                                                  *)
Rollback(t) ==
    /\ session[t].kind # "none"
    /\ Becomes(t, Idle)
    /\ UNCHANGED <<mix, life>>

----------------------------------------------------------------------------

Init ==
    \E m \in DOMAIN Mixes :
        /\ mix = [name |-> m, kinds |-> Mixes[m].kinds, atOnce |-> Mixes[m].atOnce]
        /\ life = [r \in Runs \cup {0} |->
                     IF r = 0 THEN "live" ELSE Mixes[m].runs[r]]
        /\ session = [t \in Sessions |-> Idle]

Next ==
    \E t \in Sessions : \/ Begin(t)
                        \/ BeginUnlocked(t)
                        \/ Issue(t)
                        \/ Take(t)
                        \/ Commit(t)
                        \/ Rollback(t)

Spec == Init /\ [][Next]_vars

----------------------------------------------------------------------------
(* Properties.                                                             *)

(* The situations in which transactions wait in an order.  While the       *)
(* workflow stays its runs are deleted only where none is opened; while it *)
(* is deleted its runs have ended, and nothing is published or swept.      *)
Orderly(m) ==
    IF "deleteById" \in m.kinds
      THEN /\ m.kinds \cap {"insertPublishedVersion", "deleteAllForWorkflow",
                            "sweepEndedExecutions"} = {}
           /\ \A r \in Runs : m.runs[r] \in {"ended", "gone"}
      ELSE "deleteAllForWorkflow" \in m.kinds =>
             \A r \in Runs : m.runs[r] # "unborn"

(* Transactions never wait for one another in a circle.                    *)
NoDeadlock ==
    \A S \in (SUBSET Sessions) \ {{}} :
        \E t \in S : \A u \in S : ~WaitsFor(t, u)
=============================================================================
