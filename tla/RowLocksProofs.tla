--------------------------- MODULE RowLocksProofs ----------------------------
(***************************************************************************)
(* Proof that the transactions of RowLocks never wait in a circle.         *)
(*                                                                         *)
(* The rows are put in an order, by table and then by id, and a deleted    *)
(* workflow's row last.  The invariant says of each transaction what it    *)
(* holds and why: the schedule rows of its runs before anything else of    *)
(* theirs.  From it, whoever waits for a transaction that waits too asks   *)
(* for a row before the other's in the order, so that of any transactions  *)
(* that all wait one waits for none of them.                               *)
(***************************************************************************)
EXTENDS RowLocks, TLAPS, FiniteSetTheorems, WellFoundedInduction

-----------------------------------------------------------------------------
(* The order                                                               *)

Tables == RunTables \cup WorkflowTables

Level(table) ==
    IF table = "workflow" THEN 0 ELSE IF table = "timer" THEN 1
    ELSE IF table = "schedule" THEN 2 ELSE IF table = "decision" THEN 3
    ELSE IF table = "execution" THEN 4 ELSE IF table = "audit" THEN 5 ELSE 6

(* How late in the order a transaction asks for the row it waits for.  A   *)
(* deleted workflow's row comes last, and a share of it after that.        *)
Stage(s) ==
    IF s.on[1] # "workflow" THEN Level(s.on[1])
    ELSE IF Statement(s).mode = NoKey THEN 0
    ELSE IF Statement(s).mode = Update THEN 7 ELSE 8

(* t asks for its row before u asks for its own.                           *)
Before(s, n) ==
    \/ Stage(s) < Stage(n)
    \/ Stage(s) = Stage(n) /\ Place(s.on) < Place(n.on)

-----------------------------------------------------------------------------
(* What the transactions are                                               *)

(* The writes of a pass that leave its schedule row to its other branches. *)
Sharing == {"startWait", "reparkWait", "settleWaitTimeout", "markRunning",
            "requestExit", "recordEntry", "closeNodeLog"}

Delete == "deleteById"
Purge == "deleteAllForWorkflow"
Sweep == "sweepEndedExecutions"

OffRuns == {"skipCronSlot", "insertPublishedVersion", "setPaused"}

(* The transactions that lock schedule rows before any other row of a run, *)
(* the statement that does, and how strongly.                              *)
Guarded == Kinds \ (OffRuns \cup {Delete, Sweep})

Gate(k) == IF k = "claimDue" THEN 0 ELSE IF k = "fireCronTimer" THEN 2 ELSE 1

Guard(k) == IF k \in Sharing THEN Share ELSE Update

Batch(k) == IF k = "claimDue" THEN {"schedule", "timer"}
            ELSE IF k = Sweep THEN {"execution"} ELSE {}

RowsOfRuns == {"execution", "audit", "wait"}

TheWorkflow == <<"workflow", 0>>

-----------------------------------------------------------------------------
(* The inductive invariant                                                 *)

Transaction ==
    [kind : Kinds \cup {"none"}, runs : SUBSET Runs, at : Nat,
     todo : SUBSET Rows, on : Rows \cup {NoRow}, held : [Rows -> 0 .. 4]]

TypeOK ==
    /\ mix \in [name : DOMAIN Mixes, kinds : SUBSET Kinds, atOnce : Nat]
    /\ life \in [Runs \cup {0} -> Lives]
    /\ session \in [Sessions -> Transaction]

(* The rows the statement of s still has to lock.                          *)
Asked(s) == s.todo \cup IF s.on = NoRow THEN {} ELSE {s.on}

Touched(s) == {x \in Rows : s.held[x] > 0} \cup Asked(s)

(* What a transaction asks for is what its statement selects.              *)
Asks(s) ==
    /\ s.kind = "none" => s = Idle
    /\ s.kind # "none" => s.at <= Len(Plans[s.kind])
    /\ s.on = NoRow => s.todo = {}
    /\ s.on # NoRow => s.at > 0 /\ s.kind # "none"
    /\ s.on \notin s.todo
    /\ \A x \in Asked(s) :
         x[1] = Statement(s).table /\ s.held[x] < Statement(s).mode
    /\ s.on # NoRow /\ Statement(s).byId => \A x \in s.todo : Place(s.on) < Place(x)

(* Every row is held as one of the statements so far locks it.             *)
Holds(s) ==
    \A x \in Rows :
      \/ s.held[x] = 0
      \/ x[1] \in Batch(s.kind) /\ s.held[x] = Update
      \/ \E j \in 1 .. s.at : /\ Plans[s.kind][j].table = x[1]
                              /\ Plans[s.kind][j].mode = s.held[x]

(* The runs a transaction is about were there when it began.               *)
Ours(s, lives) ==
    /\ s.kind \in OfOneRun => \E r \in Runs : s.runs = {r}
    /\ \A r \in s.runs : lives[r] # "unborn"
    /\ s.kind \notin OfTheWorkflow =>
         \A x \in Touched(s) : x[1] \in RunTables => x[2] \in s.runs

About(s) == IF s.kind = Purge THEN Runs ELSE s.runs

(* From its gate on a transaction holds the schedule rows of its runs in   *)
(* flight, taken in their order.                                           *)
Gated(s, lives) ==
    /\ s.kind \in Guarded /\ s.at >= Gate(s.kind) =>
         \A r \in About(s) :
           lives[r] = "live" =>
             \/ s.held[<<"schedule", r>>] >= Guard(s.kind)
             \/ s.at = Gate(s.kind) /\ <<"schedule", r>> \in Asked(s)
    /\ \A x \in Asked(s) :
         x[1] = "schedule" => s.kind \in Guarded /\ s.at = Gate(s.kind)
    /\ s.on # NoRow /\ s.on[1] = "schedule" =>
         \A q \in Runs : s.held[<<"schedule", q>>] > 0 => q < s.on[2]

(* A schedule row is there while its run is in flight.                     *)
Scheduled(s, lives) ==
    \A r \in Runs : s.held[<<"schedule", r>>] > 0 => lives[r] = "live"

(* Who has to do with a run holds its schedule row, unless it deletes.     *)
Owned(s) ==
    s.kind \notin {Purge, Sweep, Delete} =>
      \A x \in Touched(s) : x[1] \in RowsOfRuns => s.held[<<"schedule", x[2]>>] > 0

Over(lives, r) == lives[r] \in {"ended", "gone"}

(* The deletion of all runs holds the rows it comes to from above.         *)
Purging(s, lives) ==
    s.kind = Purge =>
      /\ \A r \in Runs : lives[r] # "unborn"
      /\ \A x \in Touched(s) : x[1] \in RowsOfRuns =>
           Over(lives, x[2]) \/ s.held[<<"schedule", x[2]>>] = Update
      /\ \A x \in Touched(s) : x[1] \in {"audit", "wait"} =>
           s.held[<<"execution", x[2]>>] = Update
      /\ s.at >= 2 =>
           \A r \in Runs :
             lives[r] # "gone" =>
               \/ s.held[<<"execution", r>>] = Update
               \/ s.at = 2 /\ <<"execution", r>> \in Asked(s)
      /\ s.on # NoRow /\ s.on[1] = "execution" =>
           \A q \in Runs :
             s.held[<<"execution", q>>] > 0 => ExecutionPlace[q] < Place(s.on)

Sweeping(s, lives) ==
    s.kind = Sweep =>
      \A r \in s.runs : Over(lives, r) /\ s.held[<<"execution", r>>] = Update

(* The deletion of the workflow, whose runs have ended, holds its row.     *)
Deleting(s, lives) ==
    s.kind = Delete =>
      /\ \A r \in Runs : Over(lives, r)
      /\ s.at >= 1 /\ lives[0] = "live" =>
           s.held[TheWorkflow] >= NoKey \/ (s.at = 1 /\ TheWorkflow \in Asked(s))
      /\ s.at >= 3 /\ lives[0] = "live" =>
           s.held[TheWorkflow] = Update \/ (s.at = 3 /\ TheWorkflow \in Asked(s))
      /\ s.at = 3 /\ TheWorkflow \in Asked(s) => s.held[TheWorkflow] >= NoKey
      /\ \A x \in Touched(s) : x[1] \in RunTables => s.held[TheWorkflow] = Update
      /\ s.at >= 5 =>
           \A r \in Runs :
             lives[r] # "gone" =>
               \/ s.held[<<"execution", r>>] = Update
               \/ s.at = 5 /\ <<"execution", r>> \in Asked(s)

Sound(s, lives) ==
    /\ Asks(s) /\ Holds(s) /\ Owned(s)
    /\ Ours(s, lives) /\ Gated(s, lives) /\ Scheduled(s, lives)
    /\ Purging(s, lives) /\ Sweeping(s, lives) /\ Deleting(s, lives)

(* No two transactions hold a row against each other.                      *)
Exclusive ==
    \A t, u \in Sessions :
      t # u => \A x \in Rows : ~Conflict(session[t].held[x], session[u].held[x])

(* The situation is still one in which transactions wait in an order.      *)
Situation ==
    /\ \A t \in Sessions : session[t].kind \in mix.kinds \cup {"none"}
    /\ Purge \in mix.kinds => \A r \in Runs : life[r] # "unborn"
    /\ Delete \in mix.kinds =>
         /\ mix.kinds \cap {"insertPublishedVersion", Purge, Sweep} = {}
         /\ \A r \in Runs : Over(life, r)
    /\ life[0] \in {"live", "gone"}
    /\ life[0] = "gone" => \A r \in Runs : life[r] = "gone"

IInv ==
    /\ TypeOK /\ Situation /\ Exclusive
    /\ \A t \in Sessions : Sound(session[t], life)

-----------------------------------------------------------------------------
(* The lists of statements                                                 *)

Is(statement, table, mode, byId) ==
    statement.table = table /\ statement.mode = mode /\ statement.byId = byId

LEMMA AllKinds ==
  Kinds =
    {"startWait", "reparkWait", "settleWaitTimeout", "markRunning",
     "requestExit", "recordEntry", "closeNodeLog", "passWrite", "finishRun",
     "endInFlight", "claimWaitState", "repinVersion", "requestCancelForEntity",
     "admitWithConcurrency", "fireCronTimer", "skipCronSlot", "claimDue",
     "insertPublishedVersion", "setPaused", "deleteAllForWorkflow",
     "deleteById", "sweepEndedExecutions"}
  BY DEF Kinds, Plans

LEMMA StartWaitPlan ==
  LET p == Plans["startWait"]
  IN  /\ Len(p) = 4
      /\ Is(p[1], "schedule", Share, FALSE)
      /\ Is(p[2], "execution", NoKey, FALSE)
      /\ Is(p[3], "wait", Update, FALSE)
      /\ Is(p[4], "workflow", KeyShare, FALSE)
  BY DEF Plans, startWait, writeFenced, Is, Locks, LocksById

LEMMA ReparkWaitPlan ==
  LET p == Plans["reparkWait"]
  IN  /\ Len(p) = 3
      /\ Is(p[1], "schedule", Share, FALSE)
      /\ Is(p[2], "execution", Update, FALSE)
      /\ Is(p[3], "wait", NoKey, FALSE)
  BY DEF Plans, reparkWait, writeFenced, Is, Locks, LocksById

LEMMA SettleWaitTimeoutPlan ==
  LET p == Plans["settleWaitTimeout"]
  IN  /\ Len(p) = 2
      /\ Is(p[1], "schedule", Share, FALSE)
      /\ Is(p[2], "wait", NoKey, FALSE)
  BY DEF Plans, settleWaitTimeout, writeFenced, Is, Locks, LocksById

LEMMA MarkRunningPlan ==
  LET p == Plans["markRunning"]
  IN  /\ Len(p) = 2
      /\ Is(p[1], "schedule", Share, FALSE)
      /\ Is(p[2], "execution", NoKey, FALSE)
  BY DEF Plans, markRunning, writeFenced, Is, Locks, LocksById

LEMMA RequestExitPlan ==
  LET p == Plans["requestExit"]
  IN  /\ Len(p) = 3
      /\ Is(p[1], "schedule", Share, FALSE)
      /\ Is(p[2], "execution", NoKey, FALSE)
      /\ Is(p[3], "wait", NoKey, FALSE)
  BY DEF Plans, requestExit, writeFenced, Is, Locks, LocksById

LEMMA RecordEntryPlan ==
  LET p == Plans["recordEntry"]
  IN  /\ Len(p) = 3
      /\ Is(p[1], "schedule", Share, FALSE)
      /\ Is(p[2], "execution", KeyShare, FALSE)
      /\ Is(p[3], "workflow", KeyShare, FALSE)
  BY DEF Plans, recordEntry, writeFenced, Is, Locks, LocksById

LEMMA CloseNodeLogPlan ==
  LET p == Plans["closeNodeLog"]
  IN  /\ Len(p) = 2
      /\ Is(p[1], "schedule", Share, FALSE)
      /\ Is(p[2], "audit", NoKey, FALSE)
  BY DEF Plans, closeNodeLog, writeFenced, Is, Locks, LocksById

LEMMA PassWritePlan ==
  LET p == Plans["passWrite"]
  IN  /\ Len(p) = 1
      /\ Is(p[1], "schedule", Update, FALSE)
  BY DEF Plans, passWrite, Is, Locks, LocksById

LEMMA FinishRunPlan ==
  LET p == Plans["finishRun"]
  IN  /\ Len(p) = 4
      /\ Is(p[1], "schedule", Update, FALSE)
      /\ Is(p[2], "schedule", Update, TRUE)
      /\ Is(p[3], "execution", NoKey, FALSE)
      /\ Is(p[4], "wait", NoKey, FALSE)
  BY DEF Plans, finishRun, passWrite, endExecutions, lockSchedules, Is, Locks, LocksById

LEMMA EndInFlightPlan ==
  LET p == Plans["endInFlight"]
  IN  /\ Len(p) = 3
      /\ Is(p[1], "schedule", Update, TRUE)
      /\ Is(p[2], "execution", NoKey, FALSE)
      /\ Is(p[3], "wait", NoKey, FALSE)
  BY DEF Plans, endExecutions, lockSchedules, Is, Locks, LocksById

LEMMA ClaimWaitStatePlan ==
  LET p == Plans["claimWaitState"]
  IN  /\ Len(p) = 2
      /\ Is(p[1], "schedule", Update, TRUE)
      /\ Is(p[2], "wait", NoKey, FALSE)
  BY DEF Plans, claimWaitState, lockSchedules, Is, Locks, LocksById

LEMMA RepinVersionPlan ==
  LET p == Plans["repinVersion"]
  IN  /\ Len(p) = 3
      /\ Is(p[1], "schedule", Update, TRUE)
      /\ Is(p[2], "execution", Update, FALSE)
      /\ Is(p[3], "wait", Update, TRUE)
  BY DEF Plans, repinVersion, lockSchedules, Is, Locks, LocksById

LEMMA RequestCancelForEntityPlan ==
  LET p == Plans["requestCancelForEntity"]
  IN  /\ Len(p) = 5
      /\ Is(p[1], "schedule", Update, TRUE)
      /\ Is(p[2], "decision", Update, FALSE)
      /\ Is(p[3], "execution", NoKey, FALSE)
      /\ Is(p[4], "wait", NoKey, FALSE)
      /\ Is(p[5], "workflow", KeyShare, FALSE)
  BY DEF Plans, requestCancelForEntity, lockSchedules, Is, Locks, LocksById

LEMMA AdmitWithConcurrencyPlan ==
  LET p == Plans["admitWithConcurrency"]
  IN  /\ Len(p) = 4
      /\ Is(p[1], "schedule", Update, TRUE)
      /\ Is(p[2], "execution", NoKey, FALSE)
      /\ Is(p[3], "wait", NoKey, FALSE)
      /\ Is(p[4], "workflow", KeyShare, FALSE)
  BY DEF Plans, admitWithConcurrency, endExecutions, lockSchedules, Is, Locks, LocksById

LEMMA FireCronTimerPlan ==
  LET p == Plans["fireCronTimer"]
  IN  /\ Len(p) = 5
      /\ Is(p[1], "timer", Update, FALSE)
      /\ Is(p[2], "schedule", Update, TRUE)
      /\ Is(p[3], "execution", NoKey, FALSE)
      /\ Is(p[4], "wait", NoKey, FALSE)
      /\ Is(p[5], "workflow", KeyShare, FALSE)
  BY DEF Plans, fireCronTimer, admitWithConcurrency, endExecutions, lockSchedules, Is, Locks, LocksById

LEMMA SkipCronSlotPlan ==
  LET p == Plans["skipCronSlot"]
  IN  /\ Len(p) = 2
      /\ Is(p[1], "timer", Update, FALSE)
      /\ Is(p[2], "workflow", KeyShare, FALSE)
  BY DEF Plans, skipCronSlot, Is, Locks, LocksById

LEMMA ClaimDuePlan ==
  LET p == Plans["claimDue"]
  IN  /\ Len(p) = 1
      /\ Is(p[1], "wait", NoKey, FALSE)
  BY DEF Plans, claimDue, Is, Locks, LocksById

LEMMA InsertPublishedVersionPlan ==
  LET p == Plans["insertPublishedVersion"]
  IN  /\ Len(p) = 3
      /\ Is(p[1], "workflow", KeyShare, FALSE)
      /\ Is(p[2], "workflow", NoKey, FALSE)
      /\ Is(p[3], "timer", Update, TRUE)
  BY DEF Plans, insertPublishedVersion, Is, Locks, LocksById

LEMMA SetPausedPlan ==
  LET p == Plans["setPaused"]
  IN  /\ Len(p) = 2
      /\ Is(p[1], "workflow", NoKey, FALSE)
      /\ Is(p[2], "timer", Update, TRUE)
  BY DEF Plans, setPaused, Is, Locks, LocksById

LEMMA DeleteAllForWorkflowPlan ==
  LET p == Plans["deleteAllForWorkflow"]
  IN  /\ Len(p) = 5
      /\ Is(p[1], "schedule", Update, TRUE)
      /\ Is(p[2], "execution", Update, TRUE)
      /\ Is(p[3], "audit", Update, FALSE)
      /\ Is(p[4], "wait", Update, FALSE)
      /\ Is(p[5], "schedule", Update, FALSE)
  BY DEF Plans, deleteAllForWorkflow, lockSchedules, cascade, Is, Locks, LocksById

LEMMA DeleteByIdPlan ==
  LET p == Plans["deleteById"]
  IN  /\ Len(p) = 8
      /\ Is(p[1], "workflow", NoKey, FALSE)
      /\ Is(p[2], "timer", Update, TRUE)
      /\ Is(p[3], "workflow", Update, FALSE)
      /\ Is(p[4], "audit", Update, FALSE)
      /\ Is(p[5], "execution", Update, FALSE)
      /\ Is(p[6], "audit", Update, FALSE)
      /\ Is(p[7], "wait", Update, FALSE)
      /\ Is(p[8], "schedule", Update, FALSE)
  BY DEF Plans, deleteById, setPaused, cascade, Is, Locks, LocksById

LEMMA SweepEndedExecutionsPlan ==
  LET p == Plans["sweepEndedExecutions"]
  IN  /\ Len(p) = 3
      /\ Is(p[1], "audit", Update, FALSE)
      /\ Is(p[2], "wait", Update, FALSE)
      /\ Is(p[3], "schedule", Update, FALSE)
  BY DEF Plans, sweepEndedExecutions, cascade, Is, Locks, LocksById

(* What the lists say of a statement: which table, how strongly, and what  *)
(* came before it.                                                         *)
Lists(k, i) ==
    /\ Plans[k][i].table \in Tables
    /\ Plans[k][i].mode \in 1 .. 4

OfRows(k, i) ==
    /\ Plans[k][i].table = "workflow" =>
         \/ Plans[k][i].mode = KeyShare
         \/ /\ Plans[k][i].mode = NoKey
            /\ k \in {"setPaused", "insertPublishedVersion", Delete}
         \/ Plans[k][i].mode = Update /\ k = Delete
    /\ Plans[k][i].table \in {"timer", "decision"} => Plans[k][i].mode = Update
    /\ Plans[k][i].table = "schedule" /\ k \notin {Delete, Sweep} =>
         k \in Guarded /\ Plans[k][i].mode = Guard(k)

AtGate(k, i) ==
    /\ k \in Guarded =>
         /\ i < Gate(k) => Plans[k][i].table = "timer"
         /\ i = Gate(k) =>
              /\ Plans[k][i].table = "schedule"
              /\ Plans[k][i].byId \/ k \in OfRunPass
         /\ i > Gate(k) => Plans[k][i].table # "timer"
    /\ k \in OffRuns => Plans[k][i].table \in {"workflow", "timer"}
    /\ k = "claimDue" => Plans[k][i].table = "wait"

InOrder(k, i) ==
    \A j \in 1 .. i :
      /\ \/ Plans[k][i].table \in {"workflow", "schedule"}
         \/ k = Delete
         \/ Level(Plans[k][j].table) <= Level(Plans[k][i].table)
      /\ Plans[k][j].table = "workflow" /\ Plans[k][j].mode = KeyShare =>
           j = i \/ k = "insertPublishedVersion"
      /\ Plans[k][j].table = Plans[k][i].table /\ k \in Sharing => j = i
      /\ Plans[k][i].table = "workflow" /\ Plans[k][i].mode = NoKey =>
           Plans[k][j].table = "workflow"

OfDeletions(k, i) ==
    /\ k = Purge =>
         /\ i = 1 <=> (Plans[k][i].table = "schedule" /\ i < 5)
         /\ i = 2 <=> Plans[k][i].table = "execution"
         /\ i = 2 => Plans[k][i].mode = Update /\ Plans[k][i].byId
         /\ Plans[k][i].table \in RunTables
    /\ k = Sweep => Plans[k][i].table \in {"audit", "wait", "schedule"}
    /\ k = Delete =>
         /\ Plans[k][i].table = "workflow" <=> i \in {1, 3}
         /\ Plans[k][i].table = "timer" <=> i = 2
         /\ Plans[k][i].table = "execution" <=> i = 5
         /\ i > 3 <=> Plans[k][i].table \in RunTables
         /\ Plans[k][i].mode = IF i = 1 THEN NoKey ELSE Update

LEMMA Statements ==
  ASSUME NEW k \in Kinds, NEW i \in 1 .. Len(Plans[k])
  PROVE  /\ Lists(k, i) /\ OfRows(k, i) /\ AtGate(k, i) /\ InOrder(k, i)
         /\ OfDeletions(k, i)
<1> USE DEF Is, Lists, OfRows, AtGate, InOrder, OfDeletions, KeyShare, Share, NoKey,
            Update, Tables, RunTables, WorkflowTables, Guarded, Gate, Guard,
            OffRuns, OfRunPass, Sharing, Delete, Purge, Sweep, Level
<1>startWait. CASE k = "startWait"
  <2>1. i \in {1, 2, 3, 4}
    BY <1>startWait, StartWaitPlan
  <2> QED
    BY <1>startWait, <2>1, StartWaitPlan
<1>reparkWait. CASE k = "reparkWait"
  <2>1. i \in {1, 2, 3}
    BY <1>reparkWait, ReparkWaitPlan
  <2> QED
    BY <1>reparkWait, <2>1, ReparkWaitPlan
<1>settleWaitTimeout. CASE k = "settleWaitTimeout"
  <2>1. i \in {1, 2}
    BY <1>settleWaitTimeout, SettleWaitTimeoutPlan
  <2> QED
    BY <1>settleWaitTimeout, <2>1, SettleWaitTimeoutPlan
<1>markRunning. CASE k = "markRunning"
  <2>1. i \in {1, 2}
    BY <1>markRunning, MarkRunningPlan
  <2> QED
    BY <1>markRunning, <2>1, MarkRunningPlan
<1>requestExit. CASE k = "requestExit"
  <2>1. i \in {1, 2, 3}
    BY <1>requestExit, RequestExitPlan
  <2> QED
    BY <1>requestExit, <2>1, RequestExitPlan
<1>recordEntry. CASE k = "recordEntry"
  <2>1. i \in {1, 2, 3}
    BY <1>recordEntry, RecordEntryPlan
  <2> QED
    BY <1>recordEntry, <2>1, RecordEntryPlan
<1>closeNodeLog. CASE k = "closeNodeLog"
  <2>1. i \in {1, 2}
    BY <1>closeNodeLog, CloseNodeLogPlan
  <2> QED
    BY <1>closeNodeLog, <2>1, CloseNodeLogPlan
<1>passWrite. CASE k = "passWrite"
  <2>1. i = 1
    BY <1>passWrite, PassWritePlan
  <2> QED
    BY <1>passWrite, <2>1, PassWritePlan
<1>finishRun. CASE k = "finishRun"
  <2>1. i \in {1, 2, 3, 4}
    BY <1>finishRun, FinishRunPlan
  <2> QED
    BY <1>finishRun, <2>1, FinishRunPlan
<1>endInFlight. CASE k = "endInFlight"
  <2>1. i \in {1, 2, 3}
    BY <1>endInFlight, EndInFlightPlan
  <2> QED
    BY <1>endInFlight, <2>1, EndInFlightPlan
<1>claimWaitState. CASE k = "claimWaitState"
  <2>1. i \in {1, 2}
    BY <1>claimWaitState, ClaimWaitStatePlan
  <2> QED
    BY <1>claimWaitState, <2>1, ClaimWaitStatePlan
<1>repinVersion. CASE k = "repinVersion"
  <2>1. i \in {1, 2, 3}
    BY <1>repinVersion, RepinVersionPlan
  <2> QED
    BY <1>repinVersion, <2>1, RepinVersionPlan
<1>requestCancelForEntity. CASE k = "requestCancelForEntity"
  <2>1. i \in {1, 2, 3, 4, 5}
    BY <1>requestCancelForEntity, RequestCancelForEntityPlan
  <2> QED
    BY <1>requestCancelForEntity, <2>1, RequestCancelForEntityPlan
<1>admitWithConcurrency. CASE k = "admitWithConcurrency"
  <2>1. i \in {1, 2, 3, 4}
    BY <1>admitWithConcurrency, AdmitWithConcurrencyPlan
  <2> QED
    BY <1>admitWithConcurrency, <2>1, AdmitWithConcurrencyPlan
<1>fireCronTimer. CASE k = "fireCronTimer"
  <2>1. i \in {1, 2, 3, 4, 5}
    BY <1>fireCronTimer, FireCronTimerPlan
  <2> QED
    BY <1>fireCronTimer, <2>1, FireCronTimerPlan
<1>skipCronSlot. CASE k = "skipCronSlot"
  <2>1. i \in {1, 2}
    BY <1>skipCronSlot, SkipCronSlotPlan
  <2> QED
    BY <1>skipCronSlot, <2>1, SkipCronSlotPlan
<1>claimDue. CASE k = "claimDue"
  <2>1. i = 1
    BY <1>claimDue, ClaimDuePlan
  <2> QED
    BY <1>claimDue, <2>1, ClaimDuePlan
<1>insertPublishedVersion. CASE k = "insertPublishedVersion"
  <2>1. i \in {1, 2, 3}
    BY <1>insertPublishedVersion, InsertPublishedVersionPlan
  <2> QED
    BY <1>insertPublishedVersion, <2>1, InsertPublishedVersionPlan
<1>setPaused. CASE k = "setPaused"
  <2>1. i \in {1, 2}
    BY <1>setPaused, SetPausedPlan
  <2> QED
    BY <1>setPaused, <2>1, SetPausedPlan
<1>deleteAllForWorkflow. CASE k = "deleteAllForWorkflow"
  <2>1. i \in {1, 2, 3, 4, 5}
    BY <1>deleteAllForWorkflow, DeleteAllForWorkflowPlan
  <2> QED
    BY <1>deleteAllForWorkflow, <2>1, DeleteAllForWorkflowPlan
<1>deleteById. CASE k = "deleteById"
  <2>1. i \in {1, 2, 3, 4, 5, 6, 7, 8}
    BY <1>deleteById, DeleteByIdPlan
  <2> QED
    BY <1>deleteById, <2>1, DeleteByIdPlan
<1>sweepEndedExecutions. CASE k = "sweepEndedExecutions"
  <2>1. i \in {1, 2, 3}
    BY <1>sweepEndedExecutions, SweepEndedExecutionsPlan
  <2> QED
    BY <1>sweepEndedExecutions, <2>1, SweepEndedExecutionsPlan

<1> QED
  BY <1>startWait, <1>reparkWait, <1>settleWaitTimeout, <1>markRunning, <1>requestExit,
     <1>recordEntry, <1>closeNodeLog, <1>passWrite, <1>finishRun, <1>endInFlight,
     <1>claimWaitState, <1>repinVersion, <1>requestCancelForEntity,
     <1>admitWithConcurrency, <1>fireCronTimer, <1>skipCronSlot, <1>claimDue,
     <1>insertPublishedVersion, <1>setPaused, <1>deleteAllForWorkflow, <1>deleteById,
     <1>sweepEndedExecutions, AllKinds

LEMMA Lengths ==
  ASSUME NEW k \in Kinds
  PROVE  Len(Plans[k]) \in Nat \ {0} /\ k # "none"
<1>1. k \in {"startWait", "reparkWait", "settleWaitTimeout", "markRunning"} => Len(Plans[k]) \in Nat \ {0}
  BY StartWaitPlan, ReparkWaitPlan, SettleWaitTimeoutPlan, MarkRunningPlan DEF Is
<1>2. k \in {"requestExit", "recordEntry", "closeNodeLog", "passWrite"} => Len(Plans[k]) \in Nat \ {0}
  BY RequestExitPlan, RecordEntryPlan, CloseNodeLogPlan, PassWritePlan DEF Is
<1>3. k \in {"finishRun", "endInFlight", "claimWaitState", "repinVersion"} => Len(Plans[k]) \in Nat \ {0}
  BY FinishRunPlan, EndInFlightPlan, ClaimWaitStatePlan, RepinVersionPlan DEF Is
<1>4. k \in {"requestCancelForEntity", "admitWithConcurrency", "fireCronTimer", "skipCronSlot"} => Len(Plans[k]) \in Nat \ {0}
  BY RequestCancelForEntityPlan, AdmitWithConcurrencyPlan, FireCronTimerPlan, SkipCronSlotPlan DEF Is
<1>5. k \in {"claimDue", "insertPublishedVersion", "setPaused", "deleteAllForWorkflow"} => Len(Plans[k]) \in Nat \ {0}
  BY ClaimDuePlan, InsertPublishedVersionPlan, SetPausedPlan, DeleteAllForWorkflowPlan DEF Is
<1>6. k \in {"deleteById", "sweepEndedExecutions"} => Len(Plans[k]) \in Nat \ {0}
  BY DeleteByIdPlan, SweepEndedExecutionsPlan DEF Is
<1> QED
  BY <1>1, <1>2, <1>3, <1>4, <1>5, <1>6, AllKinds

-----------------------------------------------------------------------------
(* Rows, and what a statement asks for                                     *)

LEMMA RowShape ==
  /\ \A x \in Rows : /\ x = <<x[1], x[2]>> /\ x[1] \in Tables
                     /\ x[1] \in RunTables => x[2] \in Runs
                     /\ x[1] \notin RunTables => x[2] = 0
  /\ \A table \in RunTables, r \in Runs : <<table, r>> \in Rows
  /\ TheWorkflow \in Rows /\ 0 \notin Runs
  BY RunsAssumption DEF Rows, Tables, RunTables, WorkflowTables, TheWorkflow

LEMMA Places ==
  ASSUME NEW x \in Rows, NEW y \in Rows
  PROVE  /\ Place(x) \in Nat
         /\ x[1] = y[1] /\ Place(x) = Place(y) => x = y
<1>1. x = <<x[1], x[2]>> /\ y = <<y[1], y[2]>>
  BY RowShape
<1>2. x[2] \in Nat /\ y[2] \in Nat
  BY RowShape, RunsAssumption
<1>3. x[1] = "execution" => x[2] \in Runs
  BY RowShape DEF RunTables
<1>4. y[1] = "execution" => y[2] \in Runs
  BY RowShape DEF RunTables
<1> QED
  BY <1>1, <1>2, <1>3, <1>4, PlaceAssumption DEF Place

LEMMA Turning ==
  ASSUME NEW s \in Transaction, NEW rows \in SUBSET Rows,
         \A x, y \in rows : x[1] = y[1],
         NEW n \in TurnsTo(s, rows)
  PROVE  /\ n \in Transaction
         /\ n.kind = s.kind /\ n.runs = s.runs /\ n.at = s.at /\ n.held = s.held
         /\ Asked(n) = rows
         /\ n.on = NoRow <=> rows = {}
         /\ n.on = NoRow => n.todo = {}
         /\ n.on # NoRow => n.on \in Rows
         /\ n.on \notin n.todo
         /\ n.on # NoRow /\ Statement(s).byId =>
              \A x \in n.todo : Place(n.on) < Place(x)
<1>1. CASE rows = {}
  BY <1>1 DEF TurnsTo, Transaction, Asked
<1>2. CASE rows # {}
  <2>1. PICK x \in rows : /\ n = [s EXCEPT !.todo = rows \ {x}, !.on = x]
                          /\ Statement(s).byId => x \in First(rows)
    BY <1>2 DEF TurnsTo, First
  <2>2. /\ n.kind = s.kind /\ n.runs = s.runs /\ n.at = s.at /\ n.held = s.held
        /\ n.todo = rows \ {x} /\ n.on = x /\ n \in Transaction
    BY <2>1 DEF Transaction
  <2>3. x \in Rows /\ x # NoRow
    BY NoRowAssumption
  <2>4. Asked(n) = rows
    BY <2>2, <2>3 DEF Asked
  <2>5. ASSUME Statement(s).byId, NEW y \in rows \ {x} PROVE Place(x) < Place(y)
    <3>1. Place(x) <= Place(y)
      BY <2>1, <2>5 DEF First
    <3>2. x[1] = y[1] /\ y \in Rows /\ x # y
      OBVIOUS
    <3>3. Place(x) \in Nat /\ Place(y) \in Nat /\ Place(x) # Place(y)
      BY <3>2, <2>3, Places, Zenon
    <3> QED
      BY <3>1, <3>3
  <2> QED
    BY <1>2, <2>2, <2>3, <2>4, <2>5
<1> QED
  BY <1>1, <1>2

(* What the next statement asks for.                                       *)
Selected(s) ==
    {x \in Rows : /\ x[1] = Plans[s.kind][s.at + 1].table
                  /\ Selects(s, x)
                  /\ s.held[x] < Plans[s.kind][s.at + 1].mode}

LEMMA Issuing ==
  ASSUME NEW s \in Transaction, NEW n \in Issues(s)
  PROVE  /\ n \in Transaction
         /\ n.kind = s.kind /\ n.runs = s.runs /\ n.at = s.at + 1 /\ n.held = s.held
         /\ Statement(n) = Plans[s.kind][s.at + 1]
         /\ Asked(n) = Selected(s)
         /\ n.on = NoRow <=> Selected(s) = {}
         /\ n.on = NoRow => n.todo = {}
         /\ n.on # NoRow => n.on \in Rows
         /\ n.on \notin n.todo
         /\ n.on # NoRow /\ Statement(n).byId =>
              \A x \in n.todo : Place(n.on) < Place(x)
<1> DEFINE next == [s EXCEPT !.at = @ + 1]
<1>1. /\ next \in Transaction /\ next.kind = s.kind /\ next.runs = s.runs
      /\ next.at = s.at + 1 /\ next.held = s.held
  BY DEF Transaction
<1>2. Statement(next) = Plans[s.kind][s.at + 1]
  BY <1>1 DEF Statement
<1>3. n \in TurnsTo(next, Selected(s))
  BY <1>2 DEF Issues, Selected
<1>4. Selected(s) \in SUBSET Rows /\ \A x, y \in Selected(s) : x[1] = y[1]
  BY DEF Selected
<1> HIDE DEF next
<1>5. /\ n \in Transaction
      /\ n.kind = next.kind /\ n.runs = next.runs /\ n.at = next.at
      /\ n.held = next.held
      /\ Asked(n) = Selected(s)
      /\ n.on = NoRow <=> Selected(s) = {}
      /\ n.on = NoRow => n.todo = {}
      /\ n.on # NoRow => n.on \in Rows
      /\ n.on \notin n.todo
      /\ n.on # NoRow /\ Statement(next).byId =>
           \A x \in n.todo : Place(n.on) < Place(x)
  BY <1>1, <1>3, <1>4, Turning
<1>6. Statement(n) = Statement(next)
  BY <1>5 DEF Statement
<1> QED
  BY <1>1, <1>2, <1>5, <1>6

-----------------------------------------------------------------------------
(* A transaction that issues its next statement                            *)

(* What TypeOK and Situation say of the lives.                             *)
LivesOK(lives) ==
    /\ lives \in [Runs \cup {0} -> Lives]
    /\ lives[0] \in {"live", "gone"}
    /\ lives[0] = "gone" => \A r \in Runs : lives[r] = "gone"

(* A row selected is there, and of a run the transaction is about.         *)
LEMMA SelectedRows ==
  ASSUME NEW s \in Transaction, s.kind \in Kinds, LivesOK(life),
         NEW x \in Rows, Selects(s, x)
  PROVE  /\ x[1] = "schedule" => life[x[2]] = "live"
         /\ life[x[2]] \in {"live", "ended"}
         /\ x[1] \in RunTables =>
              /\ x[2] \in Runs
              /\ s.kind \notin OfTheWorkflow => x[2] \in s.runs
              /\ s.kind \notin OfTheWorkflow \cup {Sweep} => life[x[2]] = "live"
              /\ s.kind = Sweep => x[1] # "schedule"
<1>1. Exists(x) /\ life[x[2]] \in {"live", "ended"}
  BY DEF Selects, Exists
<1>2. x[1] = "schedule" => life[x[2]] = "live"
  BY <1>1 DEF Exists
<1>3. ASSUME x[1] \in RunTables
      PROVE  x[2] \in Runs /\ x[2] # 0
  BY <1>3, RowShape, Zenon
<1>4. ASSUME x[1] \in RunTables, s.kind \notin OfTheWorkflow
      PROVE  /\ x[2] \in s.runs
             /\ life[x[2]] = IF s.kind = Sweep THEN "ended" ELSE "live"
  BY <1>3, <1>4 DEF Selects, Sweep
<1>5. Sweep \notin OfTheWorkflow
  BY DEF Sweep, OfTheWorkflow
<1> QED
  BY <1>1, <1>2, <1>3, <1>4, <1>5

LEMMA IssueSound ==
  ASSUME NEW s \in Transaction, s.kind \in Kinds, LivesOK(life), Sound(s, life),
         s.on = NoRow, s.at < Len(Plans[s.kind]),
         NEW n \in Issues(s)
  PROVE  n \in Transaction /\ n.kind = s.kind /\ n.held = s.held /\ Sound(n, life)
<1> DEFINE k == s.kind
           i == s.at + 1
<1>a. /\ n \in Transaction
      /\ n.kind = k /\ n.runs = s.runs /\ n.at = i /\ n.held = s.held
      /\ Statement(n) = Plans[k][i]
      /\ Asked(n) = Selected(s)
      /\ n.on = NoRow => n.todo = {}
      /\ n.on # NoRow => n.on \in Rows /\ n.on \in Asked(n)
      /\ n.on \notin n.todo
      /\ n.on # NoRow /\ Plans[k][i].byId =>
           \A x \in n.todo : Place(n.on) < Place(x)
  BY Issuing DEF Asked
<1>b. k \in Kinds /\ s.at \in Nat /\ i \in 1 .. Len(Plans[k]) /\ i \in Nat
  <2>1. s.at \in Nat
    BY DEF Transaction
  <2>2. Len(Plans[k]) \in Nat
    BY Lengths
  <2> QED
    BY <2>1, <2>2
<1>c. Lists(k, i) /\ OfRows(k, i) /\ AtGate(k, i) /\ OfDeletions(k, i)
  BY <1>b, Statements, Zenon
<1>d. Asked(s) = {}
  BY DEF Sound, Asks, Asked
<1>e. \A x \in Selected(s) :
        /\ x \in Rows /\ x[1] = Plans[k][i].table /\ Selects(s, x)
        /\ s.held[x] < Plans[k][i].mode
  BY DEF Selected
<1>f. \A x \in Selected(s) :
        /\ x[1] = "schedule" => life[x[2]] = "live"
        /\ life[x[2]] \in {"live", "ended"}
        /\ x[1] \in RunTables =>
              /\ x[2] \in Runs /\ x = <<x[1], x[2]>>
              /\ s.kind \notin OfTheWorkflow => x[2] \in s.runs
              /\ s.kind \notin OfTheWorkflow \cup {Sweep} => life[x[2]] = "live"
              /\ s.kind = Sweep => x[1] # "schedule"
  BY <1>e, SelectedRows, RowShape
<1>g. \A x \in Touched(n) : x \in Touched(s) \/ x \in Selected(s)
  BY <1>a DEF Touched
<1>h. \A x \in Rows : s.held[x] \in 0 .. 4
  BY DEF Transaction
<1> HIDE DEF k, i
<1>1. Asks(n)
  BY <1>a, <1>b, <1>e DEF Asks, Kinds, Plans
<1>2. Holds(n)
  BY <1>a, <1>b DEF Sound, Holds, k, i
<1>3. Ours(n, life)
  BY <1>a, <1>f, <1>g DEF Sound, Ours, k
<1>4. Owned(n)
  <2> SUFFICES ASSUME k \notin {Purge, Sweep, Delete}, NEW x \in Touched(n),
                      x[1] \in RowsOfRuns
               PROVE  s.held[<<"schedule", x[2]>>] > 0
    BY <1>a DEF Owned
  <2>1. CASE x \in Touched(s)
    BY <2>1 DEF Sound, Owned, k
  <2>2. CASE x \in Selected(s)
    <3>1. Plans[k][i].table \in RowsOfRuns
      BY <1>e, <2>2
    <3>2. k \in Guarded /\ i > Gate(k)
      BY <3>1, <1>b, <1>c DEF AtGate, Guarded, RowsOfRuns, Gate
    <3>3. x[2] \in s.runs /\ life[x[2]] = "live"
      BY <1>f, <2>2 DEF RowsOfRuns, RunTables, OfTheWorkflow, Purge, Delete, k
    <3>4. s.at >= Gate(k) /\ About(s) = s.runs
      BY <3>2, <1>b DEF i, Gate, About, k
    <3>5. s.held[<<"schedule", x[2]>>] >= Guard(k)
      BY <1>d, <3>2, <3>3, <3>4 DEF Sound, Gated, k
    <3>6. Guard(k) > 0
      BY DEF Guard, Share, Update
    <3>7. <<"schedule", x[2]>> \in Rows
      BY <1>f, <2>2, RowShape DEF RowsOfRuns, RunTables
    <3> QED
      BY <3>5, <3>6, <3>7, <1>h DEF Guard, Share, Update
  <2> QED
    BY <2>1, <2>2, <1>g
<1>5. Gated(n, life)
  <2>1. ASSUME k \in Guarded, i >= Gate(k), NEW r \in About(n), life[r] = "live",
               ~(s.held[<<"schedule", r>>] >= Guard(k))
        PROVE  i = Gate(k) /\ <<"schedule", r>> \in Asked(n)
    <3>1. About(n) = About(s) /\ r \in Runs
      BY <1>a DEF About, Transaction, k
    <3>2. ~(s.at >= Gate(k))
      BY <1>d, <2>1, <3>1 DEF Sound, Gated, k
    <3>3. i = Gate(k)
      BY <2>1, <3>2, <1>b DEF i, Gate
    <3>4. Plans[k][i].table = "schedule" /\ Plans[k][i].mode = Guard(k)
      BY <3>3, <2>1, <1>c DEF AtGate, OfRows, Guarded
    <3>5. <<"schedule", r>> \in Rows
      BY <3>1, RowShape DEF RunTables
    <3>6. Selects(s, <<"schedule", r>>)
      BY <2>1, <3>1 DEF Selects, Exists, About, Guarded, Sweep, Purge, OfTheWorkflow, k
    <3>7. s.held[<<"schedule", r>>] < Guard(k)
      BY <3>5, <2>1, <1>h DEF Guard, Share, Update
    <3> QED
      BY <3>3, <3>4, <3>5, <3>6, <3>7, <1>a DEF Selected, k, i
  <2>2. ASSUME NEW x \in Asked(n), x[1] = "schedule"
        PROVE  k \in Guarded /\ i = Gate(k)
    <3>1. x \in Selected(s) /\ Plans[k][i].table = "schedule" /\ x[2] \in Runs
          /\ life[x[2]] = "live" /\ k # Sweep /\ x = <<"schedule", x[2]>>
          /\ x \in Rows /\ s.held[x] < Plans[k][i].mode
      BY <1>a, <1>e, <1>f, <2>2 DEF RunTables, k
    <3>2. k # Delete
      BY <3>1 DEF Sound, Deleting, Over, k
    <3>3. k \in Guarded /\ Plans[k][i].mode = Guard(k)
      BY <3>1, <3>2, <1>c DEF OfRows
    <3>4. i >= Gate(k)
      BY <3>1, <3>3, <1>b, <1>c DEF AtGate, Gate
    <3>5. x[2] \in About(s)
      BY <1>f, <3>1, <3>2 DEF About, RunTables, OfTheWorkflow, Purge, Delete, k
    <3>6. ASSUME i > Gate(k) PROVE FALSE
      <4>1. s.at >= Gate(k)
        BY <3>6, <1>b DEF i, Gate
      <4>2. s.held[<<"schedule", x[2]>>] >= Guard(k)
        BY <4>1, <3>1, <3>3, <3>5, <1>d DEF Sound, Gated, k
      <4>3. s.held[x] \in 0 .. 4 /\ s.held[x] < Guard(k) /\ s.held[x] >= Guard(k)
        BY <4>2, <3>1, <3>3, <1>h
      <4> QED
        BY <4>3 DEF Guard, Share, Update
    <3> QED
      BY <3>3, <3>4, <3>6, <1>b DEF Gate
  <2>3. ASSUME n.on # NoRow, n.on[1] = "schedule", NEW q \in Runs,
               s.held[<<"schedule", q>>] > 0
        PROVE  q < n.on[2]
    <3>1. k \in Guarded /\ i = Gate(k)
      BY <2>2, <2>3, <1>a
    <3>2. <<"schedule", q>> \in Rows /\ <<"schedule", q>>[1] = "schedule"
      BY RowShape DEF RunTables
    <3>3. k # "claimDue" /\ "schedule" \notin Batch(k)
      BY <3>1, <1>b DEF Gate, Batch, i
    <3>4. PICK j \in 1 .. s.at : Plans[k][j].table = "schedule"
      BY <2>3, <3>2, <3>3 DEF Sound, Holds, k
    <3>5. j \in 1 .. Len(Plans[k]) /\ j < Gate(k)
      BY <3>1, <1>b, Lengths DEF i
    <3>6. AtGate(k, j)
      BY <3>5, <1>b, Statements, Zenon
    <3> QED
      BY <3>1, <3>4, <3>5, <3>6 DEF AtGate
  <2> QED
    BY <1>a, <2>1, <2>2, <2>3 DEF Gated
<1>6. Scheduled(n, life)
  BY <1>a DEF Sound, Scheduled
<1>7. Purging(n, life)
  <2> SUFFICES ASSUME k = Purge PROVE Purging(n, life)
    BY <1>a DEF Purging
  <2>a. Purging(s, life) /\ \A r \in Runs : life[r] # "unborn"
    BY DEF Sound, Purging, k
  <2>b. k \in Guarded /\ Gate(k) = 1 /\ Guard(k) = Update /\ About(s) = Runs
    BY <1>b DEF Guarded, Gate, Guard, About, Purge, OffRuns, Delete, Sweep, Sharing, k
  <2>1. ASSUME NEW x \in Touched(n), x[1] \in RowsOfRuns
        PROVE  Over(life, x[2]) \/ s.held[<<"schedule", x[2]>>] = Update
    <3>1. CASE x \in Touched(s)
      BY <3>1, <2>1, <2>a DEF Purging, k
    <3>2. CASE x \in Selected(s)
      <4>1. s.at >= 1
        BY <3>2, <2>1, <1>b, <1>c, <1>e DEF OfDeletions, RowsOfRuns, i
      <4>2. x[2] \in Runs /\ life[x[2]] \in {"live", "ended"}
        BY <3>2, <2>1, <1>f DEF RowsOfRuns, RunTables
      <4>3. life[x[2]] = "live" => s.held[<<"schedule", x[2]>>] >= Update
        BY <4>1, <4>2, <2>b, <1>d DEF Sound, Gated, k
      <4>4. s.held[<<"schedule", x[2]>>] \in 0 .. 4
        BY <4>2, <1>h, RowShape DEF RunTables
      <4> QED
        BY <4>2, <4>3, <4>4 DEF Over, Update
    <3> QED
      BY <3>1, <3>2, <1>g
  <2>2. ASSUME NEW x \in Touched(n), x[1] \in {"audit", "wait"}
        PROVE  s.held[<<"execution", x[2]>>] = Update
    <3>1. CASE x \in Touched(s)
      BY <3>1, <2>2, <2>a DEF Purging, k
    <3>2. CASE x \in Selected(s)
      <4>1. s.at >= 2
        BY <3>2, <2>2, <1>b, <1>c, <1>e DEF OfDeletions, i
      <4>2. x[2] \in Runs /\ life[x[2]] # "gone"
        BY <3>2, <2>2, <1>f DEF RunTables
      <4> QED
        BY <4>1, <4>2, <2>a, <1>d DEF Purging, k
    <3> QED
      BY <3>1, <3>2, <1>g
  <2>3. ASSUME i >= 2, NEW r \in Runs, life[r] # "gone",
               s.held[<<"execution", r>>] # Update
        PROVE  i = 2 /\ <<"execution", r>> \in Asked(n)
    <3>1. ~(s.at >= 2)
      BY <2>3, <2>a, <1>d DEF Purging, k
    <3>2. i = 2
      BY <3>1, <2>3, <1>b DEF i
    <3>3. Plans[k][i].table = "execution" /\ Plans[k][i].mode = Update
      BY <3>2, <1>c DEF OfDeletions
    <3>4. <<"execution", r>> \in Rows /\ s.held[<<"execution", r>>] \in 0 .. 4
      BY <1>h, RowShape DEF RunTables
    <3>5. life[r] \in {"live", "ended"}
      BY <2>3, <2>a DEF LivesOK, Lives
    <3>6. Selects(s, <<"execution", r>>)
      BY <3>5 DEF Selects, Exists, OfTheWorkflow, Purge, k
    <3> QED
      BY <3>2, <3>3, <3>4, <3>6, <2>3, <1>a DEF Selected, Update, k, i
  <2>4. ASSUME n.on # NoRow, n.on[1] = "execution", NEW q \in Runs,
               s.held[<<"execution", q>>] > 0
        PROVE  FALSE
    <3>1. i = 2
      BY <2>4, <1>a, <1>e, <1>c DEF OfDeletions
    <3>2. <<"execution", q>> \in Rows /\ <<"execution", q>>[1] = "execution"
      BY RowShape DEF RunTables
    <3>3. Batch(k) = {}
      BY DEF Batch, Purge, Sweep
    <3>4. PICK j \in 1 .. s.at : Plans[k][j].table = "execution"
      BY <2>4, <3>2, <3>3 DEF Sound, Holds, k
    <3>5. j = 1 /\ j \in 1 .. Len(Plans[k])
      BY <3>1, <1>b, Lengths DEF i
    <3>6. OfDeletions(k, j)
      BY <3>5, <1>b, Statements, Zenon
    <3> QED
      BY <3>4, <3>5, <3>6 DEF OfDeletions
  <2> QED
    BY <1>a, <2>a, <2>1, <2>2, <2>3, <2>4 DEF Purging
<1>8. Sweeping(n, life)
  BY <1>a DEF Sound, Sweeping, k
<1>9. Deleting(n, life)
  <2> SUFFICES ASSUME k = Delete PROVE Deleting(n, life)
    BY <1>a DEF Deleting
  <2>a. Deleting(s, life) /\ \A r \in Runs : Over(life, r)
    BY DEF Sound, Deleting, k
  <2>b. TheWorkflow \in Rows /\ TheWorkflow[1] = "workflow" /\ TheWorkflow[2] = 0
    BY RowShape DEF TheWorkflow
  <2>c. life[0] = "live" => Selects(s, TheWorkflow)
    BY <2>b DEF Selects, Exists
  <2>1. ASSUME i >= 1, life[0] = "live", ~(s.held[TheWorkflow] >= NoKey)
        PROVE  i = 1 /\ TheWorkflow \in Asked(n)
    <3>1. ~(s.at >= 1)
      BY <2>1, <2>a, <1>d DEF Deleting, k
    <3>2. i = 1
      BY <3>1, <1>b DEF i
    <3>3. Plans[k][i].table = "workflow" /\ Plans[k][i].mode = NoKey
      BY <3>2, <1>c DEF OfDeletions
    <3> QED
      BY <3>2, <3>3, <2>1, <2>b, <2>c, <1>a, <1>h DEF Selected, NoKey, k, i
  <2>2. ASSUME i >= 3, life[0] = "live", s.held[TheWorkflow] # Update
        PROVE  i = 3 /\ TheWorkflow \in Asked(n)
    <3>1. ~(s.at >= 3)
      BY <2>2, <2>a, <1>d DEF Deleting, k
    <3>2. i = 3
      BY <3>1, <2>2, <1>b DEF i
    <3>3. Plans[k][i].table = "workflow" /\ Plans[k][i].mode = Update
      BY <3>2, <1>c DEF OfDeletions
    <3> QED
      BY <3>2, <3>3, <2>2, <2>b, <2>c, <1>a, <1>h DEF Selected, Update, k, i
  <2>3. ASSUME i = 3, TheWorkflow \in Asked(n)
        PROVE  s.held[TheWorkflow] >= NoKey
    <3>1. life[0] = "live"
      BY <2>3, <2>b, <1>a, <1>f DEF LivesOK
    <3>2. s.at = 2
      BY <2>3, <1>b DEF i
    <3> QED
      BY <3>1, <3>2, <2>a DEF Deleting, k
  <2>4. ASSUME NEW x \in Touched(n), x[1] \in RunTables
        PROVE  s.held[TheWorkflow] = Update
    <3>1. CASE x \in Touched(s)
      BY <3>1, <2>4, <2>a DEF Deleting, k
    <3>2. CASE x \in Selected(s)
      <4>1. s.at >= 3
        BY <3>2, <2>4, <1>b, <1>c, <1>e DEF OfDeletions, i
      <4>2. x[2] \in Runs /\ life[x[2]] # "gone"
        BY <3>2, <2>4, <1>f
      <4>3. life[0] = "live"
        BY <4>2 DEF LivesOK
      <4> QED
        BY <4>1, <4>3, <2>a, <1>d DEF Deleting, k
    <3> QED
      BY <3>1, <3>2, <1>g
  <2>5. ASSUME i >= 5, NEW r \in Runs, life[r] # "gone",
               s.held[<<"execution", r>>] # Update
        PROVE  i = 5 /\ <<"execution", r>> \in Asked(n)
    <3>1. ~(s.at >= 5)
      BY <2>5, <2>a, <1>d DEF Deleting, k
    <3>2. i = 5
      BY <3>1, <2>5, <1>b DEF i
    <3>3. Plans[k][i].table = "execution" /\ Plans[k][i].mode = Update
      BY <3>2, <1>c DEF OfDeletions
    <3>4. <<"execution", r>> \in Rows /\ s.held[<<"execution", r>>] \in 0 .. 4
      BY <1>h, RowShape DEF RunTables
    <3>5. life[r] \in {"live", "ended"}
      BY <2>5, <2>a DEF Over
    <3>6. Selects(s, <<"execution", r>>)
      BY <3>5 DEF Selects, Exists, OfTheWorkflow, Delete, k
    <3> QED
      BY <3>2, <3>3, <3>4, <3>6, <2>5, <1>a DEF Selected, Update, k, i
  <2> QED
    BY <1>a, <2>a, <2>1, <2>2, <2>3, <2>4, <2>5 DEF Deleting
<1> QED
  BY <1>1, <1>2, <1>3, <1>4, <1>5, <1>6, <1>7, <1>8, <1>9, <1>a DEF Sound, k

-----------------------------------------------------------------------------
(* A transaction that comes to the next row of its statement               *)

LEMMA Asking ==
  ASSUME NEW s \in Transaction, Asks(s), s.on # NoRow
  PROVE  /\ s.kind \in Kinds /\ s.at \in 1 .. Len(Plans[s.kind]) /\ s.at \in Nat
         /\ Lists(s.kind, s.at) /\ OfRows(s.kind, s.at) /\ AtGate(s.kind, s.at)
         /\ InOrder(s.kind, s.at) /\ OfDeletions(s.kind, s.at)
         /\ s.on \in Rows /\ s.on \in Asked(s) /\ s.on = <<s.on[1], s.on[2]>>
         /\ s.on[1] = Plans[s.kind][s.at].table
         /\ s.held[s.on] < Plans[s.kind][s.at].mode
         /\ s.todo \subseteq Asked(s) /\ s.todo \subseteq Rows
         /\ Statement(s) = Plans[s.kind][s.at]
<1>1. s.kind \in Kinds /\ s.at \in Nat /\ s.on \in Rows /\ s.todo \subseteq Rows
  BY DEF Transaction, Asks
<1>2. s.at \in 1 .. Len(Plans[s.kind])
  BY <1>1, Lengths DEF Asks
<1>3. /\ Lists(s.kind, s.at) /\ OfRows(s.kind, s.at) /\ AtGate(s.kind, s.at)
      /\ InOrder(s.kind, s.at) /\ OfDeletions(s.kind, s.at)
  BY <1>1, <1>2, Statements, Zenon
<1>4. s.on \in Asked(s) /\ s.todo \subseteq Asked(s)
  BY DEF Asked
<1>5. s.on[1] = Statement(s).table /\ s.held[s.on] < Statement(s).mode
  BY <1>4 DEF Asks
<1>6. s.on = <<s.on[1], s.on[2]>>
  BY <1>1, RowShape
<1> QED
  BY <1>1, <1>2, <1>3, <1>4, <1>5, <1>6 DEF Statement

(* The schedule rows that are left come after the one asked for, and so do *)
(* the execution rows that a deletion takes.                               *)
LEMMA AskedInOrder ==
  ASSUME NEW s \in Transaction, Sound(s, life), s.on # NoRow, NEW y \in s.todo
  PROVE  /\ y[1] = s.on[1]
         /\ s.on[1] = "schedule" => s.on[2] < y[2]
         /\ s.on[1] = "execution" /\ s.kind = Purge => Place(s.on) < Place(y)
<1>a. Asks(s)
  BY DEF Sound
<1>b. /\ s.kind \in Kinds /\ s.at \in Nat
      /\ AtGate(s.kind, s.at) /\ OfDeletions(s.kind, s.at)
      /\ s.on \in Rows /\ s.on \in Asked(s) /\ s.on = <<s.on[1], s.on[2]>>
      /\ s.on[1] = Plans[s.kind][s.at].table
      /\ Statement(s) = Plans[s.kind][s.at]
      /\ y \in Asked(s) /\ y \in Rows
  BY <1>a, Asking
<1>c. y = <<y[1], y[2]>> /\ y[1] = s.on[1] /\ y # s.on
  BY <1>a, <1>b, RowShape DEF Asks
<1>d. Plans[s.kind][s.at].byId => Place(s.on) < Place(y)
  BY <1>a, <1>b DEF Asks
<1>1. ASSUME s.on[1] = "schedule" PROVE s.on[2] < y[2]
  <2>1. s.kind \in Guarded /\ s.at = Gate(s.kind)
    BY <1>1, <1>b DEF Sound, Gated
  <2>2. CASE Plans[s.kind][s.at].byId
    <3>1. Place(s.on) = s.on[2] /\ Place(y) = y[2]
      BY <1>1, <1>c DEF Place
    <3> QED
      BY <2>2, <3>1, <1>d
  <2>3. CASE s.kind \in OfRunPass
    <3>1. PICK r \in Runs : s.runs = {r}
      BY <2>3 DEF Sound, Ours, OfOneRun
    <3>2. s.kind \notin OfTheWorkflow
      BY <2>3 DEF OfRunPass, OfTheWorkflow
    <3>3. s.on \in Touched(s) /\ y \in Touched(s)
      BY <1>b DEF Touched
    <3>4. s.on[2] = r /\ y[2] = r
      BY <3>1, <3>2, <3>3, <1>1, <1>c DEF Sound, Ours, RunTables
    <3>5. y = s.on
      BY <3>4, <1>b, <1>c
    <3> QED
      BY <3>5, <1>c
  <2> QED
    BY <2>1, <2>2, <2>3, <1>b DEF AtGate
<1>2. ASSUME s.on[1] = "execution", s.kind = Purge PROVE Place(s.on) < Place(y)
  BY <1>2, <1>b, <1>d DEF OfDeletions
<1> QED
  BY <1>1, <1>2, <1>c

(* A transaction that goes on along its statement with more rows held.     *)
LEMMA StaysSound ==
  ASSUME NEW s \in Transaction, LivesOK(life), Sound(s, life), s.on # NoRow,
         NEW n \in Transaction,
         n.kind = s.kind, n.runs = s.runs, n.at = s.at,
         Asked(n) = s.todo,
         \A y \in Rows : n.held[y] >= s.held[y],
         \A y \in Rows \ {s.on} : n.held[y] = s.held[y]
  PROVE  /\ \A y \in Rows : s.held[y] = Update => n.held[y] = Update
         /\ \A y \in Touched(n) : y \in Touched(s)
         /\ Ours(n, life) /\ Owned(n) /\ Sweeping(n, life)
<1>1. \A y \in Rows : s.held[y] \in 0 .. 4 /\ n.held[y] \in 0 .. 4
  BY DEF Transaction
<1>2. \A y \in Rows : s.held[y] = Update => n.held[y] = Update
  BY <1>1 DEF Update
<1>3. \A y \in Touched(n) : y \in Touched(s)
  <2>1. s.on \in Asked(s) /\ s.todo \subseteq Asked(s)
    BY DEF Asked
  <2> QED
    BY <2>1 DEF Touched
<1>4. Ours(n, life)
  BY <1>3 DEF Sound, Ours
<1>5. Owned(n)
  <2> SUFFICES ASSUME n.kind \notin {Purge, Sweep, Delete}, NEW x \in Touched(n),
                      x[1] \in RowsOfRuns
               PROVE  n.held[<<"schedule", x[2]>>] > 0
    BY DEF Owned
  <2>1. x \in Touched(s) /\ x \in Rows
    BY <1>3 DEF Touched, Asked, Transaction
  <2>2. s.held[<<"schedule", x[2]>>] > 0
    BY <2>1 DEF Sound, Owned
  <2>3. <<"schedule", x[2]>> \in Rows
    BY <2>1, RowShape DEF RowsOfRuns, RunTables
  <2> QED
    BY <2>2, <2>3, <1>1
<1>6. Sweeping(n, life)
  <2>1. \A r \in n.runs : <<"execution", r>> \in Rows
    BY RowShape DEF Transaction, RunTables
  <2> QED
    BY <2>1, <1>2 DEF Sound, Sweeping
<1> QED
  BY <1>2, <1>3, <1>4, <1>5, <1>6

LEMMA TakeSound ==
  ASSUME NEW s \in Transaction, LivesOK(life), Sound(s, life), s.on # NoRow,
         Selects(s, s.on),
         NEW n \in TurnsTo([s EXCEPT !.held[s.on] = Statement(s).mode], s.todo)
  PROVE  /\ n \in Transaction /\ n.kind = s.kind
         /\ n.held = [s.held EXCEPT ![s.on] = Statement(s).mode]
         /\ Sound(n, life)
<1> DEFINE k == s.kind
           i == s.at
           x == s.on
           m == [s EXCEPT !.held[s.on] = Statement(s).mode]
<1>a. Asks(s)
  BY DEF Sound
<1>b. /\ k \in Kinds /\ i \in 1 .. Len(Plans[k]) /\ i \in Nat
      /\ Lists(k, i) /\ OfRows(k, i) /\ AtGate(k, i) /\ OfDeletions(k, i)
      /\ x \in Rows /\ x \in Asked(s) /\ x = <<x[1], x[2]>>
      /\ x[1] = Plans[k][i].table /\ s.held[x] < Plans[k][i].mode
      /\ s.todo \subseteq Asked(s) /\ s.todo \subseteq Rows
      /\ Statement(s) = Plans[k][i]
  BY <1>a, Asking
<1>c. /\ m \in Transaction /\ m.kind = k /\ m.runs = s.runs /\ m.at = i
      /\ m.held = [s.held EXCEPT ![x] = Plans[k][i].mode]
  BY <1>b DEF Transaction, Lists
<1>d. Statement(m) = Plans[k][i]
  BY <1>c DEF Statement
<1>e. \A y, z \in s.todo : y[1] = z[1]
  BY <1>a, <1>b DEF Asks
<1>0. n \in TurnsTo(m, s.todo)
  OBVIOUS
<1> HIDE DEF m
<1>f. /\ n \in Transaction
      /\ n.kind = k /\ n.runs = s.runs /\ n.at = i /\ n.held = m.held
      /\ Asked(n) = s.todo
      /\ n.on = NoRow => n.todo = {}
      /\ n.on # NoRow => n.on \in Rows
      /\ n.on \notin n.todo
      /\ n.on # NoRow /\ Plans[k][i].byId =>
           \A y \in n.todo : Place(n.on) < Place(y)
  BY <1>0, <1>b, <1>c, <1>d, <1>e, Turning
<1>g. Statement(n) = Plans[k][i]
  BY <1>f DEF Statement
<1>h. n.on # NoRow => n.on \in s.todo /\ n.on # x
  BY <1>a, <1>f DEF Asked, Asks
<1>i. \A y \in Rows : s.held[y] \in 0 .. 4 /\ n.held[y] \in 0 .. 4
  BY <1>f DEF Transaction
<1>j. /\ n.held[x] = Plans[k][i].mode
      /\ \A y \in Rows \ {x} : n.held[y] = s.held[y]
      /\ \A y \in Rows : n.held[y] >= s.held[y]
  BY <1>b, <1>c, <1>f, <1>i DEF Transaction
<1>k. /\ \A y \in Rows : s.held[y] = Update => n.held[y] = Update
      /\ \A y \in Touched(n) : y \in Touched(s)
      /\ Ours(n, life) /\ Owned(n) /\ Sweeping(n, life)
  BY <1>f, <1>j, StaysSound
<1> HIDE DEF k, i, x
<1>1. Asks(n)
  <2>1. \A y \in Asked(n) : y[1] = Statement(n).table /\ n.held[y] < Statement(n).mode
    BY <1>a, <1>b, <1>f, <1>g, <1>j DEF Asks, x
  <2> QED
    BY <2>1, <1>a, <1>b, <1>f, <1>g, Lengths DEF Asks, k, i
<1>2. Holds(n)
  <2> SUFFICES ASSUME NEW y \in Rows
               PROVE  \/ n.held[y] = 0
                      \/ y[1] \in Batch(k) /\ n.held[y] = Update
                      \/ \E j \in 1 .. i : /\ Plans[k][j].table = y[1]
                                           /\ Plans[k][j].mode = n.held[y]
    BY <1>f DEF Holds
  <2>1. CASE y = x
    BY <2>1, <1>b, <1>j
  <2>2. CASE y # x
    BY <2>2, <1>j DEF Sound, Holds, k, i
  <2> QED
    BY <2>1, <2>2
<1>3. Gated(n, life)
  <2>1. ASSUME k \in Guarded, i >= Gate(k), NEW r \in About(n), life[r] = "live",
               ~(n.held[<<"schedule", r>>] >= Guard(k))
        PROVE  i = Gate(k) /\ <<"schedule", r>> \in Asked(n)
    <3>1. About(n) = About(s) /\ r \in Runs /\ <<"schedule", r>> \in Rows
      BY <1>f, RowShape DEF About, Transaction, RunTables, k
    <3>2. ~(s.held[<<"schedule", r>>] >= Guard(k))
      BY <2>1, <3>1, <1>i, <1>j DEF Guard, Share, Update
    <3>3. i = Gate(k) /\ <<"schedule", r>> \in Asked(s)
      BY <2>1, <3>1, <3>2 DEF Sound, Gated, k, i
    <3>4. ASSUME <<"schedule", r>> = x PROVE FALSE
      <4>1. x[1] = "schedule"
        BY <3>4
      <4>2. n.held[x] = Guard(k)
        BY <4>1, <1>b, <1>j, <2>1 DEF OfRows, Guarded
      <4> QED
        BY <4>2, <2>1, <3>4, <1>i, <1>b DEF Guard, Share, Update
    <3> QED
      BY <3>3, <3>4, <1>f DEF Asked, x
  <2>2. ASSUME NEW y \in Asked(n), y[1] = "schedule"
        PROVE  k \in Guarded /\ i = Gate(k)
    BY <2>2, <1>b, <1>f DEF Sound, Gated, k, i
  <2>3. ASSUME n.on # NoRow, n.on[1] = "schedule", NEW q \in Runs,
               n.held[<<"schedule", q>>] > 0
        PROVE  q < n.on[2]
    <3>1. n.on \in s.todo /\ n.on # x /\ n.on \in Rows /\ n.on = <<"schedule", n.on[2]>>
      BY <1>f, <1>h, <2>3, RowShape
    <3>2. x[1] = "schedule"
      BY <3>1, <2>3, AskedInOrder DEF x
    <3>4. x[2] \in Runs /\ n.on[2] \in Runs /\ Runs \subseteq Nat
      BY <3>1, <3>2, <1>b, RowShape, RunsAssumption DEF RunTables
    <3>5. x[2] < n.on[2]
      BY <3>1, <3>2, AskedInOrder DEF x
    <3>6. CASE <<"schedule", q>> = x
      BY <3>5, <3>6
    <3>7. CASE <<"schedule", q>> # x
      <4>1. <<"schedule", q>> \in Rows
        BY RowShape DEF RunTables
      <4>2. s.held[<<"schedule", q>>] > 0
        BY <4>1, <3>7, <2>3, <1>j
      <4>3. q < x[2]
        BY <4>2, <3>2, <1>b DEF Sound, Gated, x
      <4> QED
        BY <4>3, <3>4, <3>5
    <3> QED
      BY <3>6, <3>7
  <2> QED
    BY <1>f, <2>1, <2>2, <2>3 DEF Gated
<1>4. Scheduled(n, life)
  <2> SUFFICES ASSUME NEW r \in Runs, n.held[<<"schedule", r>>] > 0
               PROVE  life[r] = "live"
    BY DEF Scheduled
  <2>1. CASE <<"schedule", r>> = x
    <3>1. x[1] = "schedule" /\ x[2] = r
      BY <2>1
    <3>2. life[x[2]] = "live"
      BY <3>1, <1>b, SelectedRows DEF x, k
    <3> QED
      BY <3>1, <3>2
  <2>2. CASE <<"schedule", r>> # x
    <3>1. <<"schedule", r>> \in Rows
      BY RowShape DEF RunTables
    <3> QED
      BY <3>1, <2>2, <1>j DEF Sound, Scheduled
  <2> QED
    BY <2>1, <2>2
<1>5. Purging(n, life)
  <2> SUFFICES ASSUME k = Purge PROVE Purging(n, life)
    BY <1>f DEF Purging
  <2>a. Purging(s, life) /\ \A r \in Runs : life[r] # "unborn"
    BY DEF Sound, Purging, k
  <2>0. \A y \in Touched(n) : y \in Rows
    BY <1>f DEF Touched, Asked, Transaction
  <2>1. ASSUME NEW y \in Touched(n), y[1] \in RowsOfRuns
        PROVE  Over(life, y[2]) \/ n.held[<<"schedule", y[2]>>] = Update
    <3>1. <<"schedule", y[2]>> \in Rows
      BY <2>0, <2>1, RowShape DEF RowsOfRuns, RunTables
    <3> QED
      BY <3>1, <2>1, <2>a, <1>k DEF Purging, k
  <2>2. ASSUME NEW y \in Touched(n), y[1] \in {"audit", "wait"}
        PROVE  n.held[<<"execution", y[2]>>] = Update
    <3>1. <<"execution", y[2]>> \in Rows
      BY <2>0, <2>2, RowShape DEF RunTables
    <3> QED
      BY <3>1, <2>2, <2>a, <1>k DEF Purging, k
  <2>3. ASSUME i >= 2, NEW r \in Runs, life[r] # "gone",
               n.held[<<"execution", r>>] # Update
        PROVE  i = 2 /\ <<"execution", r>> \in Asked(n)
    <3>1. <<"execution", r>> \in Rows
      BY RowShape DEF RunTables
    <3>2. i = 2 /\ <<"execution", r>> \in Asked(s)
      BY <2>3, <3>1, <2>a, <1>k DEF Purging, k, i
    <3>3. <<"execution", r>> # x
      BY <3>2, <2>3, <1>b, <1>j DEF OfDeletions
    <3> QED
      BY <3>2, <3>3, <1>f DEF Asked, x
  <2>4. ASSUME n.on # NoRow, n.on[1] = "execution", NEW q \in Runs,
               n.held[<<"execution", q>>] > 0
        PROVE  ExecutionPlace[q] < Place(n.on)
    <3>1. n.on \in s.todo /\ x[1] = "execution"
      BY <1>h, <2>4, AskedInOrder DEF x
    <3>3. Place(x) < Place(n.on)
      BY <3>1, AskedInOrder DEF x, k
    <3>4. x[2] \in Runs /\ Place(x) = ExecutionPlace[x[2]]
      BY <3>1, <1>b, RowShape DEF Place, RunTables
    <3>5. Place(x) \in Nat /\ Place(n.on) \in Nat /\ ExecutionPlace[q] \in Nat
      BY <1>b, <1>f, <2>4, Places, PlaceAssumption
    <3>6. CASE <<"execution", q>> = x
      BY <3>3, <3>4, <3>6
    <3>7. CASE <<"execution", q>> # x
      <4>1. <<"execution", q>> \in Rows
        BY RowShape DEF RunTables
      <4>2. s.held[<<"execution", q>>] > 0
        BY <4>1, <3>7, <2>4, <1>j
      <4>3. ExecutionPlace[q] < Place(x)
        BY <4>2, <3>1, <2>a DEF Purging, x, k
      <4> QED
        BY <4>3, <3>3, <3>5
    <3> QED
      BY <3>6, <3>7
  <2> QED
    BY <1>f, <2>a, <2>1, <2>2, <2>3, <2>4 DEF Purging
<1>6. Deleting(n, life)
  <2> SUFFICES ASSUME k = Delete PROVE Deleting(n, life)
    BY <1>f DEF Deleting
  <2>a. Deleting(s, life) /\ \A r \in Runs : Over(life, r)
    BY DEF Sound, Deleting, k
  <2>b. /\ TheWorkflow \in Rows /\ TheWorkflow[1] = "workflow"
        /\ s.held[TheWorkflow] \in 0 .. 4 /\ n.held[TheWorkflow] \in 0 .. 4
        /\ n.held[TheWorkflow] >= s.held[TheWorkflow]
        /\ s.held[TheWorkflow] = Update => n.held[TheWorkflow] = Update
    BY RowShape, <1>i, <1>j, <1>k DEF TheWorkflow
  <2>1. ASSUME i >= 1, life[0] = "live", ~(n.held[TheWorkflow] >= NoKey)
        PROVE  i = 1 /\ TheWorkflow \in Asked(n)
    <3>1. i = 1 /\ TheWorkflow \in Asked(s)
      BY <2>1, <2>a, <2>b DEF Deleting, NoKey, k, i
    <3>2. TheWorkflow # x
      BY <3>1, <2>1, <2>b, <1>b, <1>j DEF OfDeletions, NoKey
    <3> QED
      BY <3>1, <3>2, <1>f DEF Asked, x
  <2>2. ASSUME i >= 3, life[0] = "live", n.held[TheWorkflow] # Update
        PROVE  i = 3 /\ TheWorkflow \in Asked(n)
    <3>1. i = 3 /\ TheWorkflow \in Asked(s)
      BY <2>2, <2>a, <2>b DEF Deleting, k, i
    <3>2. TheWorkflow # x
      BY <3>1, <2>2, <1>b, <1>j DEF OfDeletions
    <3> QED
      BY <3>1, <3>2, <1>f DEF Asked, x
  <2>3. ASSUME i = 3, TheWorkflow \in Asked(n)
        PROVE  n.held[TheWorkflow] >= NoKey
    <3>1. s.held[TheWorkflow] >= NoKey
      BY <2>3, <2>a, <1>b, <1>f DEF Deleting, k, i
    <3> QED
      BY <3>1, <2>b DEF NoKey
  <2>4. ASSUME NEW y \in Touched(n), y[1] \in RunTables
        PROVE  n.held[TheWorkflow] = Update
    BY <2>4, <2>a, <2>b, <1>k DEF Deleting, k
  <2>5. ASSUME i >= 5, NEW r \in Runs, life[r] # "gone",
               n.held[<<"execution", r>>] # Update
        PROVE  i = 5 /\ <<"execution", r>> \in Asked(n)
    <3>1. <<"execution", r>> \in Rows
      BY RowShape DEF RunTables
    <3>2. i = 5 /\ <<"execution", r>> \in Asked(s)
      BY <2>5, <3>1, <2>a, <1>k DEF Deleting, k, i
    <3>3. <<"execution", r>> # x
      BY <3>2, <2>5, <1>b, <1>j DEF OfDeletions
    <3> QED
      BY <3>2, <3>3, <1>f DEF Asked, x
  <2> QED
    BY <1>f, <2>a, <2>1, <2>2, <2>3, <2>4, <2>5 DEF Deleting
<1> QED
  BY <1>1, <1>2, <1>3, <1>4, <1>5, <1>6, <1>b, <1>c, <1>f, <1>k DEF Sound, k, i, x

(* The row is gone, or no longer one the statement selects.                *)
LEMMA PassOverSound ==
  ASSUME NEW s \in Transaction, LivesOK(life), Sound(s, life), s.on # NoRow,
         ~Selects(s, s.on),
         NEW n \in TurnsTo(s, s.todo)
  PROVE  n \in Transaction /\ n.kind = s.kind /\ n.held = s.held /\ Sound(n, life)
<1> DEFINE k == s.kind
           i == s.at
           x == s.on
<1>a. Asks(s)
  BY DEF Sound
<1>b. /\ k \in Kinds /\ i \in 1 .. Len(Plans[k]) /\ i \in Nat
      /\ OfDeletions(k, i)
      /\ x \in Rows /\ x \in Asked(s) /\ x = <<x[1], x[2]>>
      /\ s.todo \subseteq Asked(s) /\ s.todo \subseteq Rows
      /\ Statement(s) = Plans[k][i]
  BY <1>a, Asking
<1>e. \A y, z \in s.todo : y[1] = z[1]
  BY <1>a, <1>b DEF Asks
<1>f. /\ n \in Transaction
      /\ n.kind = k /\ n.runs = s.runs /\ n.at = i /\ n.held = s.held
      /\ Asked(n) = s.todo
      /\ n.on = NoRow => n.todo = {}
      /\ n.on # NoRow => n.on \in Rows
      /\ n.on \notin n.todo
      /\ n.on # NoRow /\ Plans[k][i].byId =>
           \A y \in n.todo : Place(n.on) < Place(y)
  BY <1>b, <1>e, Turning
<1>g. Statement(n) = Plans[k][i]
  BY <1>f DEF Statement
<1>h. n.on # NoRow => n.on \in s.todo
  BY <1>f DEF Asked
<1>i. \A y \in Rows : n.held[y] >= s.held[y]
  BY <1>f DEF Transaction
<1>k. /\ \A y \in Touched(n) : y \in Touched(s)
      /\ Ours(n, life) /\ Owned(n) /\ Sweeping(n, life)
  BY <1>f, <1>i, StaysSound
<1> HIDE DEF k, i, x
<1>1. Asks(n)
  <2>1. \A y \in Asked(n) : y[1] = Statement(n).table /\ n.held[y] < Statement(n).mode
    BY <1>a, <1>b, <1>f, <1>g DEF Asks
  <2> QED
    BY <2>1, <1>a, <1>b, <1>f, <1>g, Lengths DEF Asks, k, i
<1>2. Holds(n)
  BY <1>f DEF Sound, Holds, k, i
<1>3. Gated(n, life)
  <2>1. ASSUME k \in Guarded, i >= Gate(k), NEW r \in About(n), life[r] = "live",
               ~(n.held[<<"schedule", r>>] >= Guard(k))
        PROVE  i = Gate(k) /\ <<"schedule", r>> \in Asked(n)
    <3>1. About(n) = About(s) /\ r \in Runs
      BY <1>f DEF About, Transaction, k
    <3>2. i = Gate(k) /\ <<"schedule", r>> \in Asked(s)
      BY <2>1, <3>1, <1>f DEF Sound, Gated, k, i
    <3>3. Selects(s, <<"schedule", r>>)
      BY <2>1, <3>1 DEF Selects, Exists, About, Guarded, Sweep, Purge, OfTheWorkflow, k
    <3> QED
      BY <3>2, <3>3, <1>f DEF Asked, x
  <2>2. ASSUME NEW y \in Asked(n), y[1] = "schedule"
        PROVE  k \in Guarded /\ i = Gate(k)
    BY <2>2, <1>b, <1>f DEF Sound, Gated, k, i
  <2>3. ASSUME n.on # NoRow, n.on[1] = "schedule", NEW q \in Runs,
               n.held[<<"schedule", q>>] > 0
        PROVE  q < n.on[2]
    <3>1. n.on \in s.todo /\ n.on \in Rows /\ n.on = <<"schedule", n.on[2]>>
      BY <1>f, <1>h, <2>3, RowShape
    <3>2. x[1] = "schedule"
      BY <3>1, <2>3, AskedInOrder DEF x
    <3>4. x[2] \in Nat /\ n.on[2] \in Nat /\ q \in Nat
      <4>1. x[2] \in Runs /\ n.on[2] \in Runs
        BY <3>1, <3>2, <1>b, RowShape DEF RunTables
      <4> QED
        BY <4>1, RunsAssumption
    <3>5. q < x[2]
      BY <2>3, <3>2, <1>b, <1>f DEF Sound, Gated, x
    <3>7. x[2] < n.on[2]
      BY <3>1, <3>2, AskedInOrder DEF x
    <3> QED
      BY <3>4, <3>5, <3>7
  <2> QED
    BY <1>f, <2>1, <2>2, <2>3 DEF Gated
<1>4. Scheduled(n, life)
  BY <1>f DEF Sound, Scheduled
<1>5. Purging(n, life)
  <2> SUFFICES ASSUME k = Purge PROVE Purging(n, life)
    BY <1>f DEF Purging
  <2>a. Purging(s, life) /\ \A r \in Runs : life[r] # "unborn"
    BY DEF Sound, Purging, k
  <2>1. ASSUME i >= 2, NEW r \in Runs, life[r] # "gone",
               n.held[<<"execution", r>>] # Update
        PROVE  i = 2 /\ <<"execution", r>> \in Asked(n)
    <3>1. i = 2 /\ <<"execution", r>> \in Asked(s)
      BY <2>1, <2>a, <1>f DEF Purging, k, i
    <3>2. life[r] \in {"live", "ended"}
      BY <2>1, <2>a DEF LivesOK, Lives
    <3>3. Selects(s, <<"execution", r>>)
      BY <3>2 DEF Selects, Exists, OfTheWorkflow, Purge, k
    <3> QED
      BY <3>1, <3>3, <1>f DEF Asked, x
  <2>2. ASSUME n.on # NoRow, n.on[1] = "execution", NEW q \in Runs,
               n.held[<<"execution", q>>] > 0
        PROVE  ExecutionPlace[q] < Place(n.on)
    <3>1. n.on \in s.todo /\ x[1] = "execution"
      BY <1>h, <2>2, AskedInOrder DEF x
    <3>3. Place(x) < Place(n.on)
      BY <3>1, AskedInOrder DEF x, k
    <3>4. Place(x) \in Nat /\ Place(n.on) \in Nat /\ ExecutionPlace[q] \in Nat
      BY <1>b, <1>f, <2>2, Places, PlaceAssumption
    <3>5. ExecutionPlace[q] < Place(x)
      BY <2>2, <3>1, <2>a, <1>b, <1>f DEF Purging, x, k
    <3> QED
      BY <3>3, <3>4, <3>5
  <2> QED
    BY <1>f, <1>k, <2>a, <2>1, <2>2 DEF Purging, k
<1>6. Deleting(n, life)
  <2> SUFFICES ASSUME k = Delete PROVE Deleting(n, life)
    BY <1>f DEF Deleting
  <2>a. Deleting(s, life) /\ \A r \in Runs : Over(life, r)
    BY DEF Sound, Deleting, k
  <2>b. life[0] = "live" => x # TheWorkflow
    BY DEF Selects, Exists, TheWorkflow, x
  <2>1. ASSUME i >= 5, NEW r \in Runs, life[r] # "gone",
               n.held[<<"execution", r>>] # Update
        PROVE  i = 5 /\ <<"execution", r>> \in Asked(n)
    <3>1. i = 5 /\ <<"execution", r>> \in Asked(s)
      BY <2>1, <2>a, <1>f DEF Deleting, k, i
    <3>2. life[r] \in {"live", "ended"}
      BY <2>1, <2>a DEF Over
    <3>3. Selects(s, <<"execution", r>>)
      BY <3>2 DEF Selects, Exists, OfTheWorkflow, Delete, k
    <3> QED
      BY <3>1, <3>3, <1>f DEF Asked, x
  <2>2. life[0] = "live" /\ TheWorkflow \in Asked(s) => TheWorkflow \in Asked(n)
    BY <2>b, <1>f DEF Asked, x
  <2>3. TheWorkflow \in Asked(n) => TheWorkflow \in Asked(s)
    BY <1>b, <1>f
  <2> QED
    BY <1>f, <1>k, <2>a, <2>1, <2>2, <2>3 DEF Deleting, k, i
<1> QED
  BY <1>1, <1>2, <1>3, <1>4, <1>5, <1>6, <1>f, <1>k DEF Sound, k

-----------------------------------------------------------------------------
(* A transaction that begins                                               *)

LEMMA AnIdle ==
  /\ Idle \in Transaction
  /\ Idle.kind = "none" /\ Idle.runs = {} /\ Idle.at = 0 /\ Idle.todo = {}
  /\ Idle.on = NoRow /\ Idle.held = [x \in Rows |-> 0]
  /\ Asked(Idle) = {} /\ Touched(Idle) = {} /\ \A x \in Rows : Idle.held[x] = 0
<1>1. Idle = [kind |-> "none", runs |-> {}, at |-> 0, todo |-> {}, on |-> NoRow,
              held |-> [x \in Rows |-> 0]]
  BY DEF Idle
<1>2. [x \in Rows |-> 0] \in [Rows -> 0 .. 4]
  OBVIOUS
<1>3. Idle \in Transaction
  BY <1>1, <1>2 DEF Transaction
<1> QED
  BY <1>1, <1>3 DEF Asked, Touched

LEMMA IdleSound ==
  ASSUME NEW lives, lives \in [Runs \cup {0} -> Lives]
  PROVE  /\ Idle \in Transaction /\ Idle.kind = "none" /\ Sound(Idle, lives)
         /\ \A x \in Rows : Idle.held[x] = 0
<1>b. "none" \notin Kinds /\ "none" \notin OfOneRun \cup OfTheWorkflow
      /\ "none" \notin {Purge, Sweep, Delete}
  BY Lengths DEF OfOneRun, OfRunPass, OfTheWorkflow, Purge, Sweep, Delete
<1>c. "none" \notin Guarded
  BY <1>b DEF Guarded
<1>e. \A r \in Runs : <<"schedule", r>> \in Rows
  BY RowShape DEF RunTables
<1>1. Asks(Idle) /\ Holds(Idle) /\ Owned(Idle)
  BY AnIdle, AnIdle DEF Asks, Holds, Owned
<1>2. Ours(Idle, lives) /\ Gated(Idle, lives) /\ Scheduled(Idle, lives)
  BY AnIdle, <1>b, <1>c, <1>e DEF Ours, Gated, Scheduled
<1>3. Purging(Idle, lives) /\ Sweeping(Idle, lives) /\ Deleting(Idle, lives)
  BY AnIdle, <1>b DEF Purging, Sweeping, Deleting
<1> QED
  BY AnIdle, <1>1, <1>2, <1>3 DEF Sound

LEMMA BeginSound ==
  ASSUME life \in [Runs \cup {0} -> Lives], Situation, mix.kinds \subseteq Kinds,
         life[0] = "live",
         NEW kind \in mix.kinds \ SkipLocked, NEW R \in Subjects(kind),
         NEW b \in Transaction, b.kind = kind, b.runs = R, b.at = 0,
         b.todo = {}, b.on = NoRow, b.held = [x \in Rows |-> 0],
         NEW n \in Issues(b)
  PROVE  /\ n \in Transaction /\ n.kind = kind /\ Sound(n, life)
         /\ \A x \in Rows : n.held[x] = 0
<1>a. /\ kind \in Kinds /\ kind # "none" /\ Len(Plans[kind]) \in Nat \ {0}
      /\ kind # "claimDue" /\ kind # Sweep
  <2>1. kind \in Kinds
    OBVIOUS
  <2> QED
    BY <2>1, Lengths DEF SkipLocked, Sweep
<1>b. /\ \A r \in R : r \in Runs /\ life[r] = "live"
      /\ kind \in OfOneRun => \E r \in Runs : R = {r}
  BY DEF Subjects, Living
<1>d. Asked(b) = {} /\ Touched(b) = {} /\ \A x \in Rows : b.held[x] = 0
  BY DEF Asked, Touched
<1>e. \A r \in Runs : <<"schedule", r>> \in Rows
  BY RowShape DEF RunTables
<1>1. Asks(b)
  BY <1>a, <1>d DEF Asks
<1>2. Holds(b) /\ Owned(b)
  BY <1>d DEF Holds, Owned
<1>3. Ours(b, life)
  BY <1>b, <1>d DEF Ours
<1>4. Gated(b, life) /\ Scheduled(b, life)
  BY <1>a, <1>d, <1>e DEF Gated, Scheduled, Gate
<1>5. Purging(b, life) /\ Sweeping(b, life) /\ Deleting(b, life)
  BY <1>a, <1>d DEF Purging, Sweeping, Deleting, Situation
<1>6. Sound(b, life)
  BY <1>1, <1>2, <1>3, <1>4, <1>5 DEF Sound
<1>7. LivesOK(life)
  BY DEF LivesOK, Situation
<1>9. n \in Transaction /\ n.kind = b.kind /\ n.held = b.held /\ Sound(n, life)
  BY <1>a, <1>6, <1>7, IssueSound
<1> QED
  BY <1>9, <1>d

(* What a batch locks nobody had locked, and it waits for nothing.         *)
LEMMA BatchSound ==
  ASSUME NEW kind \in SkipLocked, NEW taken \in SUBSET Rows,
         \A x \in taken :
           IF kind = "claimDue" THEN x[1] \in {"schedule", "timer"} /\ Exists(x)
                                ELSE x[1] = "execution" /\ life[x[2]] = "ended",
         NEW n \in Transaction,
         n.kind = kind, n.at = 0, n.todo = {}, n.on = NoRow,
         n.runs = {x[2] : x \in taken} \ {0},
         \A x \in Rows : n.held[x] = IF x \in taken THEN Update ELSE 0
  PROVE  Sound(n, life)
<1>a. /\ kind \in Kinds /\ kind # "none" /\ Len(Plans[kind]) \in Nat \ {0}
      /\ kind \notin OfOneRun \cup OfTheWorkflow /\ kind \notin {Purge, Delete}
      /\ kind # "claimDue" <=> kind = Sweep
  <2>1. kind \in Kinds
    BY DEF SkipLocked, Kinds, Plans
  <2> QED
    BY <2>1, Lengths DEF SkipLocked, OfOneRun, OfRunPass, OfTheWorkflow, Purge, Delete, Sweep
<1>b. \A x \in taken :
        /\ x = <<x[1], x[2]>>
        /\ x[1] \in RunTables => x[2] \in Runs /\ x[2] # 0
        /\ x[1] \notin RunTables => x[2] = 0
        /\ kind = "claimDue" => /\ x[1] \in {"schedule", "timer"}
                                /\ x[1] = "schedule" => life[x[2]] = "live"
        /\ kind = Sweep => x[1] = "execution" /\ life[x[2]] = "ended"
  BY RowShape DEF Exists, Sweep
<1>c. \A r \in n.runs : \E x \in taken : x[2] = r /\ x[1] \in RunTables
  BY <1>b
<1>g. /\ Touched(n) = taken
      /\ \A x \in Rows : n.held[x] > 0 <=> x \in taken
      /\ \A x \in taken : n.held[x] = Update
  BY DEF Asked, Touched, Update
<1>h. \A r \in Runs : <<"schedule", r>> \in Rows /\ <<"execution", r>> \in Rows
  BY RowShape DEF RunTables
<1>i. Asked(n) = {}
  BY DEF Asked
<1>1. Asks(n)
  BY <1>a, <1>i DEF Asks
<1>2. Holds(n)
  <2>1. \A x \in taken : x[1] \in Batch(kind)
    BY <1>a, <1>b DEF Batch
  <2>2. \A x \in Rows : n.held[x] = 0 \/ (n.held[x] = Update /\ x \in taken)
    BY <1>g
  <2> QED
    BY <2>1, <2>2 DEF Holds
<1>3. Owned(n)
  <2>1. kind \notin {Purge, Sweep, Delete} => \A x \in taken : x[1] \notin RowsOfRuns
    BY <1>a, <1>b DEF RowsOfRuns
  <2> QED
    BY <2>1, <1>g DEF Owned
<1>4. Ours(n, life)
  <2>1. \A r \in n.runs : life[r] # "unborn"
    BY <1>a, <1>b, <1>c DEF RunTables
  <2>2. \A x \in taken : x[1] \in RunTables => x[2] \in n.runs
    BY <1>b DEF RunTables
  <2> QED
    BY <2>1, <2>2, <1>a, <1>g DEF Ours
<1>5. Gated(n, life)
  <2>1. ASSUME kind = "claimDue", NEW r \in n.runs
        PROVE  n.held[<<"schedule", r>>] = Update
    <3>1. PICK x \in taken : x[2] = r /\ x[1] \in RunTables
      BY <1>c
    <3>2. x = <<"schedule", r>>
      BY <2>1, <3>1, <1>b DEF RunTables
    <3> QED
      BY <3>2, <1>g
  <2>2. kind # "claimDue" => kind \notin Guarded
    BY <1>a DEF Guarded
  <2>3. \A r \in About(n) : r \in n.runs \/ kind \notin Guarded
    BY <1>a DEF About
  <2>4. \A r \in About(n) : kind \in Guarded => n.held[<<"schedule", r>>] >= Guard(kind)
    BY <2>1, <2>2, <2>3 DEF Guard, Share, Update
  <2> QED
    BY <2>4, <1>i DEF Gated
<1>6. Scheduled(n, life)
  <2> SUFFICES ASSUME NEW r \in Runs, n.held[<<"schedule", r>>] > 0
               PROVE  life[r] = "live"
    BY DEF Scheduled
  <2>1. <<"schedule", r>> \in taken
    BY <1>g, <1>h
  <2>2. kind = "claimDue"
    BY <2>1, <1>a, <1>b
  <2> QED
    BY <2>1, <2>2, <1>b
<1>7. Sweeping(n, life)
  <2> SUFFICES ASSUME kind = Sweep, NEW r \in n.runs
               PROVE  Over(life, r) /\ n.held[<<"execution", r>>] = Update
    BY DEF Sweeping
  <2>1. PICK x \in taken : x[2] = r /\ x[1] \in RunTables
    BY <1>c
  <2>2. x = <<"execution", r>> /\ life[r] = "ended"
    BY <2>1, <1>b
  <2> QED
    BY <2>2, <1>g DEF Over
<1>8. Purging(n, life) /\ Deleting(n, life)
  BY <1>a DEF Purging, Deleting
<1> QED
  BY <1>1, <1>2, <1>3, <1>4, <1>5, <1>6, <1>7, <1>8, <1>g DEF Sound

-----------------------------------------------------------------------------
(* A transaction that sees another one commit                              *)

(* What a commit may make of the runs, and of the workflow.                *)
Follows(lives, next) ==
    /\ next[0] = "live" => lives[0] = "live"
    /\ \A r \in Runs :
         /\ next[r] = "unborn" => lives[r] = "unborn"
         /\ next[r] = "live" => lives[r] \in {"live", "unborn"}
         /\ lives[r] = "gone" => next[r] = "gone"
         /\ Over(lives, r) => Over(next, r)

LEMMA SoundAfter ==
  ASSUME NEW s \in Transaction, NEW lives, NEW next, Sound(s, lives),
         Follows(lives, next),
         \A r \in Runs : s.held[<<"schedule", r>>] > 0 => next[r] = "live"
  PROVE  Sound(s, next)
<1>a. s.runs \subseteq Runs /\ \A x \in Touched(s) : x \in Rows
  BY DEF Transaction, Touched, Asked
<1>b. \A x \in Touched(s) : x[1] \in RunTables => x[2] \in Runs
  BY <1>a, RowShape
<1>1. Ours(s, next)
  BY <1>a DEF Sound, Ours, Follows
<1>2. Gated(s, next)
  <2>1. ASSUME NEW r \in About(s), next[r] = "live"
        PROVE  lives[r] = "live"
    <3>1. r \in Runs
      BY <1>a DEF About
    <3>2. lives[r] # "unborn"
      BY <3>1 DEF Sound, Purging, Ours, About
    <3> QED
      BY <2>1, <3>1, <3>2 DEF Follows
  <2> QED
    BY <2>1 DEF Sound, Gated
<1>3. Scheduled(s, next)
  BY DEF Scheduled
<1>4. Purging(s, next)
  <2>1. ASSUME NEW x \in Touched(s), x[1] \in RowsOfRuns, Over(lives, x[2])
        PROVE  Over(next, x[2])
    BY <2>1, <1>b DEF Follows, RowsOfRuns, RunTables
  <2>2. \A r \in Runs : /\ lives[r] # "unborn" => next[r] # "unborn"
                        /\ next[r] # "gone" => lives[r] # "gone"
    BY DEF Follows
  <2> QED
    BY <2>1, <2>2 DEF Sound, Purging
<1>5. Sweeping(s, next)
  BY <1>a DEF Sound, Sweeping, Follows
<1>6. Deleting(s, next)
  BY DEF Sound, Deleting, Follows
<1> QED
  BY <1>1, <1>2, <1>3, <1>4, <1>5, <1>6 DEF Sound

(* A transaction that changes the life of a run in flight holds its        *)
(* schedule row alone, and one that deletes the workflow took every run.   *)
LEMMA CommitLives ==
  ASSUME TypeOK, Situation, NEW t \in Sessions, Sound(session[t], life), Commit(t)
  PROVE  /\ LivesOK(life') /\ Follows(life, life')
         /\ \A r \in Runs : life[r] = "live" /\ life'[r] # "live" =>
              session[t].held[<<"schedule", r>>] = Update
<1> DEFINE s == session[t]
           k == s.kind
<1>a. /\ k \in Kinds /\ s \in Transaction /\ s.on = NoRow /\ s.at = Len(Plans[k])
      /\ s.at \in Nat
  BY Lengths DEF Commit, TypeOK, Transaction
<1>b. PICK opened \in SUBSET Runs :
        /\ k \notin Opens => opened = {}
        /\ \A r \in opened : life[r] = "unborn"
        /\ life' = [r \in Runs \cup {0} |->
                     IF r \in opened THEN "live"
                     ELSE IF k \in Deletes /\ r \in Written(s) THEN "gone"
                     ELSE IF k = "deleteById" /\ r = 0 THEN "gone"
                     ELSE IF k \in Ends /\ r \in Written(s) THEN "ended"
                     ELSE life[r]]
  <2>1. PICK o \in {{}} \cup IF k \in Opens
                                THEN {{r} : r \in {q \in Runs : life[q] = "unborn"}}
                                ELSE {} :
           life' = [r \in Runs \cup {0} |->
                      IF r \in o THEN "live"
                      ELSE IF k \in Deletes /\ r \in Written(s) THEN "gone"
                      ELSE IF k = "deleteById" /\ r = 0 THEN "gone"
                      ELSE IF k \in Ends /\ r \in Written(s) THEN "ended"
                      ELSE life[r]]
    BY Zenon DEF Commit
  <2>2. /\ o \in SUBSET Runs /\ (k \notin Opens => o = {})
        /\ \A r \in o : life[r] = "unborn"
    OBVIOUS
  <2> QED
    BY <2>1, <2>2
<1>c. 0 \notin Runs /\ Written(s) \subseteq Runs
  BY RowShape DEF Written
<1>d. /\ life'[0] = IF k = Delete THEN "gone" ELSE life[0]
      /\ \A r \in Runs : life'[r] = IF r \in opened THEN "live"
                                    ELSE IF k \in Deletes /\ r \in Written(s) THEN "gone"
                                    ELSE IF k \in Ends /\ r \in Written(s) THEN "ended"
                                    ELSE life[r]
  BY <1>b, <1>c DEF Delete
<1>e. \A r \in Runs : life[r] \in Lives
  BY DEF TypeOK
<1>f. ASSUME NEW r \in Written(s)
      PROVE  /\ r \in Runs /\ <<"execution", r>> \in Touched(s)
             /\ <<"schedule", r>> \in Rows
  <2>1. r \in Runs /\ <<"execution", r>> \in Rows /\ <<"schedule", r>> \in Rows
    BY <1>f, RowShape DEF Written, RunTables
  <2>2. s.held[<<"execution", r>>] > 0
    BY <2>1, <1>a, <1>f DEF Written, NoKey, Transaction
  <2> QED
    BY <2>1, <2>2 DEF Touched
<1>g. ASSUME NEW r \in Written(s), k \in Deletes
      PROVE  Over(life, r) \/ s.held[<<"schedule", r>>] = Update
  <2>0. r \in Runs /\ <<"execution", r>> \in Touched(s)
    BY <1>f, <1>g
  <2>1. CASE k = Purge
    BY <2>0, <2>1 DEF Sound, Purging, RowsOfRuns
  <2>2. CASE k = Sweep
    <3>1. r \in s.runs
      BY <2>0, <2>2 DEF Sound, Ours, Sweep, OfTheWorkflow, RunTables
    <3> QED
      BY <2>2, <3>1 DEF Sound, Sweeping
  <2>3. CASE k = Delete
    BY <2>0, <2>3 DEF Sound, Deleting
  <2> QED
    BY <1>g, <2>1, <2>2, <2>3 DEF Deletes, OfTheWorkflow, Purge, Sweep, Delete
<1>h. ASSUME NEW r \in Written(s), k \in Ends
      PROVE  life[r] = "live" /\ s.held[<<"schedule", r>>] = Update
  <2>0. /\ r \in Runs /\ <<"execution", r>> \in Touched(s)
        /\ <<"schedule", r>> \in Rows
    BY <1>f, <1>h
  <2>1. s.held[<<"schedule", r>>] > 0
    BY <2>0, <1>h DEF Sound, Owned, RowsOfRuns, Ends, Purge, Sweep, Delete
  <2>2. "schedule" \notin Batch(k)
    BY <1>h DEF Batch, Ends, Sweep
  <2>3. PICK j \in 1 .. s.at : /\ Plans[k][j].table = "schedule"
                              /\ Plans[k][j].mode = s.held[<<"schedule", r>>]
    <3>1. <<"schedule", r>>[1] = "schedule" /\ ~(s.held[<<"schedule", r>>] = 0)
      BY <2>1
    <3> QED
      BY <2>0, <2>2, <3>1 DEF Sound, Holds
  <2>4. OfRows(k, j)
    BY <1>a, <2>3, Statements, Zenon
  <2>5. Plans[k][j].mode = Update
    BY <2>3, <2>4, <1>h DEF OfRows, Guard, Ends, Sharing, Delete, Sweep
  <2> QED
    BY <2>0, <2>1, <2>3, <2>5 DEF Sound, Scheduled
<1> HIDE DEF s, k
<1>1. Follows(life, life')
  <2>1. life'[0] = "live" => life[0] = "live"
    BY <1>d
  <2>2. ASSUME NEW r \in Runs
        PROVE  /\ life'[r] = "unborn" => life[r] = "unborn"
               /\ life'[r] = "live" => life[r] \in {"live", "unborn"}
               /\ life[r] = "gone" => life'[r] = "gone"
               /\ Over(life, r) => Over(life', r)
    BY <1>b, <1>d, <1>h DEF Over
  <2> QED
    BY <2>1, <2>2 DEF Follows
<1>2. \A r \in Runs : life[r] = "live" /\ life'[r] # "live" =>
        s.held[<<"schedule", r>>] = Update
  BY <1>b, <1>d, <1>g, <1>h DEF Over
<1>3. LivesOK(life')
  <2>1. life' \in [Runs \cup {0} -> Lives]
    BY <1>b DEF TypeOK, Lives
  <2>2. life'[0] \in {"live", "gone"}
    BY <1>d DEF Situation
  <2>3. ASSUME life'[0] = "gone", NEW r \in Runs, life'[r] # "gone" PROVE FALSE
    <3>1. life[r] # "gone"
      BY <2>3, <1>1 DEF Follows
    <3>2. k = Delete
      BY <2>3, <3>1, <1>d DEF Situation
    <3>3. s.at = 8
      BY <3>2, <1>a, DeleteByIdPlan DEF Delete
    <3>4. Asked(s) = {}
      BY <1>a DEF Sound, Asks, Asked, s
    <3>5. s.held[<<"execution", r>>] = Update
      BY <3>1, <3>2, <3>3, <3>4 DEF Sound, Deleting, s, k
    <3>6. r \in Written(s)
      BY <3>5 DEF Written, Update, NoKey
    <3>7. k \in Deletes /\ k \notin Opens
      BY <3>2 DEF Delete, Deletes, OfTheWorkflow, Opens
    <3> QED
      BY <3>6, <3>7, <2>3, <1>b, <1>d
  <2> QED
    BY <2>1, <2>2, <2>3 DEF LivesOK
<1> QED
  BY <1>1, <1>2, <1>3 DEF s

-----------------------------------------------------------------------------
(* The invariant holds                                                     *)

LEMMA Initial ==
  ASSUME \A m \in DOMAIN Mixes : Orderly(Mixes[m]), Init
  PROVE  IInv
<1>1. PICK m \in DOMAIN Mixes :
        /\ mix = [name |-> m, kinds |-> Mixes[m].kinds, atOnce |-> Mixes[m].atOnce]
        /\ life = [r \in Runs \cup {0} |->
                     IF r = 0 THEN "live" ELSE Mixes[m].runs[r]]
        /\ session = [t \in Sessions |-> Idle]
  BY DEF Init
<1>2. /\ Mixes[m].runs \in [Runs -> Lives] /\ Mixes[m].kinds \in SUBSET Kinds
      /\ Mixes[m].atOnce \in Nat /\ Orderly(Mixes[m])
  BY MixesAssumption
<1>3. life[0] = "live" /\ \A r \in Runs : life[r] = Mixes[m].runs[r]
  BY <1>1, RowShape
<1>4. life \in [Runs \cup {0} -> Lives]
  BY <1>1, <1>2 DEF Lives
<1>5. /\ mix \in [name : DOMAIN Mixes, kinds : SUBSET Kinds, atOnce : Nat]
      /\ mix.kinds = Mixes[m].kinds
  BY <1>1, <1>2
<1>6. \A t \in Sessions : session[t] = Idle
  BY <1>1
<1>7. TypeOK
  <2>1. session \in [Sessions -> Transaction]
    BY <1>1, AnIdle
  <2> QED
    BY <2>1, <1>4, <1>5 DEF TypeOK
<1>8. Situation
  <2>1. Purge \in mix.kinds => \A r \in Runs : life[r] # "unborn"
    BY <1>2, <1>3, <1>5 DEF Orderly, Purge
  <2>2. Delete \in mix.kinds =>
          /\ mix.kinds \cap {"insertPublishedVersion", Purge, Sweep} = {}
          /\ \A r \in Runs : Over(life, r)
    BY <1>2, <1>3, <1>5 DEF Orderly, Purge, Delete, Sweep, Over
  <2> QED
    BY <2>1, <2>2, <1>3, <1>6, AnIdle DEF Situation
<1>9. Exclusive
  BY <1>6, AnIdle DEF Exclusive, Conflict
<1> QED
  BY <1>4, <1>6, <1>7, <1>8, <1>9, IdleSound DEF IInv

(* One session moves, and no life changes.                                 *)
LEMMA OneMoves ==
  ASSUME IInv, NEW t \in Sessions, NEW n \in Transaction,
         Becomes(t, n), mix' = mix, life' = life,
         Sound(n, life), n.kind \in mix.kinds \cup {"none"},
         \A u \in Sessions \ {t} : \A x \in Rows :
           ~Conflict(n.held[x], session[u].held[x])
  PROVE  IInv'
<1>1. /\ session'[t] = n /\ \A u \in Sessions \ {t} : session'[u] = session[u]
      /\ session' \in [Sessions -> Transaction]
  BY DEF IInv, TypeOK, Becomes
<1>2. \A u \in Sessions : session[u] \in Transaction
  BY DEF IInv, TypeOK
<1>3. TypeOK'
  BY <1>1 DEF IInv, TypeOK
<1>4. Situation'
  BY <1>1 DEF IInv, Situation, Over
<1>5. Exclusive'
  <2> SUFFICES ASSUME NEW u \in Sessions, NEW v \in Sessions, u # v, NEW x \in Rows
               PROVE  ~Conflict(session'[u].held[x], session'[v].held[x])
    BY DEF Exclusive
  <2>0. n.held[x] \in Nat /\ session[u].held[x] \in Nat
    BY <1>2 DEF Transaction
  <2>1. CASE u = t
    BY <2>1, <1>1
  <2>2. CASE v = t
    <3>1. ~Conflict(n.held[x], session[u].held[x])
      BY <2>2
    <3>2. ~Conflict(session[u].held[x], n.held[x])
      BY <3>1, <2>0 DEF Conflict
    <3> QED
      BY <3>2, <2>2, <1>1
  <2>3. CASE u # t /\ v # t
    BY <2>3, <1>1 DEF IInv, Exclusive
  <2> QED
    BY <2>1, <2>2, <2>3
<1>6. \A u \in Sessions : Sound(session'[u], life')
  BY <1>1 DEF IInv
<1> QED
  BY <1>3, <1>4, <1>5, <1>6 DEF IInv

(* What the invariant says of each session.                                *)
LEMMA HeldBy ==
  ASSUME IInv
  PROVE  /\ \A t, u \in Sessions : \A x \in Rows :
              t # u => ~Conflict(session[t].held[x], session[u].held[x])
         /\ \A u \in Sessions : \A x \in Rows : ~Conflict(0, session[u].held[x])
         /\ ~Conflict(Update, 0)
         /\ \A u \in Sessions : /\ session[u] \in Transaction /\ Sound(session[u], life)
                               /\ session[u].kind \in mix.kinds \cup {"none"}
         /\ LivesOK(life) /\ life \in [Runs \cup {0} -> Lives]
         /\ Situation /\ mix.kinds \subseteq Kinds
<1>1. /\ \A u \in Sessions : session[u] \in Transaction
      /\ life \in [Runs \cup {0} -> Lives] /\ mix.kinds \subseteq Kinds
  BY DEF IInv, TypeOK
<1>2. \A u \in Sessions : \A x \in Rows : ~Conflict(0, session[u].held[x])
  BY <1>1 DEF Transaction, Conflict
<1>3. ~Conflict(Update, 0)
  BY DEF Conflict, Update
<1>4. LivesOK(life)
  BY <1>1 DEF IInv, Situation, LivesOK
<1> QED
  BY <1>1, <1>2, <1>3, <1>4 DEF IInv, Exclusive, Situation

LEMMA BeginStep ==
  ASSUME IInv, NEW t \in Sessions, Begin(t)
  PROVE  IInv'
<1>1. PICK kind \in mix.kinds \ SkipLocked : \E R \in Subjects(kind) :
        \E s \in Issues([Idle EXCEPT !.kind = kind, !.runs = R]) : Becomes(t, s)
  BY DEF Begin
<1>2. PICK R \in Subjects(kind) :
        \E s \in Issues([Idle EXCEPT !.kind = kind, !.runs = R]) : Becomes(t, s)
  BY <1>1
<1>3. PICK n \in Issues([Idle EXCEPT !.kind = kind, !.runs = R]) : Becomes(t, n)
  BY <1>2
<1>4. life[0] = "live" /\ mix' = mix /\ life' = life
  BY DEF Begin
<1> DEFINE b == [Idle EXCEPT !.kind = kind, !.runs = R]
<1>5. kind \in Kinds /\ R \in SUBSET Runs
  BY HeldBy DEF Subjects, Living
<1>6. /\ b \in Transaction /\ b.kind = kind /\ b.runs = R /\ b.at = 0
      /\ b.todo = {} /\ b.on = NoRow /\ b.held = [x \in Rows |-> 0]
  BY <1>5, AnIdle DEF Transaction
<1>7. n \in Issues(b)
  OBVIOUS
<1> HIDE DEF b
<1>8. /\ n \in Transaction /\ n.kind = kind /\ Sound(n, life)
      /\ \A x \in Rows : n.held[x] = 0
  BY <1>4, <1>6, <1>7, HeldBy, BeginSound
<1>9. \A u \in Sessions \ {t} : \A x \in Rows : ~Conflict(n.held[x], session[u].held[x])
  BY <1>8, HeldBy
<1> QED
  BY <1>3, <1>4, <1>8, <1>9, OneMoves

LEMMA BeginUnlockedStep ==
  ASSUME IInv, NEW t \in Sessions, BeginUnlocked(t)
  PROVE  IInv'
<1> DEFINE batch(kind) ==
             IF kind = "claimDue"
               THEN {x \in Rows : x[1] \in {"schedule", "timer"} /\ Exists(x)}
               ELSE {x \in Rows : x[1] = "execution" /\ life[x[2]] = "ended"}
           begun(kind, taken) ==
             [Idle EXCEPT !.kind = kind,
                          !.runs = {x[2] : x \in taken} \ {0},
                          !.held = [x \in Rows |-> IF x \in taken THEN Update ELSE 0]]
<1>1. PICK kind \in mix.kinds \cap SkipLocked :
        \E taken \in SUBSET Unlocked(batch(kind)) : Becomes(t, begun(kind, taken))
  BY Zenon DEF BeginUnlocked
<1>2. PICK taken \in SUBSET Unlocked(batch(kind)) : Becomes(t, begun(kind, taken))
  BY <1>1
<1>3. mix' = mix /\ life' = life
  BY DEF BeginUnlocked
<1>4. /\ \A x \in taken : /\ x \in Rows /\ x \in batch(kind)
                          /\ \A u \in Sessions : session[u].held[x] = 0
      /\ kind \in Kinds /\ kind \in SkipLocked /\ kind \in mix.kinds
  BY HeldBy DEF Unlocked
<1>5. \A x \in taken :
        IF kind = "claimDue" THEN x[1] \in {"schedule", "timer"} /\ Exists(x)
                             ELSE x[1] = "execution" /\ life[x[2]] = "ended"
  BY <1>4
<1>6. {x[2] : x \in taken} \ {0} \subseteq Runs
  BY <1>4, RowShape
<1> DEFINE n == begun(kind, taken)
           R == {x[2] : x \in taken} \ {0}
           H == [x \in Rows |-> IF x \in taken THEN Update ELSE 0]
<1>7. H \in [Rows -> 0 .. 4] /\ \A x \in Rows : H[x] = IF x \in taken THEN Update ELSE 0
  BY DEF Update
<1>8. R \in SUBSET Runs
  BY <1>6
<1>9. n = [Idle EXCEPT !.kind = kind, !.runs = R, !.held = H]
  OBVIOUS
<1> HIDE DEF R, H
<1>10. /\ n \in Transaction
       /\ n.kind = kind /\ n.at = 0 /\ n.todo = {} /\ n.on = NoRow
       /\ n.runs = R /\ n.held = H
  BY <1>4, <1>7, <1>8, <1>9, AnIdle DEF Transaction
<1>11. Becomes(t, n)
  BY <1>2
<1> HIDE DEF n, begun, batch
<1>12. Sound(n, life)
  <2>1. n.runs = {x[2] : x \in taken} \ {0}
    BY <1>10 DEF R
  <2>2. \A x \in Rows : n.held[x] = IF x \in taken THEN Update ELSE 0
    BY <1>7, <1>10
  <2>3. taken \in SUBSET Rows
    BY <1>4
  <2> QED
    BY <2>1, <2>2, <2>3, <1>4, <1>5, <1>10, BatchSound
<1>13. \A u \in Sessions \ {t} : \A x \in Rows : ~Conflict(n.held[x], session[u].held[x])
  BY <1>4, <1>7, <1>10, HeldBy
<1> QED
  BY <1>3, <1>4, <1>10, <1>11, <1>12, <1>13, OneMoves

LEMMA IssueStep ==
  ASSUME IInv, NEW t \in Sessions, Issue(t)
  PROVE  IInv'
<1>1. PICK n \in Issues(session[t]) : Becomes(t, n)
  BY DEF Issue
<1>2. /\ session[t].kind # "none" /\ session[t].on = NoRow
      /\ session[t].at < Len(Plans[session[t].kind]) /\ mix' = mix /\ life' = life
  BY DEF Issue
<1>3. /\ session[t] \in Transaction /\ Sound(session[t], life) /\ LivesOK(life)
      /\ session[t].kind \in mix.kinds /\ session[t].kind \in Kinds
  BY <1>2, HeldBy
<1>4. n \in Transaction /\ n.kind = session[t].kind /\ n.held = session[t].held
      /\ Sound(n, life)
  BY <1>2, <1>3, IssueSound
<1>5. \A u \in Sessions \ {t} : \A x \in Rows : ~Conflict(n.held[x], session[u].held[x])
  BY <1>4, HeldBy
<1> QED
  BY <1>1, <1>2, <1>3, <1>4, <1>5, OneMoves

LEMMA TakeStep ==
  ASSUME IInv, NEW t \in Sessions, Take(t)
  PROVE  IInv'
<1> DEFINE s == session[t]
<1>1. s.on # NoRow /\ mix' = mix /\ life' = life
  BY DEF Take
<1>2. /\ s \in Transaction /\ Sound(s, life) /\ LivesOK(life)
      /\ life \in [Runs \cup {0} -> Lives]
      /\ s.kind \in mix.kinds \cup {"none"}
  BY HeldBy
<1>3. CASE Selects(s, s.on)
  <2>1. PICK n \in TurnsTo([s EXCEPT !.held[s.on] = Statement(s).mode], s.todo) :
          Becomes(t, n)
    BY <1>3 DEF Take
  <2>2. /\ n \in Transaction /\ n.kind = s.kind
        /\ n.held = [s.held EXCEPT ![s.on] = Statement(s).mode]
        /\ Sound(n, life)
    BY <1>1, <1>2, <1>3, <2>1, TakeSound
  <2>3. \A u \in Sessions \ {t} : ~Conflict(session[u].held[s.on], Statement(s).mode)
    BY <1>1 DEF Take, WaitsFor
  <2>4. s.on \in Rows /\ Statement(s).mode \in Nat
    BY <1>1, <1>2, Asking DEF Sound, Lists
  <2>5. ASSUME NEW u \in Sessions \ {t}, NEW x \in Rows
        PROVE  ~Conflict(n.held[x], session[u].held[x])
    <3>1. session[u].held[x] \in Nat
      BY HeldBy DEF Transaction
    <3>2. CASE x = s.on
      <4>1. n.held[x] = Statement(s).mode
        BY <2>2, <2>4, <3>2, <1>2 DEF Transaction
      <4> QED
        BY <4>1, <2>3, <2>4, <3>1, <3>2 DEF Conflict
    <3>3. CASE x # s.on
      <4>1. n.held[x] = s.held[x]
        BY <2>2, <3>3, <1>2 DEF Transaction
      <4> QED
        BY <4>1, HeldBy
    <3> QED
      BY <3>2, <3>3
  <2> QED
    BY <1>1, <1>2, <2>1, <2>2, <2>5, OneMoves
<1>4. CASE Becomes(t, Idle)
  BY <1>1, <1>2, <1>4, HeldBy, AnIdle, IdleSound, OneMoves
<1>5. CASE ~Selects(s, s.on) /\ \E n \in TurnsTo(s, s.todo) : Becomes(t, n)
  <2>1. PICK n \in TurnsTo(s, s.todo) : Becomes(t, n)
    BY <1>5
  <2>2. n \in Transaction /\ n.kind = s.kind /\ n.held = s.held /\ Sound(n, life)
    BY <1>1, <1>2, <1>5, <2>1, PassOverSound
  <2>3. \A u \in Sessions \ {t} : \A x \in Rows : ~Conflict(n.held[x], session[u].held[x])
    BY <2>2, HeldBy
  <2> QED
    BY <1>1, <1>2, <2>1, <2>2, <2>3, OneMoves
<1> QED
  BY <1>3, <1>4, <1>5 DEF Take

LEMMA RollbackStep ==
  ASSUME IInv, NEW t \in Sessions, Rollback(t)
  PROVE  IInv'
  BY HeldBy, AnIdle, IdleSound, OneMoves DEF Rollback

LEMMA CommitStep ==
  ASSUME IInv, NEW t \in Sessions, Commit(t)
  PROVE  IInv'
<1>1. /\ mix' = mix
      /\ session'[t] = Idle /\ \A u \in Sessions \ {t} : session'[u] = session[u]
      /\ session' \in [Sessions -> Transaction]
  BY AnIdle DEF IInv, TypeOK, Becomes, Commit
<1>2. /\ LivesOK(life') /\ Follows(life, life')
      /\ \A r \in Runs : life[r] = "live" /\ life'[r] # "live" =>
           session[t].held[<<"schedule", r>>] = Update
  BY CommitLives DEF IInv
<1>3. TypeOK'
  BY <1>1, <1>2 DEF IInv, TypeOK, LivesOK
<1>4. Situation'
  BY <1>1, <1>2, AnIdle DEF IInv, Situation, LivesOK, Follows
<1>5. Exclusive'
  <2> SUFFICES ASSUME NEW u \in Sessions, NEW v \in Sessions, u # v, NEW x \in Rows
               PROVE  ~Conflict(session'[u].held[x], session'[v].held[x])
    BY DEF Exclusive
  <2>1. \A w \in Sessions : session[w].held[x] \in 0 .. 4 /\ Idle.held[x] = 0
    BY HeldBy, AnIdle DEF Transaction
  <2>2. CASE u = t \/ v = t
    BY <2>1, <2>2, <1>1 DEF Conflict
  <2>3. CASE u # t /\ v # t
    BY <2>3, <1>1 DEF IInv, Exclusive
  <2> QED
    BY <2>2, <2>3
<1>6. ASSUME NEW u \in Sessions
      PROVE  Sound(session'[u], life')
  <2>1. CASE u = t
    <3>1. life' \in [Runs \cup {0} -> Lives]
      BY <1>2 DEF LivesOK
    <3> QED
      BY <2>1, <3>1, <1>1, IdleSound
  <2>2. CASE u # t
    <3>1. session[u] \in Transaction /\ Sound(session[u], life)
      BY HeldBy
    <3>2. ASSUME NEW r \in Runs, session[u].held[<<"schedule", r>>] > 0,
                 life'[r] # "live"
          PROVE  FALSE
      <4>1. <<"schedule", r>> \in Rows
        BY RowShape DEF RunTables
      <4>2. life[r] = "live"
        BY <3>1, <3>2 DEF Sound, Scheduled
      <4>3. session[t].held[<<"schedule", r>>] = Update
        BY <4>2, <3>2, <1>2
      <4>4. ~Conflict(session[t].held[<<"schedule", r>>], session[u].held[<<"schedule", r>>])
        BY <4>1, <2>2, HeldBy
      <4>5. session[u].held[<<"schedule", r>>] \in Nat
        BY <4>1, <3>1 DEF Transaction
      <4> QED
        BY <4>3, <4>4, <4>5, <3>2 DEF Conflict, Update
    <3> QED
      BY <2>2, <3>1, <3>2, <1>1, <1>2, SoundAfter
  <2> QED
    BY <2>1, <2>2
<1> QED
  BY <1>3, <1>4, <1>5, <1>6 DEF IInv

LEMMA Inductive ==
  ASSUME IInv, [Next]_vars
  PROVE  IInv'
<1>1. CASE UNCHANGED vars
  <2>1. mix' = mix /\ life' = life /\ session' = session
    BY <1>1 DEF vars
  <2>2. TypeOK' /\ Situation'
    BY <2>1 DEF IInv, TypeOK, Situation, Over
  <2>3. Exclusive' /\ \A t \in Sessions : Sound(session'[t], life')
    BY <2>1 DEF IInv, Exclusive
  <2> QED
    BY <2>2, <2>3 DEF IInv
<1>2. ASSUME NEW t \in Sessions, Begin(t) PROVE IInv'
  BY <1>2, BeginStep
<1>3. ASSUME NEW t \in Sessions, BeginUnlocked(t) PROVE IInv'
  BY <1>3, BeginUnlockedStep
<1>4. ASSUME NEW t \in Sessions, Issue(t) PROVE IInv'
  BY <1>4, IssueStep
<1>5. ASSUME NEW t \in Sessions, Take(t) PROVE IInv'
  BY <1>5, TakeStep
<1>6. ASSUME NEW t \in Sessions, Commit(t) PROVE IInv'
  BY <1>6, CommitStep
<1>7. ASSUME NEW t \in Sessions, Rollback(t) PROVE IInv'
  BY <1>7, RollbackStep
<1> QED
  BY <1>1, <1>2, <1>3, <1>4, <1>5, <1>6, <1>7 DEF Next

-----------------------------------------------------------------------------
(* Who waits for whom                                                      *)

(* A row held is held as a statement so far locks it.                      *)
LEMMA HeldHow ==
  ASSUME NEW s \in Transaction, Sound(s, life), s.on # NoRow, NEW x \in Rows,
         s.held[x] > 0
  PROVE  \/ /\ x[1] \in Batch(s.kind) /\ s.held[x] = Update
            /\ \/ s.kind = "claimDue" /\ s.on[1] = "wait"
               \/ /\ s.kind = Sweep /\ x[1] = "execution"
                  /\ s.on[1] \in {"audit", "wait", "schedule"}
         \/ \E j \in 1 .. s.at :
              /\ Plans[s.kind][j].table = x[1] /\ Plans[s.kind][j].mode = s.held[x]
              /\ OfRows(s.kind, j) /\ OfDeletions(s.kind, j) /\ AtGate(s.kind, j)
<1>1. Asks(s) /\ Holds(s)
  BY DEF Sound
<1>2. /\ s.kind \in Kinds /\ s.at \in 1 .. Len(Plans[s.kind]) /\ s.at \in Nat
      /\ AtGate(s.kind, s.at) /\ OfDeletions(s.kind, s.at)
      /\ s.on[1] = Plans[s.kind][s.at].table
  BY <1>1, Asking
<1>3. CASE x[1] \in Batch(s.kind) /\ s.held[x] = Update
  BY <1>2, <1>3 DEF Batch, AtGate, OfDeletions
<1>4. CASE \E j \in 1 .. s.at : /\ Plans[s.kind][j].table = x[1]
                                /\ Plans[s.kind][j].mode = s.held[x]
  <2>1. PICK j \in 1 .. s.at : /\ Plans[s.kind][j].table = x[1]
                              /\ Plans[s.kind][j].mode = s.held[x]
    BY <1>4
  <2>2. j \in 1 .. Len(Plans[s.kind])
    BY <1>2, Lengths
  <2>3. OfRows(s.kind, j) /\ OfDeletions(s.kind, j) /\ AtGate(s.kind, j)
    BY <2>2, <1>2, Statements, Zenon
  <2> QED
    BY <2>1, <2>3
<1> QED
  BY <1>1, <1>3, <1>4 DEF Holds

(* Two transactions come to the same row of a run only where both are      *)
(* writes of its pass, or both delete and are still at its execution row.  *)
LEMMA Meeting ==
  ASSUME IInv, NEW t \in Sessions, NEW u \in Sessions, t # u,
         NEW x \in Rows, x \in Touched(session[t]), x \in Touched(session[u]),
         x[1] \in RowsOfRuns
  PROVE  \/ session[t].kind \in Sharing /\ session[u].kind \in Sharing
         \/ /\ session[t].kind \in {Purge, Sweep} /\ session[u].kind \in {Purge, Sweep}
            /\ x[1] = "execution"
<1> DEFINE r == x[2]
           sched == <<"schedule", r>>
           exec == <<"execution", r>>
<1>1. r \in Runs /\ x[1] \in RunTables /\ sched \in Rows /\ exec \in Rows
      /\ TheWorkflow \in Rows
  BY RowShape DEF RowsOfRuns, RunTables
<1>2. ASSUME NEW z \in Sessions, x \in Touched(session[z])
      PROVE  /\ session[z] \in Transaction
             /\ session[z].kind = Purge =>
                  /\ Over(life, r) \/ session[z].held[sched] = Update
                  /\ x[1] # "execution" => session[z].held[exec] = Update
             /\ session[z].kind = Sweep =>
                  Over(life, r) /\ session[z].held[exec] = Update
             /\ session[z].kind = Delete =>
                  Over(life, r) /\ session[z].held[TheWorkflow] = Update
             /\ session[z].kind \notin {Purge, Sweep, Delete} =>
                  /\ session[z].held[sched] > 0 /\ life[r] = "live"
                  /\ session[z].held[sched] = Update \/ session[z].kind \in Sharing
  <2>0. /\ session[z] \in Transaction /\ Sound(session[z], life)
        /\ Sweep \notin OfTheWorkflow
    BY HeldBy DEF Sweep, OfTheWorkflow
  <2>1. session[z].kind = Purge =>
          /\ Over(life, r) \/ session[z].held[sched] = Update
          /\ x[1] # "execution" => session[z].held[exec] = Update
    BY <2>0, <1>2 DEF Sound, Purging, RowsOfRuns
  <2>2. session[z].kind = Sweep => Over(life, r) /\ session[z].held[exec] = Update
    BY <2>0, <1>1, <1>2 DEF Sound, Sweeping, Ours
  <2>3. session[z].kind = Delete => Over(life, r) /\ session[z].held[TheWorkflow] = Update
    BY <2>0, <1>1, <1>2 DEF Sound, Deleting
  <2>4. ASSUME session[z].kind \notin {Purge, Sweep, Delete}
        PROVE  /\ session[z].held[sched] > 0 /\ life[r] = "live"
               /\ session[z].held[sched] = Update \/ session[z].kind \in Sharing
    <3>1. session[z].held[sched] > 0
      BY <2>0, <2>4, <1>2 DEF Sound, Owned
    <3>2. life[r] = "live"
      BY <2>0, <3>1, <1>1 DEF Sound, Scheduled
    <3>3. CASE sched[1] \in Batch(session[z].kind) /\ session[z].held[sched] = Update
      BY <3>1, <3>2, <3>3
    <3>4. CASE \E j \in 1 .. session[z].at :
                 /\ Plans[session[z].kind][j].table = sched[1]
                 /\ Plans[session[z].kind][j].mode = session[z].held[sched]
      <4>1. PICK j \in 1 .. session[z].at :
                 /\ Plans[session[z].kind][j].table = "schedule"
                 /\ Plans[session[z].kind][j].mode = session[z].held[sched]
        BY <3>4
      <4>2. session[z].kind # "none"
        BY <2>0, <3>1, <1>1, AnIdle DEF Sound, Asks
      <4>3. /\ session[z].kind \in Kinds /\ session[z].at \in Nat
            /\ session[z].at <= Len(Plans[session[z].kind])
        BY <4>2, <2>0 DEF Transaction, Sound, Asks
      <4>4. j \in 1 .. Len(Plans[session[z].kind])
        BY <4>3, Lengths
      <4>5. OfRows(session[z].kind, j)
        BY <4>3, <4>4, Statements, Zenon
      <4>6. Plans[session[z].kind][j].mode = Guard(session[z].kind)
        BY <4>1, <4>5, <2>4 DEF OfRows
      <4> QED
        BY <4>1, <4>6, <3>1, <3>2 DEF Guard
    <3> QED
      BY <3>1, <3>3, <3>4, <2>0, <1>1 DEF Sound, Holds
  <2> QED
    BY <2>0, <2>1, <2>2, <2>3, <2>4
<1> HIDE DEF r, sched, exec
<1>3. /\ ~Conflict(session[t].held[sched], session[u].held[sched])
      /\ ~Conflict(session[t].held[exec], session[u].held[exec])
      /\ ~Conflict(session[t].held[TheWorkflow], session[u].held[TheWorkflow])
  BY <1>1, HeldBy
<1>4. /\ session[t].held[sched] \in 0 .. 4 /\ session[u].held[sched] \in 0 .. 4
      /\ session[t].held[exec] \in 0 .. 4 /\ session[u].held[exec] \in 0 .. 4
  BY <1>1, <1>2 DEF Transaction
<1>5. Over(life, r) => life[r] # "live"
  BY DEF Over
<1>6. /\ session[t].kind = Delete => session[u].kind \notin {Purge, Sweep}
      /\ session[u].kind = Delete => session[t].kind \notin {Purge, Sweep}
  BY HeldBy DEF Situation, Delete, Purge, Sweep
<1>7. Update = 4 /\ \A m, n \in 0 .. 4 : Conflict(m, n) <=> m + n > 4
  BY DEF Update, Conflict
<1>8. ~(session[t].kind = Delete /\ session[u].kind = Delete)
  BY <1>2, <1>3 DEF Conflict, Update
<1>9. CASE session[t].kind \notin {Purge, Sweep, Delete}
  <2>1. session[t].held[sched] > 0 /\ life[r] = "live"
        /\ (session[t].held[sched] = Update \/ session[t].kind \in Sharing)
    BY <1>2, <1>9
  <2>2. session[u].kind \notin {Purge, Sweep, Delete}
    BY <2>1, <1>2, <1>3, <1>4, <1>5, <1>7
  <2>3. session[u].held[sched] > 0
        /\ (session[u].held[sched] = Update \/ session[u].kind \in Sharing)
    BY <1>2, <2>2
  <2> QED
    BY <2>1, <2>3, <1>3, <1>4, <1>7
<1>10. CASE session[t].kind \in {Purge, Sweep, Delete}
  <2>1. session[u].kind \in {Purge, Sweep, Delete}
    <3>1. SUFFICES ASSUME session[u].kind \notin {Purge, Sweep, Delete} PROVE FALSE
      OBVIOUS
    <3>2. session[u].held[sched] > 0 /\ life[r] = "live"
      BY <1>2, <3>1
    <3> QED
      BY <3>2, <1>2, <1>3, <1>4, <1>5, <1>7, <1>10
  <2>2. session[t].kind \in {Purge, Sweep} /\ session[u].kind \in {Purge, Sweep}
    BY <2>1, <1>6, <1>8, <1>10
  <2>3. x[1] # "execution" =>
          session[t].held[exec] = Update /\ session[u].held[exec] = Update
    BY <2>2, <1>2
  <2> QED
    BY <2>2, <2>3, <1>3, <1>4, <1>7
<1> QED
  BY <1>9, <1>10

(* What a transaction asks for it does not hold, and how it holds others.  *)
LEMMA Waiting ==
  ASSUME IInv, NEW t \in Sessions, NEW u \in Sessions, WaitsFor(t, u)
  PROVE  /\ t # u
         /\ session[t] \in Transaction /\ Sound(session[t], life)
         /\ session[u] \in Transaction /\ Sound(session[u], life)
         /\ session[t].on # NoRow /\ session[t].on \in Rows
         /\ session[t].on \in Touched(session[t])
         /\ session[t].on \in Touched(session[u])
         /\ session[u].held[session[t].on] \in 1 .. 4
         /\ session[u].held[session[t].on] + Statement(session[t]).mode > 4
<1>1. /\ t # u /\ session[t].on # NoRow
      /\ Conflict(session[u].held[session[t].on], Statement(session[t]).mode)
  BY DEF WaitsFor
<1>2. /\ session[t] \in Transaction /\ Sound(session[t], life)
      /\ session[u] \in Transaction /\ Sound(session[u], life)
  BY HeldBy
<1>3. /\ session[t].on \in Rows /\ session[t].on \in Asked(session[t])
      /\ Statement(session[t]).mode \in 1 .. 4
  BY <1>1, <1>2, Asking DEF Sound, Lists
<1>4. session[u].held[session[t].on] \in 0 .. 4
  BY <1>2, <1>3 DEF Transaction
<1>5. session[u].held[session[t].on] \in 1 .. 4
      /\ session[u].held[session[t].on] + Statement(session[t]).mode > 4
  BY <1>1, <1>3, <1>4 DEF Conflict
<1> QED
  BY <1>1, <1>2, <1>3, <1>5 DEF Touched

(* A transaction waits for one that waits: the other one is further on.    *)
LEMMA Ordered ==
  ASSUME IInv, NEW t \in Sessions, NEW u \in Sessions, NEW v \in Sessions,
         WaitsFor(t, u), WaitsFor(u, v)
  PROVE  Before(session[t], session[u])
<1> DEFINE s == session[t]
           n == session[u]
           x == s.on
           y == n.on
           a == x[1]
           b == y[1]
           k == n.kind
           i == n.at
           held == n.held[x]
<1>a. /\ s \in Transaction /\ Sound(s, life) /\ s.on # NoRow
      /\ n \in Transaction /\ Sound(n, life) /\ n.on # NoRow
      /\ x \in Touched(s) /\ x \in Touched(n)
      /\ held \in 1 .. 4 /\ held + Statement(s).mode > 4 /\ held > 0
      /\ t # u /\ u # v /\ y \in Touched(n) /\ y \in Touched(session[v])
  BY Waiting
<1>b. /\ s.kind \in Kinds /\ Lists(s.kind, s.at) /\ OfRows(s.kind, s.at)
      /\ OfDeletions(s.kind, s.at)
      /\ x \in Rows /\ x = <<x[1], x[2]>> /\ x \in Asked(s)
      /\ a = Plans[s.kind][s.at].table /\ Statement(s) = Plans[s.kind][s.at]
  BY <1>a, Asking DEF Sound
<1>c. /\ k \in Kinds /\ i \in 1 .. Len(Plans[k]) /\ i \in Nat
      /\ Lists(k, i) /\ OfRows(k, i) /\ AtGate(k, i) /\ InOrder(k, i)
      /\ OfDeletions(k, i)
      /\ y \in Rows /\ y = <<y[1], y[2]>> /\ y \in Asked(n)
      /\ b = Plans[k][i].table /\ n.held[y] < Plans[k][i].mode
      /\ Statement(n) = Plans[k][i]
  BY <1>a, Asking DEF Sound
<1>d. \/ /\ a \in Batch(k) /\ held = Update
         /\ \/ k = "claimDue" /\ b = "wait"
            \/ k = Sweep /\ a = "execution" /\ b \in {"audit", "wait", "schedule"}
      \/ \E j \in 1 .. i : /\ Plans[k][j].table = a /\ Plans[k][j].mode = held
                           /\ OfRows(k, j) /\ OfDeletions(k, j) /\ AtGate(k, j)
  BY <1>a, <1>b, HeldHow
<1>e. /\ a \in Tables /\ b \in Tables
      /\ a \in WorkflowTables /\ a = b => x = y
      /\ a \in RunTables => x[2] \in Runs
      /\ b \in RunTables => y[2] \in Runs
  BY <1>b, <1>c, RowShape DEF RunTables, WorkflowTables
<1>f. Place(x) \in Nat /\ Place(y) \in Nat
  BY <1>b, <1>c, Places
<1>g. x = y => held < Plans[k][i].mode
  BY <1>c
<1>h. /\ s.kind \in mix.kinds \cup {"none"} /\ k \in mix.kinds \cup {"none"}
      /\ Delete \in mix.kinds => k # "insertPublishedVersion"
  BY HeldBy, <1>c, Lengths DEF Situation
<1>i. /\ a \in RowsOfRuns =>
           \/ s.kind \in Sharing /\ k \in Sharing
           \/ s.kind \in {Purge, Sweep} /\ k \in {Purge, Sweep} /\ a = "execution"
      /\ b \in RowsOfRuns => k # Delete
  <2>1. a \in RowsOfRuns =>
           \/ s.kind \in Sharing /\ k \in Sharing
           \/ s.kind \in {Purge, Sweep} /\ k \in {Purge, Sweep} /\ a = "execution"
    BY <1>a, <1>b, Meeting
  <2>2. b \in RowsOfRuns => k \in Sharing \cup {Purge, Sweep}
    BY <1>a, <1>c, Meeting
  <2> QED
    BY <2>1, <2>2 DEF Delete, Sharing, Purge, Sweep
<1>j. ASSUME a \in RunTables PROVE k # Delete
  <2>1. CASE a = "schedule"
    <3>1. life[x[2]] = "live" /\ x[2] \in Runs
      BY <2>1, <1>a, <1>b, <1>e DEF Sound, Scheduled, RunTables
    <3> QED
      BY <3>1, <1>a DEF Sound, Deleting, Over
  <2>2. CASE a \in RowsOfRuns
    BY <2>2, <1>i DEF Delete, Sharing, Purge, Sweep
  <2> QED
    BY <1>j, <2>1, <2>2 DEF RunTables, RowsOfRuns
<1> SUFFICES Before(s, n)
  OBVIOUS
<1> HIDE DEF s, n, x, y, a, b, k, i, held
<1>k. /\ Stage(s) = IF a # "workflow" THEN Level(a)
                    ELSE IF Statement(s).mode = NoKey THEN 0
                    ELSE IF Statement(s).mode = Update THEN 7 ELSE 8
      /\ Stage(n) = IF b # "workflow" THEN Level(b)
                    ELSE IF Statement(n).mode = NoKey THEN 0
                    ELSE IF Statement(n).mode = Update THEN 7 ELSE 8
      /\ Before(s, n) <=> \/ Stage(s) < Stage(n)
                          \/ Stage(s) = Stage(n) /\ Place(x) < Place(y)
  BY DEF Stage, Before, a, b, x, y
<1>1. CASE b = "schedule"
  <2>1. k \in Guarded /\ i = Gate(k)
    BY <1>1, <1>a, <1>c DEF Sound, Gated, k, i, b
  <2>2. a \in {"schedule", "timer"}
    <3>1. k # "claimDue" /\ k # Sweep
      BY <2>1, <1>c DEF Gate, Guarded
    <3> QED
      BY <2>1, <3>1, <1>1, <1>c, <1>d DEF AtGate
  <2>3. a = "schedule" => Place(x) < Place(y)
    <3> SUFFICES ASSUME a = "schedule" PROVE Place(x) < Place(y)
      OBVIOUS
    <3>1. x = <<"schedule", x[2]>> /\ x[2] \in Runs /\ n.held[<<"schedule", x[2]>>] > 0
      BY <1>a, <1>b, <1>e DEF a, held, RunTables
    <3>2. x[2] < y[2]
      BY <3>1, <1>1, <1>a DEF Sound, Gated, y, b
    <3> QED
      BY <3>2, <1>1 DEF Place, a, b
  <2> QED
    BY <2>2, <2>3, <1>1, <1>k DEF Level
<1>2. CASE b = "workflow" /\ a # "workflow"
  <2>1. Statement(n).mode # NoKey
    <3> SUFFICES ASSUME Plans[k][i].mode = NoKey PROVE FALSE
      BY <1>c
    <3>1. k # "claimDue" /\ k # Sweep
      BY <1>2, <1>c DEF AtGate, OfDeletions
    <3> QED
      BY <3>1, <1>2, <1>c, <1>d DEF InOrder
  <2>2. Stage(n) >= 7 /\ Stage(s) < 7
    BY <2>1, <1>2, <1>k DEF Level
  <2>3. Stage(n) \in Nat /\ Stage(s) \in Nat
    BY <1>k DEF Level
  <2> QED
    BY <2>2, <2>3, <1>k
<1>3. CASE a # "workflow" /\ b \notin {"workflow", "schedule"}
  <2>1. Level(a) <= Level(b)
    <3>1. CASE k = "claimDue" /\ a \in {"schedule", "timer"} /\ b = "wait"
      BY <3>1 DEF Level
    <3>2. CASE k = Sweep /\ a = "execution" /\ b \in {"audit", "wait", "schedule"}
      BY <3>2, <1>3 DEF Level
    <3>3. CASE \E j \in 1 .. i : /\ Plans[k][j].table = a /\ Plans[k][j].mode = held
                                 /\ OfRows(k, j) /\ OfDeletions(k, j) /\ AtGate(k, j)
      <4>1. PICK j \in 1 .. i : Plans[k][j].table = a /\ OfDeletions(k, j)
        BY <3>3
      <4>2. CASE k # Delete
        BY <4>1, <4>2, <1>3, <1>c DEF InOrder
      <4>3. CASE k = Delete
        <5>1. a \in {"timer", "decision"}
          BY <4>3, <1>3, <1>e, <1>j DEF Tables, WorkflowTables
        <5>2. j \in Nat /\ (j > 3 <=> a \in RunTables) /\ (j \in {1, 3} <=> a = "workflow")
              /\ (j = 2 <=> a = "timer")
          BY <4>1, <4>3 DEF OfDeletions
        <5>3. j = 2 /\ a = "timer"
          BY <5>1, <5>2, <4>1, <1>c DEF RunTables
        <5>4. (i > 3 <=> b \in RunTables) /\ (i \in {1, 3} <=> b = "workflow")
              /\ (i = 2 <=> b = "timer") /\ i >= 2
          BY <4>1, <4>3, <5>3, <1>c DEF OfDeletions
        <5>5. b \in RunTables \cup {"timer"}
          BY <5>4, <1>3, <1>c
        <5> QED
          BY <5>3, <5>5 DEF Level, RunTables
      <4> QED
        BY <4>2, <4>3
    <3> QED
      BY <3>1, <3>2, <3>3, <1>d DEF Batch
  <2>2. Level(a) \in Nat /\ Level(b) \in Nat
    BY DEF Level
  <2>3. CASE Level(a) < Level(b)
    BY <2>3, <1>3, <1>k
  <2>4. CASE Level(a) = Level(b)
    <3>1. a = b
      BY <2>4, <1>3, <1>e DEF Level, Tables, RunTables, WorkflowTables
    <3>2. CASE a \in {"timer", "decision"}
      <4>1. held = Update
        BY <3>2, <1>d DEF OfRows
      <4>2. x = y
        BY <3>1, <3>2, <1>e DEF WorkflowTables
      <4> QED
        BY <4>1, <4>2, <1>c, <1>g DEF Lists, Update
    <3>3. CASE a \in RowsOfRuns /\ k \in Sharing
      <4>1. PICK r \in Runs : n.runs = {r}
        BY <3>3, <1>a DEF Sound, Ours, Sharing, OfOneRun, OfRunPass, k
      <4>2. k \notin OfTheWorkflow
        BY <3>3 DEF Sharing, OfTheWorkflow
      <4>3. x[2] = r /\ y[2] = r
        BY <4>1, <4>2, <3>1, <3>3, <1>a DEF Sound, Ours, RowsOfRuns, RunTables, k, a, b
      <4>4. x = y
        BY <4>3, <3>1, <1>b, <1>c DEF a, b
      <4>5. Batch(k) = {}
        BY <3>3 DEF Batch, Sharing, Sweep
      <4>6. PICK j \in 1 .. i : Plans[k][j].table = a /\ Plans[k][j].mode = held
        BY <4>5, <1>d
      <4>7. j = i
        BY <4>6, <3>1, <3>3, <1>c DEF InOrder
      <4> QED
        BY <4>4, <4>6, <4>7, <1>a, <1>c, <1>g DEF Lists
    <3>4. CASE a = "execution" /\ k \in {Purge, Sweep}
      <4>1. k = Purge
        BY <3>1, <3>4, <1>c DEF OfDeletions
      <4>2. x = <<"execution", x[2]>> /\ x[2] \in Runs
            /\ n.held[<<"execution", x[2]>>] > 0
        BY <3>4, <1>a, <1>b, <1>e DEF a, held, RunTables
      <4>3. ExecutionPlace[x[2]] < Place(y)
        BY <4>1, <4>2, <3>1, <3>4, <1>a DEF Sound, Purging, k, y, b
      <4>4. Place(x) = ExecutionPlace[x[2]]
        BY <3>4 DEF Place, a
      <4> QED
        BY <4>3, <4>4, <2>4, <1>3, <1>k
    <3>5. a \in {"timer", "decision"} \cup RowsOfRuns
      BY <3>1, <1>3, <1>e DEF Tables, RunTables, WorkflowTables, RowsOfRuns
    <3> QED
      BY <3>2, <3>3, <3>4, <3>5, <1>i
  <2> QED
    BY <2>1, <2>2, <2>3, <2>4
<1>4. CASE a = "workflow"
  <2>1. PICK j \in 1 .. i : /\ Plans[k][j].table = "workflow" /\ Plans[k][j].mode = held
                           /\ OfRows(k, j) /\ OfDeletions(k, j)
    BY <1>4, <1>d DEF Batch
  <2>2. held = KeyShare \/ held = NoKey \/ (held = Update /\ k = Delete)
    BY <2>1 DEF OfRows
  <2>3. held = KeyShare => j = i \/ k = "insertPublishedVersion"
    BY <2>1, <1>c DEF InOrder
  <2>4. b = "workflow" => x = y
    BY <1>4, <1>e DEF WorkflowTables
  <2>5. /\ KeyShare = 1 /\ NoKey = 3 /\ Update = 4
        /\ Plans[k][i].mode \in 1 .. 4 /\ Statement(s).mode \in 1 .. 4
    BY <1>b, <1>c DEF KeyShare, NoKey, Update, Lists
  <2>6. \/ Statement(s).mode = KeyShare \/ Statement(s).mode = NoKey
        \/ Statement(s).mode = Update /\ s.kind = Delete
    BY <1>4, <1>b DEF OfRows
  <2>7. CASE Statement(s).mode = NoKey
    <3>1. ~(b = "workflow" /\ Statement(n).mode = NoKey)
      BY <2>2, <2>4, <2>5, <2>7, <1>a, <1>c, <1>g
    <3>2. Stage(s) = 0 /\ Stage(n) > 0
      BY <3>1, <2>7, <1>4, <1>e, <1>k DEF Level
    <3> QED
      BY <3>2, <1>k
  <2>8. CASE Statement(s).mode = Update /\ s.kind = Delete
    <3>1. s.at = 3
      BY <2>5, <2>8, <1>4, <1>b DEF OfDeletions
    <3>2. x = TheWorkflow
      BY <1>4, <1>b, RowShape DEF TheWorkflow, a, RunTables
    <3>3. s.held[x] >= NoKey
      BY <3>1, <3>2, <2>8, <1>a, <1>b DEF Sound, Deleting
    <3>4. ~Conflict(s.held[x], held)
      BY <1>a, <1>b, HeldBy DEF s, n, held
    <3>5. s.held[x] \in Nat /\ held \in Nat
      BY <1>a, <1>b DEF Transaction
    <3>6. held = 1
      BY <3>3, <3>4, <3>5, <2>2, <2>5 DEF Conflict
    <3>7. Delete \in mix.kinds
      BY <2>8, <1>h DEF Delete
    <3>8. held = KeyShare
      BY <3>6, <2>5
    <3>9. j = i
      BY <3>7, <3>8, <2>3, <1>h
    <3>10. b = "workflow" /\ Plans[k][i].mode = held
      BY <3>9, <2>1, <1>c
    <3> QED
      BY <3>10, <2>4, <2>5, <3>6, <1>g
  <2>9. CASE Statement(s).mode = KeyShare
    <3>1. held = Update /\ k = Delete
      BY <2>2, <2>5, <2>9, <1>a
    <3>2. j = 3
      BY <3>1, <2>1, <2>5 DEF OfDeletions
    <3>3. i > 3 \/ i = 3
      BY <3>2, <2>1, <1>c
    <3>4. i # 3
      <4>1. i = 3 => b = "workflow"
        BY <3>1, <1>c DEF OfDeletions
      <4> QED
        BY <4>1, <3>1, <2>4, <2>5, <1>g
    <3>5. b \in RunTables
      BY <3>1, <3>3, <3>4, <1>c DEF OfDeletions
    <3>6. b = "schedule"
      BY <3>1, <3>5, <1>i DEF RunTables, RowsOfRuns
    <3>7. k \in Guarded
      BY <3>6, <1>a, <1>c DEF Sound, Gated, k, b
    <3> QED
      BY <3>1, <3>7 DEF Guarded
  <2> QED
    BY <2>6, <2>7, <2>8, <2>9
<1> QED
  BY <1>1, <1>2, <1>3, <1>4

LEMMA FurtherOn ==
  ASSUME IInv, NEW t \in Sessions, session[t].on # NoRow
  PROVE  Stage(session[t]) \in Nat /\ Place(session[t].on) \in Nat
<1>1. session[t].on \in Rows
  BY HeldBy DEF Transaction
<1>2. Place(session[t].on) \in Nat
  BY <1>1, Places
<1> QED
  BY <1>2 DEF Stage, Level

(* Of transactions that all wait, the one the fewest are further on than   *)
(* waits for none of them.                                                 *)
LEMMA NoCircle ==
  ASSUME IInv
  PROVE  NoDeadlock
<1> SUFFICES ASSUME NEW S \in (SUBSET Sessions) \ {{}},
                    \A t \in S : \E u \in S : WaitsFor(t, u)
             PROVE  FALSE
  BY DEF NoDeadlock
<1> DEFINE Further(t) == {u \in S : Before(session[t], session[u])}
           Family == {Further(t) : t \in S}
<1>1. S \in SUBSET Sessions /\ IsFiniteSet(S)
  BY SessionsAssumption, FS_Subset
<1>2. Family \subseteq FiniteSubsetsOf(S) /\ Family # {}
  <2>1. FiniteSubsetsOf(S) = SUBSET S
    BY <1>1, FS_FiniteSubsetsOfFinite, Zenon
  <2>2. Family \in SUBSET (SUBSET S)
    OBVIOUS
  <2>3. Family # {}
    OBVIOUS
  <2> QED
    BY <2>1, <2>2, <2>3, Zenon
<1>3. PICK U \in Family : \A V \in Family : <<V, U>> \notin StrictSubsetOrdering(S)
  BY <1>1, <1>2, FS_StrictSubsetOrderingWellFounded, WFMin, Zenon
<1>4. PICK t \in S : U = Further(t)
  BY Zenon
<1>5. PICK u \in S : WaitsFor(t, u)
  OBVIOUS
<1>6. Before(session[t], session[u])
  <2>1. PICK v \in S : WaitsFor(u, v)
    OBVIOUS
  <2>2. t \in Sessions /\ u \in Sessions /\ v \in Sessions
    BY <1>1
  <2> QED
    BY <1>5, <2>1, <2>2, Ordered
<1>7. \A w \in S : Stage(session[w]) \in Nat /\ Place(session[w].on) \in Nat
  <2> SUFFICES ASSUME NEW w \in S
               PROVE  Stage(session[w]) \in Nat /\ Place(session[w].on) \in Nat
    OBVIOUS
  <2>1. w \in Sessions /\ session[w].on # NoRow
    BY <1>1 DEF WaitsFor
  <2> QED
    BY <2>1, FurtherOn
<1>8. ~Before(session[u], session[u])
  BY <1>7 DEF Before
<1>9. \A w \in S : Before(session[u], session[w]) => Before(session[t], session[w])
  BY <1>6, <1>7 DEF Before
<1>10. Further(u) \subseteq Further(t) /\ u \in Further(t) /\ u \notin Further(u)
  BY <1>6, <1>8, <1>9, Zenon
<1>11. <<Further(u), U>> \in StrictSubsetOrdering(S)
  BY <1>4, <1>10, Zenon DEF StrictSubsetOrdering
<1> QED
  BY <1>3, <1>11, Zenon

-----------------------------------------------------------------------------
(* The theorems                                                            *)

(* In orderly situations a transaction always holds what it came by, and   *)
(* the schedule rows of its runs before anything else of theirs.           *)
THEOREM LocksHeldInOrder ==
  ASSUME \A m \in DOMAIN Mixes : Orderly(Mixes[m])
  PROVE  Spec => []IInv
<1>1. Init => IInv
  BY Initial
<1>2. IInv /\ [Next]_vars => IInv'
  BY Inductive
<1> QED
  BY <1>1, <1>2, PTL DEF Spec

(* In orderly situations transactions never wait for one another in a      *)
(* circle, whatever they are, however many and about whichever runs.       *)
THEOREM NeverInACircle ==
  ASSUME \A m \in DOMAIN Mixes : Orderly(Mixes[m])
  PROVE  Spec => []NoDeadlock
<1>1. IInv => NoDeadlock
  BY NoCircle
<1> QED
  BY <1>1, LocksHeldInOrder, PTL
=============================================================================
