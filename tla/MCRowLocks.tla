----------------------------- MODULE MCRowLocks ------------------------------
(***************************************************************************)
(* RowLocks with two runs and three sessions.                              *)
(***************************************************************************)
EXTENDS RowLocks, TLC

CONSTANTS t1, t2, t3

(* The runs' execution ids are in the reverse order of their schedule ids. *)
Reversed == [r \in Runs |-> Cardinality(Runs) + 1 - r]

SessionSymmetry == Permutations(Sessions)

Mix(first, second, kinds, atOnce) ==
    [runs |-> (1 :> first @@ 2 :> second), kinds |-> kinds, atOnce |-> atOnce]

(* Two runs in flight; one in flight while another is opened; and a        *)
(* workflow deleted once its runs have ended.  Then three transactions of  *)
(* the kinds whose locks are not the first few of another kind's.          *)
Quiet ==
    [inFlight |-> Mix("live", "live", Kinds \ {"deleteById"}, 2),
     opening  |-> Mix("unborn", "live", Kinds \ Deletes, 2),
     deleted  |-> Mix("ended", "ended",
                      Kinds \ {"insertPublishedVersion", "deleteAllForWorkflow",
                               "sweepEndedExecutions"}, 2),
     three    |-> Mix("live", "live",
                      {"startWait", "reparkWait", "requestExit", "recordEntry",
                       "finishRun", "claimWaitState", "repinVersion",
                       "requestCancelForEntity", "fireCronTimer", "skipCronSlot",
                       "claimDue", "insertPublishedVersion",
                       "deleteAllForWorkflow"}, 3)]

(* All of them are of those in which transactions wait in an order.        *)
ASSUME QuietIsOrderly == \A m \in DOMAIN Quiet : Orderly(Quiet[m])

(* A run resumes while its workflow is deleted.                            *)
Resuming == [resuming |-> Mix("live", "live", {"markRunning", "deleteById"}, 2)]
=============================================================================
