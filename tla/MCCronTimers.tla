----------------------------- MODULE MCCronTimers -----------------------------
(***************************************************************************)
(* CronTimers with one schedule and a few slots.                           *)
(***************************************************************************)
EXTENDS CronTimers, TLC

CONSTANTS p1, p2, e1, o1, o2, s1

EveryTime == [s \in Schedules |-> 1 .. MaxNow]

(* The schedule declared, the same in a graph the preflight refuses, and   *)
(* no schedule.                                                            *)
SomeGraphs ==
  {[schedules |-> Schedules, runnable |-> TRUE],
   [schedules |-> Schedules, runnable |-> FALSE],
   [schedules |-> {}, runnable |-> TRUE]}

(* For requests that overlap: one graph, which runs.                       *)
OneGraph == {[schedules |-> Schedules, runnable |-> TRUE]}
=============================================================================
