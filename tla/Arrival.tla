------------------------------- MODULE Arrival --------------------------------
(***************************************************************************)
(* What the event inbox promises about one arrival, in one workflow.       *)
(*                                                                         *)
(* An arrival is recorded once, delivered until it settles, and may be     *)
(* reopened after it failed.  However often its delivery is retried or     *)
(* runs twice at once, the Lifecycle Rules decide it at most once: one run *)
(* is started, or an Entity admission refusal is recorded, or the runs of  *)
(* its entity are cancelled.  The decision outlives the settling and a     *)
(* reopening, and is forgotten only with the inbox row.                    *)
(***************************************************************************)
CONSTANTS Deliveries

VARIABLES
  row,     \* "new", "pending", "settled" or "gone", for each arrival
  outcome  \* the decisions committed for it: at most one

vars == <<row, outcome>>

Outcomes == {"started", "refused", "canceled"}

Init ==
  /\ row = [d \in Deliveries |-> "new"]
  /\ outcome = [d \in Deliveries |-> {}]

Move(d, from, to) ==
  /\ row[d] = from
  /\ row' = [row EXCEPT ![d] = to]

Arrive(d) == Move(d, "new", "pending") /\ UNCHANGED outcome

Settle(d) == Move(d, "pending", "settled") /\ UNCHANGED outcome

Reopen(d) == Move(d, "settled", "pending") /\ UNCHANGED outcome

(* A pass whose lease was lost may still commit its decision after another *)
(* one settled the arrival without deciding it.                            *)
Decide(d) ==
  /\ row[d] \in {"pending", "settled"}
  /\ outcome[d] = {}
  /\ \E k \in Outcomes : outcome' = [outcome EXCEPT ![d] = {k}]
  /\ UNCHANGED row

Forget(d) ==
  /\ Move(d, "settled", "gone")
  /\ outcome' = [outcome EXCEPT ![d] = {}]

Next ==
  \E d \in Deliveries :
    Arrive(d) \/ Settle(d) \/ Reopen(d) \/ Decide(d) \/ Forget(d)

Spec == Init /\ [][Next]_vars

(* Every recorded arrival settles.                                         *)
Settles == \A d \in Deliveries : row[d] = "pending" ~> row[d] # "pending"
=============================================================================
