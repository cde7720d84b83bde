------------------------------ MODULE DurableJob ------------------------------
(***************************************************************************)
(* What the durable executor promises of one run, without rows, leases,    *)
(* passes or workers: ADR-0021's job.  Its steps settle in graph order,    *)
(* each at most once; a step is given up once its retries are charged; the *)
(* run completes only when every node step is settled, and whatever ends   *)
(* it ends it once.  LeasedPass implements it.                             *)
(***************************************************************************)
EXTENDS Naturals

CONSTANTS STEP_RETRY_LIMIT, NodeSteps, Terminal, Before

VARIABLES
    result,   \* [Steps -> "open" or how the step settled]
    charges,  \* [Steps -> the failures counted on it]
    subject   \* "open" or how the run ended

jobVars == <<result, charges, subject>>

Steps == NodeSteps \cup {Terminal}

Fresh ==
    /\ result = [s \in Steps |-> "open"]
    /\ charges = [s \in Steps |-> 0]

Init == Fresh /\ subject = "open"

(* A node step whose own node, or one above it, is settled for good.       *)
Closed(s) ==
    \/ result[s] # "open"
    \/ \E t \in Before[s] : result[t] = "failed"

(* Every step above s succeeded; Terminal comes after every node step.     *)
Reached(s) ==
    IF s = Terminal THEN \A t \in NodeSteps : Closed(t)
                    ELSE \A t \in Before[s] : result[t] = "succeeded"

Workable(s) == subject = "open" /\ result[s] = "open" /\ Reached(s)

Succeed(s) ==
    /\ s # Terminal
    /\ Workable(s)
    /\ result' = [result EXCEPT ![s] = "succeeded"]
    /\ UNCHANGED <<charges, subject>>

(* A failure is counted on s, and the last one gives it up.                *)
Charge(s) ==
    /\ Workable(s)
    /\ charges' = [charges EXCEPT ![s] = @ + 1]
    /\ result' = IF charges[s] < STEP_RETRY_LIMIT THEN result
                 ELSE [result EXCEPT ![s] = "failed"]
    /\ UNCHANGED subject

(* The run ends and its steps are forgotten: completed by its terminal     *)
(* step, and failed or canceled at any time.                               *)
End(as) ==
    /\ subject = "open"
    /\ as = "completed" => Workable(Terminal)
    /\ subject' = as
    /\ Fresh'

Next ==
    \/ \E s \in Steps : Succeed(s) \/ Charge(s)
    \/ \E as \in {"completed", "failed", "canceled"} : End(as)

Spec == Init /\ [][Next]_jobVars
==============================================================================
