------------------------------- MODULE Execution -------------------------------
(***************************************************************************)
(* What an Execution promises those who watch, wake and stop it, without   *)
(* wait rows, schedule rows, passes or graphs.  It runs under one Workflow *)
(* Version, which a Migration changes only while the run is parked and     *)
(* nobody has stopped it; the first claim stands and names its verdict; an *)
(* Event it accepted stays with it until a Wait acts on it or the run      *)
(* ends; and nothing it owes an answer to is slept through.  RunWaits      *)
(* implements it.                                                          *)
(***************************************************************************)

CONSTANTS Waits, Versions, StartVersion

VARIABLES
    status,    \* "running", "waiting" or the verdict it ended with
    version,   \* the Workflow Version it is pinned to
    claim,     \* who stopped it: "none", "cancel" or "exit"
    accepted,  \* the Waits that hold an Event the run has yet to act on
    asleep     \* no pass works on it before something wakes it

executionVars == <<status, version, claim, accepted, asleep>>

InFlight == {"running", "waiting"}

Init ==
    /\ status = "running"
    /\ version = StartVersion
    /\ claim = "none"
    /\ accepted = {}
    /\ asleep = FALSE

(* A pass moves the run between running and waiting as its Waits park and  *)
(* resume.                                                                 *)
Work ==
    /\ ~asleep
    /\ status \in InFlight
    /\ status' \in InFlight
    /\ UNCHANGED <<version, claim, accepted, asleep>>

(* A Wait acts on its Event, or is given up with it.                       *)
Consume(w) ==
    /\ ~asleep
    /\ status \in InFlight
    /\ accepted' = accepted \ {w}
    /\ UNCHANGED <<status, version, claim, asleep>>

(* A run goes to sleep waiting, for a Migration to find it so, and with    *)
(* every Event it accepted acted on.  An exiting run has nothing to wait   *)
(* for.                                                                    *)
FallAsleep ==
    /\ ~asleep
    /\ status = "waiting"
    /\ claim # "exit"
    /\ accepted = {}
    /\ asleep' = TRUE
    /\ UNCHANGED <<status, version, claim, accepted>>

(* A deadline wakes it.                                                    *)
WakeUp ==
    /\ asleep
    /\ asleep' = FALSE
    /\ UNCHANGED <<status, version, claim, accepted>>

(* What comes from outside wakes the run in the same write.                *)
Accept(w) ==
    /\ status \in InFlight
    /\ claim # "exit"
    /\ accepted' = accepted \cup {w}
    /\ asleep' = FALSE
    /\ UNCHANGED <<status, version, claim>>

Migrate(v) ==
    /\ status = "waiting"
    /\ claim = "none"
    /\ accepted = {}
    /\ version # v
    /\ version' = v
    /\ asleep' = FALSE
    /\ UNCHANGED <<status, claim, accepted>>

Stop(kind) ==
    /\ status \in InFlight
    /\ claim = "none"
    /\ claim' = kind
    /\ asleep' = FALSE
    /\ UNCHANGED <<status, version, accepted>>

(* A run ends once, as its claim says.                                     *)
End(verdict) ==
    /\ status \in InFlight
    /\ claim = CASE verdict = "canceled" -> "cancel"
                 [] verdict = "exited" -> "exit"
                 [] OTHER -> "none"
    /\ status' = verdict
    /\ accepted' = {}
    /\ asleep' = FALSE
    /\ UNCHANGED <<version, claim>>

Next ==
    \/ Work
    \/ FallAsleep
    \/ WakeUp
    \/ \E w \in Waits : Accept(w) \/ Consume(w)
    \/ \E v \in Versions : Migrate(v)
    \/ \E kind \in {"cancel", "exit"} : Stop(kind)
    \/ \E verdict \in {"completed", "failed", "canceled", "exited",
                       "superseded"} : End(verdict)

Spec == Init /\ [][Next]_executionVars
================================================================================
