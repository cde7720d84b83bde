----------------------------- MODULE MCDelivery -------------------------------
(***************************************************************************)
(* Delivery with small sets of arrivals, runs and published versions.      *)
(***************************************************************************)
EXTENDS Delivery, TLC

CONSTANTS d1, d2, p1, p2

(* A pass is whichever worker claimed the row.                             *)
PassSymmetry == Permutations(Passes)

Version(role, concurrency) == [role |-> role, concurrency |-> concurrency]
Starts == [d \in Deliveries |-> "start"]
Every(role) == [d \in Deliveries |-> role]

(* An unguarded workflow with no Event to deliver, and no fault.           *)
Quiet ==
  [arrivals |-> Deliveries,
   publications |-> <<Version(Every("none"), "unlimited")>>,
   standing |-> {}, guarded |-> FALSE, wakes |-> {}, refused |-> {},
   hosted |-> {}, outlet |-> FALSE, waits |-> 0,
   resends |-> 0, expiries |-> 0, crashes |-> 0, migrations |-> 0]

(* Two starts of a guarded workflow whose second version refuses a newer   *)
(* one; a Cancel (d1) beside a start (d2); an arrival that starts a run    *)
(* and wakes the Waits of another; and one that finds several runs parked, *)
(* over pages.                                                             *)
Delivered ==
  [starts |-> [Quiet EXCEPT
     !.publications = <<Version(Starts, "newest-wins"), Version(Starts, "first-wins")>>,
     !.guarded = TRUE, !.hosted = {d2}, !.resends = 1, !.expiries = 1],
   cancels |-> [Quiet EXCEPT
     !.publications = <<Version(d1 :> "cancel" @@ d2 :> "start", "unlimited")>>,
     !.standing = {1}, !.outlet = TRUE, !.waits = 1,
     !.expiries = 1],
   starting |-> [Quiet EXCEPT
     !.arrivals = {d1}, !.publications = <<Version(Starts, "unlimited")>>,
     !.standing = {1}, !.wakes = {d1}, !.waits = 2, !.expiries = 1],
   paged |-> [Quiet EXCEPT
     !.arrivals = {d1}, !.standing = {1, 2}, !.wakes = {d1}, !.waits = 1,
     !.expiries = 1, !.migrations = 1]]

(* A run parked on the Event is moved to another version.                  *)
Moved ==
  [only |-> [Quiet EXCEPT
     !.arrivals = {d1}, !.standing = {1}, !.wakes = {d1}, !.waits = 1,
     !.migrations = 1]]

(* A start that a Publish filters out, then one whose graph will not run,  *)
(* then an Event that starts nothing any more.                             *)
Failing ==
  [only |-> [Quiet EXCEPT
     !.publications = <<Version(Starts, "first-wins"),
                        Version(Every("declined"), "first-wins"),
                        Version(Every("unrunnable"), "first-wins"),
                        Version(Every("none"), "first-wins")>>,
     !.standing = {1}, !.guarded = TRUE, !.wakes = {d1}, !.refused = {d2},
     !.hosted = {d1}, !.waits = 1, !.resends = 1, !.crashes = 1]]
=============================================================================
