------------------------------ MODULE MCRunWaits ------------------------------
(***************************************************************************)
(* RunWaits on small graphs.                                               *)
(***************************************************************************)
EXTENDS RunWaits, TLC

CONSTANTS u, w, c, v1, v2

Delays == [v \in Versions |-> "delay"]

Events == [v \in Versions |-> "event"]

Modes == (u :> Delays @@ w :> Events @@ c :> Delays)

SkipsInV1 == {<<w, v1>>}

(* u and w on the Started branch, u above w or beside it, and c behind the *)
(* Canceled outlet.                                                        *)
Flows ==
    [chain |-> [above |-> (u :> {} @@ w :> {u} @@ c :> {}), broken |-> {},
                migrations |-> 2, faults |-> 1],
     sides |-> [above |-> (u :> {} @@ w :> {} @@ c :> {}),
                broken |-> {<<u, v2>>}, migrations |-> 1, faults |-> 0]]
============================================================================
