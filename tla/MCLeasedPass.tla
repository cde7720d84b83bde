----------------------------- MODULE MCLeasedPass -----------------------------
(***************************************************************************)
(* LeasedPass on small runs of up to three steps and the Terminal step.    *)
(***************************************************************************)
EXTENDS LeasedPass

CONSTANTS p1, p2, a, b, c

(* a, then b.                                                              *)
Chain == (a :> {} @@ b :> {a})

(* Two branches below one step.                                            *)
Branches == (a :> {} @@ b :> {a} @@ c :> {a})

Slots == Permutations({p1, p2})
============================================================================
