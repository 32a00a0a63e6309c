---------------------------- MODULE MCSharedState ----------------------------
(* SharedState on small instances. *)
EXTENDS SharedState, TLC

CONSTANTS p1, p2, n1, n2

ProcSymmetry == Permutations(Procs)

Walk == n1 :> 1 @@ n2 :> 2

AllNames == {Names}
AllOrOne == {Names, {n2}}

AnyStep == Steps \ {"idle"}
(* A failing save does not lose the answer to an order. *)
NotSaveRec == AnyStep \ {"saverec"}
=============================================================================
