-------------------------- MODULE MCWeeklySummary --------------------------
(***************************************************************************)
(* The instance of WeeklySummary that TLC checks: two weeks, a case in     *)
(* each, and an assumption both cases make.                                *)
(***************************************************************************)
EXTENDS WeeklySummary, TLC

CONSTANTS w1, w2, c1, c2, x1, x2

MCWeekOf == c1 :> w1 @@ c2 :> w2
MCAssumes == c1 :> {x1, x2} @@ c2 :> {x1}

RequestSymmetry == Permutations(Jobs)

=============================================================================
