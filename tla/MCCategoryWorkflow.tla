------------------------- MODULE MCCategoryWorkflow -------------------------
(***************************************************************************)
(* Instances of CategoryWorkflow for TLC.                                  *)
(***************************************************************************)
EXTENDS CategoryWorkflow, TLC

HandlerSymmetry == Permutations(Handlers)

=============================================================================
