---------------------------- MODULE MCFieldReview ----------------------------
(***************************************************************************)
(* Instances of FieldReview for TLC: the weights differ, or a shipper is   *)
(* missing.  States are told apart by which handlers still hold the case's *)
(* version: no step looks at a version that is past.                       *)
(***************************************************************************)
EXTENDS FieldReview, TLC

Agreeing == [r \in Roles |-> [f \in Fields |-> "x"]]

MCFindings ==
    {[Agreeing EXCEPT !["BL"]["gross_weight"] = "y"],
     [Agreeing EXCEPT !["SI"]["shipper"] = None]}

ReviewSymmetry == Permutations(Handlers) \cup Permutations(Workers)

ReviewView ==
    <<version, case, docs, pc, [h \in Handlers |-> ver[h] = version], edit, work, waived>>

=============================================================================
