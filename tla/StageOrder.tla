----------------------------- MODULE StageOrder -----------------------------
(***************************************************************************)
(* What the category workflow promises a client that requests only what    *)
(* the case offers: the case goes through its stages one offered action at *)
(* a time, as if requests never overlapped.  The exceptions: a shipping    *)
(* instruction may be generated again at any stage, and a case may be      *)
(* classified again, which keeps its stage.                                *)
(***************************************************************************)
EXTENDS StageTables

VARIABLES category, stage, blocked

vars == <<category, stage, blocked>>

Init ==
    /\ category \in Categories
    /\ stage = DefaultStage(category)
    /\ blocked = FALSE

Take(a) ==
    /\ a \in AvailableActions(category, stage, blocked)
    /\ stage' = ResultStage[a]
    /\ IF a = "not_spam" THEN category' \in Categories ELSE category' = category
    /\ blocked' = CASE a = "block_sender" -> TRUE [] a = "not_spam" -> FALSE [] OTHER -> blocked

\* Whatever the case has become since an instruction was asked for.
Regenerate == stage' = "GENERATED" /\ UNCHANGED <<category, blocked>>

\* The buttons of a new spam alert are good for either answer.
BlockAgain == category = "SPAM" /\ stage' = "BLOCKED" /\ blocked' = TRUE /\ UNCHANGED category

\* The case is classified again.
Reclassify == category' \in Categories /\ UNCHANGED <<stage, blocked>>

Next == Regenerate \/ BlockAgain \/ Reclassify \/ \E a \in CaseActions : Take(a)

Spec == Init /\ [][Next]_vars

=============================================================================
