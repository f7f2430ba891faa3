-------------------------- MODULE MCDraftDelivery --------------------------
(***************************************************************************)
(* Instances of DraftDelivery for TLC.  States are told apart by what a    *)
(* step can still see.  Every step compares a version for equality with    *)
(* the case's, and one that is past never comes back: of a version the     *)
(* view keeps whether it is the case's, and of a handler whose write is    *)
(* bound to be refused, that it waits to be.  Nothing reads a used button  *)
(* once its press has taken what it needs, nor what an alert was about     *)
(* once the case has moved on.                                             *)
(***************************************************************************)
EXTENDS DraftDelivery, TLC

HandlerSymmetry ==
    Permutations(Sessions) \cup Permutations(Presses) \cup Permutations(Texts)
    \cup Permutations(ApproveButtons) \cup Permutations(DeclineButtons)

Current(v) == v = version

ButtonView(b) ==
    IF button[b].used /\ ~\E p \in Presses : pc[p] = "pressed" /\ b \in pressed[p]
    THEN <<"spent", button[b].kind = "none">>
    ELSE <<button[b].kind, button[b].text, button[b].used,
           button[b].kind # "decline" /\ Current(button[b].version)>>

HandlerView(h) ==
    IF pc[h] \in {"store", "save", "confirm", "approve"} /\ ~Current(ver[h])
    THEN <<pc[h], pressed[h]>>
    ELSE <<pc[h], Current(ver[h]), txt[h], seen[h], pressed[h]>>

DeliveryView ==
    <<draft, top, sentRef, decision, gmail,
      [b \in Buttons |-> ButtonView(b)], [h \in Handlers |-> HandlerView(h)],
      [a \in ApproveButtons |-> Current(button[a].version) => announced[a] = Announcement],
      swapped, raced, disturbances>>

=============================================================================
