---------------------------- MODULE ReplyContract ----------------------------
(***************************************************************************)
(* What is promised of the answer to the sender of a case, with requests,  *)
(* buttons and versions left out.  The case shows an answer and may name   *)
(* the mail in Gmail that carries it; people change and send mails in      *)
(* Gmail as they like.  Every other mail is sent on an approval that sends *)
(* no second one; a case records a mail only if it names it, it was sent   *)
(* and says what the case shows, and does not reword it afterwards; a case *)
(* is declined only when it records its answer or somebody confirms it was *)
(* sent.  "swapped" is the one excuse: a mail was changed when it had been *)
(* verified and not sent yet.                                              *)
(***************************************************************************)
CONSTANTS Texts, Mails, Approvals, None

VARIABLES
    reply,      \* the answer the case shows, and the mail it names
    recorded,   \* the mail the case recorded as sent
    decision,
    mail,       \* of each: absent, draft or sent; its text; the approval it was sent on
    swapped

vars == <<reply, recorded, decision, mail, swapped>>

Init ==
    /\ reply = [state |-> "none", text |-> None, ref |-> {}]
    /\ recorded = {} /\ decision = "none"
    /\ mail = [g \in Mails |-> [st |-> "absent", text |-> None, by |-> {}]]
    /\ swapped = FALSE

-----------------------------------------------------------------------------
(* In Gmail *)

Make(g) ==
    /\ mail[g].st = "absent"
    /\ \E t \in Texts : mail' = [mail EXCEPT ![g] = [st |-> "draft", text |-> t, by |-> {}]]
    /\ UNCHANGED <<reply, recorded, decision, swapped>>

Change(g) ==
    /\ mail[g].st = "draft"
    /\ \E t \in Texts : mail' = [mail EXCEPT ![g].text = t]
    /\ swapped' \in {swapped, TRUE}
    /\ UNCHANGED <<reply, recorded, decision>>

SendByHand(g) ==
    /\ mail[g].st = "draft"
    /\ mail' = [mail EXCEPT ![g].st = "sent"]
    /\ UNCHANGED <<reply, recorded, decision, swapped>>

Send(g) ==
    /\ mail[g].st = "draft"
    /\ \E a \in Approvals :
          /\ \A m \in Mails : a \notin mail[m].by
          /\ mail' = [mail EXCEPT ![g].st = "sent", ![g].by = {a}]
    /\ UNCHANGED <<reply, recorded, decision, swapped>>

-----------------------------------------------------------------------------
(* In the case *)

\* A new answer names no mail, or one no answer of the case has named.
Prepare ==
    /\ \E t \in Texts : reply' = [state |-> "READY", text |-> t, ref |-> reply'.ref]
    /\ reply'.ref = {} \/ \E g \in Mails : reply'.ref = {g}
    /\ \A g \in reply'.ref : mail[g].st # "absent" /\ g \notin reply.ref \cup recorded
    /\ UNCHANGED <<recorded, decision, mail, swapped>>

Mailed == reply.state = "SENT" /\ recorded = reply.ref /\ recorded # {}

Reword ==
    /\ reply.state # "none" /\ (Mailed => swapped)
    /\ \E t \in Texts : reply' = [reply EXCEPT !.text = t]
    /\ UNCHANGED <<recorded, decision, mail, swapped>>

Record ==
    /\ \E g \in reply.ref : /\ mail[g].st = "sent"
                            /\ swapped \/ mail[g].text = reply.text
    /\ reply' = [reply EXCEPT !.state = "SENT"] /\ recorded' = reply.ref
    /\ decision' = "DECLINE"
    /\ UNCHANGED <<mail, swapped>>

\* Somebody says it was sent.
Confirm ==
    /\ reply.state # "none"
    /\ reply' = [reply EXCEPT !.state = "SENT"]
    /\ decision' = "DECLINE"
    /\ UNCHANGED <<recorded, mail, swapped>>

\* The case is approved or opened again, whatever was decided before.
Decide ==
    /\ decision' \in {"APPROVE", "none"}
    /\ UNCHANGED <<reply, recorded, mail, swapped>>

Next ==
    \/ Prepare \/ Reword \/ Record \/ Confirm \/ Decide
    \/ \E g \in Mails : Make(g) \/ Change(g) \/ SendByHand(g) \/ Send(g)

Spec == Init /\ [][Next]_vars

=============================================================================
