--------------------------- MODULE ReviewContract ---------------------------
(***************************************************************************)
(* What the review of a compared case promises, with requests, versions    *)
(* and workers left out: reviewers take turns.  A decision is on one side  *)
(* of one field and starts from what is held of that field when it is      *)
(* made; it resolves the field only if both sides have a value by then,    *)
(* and every field that needs a decision stays on the list of those that   *)
(* do.  A case is approved when nothing on the list is open.               *)
(*                                                                         *)
(* The exceptions are those of "waived": a case queued again with its      *)
(* decisions, approved by an action that asks for no review, or changed by *)
(* a worker after it was over.                                             *)
(***************************************************************************)
CONSTANTS Fields, Sides, Values, None

VARIABLES
    over,       \* the comparison is over
    evidence,   \* what the documents say of each side of each field
    differing,  \* the fields whose sides differ
    required,   \* the fields that were listed as needing a decision
    reviews, decision, waived

vars == <<over, evidence, differing, required, reviews, decision, waived>>

Record(values) ==
    [decision |-> "readable", values |-> values, resolved |-> \A s \in Sides : values[s] # None]

Unread(values) == [decision |-> "unreadable", values |-> values, resolved |-> FALSE]

NoReview == [decision |-> None, values |-> [s \in Sides |-> None], resolved |-> FALSE]

NoReviews == [f \in Fields |-> NoReview]

Needed == differing \cup {f \in Fields : \E s \in Sides : evidence[s][f] = None}

\* What a decision on a field may start from.
Held(f) ==
    IF reviews[f] # NoReview THEN {reviews[f].values}
    ELSE IF waived THEN [Sides -> Values]
    ELSE {[s \in Sides |-> evidence[s][f]]}

Init ==
    /\ over = TRUE /\ evidence \in [Sides -> [Fields -> Values]] /\ differing \in SUBSET Fields
    /\ required = {} /\ reviews = NoReviews /\ decision = None /\ waived = FALSE

Settle(f) ==
    /\ over /\ decision = None
    /\ required \cup {f} \subseteq required' /\ required' \subseteq Fields
    /\ waived \/ Needed \subseteq required'
    /\ \E held \in Held(f), side \in Sides, value \in Values :
          LET values == [held EXCEPT ![side] = value]
          IN  reviews' = [reviews EXCEPT ![f] = IF value = None THEN Unread(values) ELSE Record(values)]
    /\ UNCHANGED <<over, evidence, differing, decision, waived>>

Approve ==
    /\ decision' = "APPROVE"
    /\ \/ waived'
       \/ ~waived' /\ ~waived /\ over /\ \A f \in Needed \cup required : reviews[f].resolved
    /\ UNCHANGED <<over, evidence, differing, required, reviews>>

Decline ==
    /\ decision' = "DECLINE"
    /\ UNCHANGED <<over, evidence, differing, required, reviews, waived>>

\* The comparison starts again, without the decisions or with them.
Restart ==
    /\ ~over' /\ required' = {} /\ reviews' = NoReviews /\ decision' = None /\ ~waived'
    /\ UNCHANGED <<evidence, differing>>

Reopen ==
    /\ ~over' /\ waived'
    /\ UNCHANGED <<evidence, differing, required, reviews, decision>>

\* What the comparison finds, a side at a time, and then its result.
Replace ==
    /\ waived' = (waived \/ over) /\ UNCHANGED <<over, differing, required, reviews, decision>>
    /\ evidence' \in [Sides -> [Fields -> Values]]
    /\ \E s \in Sides : \A t \in Sides \ {s} : evidence'[t] = evidence[t]

Finish ==
    /\ over' /\ waived' = (waived \/ over) /\ differing' \in SUBSET Fields
    /\ UNCHANGED <<evidence, required, reviews, decision>>

Next ==
    \/ \E f \in Fields : Settle(f)
    \/ Approve \/ Decline \/ Restart \/ Reopen \/ Replace \/ Finish

Spec == Init /\ [][Next]_vars

=============================================================================
