--------------------------- MODULE MailboxContract ---------------------------
(***************************************************************************)
(* What the synchronization with the mailbox promises, with notifications, *)
(* requests and outages left out: messages arrive in the order of their    *)
(* numbers and may leave the inbox; one that can still be read may be      *)
(* handled, and stays handled; the checkpoint moves, forwards or           *)
(* backwards, to a place behind which nothing waits.                       *)
(***************************************************************************)
EXTENDS Integers

CONSTANTS Messages, NoCursor

VARIABLES
    now,        \* the newest message
    place,      \* of each message: to come, inbox, elsewhere, deleted
    handled,    \* the messages that need not be looked at again
    cursor      \* the checkpoint

vars == <<now, place, handled, cursor>>

Waiting(n) == n \notin handled /\ place[n] \in {"to come", "inbox"}

Init ==
    /\ now = 0 /\ place = [n \in Messages |-> "to come"]
    /\ handled = {} /\ cursor = NoCursor

Arrive ==
    /\ now' = now + 1
    /\ now' \in Messages /\ place' = [place EXCEPT ![now'] = "inbox"]
    /\ UNCHANGED <<handled, cursor>>

Leave(n) ==
    /\ place[n] \in {"inbox", "elsewhere"}
    /\ \E to \in {"elsewhere", "deleted"} : place' = [place EXCEPT ![n] = to]
    /\ UNCHANGED <<now, handled, cursor>>

Handle(n) ==
    /\ place[n] \in {"inbox", "elsewhere"}
    /\ handled' = handled \cup {n}
    /\ UNCHANGED <<now, place, cursor>>

Checkpoint ==
    /\ cursor' \in 0..now
    /\ \A n \in Messages : n <= cursor' => ~Waiting(n)
    /\ UNCHANGED <<now, place, handled>>

Next ==
    \/ Arrive \/ Checkpoint
    \/ \E n \in Messages : Leave(n) \/ Handle(n)

Spec == Init /\ [][Next]_vars

=============================================================================
