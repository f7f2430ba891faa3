---------------------------- MODULE CaseContract ----------------------------
(***************************************************************************)
(* What the case pipeline promises of one e-mail case, with handlers,      *)
(* leases, tasks and versions left out: the attachment set is fixed when   *)
(* the case is accepted, the case is announced only when all of it is      *)
(* kept, and an outcome is computed from all of it.  The one exception is  *)
(* a reviewer who forces a case whose attachments are not all kept: from   *)
(* then on an outcome may come from those that are.                        *)
(***************************************************************************)
CONSTANT Docs

VARIABLES phase, attachments, kept, announced, forced, finished, outcome

vars == <<phase, attachments, kept, announced, forced, finished, outcome>>

Init ==
    /\ phase = "absent" /\ attachments = {} /\ kept = {}
    /\ announced = FALSE /\ forced = FALSE
    /\ finished = FALSE /\ outcome = {}

Accept ==
    /\ phase = "absent" /\ phase' = "collecting"
    /\ attachments' \in SUBSET Docs
    /\ UNCHANGED <<kept, announced, forced, finished, outcome>>

Keep ==
    /\ phase # "absent"
    /\ \E d \in attachments : kept' = kept \cup {d}
    /\ UNCHANGED <<phase, attachments, announced, forced, finished, outcome>>

Confirm ==
    /\ phase = "collecting" /\ kept = attachments
    /\ phase' = "ready"
    /\ UNCHANGED <<attachments, kept, announced, forced, finished, outcome>>

Force ==
    /\ phase = "collecting"
    /\ forced' = TRUE
    /\ UNCHANGED <<phase, attachments, kept, announced, finished, outcome>>

Announce ==
    /\ phase = "ready" \/ forced
    /\ announced' = TRUE
    /\ UNCHANGED <<phase, attachments, kept, forced, finished, outcome>>

Finish ==
    /\ announced
    /\ finished' = TRUE
    /\ \/ phase = "ready" /\ outcome' = attachments
       \/ forced /\ outcome' \subseteq kept
    /\ UNCHANGED <<phase, attachments, kept, announced, forced>>

Next == Accept \/ Keep \/ Confirm \/ Force \/ Announce \/ Finish

Spec == Init /\ [][Next]_vars

=============================================================================
