------------------------- MODULE ProcessingContract -------------------------
(***************************************************************************)
(* What processing a case promises, with workers, leases, tasks and        *)
(* versions left out: attempts follow each other, as if there were one     *)
(* worker.  An attempt takes what is kept of the case at one moment, finds *)
(* something in documents it took and in no others, and ends with the      *)
(* result of just these; a case that is over is not processed again until  *)
(* it is queued again; a decision is on the result there is.               *)
(*                                                                         *)
(* The exception is "disturbed": a case taken from the attempt that holds  *)
(* it, because its time ran out or somebody queued or reset the case.  An  *)
(* attempt that was overtaken may then store its findings and its result   *)
(* late, under its own number.                                             *)
(***************************************************************************)
EXTENDS Integers

CONSTANTS Docs, NoDecision

VARIABLES
    state,      \* waiting, running, over
    attempt,    \* the number of the newest attempt
    kept,       \* the documents of the case
    reading,    \* the documents the attempt under way took, once it did
    findings,   \* of each document: the attempt that found something in it
    result,     \* the documents of the result, and its attempt
    decided,    \* the attempt whose result was decided on
    disturbed

vars == <<state, attempt, kept, reading, findings, result, decided, disturbed>>

Init ==
    /\ state = "waiting" /\ attempt = 0 /\ kept = {} /\ reading = {}
    /\ findings = [d \in Docs |-> 0] /\ result = [docs |-> {}, attempt |-> 0]
    /\ decided = NoDecision /\ disturbed = FALSE

-----------------------------------------------------------------------------
(* The attempt *)

Begin ==
    /\ state = "waiting" /\ reading = {}
    /\ state' = "running" /\ attempt' = attempt + 1
    /\ UNCHANGED <<kept, reading, findings, result, decided, disturbed>>

Take ==
    /\ state = "running" /\ reading = {}
    /\ reading' = {kept}
    /\ UNCHANGED <<state, attempt, kept, findings, result, decided, disturbed>>

Find ==
    /\ state = "running"
    /\ \E docs \in reading : \E d \in docs : findings' = [findings EXCEPT ![d] = attempt]
    /\ UNCHANGED <<state, attempt, kept, reading, result, decided, disturbed>>

Finish ==
    /\ state = "running" /\ state' = "over"
    /\ \E docs \in SUBSET Docs : /\ reading = {docs}
                                 /\ result' = [docs |-> docs, attempt |-> attempt]
    /\ reading' = {}
    /\ UNCHANGED <<attempt, kept, findings, decided, disturbed>>

Abandon ==
    /\ state = "running" /\ reading' = {}
    /\ UNCHANGED <<state, attempt, kept, findings, result, decided, disturbed>>

-----------------------------------------------------------------------------
(* Around it *)

\* A document that is kept again has nothing found in it.
Keep ==
    /\ \E new \in SUBSET Docs :
          /\ kept' = kept \cup new
          /\ findings' = [d \in Docs |-> IF d \in new THEN 0 ELSE findings[d]]
    /\ UNCHANGED <<state, attempt, reading, result, decided, disturbed>>

Decide ==
    /\ decided' = result.attempt
    /\ UNCHANGED <<state, attempt, kept, reading, findings, result, disturbed>>

\* Somebody queues the case again or resets it, the decision with it or not.
Requeue ==
    /\ state # "running" /\ state' = "waiting"
    /\ decided' \in {decided, NoDecision}
    /\ UNCHANGED <<attempt, kept, reading, findings, result, disturbed>>

Disturb ==
    /\ state = "running" /\ state' \in {"running", "waiting"}
    /\ disturbed' = TRUE /\ decided' \in {decided, NoDecision}
    /\ UNCHANGED <<attempt, kept, reading, findings, result>>

\* After that attempts may overlap, and a new one may begin before the last is over.
Overlap ==
    /\ disturbed /\ state' \in {"waiting", "running", "over"}
    /\ attempt' \in {attempt, attempt + 1} /\ reading' \in SUBSET SUBSET Docs
    /\ \/ findings' = findings
       \/ \E n \in 1..attempt, d \in Docs : findings' = [findings EXCEPT ![d] = n]
    /\ \/ result' = result
       \/ \E n \in 1..attempt, docs \in SUBSET Docs :
             result' = [docs |-> docs, attempt |-> n]
    /\ decided' \in {decided, NoDecision}
    /\ UNCHANGED <<kept, disturbed>>

Next ==
    \/ Begin \/ Take \/ Find \/ Finish \/ Abandon
    \/ Keep \/ Decide \/ Requeue \/ Disturb \/ Overlap

Spec == Init /\ [][Next]_vars

=============================================================================
