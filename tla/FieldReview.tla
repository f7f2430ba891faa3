----------------------------- MODULE FieldReview -----------------------------
(***************************************************************************)
(* The review of a compared case: the worker stores what it extracted from *)
(* the shipping instruction (SI) and the bill of lading (BL) and a result; *)
(* reviewers confirm, correct or give up single fields; a case may be      *)
(* approved once every field that needs a decision has one.                *)
(*                                                                         *)
(* Extractions are kept in the documents, everything else in the case, and *)
(* only the case has a version.  Each action is one Firestore call; a      *)
(* handler is a request of the dashboard or a press of the approve button. *)
(* A field's value is a mark; the history of reviews only grows and is     *)
(* left out, as are confidences, which the classifying worker never sets.  *)
(***************************************************************************)
EXTENDS Integers

CONSTANTS
    Fields,       \* the compared fields, by the names the API uses
    Findings,     \* what extracting a pair of documents may find
    Handlers,     \* requests of reviewers
    Workers,      \* deliveries of the processing task
    MaxUpdates    \* bound on the updates of the case

Roles == {"SI", "BL"}
Other(role) == IF role = "SI" THEN "BL" ELSE "SI"

None == "none"
Values == {None, "x", "y"}
Extractions == [Roles -> [Fields -> Values]]

ASSUME FindingsAssumption == Findings \subseteq Extractions

ASSUME UpdatesAssumption == MaxUpdates \in Nat

VARIABLES
    version,
    case,    \* processing_state, result, required_review_fields, field_reviews, review_decision
    docs,    \* the extraction stored with each document
    \* reviewers
    pc, ver,
    edit,    \* the field reviews a handler is about to save, and the fields they leave required
    \* workers
    work,    \* what a worker found and still has to store
    \* history
    waived   \* the case may be approved, or its evidence replaced, without the gate

vars == <<version, case, docs, pc, ver, edit, work, waived>>

NoFields == [f \in Fields |-> None]
NoReview == [decision |-> None, values |-> [r \in Roles |-> None], resolved |-> FALSE]
NoResult == [status |-> None, defects |-> {}]
NoEdit == [reviews |-> [f \in Fields |-> NoReview], required |-> {}]
Idle == [pc |-> "idle", found |-> [r \in Roles |-> NoFields], result |-> NoResult]

NewCase == [state |-> "QUEUED", result |-> NoResult, required |-> {},
            reviews |-> [f \in Fields |-> NoReview], decision |-> None]

-----------------------------------------------------------------------------
(* What is shown and what is required *)

\* The weight is named with its unit in extractions and results, and without it here.
InternalName(f) == IF f = "gross_weight" THEN "gross_weight_kg" ELSE f

\* Slip: differing fields are listed by the API's names.
ValidateByApiName(d) ==
    LET defects == {g \in Fields : d["SI"][g] # d["BL"][g]}
    IN  IF \E f \in Fields, r \in Roles : d[r][f] = None
        THEN [status |-> "NEEDS_REVIEW", defects |-> {}]
        ELSE [status |-> IF defects = {} THEN "OK" ELSE "MISMATCH", defects |-> defects]

\* Comparing extractions: a missing value outweighs every difference.
ValidateDocuments(d) ==
    LET defects == {InternalName(f) : f \in {g \in Fields : d["SI"][g] # d["BL"][g]}}
    IN  IF \E f \in Fields, r \in Roles : d[r][f] = None
        THEN [status |-> "NEEDS_REVIEW", defects |-> {}]
        ELSE [status |-> IF defects = {} THEN "OK" ELSE "MISMATCH", defects |-> defects]

Matches(f, c) == InternalName(f) \notin c.result.defects

Reviewed(reviews) == {f \in Fields : reviews[f] # NoReview}

Flagged(c, d) == {f \in Fields : ~Matches(f, c) \/ \E r \in Roles : d[r][f] = None}

\* Slip: the fields required so far are not looked at.
RequiredAnew(c, reviews, d) ==
    LET known == Flagged(c, d)
    IN  (IF known = {} /\ c.result.status = "NEEDS_REVIEW" THEN Fields ELSE known) \cup Reviewed(reviews)

\* required_review_fields: earlier issues stay, all fields are required for want of any.
RequiredFields(c, reviews, d) ==
    LET known == c.required \cup Flagged(c, d)
    IN  (IF known = {} /\ c.result.status = "NEEDS_REVIEW" THEN Fields ELSE known) \cup Reviewed(reviews)

Unresolved(c, d) == {f \in RequiredFields(c, c.reviews, d) : ~c.reviews[f].resolved}

\* A case that was compared once.
Init ==
    /\ version = 0
    /\ docs \in Findings
    /\ case = [NewCase EXCEPT !.state = "TERMINAL", !.result = ValidateDocuments(docs)]
    /\ pc = [h \in Handlers |-> "idle"] /\ ver = [h \in Handlers |-> 0]
    /\ edit = [h \in Handlers |-> NoEdit]
    /\ work = [w \in Workers |-> Idle]
    /\ waived = FALSE

-----------------------------------------------------------------------------
(* Reviewers *)

Step(h, from, to) == pc[h] = from /\ pc' = [pc EXCEPT ![h] = to]

Return(h) ==
    /\ pc' = [pc EXCEPT ![h] = "idle"] /\ ver' = [ver EXCEPT ![h] = 0]
    /\ edit' = [edit EXCEPT ![h] = NoEdit]

\* A request that carries another version than the case has by now is refused, at the
\* latest by its write, and changes nothing: only the others are followed, and what they
\* read is still the case.
ReadCase(h, to) ==
    /\ version < MaxUpdates /\ Step(h, "idle", to)
    /\ ver' = [ver EXCEPT ![h] = version]
    /\ UNCHANGED <<version, case, docs, edit, work, waived>>

\* review_field: processing is over and nothing is decided.
StartField(h) == case.state = "TERMINAL" /\ case.decision = None /\ ReadCase(h, "evidence")

\* review with APPROVE, and the approve button: whatever the processing state.
StartApprove(h) == ReadCase(h, "gate")

\* Slip: a readable verdict on one side resolves the field.
VerdictsOneSided(values, role) ==
    {[decision |-> "readable", values |-> [values EXCEPT ![role] = "x"], resolved |-> TRUE],
     [decision |-> "unreadable", values |-> [values EXCEPT ![role] = None], resolved |-> FALSE]}
    \cup (IF None \in {values["SI"], values["BL"]} THEN {}
          ELSE {[decision |-> "readable", values |-> values, resolved |-> TRUE]})

\* What a reviewer may say of one side of a field, given the values held so far.
Verdicts(values, role) ==
    {[decision |-> "readable", values |-> [values EXCEPT ![role] = "x"],
      resolved |-> values[Other(role)] # None],
     [decision |-> "unreadable", values |-> [values EXCEPT ![role] = None], resolved |-> FALSE]}
    \cup (IF None \in {values["SI"], values["BL"]} THEN {}
          ELSE {[decision |-> "readable", values |-> values, resolved |-> TRUE]})

\* field_review_changes: the documents are read after the case.
ReviewField(h) ==
    /\ version = ver[h] /\ Step(h, "evidence", "save")
    /\ \E f \in Fields, role \in Roles :
          LET previous == case.reviews[f]
              values == IF previous = NoReview THEN [r \in Roles |-> docs[r][f]] ELSE previous.values
          IN  \E record \in Verdicts(values, role) :
                 LET reviews == [case.reviews EXCEPT ![f] = record]
                 IN  edit' = [edit EXCEPT ![h] = [reviews |-> reviews,
                                 required |-> RequiredFields(case, reviews, docs)]]
    /\ UNCHANGED <<version, case, docs, ver, work, waived>>

\* Slip: the review is written whatever the version.
SaveReviewUnversioned(h) ==
    /\ pc[h] = "save" /\ version < MaxUpdates
    /\ case' = [case EXCEPT !.reviews = edit[h].reviews, !.required = edit[h].required,
                            !.decision = None]
    /\ version' = version + 1 /\ Return(h) /\ UNCHANGED <<docs, work, waived>>

SaveReview(h) ==
    /\ version = ver[h] /\ pc[h] = "save" /\ version < MaxUpdates
    /\ case' = [case EXCEPT !.reviews = edit[h].reviews, !.required = edit[h].required,
                            !.decision = None]
    /\ version' = version + 1 /\ Return(h) /\ UNCHANGED <<docs, work, waived>>

\* The gate: the documents are read after the case, and nothing is left to resolve.
PassGate(h) ==
    /\ version = ver[h] /\ Unresolved(case, docs) = {} /\ Step(h, "gate", "approve")
    /\ UNCHANGED <<version, case, docs, ver, edit, work, waived>>

\* Slip: the approval is written whatever the version.
ApproveUnversioned(h) ==
    /\ pc[h] = "approve" /\ version < MaxUpdates
    /\ case' = [case EXCEPT !.decision = "APPROVE"] /\ version' = version + 1
    /\ waived' = (waived \/ case.state # "TERMINAL")
    /\ Return(h) /\ UNCHANGED <<docs, work>>

Approve(h) ==
    /\ version = ver[h] /\ pc[h] = "approve" /\ version < MaxUpdates
    /\ case' = [case EXCEPT !.decision = "APPROVE"] /\ version' = version + 1
    /\ waived' = (waived \/ case.state # "TERMINAL")
    /\ Return(h) /\ UNCHANGED <<docs, work>>

\* The other decision of review asks for nothing but the version.
Decline ==
    /\ version < MaxUpdates /\ version' = version + 1
    /\ case' = [case EXCEPT !.decision = "DECLINE"]
    /\ UNCHANGED <<docs, pc, ver, edit, work, waived>>

\* Conflicts, states that refuse a review, unresolved fields, and clients that leave.
Abandon(h) ==
    /\ pc[h] # "idle" /\ Return(h)
    /\ UNCHANGED <<version, case, docs, work, waived>>

-----------------------------------------------------------------------------
(* Other updates of the case *)

\* The decisions on an earlier extraction are cleared with the case's decision.
Retry ==
    /\ version < MaxUpdates /\ version' = version + 1
    /\ case' = [case EXCEPT !.state = "QUEUED", !.required = {}, !.decision = None,
                            !.reviews = [f \in Fields |-> NoReview]]
    /\ waived' = FALSE
    /\ UNCHANGED <<docs, pc, ver, edit, work>>

\* /submit, and a document appended in Telegram, queue the case as it is.
Requeue ==
    /\ version < MaxUpdates /\ version' = version + 1
    /\ case' = [case EXCEPT !.state = "QUEUED"] /\ waived' = TRUE
    /\ UNCHANGED <<docs, pc, ver, edit, work>>

\* approve_si and complete_category_case decide without the gate.
ApproveElsewhere ==
    /\ version < MaxUpdates /\ version' = version + 1
    /\ case' = [case EXCEPT !.decision = "APPROVE"] /\ waived' = TRUE
    /\ UNCHANGED <<docs, pc, ver, edit, work>>

-----------------------------------------------------------------------------
(* Workers *)

\* A queued case, or one whose lease ran out; the version stays.
Acquire(w) ==
    /\ version < MaxUpdates /\ work[w].pc = "idle" /\ case.state \in {"QUEUED", "PROCESSING"}
    /\ case' = [case EXCEPT !.state = "PROCESSING"]
    /\ work' = [work EXCEPT ![w].pc = "extract"]
    /\ UNCHANGED <<version, docs, pc, ver, edit, waived>>

\* Both documents were read.
ExtractPair(w) ==
    /\ work[w].pc = "extract"
    /\ \E found \in Findings :
          work' = [work EXCEPT ![w] = [pc |-> "SI", found |-> found, result |-> ValidateDocuments(found)]]
    /\ UNCHANGED <<version, case, docs, pc, ver, edit, waived>>

\* No pair was read (missing, unreadable or doubtful), or none was called for.
ExtractNone(w) ==
    /\ work[w].pc = "extract"
    /\ \E status \in {"OK", "NEEDS_REVIEW"} :
          work' = [work EXCEPT ![w].pc = "complete", ![w].result = [status |-> status, defects |-> {}]]
    /\ UNCHANGED <<version, case, docs, pc, ver, edit, waived>>

\* A worker whose lease ran out may store its findings on a completed case.
Late == waived \/ case.state = "TERMINAL"

StoreExtraction(w) ==
    /\ work[w].pc \in Roles
    /\ docs' = [docs EXCEPT ![work[w].pc] = work[w].found[work[w].pc]]
    /\ work' = [work EXCEPT ![w] = IF work[w].pc = "SI" THEN [work[w] EXCEPT !.pc = "BL"]
                                   ELSE [Idle EXCEPT !.pc = "complete", !.result = work[w].result]]
    /\ waived' = Late
    /\ UNCHANGED <<version, case, pc, ver, edit>>

Complete(w) ==
    /\ work[w].pc = "complete" /\ version < MaxUpdates
    /\ case' = [case EXCEPT !.state = "TERMINAL", !.result = work[w].result]
    /\ version' = version + 1 /\ waived' = Late
    /\ work' = [work EXCEPT ![w] = Idle]
    /\ UNCHANGED <<docs, pc, ver, edit>>

WorkerDies(w) ==
    /\ work[w].pc # "idle" /\ work' = [work EXCEPT ![w] = Idle]
    /\ UNCHANGED <<version, case, docs, pc, ver, edit, waived>>

-----------------------------------------------------------------------------
Review(h) ==
    \/ StartField(h) \/ StartApprove(h) \/ ReviewField(h) \/ SaveReview(h)
    \/ PassGate(h) \/ Approve(h) \/ Abandon(h)

Process(w) ==
    \/ Acquire(w) \/ ExtractPair(w) \/ ExtractNone(w) \/ StoreExtraction(w)
    \/ Complete(w) \/ WorkerDies(w)

Next ==
    \/ \E h \in Handlers : Review(h)
    \/ \E w \in Workers : Process(w)
    \/ Decline \/ Retry \/ Requeue \/ ApproveElsewhere

Spec == Init /\ [][Next]_vars

-----------------------------------------------------------------------------
(* Properties *)

Records == [decision : {None, "readable", "unreadable"},
            values : [Roles -> Values], resolved : BOOLEAN]
Names == {InternalName(f) : f \in Fields}
Results == [status : {None, "OK", "MISMATCH", "NEEDS_REVIEW"}, defects : SUBSET Names]
Cases == [state : {"QUEUED", "PROCESSING", "TERMINAL"}, result : Results,
          required : SUBSET Fields, reviews : [Fields -> Records],
          decision : {None, "APPROVE", "DECLINE"}]

\* Every variable has its type.
TypeOK ==
    /\ version \in Nat /\ case \in Cases /\ docs \in Extractions
    /\ pc \in [Handlers -> {"idle", "evidence", "save", "gate", "approve"}]
    /\ ver \in [Handlers -> Nat]
    /\ edit \in [Handlers -> [reviews : [Fields -> Records], required : SUBSET Fields]]
    /\ work \in [Workers -> [pc : {"idle", "extract", "SI", "BL", "complete"},
                             found : Extractions, result : Results]]
    /\ waived \in BOOLEAN

\* A field counts as resolved only while both its sides have a value, whatever the
\* reviewers said of either side before.
ResolvedHasBothValues ==
    \A f \in Fields : case.reviews[f].resolved =>
        \A r \in Roles : case.reviews[f].values[r] # None

\* A case that was approved through the gate, on evidence nobody has replaced since, has
\* a resolved review of every field that differs, has no value on a side or was required
\* before: no reviewer and no retry slips in between, and no name is mistaken.
ApprovalStands ==
    case.decision = "APPROVE" /\ case.state = "TERMINAL" /\ ~waived =>
        \A f \in Fields :
            (InternalName(f) \in case.result.defects \/ f \in case.required
                \/ \E r \in Roles : docs[r][f] = None) => case.reviews[f].resolved

\* A field that needed a decision needs one until a retry drops the decisions too,
\* whatever is extracted anew: views.py:247, "Keep the original issues visible".
IssuesKept ==
    [][\/ case.required \subseteq case'.required
       \/ case'.required = {} /\ Reviewed(case'.reviews) = {}]_vars

\* An update of the case touches the decision on one field, or retries them all: two
\* reviewers of different fields never undo each other's decision.
OneFieldPerSave ==
    [][\/ \A f, g \in Fields : case'.reviews[f] # case.reviews[f] /\ case'.reviews[g] # case.reviews[g]
                                 => f = g
       \/ Reviewed(case'.reviews) = {}]_vars

-----------------------------------------------------------------------------
(* Refinement: the case and its documents, as the reviewers see them *)

Contract == INSTANCE ReviewContract WITH
    Sides <- Roles,
    over <- case.state = "TERMINAL",
    evidence <- docs,
    differing <- {f \in Fields : InternalName(f) \in case.result.defects},
    required <- case.required,
    reviews <- case.reviews,
    decision <- case.decision

\* Requests that overlap with each other, with workers and with retries leave the reviews
\* that reviewers taking turns could leave: each starts from the values held when it is
\* saved, and an approval through the gate finds nothing open when it is saved.
ImplementsReviewContract == Contract!Spec

-----------------------------------------------------------------------------
(* What the documentation says, and the code does not do *)

\* README.md:101, "Final approval ... is blocked while required fields remain unresolved."
ApprovedIsResolved ==
    case.decision = "APPROVE" /\ case.state = "TERMINAL" => Unresolved(case, docs) = {}

=============================================================================
