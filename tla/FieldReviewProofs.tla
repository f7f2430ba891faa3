-------------------------- MODULE FieldReviewProofs --------------------------
(***************************************************************************)
(* The types of FieldReview and its properties, for any number of fields,  *)
(* reviewers and workers.                                                  *)
(*                                                                         *)
(* Handlers write only while the case has the version they read.  Until    *)
(* then an edit holds all that was required and differs from the case in   *)
(* one field (EditInv), and a gate that was passed still stands unless the *)
(* evidence was replaced (GateInv).  An approval that was not waived is of *)
(* a case whose processing is over (ApprovalInv), and whoever starts it    *)
(* again clears the approval or waives it.                                 *)
(*                                                                         *)
(* An edit about to be saved is, as long as it can be, a decision made at  *)
(* once on the case as it is (SerialInv): so FieldReview implements        *)
(* ReviewContract, where reviewers take turns.                             *)
(***************************************************************************)
EXTENDS FieldReview, TLAPS

RecordOK(r) == r.resolved => \A s \in Roles : r.values[s] # None

ReviewsInv ==
    /\ \A f \in Fields : RecordOK(case.reviews[f])
    /\ \A h \in Handlers : \A f \in Fields : RecordOK(edit[h].reviews[f])

Current(h) == ver[h] = version

EditInv ==
    \A h \in Handlers : pc[h] = "save" /\ Current(h) =>
       /\ case.required \subseteq edit[h].required
       /\ \A f, g \in Fields :
             edit[h].reviews[f] # case.reviews[f] /\ edit[h].reviews[g] # case.reviews[g] => f = g

VersionInv == \A h \in Handlers : ver[h] <= version

\* Every field that needs a decision has one.
Gated ==
    \A f \in Fields :
       (InternalName(f) \in case.result.defects \/ f \in case.required
           \/ \E r \in Roles : docs[r][f] = None) => case.reviews[f].resolved

GateInv ==
    \A h \in Handlers : pc[h] = "approve" /\ Current(h) /\ case.state = "TERMINAL" /\ ~waived => Gated

ApprovalInv == case.decision = "APPROVE" /\ ~waived => case.state = "TERMINAL" /\ Gated

-----------------------------------------------------------------------------
(* Operators *)

LEMMA ValidateType ==
    ASSUME NEW d \in Extractions
    PROVE  ValidateDocuments(d) \in Results
<1> DEFINE defects == {InternalName(f) : f \in {g \in Fields : d["SI"][g] # d["BL"][g]}}
<1>1. defects \in SUBSET Names
  BY DEF Names
<1> HIDE DEF defects
<1> QED
  BY <1>1 DEF ValidateDocuments, Results, defects

LEMMA RequiredType ==
    ASSUME NEW c \in Cases, NEW reviews, NEW d
    PROVE  /\ RequiredFields(c, reviews, d) \in SUBSET Fields
           /\ c.required \cup Flagged(c, d) \subseteq RequiredFields(c, reviews, d)
BY DEF RequiredFields, Flagged, Reviewed, Cases

LEMMA VerdictType ==
    ASSUME NEW values \in [Roles -> Values], NEW role \in Roles, NEW r \in Verdicts(values, role)
    PROVE  r \in Records /\ RecordOK(r)
<1>1. Other(role) \in Roles /\ \A s \in Roles : s = role \/ s = Other(role)
  BY DEF Other, Roles
<1>2. CASE r = [decision |-> "readable", values |-> [values EXCEPT ![role] = "x"],
                resolved |-> values[Other(role)] # None]
  <2>1. [values EXCEPT ![role] = "x"] \in [Roles -> Values]
    BY DEF Values
  <2>2. (values[Other(role)] # None) \in BOOLEAN
    OBVIOUS
  <2>3. r \in Records
    BY <1>2, <2>1, <2>2 DEF Records
  <2>4. r.resolved => \A s \in Roles : r.values[s] # None
    BY <1>1, <1>2 DEF None
  <2> QED
    BY <2>3, <2>4 DEF RecordOK
<1>3. CASE r = [decision |-> "unreadable", values |-> [values EXCEPT ![role] = None],
                resolved |-> FALSE]
  <2>1. [values EXCEPT ![role] = None] \in [Roles -> Values]
    BY DEF Values
  <2> QED
    BY <1>3, <2>1 DEF Records, RecordOK
<1>4. CASE /\ None \notin {values["SI"], values["BL"]}
           /\ r = [decision |-> "readable", values |-> values, resolved |-> TRUE]
  BY <1>4 DEF Records, RecordOK, Roles
<1> QED
  BY <1>2, <1>3, <1>4 DEF Verdicts

LEMMA EmptyTypes ==
    /\ NoReview \in Records /\ RecordOK(NoReview) /\ NoResult \in Results
    /\ NoEdit \in [reviews : [Fields -> Records], required : SUBSET Fields]
    /\ Idle \in [pc : {"idle", "extract", "SI", "BL", "complete"}, found : Extractions,
                 result : Results]
<1>1. NoReview \in Records /\ RecordOK(NoReview)
  BY DEF NoReview, Records, RecordOK, Values
<1>2. NoResult \in Results
  BY DEF NoResult, Results
<1>3. [r \in Roles |-> NoFields] \in Extractions
  BY DEF NoFields, Extractions, Values
<1> QED
  BY <1>1, <1>2, <1>3 DEF NoEdit, Idle

-----------------------------------------------------------------------------
(* Types *)

EditType == [reviews : [Fields -> Records], required : SUBSET Fields]
WorkType == [pc : {"idle", "extract", "SI", "BL", "complete"}, found : Extractions, result : Results]

LEMMA NextType == TypeOK /\ [Next]_vars => TypeOK'
<1> SUFFICES ASSUME TypeOK, [Next]_vars PROVE TypeOK'
  OBVIOUS
<1>0. /\ version \in Nat /\ case \in Cases /\ docs \in Extractions
      /\ pc \in [Handlers -> {"idle", "evidence", "save", "gate", "approve"}]
      /\ ver \in [Handlers -> Nat] /\ edit \in [Handlers -> EditType]
      /\ work \in [Workers -> WorkType] /\ waived \in BOOLEAN
  BY DEF TypeOK, EditType, WorkType
<1>1. ASSUME NEW h \in Handlers, StartField(h) \/ StartApprove(h) \/ PassGate(h) PROVE TypeOK'
  BY <1>0, <1>1 DEF TypeOK, EditType, WorkType, StartField, StartApprove, ReadCase, PassGate, Step
<1>2. ASSUME NEW h \in Handlers, ReviewField(h) PROVE TypeOK'
  <2>1. PICK f \in Fields, role \in Roles :
           LET previous == case.reviews[f]
               values == IF previous = NoReview THEN [r \in Roles |-> docs[r][f]] ELSE previous.values
           IN  \E record \in Verdicts(values, role) :
                  LET reviews == [case.reviews EXCEPT ![f] = record]
                  IN  edit' = [edit EXCEPT ![h] = [reviews |-> reviews,
                                  required |-> RequiredFields(case, reviews, docs)]]
    BY <1>2 DEF ReviewField
  <2> DEFINE values == IF case.reviews[f] = NoReview THEN [r \in Roles |-> docs[r][f]]
                       ELSE case.reviews[f].values
  <2>2. PICK record \in Verdicts(values, role) :
           edit' = [edit EXCEPT ![h] = [reviews |-> [case.reviews EXCEPT ![f] = record],
                       required |-> RequiredFields(case, [case.reviews EXCEPT ![f] = record], docs)]]
    BY <2>1
  <2>3. values \in [Roles -> Values]
    BY <1>0 DEF Cases, Records, Extractions
  <2> HIDE DEF values
  <2>4. record \in Records
    BY <2>3, VerdictType
  <2> DEFINE reviews == [case.reviews EXCEPT ![f] = record]
  <2>5. reviews \in [Fields -> Records]
    BY <1>0, <2>4 DEF Cases
  <2>6. RequiredFields(case, reviews, docs) \in SUBSET Fields
    BY <1>0, RequiredType
  <2> HIDE DEF reviews
  <2>7. [reviews |-> reviews, required |-> RequiredFields(case, reviews, docs)] \in EditType
    BY <2>5, <2>6 DEF EditType
  <2>8. edit' \in [Handlers -> EditType]
    BY <1>0, <2>2, <2>7 DEF reviews
  <2> QED
    BY <1>0, <1>2, <2>8 DEF TypeOK, EditType, WorkType, ReviewField, Step
<1>3. ASSUME NEW h \in Handlers, SaveReview(h) \/ Approve(h) \/ Abandon(h) PROVE TypeOK'
  <2>1. /\ pc' \in [Handlers -> {"idle", "evidence", "save", "gate", "approve"}]
        /\ ver' \in [Handlers -> Nat] /\ edit' \in [Handlers -> EditType]
    <3>1. NoEdit \in EditType
      BY EmptyTypes DEF EditType
    <3>2. Return(h)
      BY <1>3 DEF SaveReview, Approve, Abandon
    <3> QED
      BY <1>0, <3>1, <3>2 DEF Return
  <2>2. case' \in Cases
    BY <1>0, <1>3 DEF SaveReview, Approve, Abandon, Cases, EditType
  <2>3. version' \in Nat
    BY <1>0, <1>3 DEF SaveReview, Approve, Abandon
  <2>4. waived' \in BOOLEAN
    BY <1>0, <1>3 DEF SaveReview, Approve, Abandon
  <2> QED
    BY <1>0, <1>3, <2>1, <2>2, <2>3, <2>4 DEF TypeOK, EditType, WorkType, SaveReview, Approve, Abandon
<1>4. ASSUME Decline \/ Retry \/ Requeue \/ ApproveElsewhere PROVE TypeOK'
  <2>1. case' \in Cases
    <3>1. CASE Retry
      <4>1. [f \in Fields |-> NoReview] \in [Fields -> Records]
        BY EmptyTypes
      <4> QED
        BY <1>0, <3>1, <4>1 DEF Retry, Cases
    <3>2. CASE Decline \/ Requeue \/ ApproveElsewhere
      BY <1>0, <3>2 DEF Decline, Requeue, ApproveElsewhere, Cases
    <3> QED
      BY <1>4, <3>1, <3>2
  <2>2. version' \in Nat
    BY <1>0, <1>4 DEF Decline, Retry, Requeue, ApproveElsewhere
  <2> QED
    BY <1>0, <1>4, <2>1, <2>2
    DEF TypeOK, EditType, WorkType, Decline, Retry, Requeue, ApproveElsewhere
<1>5. ASSUME NEW w \in Workers, Acquire(w) PROVE TypeOK'
  <2>1. case' \in Cases
    BY <1>0, <1>5 DEF Acquire, Cases
  <2>2. work' \in [Workers -> WorkType]
    BY <1>0, <1>5 DEF Acquire, WorkType
  <2> QED
    BY <1>0, <1>5, <2>1, <2>2 DEF TypeOK, EditType, WorkType, Acquire
<1>6. ASSUME NEW w \in Workers, ExtractPair(w) PROVE TypeOK'
  <2>1. PICK found \in Findings :
           work' = [work EXCEPT ![w] = [pc |-> "SI", found |-> found,
                                        result |-> ValidateDocuments(found)]]
    BY <1>6 DEF ExtractPair
  <2>2. found \in Extractions
    BY FindingsAssumption
  <2>3. ValidateDocuments(found) \in Results
    BY <2>2, ValidateType
  <2> QED
    BY <1>0, <1>6, <2>1, <2>2, <2>3 DEF TypeOK, EditType, WorkType, ExtractPair
<1>7. ASSUME NEW w \in Workers, ExtractNone(w) PROVE TypeOK'
  <2>1. PICK status \in {"OK", "NEEDS_REVIEW"} :
           work' = [work EXCEPT ![w].pc = "complete", ![w].result = [status |-> status, defects |-> {}]]
    BY <1>7 DEF ExtractNone
  <2>2. [status |-> status, defects |-> {}] \in Results
    BY DEF Results
  <2>3. work' \in [Workers -> WorkType]
    BY <1>0, <2>1, <2>2 DEF WorkType
  <2> QED
    BY <1>0, <1>7, <2>3 DEF TypeOK, EditType, WorkType, ExtractNone
<1>8. ASSUME NEW w \in Workers, StoreExtraction(w) PROVE TypeOK'
  <2>1. work' \in [Workers -> WorkType]
    BY <1>0, <1>8, EmptyTypes DEF StoreExtraction, WorkType
  <2>2. docs' \in Extractions
    BY <1>0, <1>8 DEF StoreExtraction, WorkType, Extractions
  <2>3. waived' \in BOOLEAN
    BY <1>0, <1>8 DEF StoreExtraction, Late
  <2> QED
    BY <1>0, <1>8, <2>1, <2>2, <2>3 DEF TypeOK, EditType, WorkType, StoreExtraction
<1>9. ASSUME NEW w \in Workers, Complete(w) \/ WorkerDies(w) PROVE TypeOK'
  <2>1. work' \in [Workers -> WorkType]
    BY <1>0, <1>9, EmptyTypes DEF Complete, WorkerDies, WorkType
  <2>2. case' \in Cases
    BY <1>0, <1>9 DEF Complete, WorkerDies, WorkType, Cases
  <2>3. version' \in Nat
    BY <1>0, <1>9 DEF Complete, WorkerDies
  <2>4. waived' \in BOOLEAN
    BY <1>0, <1>9 DEF Complete, WorkerDies, Late
  <2> QED
    BY <1>0, <1>9, <2>1, <2>2, <2>3, <2>4 DEF TypeOK, EditType, WorkType, Complete, WorkerDies
<1>10. ASSUME UNCHANGED vars PROVE TypeOK'
  BY <1>0, <1>10 DEF TypeOK, EditType, WorkType, vars
<1> QED
  BY <1>1, <1>2, <1>3, <1>4, <1>5, <1>6, <1>7, <1>8, <1>9, <1>10 DEF Next, Review, Process

LEMMA InitType == Init => TypeOK
<1> SUFFICES ASSUME Init PROVE TypeOK
  OBVIOUS
<1>1. docs \in Extractions /\ ValidateDocuments(docs) \in Results
  BY FindingsAssumption, ValidateType DEF Init
<1>2. case \in Cases
  BY <1>1, EmptyTypes DEF Init, NewCase, Cases
<1> QED
  BY <1>1, <1>2, EmptyTypes DEF Init, TypeOK

\* Every variable has its type.
THEOREM TypeCorrect == Spec => []TypeOK
BY InitType, NextType, PTL DEF Spec

-----------------------------------------------------------------------------
(* What reviewers are about to write *)

LEMMA NextReviews == TypeOK /\ ReviewsInv /\ [Next]_vars => ReviewsInv'
<1> SUFFICES ASSUME TypeOK, ReviewsInv, [Next]_vars PROVE ReviewsInv'
  OBVIOUS
<1>0. /\ case \in Cases /\ docs \in Extractions /\ edit \in [Handlers -> EditType]
  BY DEF TypeOK, EditType
<1>1. ASSUME NEW h \in Handlers, ReviewField(h) PROVE ReviewsInv'
  <2>1. PICK f \in Fields, role \in Roles :
           LET previous == case.reviews[f]
               values == IF previous = NoReview THEN [r \in Roles |-> docs[r][f]] ELSE previous.values
           IN  \E record \in Verdicts(values, role) :
                  LET reviews == [case.reviews EXCEPT ![f] = record]
                  IN  edit' = [edit EXCEPT ![h] = [reviews |-> reviews,
                                  required |-> RequiredFields(case, reviews, docs)]]
    BY <1>1 DEF ReviewField
  <2> DEFINE values == IF case.reviews[f] = NoReview THEN [r \in Roles |-> docs[r][f]]
                       ELSE case.reviews[f].values
  <2>2. PICK record \in Verdicts(values, role) :
           edit' = [edit EXCEPT ![h] = [reviews |-> [case.reviews EXCEPT ![f] = record],
                       required |-> RequiredFields(case, [case.reviews EXCEPT ![f] = record], docs)]]
    BY <2>1
  <2>3. values \in [Roles -> Values]
    BY <1>0 DEF Cases, Records, Extractions
  <2> HIDE DEF values
  <2>4. RecordOK(record)
    BY <2>3, VerdictType
  <2>5. edit'[h].reviews = [case.reviews EXCEPT ![f] = record]
    BY <1>0, <2>2
  <2>6. \A g \in Fields : edit'[h].reviews[g] = record \/ edit'[h].reviews[g] = case.reviews[g]
    BY <1>0, <2>5 DEF Cases
  <2>7. \A g \in Fields : RecordOK(edit'[h].reviews[g])
    BY <2>4, <2>6 DEF ReviewsInv
  <2>8. \A k \in Handlers \ {h} : edit'[k] = edit[k]
    BY <1>0, <2>2
  <2>9. case' = case
    BY <1>1 DEF ReviewField
  <2> QED
    BY <2>7, <2>8, <2>9 DEF ReviewsInv
<1>2. ASSUME NEW h \in Handlers, SaveReview(h) \/ Approve(h) \/ Abandon(h) PROVE ReviewsInv'
  <2>1. edit' = [edit EXCEPT ![h] = NoEdit]
    BY <1>2 DEF SaveReview, Approve, Abandon, Return
  <2>2. \A f \in Fields : NoEdit.reviews[f] = NoReview
    BY DEF NoEdit
  <2>3. \A k \in Handlers : \A f \in Fields : RecordOK(edit'[k].reviews[f])
    BY <1>0, <2>1, <2>2, EmptyTypes DEF ReviewsInv
  <2>4. case'.reviews = case.reviews \/ case'.reviews = edit[h].reviews
    BY <1>0, <1>2 DEF SaveReview, Approve, Abandon, Cases
  <2> QED
    BY <2>3, <2>4 DEF ReviewsInv
<1>3. ASSUME NEW h \in Handlers, StartField(h) \/ StartApprove(h) \/ PassGate(h) PROVE ReviewsInv'
  BY <1>3 DEF StartField, StartApprove, ReadCase, PassGate, ReviewsInv
<1>4. ASSUME Decline \/ Retry \/ Requeue \/ ApproveElsewhere PROVE ReviewsInv'
  <2>1. edit' = edit
    BY <1>4 DEF Decline, Retry, Requeue, ApproveElsewhere
  <2>2. case'.reviews = case.reviews \/ case'.reviews = [f \in Fields |-> NoReview]
    BY <1>0, <1>4 DEF Decline, Retry, Requeue, ApproveElsewhere, Cases
  <2> QED
    BY <2>1, <2>2, EmptyTypes DEF ReviewsInv
<1>5. ASSUME NEW w \in Workers, Process(w) PROVE ReviewsInv'
  <2>1. edit' = edit /\ case'.reviews = case.reviews
    BY <1>0, <1>5 DEF Process, Acquire, ExtractPair, ExtractNone, StoreExtraction, Complete,
                      WorkerDies, Cases
  <2> QED
    BY <2>1 DEF ReviewsInv
<1>6. ASSUME UNCHANGED vars PROVE ReviewsInv'
  BY <1>6 DEF vars, ReviewsInv
<1> QED
  BY <1>1, <1>2, <1>3, <1>4, <1>5, <1>6 DEF Next, Review

\* Whoever changes the case and its version leaves no handler with the new one.
LEMMA NextVersion == TypeOK /\ VersionInv /\ [Next]_vars => VersionInv'
<1> SUFFICES ASSUME TypeOK, VersionInv, [Next]_vars PROVE VersionInv'
  OBVIOUS
<1>0. version \in Nat /\ ver \in [Handlers -> Nat]
  BY DEF TypeOK
<1>1. version' = version \/ version' = version + 1
  BY DEF Next, vars, Review, Process, StartField, StartApprove, ReadCase, ReviewField, SaveReview,
         PassGate, Approve, Abandon, Decline, Retry, Requeue, ApproveElsewhere, Acquire,
         ExtractPair, ExtractNone, StoreExtraction, Complete, WorkerDies
<1>2. \A h \in Handlers : ver'[h] \in {ver[h], version, 0}
  BY <1>0 DEF Next, vars, Review, Process, StartField, StartApprove, ReadCase, ReviewField, SaveReview,
         PassGate, Approve, Abandon, Return, Decline, Retry, Requeue, ApproveElsewhere, Acquire,
         ExtractPair, ExtractNone, StoreExtraction, Complete, WorkerDies
<1>3. \A h \in Handlers : ver[h] <= version
  BY DEF VersionInv
<1> QED
  BY <1>0, <1>1, <1>2, <1>3 DEF VersionInv

\* A step that bumps the version leaves no handler current, except one that has returned.
LEMMA Bumped ==
    ASSUME TypeOK, VersionInv, version' = version + 1, NEW h \in Handlers,
           ver'[h] = ver[h] \/ pc'[h] = "idle"
    PROVE  ~(pc'[h] # "idle" /\ Current(h)')
BY DEF TypeOK, VersionInv, Current

LEMMA BumpingSteps ==
    ASSUME TypeOK, VersionInv, NEW h \in Handlers,
           \/ \E k \in Handlers : SaveReview(k) \/ Approve(k)
           \/ \E w \in Workers : Complete(w)
           \/ Decline \/ Retry \/ Requeue \/ ApproveElsewhere
    PROVE  ~(pc'[h] # "idle" /\ Current(h)')
<1>1. version' = version + 1
  BY DEF SaveReview, Approve, Complete, Decline, Retry, Requeue, ApproveElsewhere
<1>2. ver'[h] = ver[h] \/ pc'[h] = "idle"
  <2>0. pc \in [Handlers -> {"idle", "evidence", "save", "gate", "approve"}] /\ ver \in [Handlers -> Nat]
    BY DEF TypeOK
  <2>1. ASSUME NEW k \in Handlers, SaveReview(k) \/ Approve(k)
        PROVE  ver'[h] = ver[h] \/ pc'[h] = "idle"
    <3>1. Return(k)
      BY <2>1 DEF SaveReview, Approve
    <3> QED
      BY <2>0, <3>1 DEF Return
  <2>2. CASE (\E w \in Workers : Complete(w)) \/ Decline \/ Retry \/ Requeue \/ ApproveElsewhere
    BY <2>2 DEF Complete, Decline, Retry, Requeue, ApproveElsewhere
  <2> QED
    BY <2>1, <2>2
<1> QED
  BY <1>1, <1>2, Bumped

LEMMA NextEdit == TypeOK /\ VersionInv /\ EditInv /\ [Next]_vars => EditInv'
<1> SUFFICES ASSUME TypeOK, VersionInv, EditInv, [Next]_vars PROVE EditInv'
  OBVIOUS
<1>0. /\ case \in Cases /\ edit \in [Handlers -> EditType] /\ ver \in [Handlers -> Nat]
      /\ pc \in [Handlers -> {"idle", "evidence", "save", "gate", "approve"}]
  BY DEF TypeOK, EditType
<1>1. ASSUME NEW h \in Handlers, ReviewField(h) PROVE EditInv'
  <2>0. PICK f \in Fields : \E record :
           edit' = [edit EXCEPT ![h] = [reviews |-> [case.reviews EXCEPT ![f] = record],
                       required |-> RequiredFields(case, [case.reviews EXCEPT ![f] = record], docs)]]
    BY <1>1 DEF ReviewField
  <2>1. PICK record :
           edit' = [edit EXCEPT ![h] = [reviews |-> [case.reviews EXCEPT ![f] = record],
                       required |-> RequiredFields(case, [case.reviews EXCEPT ![f] = record], docs)]]
    BY <2>0
  <2> DEFINE reviews == [case.reviews EXCEPT ![f] = record]
  <2>2. case.required \subseteq RequiredFields(case, reviews, docs)
    BY <1>0, RequiredType
  <2>3. edit'[h].reviews = reviews /\ edit'[h].required = RequiredFields(case, reviews, docs)
    BY <1>0, <2>1
  <2>4. \A g \in Fields : reviews[g] # case.reviews[g] => g = f
    BY <1>0 DEF Cases
  <2> HIDE DEF reviews
  <2>5. \A k \in Handlers \ {h} : edit'[k] = edit[k] /\ pc'[k] = pc[k]
    BY <1>0, <1>1, <2>1 DEF ReviewField, Step
  <2>6. UNCHANGED <<version, case, ver>>
    BY <1>1 DEF ReviewField
  <2> QED
    BY <2>2, <2>3, <2>4, <2>5, <2>6 DEF EditInv, Current
<1>2. ASSUME NEW h \in Handlers, StartField(h) \/ StartApprove(h) PROVE EditInv'
  <2>1. pc'[h] # "save" /\ UNCHANGED <<version, case, edit>>
    BY <1>0, <1>2 DEF StartField, StartApprove, ReadCase, Step
  <2>2. \A k \in Handlers \ {h} : pc'[k] = pc[k] /\ ver'[k] = ver[k]
    BY <1>0, <1>2 DEF StartField, StartApprove, ReadCase, Step
  <2> QED
    BY <2>1, <2>2 DEF EditInv, Current
<1>3. ASSUME NEW h \in Handlers, PassGate(h) \/ Abandon(h) PROVE EditInv'
  <2>1. pc'[h] # "save" /\ UNCHANGED <<version, case>>
    BY <1>0, <1>3 DEF PassGate, Abandon, Return, Step
  <2>2. \A k \in Handlers \ {h} : pc'[k] = pc[k] /\ ver'[k] = ver[k] /\ edit'[k] = edit[k]
    BY <1>0, <1>3 DEF PassGate, Abandon, Return, Step
  <2> QED
    BY <2>1, <2>2 DEF EditInv, Current
<1>4. ASSUME \/ \E k \in Handlers : SaveReview(k) \/ Approve(k)
             \/ \E w \in Workers : Complete(w)
             \/ Decline \/ Retry \/ Requeue \/ ApproveElsewhere
      PROVE  EditInv'
  <2>1. \A h \in Handlers : ~(pc'[h] # "idle" /\ Current(h)')
    BY <1>4, BumpingSteps
  <2> QED
    BY <2>1 DEF EditInv
<1>5. ASSUME NEW w \in Workers,
             Acquire(w) \/ ExtractPair(w) \/ ExtractNone(w) \/ StoreExtraction(w) \/ WorkerDies(w)
      PROVE  EditInv'
  <2>1. /\ case'.reviews = case.reviews /\ case'.required = case.required
        /\ UNCHANGED <<version, pc, ver, edit>>
    BY <1>0, <1>5 DEF Acquire, ExtractPair, ExtractNone, StoreExtraction, WorkerDies, Cases
  <2> QED
    BY <2>1 DEF EditInv, Current
<1>6. ASSUME UNCHANGED vars PROVE EditInv'
  BY <1>6 DEF vars, EditInv, Current
<1> QED
  BY <1>1, <1>2, <1>3, <1>4, <1>5, <1>6 DEF Next, Review, Process

\* What passes the gate has nothing left to resolve.
LEMMA NextGate == TypeOK /\ VersionInv /\ GateInv /\ [Next]_vars => GateInv'
<1> SUFFICES ASSUME TypeOK, VersionInv, GateInv, [Next]_vars PROVE GateInv'
  OBVIOUS
<1>0. /\ case \in Cases /\ docs \in Extractions /\ ver \in [Handlers -> Nat]
      /\ pc \in [Handlers -> {"idle", "evidence", "save", "gate", "approve"}]
  BY DEF TypeOK
<1>1. ASSUME NEW h \in Handlers, PassGate(h) PROVE GateInv'
  <2>1. Unresolved(case, docs) = {}
    BY <1>1 DEF PassGate
  <2>2. Gated
    BY <1>0, <2>1, RequiredType DEF Unresolved, Gated, Flagged, Matches
  <2>3. UNCHANGED <<case, docs>>
    BY <1>1 DEF PassGate
  <2> QED
    BY <2>2, <2>3 DEF GateInv, Gated
<1>2. ASSUME NEW h \in Handlers,
             StartField(h) \/ StartApprove(h) \/ ReviewField(h) \/ Abandon(h)
      PROVE  GateInv'
  <2>1. pc'[h] # "approve" /\ UNCHANGED <<version, case, docs, waived>>
    BY <1>0, <1>2 DEF StartField, StartApprove, ReadCase, ReviewField, Abandon, Return, Step
  <2>2. \A k \in Handlers \ {h} : pc'[k] = pc[k] /\ ver'[k] = ver[k]
    BY <1>0, <1>2 DEF StartField, StartApprove, ReadCase, ReviewField, Abandon, Return, Step
  <2> QED
    BY <2>1, <2>2 DEF GateInv, Gated, Current
<1>3. ASSUME \/ \E k \in Handlers : SaveReview(k) \/ Approve(k)
             \/ \E w \in Workers : Complete(w)
             \/ Decline \/ Retry \/ Requeue \/ ApproveElsewhere
      PROVE  GateInv'
  <2>1. \A h \in Handlers : ~(pc'[h] # "idle" /\ Current(h)')
    BY <1>3, BumpingSteps
  <2> QED
    BY <2>1 DEF GateInv
<1>4. ASSUME NEW w \in Workers, Acquire(w) \/ StoreExtraction(w) PROVE GateInv'
  <2>1. case'.state # "TERMINAL" \/ waived'
    BY <1>0, <1>4 DEF Acquire, StoreExtraction, Late, Cases
  <2> QED
    BY <2>1 DEF GateInv
<1>5. ASSUME NEW w \in Workers, ExtractPair(w) \/ ExtractNone(w) \/ WorkerDies(w) PROVE GateInv'
  BY <1>5 DEF ExtractPair, ExtractNone, WorkerDies, GateInv, Gated, Current
<1>6. ASSUME UNCHANGED vars PROVE GateInv'
  BY <1>6 DEF vars, GateInv, Gated, Current
<1> QED
  BY <1>1, <1>2, <1>3, <1>4, <1>5, <1>6 DEF Next, Review, Process

LEMMA NextApproval == TypeOK /\ GateInv /\ ApprovalInv /\ [Next]_vars => ApprovalInv'
<1> SUFFICES ASSUME TypeOK, GateInv, ApprovalInv, [Next]_vars PROVE ApprovalInv'
  OBVIOUS
<1>0. case \in Cases
  BY DEF TypeOK
<1>1. ASSUME NEW h \in Handlers, Approve(h) PROVE ApprovalInv'
  <2>1. /\ pc[h] = "approve" /\ Current(h) /\ docs' = docs
        /\ waived' = (waived \/ case.state # "TERMINAL")
    BY <1>1 DEF Approve, Current
  <2>2. /\ case'.state = case.state /\ case'.result = case.result
        /\ case'.required = case.required /\ case'.reviews = case.reviews
    BY <1>0, <1>1 DEF Approve, Cases
  <2>3. ~waived' => case.state = "TERMINAL" /\ Gated
    BY <2>1 DEF GateInv
  <2> QED
    BY <2>1, <2>2, <2>3 DEF ApprovalInv, Gated
<1>2. ASSUME (\E h \in Handlers : SaveReview(h)) \/ Decline \/ Retry PROVE ApprovalInv'
  <2>1. case'.decision # "APPROVE"
    BY <1>0, <1>2 DEF SaveReview, Decline, Retry, Cases, None
  <2> QED
    BY <2>1 DEF ApprovalInv
<1>3. ASSUME Requeue \/ ApproveElsewhere PROVE ApprovalInv'
  BY <1>3 DEF Requeue, ApproveElsewhere, ApprovalInv
<1>4. ASSUME NEW h \in Handlers,
             StartField(h) \/ StartApprove(h) \/ ReviewField(h) \/ PassGate(h) \/ Abandon(h)
      PROVE  ApprovalInv'
  BY <1>4 DEF StartField, StartApprove, ReadCase, ReviewField, PassGate, Abandon, ApprovalInv, Gated
<1>5. ASSUME NEW w \in Workers, Acquire(w) PROVE ApprovalInv'
  <2>1. case.state # "TERMINAL" /\ case'.decision = case.decision /\ waived' = waived
    BY <1>0, <1>5 DEF Acquire, Cases
  <2> QED
    BY <2>1 DEF ApprovalInv
<1>6. ASSUME NEW w \in Workers, StoreExtraction(w) \/ Complete(w) PROVE ApprovalInv'
  <2>1. case'.decision = case.decision /\ waived' = Late
    BY <1>0, <1>6 DEF StoreExtraction, Complete, Cases
  <2> QED
    BY <2>1 DEF ApprovalInv, Late
<1>7. ASSUME NEW w \in Workers, ExtractPair(w) \/ ExtractNone(w) \/ WorkerDies(w) PROVE ApprovalInv'
  BY <1>7 DEF ExtractPair, ExtractNone, WorkerDies, ApprovalInv, Gated
<1>8. ASSUME UNCHANGED vars PROVE ApprovalInv'
  BY <1>8 DEF vars, ApprovalInv, Gated
<1> QED
  BY <1>1, <1>2, <1>3, <1>4, <1>5, <1>6, <1>7, <1>8 DEF Next, Review, Process

-----------------------------------------------------------------------------
(* The properties *)

LEMMA InitInv == Init => ReviewsInv /\ VersionInv /\ EditInv /\ GateInv /\ ApprovalInv
<1> SUFFICES ASSUME Init PROVE ReviewsInv /\ VersionInv /\ EditInv /\ GateInv /\ ApprovalInv
  OBVIOUS
<1>1. case.decision = None /\ case.reviews = [f \in Fields |-> NoReview]
  BY DEF Init, NewCase
<1>2. \A h \in Handlers : pc[h] = "idle" /\ ver[h] = 0 /\ edit[h] = NoEdit
  BY DEF Init
<1>3. ReviewsInv
  BY <1>1, <1>2, EmptyTypes DEF ReviewsInv, NoEdit
<1>4. VersionInv
  BY <1>2 DEF Init, VersionInv
<1>5. EditInv /\ GateInv
  BY <1>2 DEF EditInv, GateInv
<1>6. ApprovalInv
  BY <1>1 DEF ApprovalInv, None
<1> QED
  BY <1>3, <1>4, <1>5, <1>6

\* A field is resolved only while both sides have a value: a save stores what
\* ReviewField computed from the values it found.
THEOREM ResolvedHolds == Spec => []ResolvedHasBothValues
<1>1. ReviewsInv => ResolvedHasBothValues
  BY DEF ReviewsInv, RecordOK, ResolvedHasBothValues
<1> QED
  BY <1>1, InitType, NextType, InitInv, NextReviews, PTL DEF Spec

\* An approval through the gate leaves nothing unresolved for as long as nobody replaces
\* its evidence.
THEOREM ApprovalHolds == Spec => []ApprovalStands
<1>1. ApprovalInv => ApprovalStands
  BY DEF ApprovalInv, Gated, ApprovalStands
<1> QED
  BY <1>1, InitType, NextType, InitInv, NextVersion, NextGate, NextApproval, PTL DEF Spec

LEMMA StepKeepsIssues ==
    TypeOK /\ EditInv /\ [Next]_vars =>
        \/ case.required \subseteq case'.required
        \/ case'.required = {} /\ Reviewed(case'.reviews) = {}
<1> SUFFICES ASSUME TypeOK, EditInv, [Next]_vars
             PROVE  \/ case.required \subseteq case'.required
                    \/ case'.required = {} /\ Reviewed(case'.reviews) = {}
  OBVIOUS
<1>0. case \in Cases
  BY DEF TypeOK
<1>1. ASSUME NEW h \in Handlers, SaveReview(h) PROVE case.required \subseteq case'.required
  BY <1>0, <1>1 DEF SaveReview, Cases, EditInv, Current
<1>2. CASE Retry
  BY <1>0, <1>2 DEF Retry, Cases, Reviewed
<1>3. CASE \/ \E h \in Handlers : StartField(h) \/ StartApprove(h) \/ ReviewField(h)
                                  \/ PassGate(h) \/ Approve(h) \/ Abandon(h)
           \/ \E w \in Workers : Process(w)
           \/ Decline \/ Requeue \/ ApproveElsewhere \/ UNCHANGED vars
  <2>1. case'.required = case.required
    BY <1>0, <1>3 DEF StartField, StartApprove, ReadCase, ReviewField, PassGate, Approve, Abandon,
       Process, Acquire, ExtractPair, ExtractNone, StoreExtraction, Complete, WorkerDies,
       Decline, Requeue, ApproveElsewhere, vars, Cases
  <2> QED
    BY <2>1
<1> QED
  BY <1>1, <1>2, <1>3 DEF Next, Review

\* No field stops being required before a retry drops every decision.
THEOREM IssuesHold == Spec => IssuesKept
<1>1. TypeOK /\ EditInv /\ [Next]_vars
        => [\/ case.required \subseteq case'.required
            \/ case'.required = {} /\ Reviewed(case'.reviews) = {}]_vars
  BY StepKeepsIssues
<1> QED
  BY <1>1, InitType, NextType, InitInv, NextVersion, NextEdit, PTL DEF Spec, IssuesKept

LEMMA StepEditsOneField ==
    TypeOK /\ EditInv /\ [Next]_vars =>
        \/ \A f, g \in Fields : case'.reviews[f] # case.reviews[f] /\ case'.reviews[g] # case.reviews[g]
                                 => f = g
        \/ Reviewed(case'.reviews) = {}
<1> SUFFICES ASSUME TypeOK, EditInv, [Next]_vars
             PROVE  \/ \A f, g \in Fields :
                          case'.reviews[f] # case.reviews[f] /\ case'.reviews[g] # case.reviews[g]
                             => f = g
                    \/ Reviewed(case'.reviews) = {}
  OBVIOUS
<1>0. case \in Cases
  BY DEF TypeOK
<1>1. ASSUME NEW h \in Handlers, SaveReview(h)
      PROVE  \A f, g \in Fields :
                case'.reviews[f] # case.reviews[f] /\ case'.reviews[g] # case.reviews[g] => f = g
  <2>1. case'.reviews = edit[h].reviews /\ pc[h] = "save" /\ Current(h)
    BY <1>0, <1>1 DEF SaveReview, Cases, Current
  <2> QED
    BY <2>1 DEF EditInv
<1>2. CASE Retry
  BY <1>0, <1>2 DEF Retry, Cases, Reviewed
<1>3. CASE \/ \E h \in Handlers : StartField(h) \/ StartApprove(h) \/ ReviewField(h)
                                  \/ PassGate(h) \/ Approve(h) \/ Abandon(h)
           \/ \E w \in Workers : Process(w)
           \/ Decline \/ Requeue \/ ApproveElsewhere \/ UNCHANGED vars
  <2>1. case'.reviews = case.reviews
    BY <1>0, <1>3 DEF StartField, StartApprove, ReadCase, ReviewField, PassGate, Approve, Abandon,
       Process, Acquire, ExtractPair, ExtractNone, StoreExtraction, Complete, WorkerDies,
       Decline, Requeue, ApproveElsewhere, vars, Cases
  <2> QED
    BY <2>1
<1> QED
  BY <1>1, <1>2, <1>3 DEF Next, Review

\* Two reviewers never undo each other's decisions on different fields.
THEOREM OneFieldHolds == Spec => OneFieldPerSave
<1>1. TypeOK /\ EditInv /\ [Next]_vars
        => [\/ \A f, g \in Fields :
                  case'.reviews[f] # case.reviews[f] /\ case'.reviews[g] # case.reviews[g] => f = g
            \/ Reviewed(case'.reviews) = {}]_vars
  BY StepEditsOneField
<1> QED
  BY <1>1, InitType, NextType, InitInv, NextVersion, NextEdit, PTL DEF Spec, OneFieldPerSave
-----------------------------------------------------------------------------
(* Refinement: reviewers take turns *)

\* What saving an edit of field f would do now is what a reviewer could do now.
Settles(f, e) ==
    /\ \E held \in Contract!Held(f), side \in Roles, value \in Values :
          LET values == [held EXCEPT ![side] = value]
          IN  e.reviews = [case.reviews EXCEPT
                  ![f] = IF value = None THEN Contract!Unread(values) ELSE Contract!Record(values)]
    /\ case.required \cup {f} \subseteq e.required /\ e.required \subseteq Fields
    /\ waived \/ Contract!Needed \subseteq e.required

SerialInv ==
    \A h \in Handlers : Current(h) =>
       /\ pc[h] \in {"evidence", "save"} => case.state = "TERMINAL" /\ case.decision = None
       /\ pc[h] = "save" => \E f \in Fields : Settles(f, edit[h])

\* What a reviewer says of a side is a value of that side, or that it has none.
LEMMA VerdictValue ==
    ASSUME NEW values \in [Roles -> Values], NEW role \in Roles, NEW r \in Verdicts(values, role)
    PROVE  \E value \in Values :
              r = IF value = None THEN Contract!Unread([values EXCEPT ![role] = value])
                  ELSE Contract!Record([values EXCEPT ![role] = value])
<1>1. Other(role) \in Roles /\ Other(role) # role /\ \A s \in Roles : s = role \/ s = Other(role)
  BY DEF Other, Roles
<1>2. {"x", None} \subseteq Values /\ "x" # None
  BY DEF Values, None
<1>3. CASE r = [decision |-> "readable", values |-> [values EXCEPT ![role] = "x"],
                resolved |-> values[Other(role)] # None]
  <2> DEFINE new == [values EXCEPT ![role] = "x"]
  <2>1. (\A s \in Roles : new[s] # None) <=> values[Other(role)] # None
    BY <1>1, <1>2
  <2>2. (\A s \in Roles : new[s] # None) = (values[Other(role)] # None)
    BY <2>1
  <2>3. r = Contract!Record(new)
    BY <1>3, <2>2 DEF Contract!Record
  <2> QED
    BY <1>2, <2>3
<1>4. CASE r = [decision |-> "unreadable", values |-> [values EXCEPT ![role] = None],
                resolved |-> FALSE]
  <2> DEFINE new == [values EXCEPT ![role] = None]
  <2>1. (\A s \in Roles : new[s] # None) = FALSE
    BY <1>1
  <2>2. r = Contract!Unread(new)
    BY <1>4, <2>1 DEF Contract!Record, Contract!Unread
  <2> QED
    BY <1>2, <2>2
<1>5. CASE /\ None \notin {values["SI"], values["BL"]}
           /\ r = [decision |-> "readable", values |-> values, resolved |-> TRUE]
  <2>1. [values EXCEPT ![role] = values[role]] = values /\ values[role] \in Values
    OBVIOUS
  <2>2. values[role] # None /\ (\A s \in Roles : values[s] # None) = TRUE
    BY <1>5 DEF Roles
  <2>3. r = Contract!Record(values)
    BY <1>5, <2>2 DEF Contract!Record
  <2> QED
    BY <2>1, <2>2, <2>3
<1> QED
  BY <1>3, <1>4, <1>5 DEF Verdicts

LEMMA SameReview == NoReview = Contract!NoReview
BY DEF NoReview, Contract!NoReview

\* What a handler computes from the case and the documents it finds settles a field.
LEMMA ReviewSettles ==
    ASSUME TypeOK, NEW h \in Handlers, ReviewField(h)
    PROVE  \E f \in Fields : Settles(f, edit[h])'
<1>0. case \in Cases /\ docs \in Extractions /\ edit \in [Handlers -> EditType]
  BY DEF TypeOK, EditType
<1>1. PICK f \in Fields, role \in Roles :
         LET previous == case.reviews[f]
             values == IF previous = NoReview THEN [r \in Roles |-> docs[r][f]] ELSE previous.values
         IN  \E record \in Verdicts(values, role) :
                LET reviews == [case.reviews EXCEPT ![f] = record]
                IN  edit' = [edit EXCEPT ![h] = [reviews |-> reviews,
                                required |-> RequiredFields(case, reviews, docs)]]
  BY DEF ReviewField
<1> DEFINE values == IF case.reviews[f] = NoReview THEN [r \in Roles |-> docs[r][f]]
                     ELSE case.reviews[f].values
<1>2. PICK record \in Verdicts(values, role) :
         edit' = [edit EXCEPT ![h] = [reviews |-> [case.reviews EXCEPT ![f] = record],
                     required |-> RequiredFields(case, [case.reviews EXCEPT ![f] = record], docs)]]
  BY <1>1
<1>3. values \in [Roles -> Values]
  BY <1>0 DEF Cases, Records, Extractions
<1>u. UNCHANGED <<case, docs, waived>>
  BY DEF ReviewField
<1>4. values \in Contract!Held(f)'
  BY <1>3, <1>u, SameReview DEF Contract!Held
<1> HIDE DEF values
<1>5. PICK value \in Values :
         record = IF value = None THEN Contract!Unread([values EXCEPT ![role] = value])
                  ELSE Contract!Record([values EXCEPT ![role] = value])
  BY <1>3, VerdictValue
<1> DEFINE reviews == [case.reviews EXCEPT ![f] = record]
           required == RequiredFields(case, reviews, docs)
<1>6. edit'[h].reviews = reviews /\ edit'[h].required = required
  BY <1>0, <1>2
<1>7. f \in required
  <2>1. reviews[f] # NoReview
    <3>1. record.decision # None
      BY <1>5 DEF Contract!Unread, Contract!Record, None
    <3>2. reviews[f] = record
      BY <1>0 DEF Cases
    <3> QED
      BY <3>1, <3>2 DEF NoReview
  <2> HIDE DEF reviews
  <2> QED
    BY <2>1 DEF RequiredFields, Reviewed
<1>8. case.required \cup Flagged(case, docs) \subseteq required /\ required \subseteq Fields
  BY <1>0, RequiredType
<1>9. Contract!Needed' \subseteq Flagged(case, docs)
  BY <1>u DEF Contract!Needed, Flagged, Matches
<1> HIDE DEF required
<1>10. \E held \in Contract!Held(f)', side \in Roles, v \in Values :
          LET new == [held EXCEPT ![side] = v]
          IN  edit'[h].reviews = [case'.reviews EXCEPT
                  ![f] = IF v = None THEN Contract!Unread(new) ELSE Contract!Record(new)]
  BY <1>4, <1>5, <1>6, <1>u
<1>11. /\ case'.required \cup {f} \subseteq edit'[h].required /\ edit'[h].required \subseteq Fields
       /\ Contract!Needed' \subseteq edit'[h].required
  BY <1>6, <1>7, <1>8, <1>9, <1>u
<1>12. Settles(f, edit[h])'
  BY <1>10, <1>11 DEF Settles
<1> QED
  BY <1>12

\* An edit that settled a field still does while the case stays, unless its evidence is
\* replaced, which waives it.
LEMMA KeptSettles ==
    ASSUME TypeOK, NEW h \in Handlers, NEW f \in Fields, Settles(f, edit[h]),
           edit'[h] = edit[h], case' = case, waived' \/ UNCHANGED <<docs, waived>>
    PROVE  Settles(f, edit[h])'
<1>1. case \in Cases /\ docs \in Extractions
  BY DEF TypeOK
<1>2. PICK held \in Contract!Held(f) : \E side \in Roles, value \in Values :
         LET values == [held EXCEPT ![side] = value]
         IN  edit[h].reviews = [case.reviews EXCEPT
                 ![f] = IF value = None THEN Contract!Unread(values) ELSE Contract!Record(values)]
  BY DEF Settles
<1>3. held \in Contract!Held(f)'
  <2>1. CASE UNCHANGED <<docs, waived>>
    BY <1>2, <2>1 DEF Contract!Held
  <2>2. CASE waived'
    <3>1. held \in [Roles -> Values]
      BY <1>1, <1>2 DEF Contract!Held, Cases, Records, Extractions
    <3> QED
      BY <1>2, <2>2, <3>1 DEF Contract!Held
  <2> QED
    BY <2>1, <2>2
<1>4. waived' \/ Contract!Needed' \subseteq edit'[h].required
  BY DEF Settles, Contract!Needed
<1>5. case'.required \cup {f} \subseteq edit'[h].required /\ edit'[h].required \subseteq Fields
  BY DEF Settles
<1>6. \E side \in Roles, value \in Values :
         LET values == [held EXCEPT ![side] = value]
         IN  edit'[h].reviews = [case'.reviews EXCEPT
                 ![f] = IF value = None THEN Contract!Unread(values) ELSE Contract!Record(values)]
  BY <1>2
<1> QED
  BY <1>3, <1>4, <1>5, <1>6 DEF Settles

LEMMA NextSerial == TypeOK /\ VersionInv /\ SerialInv /\ [Next]_vars => SerialInv'
<1> SUFFICES ASSUME TypeOK, VersionInv, SerialInv, [Next]_vars PROVE SerialInv'
  OBVIOUS
<1>0. /\ case \in Cases /\ edit \in [Handlers -> EditType] /\ ver \in [Handlers -> Nat]
      /\ pc \in [Handlers -> {"idle", "evidence", "save", "gate", "approve"}]
  BY DEF TypeOK, EditType
\* A handler that holds the case's version keeps what it knows.
<1>a. ASSUME NEW k \in Handlers, Current(k)', pc'[k] = pc[k], ver'[k] = ver[k], edit'[k] = edit[k],
             version' = version, case' = case, waived' \/ UNCHANGED <<docs, waived>>
      PROVE  /\ pc'[k] \in {"evidence", "save"} => case'.state = "TERMINAL" /\ case'.decision = None
             /\ pc'[k] = "save" => \E f \in Fields : Settles(f, edit[k])'
  <2>1. Current(k)
    BY <1>a DEF Current
  <2>2. ASSUME pc[k] = "save" PROVE \E f \in Fields : Settles(f, edit[k])'
    <3>1. PICK f \in Fields : Settles(f, edit[k])
      BY <2>1, <2>2 DEF SerialInv
    <3>2. Settles(f, edit[k])'
      BY <1>a, <3>1, KeptSettles
    <3> QED
      BY <3>2
  <2> QED
    BY <1>a, <2>1, <2>2 DEF SerialInv
<1>1. ASSUME NEW h \in Handlers, ReviewField(h) PROVE SerialInv'
  <2>1. \A k \in Handlers \ {h} : pc'[k] = pc[k] /\ edit'[k] = edit[k]
    BY <1>0, <1>1 DEF ReviewField, Step
  <2>2. UNCHANGED <<version, case, docs, ver, waived>> /\ pc[h] = "evidence" /\ Current(h)
    BY <1>1 DEF ReviewField, Step, Current
  <2>3. \E f \in Fields : Settles(f, edit[h])'
    BY <1>1, ReviewSettles
  <2>4. case'.state = "TERMINAL" /\ case'.decision = None
    BY <2>2 DEF SerialInv
  <2> QED
    BY <1>a, <2>1, <2>2, <2>3, <2>4 DEF SerialInv
<1>2. ASSUME NEW h \in Handlers, StartField(h) \/ StartApprove(h) PROVE SerialInv'
  <2>1. /\ \A k \in Handlers \ {h} : pc'[k] = pc[k] /\ ver'[k] = ver[k]
        /\ UNCHANGED <<version, case, docs, edit, waived>>
    BY <1>0, <1>2 DEF StartField, StartApprove, ReadCase, Step
  <2>2. \/ pc'[h] = "gate"
        \/ pc'[h] = "evidence" /\ case.state = "TERMINAL" /\ case.decision = None
    BY <1>0, <1>2 DEF StartField, StartApprove, ReadCase, Step
  <2> QED
    BY <1>a, <2>1, <2>2 DEF SerialInv
<1>3. ASSUME NEW h \in Handlers, PassGate(h) \/ Abandon(h) PROVE SerialInv'
  <2>1. /\ \A k \in Handlers \ {h} : pc'[k] = pc[k] /\ ver'[k] = ver[k] /\ edit'[k] = edit[k]
        /\ UNCHANGED <<version, case, docs, waived>> /\ pc'[h] \in {"approve", "idle"}
    BY <1>0, <1>3 DEF PassGate, Abandon, Return, Step
  <2> QED
    BY <1>a, <2>1 DEF SerialInv
<1>4. ASSUME \/ \E k \in Handlers : SaveReview(k) \/ Approve(k)
             \/ \E w \in Workers : Complete(w)
             \/ Decline \/ Retry \/ Requeue \/ ApproveElsewhere
      PROVE  SerialInv'
  <2>1. \A h \in Handlers : ~(pc'[h] # "idle" /\ Current(h)')
    BY <1>4, BumpingSteps
  <2> QED
    BY <2>1 DEF SerialInv
<1>5. ASSUME NEW w \in Workers, Acquire(w) PROVE SerialInv'
  <2>1. case.state # "TERMINAL" /\ UNCHANGED <<version, pc, ver>>
    BY <1>5 DEF Acquire
  <2> QED
    BY <2>1 DEF SerialInv, Current
<1>6. ASSUME NEW w \in Workers, StoreExtraction(w) PROVE SerialInv'
  <2>1. UNCHANGED <<version, case, pc, ver, edit>> /\ waived' = Late
    BY <1>6 DEF StoreExtraction
  <2>2. CASE case.state = "TERMINAL"
    BY <1>a, <2>1, <2>2 DEF SerialInv, Late
  <2>3. CASE case.state # "TERMINAL"
    BY <2>1, <2>3 DEF SerialInv, Current
  <2> QED
    BY <2>2, <2>3
<1>7. ASSUME NEW w \in Workers, ExtractPair(w) \/ ExtractNone(w) \/ WorkerDies(w) PROVE SerialInv'
  <2>1. UNCHANGED <<version, case, docs, pc, ver, edit, waived>>
    BY <1>7 DEF ExtractPair, ExtractNone, WorkerDies
  <2> QED
    BY <1>a, <2>1 DEF SerialInv
<1>8. ASSUME UNCHANGED vars PROVE SerialInv'
  BY <1>a, <1>8 DEF vars, SerialInv
<1> QED
  BY <1>1, <1>2, <1>3, <1>4, <1>5, <1>6, <1>7, <1>8 DEF Next, Review, Process

LEMMA ContractInit == Init => Contract!Init
<1> SUFFICES ASSUME Init PROVE Contract!Init
  OBVIOUS
<1>1. docs \in Extractions /\ case.state = "TERMINAL" /\ waived = FALSE
  BY FindingsAssumption DEF Init, NewCase
<1>2. case.required = {} /\ case.decision = None /\ case.reviews = [f \in Fields |-> NoReview]
  BY DEF Init, NewCase
<1>3. docs \in [Roles -> [Fields -> Values]]
  BY <1>1 DEF Extractions
<1> QED
  BY <1>1, <1>2, <1>3, SameReview DEF Contract!Init, Contract!NoReviews

\* A step of the case that the contract does not see.
LEMMA Stutter ==
    ASSUME case' = case, docs' = docs, waived' = waived
    PROVE  UNCHANGED Contract!vars
BY DEF Contract!vars

LEMMA StepImplements ==
    TypeOK /\ GateInv /\ SerialInv /\ [Next]_vars => [Contract!Next]_(Contract!vars)
<1> SUFFICES ASSUME TypeOK, GateInv, SerialInv, [Next]_vars
             PROVE  Contract!Next \/ UNCHANGED Contract!vars
  OBVIOUS
<1>0. /\ case \in Cases /\ docs \in Extractions /\ waived \in BOOLEAN
      /\ work \in [Workers -> WorkType] /\ edit \in [Handlers -> EditType]
  BY DEF TypeOK, WorkType, EditType
<1>1. ASSUME NEW h \in Handlers, SaveReview(h) PROVE Contract!Next
  <2>1. PICK f \in Fields : Settles(f, edit[h])
    BY <1>1 DEF SerialInv, SaveReview, Current
  <2>2. case.state = "TERMINAL" /\ case.decision = None
    BY <1>1 DEF SerialInv, SaveReview, Current
  <2>3. /\ case'.state = case.state /\ case'.result = case.result /\ case'.decision = None
        /\ case'.reviews = edit[h].reviews /\ case'.required = edit[h].required
        /\ docs' = docs /\ waived' = waived
    BY <1>0, <1>1 DEF SaveReview, Cases
  <2>4. Contract!Settle(f)
    BY <2>1, <2>2, <2>3 DEF Settles, Contract!Settle
  <2> QED
    BY <2>4 DEF Contract!Next
<1>2. ASSUME NEW h \in Handlers, Approve(h) PROVE Contract!Next
  <2>1. /\ case'.state = case.state /\ case'.result = case.result /\ case'.decision = "APPROVE"
        /\ case'.reviews = case.reviews /\ case'.required = case.required
        /\ docs' = docs /\ waived' = (waived \/ case.state # "TERMINAL")
    BY <1>0, <1>2 DEF Approve, Cases
  <2>2. case.state = "TERMINAL" /\ ~waived => Gated
    BY <1>2 DEF GateInv, Approve, Current
  <2>3. Gated => \A f \in Contract!Needed \cup case.required : case.reviews[f].resolved
    BY <1>0 DEF Gated, Contract!Needed, Cases
  <2>4. Contract!Approve
    BY <2>1, <2>2, <2>3 DEF Contract!Approve
  <2> QED
    BY <2>4 DEF Contract!Next
<1>3. CASE Decline
  <2>1. /\ case'.state = case.state /\ case'.result = case.result /\ case'.decision = "DECLINE"
        /\ case'.reviews = case.reviews /\ case'.required = case.required
        /\ docs' = docs /\ waived' = waived
    BY <1>0, <1>3 DEF Decline, Cases
  <2> QED
    BY <2>1 DEF Contract!Next, Contract!Decline
<1>4. CASE Retry
  <2>1. /\ case'.state = "QUEUED" /\ case'.result = case.result /\ case'.decision = None
        /\ case'.reviews = [f \in Fields |-> NoReview] /\ case'.required = {}
        /\ docs' = docs /\ waived' = FALSE
    BY <1>0, <1>4 DEF Retry, Cases
  <2> QED
    BY <2>1, SameReview DEF Contract!Next, Contract!Restart, Contract!NoReviews
<1>5. CASE Requeue
  <2>1. /\ case'.state = "QUEUED" /\ case'.result = case.result /\ case'.decision = case.decision
        /\ case'.reviews = case.reviews /\ case'.required = case.required
        /\ docs' = docs /\ waived' = TRUE
    BY <1>0, <1>5 DEF Requeue, Cases
  <2> QED
    BY <2>1 DEF Contract!Next, Contract!Reopen
<1>6. CASE ApproveElsewhere
  <2>1. /\ case'.state = case.state /\ case'.result = case.result /\ case'.decision = "APPROVE"
        /\ case'.reviews = case.reviews /\ case'.required = case.required
        /\ docs' = docs /\ waived' = TRUE
    BY <1>0, <1>6 DEF ApproveElsewhere, Cases
  <2> QED
    BY <2>1 DEF Contract!Next, Contract!Approve
<1>7. ASSUME NEW w \in Workers, Acquire(w) PROVE UNCHANGED Contract!vars
  <2>1. /\ case.state # "TERMINAL" /\ case'.state # "TERMINAL" /\ case'.result = case.result
        /\ case'.decision = case.decision /\ case'.reviews = case.reviews
        /\ case'.required = case.required /\ docs' = docs /\ waived' = waived
    BY <1>0, <1>7 DEF Acquire, Cases
  <2> QED
    BY <2>1 DEF Contract!vars
<1>8. ASSUME NEW w \in Workers, StoreExtraction(w) PROVE Contract!Next
  <2>1. case' = case /\ waived' = (waived \/ case.state = "TERMINAL")
    BY <1>8 DEF StoreExtraction, Late
  <2>2. PICK s \in Roles : docs' = [docs EXCEPT ![s] = work[w].found[s]]
    BY <1>8 DEF StoreExtraction
  <2>3. docs' \in [Roles -> [Fields -> Values]] /\ \A t \in Roles \ {s} : docs'[t] = docs[t]
    <3>1. work[w].found[s] \in [Fields -> Values] /\ docs \in [Roles -> [Fields -> Values]]
      BY <1>0 DEF WorkType, Extractions
    <3> QED
      BY <2>2, <3>1
  <2>4. Contract!Replace
    BY <2>1, <2>3 DEF Contract!Replace
  <2> QED
    BY <2>4 DEF Contract!Next
<1>9. ASSUME NEW w \in Workers, Complete(w) PROVE Contract!Next
  <2>1. /\ case'.state = "TERMINAL" /\ case'.decision = case.decision
        /\ case'.reviews = case.reviews /\ case'.required = case.required
        /\ docs' = docs /\ waived' = (waived \/ case.state = "TERMINAL")
    BY <1>0, <1>9 DEF Complete, Late, Cases
  <2> QED
    BY <2>1 DEF Contract!Next, Contract!Finish
<1>10. CASE \/ \E h \in Handlers : StartField(h) \/ StartApprove(h) \/ ReviewField(h)
                                   \/ PassGate(h) \/ Abandon(h)
            \/ \E w \in Workers : ExtractPair(w) \/ ExtractNone(w) \/ WorkerDies(w)
            \/ UNCHANGED vars
  <2>1. case' = case /\ docs' = docs /\ waived' = waived
    BY <1>10 DEF StartField, StartApprove, ReadCase, ReviewField, PassGate, Abandon,
                 ExtractPair, ExtractNone, WorkerDies, vars
  <2> QED
    BY <2>1, Stutter
<1> QED
  BY <1>1, <1>2, <1>3, <1>4, <1>5, <1>6, <1>7, <1>8, <1>9, <1>10 DEF Next, Review, Process

\* Whatever reviewers, workers and retries do at once, reviewers who take turns could have
\* left the same reviews, and could have approved.
THEOREM ReviewImplemented == Spec => ImplementsReviewContract
<1>1. Init => TypeOK /\ VersionInv /\ GateInv /\ SerialInv /\ Contract!Init
  <2>1. Init => SerialInv
    BY DEF Init, SerialInv
  <2> QED
    BY <2>1, InitType, InitInv, ContractInit
<1> QED
  BY <1>1, NextType, NextVersion, NextGate, NextSerial, StepImplements, PTL
  DEF Spec, ImplementsReviewContract, Contract!Spec

=============================================================================
