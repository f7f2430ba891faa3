---------------------------- MODULE TriageProofs ----------------------------
(***************************************************************************)
(* What Triage promises for any mail, classification and extraction, and   *)
(* any set of fields.                                                      *)
(***************************************************************************)
EXTENDS Triage, NaturalsInduction, WellFoundedInduction, TLAPS

-----------------------------------------------------------------------------
(* First and last *)

LEMMA HasLeast ==
    ASSUME NEW S \in SUBSET Nat, S # {}
    PROVE  \E x \in S : \A y \in S : x <= y
<1>1. PICK x \in S : \A y \in S : <<y, x>> \notin OpToRel(<, Nat)
  BY NatLessThanWellFounded, WFMin
<1>2. \A y \in S : <<y, x>> \in OpToRel(<, Nat) <=> y < x
  BY <1>1 DEF OpToRel
<1>3. \A y \in S : ~(y < x)
  BY <1>1, <1>2
<1>4. x \in Nat /\ \A y \in S : y \in Nat
  OBVIOUS
<1> QED
  BY <1>3, <1>4

LEMMA MinIn ==
    ASSUME NEW S \in SUBSET Nat, S # {}
    PROVE  Min(S) \in S /\ \A y \in S : Min(S) <= y
BY HasLeast DEF Min

LEMMA MaxIn ==
    ASSUME NEW n \in Nat, NEW S \in SUBSET (1..n), S # {}
    PROVE  Max(S) \in S /\ \A y \in S : Max(S) >= y
<1> DEFINE T == {n - i : i \in S}
<1>1. T \in SUBSET Nat /\ T # {}
  <2>1. \A i \in S : n - i \in Nat
    OBVIOUS
  <2> QED
    BY <2>1
<1>2. PICK x \in T : \A y \in T : x <= y
  BY <1>1, HasLeast
<1>3. PICK j \in S : x = n - j
  BY <1>2
<1>4. \A i \in S : n - j <= n - i
  BY <1>2, <1>3
<1>5. \A i \in S : j >= i
  BY <1>4
<1> QED
  BY <1>3, <1>5 DEF Max

-----------------------------------------------------------------------------
(* Types *)

Results == [status : {None, "OK", "MISMATCH", "NEEDS_REVIEW"}, defects : SUBSET Fields,
            reason : {None, "UNREADABLE", "LOW_CONFIDENCE", "MISSING_ATTACHMENT",
                      "WRONG_DOC_TYPE", "MISSING_VALUE"}]

LEMMA Outcomes ==
    /\ NoResult \in Results /\ Okay \in Results
    /\ Okay.status = "OK" /\ Okay.defects = {} /\ NoResult.status = None
    /\ \A reason \in {"UNREADABLE", "LOW_CONFIDENCE", "MISSING_ATTACHMENT", "WRONG_DOC_TYPE",
                       "MISSING_VALUE"} :
          NeedsReview(reason) \in Results
    /\ \A reason : NeedsReview(reason).status = "NEEDS_REVIEW"
BY DEF NoResult, Okay, NeedsReview, Results, None

LEMMA ComparisonTypes ==
    ASSUME NEW si, NEW bl
    PROVE  ValidateDocuments(si, bl) \in Results /\ CompareDocuments(si, bl) \in Results
<1>1. ASSUME NEW defects \in SUBSET Fields
      PROVE  [status |-> "MISMATCH", reason |-> None, defects |-> defects] \in Results
  BY DEF Results
<1> QED
  BY <1>1, Outcomes DEF ValidateDocuments, CompareDocuments

LEMMA ConcludeType ==
    ASSUME TypeOK, NEW res \in Results, Conclude(res)
    PROVE  result' \in Results /\ pc' = "conclude"
BY DEF Conclude

LEMMA NoAnswerType ==
    /\ NoAnswer.category = None /\ NoAnswer.sure = FALSE /\ NoAnswer.listed = <<>>
    /\ \A c : /\ [NoAnswer EXCEPT !.category = c].category = c
              /\ [NoAnswer EXCEPT !.category = c].sure = FALSE
              /\ [NoAnswer EXCEPT !.category = c].listed = <<>>
BY DEF NoAnswer

LEMMA InitType == Init => TypeOK
<1> SUFFICES ASSUME Init PROVE TypeOK
  OBVIOUS
<1>1. found \in [Roles -> Document \cup {Nothing}]
  BY DEF Init
<1>2. 0 \in 0..2
  OBVIOUS
<1> QED
  BY <1>1, <1>2, Outcomes, NoAnswerType DEF Init, TypeOK, Results

LEMMA StepType ==
    ASSUME TypeOK, [Next]_vars
    PROVE  TypeOK'
<1>0. result \in Results /\ found \in [Roles -> Document \cup {Nothing}]
  BY DEF TypeOK, Results
<1>1. CASE Answer
  BY <1>1 DEF Answer, TypeOK
<1>2. CASE FallBack \/ Announce
  BY <1>2 DEF FallBack, Announce, TypeOK
<1>3. CASE RoutingFails
  <2>1. result' \in Results /\ pc' = "conclude"
    BY <1>3, Outcomes DEF RoutingFails, Conclude
  <2>2. answer'.category \in Categories /\ answer'.sure \in BOOLEAN /\ answer'.listed = <<>>
    BY <1>3, NoAnswerType DEF RoutingFails, HeuristicCategories
  <2> QED
    BY <1>3, <2>1, <2>2 DEF RoutingFails, TypeOK, Results
<1>4. CASE NoComparison \/ CompareListed \/ ComparePair
  <2>1. result' \in Results /\ pc' = "conclude"
    BY <1>4, Outcomes, ComparisonTypes DEF NoComparison, CompareListed, ComparePair, Conclude
  <2> QED
    BY <1>4, <2>1 DEF NoComparison, CompareListed, ComparePair, TypeOK, Results
<1>5. CASE ReadPair
  <2>1. result' \in Results /\ pc' \in {"conclude", "SI"}
    BY <1>0, <1>5, Outcomes DEF ReadPair, Conclude, TypeOK
  <2> QED
    BY <1>5, <2>1 DEF ReadPair, TypeOK, Results
<1>6. CASE AttemptAgain
  <2>1. attempt' \in 0..2
    BY <1>6 DEF AttemptAgain, TypeOK
  <2> QED
    BY <1>6, <2>1 DEF AttemptAgain, TypeOK
<1>7. 0 \in 0..2
  OBVIOUS
<1>8. CASE ServiceFails
  BY <1>7, <1>8, NoAnswerType DEF ServiceFails, TypeOK
<1>9. CASE InvalidData
  <2>1. result' \in Results /\ pc' = "conclude"
    BY <1>9, Outcomes DEF InvalidData, Conclude
  <2> QED
    BY <1>9, <2>1 DEF InvalidData, TypeOK, Results
<1>10. CASE Extract
  <2>1. found' \in [Roles -> Document \cup {Nothing}]
    BY <1>0, <1>10 DEF Extract
  <2> QED
    BY <1>7, <1>10, <2>1 DEF Extract, TypeOK
<1>11. CASE UNCHANGED vars
  BY <1>11 DEF vars, TypeOK
<1> QED
  BY <1>1, <1>2, <1>3, <1>4, <1>5, <1>6, <1>8, <1>9, <1>10, <1>11 DEF Next, Done

\* The classification, the documents and the result of a case have the forms of their
\* schemas, and at most three attempts are made for a document.
THEOREM TypeCorrect == Spec => []TypeOK
BY InitType, StepType, PTL DEF Spec

-----------------------------------------------------------------------------
(* Evidence *)

\* An attachment is routed to a role, and its title does not say that it is another.
Titled(r) == \E j \in DOMAIN mail : RoutedTo(r, j) /\ mail[j].shows \in {r, "UNKNOWN"}

\* What holds on the way to the result, by where the attempt is.
EvidenceInv ==
    /\ pc \in {"ask", "decide", "SI", "BL", "compare"} => result = NoResult
    /\ pc = "decide" /\ mode = "pair" => answer.listed \in Routings
    /\ pc \in {"SI", "BL", "compare"} =>
          /\ mode = "pair" /\ answer.sure
          /\ \A r \in Roles : Titled(r)
    /\ pc \in {"ask", "decide", "SI"} => \A r \in Roles : found[r] = Nothing
    /\ pc = "BL" => found["SI"] # Nothing /\ found["BL"] = Nothing
    /\ pc = "compare" => \A r \in Roles : found[r] # Nothing

LEMMA DocumentIsSomething == \A d \in Document : d # Nothing
<1>1. \A d \in Document : DOMAIN d = Fields
  BY DEF Document
<1>2. DOMAIN Nothing = {}
  BY DEF Nothing
<1> QED
  BY <1>1, <1>2, FieldAssumption

\* What a role's document shows is what the attachment routed to it shows.
LEMMA ShowsRouted ==
    ASSUME TypeOK, answer.listed \in Routings, NEW r \in Roles, Routed(r) # {}
    PROVE  \E j \in DOMAIN mail : RoutedTo(r, j) /\ mail[j].shows = Shows(r)
<1>1. /\ Len(mail) \in Nat /\ DOMAIN mail = 1..Len(mail)
      /\ DOMAIN answer.listed \in SUBSET Nat
  BY MailAssumption DEF TypeOK
<1> DEFINE i == Min(Routed(r))
           name == answer.listed[i].name
           j == Max(Named(name))
<1>2. i \in Routed(r) /\ \A k \in Routed(r) : i <= k
  <2>1. Routed(r) \in SUBSET Nat
    BY <1>1 DEF Routed
  <2> QED
    BY <2>1, MinIn
<1>3. Named(name) # {} /\ Named(name) \in SUBSET (1..Len(mail))
  BY <1>1, <1>2 DEF Routed, Named
<1>4. j \in Named(name) /\ \A n \in Named(name) : j >= n
  <2> HIDE DEF name
  <2> QED
    BY <1>1, <1>3, MaxIn
<1>5. Shows(r) = mail[j].shows
  BY DEF Shows
<1> HIDE DEF i, j
<1>6. i \in DOMAIN answer.listed /\ answer.listed[i].type = r /\ i \in Nat
  BY <1>1, <1>2 DEF Routed
<1>7. j \in DOMAIN mail /\ mail[j].name = name /\ j \in Nat
  BY <1>1, <1>4 DEF Named
<1>8. ASSUME NEW k \in DOMAIN answer.listed, k < i, answer.listed[k].type = r
      PROVE  \A n \in DOMAIN mail : mail[n].name # answer.listed[k].name
  <2>1. k \in Nat /\ ~(i <= k)
    BY <1>1, <1>6, <1>8
  <2>2. k \notin Routed(r)
    BY <1>2, <2>1
  <2>3. Named(answer.listed[k].name) = {}
    BY <1>8, <2>2 DEF Routed
  <2> QED
    BY <2>3 DEF Named
<1>9. ASSUME NEW n \in DOMAIN mail, n > j
      PROVE  mail[n].name # mail[j].name
  <2>1. n \in Nat /\ ~(j >= n)
    BY <1>1, <1>7, <1>9
  <2>2. n \notin Named(name)
    BY <1>4, <2>1
  <2> QED
    BY <1>7, <2>2 DEF Named
<1>10. RoutedTo(r, j)
  BY <1>6, <1>7, <1>8, <1>9 DEF RoutedTo
<1> QED
  BY <1>5, <1>7, <1>10

LEMMA InitEvidence == Init => EvidenceInv
BY DEF Init, EvidenceInv

LEMMA StepKeepsEvidence ==
    ASSUME TypeOK, EvidenceInv, [Next]_vars
    PROVE  EvidenceInv'
<1>1. found \in [Roles -> Document \cup {Nothing}] /\ Roles = {"SI", "BL"}
  BY DEF TypeOK, Roles
<1>2. CASE Answer
  BY <1>2 DEF Answer, EvidenceInv, Titled, RoutedTo
<1>3. CASE FallBack
  BY <1>3 DEF FallBack, EvidenceInv, Titled, RoutedTo
<1>4. CASE RoutingFails \/ NoComparison \/ CompareListed \/ ComparePair \/ InvalidData
  <2>1. pc' = "conclude"
    BY <1>4 DEF RoutingFails, NoComparison, CompareListed, ComparePair, InvalidData, Conclude
  <2> QED
    BY <2>1 DEF EvidenceInv
<1>5. CASE Announce \/ Done
  <2>1. pc' = "done"
    BY <1>5 DEF Announce, Done, vars
  <2> QED
    BY <2>1 DEF EvidenceInv
<1>6. CASE ReadPair
  <2>1. CASE pc' = "conclude"
    BY <2>1 DEF EvidenceInv
  <2>2. CASE pc' # "conclude"
    <3>1. /\ pc = "decide" /\ pc' = "SI" /\ mode = "pair" /\ answer.sure
          /\ \A r \in Roles : Routed(r) # {}
          /\ ~Unreadable /\ ~WrongKind
          /\ UNCHANGED <<mode, mail, answer, found, result>>
      BY <1>6, <2>2 DEF ReadPair, Comparing, Conclude, TypeOK
    <3>2. \A r \in Roles : Shows(r) \in {r, "UNKNOWN"}
      BY <3>1 DEF WrongKind
    <3>3. \A r \in Roles : Titled(r)
      BY <3>1, <3>2, ShowsRouted DEF EvidenceInv, Titled
    <3> QED
      BY <1>1, <3>1, <3>3 DEF EvidenceInv, Titled, RoutedTo
  <2> QED
    BY <2>1, <2>2
<1>7. CASE AttemptAgain
  BY <1>7 DEF AttemptAgain, EvidenceInv, Titled, RoutedTo
<1>8. CASE ServiceFails
  <2>1. \A r \in Roles : found'[r] = Nothing
    BY <1>8 DEF ServiceFails
  <2> QED
    BY <1>1, <1>8, <2>1 DEF ServiceFails, EvidenceInv
<1>9. CASE Extract
  <2>1. PICK values \in Document : found' = [found EXCEPT ![pc] = values]
    BY <1>9 DEF Extract
  <2>2. pc \in Roles /\ found'[pc] # Nothing /\ \A r \in Roles \ {pc} : found'[r] = found[r]
    BY <1>1, <1>9, <2>1, DocumentIsSomething DEF Extract
  <2>3. /\ UNCHANGED <<mode, mail, answer, result>>
        /\ pc' = (IF pc = "SI" THEN "BL" ELSE "compare")
    BY <1>9 DEF Extract
  <2> QED
    BY <1>1, <2>2, <2>3 DEF EvidenceInv, Titled, RoutedTo
<1>10. CASE UNCHANGED vars
  BY <1>10 DEF vars, EvidenceInv, Titled, RoutedTo
<1> QED
  BY <1>2, <1>3, <1>4, <1>5, <1>6, <1>7, <1>8, <1>9, <1>10 DEF Next

-----------------------------------------------------------------------------
(* Results *)

\* A result without a reason to doubt it names the fields that differ.
LEMMA PairCompared ==
    ASSUME NEW si, NEW bl, ValidateDocuments(si, bl).status \in {"OK", "MISMATCH"}
    PROVE  /\ \A f \in Fields : si[f] # None /\ bl[f] # None
           /\ ValidateDocuments(si, bl).defects = {f \in Fields : si[f] # bl[f]}
           /\ (ValidateDocuments(si, bl).status = "OK") = (ValidateDocuments(si, bl).defects = {})
<1> DEFINE defects == {f \in Fields : si[f] # bl[f]}
<1>1. \A f \in Fields : si[f] # None /\ bl[f] # None
  BY Outcomes DEF ValidateDocuments
<1>2. CASE defects = {}
  BY <1>1, <1>2, Outcomes DEF ValidateDocuments
<1>3. CASE defects # {}
  <2>1. ValidateDocuments(si, bl) = [status |-> "MISMATCH", reason |-> None, defects |-> defects]
    BY <1>1, <1>3 DEF ValidateDocuments
  <2> QED
    BY <1>1, <1>3, <2>1
<1> QED
  BY <1>2, <1>3

LEMMA ListCompared ==
    ASSUME NEW si, NEW bl, CompareDocuments(si, bl).status \in {"OK", "MISMATCH"}
    PROVE  /\ \A f \in Fields : si[f] \notin {None, Blank} /\ bl[f] \notin {None, Blank}
           /\ CompareDocuments(si, bl).defects = {f \in Fields : ~Close(f, si[f], bl[f])}
           /\ (CompareDocuments(si, bl).status = "OK") = (CompareDocuments(si, bl).defects = {})
<1> DEFINE defects == {f \in Fields : ~Close(f, si[f], bl[f])}
<1>1. \A f \in Fields : {None, Blank} \cap {si[f], bl[f]} = {}
  BY Outcomes DEF CompareDocuments
<1>2. CASE defects = {}
  BY <1>1, <1>2, Outcomes DEF CompareDocuments
<1>3. CASE defects # {}
  <2>1. CompareDocuments(si, bl) = [status |-> "MISMATCH", reason |-> None, defects |-> defects]
    BY <1>1, <1>3 DEF CompareDocuments
  <2> HIDE DEF defects
  <2>2. CompareDocuments(si, bl).status = "MISMATCH" /\ CompareDocuments(si, bl).defects = defects
    BY <2>1
  <2>3. (CompareDocuments(si, bl).status = "OK") = (CompareDocuments(si, bl).defects = {})
    BY <1>3, <2>2
  <2> QED
    BY <1>1, <2>2, <2>3 DEF defects
<1> QED
  BY <1>2, <1>3

LEMMA Unresolved ==
    ASSUME result'.status \notin {"OK", "MISMATCH"} \/ answer'.category # "BL_COMPARISON",
           result'.status # None => (found'["SI"] = Nothing) = (found'["BL"] = Nothing)
    PROVE  ComparedAsRouted'
BY DEF ComparedAsRouted, Compared

LEMMA StepKeepsResult ==
    ASSUME TypeOK, EvidenceInv, EvidenceInv', ComparedAsRouted, [Next]_vars
    PROVE  ComparedAsRouted'
<1>1. Roles = {"SI", "BL"}
  BY DEF Roles
<1>2. CASE pc' \in {"ask", "decide", "SI", "BL", "compare"}
  BY <1>2, Outcomes, Unresolved DEF EvidenceInv, None
<1>3. CASE UNCHANGED vars \/ Announce \/ Done
  <2>1. UNCHANGED <<mode, mail, answer, found, result>>
    BY <1>3 DEF Announce, Done, vars
  <2>2. \A r : Evidence(r)' = Evidence(r)
    BY <2>1 DEF Evidence, Only, Listed
  <2>3. PairAsRouted' = PairAsRouted /\ ListedOnce' = ListedOnce /\ Compared' = Compared
    BY <2>1 DEF PairAsRouted, RoutedTo, ListedOnce, Compared
  <2> QED
    BY <2>1, <2>2, <2>3 DEF ComparedAsRouted
<1>4. CASE RoutingFails \/ (ReadPair /\ pc' = "conclude") \/ InvalidData
  <2>1. \E reason : result' = NeedsReview(reason)
    BY <1>4 DEF RoutingFails, ReadPair, InvalidData, Conclude
  <2>2. \A r \in Roles : found'[r] = Nothing
    BY <1>4 DEF RoutingFails, ReadPair, Comparing, InvalidData, EvidenceInv
  <2> QED
    BY <1>1, <2>1, <2>2, Outcomes, Unresolved
<1>5. CASE NoComparison
  <2>1. answer'.category # "BL_COMPARISON" /\ \A r \in Roles : found'[r] = Nothing
    BY <1>5 DEF NoComparison, EvidenceInv
  <2> QED
    BY <1>1, <2>1, Unresolved
<1>6. CASE ComparePair
  <2>1. /\ pc = "compare" /\ result' = ValidateDocuments(found["SI"], found["BL"])
        /\ UNCHANGED <<mode, mail, answer, found>>
    BY <1>6 DEF ComparePair, Conclude
  <2>2. /\ mode = "pair" /\ answer.sure /\ \A r \in Roles : Titled(r) /\ found[r] # Nothing
    BY <2>1 DEF EvidenceInv
  <2>3. CASE result'.status \notin {"OK", "MISMATCH"}
    BY <1>1, <2>1, <2>2, <2>3, Unresolved
  <2>4. CASE result'.status \in {"OK", "MISMATCH"}
    <3>1. PairAsRouted'
      BY <1>1, <2>1, <2>2, <2>4, PairCompared DEF PairAsRouted, Titled, RoutedTo
    <3> QED
      BY <1>1, <2>1, <2>2, <2>4, <3>1, PairCompared DEF ComparedAsRouted
  <2> QED
    BY <2>3, <2>4
<1>7. CASE CompareListed
  <2>1. /\ mode = "single" /\ UNCHANGED <<mode, mail, answer, found>>
        /\ \A r \in Roles : found[r] = Nothing
    BY <1>7 DEF CompareListed, Comparing, EvidenceInv
  <2>2. CASE result'.status \notin {"OK", "MISMATCH"}
    BY <1>1, <2>1, <2>2, Unresolved
  <2>3. CASE result'.status \in {"OK", "MISMATCH"}
    <3>1. /\ \A r \in Roles : Only(r) # Nothing
          /\ answer.sure = TRUE /\ result' = CompareDocuments(Only("SI"), Only("BL"))
          /\ ~(Len(mail) < 2) /\ \A j \in DOMAIN mail : mail[j].shows # "unreadable"
          /\ \A r \in Roles : \E i \in Listed(r) : Listed(r) = {i}
      BY <1>7, <2>3, Outcomes DEF CompareListed, Conclude, TypeOK
    <3>2. \A r \in Roles : Evidence(r)' = Only(r)
      BY <2>1 DEF Evidence, Only, Listed
    <3>3. /\ \A r \in Roles : \A f \in Fields : Only(r)[f] \notin {None, Blank}
          /\ result'.defects = {f \in Fields : ~Close(f, Only("SI")[f], Only("BL")[f])}
          /\ (result'.status = "OK") = (result'.defects = {})
      BY <1>1, <2>3, <3>1, ListCompared
    <3>4. ListedOnce
      <4>1. Len(mail) > 1
        BY <3>1, MailAssumption DEF TypeOK
      <4>2. ASSUME NEW r \in Roles, NEW i \in Listed(r), Listed(r) = {i}
            PROVE  /\ i \in DOMAIN answer.listed
                   /\ \A k \in DOMAIN answer.listed : answer.listed[k].type = r <=> k = i
                   /\ Only(r) = answer.listed[i].fields
        BY <4>2 DEF Listed, Only
      <4> QED
        BY <3>1, <3>3, <4>1, <4>2 DEF ListedOnce
    <3>5. ListedOnce'
      BY <2>1, <3>4 DEF ListedOnce
    <3> QED
      BY <1>1, <2>1, <3>1, <3>2, <3>3, <3>5 DEF ComparedAsRouted, Close
  <2> QED
    BY <2>2, <2>3
<1>8. \/ pc' \in {"ask", "decide", "SI", "BL", "compare"} \/ UNCHANGED vars \/ Announce \/ Done
      \/ RoutingFails \/ (ReadPair /\ pc' = "conclude") \/ InvalidData \/ NoComparison
      \/ ComparePair \/ CompareListed
  <2>1. Answer \/ FallBack \/ AttemptAgain \/ ServiceFails \/ Extract =>
           pc' \in {"ask", "decide", "SI", "BL", "compare"}
    BY DEF Answer, FallBack, AttemptAgain, ServiceFails, Extract, Roles
  <2>2. ReadPair => pc' \in {"conclude", "SI"}
    BY DEF ReadPair, Conclude, TypeOK
  <2> QED
    BY <2>1, <2>2 DEF Next
<1> QED
  BY <1>2, <1>3, <1>4, <1>5, <1>6, <1>7, <1>8

\* A comparison ends with OK or MISMATCH only when the model was in no doubt and the documents
\* compared were routed to their roles, or listed once each, could be read and are not titled
\* as something else; it names exactly the fields that differ; both extractions are kept or
\* none.  A blank value counts in pair mode, and one untitled attachment may have both roles.
THEOREM AlwaysComparedAsRouted == Spec => []ComparedAsRouted
<1>1. Init => ComparedAsRouted
  BY Outcomes, DocumentIsSomething DEF Init, ComparedAsRouted, Compared, None
<1> QED
  BY <1>1, InitType, StepType, InitEvidence, StepKeepsEvidence, StepKeepsResult, PTL DEF Spec

=============================================================================
