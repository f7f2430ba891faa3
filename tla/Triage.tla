------------------------------- MODULE Triage -------------------------------
(***************************************************************************)
(* One processing attempt of a case, from its mail to its result: a model  *)
(* classifies the mail, with a second model behind it; for a comparison    *)
(* the shipping instruction (SI) and the bill of lading (BL) are picked    *)
(* from the attachments, read, extracted one after the other and compared. *)
(* In the single mode of the router one call of the model classifies and   *)
(* extracts everything.                                                    *)
(*                                                                         *)
(* Each action is one answer of a model, or the work between two.  The     *)
(* lease, the stored extractions and the case are CasePipeline's.  The     *)
(* text of mails and prompts is abstracted; a value is a mark, and two     *)
(* marks are close: texts that are alike, or the weights within tolerance. *)
(***************************************************************************)
EXTENDS Integers, Sequences, FiniteSetsExt

CONSTANTS
    Fields,      \* the fields compared
    Mails,       \* attachments of a mail: sequences of a name and what reading it shows
    Routings,    \* types a model gives to names: sequences of routes
    Listings     \* documents a model extracts in one call: sequences of documents

Roles == {"SI", "BL"}
Kinds == {"SI", "BL", "OTHER", "UNKNOWN"}
Categories == {"BL_COMPARISON", "SI_REQUEST", "INVOICE_QUERY", "GENERAL", "SPAM"}

None == "none"
Blank == ""
ValuesOf(f) == IF f = "container_count" THEN {None, "x", "y"} ELSE {None, Blank, "x", "x2", "y"}
Document == {v \in [Fields -> UNION {ValuesOf(f) : f \in Fields}] : \A f \in Fields : v[f] \in ValuesOf(f)}
Nothing == <<>>       \* no fields were extracted

ASSUME FieldAssumption == Fields # {}

ASSUME MailAssumption ==
    /\ Mails \subseteq Seq([name : STRING, shows : Kinds \cup {"unreadable"}])
    /\ Routings \subseteq Seq([name : STRING, type : Kinds])

VARIABLES
    mode,       \* "pair" or "single"
    mail,       \* the attachments; one that cannot be read shows "unreadable"
    pc,
    model,      \* the model that is asked
    answer,     \* the classification, with the types or the documents it lists
    attempt,    \* attempts to extract the document whose turn it is
    found,      \* what was extracted
    result,     \* status, review_reason and defect_fields
    alert       \* the alert that was sent

vars == <<mode, mail, pc, model, answer, attempt, found, result, alert>>

NoAnswer == [category |-> None, sure |-> FALSE, listed |-> <<>>]
NoResult == [status |-> None, reason |-> None, defects |-> {}]
Okay == [NoResult EXCEPT !.status = "OK"]
NeedsReview(reason) == [NoResult EXCEPT !.status = "NEEDS_REVIEW", !.reason = reason]

Init ==
    /\ mode \in {"pair", "single"} /\ mail \in Mails
    /\ pc = "ask" /\ model = "primary" /\ answer = NoAnswer
    /\ attempt = 0 /\ found = [r \in Roles |-> Nothing]
    /\ result = NoResult /\ alert = None

-----------------------------------------------------------------------------
(* Classification *)

Conclude(res) == pc' = "conclude" /\ result' = res

\* infer and classify: the answer has the form that was asked for.  Of a pair the category
\* may be in doubt, of a single call any value it lists.
Answer ==
    /\ pc = "ask"
    /\ \E category \in Categories, sure \in BOOLEAN,
          listed \in IF mode = "pair" THEN Routings ELSE Listings :
          /\ mode = "single" /\ ~sure =>
                \E i \in DOMAIN listed : \E f \in DOMAIN listed[i].fields : listed[i].fields[f] # None
          /\ answer' = [category |-> category, sure |-> sure, listed |-> listed]
    /\ pc' = "decide"
    /\ UNCHANGED <<mode, mail, model, attempt, found, result, alert>>

\* An invalid answer, a timeout, or too many requests: the other model is asked.
FallBack ==
    /\ pc = "ask" /\ model = "primary" /\ model' = "fallback"
    /\ UNCHANGED <<mode, mail, pc, answer, attempt, found, result, alert>>

\* What the words of a mail can suggest.
HeuristicCategories == Categories \ {"SPAM"}

\* The fallback failed too, or the primary in a way a fallback does not help with:
\* the category is guessed from the words of the mail.
RoutingFails ==
    /\ pc = "ask" /\ Conclude(NeedsReview("UNREADABLE"))
    /\ \E category \in HeuristicCategories :
          answer' = [NoAnswer EXCEPT !.category = category]
    /\ UNCHANGED <<mode, mail, model, attempt, found, alert>>

\* _hybrid_validate and _validate: only a comparison goes on, and a doubtful one only to
\* be reviewed.
NoComparison ==
    /\ pc = "decide" /\ answer.category # "BL_COMPARISON" /\ Conclude(Okay)
    /\ UNCHANGED <<mode, mail, model, answer, attempt, found, alert>>

Comparing == pc = "decide" /\ answer.category = "BL_COMPARISON"

-----------------------------------------------------------------------------
(* The pair of documents *)

\* The attachment of a name; of several with one name, the last.
Named(name) == {i \in DOMAIN mail : mail[i].name = name}

\* The first document of a type that is an attachment.
Routed(role) == {i \in DOMAIN answer.listed :
                    answer.listed[i].type = role /\ Named(answer.listed[i].name) # {}}

\* Slip: of several attachments with the name, the first is looked at.
ShowsFirst(role) == mail[Min(Named(answer.listed[Min(Routed(role))].name))].shows

Shows(role) == mail[Max(Named(answer.listed[Min(Routed(role))].name))].shows

Unreadable == \E r \in Roles : Shows(r) = "unreadable"
WrongKind == \E r \in Roles : Shows(r) \notin {r, "UNKNOWN"}

\* The first obstacle decides: doubt, a missing document, one that cannot be read, or one
\* whose title says that it is another.
ReadPair ==
    /\ Comparing /\ mode = "pair"
    /\ CASE ~answer.sure -> Conclude(NeedsReview("LOW_CONFIDENCE"))
         [] answer.sure /\ (\E r \in Roles : Routed(r) = {}) -> Conclude(NeedsReview("MISSING_ATTACHMENT"))
         [] answer.sure /\ (\A r \in Roles : Routed(r) # {}) ->
               IF Unreadable THEN Conclude(NeedsReview("UNREADABLE"))
               ELSE IF WrongKind THEN Conclude(NeedsReview("WRONG_DOC_TYPE"))
               ELSE pc' = "SI" /\ UNCHANGED result
    /\ UNCHANGED <<mode, mail, model, answer, attempt, found, alert>>

\* Slip: one attempt too many.
AttemptAgainOnceMore ==
    /\ pc \in Roles /\ attempt < 3 /\ attempt' = attempt + 1
    /\ UNCHANGED <<mode, mail, pc, model, answer, found, result, alert>>

\* A transient failure, except of the third attempt.
AttemptAgain ==
    /\ pc \in Roles /\ attempt < 2 /\ attempt' = attempt + 1
    /\ UNCHANGED <<mode, mail, pc, model, answer, found, result, alert>>

\* The service fails for good: the exception leaves process(), nothing is stored, and a later
\* delivery of the task or a retry by a reviewer processes the case from the start.
ServiceFails ==
    /\ pc \in Roles /\ pc' = "ask" /\ model' = "primary" /\ answer' = NoAnswer
    /\ attempt' = 0 /\ found' = [r \in Roles |-> Nothing]
    /\ UNCHANGED <<mode, mail, result, alert>>

\* An answer that is no document: the other one's extraction is not kept either.
InvalidData ==
    /\ pc \in Roles /\ Conclude(NeedsReview("UNREADABLE"))
    /\ found' = [r \in Roles |-> Nothing]
    /\ UNCHANGED <<mode, mail, model, answer, attempt, alert>>

Extract ==
    /\ pc \in Roles /\ attempt' = 0
    /\ \E values \in Document : found' = [found EXCEPT ![pc] = values]
    /\ pc' = IF pc = "SI" THEN "BL" ELSE "compare"
    /\ UNCHANGED <<mode, mail, model, answer, result, alert>>

\* validate_documents: a value that is blank is not missing.
ValidateDocuments(si, bl) ==
    LET defects == {f \in Fields : si[f] # bl[f]}
    IN  IF \E f \in Fields : None \in {si[f], bl[f]} THEN NeedsReview("MISSING_VALUE")
        ELSE IF defects = {} THEN Okay
        ELSE [status |-> "MISMATCH", reason |-> None, defects |-> defects]

ComparePair ==
    /\ pc = "compare" /\ Conclude(ValidateDocuments(found["SI"], found["BL"]))
    /\ UNCHANGED <<mode, mail, model, answer, attempt, found, alert>>

-----------------------------------------------------------------------------
(* The single call *)

\* The containers are counted, the other values need only be close.
Close(f, a, b) == a = b \/ (f # "container_count" /\ {a, b} = {"x", "x2"})

\* compare_documents: a blank value is missing too.
CompareDocuments(si, bl) ==
    LET defects == {f \in Fields : ~Close(f, si[f], bl[f])}
    IN  IF \E f \in Fields : {None, Blank} \cap {si[f], bl[f]} # {} THEN NeedsReview("MISSING_VALUE")
        ELSE IF defects = {} THEN Okay
        ELSE [status |-> "MISMATCH", reason |-> None, defects |-> defects]

Listed(role) == {i \in DOMAIN answer.listed : answer.listed[i].type = role}

\* The values of the one document listed for a role.
Only(role) == answer.listed[CHOOSE i \in Listed(role) : TRUE].fields

\* _validate: as many attachments as it takes, all readable, one document for each role,
\* and no doubt about a value.
CompareListed ==
    /\ Comparing /\ mode = "single"
    /\ IF Len(mail) < 2 THEN Conclude(NeedsReview("MISSING_ATTACHMENT"))
       ELSE IF \E i \in DOMAIN mail : mail[i].shows = "unreadable" THEN Conclude(NeedsReview("UNREADABLE"))
       ELSE IF \E r \in Roles : \A i \in Listed(r) : Listed(r) # {i}
            THEN Conclude(NeedsReview("WRONG_DOC_TYPE"))
       ELSE IF \E r \in Roles : Only(r) = Nothing THEN Conclude(NeedsReview("MISSING_VALUE"))
       ELSE IF ~answer.sure THEN Conclude(NeedsReview("LOW_CONFIDENCE"))
       ELSE Conclude(CompareDocuments(Only("SI"), Only("BL")))
    /\ UNCHANGED <<mode, mail, model, answer, attempt, found, alert>>

-----------------------------------------------------------------------------
(* The result *)

\* Completed, and announced to the reviewers where there is something for them to do and
\* somebody to tell; the case stays completed when the announcement does not get through.
Announce ==
    /\ pc = "conclude" /\ pc' = "done"
    /\ \/ alert' = None
       \/ result.status \in {"MISMATCH", "NEEDS_REVIEW"} /\ alert' = "review"
       \/ result.status = "OK" /\ answer.category = "SPAM" /\ alert' = "spam"
    /\ UNCHANGED <<mode, mail, model, answer, attempt, found, result>>

Done == pc = "done" /\ UNCHANGED vars

Next ==
    \/ Answer \/ FallBack \/ RoutingFails \/ NoComparison \/ CompareListed
    \/ ReadPair \/ AttemptAgain \/ ServiceFails \/ InvalidData \/ Extract \/ ComparePair
    \/ Announce \/ Done

Spec == Init /\ [][Next]_vars

-----------------------------------------------------------------------------
(* Properties *)

\* Of the code: the classification, the documents and the result of processing a case have
\* the forms of their schemas, and at most three attempts are made for a document.
TypeOK ==
    /\ mode \in {"pair", "single"} /\ mail \in Mails
    /\ pc \in {"ask", "decide", "SI", "BL", "compare", "conclude", "done"}
    /\ model \in {"primary", "fallback"}
    /\ answer.category \in Categories \cup {None} /\ answer.sure \in BOOLEAN
    /\ answer.listed \in Routings \cup Listings \cup {<<>>}
    /\ attempt \in 0..2 /\ found \in [Roles -> Document \cup {Nothing}]
    /\ result \in [status : {None, "OK", "MISMATCH", "NEEDS_REVIEW"}, defects : SUBSET Fields,
                   reason : {None, "UNREADABLE", "LOW_CONFIDENCE", "MISSING_ATTACHMENT",
                             "WRONG_DOC_TYPE", "MISSING_VALUE"}]
    /\ alert \in {None, "review", "spam"}

\* Attachment j is the one routed to role r: the last of the name that the first route to
\* the role gives, of the routes that give the name of an attachment.
RoutedTo(r, j) ==
    \E i \in DOMAIN answer.listed :
        /\ answer.listed[i].type = r /\ answer.listed[i].name = mail[j].name
        /\ \A k \in DOMAIN answer.listed : k < i /\ answer.listed[k].type = r =>
              \A n \in DOMAIN mail : mail[n].name # answer.listed[k].name
        /\ \A n \in DOMAIN mail : n > j => mail[n].name # mail[j].name

\* The values a comparison rests on.
Evidence(r) == IF mode = "pair" THEN found[r] ELSE Only(r)

Compared == result.status \in {"OK", "MISMATCH"} /\ answer.category = "BL_COMPARISON"

\* Of the code, in pair mode: the documents compared are the attachments routed to their
\* roles, they could be read and are not titled as something else, and each field has a
\* value in both.  A blank is a value, and one untitled attachment may have both roles.
PairAsRouted ==
    \A r \in Roles :
        /\ \E j \in DOMAIN mail : RoutedTo(r, j) /\ mail[j].shows \in {r, "UNKNOWN"}
        /\ found[r] # Nothing /\ \A f \in Fields : found[r][f] # None

\* Of the code, in single mode: no attachment is unreadable, one document and no other is
\* listed for each role, and each field has a value in both.  A blank is none.
ListedOnce ==
    /\ Len(mail) > 1 /\ \A j \in DOMAIN mail : mail[j].shows # "unreadable"
    /\ \A r \in Roles : \E i \in DOMAIN answer.listed :
          /\ \A k \in DOMAIN answer.listed : answer.listed[k].type = r <=> k = i
          /\ answer.listed[i].fields # Nothing
          /\ \A f \in Fields : answer.listed[i].fields[f] \notin {None, Blank}

\* Of the code: a comparison ends with OK or MISMATCH only when the model was in no doubt and
\* the documents compared were routed or listed as above, also after fallbacks, repeated
\* attempts and a delivery that starts anew; it names the fields that differ in them, and no
\* others.  Whatever ends the comparison, the extractions of both documents are kept or none.
ComparedAsRouted ==
    /\ Compared =>
          /\ answer.sure /\ (IF mode = "pair" THEN PairAsRouted ELSE ListedOnce)
          /\ result.defects = {f \in Fields :
                                 IF mode = "pair" THEN found["SI"][f] # found["BL"][f]
                                 ELSE ~Close(f, Evidence("SI")[f], Evidence("BL")[f])}
          /\ (result.status = "OK") = (result.defects = {})
    /\ result.status # None => (found["SI"] = Nothing) = (found["BL"] = Nothing)

-----------------------------------------------------------------------------
(* What the documentation says, and the code does not do *)

\* README.md:88, "any missing required contract field triggers human verification", and
\* docs/reviews/2026-09-20-mvp-review.md:103, "Blank required values can pass": a blank is
\* compared like any value in pair mode.
BlankIsMissing == Compared => \A r \in Roles, f \in Fields : Evidence(r)[f] \notin {None, Blank}

\* docs/reviews/2026-09-20-mvp-review.md:101, "require one unambiguous pair": one attachment
\* routed to both roles is compared with itself in pair mode.
TwoDocuments ==
    Compared /\ mode = "pair" =>
        \E i, j \in DOMAIN mail : i # j /\ RoutedTo("SI", i) /\ RoutedTo("BL", j)

=============================================================================
