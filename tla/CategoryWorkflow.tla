--------------------------- MODULE CategoryWorkflow ---------------------------
(***************************************************************************)
(* The category workflow of one processed case: generating, verifying,     *)
(* approving and returning a shipping instruction; routing, answering and  *)
(* completing an inquiry; blocking and un-blocking the sender of spam.     *)
(*                                                                         *)
(* A handler serves one request at a time, of the dashboard or of a button *)
(* of the Telegram spam alert.  Each action is one Firestore, Cloud        *)
(* Storage or Gmail call; handlers interleave between them and may die.    *)
(* Gmail drafts, and the buttons offered with them, are in DraftDelivery;  *)
(* here a reply is the document attached to it.  The review decision is in *)
(* FieldReview.                                                            *)
(***************************************************************************)
EXTENDS StageTables, Integers

CONSTANTS
    Handlers,       \* requests that can be under way at once
    MaxRequests,    \* bound on the requests made in all
    Guided,         \* clients request what the shown case offers, with its version
    HasAttachments  \* the mail the case was made from came with documents

ASSUME RequestsAssumption == MaxRequests \in Nat

ASSUME SwitchAssumption == Guided \in BOOLEAN /\ HasAttachments \in BOOLEAN

VARIABLES
    \* the case document
    version,
    case,     \* category, workflow_state (stage, si_artifact, is_blocked, si_fields: field),
              \* and the copies beside it (si_artifact: copy, is_blocked: flagged)
    reply,    \* the document attached to the prepared draft, by number, if there is one
    buttons,  \* of spam alerts, not yet pressed, with the version each carries
    \* services
    blob,     \* the bytes stored under the artifact's name, as a document number
    record,   \* the case document "si-generated-<case>", as a document number
    sender,   \* the record in blocked_senders, with its filter_id
    filters,  \* filters in Gmail
    \* handlers
    pc, req,  \* the number of the request, which names what it makes
    goal,     \* what it was asked to do
    ver,      \* the version it was asked for, later the one it writes at
    base,     \* the case as it read it
    doc,      \* what it read besides: a document, or the filter of the sender
    field,    \* the state of a field extracted for a shipping instruction
    \* history and bounds
    requests, \* requests made so far
    lost,     \* a generation stored its bytes and never its stage
    lifted,   \* the sender's record was deleted since it was last set
    orphans   \* filters whose record was lost on the way

locals == <<req, goal, ver, base, doc, field>>
services == <<blob, record, sender, filters>>
history == <<lost, lifted, orphans>>
vars == <<version, case, reply, buttons, services, pc, locals, requests, history>>

None == 0
NoArtifact == [status |-> "none", doc |-> None]
Unblocked == [on |-> FALSE, filter |-> None]

NewCase(category) ==
    [category |-> category, stage |-> DefaultStage(category), artifact |-> NoArtifact,
     copy |-> NoArtifact, blocked |-> FALSE, flagged |-> FALSE, field |-> "unstated"]

\* The one-time buttons of the alert sent when processing ends in the category SPAM.
Alert(category, v) ==
    IF category = "SPAM" THEN {<<"block_sender", v>>, <<"not_spam", v>>} ELSE {}

Init ==
    /\ version = 0 /\ \E c \in Categories : case = NewCase(c)
    /\ reply = None /\ blob = None /\ record = None /\ sender = Unblocked /\ filters = {}
    /\ buttons = Alert(case.category, 0)
    /\ pc = [h \in Handlers |-> "idle"] /\ req = [h \in Handlers |-> 0]
    /\ goal = [h \in Handlers |-> "none"] /\ ver = [h \in Handlers |-> 0]
    /\ base = [h \in Handlers |-> NewCase("GENERAL")] /\ doc = [h \in Handlers |-> None]
    /\ field = [h \in Handlers |-> "unstated"]
    /\ requests = 0 /\ lost = FALSE /\ lifted = FALSE /\ orphans = {}

-----------------------------------------------------------------------------
Step(h, from, to) == pc[h] = from /\ pc' = [pc EXCEPT ![h] = to]

\* A handler that returns forgets its locals.
Return(h) ==
    /\ pc' = [pc EXCEPT ![h] = "idle"] /\ req' = [req EXCEPT ![h] = 0]
    /\ goal' = [goal EXCEPT ![h] = "none"] /\ ver' = [ver EXCEPT ![h] = 0]
    /\ base' = [base EXCEPT ![h] = NewCase("GENERAL")] /\ doc' = [doc EXCEPT ![h] = None]
    /\ field' = [field EXCEPT ![h] = "unstated"]

Offered(c) == AvailableActions(c.category, c.stage, c.flagged \/ c.blocked)

\* A handler that dies, or is refused, may leave behind what it already stored.
Abandon(h) ==
    /\ lost' = (lost \/ (goal[h] = "generate_si" /\ pc[h] \in {"record", "commit"}))
    /\ orphans' = orphans \cup (IF pc[h] = "block" /\ doc[h] # None THEN {doc[h]} ELSE {})
    /\ UNCHANGED lifted

-----------------------------------------------------------------------------
(* Requests *)

Begin(h, action, expected) ==
    /\ Step(h, "idle", "asked") /\ requests < MaxRequests
    /\ requests' = requests + 1 /\ req' = [req EXCEPT ![h] = requests']
    /\ goal' = [goal EXCEPT ![h] = action] /\ ver' = [ver EXCEPT ![h] = expected]
    /\ UNCHANGED <<version, case, reply, services, base, doc, field, history>>

\* A client that was shown the case asks for an action.
Ask(h) ==
    /\ \E a \in IF Guided THEN Offered(case) ELSE CaseActions : Begin(h, a, version)
    /\ UNCHANGED buttons

\* The settings page removes a sender from the list.
AskUnblock(h) == Begin(h, "unblock", version) /\ UNCHANGED buttons

\* A button works once, with the version the case had when it was processed.
Press(h) ==
    \E b \in buttons : Begin(h, b[1], b[2]) /\ buttons' = buttons \ {b}

\* The version may be left out of these two requests; nothing is compared then.
Unversioned(h) == ~Guided /\ goal[h] \in {"draft_response", "block_sender"}

\* Slip: the version is not compared when the case is read.
ReadCaseUnchecked(h, from, to) ==
    /\ Step(h, from, to)
    /\ ver' = [ver EXCEPT ![h] = version] /\ base' = [base EXCEPT ![h] = case]
    /\ UNCHANGED <<version, case, reply, buttons, services, req, goal, doc, field, requests, history>>

\* The case is read and its version compared; the final write is made at this version.
ReadCase(h, from, to) ==
    /\ Step(h, from, to)
    /\ ~Unversioned(h) => version = ver[h]
    /\ ver' = [ver EXCEPT ![h] = version] /\ base' = [base EXCEPT ![h] = case]
    /\ UNCHANGED <<version, case, reply, buttons, services, req, goal, doc, field, requests, history>>

StartSimple(h) ==
    /\ goal[h] \in {"verify_si", "approve_si", "route", "complete"}
    /\ ReadCase(h, "asked", "commit")

StartReturn(h) ==
    /\ goal[h] = "return_si" /\ {case.artifact, case.copy} # {NoArtifact}
    /\ ReadCase(h, "asked", "download")

StartResponse(h) == goal[h] = "draft_response" /\ ReadCase(h, "asked", "reply")

\* mark_not_spam: unblocks first if the sender is blocked.
StartNotSpam(h) == goal[h] = "not_spam" /\ ReadCase(h, "asked", "blocked")

\* What the patterns find for a field: the mail's value, else the placeholder that an
\* earlier generated document prints for it and the next run reads as a value.
Extracted(earlier) == {"stated", IF earlier THEN "placeholder" ELSE "unstated"}

\* generate_si takes no version: it reads the case of the moment and its documents.
StartGenerate(h) ==
    /\ goal[h] = "generate_si" /\ Step(h, "asked", "upload")
    /\ ver' = [ver EXCEPT ![h] = version] /\ base' = [base EXCEPT ![h] = case]
    /\ \E f \in Extracted(record # None) : field' = [field EXCEPT ![h] = f]
    /\ UNCHANGED <<version, case, reply, buttons, services, req, goal, doc, requests, history>>

\* A version that is not the expected one, a conditional write that meets a newer
\* one, or an instruction that was never generated: 409 or 400.
Refused ==
    {h \in Handlers :
       \/ pc[h] \in {"reply", "commit"} /\ version # ver[h]
       \/ /\ pc[h] \in (IF goal[h] = "block_sender" THEN {"reread"} ELSE {"asked"})
          /\ goal[h] \notin {"unblock", "generate_si"} /\ ~Unversioned(h) /\ version # ver[h]
       \/ pc[h] = "asked" /\ goal[h] = "return_si" /\ {case.artifact, case.copy} = {NoArtifact}}

Refuse(h) ==
    /\ h \in Refused
    /\ Abandon(h) /\ Return(h)
    /\ UNCHANGED <<version, case, reply, buttons, services, requests>>

-----------------------------------------------------------------------------
(* Generating *)

\* The bytes replace those of an earlier generation: the name is the case's.
Upload(h) ==
    /\ Step(h, "upload", "record") /\ blob' = req[h]
    /\ UNCHANGED <<version, case, reply, buttons, record, sender, filters, locals, requests, history>>

AddDocument(h) ==
    /\ Step(h, "record", "commit") /\ record' = req[h]
    /\ UNCHANGED <<version, case, reply, buttons, blob, sender, filters, locals, requests, history>>

(* Returning and answering *)

Download(h) ==
    /\ Step(h, "download", "reply") /\ doc' = [doc EXCEPT ![h] = blob]
    /\ UNCHANGED <<version, case, reply, buttons, services, req, goal, ver, base, field, requests, history>>

\* Slip: the draft is stored whatever the version.
StoreReplyUnversioned(h) ==
    /\ Step(h, "reply", "commit")
    /\ reply' = doc[h] /\ version' = version + 1 /\ ver' = [ver EXCEPT ![h] = version + 1]
    /\ UNCHANGED <<case, buttons, services, req, goal, base, doc, field, requests, history>>

\* create_category_response_draft stores the draft; the stage is a second write.
StoreReply(h) ==
    /\ version = ver[h] /\ Step(h, "reply", "commit")
    /\ reply' = doc[h] /\ version' = version + 1 /\ ver' = [ver EXCEPT ![h] = version + 1]
    /\ UNCHANGED <<case, buttons, services, req, goal, base, doc, field, requests, history>>

(* Blocking: the filter, the record, and only then the case *)

\* Slip: the record is only set for want of a filter.
CreateFilterOnly(h) ==
    /\ goal[h] = "block_sender"
    /\ \E f \in {req[h], None} :
          /\ Step(h, "asked", IF f = None THEN "block" ELSE "reread")
          /\ doc' = [doc EXCEPT ![h] = f] /\ filters' = filters \cup ({f} \ {None})
    /\ UNCHANGED <<version, case, reply, buttons, blob, record, sender, req, goal, ver, base, field,
                   requests, history>>

\* Gmail makes a filter, or fails and the block goes on without.
CreateFilter(h) ==
    /\ goal[h] = "block_sender" /\ Step(h, "asked", "block")
    /\ \E f \in {req[h], None} :
          doc' = [doc EXCEPT ![h] = f] /\ filters' = filters \cup ({f} \ {None})
    /\ UNCHANGED <<version, case, reply, buttons, blob, record, sender, req, goal, ver, base, field,
                   requests, history>>

\* Slip: the filter's id is not passed on.
BlockSenderWithoutFilter(h) ==
    /\ Step(h, "block", "reread")
    /\ sender' = [on |-> TRUE, filter |-> None] /\ lifted' = FALSE
    /\ orphans' = orphans \cup ({sender.filter} \ {None})
    /\ doc' = [doc EXCEPT ![h] = None]
    /\ UNCHANGED <<version, case, reply, buttons, blob, record, filters, req, goal, ver, base, field,
                   requests, lost>>

\* The record of a sender blocked before is replaced, and its filter_id with it.
BlockSender(h) ==
    /\ Step(h, "block", "reread")
    /\ sender' = [on |-> TRUE, filter |-> doc[h]] /\ lifted' = FALSE
    /\ orphans' = orphans \cup ({sender.filter} \ {None})
    /\ doc' = [doc EXCEPT ![h] = None]
    /\ UNCHANGED <<version, case, reply, buttons, blob, record, filters, req, goal, ver, base, field,
                   requests, lost>>

BlockCase(h) == ReadCase(h, "reread", "commit")

(* Un-blocking *)

IsBlocked(h) ==
    /\ Step(h, "blocked", IF sender.on THEN "list" ELSE "commit")
    /\ UNCHANGED <<version, case, reply, buttons, services, locals, requests, history>>

StartUnblock(h) ==
    /\ goal[h] = "unblock" /\ Step(h, "asked", "list")
    /\ UNCHANGED <<version, case, reply, buttons, services, locals, requests, history>>

\* list_blocked_senders
ListBlocked(h) ==
    /\ Step(h, "list", IF sender.filter # None THEN "unfilter" ELSE "unblock")
    /\ doc' = [doc EXCEPT ![h] = sender.filter]
    /\ UNCHANGED <<version, case, reply, buttons, services, req, goal, ver, base, field, requests, history>>

\* A failure to delete the filter is logged and forgotten.
DeleteFilter(h) ==
    /\ Step(h, "unfilter", "unblock")
    /\ \/ filters' = filters \ {doc[h]} /\ UNCHANGED orphans
       \/ orphans' = orphans \cup {doc[h]} /\ UNCHANGED filters
    /\ UNCHANGED <<version, case, reply, buttons, blob, record, sender, locals, requests,
                   lost, lifted>>

\* The record goes, even if it is another one than was listed.
UnblockSender(h) ==
    /\ pc[h] = "unblock"
    /\ sender' = Unblocked /\ lifted' = (lifted \/ sender.on)
    /\ orphans' = orphans \cup ({sender.filter} \ {None, doc[h]})
    /\ IF goal[h] = "unblock" THEN Return(h)
       ELSE Step(h, "unblock", "commit") /\ UNCHANGED locals
    /\ UNCHANGED <<version, case, reply, buttons, blob, record, filters, requests, lost>>

-----------------------------------------------------------------------------
(* The write that ends a request: workflow_state as read, with its new stage *)

\* Slip: only one of the two copies of the artifact is updated.
OneCopy(h) ==
    {[base[h] EXCEPT !.stage = ResultStage[goal[h]],
                     !.artifact.status = IF goal[h] = "verify_si" THEN "verified" ELSE "approved",
                     !.field = f] : f \in {base[h].field, "corrected"}}

\* verify_si may replace the fields; the document's text stays as it was.
Signed(h) ==
    LET signed == [base[h].artifact EXCEPT
                      !.status = IF goal[h] = "verify_si" THEN "verified" ELSE "approved"]
    IN  {[base[h] EXCEPT !.stage = ResultStage[goal[h]], !.artifact = signed, !.copy = signed,
                         !.field = f] :
            f \in IF goal[h] = "verify_si" THEN {base[h].field, "corrected"} ELSE {base[h].field}}

\* Slip: the artifact the case has gets another document and keeps its status.
GeneratedInPlace(h) ==
    LET artifact == [status |-> IF base[h].artifact = NoArtifact THEN "generated"
                                ELSE base[h].artifact.status,
                     doc |-> req[h]]
    IN  [base[h] EXCEPT !.stage = ResultStage["generate_si"], !.artifact = artifact, !.copy = artifact,
                        !.blocked = FALSE, !.field = field[h]]

Generated(h) ==
    LET artifact == [status |-> "generated", doc |-> req[h]]
    IN  [base[h] EXCEPT !.stage = ResultStage["generate_si"], !.artifact = artifact, !.copy = artifact,
                        !.blocked = FALSE, !.field = field[h]]

Returned(h) ==
    LET current == IF base[h].artifact # NoArtifact THEN base[h].artifact ELSE base[h].copy
        artifact == [current EXCEPT !.status = "returned"]
    IN  [base[h] EXCEPT !.stage = ResultStage["return_si"], !.artifact = artifact, !.copy = artifact]

Outcomes(h) ==
    CASE goal[h] = "generate_si" -> {Generated(h)}
      [] goal[h] \in {"verify_si", "approve_si"} -> Signed(h)
      [] goal[h] = "return_si" -> {Returned(h)}
      [] goal[h] = "block_sender" ->
             {[base[h] EXCEPT !.stage = ResultStage[goal[h]], !.blocked = TRUE, !.flagged = TRUE]}
      [] goal[h] = "not_spam" ->
             {[base[h] EXCEPT !.stage = ResultStage[goal[h]], !.blocked = FALSE, !.flagged = FALSE,
                              !.category = c] : c \in Categories}
      [] OTHER -> {[base[h] EXCEPT !.stage = ResultStage[goal[h]]]}

\* Slip: the case is written whatever its version.
CommitUnversioned(h) ==
    /\ pc[h] = "commit"
    /\ case' \in Outcomes(h) /\ version' = version + 1
    /\ Return(h)
    /\ UNCHANGED <<reply, buttons, services, requests, history>>

Commit(h) ==
    /\ pc[h] = "commit" /\ version = ver[h]
    /\ case' \in Outcomes(h) /\ version' = version + 1
    /\ Return(h)
    /\ UNCHANGED <<reply, buttons, services, requests, history>>

Crash(h) ==
    /\ pc[h] # "idle" /\ Abandon(h) /\ Return(h)
    /\ UNCHANGED <<version, case, reply, buttons, services, requests>>

\* A retry: the worker classifies the case again and leaves the workflow as it is.
\* Counted as a request; every other update of the case is a retry to the same category.
Reprocess ==
    /\ requests < MaxRequests /\ requests' = requests + 1
    /\ \E c \in Categories :
          /\ case' = [case EXCEPT !.category = c]
          /\ buttons' = buttons \cup Alert(c, version + 1)
    /\ version' = version + 1
    /\ UNCHANGED <<reply, services, pc, locals, history>>

\* Nothing is half-way, and nobody has to make another request.
Quiescent == (\A h \in Handlers : pc[h] = "idle") /\ UNCHANGED vars

-----------------------------------------------------------------------------
Start(h) ==
    \/ StartSimple(h) \/ StartReturn(h) \/ StartResponse(h) \/ StartNotSpam(h)
    \/ StartGenerate(h) \/ CreateFilter(h) \/ StartUnblock(h)

Continue(h) ==
    \/ Upload(h) \/ AddDocument(h) \/ Download(h) \/ StoreReply(h)
    \/ BlockSender(h) \/ BlockCase(h)
    \/ IsBlocked(h) \/ ListBlocked(h) \/ DeleteFilter(h) \/ UnblockSender(h)
    \/ Commit(h)

Next ==
    \/ \E h \in Handlers :
          Ask(h) \/ AskUnblock(h) \/ Press(h) \/ Start(h) \/ Continue(h) \/ Refuse(h) \/ Crash(h)
    \/ Reprocess
    \/ Quiescent

Spec == Init /\ [][Next]_vars

-----------------------------------------------------------------------------
(* Properties *)

Documents == 0 .. MaxRequests
Artifacts == [status : {"none", "generated", "verified", "approved", "returned"}, doc : Documents]
Cases == [category : Categories, stage : Stages, artifact : Artifacts, copy : Artifacts,
          blocked : BOOLEAN, flagged : BOOLEAN,
          field : {"unstated", "stated", "placeholder", "corrected"}]

PcStates == {"idle", "asked", "commit", "download", "reply", "blocked", "upload", "record",
             "block", "reread", "list", "unfilter", "unblock"}

\* Every variable has its type.
TypeOK ==
    /\ version \in Nat /\ case \in Cases /\ reply \in Documents
    /\ buttons \subseteq ({"block_sender", "not_spam"} \X Nat)
    /\ blob \in Documents /\ record \in Documents
    /\ sender \in [on : BOOLEAN, filter : Documents] /\ filters \subseteq Documents
    /\ pc \in [Handlers -> PcStates] /\ req \in [Handlers -> Documents]
    /\ goal \in [Handlers -> CaseActions \cup {"none", "unblock"}]
    /\ ver \in [Handlers -> Nat] /\ base \in [Handlers -> Cases] /\ doc \in [Handlers -> Documents]
    /\ field \in [Handlers -> {"unstated", "stated", "placeholder"}]
    /\ requests \in Documents
    /\ lost \in BOOLEAN /\ lifted \in BOOLEAN /\ orphans \subseteq Documents

SignedStage == [generated |-> "GENERATED", verified |-> "VERIFIED", approved |-> "APPROVED",
                returned |-> "RETURNED"]

\* A stage of the shipping instruction is shown only with an artifact in that very
\* status, in both places it is kept, whichever requests overlap and whatever they ask.
StageMatchesArtifact ==
    \A status \in DOMAIN SignedStage : case.stage = SignedStage[status] =>
        case.artifact.status = status /\ case.copy = case.artifact

\* The reply to a requester has the document attached that the case calls returned,
\* unless another generation has replaced its bytes without becoming the case's.
ReturnedDocument ==
    case.stage = "RETURNED" /\ ~lost
    /\ (\A h \in Handlers : goal[h] = "generate_si" => pc[h] \notin {"record", "commit"})
        => reply = case.artifact.doc

\* The statuses of a document that may be followed by another.
SignedFrom ==
    [generated |-> {"none", "generated", "verified", "approved", "returned"},
     verified |-> {"generated", "verified", "approved"},
     approved |-> {"generated", "verified"},
     returned |-> {"approved"}]

\* What a case says of its document is said of that document: another one starts as
\* generated, and guided clients return it only after it was approved, and approve it
\* only after it was generated or verified, whichever requests overlap.
SignaturesInOrder ==
    [][/\ case'.artifact.doc # case.artifact.doc => case'.artifact.status = "generated"
       /\ Guided /\ case'.artifact # case.artifact
            => case.artifact.status \in SignedFrom[case'.artifact.status]]_vars

\* A case that says its sender is blocked speaks of a sender who was: the record was
\* there before, and can only have been deleted since.
BlockRecordedFirst == case.flagged => sender.on \/ lifted

\* Every filter in Gmail is known to the sender's record or to a request about to set
\* it, so un-blocking finds it, unless its record was lost in one of the known ways.
FiltersAccountedFor ==
    filters \subseteq orphans \cup {sender.filter} \cup {doc[h] : h \in {g \in Handlers : pc[g] = "block"}}

\* A field a reviewer has corrected is not set back by a request that overlaps: what
\* replaces the correction is a generation that has read the corrected case.  A request
\* that read the case before, and rewrites its workflow_state, is refused.
CorrectionsKept ==
    [][case.field = "corrected" /\ case'.field # "corrected" =>
          \E h \in Handlers : /\ pc[h] = "commit" /\ pc'[h] = "idle"
                              /\ goal[h] = "generate_si" /\ base[h].field = "corrected"]_vars

\* Guided clients move the case through its stages as if requests never overlapped.
Order == INSTANCE StageOrder WITH category <- case.category, stage <- case.stage,
                                  blocked <- case.flagged
ImplementsStageOrder == Order!Spec

-----------------------------------------------------------------------------
(* What the documentation says, and the code does not do *)

\* The documents a redelivery of the mail is compared with: those expected at first,
\* or, when none were, those the case has by now.
KnownDocuments == IF HasAttachments THEN {"attachment"} ELSE {"generated" : d \in {record} \ {None}}

\* README.md:21-26, "Loss-Safe Gmail Synchronization": Gmail may report a message
\* again, and that of a case is recognised as the case's.
RedeliveryAccepted == KnownDocuments = IF HasAttachments THEN {"attachment"} ELSE {}

=============================================================================
