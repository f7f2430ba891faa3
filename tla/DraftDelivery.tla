--------------------------- MODULE DraftDelivery ---------------------------
(***************************************************************************)
(* The answer to the sender of a Gmail case: a draft is prepared, edited   *)
(* and sent, from the dashboard or by one-time buttons in Telegram.  Its   *)
(* text lives in the case document, twice (correction_draft and the older  *)
(* top-level fields), and, in live mode, in a Gmail draft that people can  *)
(* edit and send in Gmail itself.                                          *)
(*                                                                         *)
(* A handler is one HTTP request: a dashboard session that was shown the   *)
(* case and then makes one request about it, or one Telegram webhook call. *)
(* Each action is one Firestore call or one Gmail call; handlers           *)
(* interleave between them and may die between them.  Drafts and buttons   *)
(* bear the name of the handler that made them.  The case exists, is done  *)
(* processing, and its alert with an approve and a decline button is out;  *)
(* each time it is processed again, another alert goes out.                *)
(***************************************************************************)
EXTENDS Integers, FiniteSets

CONSTANTS
    Texts,           \* subject and body of a draft; equal texts, equal hashes
    Sessions,        \* dashboard sessions, one request each
    Presses,         \* presses of Telegram buttons
    ApproveButtons, DeclineButtons, \* of the alerts about the case, one pair each
    MaxRequests,     \* bound on the requests and presses that are made
    MaxDisturbances  \* bound on what comes from outside: updates by other components,
                     \* drafts edited or sent in Gmail, handlers that die

Handlers == Sessions \cup Presses
Buttons == Handlers \cup ApproveButtons \cup DeclineButtons

ASSUME HandlerAssumption ==
    /\ Sessions \cap Presses = {}
    /\ ApproveButtons \cap DeclineButtons = {}
    /\ Handlers \cap (ApproveButtons \cup DeclineButtons) = {}

ASSUME TextAssumption == "none" \notin Texts

ASSUME BoundAssumption == MaxRequests \in Nat /\ MaxDisturbances \in Nat

VARIABLES
    \* the case document
    version,   \* version
    draft,     \* correction_draft
    top,       \* draft_state, draft_subject/body/hash, has_live_gmail, gmail_draft_id
    sentRef,   \* gmail_sent_message_id: the draft that was sent, if one was
    decision,  \* review_decision
    \* services
    gmail,     \* Gmail drafts: absent, draft or sent; their text; the approval they were sent on
    button,    \* telegram_actions
    \* handlers: program counter and locals
    pc,
    ver,       \* the version shown, later the expected_version of the final write
    txt,       \* the text shown, written or approved
    seen,      \* the draft fields the handler read, or is about to store
    pressed,   \* the button a press came from
    \* history and bounds
    swapped,      \* a Gmail draft changed between its verification and its sending
    raced,        \* the case changed under a handler that was sending
    announced,    \* by approve button: the draft and the decision its alert was about
    disturbances  \* how often something came from outside

caseVars == <<version, draft, top, sentRef, decision>>
locals == <<ver, txt, seen, pressed>>
history == <<swapped, raced, announced, disturbances>>
vars == <<caseVars, gmail, button, pc, locals, history>>

NoText == "none"
NoDraft == [state |-> "none", text |-> NoText, mode |-> "none", ref |-> {}]
NoMail == [st |-> "absent", text |-> NoText, by |-> {}]
NoButton == [kind |-> "none", version |-> 0, text |-> NoText, used |-> TRUE]

\* What an alert is about.
Announcement == [draft |-> draft, decision |-> decision]

\* send_review_alert: a pair of buttons bears the version of the case.
AlertButtons(buttons, a, d, v) ==
    [buttons EXCEPT ![a] = [kind |-> "approve", version |-> v, text |-> NoText, used |-> FALSE],
                    ![d] = [kind |-> "decline", version |-> v, text |-> NoText, used |-> FALSE]]

Init ==
    /\ version = 0 /\ draft = NoDraft /\ top = NoDraft /\ sentRef = {} /\ decision = "none"
    /\ gmail = [h \in Handlers |-> NoMail]
    /\ \E a \in ApproveButtons, d \in DeclineButtons :
          button = AlertButtons([b \in Buttons |-> NoButton], a, d, 0)
    /\ pc = [h \in Handlers |-> "idle"]
    /\ ver = [h \in Handlers |-> 0] /\ txt = [h \in Handlers |-> NoText]
    /\ seen = [h \in Handlers |-> NoDraft] /\ pressed = [h \in Handlers |-> {}]
    /\ swapped = FALSE /\ raced = FALSE /\ disturbances = 0
    /\ announced = [a \in ApproveButtons |-> Announcement]

-----------------------------------------------------------------------------
Step(h, from, to) == pc[h] = from /\ pc' = [pc EXCEPT ![h] = to]

\* Another request or press may be made.
MayStart == Cardinality({h \in Handlers : pc[h] # "idle"}) < MaxRequests

\* The handlers between reading the case and recording that its draft was sent.
Sending == {h \in Handlers : pc[h] \in {"check", "send", "record"}}

\* A write of the case that leaves the version one higher; h makes it.
Bump(h) ==
    /\ version' = version + 1
    /\ raced' = (raced \/ Sending \ {h} # {})

\* A handler that returns forgets its locals.
Return(h, from) ==
    /\ Step(h, from, "done")
    /\ ver' = [ver EXCEPT ![h] = 0] /\ txt' = [txt EXCEPT ![h] = NoText]
    /\ seen' = [seen EXCEPT ![h] = NoDraft] /\ pressed' = [pressed EXCEPT ![h] = {}]

\* ... without having changed anything: an error, or nothing to do.
Refuse(h, from) ==
    /\ Return(h, from)
    /\ UNCHANGED <<caseVars, gmail, button, history>>

\* The write a handler made under expected_version meets a newer version.
StaleWrite(h) ==
    /\ pc[h] \in {"store", "save", "record", "confirm", "approve"} /\ version # ver[h]
    /\ Refuse(h, pc[h])

\* What a text change in Gmail means for a handler about to send that draft.
Swap(g) == swapped' = (swapped \/ \E h \in Handlers : pc[h] = "send" /\ g \in seen[h].ref)

Live(d) == d.mode = "live" /\ d.ref # {}

-----------------------------------------------------------------------------
(* The dashboard: the case detail, then one request about it *)

Open(s) ==
    /\ MayStart
    /\ Step(s, "idle", "shown")
    /\ ver' = [ver EXCEPT ![s] = version] /\ txt' = [txt EXCEPT ![s] = draft.text]
    /\ UNCHANGED <<caseVars, gmail, button, seen, pressed, history>>

\* The version the request carries is not the case's any more, or there is no
\* draft of the kind the request needs: 409 or 400.
RefuseRequest(s) ==
    /\ version # ver[s] \/ draft.state = "none" \/ ~Live(draft)
    /\ Refuse(s, "shown")

\* A correction reply is generated from the case as read now.
StartDraft(h, from) ==
    /\ Step(h, from, "create")
    /\ ver' = [ver EXCEPT ![h] = version]
    /\ \E t \in Texts : txt' = [txt EXCEPT ![h] = t]
    /\ UNCHANGED <<caseVars, gmail, button, seen, pressed, history>>

\* prepare_draft, where expected_version is optional, and review with DECLINE of a
\* Gmail case, where it is not: the steps of the second are among these.
RequestPrepare(s) == StartDraft(s, "shown")

\* update_draft: the draft is read and the version compared.
RequestEdit(s) ==
    /\ draft.state # "none" /\ version = ver[s]
    /\ Step(s, "shown", IF Live(draft) THEN "sync" ELSE "save")
    /\ \E t \in Texts : txt' = [txt EXCEPT ![s] = t]
    /\ seen' = [seen EXCEPT ![s] = draft]
    /\ UNCHANGED <<caseVars, gmail, button, ver, pressed, history>>

\* Slip: the version is only compared when the outcome is stored.
RequestSendUnversioned(s) ==
    /\ Live(draft)
    /\ Step(s, "shown", "check")
    /\ seen' = [seen EXCEPT ![s] = draft]
    /\ UNCHANGED <<caseVars, gmail, button, ver, txt, pressed, history>>

\* send_draft: version and content hash are those the reviewer was shown.
RequestSend(s) ==
    /\ Live(draft) /\ version = ver[s]
    /\ Step(s, "shown", "check")
    /\ seen' = [seen EXCEPT ![s] = draft]
    /\ UNCHANGED <<caseVars, gmail, button, ver, txt, pressed, history>>

\* confirm_sent_draft: expected_version is optional, the version read just now
\* guards the write.
RequestConfirm(s) ==
    /\ draft.state # "none"
    /\ Step(s, "shown", "confirm")
    /\ ver' = [ver EXCEPT ![s] = version]
    /\ seen' = [seen EXCEPT ![s] = draft]
    /\ UNCHANGED <<caseVars, gmail, button, txt, pressed, history>>

Request(s) ==
    RequestPrepare(s) \/ RequestEdit(s) \/ RequestSend(s) \/ RequestConfirm(s) \/ RefuseRequest(s)

-----------------------------------------------------------------------------
(* Telegram: _handle_callback *)

\* Slip: a used button works again.
ConsumeUsed(p, b) ==
    /\ MayStart
    /\ Step(p, "idle", "pressed")
    /\ button[b].kind # "none"
    /\ button' = [button EXCEPT ![b].used = TRUE]
    /\ pressed' = [pressed EXCEPT ![p] = {b}]
    /\ UNCHANGED <<caseVars, gmail, ver, txt, seen, history>>

\* consume_action: one transaction; a used button does nothing.
Consume(p, b) ==
    /\ MayStart
    /\ Step(p, "idle", "pressed")
    /\ button[b].kind # "none" /\ ~button[b].used
    /\ button' = [button EXCEPT ![b].used = TRUE]
    /\ pressed' = [pressed EXCEPT ![p] = {b}]
    /\ UNCHANGED <<caseVars, gmail, ver, txt, seen, history>>

\* The case is read; the version the button carries is not compared with it.
Take(p, b, to) ==
    /\ Step(p, "pressed", to)
    /\ ver' = [ver EXCEPT ![p] = button[b].version]
    /\ txt' = [txt EXCEPT ![p] = button[b].text]
    /\ seen' = [seen EXCEPT ![p] = draft]
    /\ UNCHANGED <<caseVars, gmail, button, pressed, history>>

\* Fields without a decision, which another component keeps, may forbid approval.
PressApprove(p, b) ==
    /\ button[b].kind = "approve"
    /\ Take(p, b, "approve") \/ Refuse(p, "pressed")

PressDecline(p, b) ==
    /\ button[b].kind = "decline"
    /\ StartDraft(p, "pressed")

\* The draft is the one the top-level fields name, which CopiesAgree says is the
\* one of correction_draft.
PressSend(p, b) ==
    /\ button[b].kind = "send_draft"
    /\ \/ draft.mode = "live" /\ top.ref # {} /\ Take(p, b, "check")
       \/ ~(draft.mode = "live" /\ top.ref # {}) /\ Refuse(p, "pressed")

PressConfirm(p, b) ==
    /\ button[b].kind = "confirm_sent"
    /\ draft.state # "none"
    /\ Take(p, b, "confirm")

Press(p) ==
    \/ \E b \in Buttons : Consume(p, b)
    \/ \E b \in pressed[p] :
          PressApprove(p, b) \/ PressDecline(p, b) \/ PressSend(p, b) \/ PressConfirm(p, b)

\* Slip: approval without expected_version.
ApproveUnversioned(p) ==
    /\ decision' = "APPROVE"
    /\ Bump(p)
    /\ Return(p, "approve")
    /\ UNCHANGED <<draft, top, sentRef, gmail, button, swapped, announced, disturbances>>

Approve(p) ==
    /\ version = ver[p]
    /\ decision' = "APPROVE"
    /\ Bump(p)
    /\ Return(p, "approve")
    /\ UNCHANGED <<draft, top, sentRef, gmail, button, swapped, announced, disturbances>>

-----------------------------------------------------------------------------
(* create_case_draft *)

\* create_reply_draft answers with the id of the new Gmail draft.
CreateLive(h) ==
    /\ Step(h, "create", "store")
    /\ gmail' = [gmail EXCEPT ![h] = [st |-> "draft", text |-> txt[h], by |-> {}]]
    /\ seen' = [seen EXCEPT ![h] = [state |-> "READY", text |-> txt[h],
                                    mode |-> "live", ref |-> {h}]]
    /\ UNCHANGED <<caseVars, button, ver, txt, pressed, history>>

\* It raises, whether or not Gmail made the draft: fall back to a compose link.
CreateCompose(h) ==
    /\ Step(h, "create", "store")
    /\ \/ gmail' = gmail
       \/ gmail' = [gmail EXCEPT ![h] = [st |-> "draft", text |-> txt[h], by |-> {}]]
    /\ seen' = [seen EXCEPT ![h] = [state |-> "READY", text |-> txt[h],
                                    mode |-> "compose", ref |-> {}]]
    /\ UNCHANGED <<caseVars, button, ver, txt, pressed, history>>

\* The draft fields are stored under the version the case was read with.
StoreDraft(h) ==
    /\ version = ver[h]
    /\ Step(h, "store", "offer")
    /\ draft' = seen[h] /\ top' = seen[h]
    /\ Bump(h)
    /\ ver' = [ver EXCEPT ![h] = version + 1]
    /\ UNCHANGED <<sentRef, decision, gmail, button, txt, seen, pressed, swapped, announced, disturbances>>

\* The owner's chat gets a button good for the stored version and text.
Offer(h) ==
    /\ button' = [button EXCEPT ![h] =
          [kind |-> IF seen[h].mode = "live" THEN "send_draft" ELSE "confirm_sent",
           version |-> ver[h], text |-> txt[h], used |-> FALSE]]
    /\ Return(h, "offer")
    /\ UNCHANGED <<caseVars, gmail, history>>

-----------------------------------------------------------------------------
(* update_draft *)

\* The Gmail draft is overwritten first ...
SyncDraft(h) ==
    /\ Step(h, "sync", "save")
    /\ \E g \in seen[h].ref :
          /\ gmail[g].st = "draft"
          /\ gmail' = [gmail EXCEPT ![g].text = txt[h]]
          /\ IF gmail[g].text = txt[h] THEN UNCHANGED swapped ELSE Swap(g)
    /\ UNCHANGED <<caseVars, button, locals, raced, announced, disturbances>>

\* ... or it is gone or Gmail fails: 502.
SyncFails(h) == Refuse(h, "sync")

\* Slip: the edit is stored without expected_version.
SaveUnversioned(h) ==
    /\ draft' = [seen[h] EXCEPT !.text = txt[h]]
    /\ top' = [top EXCEPT !.text = txt[h]]
    /\ Bump(h)
    /\ Return(h, "save")
    /\ UNCHANGED <<sentRef, decision, gmail, button, swapped, announced, disturbances>>

\* ... then the case is updated under the version of the request.
SaveDraft(h) ==
    /\ version = ver[h]
    /\ draft' = [seen[h] EXCEPT !.text = txt[h]]
    /\ top' = [top EXCEPT !.text = txt[h]]
    /\ Bump(h)
    /\ Return(h, "save")
    /\ UNCHANGED <<sentRef, decision, gmail, button, swapped, announced, disturbances>>

-----------------------------------------------------------------------------
(* Sending: the dashboard's send_draft and the Telegram button alike *)

\* Slip: the content in Gmail is not compared.
CheckNothing(h) ==
    /\ Step(h, "check", "send")
    /\ \E g \in seen[h].ref : gmail[g].st = "draft"
    /\ UNCHANGED <<caseVars, gmail, button, locals, history>>

\* get_draft_content: what is in Gmail is what was approved.
CheckDraft(h) ==
    /\ Step(h, "check", "send")
    /\ \E g \in seen[h].ref : gmail[g].st = "draft" /\ gmail[g].text = txt[h]
    /\ UNCHANGED <<caseVars, gmail, button, locals, history>>

\* The draft was changed or is gone.
DraftChanged(h) ==
    /\ \A g \in seen[h].ref : gmail[g].st # "draft" \/ gmail[g].text # txt[h]
    /\ Refuse(h, "check")

\* gmail.send_draft: the mail leaves with the text it has in Gmail now.
SendDraft(h) ==
    /\ Step(h, "send", "record")
    /\ \E g \in seen[h].ref :
          /\ gmail[g].st = "draft"
          /\ gmail' = [gmail EXCEPT ![g].st = "sent",
                                    ![g].by = IF h \in Presses THEN pressed[h] ELSE {h}]
    /\ UNCHANGED <<caseVars, button, locals, history>>

\* Gmail refuses, or somebody sent the draft meanwhile.
SendFails(h) == Refuse(h, "send")

\* Slip: the outcome is stored without expected_version.
RecordUnversioned(h) ==
    /\ draft' = [seen[h] EXCEPT !.state = "SENT"]
    /\ top' = [top EXCEPT !.state = "SENT"]
    /\ sentRef' = seen[h].ref /\ decision' = "DECLINE"
    /\ Bump(h)
    /\ Return(h, "record")
    /\ UNCHANGED <<gmail, button, swapped, announced, disturbances>>

RecordSent(h) ==
    /\ version = ver[h]
    /\ draft' = [seen[h] EXCEPT !.state = "SENT"]
    /\ top' = [top EXCEPT !.state = "SENT"]
    /\ sentRef' = seen[h].ref /\ decision' = "DECLINE"
    /\ Bump(h)
    /\ Return(h, "record")
    /\ UNCHANGED <<gmail, button, swapped, announced, disturbances>>

\* Slip: the confirmation is stored without expected_version.
ConfirmUnversioned(h) ==
    /\ draft' = [seen[h] EXCEPT !.state = "SENT"]
    /\ top' = [top EXCEPT !.state = "SENT"]
    /\ decision' = "DECLINE"
    /\ Bump(h)
    /\ Return(h, "confirm")
    /\ UNCHANGED <<sentRef, gmail, button, swapped, announced, disturbances>>

\* Somebody says the composed mail was sent.
ConfirmSent(h) ==
    /\ version = ver[h]
    /\ draft' = [seen[h] EXCEPT !.state = "SENT"]
    /\ top' = [top EXCEPT !.state = "SENT"]
    /\ decision' = "DECLINE"
    /\ Bump(h)
    /\ Return(h, "confirm")
    /\ UNCHANGED <<sentRef, gmail, button, swapped, announced, disturbances>>

Continue(h) ==
    \/ CreateLive(h) \/ CreateCompose(h) \/ StoreDraft(h) \/ Offer(h)
    \/ SyncDraft(h) \/ SyncFails(h) \/ SaveDraft(h)
    \/ CheckDraft(h) \/ DraftChanged(h) \/ SendDraft(h) \/ SendFails(h) \/ RecordSent(h)
    \/ ConfirmSent(h) \/ Approve(h) \/ StaleWrite(h)

-----------------------------------------------------------------------------
(* From outside *)

Disturb ==
    /\ disturbances < MaxDisturbances
    /\ disturbances' = disturbances + 1

\* Another component writes the case and leaves its draft alone.
Written ==
    /\ version' = version + 1 /\ raced' = (raced \/ Sending # {})
    /\ UNCHANGED <<draft, top, sentRef, gmail, pc, locals, swapped>>

\* It leaves the decision alone, too: a step of a category workflow, a verdict on a field.
OtherUpdate ==
    /\ Disturb /\ Written
    /\ UNCHANGED <<decision, button, announced>>

\* The case is queued for processing again.
Retry ==
    /\ Disturb /\ Written
    /\ decision' = "none" /\ UNCHANGED <<button, announced>>

\* The dashboard approves the case, as approve_si and complete_category_case do: the
\* version is compared, the decision there is so far is not.
ReviewApprove ==
    /\ Disturb /\ Written
    /\ decision' = "APPROVE" /\ UNCHANGED <<button, announced>>

\* A worker completes the case, whatever was written while it was at work, and alerts
\* the owner to the case it leaves.
Reprocess(a, d) ==
    /\ Written /\ UNCHANGED <<decision, disturbances>>
    /\ button[a].kind = "none" /\ button[d].kind = "none"
    /\ button' = AlertButtons(button, a, d, version')
    /\ announced' = [announced EXCEPT ![a] = Announcement]

Rewrite ==
    \/ OtherUpdate \/ Retry \/ ReviewApprove
    \/ \E a \in ApproveButtons, d \in DeclineButtons : Reprocess(a, d)

\* Somebody edits a draft in Gmail.
EditInGmail(g) ==
    /\ gmail[g].st = "draft"
    /\ Disturb
    /\ \E t \in Texts \ {gmail[g].text} : gmail' = [gmail EXCEPT ![g].text = t]
    /\ Swap(g)
    /\ UNCHANGED <<caseVars, button, pc, locals, raced, announced>>

\* Somebody sends a draft in Gmail.
SendInGmail(g) ==
    /\ gmail[g].st = "draft"
    /\ Disturb
    /\ gmail' = [gmail EXCEPT ![g].st = "sent"]
    /\ UNCHANGED <<caseVars, button, pc, locals, swapped, raced, announced>>

\* A handler raises or its instance dies.
Crash(h) ==
    /\ pc[h] \notin {"idle", "shown", "done"}
    /\ Disturb
    /\ Return(h, pc[h])
    /\ UNCHANGED <<caseVars, gmail, button, swapped, raced, announced>>

\* Nothing is half-way; nobody has to make a request or press a button.
Quiescent ==
    /\ \A h \in Handlers : pc[h] \in {"idle", "shown", "done"}
    /\ UNCHANGED vars

Next ==
    \/ \E s \in Sessions : Open(s) \/ Request(s)
    \/ \E p \in Presses : Press(p)
    \/ \E h \in Handlers : Continue(h) \/ Crash(h)
    \/ \E g \in Handlers : EditInGmail(g) \/ SendInGmail(g)
    \/ Rewrite
    \/ Quiescent

Spec == Init /\ [][Next]_vars

-----------------------------------------------------------------------------
(* Properties *)

Drafts == [state : {"none", "READY", "SENT"}, text : Texts \cup {NoText},
           mode : {"none", "live", "compose"}, ref : SUBSET Handlers]

PcStates == {"idle", "shown", "create", "store", "offer", "sync", "save", "check",
             "send", "record", "confirm", "pressed", "approve", "done"}

\* Every variable has its type.
TypeOK ==
    /\ version \in Nat /\ draft \in Drafts /\ top \in Drafts
    /\ sentRef \in SUBSET Handlers /\ decision \in {"none", "APPROVE", "DECLINE"}
    /\ gmail \in [Handlers -> [st : {"absent", "draft", "sent"}, text : Texts \cup {NoText},
                               by : SUBSET Buttons]]
    /\ button \in [Buttons ->
          [kind : {"none", "approve", "decline", "send_draft", "confirm_sent"},
           version : Nat, text : Texts \cup {NoText}, used : BOOLEAN]]
    /\ pc \in [Handlers -> PcStates]
    /\ ver \in [Handlers -> Nat] /\ txt \in [Handlers -> Texts \cup {NoText}]
    /\ seen \in [Handlers -> Drafts] /\ pressed \in [Handlers -> SUBSET Buttons]
    /\ swapped \in BOOLEAN /\ raced \in BOOLEAN /\ disturbances \in Nat
    /\ announced \in [ApproveButtons ->
          [draft : Drafts, decision : {"none", "APPROVE", "DECLINE"}]]

\* The two copies of the draft in the case document never differ, whichever
\* requests overlap: every write of either is made from the version it was read at.
CopiesAgree == draft = top

\* A case is recorded as sent, and a Telegram confirmation is recorded, only while
\* it shows the very draft and text that were approved.
SentAsApproved ==
    [][\A h \in Handlers :
          /\ pc[h] = "record" \/ (pc[h] = "confirm" /\ h \in Presses)
          /\ pc'[h] = "done" /\ version' # version
          => draft.text = txt[h] /\ (pc[h] = "record" => draft.ref = seen[h].ref)]_vars

\* The mail a handler sends has the text that was approved, and the mail a case records
\* has the text the case shows beside it, unless somebody changed the draft in Gmail
\* between its verification and its sending.
MailAsApproved ==
    ~swapped =>
        /\ \A h \in Handlers : pc[h] = "record" =>
              \A g \in seen[h].ref : gmail[g].st = "sent" /\ gmail[g].text = txt[h]
        /\ draft.state = "SENT" /\ sentRef = draft.ref =>
              \A g \in sentRef : gmail[g].st = "sent" /\ gmail[g].text = draft.text

\* A button is worth one press, whoever presses it and however often Telegram delivers
\* the press, and one approval, a request or a button, sends one mail at most.
OneMailPerApproval ==
    \A g, h \in Handlers : g # h =>
        /\ pressed[g] \cap pressed[h] = {}
        /\ gmail[g].by \cap gmail[h].by = {}

\* A mail sent from the dashboard can be recorded, unless the case changed while
\* the request was sending it.
DashboardMailRecordable ==
    \A s \in Sessions : pc[s] = "record" /\ ~raced => version = ver[s]

\* The answer keeps its contract: whichever requests and presses overlap, die or are
\* repeated, a case records only a mail it names, that was sent, with the text it shows,
\* and never rewords it afterwards; every approval sends one mail at most; an answer that
\* was sent is not taken back except by a new one; and a case is declined only with an
\* answer recorded or confirmed as sent.
Contract == INSTANCE ReplyContract WITH
    Mails <- Handlers, Approvals <- Buttons, None <- NoText,
    reply <- [state |-> draft.state, text |-> draft.text, ref |-> draft.ref],
    recorded <- sentRef, mail <- gmail

ImplementsReplyContract == Contract!Spec

\* A press approves the case its alert was about: it has the draft and the decision it
\* had then.  A draft prepared or sent and a decision made after the alert are never
\* approved or overridden by its button, however late it is pressed and however many
\* alerts are out.
ApprovalNotStale ==
    [][\A p \in Presses :
          pc[p] = "approve" /\ pc'[p] = "done" /\ version' # version =>
              \E a \in ApproveButtons : a \in pressed[p] /\ announced[a] = Announcement]_vars

-----------------------------------------------------------------------------
(* What the documentation says, and the code does not do *)

\* README.md:264, "the API verifies version and content-hash checksums before
\* sending": whoever is about to send has verified the version.
VersionVerifiedBeforeSending ==
    \A h \in Handlers : pc[h] = "send" /\ ~raced => version = ver[h]

\* README.md:36, "Optimistic concurrency control ... prevents concurrent reviewer
\* overwrites": once nothing is half-way, the live draft is the one of the case.
GmailMatchesCase ==
    draft.state = "READY" /\ (\A h \in Handlers : pc[h] \in {"idle", "shown", "done"}) =>
        \A g \in draft.ref : gmail[g].st = "draft" => gmail[g].text = draft.text

=============================================================================
