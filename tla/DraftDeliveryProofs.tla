------------------------ MODULE DraftDeliveryProofs -------------------------
(***************************************************************************)
(* What DraftDelivery promises, for any number of requests, presses, texts *)
(* and disturbances.                                                       *)
(*                                                                         *)
(* While the case has the version a handler holds, it has the draft that   *)
(* handler read (DraftInv).  A button or a session sends once (MailInv),   *)
(* and a mail has the text it was verified with (TextInv).  Together they  *)
(* show that every step is one of ReplyContract or stands still.  While    *)
(* the case has the version of an alert's button, it is as the alert       *)
(* announced it (AlertInv).                                                *)
(***************************************************************************)
EXTENDS DraftDelivery, TLAPS

-----------------------------------------------------------------------------
(* Types *)

LEMMA StepType ==
    ASSUME TypeOK, NEW h \in Handlers, NEW from, NEW to \in PcStates, Step(h, from, to)
    PROVE  pc' \in [Handlers -> PcStates]
BY DEF Step, TypeOK

LEMMA BumpType ==
    ASSUME TypeOK, NEW h, Bump(h)
    PROVE  version' \in Nat /\ raced' \in BOOLEAN
<1>1. version \in Nat /\ raced \in BOOLEAN
  BY DEF TypeOK
<1> QED
  BY <1>1 DEF Bump

LEMMA DisturbType ==
    ASSUME TypeOK, Disturb
    PROVE  disturbances' \in Nat
<1>1. disturbances \in Nat
  BY DEF TypeOK
<1> QED
  BY <1>1 DEF Disturb

LEMMA ConstantTypes ==
    /\ NoText \in Texts \cup {NoText} /\ NoDraft \in Drafts
    /\ NoMail \in [st : {"absent", "draft", "sent"}, text : Texts \cup {NoText}, by : SUBSET Buttons]
    /\ NoButton \in [kind : {"none", "approve", "decline", "send_draft", "confirm_sent"},
                     version : Nat, text : Texts \cup {NoText}, used : BOOLEAN]
BY DEF NoText, NoDraft, Drafts, NoMail, NoButton

LEMMA ReturnType ==
    ASSUME TypeOK, NEW h \in Handlers, NEW from, Return(h, from)
    PROVE  /\ pc' \in [Handlers -> PcStates] /\ ver' \in [Handlers -> Nat]
           /\ txt' \in [Handlers -> Texts \cup {NoText}]
           /\ seen' \in [Handlers -> Drafts] /\ pressed' \in [Handlers -> SUBSET Buttons]
<1>1. pc' \in [Handlers -> PcStates]
  BY StepType DEF Return, PcStates
<1> QED
  BY <1>1, ConstantTypes DEF Return, TypeOK

LEMMA RefuseType ==
    ASSUME TypeOK, NEW h \in Handlers, NEW from, Refuse(h, from)
    PROVE  TypeOK'
BY ReturnType DEF Refuse, TypeOK, caseVars, history

\* A draft with another state or text is a draft.
LEMMA DraftTypes ==
    ASSUME NEW d \in Drafts, NEW t \in Texts \cup {NoText}
    PROVE  [d EXCEPT !.text = t] \in Drafts /\ [d EXCEPT !.state = "SENT"] \in Drafts
BY DEF Drafts

\* Gmail drafts may be edited and sent; seen drafts name Gmail drafts.
LEMMA GmailTypes ==
    ASSUME TypeOK, NEW g \in Handlers, NEW t \in Texts \cup {NoText},
           NEW by \in SUBSET Buttons,
           \/ gmail' = [gmail EXCEPT ![g].text = t]
           \/ gmail' = [gmail EXCEPT ![g].st = "sent"]
           \/ gmail' = [gmail EXCEPT ![g].st = "sent", ![g].by = by]
    PROVE  gmail' \in [Handlers -> [st : {"absent", "draft", "sent"},
                                   text : Texts \cup {NoText}, by : SUBSET Buttons]]
<1>1. gmail \in [Handlers -> [st : {"absent", "draft", "sent"}, text : Texts \cup {NoText},
                             by : SUBSET Buttons]]
  BY DEF TypeOK
<1> QED
  BY <1>1

LEMMA RefType ==
    ASSUME TypeOK, NEW h \in Handlers
    PROVE  seen[h] \in Drafts /\ seen[h].ref \subseteq Handlers
BY DEF TypeOK, Drafts

LEMMA RequestType ==
    ASSUME TypeOK, NEW s \in Sessions, Open(s) \/ Request(s)
    PROVE  TypeOK'
<1> s \in Handlers
  BY DEF Handlers
<1>1. CASE Open(s)
  <2>1. pc' \in [Handlers -> PcStates]
    BY <1>1, StepType DEF Open, PcStates
  <2>2. draft.text \in Texts \cup {NoText}
    BY DEF TypeOK, Drafts
  <2> QED
    BY <1>1, <2>1, <2>2 DEF Open, TypeOK, caseVars, history
<1>2. CASE RequestPrepare(s)
  <2>1. pc' \in [Handlers -> PcStates]
    BY <1>2, StepType DEF RequestPrepare, StartDraft, PcStates
  <2> QED
    BY <1>2, <2>1 DEF RequestPrepare, StartDraft, TypeOK, caseVars, history
<1>3. CASE RequestEdit(s)
  <2>1. pc' \in [Handlers -> PcStates]
    BY <1>3, StepType DEF RequestEdit, PcStates
  <2> QED
    BY <1>3, <2>1 DEF RequestEdit, TypeOK, caseVars, history
<1>4. CASE RequestSend(s)
  <2>1. pc' \in [Handlers -> PcStates]
    BY <1>4, StepType DEF RequestSend, PcStates
  <2> QED
    BY <1>4, <2>1 DEF RequestSend, TypeOK, caseVars, history
<1>5. CASE RequestConfirm(s)
  <2>1. pc' \in [Handlers -> PcStates]
    BY <1>5, StepType DEF RequestConfirm, PcStates
  <2> QED
    BY <1>5, <2>1 DEF RequestConfirm, TypeOK, caseVars, history
<1>6. CASE RefuseRequest(s)
  BY <1>6, RefuseType DEF RefuseRequest
<1> QED
  BY <1>1, <1>2, <1>3, <1>4, <1>5, <1>6 DEF Request

LEMMA PressType ==
    ASSUME TypeOK, NEW p \in Presses, Press(p)
    PROVE  TypeOK'
<1> p \in Handlers
  BY DEF Handlers
<1>1. ASSUME NEW b \in Buttons, Consume(p, b) PROVE TypeOK'
  <2>1. pc' \in [Handlers -> PcStates]
    BY <1>1, StepType DEF Consume, PcStates
  <2> QED
    BY <1>1, <2>1 DEF Consume, TypeOK, caseVars, history
<1>2. ASSUME NEW b \in Buttons, NEW to \in PcStates, Take(p, b, to) PROVE TypeOK'
  <2>1. pc' \in [Handlers -> PcStates]
    BY <1>2, StepType DEF Take
  <2> QED
    BY <1>2, <2>1 DEF Take, TypeOK, caseVars, history
<1>3. ASSUME StartDraft(p, "pressed") PROVE TypeOK'
  <2>1. pc' \in [Handlers -> PcStates]
    BY <1>3, StepType DEF StartDraft, PcStates
  <2> QED
    BY <1>3, <2>1 DEF StartDraft, TypeOK, caseVars, history
<1>4. \A b \in pressed[p] : b \in Buttons
  BY DEF TypeOK
<1> QED
  BY <1>1, <1>2, <1>3, <1>4, RefuseType
     DEF Press, PressApprove, PressDecline, PressSend, PressConfirm, PcStates

LEMMA DraftingType ==
    ASSUME TypeOK, NEW h \in Handlers,
           CreateLive(h) \/ CreateCompose(h) \/ StoreDraft(h) \/ Offer(h)
    PROVE  TypeOK'
<1>1. CASE CreateLive(h)
  <2>1. pc' \in [Handlers -> PcStates]
    BY <1>1, StepType DEF CreateLive, PcStates
  <2>2. seen' \in [Handlers -> Drafts]
    BY <1>1 DEF CreateLive, TypeOK, Drafts
  <2>3. gmail' \in [Handlers -> [st : {"absent", "draft", "sent"}, text : Texts \cup {NoText},
                               by : SUBSET Buttons]]
    BY <1>1 DEF CreateLive, TypeOK
  <2> QED
    BY <1>1, <2>1, <2>2, <2>3 DEF CreateLive, TypeOK, caseVars, history
<1>2. CASE CreateCompose(h)
  <2>1. pc' \in [Handlers -> PcStates]
    BY <1>2, StepType DEF CreateCompose, PcStates
  <2>2. seen' \in [Handlers -> Drafts]
    BY <1>2 DEF CreateCompose, TypeOK, Drafts
  <2>3. gmail' \in [Handlers -> [st : {"absent", "draft", "sent"}, text : Texts \cup {NoText},
                               by : SUBSET Buttons]]
    BY <1>2 DEF CreateCompose, TypeOK
  <2> QED
    BY <1>2, <2>1, <2>2, <2>3 DEF CreateCompose, TypeOK, caseVars, history
<1>3. CASE StoreDraft(h)
  <2>1. pc' \in [Handlers -> PcStates]
    BY <1>3, StepType DEF StoreDraft, PcStates
  <2>2. version + 1 \in Nat
    <3>1. version \in Nat
      BY DEF TypeOK
    <3> QED
      BY <3>1
  <2>3. ver' \in [Handlers -> Nat]
    BY <1>3, <2>2 DEF StoreDraft, TypeOK
  <2> QED
    BY <1>3, <2>1, <2>3, BumpType DEF StoreDraft, TypeOK
<1>4. CASE Offer(h)
  <2>1. button' \in [Buttons ->
          [kind : {"none", "approve", "decline", "send_draft", "confirm_sent"},
           version : Nat, text : Texts \cup {NoText}, used : BOOLEAN]]
    BY <1>4 DEF Offer, TypeOK
  <2> QED
    BY <1>4, <2>1, ReturnType DEF Offer, TypeOK, caseVars, history
<1> QED
  BY <1>1, <1>2, <1>3, <1>4

LEMMA SendingType ==
    ASSUME TypeOK, NEW h \in Handlers,
           \/ SyncDraft(h) \/ SyncFails(h) \/ SaveDraft(h)
           \/ CheckDraft(h) \/ DraftChanged(h) \/ SendDraft(h) \/ SendFails(h) \/ RecordSent(h)
           \/ ConfirmSent(h) \/ Approve(h) \/ StaleWrite(h)
    PROVE  TypeOK'
<1>1. CASE SyncDraft(h)
  <2>1. pc' \in [Handlers -> PcStates]
    BY <1>1, StepType DEF SyncDraft, PcStates
  <2>2. gmail' \in [Handlers -> [st : {"absent", "draft", "sent"}, text : Texts \cup {NoText},
                               by : SUBSET Buttons]]
    <3>1. txt[h] \in Texts \cup {NoText}
      BY DEF TypeOK
    <3> QED
      BY <1>1, <3>1, RefType, GmailTypes DEF SyncDraft
  <2>3. swapped' \in BOOLEAN
    BY <1>1 DEF SyncDraft, Swap, TypeOK
  <2> QED
    BY <1>1, <2>1, <2>2, <2>3 DEF SyncDraft, TypeOK, caseVars, locals
<1>2. CASE SaveDraft(h)
  <2>1. draft' \in Drafts /\ top' \in Drafts
    BY <1>2, DraftTypes DEF SaveDraft, TypeOK
  <2> QED
    BY <1>2, <2>1, BumpType, ReturnType DEF SaveDraft, TypeOK
<1>3. CASE CheckDraft(h)
  BY <1>3, StepType DEF CheckDraft, PcStates, TypeOK, caseVars, locals, history
<1>4. CASE SendDraft(h)
  <2>1. pc' \in [Handlers -> PcStates]
    BY <1>4, StepType DEF SendDraft, PcStates
  <2>2. h \in Buttons
    BY DEF Buttons
  <2>3. gmail' \in [Handlers -> [st : {"absent", "draft", "sent"}, text : Texts \cup {NoText},
                               by : SUBSET Buttons]]
    <3>1. pressed[h] \in SUBSET Buttons /\ {h} \in SUBSET Buttons
      BY <2>2 DEF TypeOK
    <3> QED
      BY <1>4, <3>1, RefType, GmailTypes DEF SendDraft
  <2> QED
    BY <1>4, <2>1, <2>3 DEF SendDraft, TypeOK, caseVars, locals, history
<1>5. CASE RecordSent(h)
  <2>1. draft' \in Drafts /\ top' \in Drafts
    BY <1>5, DraftTypes, ConstantTypes DEF RecordSent, TypeOK
  <2>2. sentRef' \in SUBSET Handlers
    BY <1>5 DEF RecordSent, TypeOK, Drafts
  <2> QED
    BY <1>5, <2>1, <2>2, BumpType, ReturnType DEF RecordSent, TypeOK
<1>6. CASE ConfirmSent(h)
  <2>1. draft' \in Drafts /\ top' \in Drafts
    BY <1>6, DraftTypes, ConstantTypes DEF ConfirmSent, TypeOK
  <2> QED
    BY <1>6, <2>1, BumpType, ReturnType DEF ConfirmSent, TypeOK
<1>7. CASE Approve(h)
  BY <1>7, BumpType, ReturnType DEF Approve, TypeOK
<1>8. CASE SyncFails(h) \/ DraftChanged(h) \/ SendFails(h) \/ StaleWrite(h)
  BY <1>8, RefuseType DEF SyncFails, DraftChanged, SendFails, StaleWrite
<1> QED
  BY <1>1, <1>2, <1>3, <1>4, <1>5, <1>6, <1>7, <1>8

\* Whoever writes the case from outside leaves its draft alone ...
LEMMA RewriteWrites ==
    ASSUME Rewrite
    PROVE  /\ version' = version + 1 /\ raced' = (raced \/ Sending # {})
           /\ UNCHANGED <<draft, top, sentRef, gmail, pc, locals, swapped>>
           /\ decision' \in {decision, "none", "APPROVE"}
BY DEF Rewrite, OtherUpdate, Retry, ReviewApprove, Reprocess, Written

\* ... and makes no buttons but those of a new alert.
NewButton(kind) == [kind |-> kind, version |-> version', text |-> NoText, used |-> FALSE]

LEMMA RewriteButtons ==
    ASSUME TypeOK, Rewrite, NEW b \in Buttons
    PROVE  \/ button'[b] = button[b] /\ (b \in ApproveButtons => announced'[b] = announced[b])
           \/ /\ b \in ApproveButtons /\ button[b].kind = "none"
              /\ button'[b] = NewButton("approve")
              /\ announced'[b] = Announcement /\ UNCHANGED decision
           \/ /\ b \in DeclineButtons /\ button[b].kind = "none"
              /\ button'[b] = NewButton("decline")
<1>1. CASE OtherUpdate \/ Retry \/ ReviewApprove
  BY <1>1 DEF OtherUpdate, Retry, ReviewApprove
<1>2. CASE \E a \in ApproveButtons, d \in DeclineButtons : Reprocess(a, d)
  <2>1. PICK a \in ApproveButtons, d \in DeclineButtons : Reprocess(a, d)
    BY <1>2
  <2>2. a # d /\ a \in Buttons /\ d \in Buttons
    BY HandlerAssumption DEF Buttons
  <2>3. /\ button[a].kind = "none" /\ button[d].kind = "none" /\ UNCHANGED decision
        /\ button' = AlertButtons(button, a, d, version')
        /\ announced' = [announced EXCEPT ![a] = Announcement]
    BY <2>1 DEF Reprocess
  <2>4. /\ button'[a] = NewButton("approve") /\ button'[d] = NewButton("decline")
        /\ \A c \in Buttons \ {a, d} : button'[c] = button[c]
    BY <2>2, <2>3 DEF AlertButtons, NewButton, TypeOK
  <2>5. announced'[a] = Announcement /\ \A c \in ApproveButtons \ {a} : announced'[c] = announced[c]
    BY <2>3 DEF TypeOK
  <2> QED
    BY <2>3, <2>4, <2>5, HandlerAssumption
<1> QED
  BY <1>1, <1>2 DEF Rewrite

LEMMA AlertTypes ==
    ASSUME NEW a, NEW d, NEW v \in Nat,
           NEW buttons \in [Buttons ->
               [kind : {"none", "approve", "decline", "send_draft", "confirm_sent"},
                version : Nat, text : Texts \cup {NoText}, used : BOOLEAN]]
    PROVE  AlertButtons(buttons, a, d, v) \in [Buttons ->
               [kind : {"none", "approve", "decline", "send_draft", "confirm_sent"},
                version : Nat, text : Texts \cup {NoText}, used : BOOLEAN]]
<1>1. \A kind \in {"approve", "decline"} :
          [kind |-> kind, version |-> v, text |-> NoText, used |-> FALSE] \in
              [kind : {"none", "approve", "decline", "send_draft", "confirm_sent"},
               version : Nat, text : Texts \cup {NoText}, used : BOOLEAN]
  BY ConstantTypes
<1> QED
  BY <1>1 DEF AlertButtons

LEMMA OutsideType ==
    ASSUME TypeOK,
           \/ Rewrite
           \/ \E g \in Handlers : EditInGmail(g) \/ SendInGmail(g)
           \/ \E h \in Handlers : Crash(h)
    PROVE  TypeOK'
<1>1. CASE Rewrite
  <2>1. version' \in Nat
    <3>1. version \in Nat
      BY DEF TypeOK
    <3> QED
      BY <1>1, <3>1, RewriteWrites
  <2>2. raced' \in BOOLEAN /\ decision' \in {"none", "APPROVE", "DECLINE"}
    BY <1>1, RewriteWrites DEF TypeOK
  <2>3. disturbances' \in Nat
    <3>1. CASE Disturb
      BY <3>1, DisturbType
    <3>2. CASE UNCHANGED disturbances
      BY <3>2 DEF TypeOK
    <3> QED
      BY <1>1, <3>1, <3>2 DEF Rewrite, OtherUpdate, Retry, ReviewApprove, Reprocess
  <2>4. /\ button' \in [Buttons ->
              [kind : {"none", "approve", "decline", "send_draft", "confirm_sent"},
               version : Nat, text : Texts \cup {NoText}, used : BOOLEAN]]
        /\ announced' \in [ApproveButtons ->
              [draft : Drafts, decision : {"none", "APPROVE", "DECLINE"}]]
    <3>1. CASE UNCHANGED <<button, announced>>
      BY <3>1 DEF TypeOK
    <3>2. ASSUME NEW a \in ApproveButtons, NEW d \in DeclineButtons, Reprocess(a, d)
          PROVE  /\ button' = AlertButtons(button, a, d, version')
                 /\ announced' = [announced EXCEPT ![a] = Announcement]
      BY <3>2 DEF Reprocess
    <3>3. Announcement \in [draft : Drafts, decision : {"none", "APPROVE", "DECLINE"}]
      BY DEF Announcement, TypeOK
    <3>4. ASSUME NEW a \in ApproveButtons
          PROVE  [announced EXCEPT ![a] = Announcement] \in
                     [ApproveButtons -> [draft : Drafts, decision : {"none", "APPROVE", "DECLINE"}]]
      BY <3>3 DEF TypeOK
    <3>5. ASSUME NEW a \in ApproveButtons, NEW d \in DeclineButtons
          PROVE  AlertButtons(button, a, d, version') \in [Buttons ->
                     [kind : {"none", "approve", "decline", "send_draft", "confirm_sent"},
                      version : Nat, text : Texts \cup {NoText}, used : BOOLEAN]]
      BY <2>1, AlertTypes DEF TypeOK
    <3> QED
      BY <1>1, <3>1, <3>2, <3>4, <3>5 DEF Rewrite, OtherUpdate, Retry, ReviewApprove
  <2> QED
    BY <1>1, <2>1, <2>2, <2>3, <2>4, RewriteWrites DEF TypeOK, locals
<1>2. ASSUME NEW g \in Handlers, EditInGmail(g) PROVE TypeOK'
  <2>1. gmail' \in [Handlers -> [st : {"absent", "draft", "sent"}, text : Texts \cup {NoText},
                               by : SUBSET Buttons]]
    BY <1>2, GmailTypes DEF EditInGmail
  <2>2. swapped' \in BOOLEAN
    BY <1>2 DEF EditInGmail, Swap, TypeOK
  <2> QED
    BY <1>2, <2>1, <2>2, DisturbType DEF EditInGmail, TypeOK, caseVars, locals
<1>3. ASSUME NEW g \in Handlers, SendInGmail(g) PROVE TypeOK'
  <2>1. gmail' \in [Handlers -> [st : {"absent", "draft", "sent"}, text : Texts \cup {NoText},
                               by : SUBSET Buttons]]
    BY <1>3 DEF SendInGmail, TypeOK
  <2> QED
    BY <1>3, <2>1, DisturbType DEF SendInGmail, TypeOK, caseVars, locals
<1>4. ASSUME NEW h \in Handlers, Crash(h) PROVE TypeOK'
  BY <1>4, DisturbType, ReturnType DEF Crash, TypeOK, caseVars
<1> QED
  BY <1>1, <1>2, <1>3, <1>4

LEMMA StepTypes ==
    ASSUME TypeOK, [Next]_vars
    PROVE  TypeOK'
<1>1. CASE UNCHANGED vars
  BY <1>1 DEF vars, TypeOK, caseVars, locals, history
<1> QED
  BY <1>1, RequestType, PressType, DraftingType, SendingType, OutsideType
     DEF Next, Continue, Quiescent

LEMMA InitType == Init => TypeOK
<1> SUFFICES ASSUME Init PROVE TypeOK
  OBVIOUS
<1>1. button \in [Buttons ->
          [kind : {"none", "approve", "decline", "send_draft", "confirm_sent"},
           version : Nat, text : Texts \cup {NoText}, used : BOOLEAN]]
  <2>1. PICK a \in ApproveButtons, d \in DeclineButtons :
            button = AlertButtons([b \in Buttons |-> NoButton], a, d, 0)
    BY DEF Init
  <2>2. [b \in Buttons |-> NoButton] \in [Buttons ->
          [kind : {"none", "approve", "decline", "send_draft", "confirm_sent"},
           version : Nat, text : Texts \cup {NoText}, used : BOOLEAN]]
    BY ConstantTypes
  <2> QED
    BY <2>1, <2>2, AlertTypes
<1>2. announced \in [ApproveButtons -> [draft : Drafts, decision : {"none", "APPROVE", "DECLINE"}]]
  BY ConstantTypes DEF Init, Announcement
<1> QED
  BY <1>1, <1>2, ConstantTypes DEF Init, TypeOK, PcStates

\* Every reachable state is well-typed.
THEOREM TypeCorrect == Spec => []TypeOK
  BY InitType, StepTypes, PTL DEF Spec

-----------------------------------------------------------------------------
(* The draft and its versions *)

\* Between reading the draft and the version-checked write.
Holding == {"sync", "save", "check", "send", "record", "confirm"}

\* A handler in these states knows the text of the case.
Knowing(h) ==
    pc[h] \in {"shown", "offer", "check", "send", "record"} \/ (pc[h] = "confirm" /\ h \in Presses)

\* As long as the case has the version a handler holds, it has what the handler saw.
Promise(h) ==
    /\ ver[h] <= version
    /\ pc[h] \in Holding /\ ver[h] = version => seen[h] = draft
    /\ Knowing(h) /\ ver[h] = version => txt[h] = draft.text
    /\ pc[h] = "store" => seen[h].text = txt[h]

\* So it is with the version a button carries.
ButtonFits(b) ==
    /\ button[b].version <= version
    /\ button[b].kind \in {"send_draft", "confirm_sent"} /\ button[b].version = version =>
          button[b].text = draft.text

DraftInv ==
    /\ TypeOK
    /\ CopiesAgree
    /\ \A h \in Handlers : Promise(h)
    /\ \A b \in Buttons : ButtonFits(b)

OnlyMoves(h) ==
    \A k \in Handlers \ {h} :
        pc'[k] = pc[k] /\ ver'[k] = ver[k] /\ txt'[k] = txt[k] /\ seen'[k] = seen[k]

\* Only a new version changes the draft.
Versioned == version' = version + 1 \/ UNCHANGED <<version, draft>>

LEMMA VersionTypes ==
    ASSUME TypeOK
    PROVE  /\ version \in Nat /\ version <= version /\ 0 <= version /\ version + 1 # 0
           /\ version <= version + 1
           /\ \A n \in Nat : n <= version => n <= version + 1 /\ n # version + 1
<1>1. version \in Nat
  BY DEF TypeOK
<1> QED
  BY <1>1

LEMMA PromiseKept ==
    ASSUME TypeOK, NEW k \in Handlers, Promise(k), Versioned,
           pc'[k] = pc[k], ver'[k] = ver[k], txt'[k] = txt[k], seen'[k] = seen[k]
    PROVE  Promise(k)'
<1>1. CASE UNCHANGED <<version, draft>>
  BY <1>1 DEF Promise, Knowing
<1>2. CASE version' = version + 1
  <2>1. ver[k] \in Nat
    BY DEF TypeOK
  <2>2. ver'[k] <= version' /\ ver'[k] # version'
    BY <1>2, <2>1, VersionTypes DEF Promise
  <2> QED
    BY <2>2 DEF Promise
<1> QED
  BY <1>1, <1>2 DEF Versioned

LEMMA ButtonKept ==
    ASSUME TypeOK, NEW b \in Buttons, ButtonFits(b), Versioned,
           button'[b].kind = button[b].kind, button'[b].version = button[b].version,
           button'[b].text = button[b].text
    PROVE  ButtonFits(b)'
<1>1. CASE UNCHANGED <<version, draft>>
  BY <1>1 DEF ButtonFits
<1>2. CASE version' = version + 1
  <2>1. button[b].version \in Nat
    BY DEF TypeOK
  <2>2. button'[b].version <= version' /\ button'[b].version # version'
    BY <1>2, <2>1, VersionTypes DEF ButtonFits
  <2> QED
    BY <2>2 DEF ButtonFits
<1> QED
  BY <1>1, <1>2 DEF Versioned

\* A handler that takes a step has only its own promise to give.
LEMMA StepKeeps ==
    ASSUME DraftInv, NEW h \in Handlers, OnlyMoves(h), Promise(h)', Versioned, UNCHANGED button
    PROVE  (\A k \in Handlers : Promise(k)') /\ (\A b \in Buttons : ButtonFits(b)')
BY PromiseKept, ButtonKept DEF DraftInv, OnlyMoves

\* One that leaves the case alone keeps the rest, too.
LEMMA QuietKeeps ==
    ASSUME DraftInv, TypeOK', NEW h \in Handlers, OnlyMoves(h), Promise(h)',
           UNCHANGED <<caseVars, button>>
    PROVE  DraftInv'
<1>1. Versioned /\ CopiesAgree'
  BY DEF Versioned, caseVars, DraftInv, CopiesAgree
<1> QED
  BY <1>1, StepKeeps DEF DraftInv

\* A handler that returns promises nothing.
LEMMA ReturnPromises ==
    ASSUME TypeOK, NEW h \in Handlers, NEW from, Return(h, from), version' \in Nat
    PROVE  OnlyMoves(h) /\ Promise(h)'
<1>1. OnlyMoves(h) /\ pc'[h] = "done" /\ ver'[h] = 0
  BY DEF Return, Step, OnlyMoves, TypeOK
<1>2. 0 <= version'
  OBVIOUS
<1> QED
  BY <1>1, <1>2 DEF Promise, Holding, Knowing

LEMMA RefuseKeeps ==
    ASSUME DraftInv, TypeOK', NEW h \in Handlers, NEW from, Refuse(h, from)
    PROVE  DraftInv'
<1>1. TypeOK /\ version' \in Nat
  BY DEF DraftInv, TypeOK
<1> QED
  BY <1>1, ReturnPromises, QuietKeeps DEF Refuse

LEMMA RequestKeeps ==
    ASSUME DraftInv, TypeOK', NEW s \in Sessions, Open(s) \/ Request(s)
    PROVE  DraftInv'
<1> s \in Handlers
  BY DEF Handlers
<1>1. TypeOK /\ Promise(s) /\ version <= version
  BY VersionTypes DEF DraftInv
<1>2. CASE Open(s)
  <2>1. OnlyMoves(s) /\ pc'[s] = "shown" /\ ver'[s] = version /\ txt'[s] = draft.text
    BY <1>1, <1>2 DEF Open, Step, OnlyMoves, TypeOK
  <2>2. UNCHANGED <<caseVars, button>>
    BY <1>2 DEF Open
  <2>3. Promise(s)'
    BY <1>1, <2>1, <2>2 DEF Promise, Holding, Knowing, caseVars
  <2> QED
    BY <2>1, <2>2, <2>3, QuietKeeps
<1>3. CASE RequestPrepare(s)
  <2>1. OnlyMoves(s) /\ pc'[s] = "create" /\ ver'[s] = version
    BY <1>1, <1>3 DEF RequestPrepare, StartDraft, Step, OnlyMoves, TypeOK
  <2>2. UNCHANGED <<caseVars, button>>
    BY <1>3 DEF RequestPrepare, StartDraft
  <2>3. Promise(s)'
    BY <1>1, <2>1, <2>2 DEF Promise, Holding, Knowing, caseVars
  <2> QED
    BY <2>1, <2>2, <2>3, QuietKeeps
<1>4. CASE RequestEdit(s)
  <2>1. OnlyMoves(s) /\ pc'[s] \in {"sync", "save"} /\ ver'[s] = ver[s] /\ seen'[s] = draft
    BY <1>1, <1>4 DEF RequestEdit, Step, OnlyMoves, TypeOK
  <2>2. UNCHANGED <<caseVars, button>>
    BY <1>4 DEF RequestEdit
  <2>3. Promise(s)'
    BY <1>1, <2>1, <2>2 DEF Promise, Holding, Knowing, caseVars
  <2> QED
    BY <2>1, <2>2, <2>3, QuietKeeps
<1>5. CASE RequestSend(s)
  <2>1. /\ OnlyMoves(s) /\ pc[s] = "shown" /\ pc'[s] = "check" /\ ver'[s] = ver[s]
        /\ txt'[s] = txt[s] /\ seen'[s] = draft
    BY <1>1, <1>5 DEF RequestSend, Step, OnlyMoves, TypeOK
  <2>2. UNCHANGED <<caseVars, button>>
    BY <1>5 DEF RequestSend
  <2>3. Promise(s)'
    BY <1>1, <2>1, <2>2 DEF Promise, Holding, Knowing, caseVars
  <2> QED
    BY <2>1, <2>2, <2>3, QuietKeeps
<1>6. CASE RequestConfirm(s)
  <2>1. OnlyMoves(s) /\ pc'[s] = "confirm" /\ ver'[s] = version /\ seen'[s] = draft
    BY <1>1, <1>6 DEF RequestConfirm, Step, OnlyMoves, TypeOK
  <2>2. UNCHANGED <<caseVars, button>>
    BY <1>6 DEF RequestConfirm
  <2>3. s \notin Presses
    BY HandlerAssumption
  <2>4. Promise(s)'
    BY <1>1, <2>1, <2>2, <2>3 DEF Promise, Holding, Knowing, caseVars
  <2> QED
    BY <2>1, <2>2, <2>4, QuietKeeps
<1>7. CASE RefuseRequest(s)
  BY <1>7, RefuseKeeps DEF RefuseRequest
<1> QED
  BY <1>2, <1>3, <1>4, <1>5, <1>6, <1>7 DEF Request

\* What a press takes from its button holds while the case has the button's version.
LEMMA TakeKeeps ==
    ASSUME DraftInv, TypeOK', NEW p \in Presses, NEW b \in Buttons, NEW to,
           Take(p, b, to),
           \/ to = "approve" /\ button[b].kind = "approve"
           \/ to = "check" /\ button[b].kind = "send_draft"
           \/ to = "confirm" /\ button[b].kind = "confirm_sent"
    PROVE  DraftInv'
<1> p \in Handlers
  BY DEF Handlers
<1>1. TypeOK /\ ButtonFits(b)
  BY DEF DraftInv
<1>2. /\ OnlyMoves(p) /\ pc'[p] = to /\ ver'[p] = button[b].version
      /\ txt'[p] = button[b].text /\ seen'[p] = draft
  BY <1>1 DEF Take, Step, OnlyMoves, TypeOK
<1>3. UNCHANGED <<caseVars, button>>
  BY DEF Take
<1>4. Promise(p)'
  BY <1>1, <1>2, <1>3 DEF Promise, ButtonFits, Holding, Knowing, caseVars
<1> QED
  BY <1>2, <1>3, <1>4, QuietKeeps

LEMMA PressKeeps ==
    ASSUME DraftInv, TypeOK', NEW p \in Presses, Press(p)
    PROVE  DraftInv'
<1> p \in Handlers
  BY DEF Handlers
<1>1. TypeOK /\ Promise(p) /\ version <= version
  BY VersionTypes DEF DraftInv
<1>2. ASSUME NEW b \in Buttons, Consume(p, b) PROVE DraftInv'
  <2>1. OnlyMoves(p) /\ pc'[p] = "pressed" /\ ver'[p] = ver[p]
    BY <1>1, <1>2 DEF Consume, Step, OnlyMoves, TypeOK
  <2>2. UNCHANGED caseVars /\ Versioned
    BY <1>2 DEF Consume, Versioned, caseVars
  <2>3. Promise(p)'
    BY <1>1, <2>1, <2>2 DEF Promise, Holding, Knowing, caseVars
  <2>4. \A c \in Buttons : /\ button'[c].kind = button[c].kind
                           /\ button'[c].version = button[c].version
                           /\ button'[c].text = button[c].text
    BY <1>1, <1>2 DEF Consume, TypeOK
  <2>5. \A c \in Buttons : ButtonFits(c)'
    BY <1>1, <2>2, <2>4, ButtonKept DEF DraftInv
  <2>6. \A k \in Handlers : Promise(k)'
    BY <1>1, <2>1, <2>2, <2>3, PromiseKept DEF DraftInv, OnlyMoves
  <2>7. CopiesAgree'
    BY <2>2 DEF DraftInv, CopiesAgree, caseVars
  <2> QED
    BY <2>5, <2>6, <2>7 DEF DraftInv
<1>3. CASE StartDraft(p, "pressed")
  <2>1. OnlyMoves(p) /\ pc'[p] = "create" /\ ver'[p] = version
    BY <1>1, <1>3 DEF StartDraft, Step, OnlyMoves, TypeOK
  <2>2. UNCHANGED <<caseVars, button>>
    BY <1>3 DEF StartDraft
  <2>3. Promise(p)'
    BY <1>1, <2>1, <2>2 DEF Promise, Holding, Knowing, caseVars
  <2> QED
    BY <2>1, <2>2, <2>3, QuietKeeps
<1>4. \A b \in pressed[p] : b \in Buttons
  BY <1>1 DEF TypeOK
<1> QED
  BY <1>2, <1>3, <1>4, TakeKeeps, RefuseKeeps
     DEF Press, PressApprove, PressDecline, PressSend, PressConfirm

LEMMA DraftingKeeps ==
    ASSUME DraftInv, TypeOK', NEW h \in Handlers,
           CreateLive(h) \/ CreateCompose(h) \/ StoreDraft(h) \/ Offer(h)
    PROVE  DraftInv'
<1>1. TypeOK /\ Promise(h) /\ version' \in Nat
  BY DEF DraftInv, TypeOK
<1>2. CASE CreateLive(h) \/ CreateCompose(h)
  <2>1. /\ OnlyMoves(h) /\ pc'[h] = "store" /\ ver'[h] = ver[h] /\ txt'[h] = txt[h]
        /\ seen'[h].text = txt[h]
    BY <1>1, <1>2 DEF CreateLive, CreateCompose, Step, OnlyMoves, TypeOK
  <2>2. UNCHANGED <<caseVars, button>>
    BY <1>2 DEF CreateLive, CreateCompose
  <2>3. Promise(h)'
    BY <1>1, <2>1, <2>2 DEF Promise, Holding, Knowing, caseVars
  <2> QED
    BY <2>1, <2>2, <2>3, QuietKeeps
<1>3. CASE StoreDraft(h)
  <2>1. /\ OnlyMoves(h) /\ pc[h] = "store" /\ pc'[h] = "offer" /\ ver'[h] = version + 1
        /\ txt'[h] = txt[h] /\ version' = version + 1 /\ draft' = seen[h] /\ top' = seen[h]
        /\ UNCHANGED button
    BY <1>1, <1>3 DEF StoreDraft, Bump, Step, OnlyMoves, TypeOK
  <2>2. ver'[h] <= version'
    BY <1>1, <2>1
  <2>3. Promise(h)'
    BY <1>1, <2>1, <2>2 DEF Promise, Holding, Knowing
  <2>4. CopiesAgree'
    BY <1>1, <2>1, VersionTypes DEF CopiesAgree
  <2>5. Versioned
    BY <2>1 DEF Versioned
  <2> QED
    BY <2>1, <2>3, <2>4, <2>5, StepKeeps DEF DraftInv
<1>4. CASE Offer(h)
  <2>1. UNCHANGED caseVars /\ Return(h, "offer") /\ pc[h] = "offer" /\ Versioned
    BY <1>4 DEF Offer, Return, Step, Versioned, caseVars
  <2>2. OnlyMoves(h) /\ Promise(h)'
    BY <1>1, <2>1, ReturnPromises
  <2>3. \A k \in Handlers : Promise(k)'
    BY <1>1, <2>1, <2>2, PromiseKept DEF DraftInv, OnlyMoves
  <2>4. h \in Buttons
    BY DEF Buttons
  <2>5. /\ button'[h].version = ver[h] /\ button'[h].text = txt[h]
        /\ button'[h].kind \in {"send_draft", "confirm_sent"}
    BY <1>1, <1>4, <2>4 DEF Offer, TypeOK
  <2>6. ButtonFits(h)'
    BY <1>1, <2>1, <2>5 DEF Promise, Knowing, ButtonFits, caseVars
  <2>7. \A c \in Buttons \ {h} : button'[c] = button[c]
    BY <1>1, <1>4 DEF Offer, TypeOK
  <2>8. \A c \in Buttons : ButtonFits(c)'
    BY <1>1, <2>1, <2>6, <2>7, ButtonKept DEF DraftInv
  <2>9. CopiesAgree'
    BY <2>1 DEF DraftInv, CopiesAgree, caseVars
  <2> QED
    BY <2>3, <2>8, <2>9 DEF DraftInv
<1> QED
  BY <1>2, <1>3, <1>4

\* A write from the version a draft was read at changes both copies alike.
LEMMA WriteKeeps ==
    ASSUME DraftInv, TypeOK', NEW h \in Handlers, NEW from, Return(h, from), Bump(h),
           UNCHANGED button, draft' = top'
    PROVE  DraftInv'
<1>1. TypeOK /\ version' \in Nat
  BY DEF DraftInv, TypeOK
<1>2. OnlyMoves(h) /\ Promise(h)'
  BY <1>1, ReturnPromises
<1>3. Versioned
  BY <1>1, VersionTypes DEF Bump, Versioned
<1> QED
  BY <1>2, <1>3, StepKeeps DEF DraftInv, CopiesAgree

LEMMA SendingKeeps ==
    ASSUME DraftInv, TypeOK', NEW h \in Handlers,
           \/ SyncDraft(h) \/ SyncFails(h) \/ SaveDraft(h)
           \/ CheckDraft(h) \/ DraftChanged(h) \/ SendDraft(h) \/ SendFails(h) \/ RecordSent(h)
           \/ ConfirmSent(h) \/ Approve(h) \/ StaleWrite(h)
    PROVE  DraftInv'
<1>1. TypeOK /\ Promise(h) /\ draft = top
  BY DEF DraftInv, CopiesAgree
<1>2. CASE SyncDraft(h) \/ CheckDraft(h) \/ SendDraft(h)
  <2>1. /\ OnlyMoves(h) /\ UNCHANGED <<caseVars, button, locals>>
        /\ \/ pc[h] = "sync" /\ pc'[h] = "save"
           \/ pc[h] = "check" /\ pc'[h] = "send"
           \/ pc[h] = "send" /\ pc'[h] = "record"
    BY <1>1, <1>2 DEF SyncDraft, CheckDraft, SendDraft, Step, OnlyMoves, TypeOK, locals
  <2>2. Promise(h)'
    BY <1>1, <2>1 DEF Promise, Holding, Knowing, caseVars, locals
  <2> QED
    BY <2>1, <2>2, QuietKeeps
<1>3. CASE SaveDraft(h)
  <2>1. seen[h] = top
    BY <1>1, <1>3 DEF SaveDraft, Return, Step, Promise, Holding
  <2>2. draft' = top'
    BY <1>3, <2>1 DEF SaveDraft
  <2> QED
    BY <1>3, <2>2, WriteKeeps DEF SaveDraft
<1>4. CASE RecordSent(h)
  <2>1. seen[h] = top
    BY <1>1, <1>4 DEF RecordSent, Return, Step, Promise, Holding
  <2>2. draft' = top'
    BY <1>4, <2>1 DEF RecordSent
  <2> QED
    BY <1>4, <2>2, WriteKeeps DEF RecordSent
<1>5. CASE ConfirmSent(h)
  <2>1. seen[h] = top
    BY <1>1, <1>5 DEF ConfirmSent, Return, Step, Promise, Holding
  <2>2. draft' = top'
    BY <1>5, <2>1 DEF ConfirmSent
  <2> QED
    BY <1>5, <2>2, WriteKeeps DEF ConfirmSent
<1>6. CASE Approve(h)
  BY <1>1, <1>6, WriteKeeps DEF Approve
<1>7. CASE SyncFails(h) \/ DraftChanged(h) \/ SendFails(h) \/ StaleWrite(h)
  BY <1>7, RefuseKeeps DEF SyncFails, DraftChanged, SendFails, StaleWrite
<1> QED
  BY <1>2, <1>3, <1>4, <1>5, <1>6, <1>7

LEMMA OutsideKeeps ==
    ASSUME DraftInv, TypeOK',
           \/ Rewrite
           \/ \E g \in Handlers : EditInGmail(g) \/ SendInGmail(g)
           \/ \E h \in Handlers : Crash(h)
    PROVE  DraftInv'
<1>1. TypeOK /\ version' \in Nat
  BY DEF DraftInv, TypeOK
<1>2. ASSUME NEW h \in Handlers, Crash(h) PROVE DraftInv'
  <2>1. OnlyMoves(h) /\ Promise(h)'
    BY <1>1, <1>2, ReturnPromises DEF Crash
  <2> QED
    BY <1>2, <2>1, QuietKeeps DEF Crash
<1>3. CASE Rewrite
  <2>1. Versioned /\ UNCHANGED <<draft, top, pc, locals>> /\ version' = version + 1
    BY <1>3, RewriteWrites DEF Versioned
  <2>2. CopiesAgree'
    BY <2>1 DEF DraftInv, CopiesAgree
  <2>3. version' <= version'
    BY <1>1
  <2>4. ASSUME NEW b \in Buttons PROVE ButtonFits(b)'
    <3>1. CASE button'[b] = button[b]
      BY <1>1, <2>1, <3>1, ButtonKept DEF DraftInv
    <3>2. CASE button'[b].kind \in {"approve", "decline"} /\ button'[b].version = version'
      BY <2>3, <3>2 DEF ButtonFits
    <3> QED
      BY <1>1, <1>3, <3>1, <3>2, RewriteButtons DEF NewButton
  <2> QED
    BY <1>1, <2>1, <2>2, <2>4, PromiseKept DEF DraftInv, locals
<1>4. CASE \E g \in Handlers : EditInGmail(g) \/ SendInGmail(g)
  <2>1. UNCHANGED <<caseVars, button, pc, locals>>
    BY <1>4 DEF EditInGmail, SendInGmail
  <2>2. Versioned /\ CopiesAgree'
    BY <2>1 DEF DraftInv, Versioned, CopiesAgree, caseVars
  <2> QED
    BY <1>1, <2>1, <2>2, PromiseKept, ButtonKept DEF DraftInv, locals
<1> QED
  BY <1>2, <1>3, <1>4

LEMMA InitDraft == Init => DraftInv
<1> SUFFICES ASSUME Init PROVE DraftInv
  OBVIOUS
<1>1. \A h \in Handlers : Promise(h)
  BY DEF Init, Promise, Holding, Knowing
<1>2. \A b \in Buttons : ButtonFits(b)
  BY DEF Init, AlertButtons, ButtonFits, NoButton
<1> QED
  BY <1>1, <1>2, InitType DEF Init, DraftInv, CopiesAgree

LEMMA StepKeepsDraft ==
    ASSUME DraftInv, [Next]_vars
    PROVE  DraftInv'
<1>1. TypeOK /\ TypeOK'
  BY StepTypes DEF DraftInv
<1>2. CASE UNCHANGED vars
  <2>1. UNCHANGED <<caseVars, button, pc, locals>>
    BY <1>2 DEF vars
  <2>2. Versioned /\ CopiesAgree'
    BY <2>1 DEF DraftInv, Versioned, CopiesAgree, caseVars
  <2> QED
    BY <1>1, <2>1, <2>2, PromiseKept, ButtonKept DEF DraftInv, locals
<1> QED
  BY <1>1, <1>2, RequestKeeps, PressKeeps, DraftingKeeps, SendingKeeps, OutsideKeeps
     DEF Next, Continue, Quiescent

\* The two copies of the draft in the case document never differ, however many
\* requests and presses overlap.
THEOREM CopiesAlwaysAgree == Spec => []CopiesAgree
<1>1. DraftInv => CopiesAgree
  BY DEF DraftInv
<1> QED
  BY <1>1, InitDraft, StepKeepsDraft, PTL DEF Spec

\* The steps that write the case.
LEMMA Writers ==
    ASSUME Next, caseVars' # caseVars
    PROVE  \/ Rewrite
           \/ \E h \in Handlers : \/ StoreDraft(h) \/ SaveDraft(h) \/ RecordSent(h)
                                  \/ ConfirmSent(h) \/ Approve(h)
BY DEF Next, Request, Press, Continue, Quiescent, Open, RequestPrepare, StartDraft,
   RequestEdit, RequestSend, RequestConfirm, RefuseRequest, Refuse, Consume, Take,
   PressApprove, PressDecline, PressSend, PressConfirm, CreateLive, CreateCompose, Offer,
   SyncDraft, SyncFails, CheckDraft, DraftChanged, SendDraft, SendFails, StaleWrite,
   EditInGmail, SendInGmail, Crash, vars

\* A mail or a confirmed answer is recorded only beside the draft and text that were
\* approved: the version the write is checked against is that of the approval.
THEOREM RecordedAsApproved == Spec => SentAsApproved
<1>1. ASSUME DraftInv, [Next]_vars, NEW h \in Handlers,
             pc[h] = "record" \/ (pc[h] = "confirm" /\ h \in Presses),
             pc'[h] = "done", version' # version
      PROVE  draft.text = txt[h] /\ (pc[h] = "record" => draft.ref = seen[h].ref)
  <2>1. TypeOK /\ Promise(h)
    BY <1>1 DEF DraftInv
  <2>2. version = ver[h]
    <3>1. caseVars' # caseVars /\ Next
      BY <1>1 DEF caseVars, vars
    <3>2. pc'[h] # pc[h]
      BY <1>1
    <3>3. ~Rewrite
      BY <3>2, RewriteWrites
    <3>4. PICK k \in Handlers : \/ StoreDraft(k) \/ SaveDraft(k) \/ RecordSent(k)
                                \/ ConfirmSent(k) \/ Approve(k)
      BY <3>1, <3>3, Writers
    <3>5. k = h /\ version = ver[k]
      BY <2>1, <3>2, <3>4 DEF StoreDraft, SaveDraft, RecordSent, ConfirmSent, Approve,
         Return, Step, TypeOK
    <3> QED
      BY <3>5
  <2> QED
    BY <1>1, <2>1, <2>2 DEF Promise, Holding, Knowing
<1>2. DraftInv /\ [Next]_vars =>
         [\A h \in Handlers :
             /\ pc[h] = "record" \/ (pc[h] = "confirm" /\ h \in Presses)
             /\ pc'[h] = "done" /\ version' # version
             => draft.text = txt[h] /\ (pc[h] = "record" => draft.ref = seen[h].ref)]_vars
  BY <1>1
<1> QED
  BY <1>2, InitDraft, StepKeepsDraft, PTL DEF Spec, SentAsApproved

-----------------------------------------------------------------------------
(* What an alert was about *)

\* While the case has the version of an alert, it is as the alert found it; and the
\* press about to approve holds an alert's button.
AlertInv ==
    /\ \A b \in Buttons : button[b].kind = "approve" => b \in ApproveButtons
    /\ \A a \in ApproveButtons :
          button[a].kind # "none" /\ button[a].version = version => announced[a] = Announcement
    /\ \A p \in Presses : pc[p] = "approve" =>
          \E a \in ApproveButtons :
              a \in pressed[p] /\ button[a].kind # "none" /\ ver[p] = button[a].version

\* A write of the case makes a new version.
LEMMA NewVersions ==
    ASSUME [Next]_vars
    PROVE  version' = version + 1 \/ UNCHANGED <<version, draft, decision>>
<1>1. CASE UNCHANGED caseVars
  BY <1>1 DEF caseVars
<1>2. CASE Rewrite
  BY <1>2, RewriteWrites
<1>3. CASE \E h \in Handlers : \/ StoreDraft(h) \/ SaveDraft(h) \/ RecordSent(h)
                               \/ ConfirmSent(h) \/ Approve(h)
  BY <1>3 DEF StoreDraft, SaveDraft, RecordSent, ConfirmSent, Approve, Bump
<1> QED
  BY <1>1, <1>2, <1>3, Writers DEF vars, caseVars

\* A button keeps its kind and version, and its alert what it was about, once it is out.
Kept(b) ==
    /\ button'[b].kind = button[b].kind /\ button'[b].version = button[b].version
    /\ b \in ApproveButtons => announced'[b] = announced[b]

\* Only handlers offer other buttons than those of alerts.
LEMMA AlertsStay ==
    ASSUME TypeOK, [Next]_vars, NEW b \in Buttons
    PROVE  \/ Kept(b)
           \/ /\ b \in ApproveButtons /\ button[b].kind = "none"
              /\ announced'[b] = Announcement /\ UNCHANGED <<draft, decision>>
           \/ b \notin ApproveButtons /\ button'[b].kind # "approve"
<1>1. CASE UNCHANGED <<button, announced>>
  BY <1>1 DEF Kept
<1>2. CASE Rewrite
  BY <1>2, RewriteWrites, RewriteButtons, HandlerAssumption DEF Kept, NewButton
<1>3. ASSUME NEW p \in Presses, NEW c \in Buttons, Consume(p, c) PROVE Kept(b)
  BY <1>3 DEF Consume, history, Kept, TypeOK
<1>4. ASSUME NEW h \in Handlers, Offer(h)
      PROVE  Kept(b) \/ (b \notin ApproveButtons /\ button'[b].kind # "approve")
  <2>1. CASE b = h
    <3>1. b \notin ApproveButtons
      BY <2>1, HandlerAssumption
    <3> QED
      BY <1>4, <2>1, <3>1 DEF Offer, TypeOK
  <2>2. CASE b # h
    BY <1>4, <2>2 DEF Offer, history, Kept, TypeOK
  <2> QED
    BY <2>1, <2>2
<1> QED
  BY <1>1, <1>2, <1>3, <1>4 DEF Next, Request, Press, Continue, Quiescent, Open,
     RequestPrepare, StartDraft, RequestEdit, RequestSend, RequestConfirm, RefuseRequest,
     Refuse, Take, PressApprove, PressDecline, PressSend, PressConfirm, CreateLive,
     CreateCompose, StoreDraft, SyncDraft, SyncFails, SaveDraft, CheckDraft, DraftChanged,
     SendDraft, SendFails, RecordSent, ConfirmSent, Approve, StaleWrite, EditInGmail,
     SendInGmail, Crash, vars, history

\* A press comes to the approval with the button it took; the button stays as it is.
LEMMA PoisedStays ==
    ASSUME TypeOK, AlertInv, [Next]_vars, NEW p \in Presses, pc'[p] = "approve"
    PROVE  \E a \in ApproveButtons :
              a \in pressed'[p] /\ button'[a].kind # "none" /\ ver'[p] = button'[a].version
<1> p \in Handlers
  BY DEF Handlers
<1>1. \A a \in ApproveButtons : button[a].kind # "none" =>
          button'[a].kind = button[a].kind /\ button'[a].version = button[a].version
  BY AlertsStay DEF Kept, Buttons
<1>2. CASE pc[p] = "approve" /\ ver'[p] = ver[p] /\ pressed'[p] = pressed[p]
  BY <1>1, <1>2 DEF AlertInv
<1>3. ASSUME NEW b \in pressed[p], button[b].kind = "approve", Take(p, b, "approve")
      PROVE  \E a \in ApproveButtons :
                a \in pressed'[p] /\ button'[a].kind # "none" /\ ver'[p] = button'[a].version
  <2>1. b \in ApproveButtons
    BY <1>3 DEF AlertInv, TypeOK
  <2> QED
    BY <1>3, <2>1 DEF Take, TypeOK
<1>4. ASSUME NEW h \in Handlers, NEW from, NEW to, Step(h, from, to), to # "approve",
             \A k \in Handlers \ {h} : ver'[k] = ver[k] /\ pressed'[k] = pressed[k]
      PROVE  pc[p] = "approve" /\ ver'[p] = ver[p] /\ pressed'[p] = pressed[p]
  BY <1>4 DEF Step, TypeOK
<1>5. ASSUME NEW h \in Handlers, NEW from, Return(h, from)
      PROVE  pc[p] = "approve" /\ ver'[p] = ver[p] /\ pressed'[p] = pressed[p]
  BY <1>5, <1>4 DEF Return, TypeOK
<1>6. CASE UNCHANGED <<pc, ver, pressed>>
  BY <1>2, <1>6
<1>7. CASE \E s \in Sessions : Open(s) \/ Request(s)
  <2>1. PICK s \in Sessions : Open(s) \/ Request(s)
    BY <1>7
  <2>2. s \in Handlers
    BY DEF Handlers
  <2>3. CASE RefuseRequest(s)
    BY <1>2, <1>5, <2>2, <2>3 DEF RefuseRequest, Refuse
  <2>4. CASE Open(s) \/ RequestPrepare(s) \/ RequestConfirm(s)
    BY <1>2, <2>2, <2>4 DEF Open, RequestPrepare, StartDraft, RequestConfirm, Step, TypeOK
  <2>5. CASE RequestEdit(s) \/ RequestSend(s)
    BY <1>2, <2>2, <2>5 DEF RequestEdit, RequestSend, Step, TypeOK
  <2> QED
    BY <2>1, <2>3, <2>4, <2>5 DEF Request
<1>8. CASE \E q \in Presses : Press(q)
  <2>1. PICK q \in Presses : Press(q)
    BY <1>8
  <2>2. q \in Handlers
    BY DEF Handlers
  <2>3. CASE \E b \in Buttons : Consume(q, b)
    BY <1>2, <2>2, <2>3 DEF Consume, Step, TypeOK
  <2>4. ASSUME NEW b, NEW to, Take(q, b, to), to # "approve" \/ q # p
        PROVE  pc[p] = "approve" /\ ver'[p] = ver[p] /\ pressed'[p] = pressed[p]
    BY <2>2, <2>4 DEF Take, Step, TypeOK
  <2>5. CASE StartDraft(q, "pressed")
    BY <1>2, <2>2, <2>5 DEF StartDraft, Step, TypeOK
  <2>6. CASE Refuse(q, "pressed")
    BY <1>2, <1>5, <2>2, <2>6 DEF Refuse
  <2>7. ASSUME NEW b \in pressed[q], button[b].kind = "approve", Take(q, b, "approve")
        PROVE  \E a \in ApproveButtons :
                  a \in pressed'[p] /\ button'[a].kind # "none" /\ ver'[p] = button'[a].version
    BY <1>2, <1>3, <2>4, <2>7
  <2>8. ASSUME NEW b, NEW to, to # "approve", Take(q, b, to)
        PROVE  \E a \in ApproveButtons :
                  a \in pressed'[p] /\ button'[a].kind # "none" /\ ver'[p] = button'[a].version
    BY <1>2, <2>4, <2>8
  <2> QED
    BY <2>1, <2>3, <2>5, <2>6, <2>7, <2>8
       DEF Press, PressApprove, PressDecline, PressSend, PressConfirm
<1>9. CASE \E h \in Handlers : Continue(h) \/ Crash(h)
  <2>1. PICK h \in Handlers : Continue(h) \/ Crash(h)
    BY <1>9
  <2>2. CASE \E from : Return(h, from)
    BY <1>2, <1>5, <2>2
  <2>3. CASE \/ CreateLive(h) \/ CreateCompose(h) \/ StoreDraft(h) \/ SyncDraft(h)
             \/ CheckDraft(h) \/ SendDraft(h)
    BY <1>2, <2>3 DEF CreateLive, CreateCompose, StoreDraft, SyncDraft, CheckDraft, SendDraft,
       Step, TypeOK, locals
  <2> QED
    BY <2>1, <2>2, <2>3 DEF Continue, Crash, Offer, SyncFails, SaveDraft, DraftChanged, SendFails,
       RecordSent, ConfirmSent, Approve, StaleWrite, Refuse
<1>10. CASE Rewrite
  BY <1>6, <1>10, RewriteWrites DEF locals
<1> QED
  BY <1>6, <1>7, <1>8, <1>9, <1>10 DEF Next, EditInGmail, SendInGmail, Quiescent, vars, locals

LEMMA StepKeepsAlerts ==
    ASSUME DraftInv, AlertInv, [Next]_vars
    PROVE  AlertInv'
<1>1. TypeOK /\ version \in Nat
  BY DEF DraftInv, TypeOK
<1>2. (\A b \in Buttons : button[b].kind = "approve" => b \in ApproveButtons)'
  BY <1>1, AlertsStay DEF Kept, AlertInv
<1>3. ASSUME NEW a \in ApproveButtons, button'[a].kind # "none", button'[a].version = version'
      PROVE  announced'[a] = Announcement'
  <2>1. a \in Buttons /\ ButtonFits(a)
    BY DEF Buttons, DraftInv
  <2>2. CASE Kept(a)
    <3>1. button[a].version \in Nat
      BY <1>1, <2>1 DEF TypeOK
    <3>2. version' # version + 1
      BY <1>1, <1>3, <2>1, <2>2, <3>1, VersionTypes DEF Kept, ButtonFits
    <3>3. UNCHANGED <<version, draft, decision>>
      BY <3>2, NewVersions
    <3> QED
      BY <1>3, <2>2, <3>3 DEF Kept, AlertInv, Announcement
  <2>3. CASE announced'[a] = Announcement /\ UNCHANGED <<draft, decision>>
    BY <2>3 DEF Announcement
  <2> QED
    BY <1>1, <2>1, <2>2, <2>3, AlertsStay
<1>4. (\A p \in Presses : pc[p] = "approve" =>
          \E a \in ApproveButtons :
              a \in pressed[p] /\ button[a].kind # "none" /\ ver[p] = button[a].version)'
  BY <1>1, PoisedStays
<1> QED
  BY <1>2, <1>3, <1>4 DEF AlertInv

LEMMA InitAlerts == Init => AlertInv
<1> SUFFICES ASSUME Init PROVE AlertInv
  OBVIOUS
<1>1. PICK x \in ApproveButtons, d \in DeclineButtons :
          button = AlertButtons([b \in Buttons |-> NoButton], x, d, 0)
  BY DEF Init
<1>2. \A b \in Buttons : button[b].kind = "approve" => b \in ApproveButtons
  BY <1>1 DEF AlertButtons, NoButton
<1>3. /\ \A a \in ApproveButtons : announced[a] = Announcement
      /\ \A p \in Presses : pc[p] = "idle"
  BY DEF Init, Announcement, Handlers
<1> QED
  BY <1>2, <1>3 DEF AlertInv

\* A press approves the case as its alert announced it, for any number of alerts, presses
\* and writes by others: a draft or a decision that came after the alert makes it fail.
THEOREM NoStaleApproval == Spec => ApprovalNotStale
<1>1. ASSUME DraftInv, AlertInv, [Next]_vars, NEW p \in Presses,
             pc[p] = "approve", pc'[p] = "done", version' # version
      PROVE  \E a \in ApproveButtons : a \in pressed[p] /\ announced[a] = Announcement
  <2>1. caseVars' # caseVars /\ Next
    BY <1>1 DEF caseVars, vars
  <2>2. ~Rewrite
    BY <1>1, RewriteWrites
  <2>3. PICK h \in Handlers : \/ StoreDraft(h) \/ SaveDraft(h) \/ RecordSent(h)
                              \/ ConfirmSent(h) \/ Approve(h)
    BY <2>1, <2>2, Writers
  <2>4. h = p /\ version = ver[p]
    <3> p \in Handlers
      BY DEF Handlers
    <3>1. \A k \in Handlers \ {h} : pc'[k] = pc[k]
      BY <1>1, <2>3 DEF StoreDraft, SaveDraft, RecordSent, ConfirmSent, Approve, Return, Step,
         DraftInv, TypeOK
    <3>2. h = p
      BY <1>1, <3>1
    <3> QED
      BY <1>1, <2>3, <3>2 DEF StoreDraft, SaveDraft, RecordSent, ConfirmSent, Approve, Return,
         Step
  <2>5. PICK a \in ApproveButtons :
            a \in pressed[p] /\ button[a].kind # "none" /\ ver[p] = button[a].version
    BY <1>1 DEF AlertInv
  <2> QED
    BY <1>1, <2>4, <2>5 DEF AlertInv
<1>2. DraftInv /\ AlertInv /\ [Next]_vars =>
         [\A p \in Presses :
             pc[p] = "approve" /\ pc'[p] = "done" /\ version' # version =>
                 \E a \in ApproveButtons : a \in pressed[p] /\ announced[a] = Announcement]_vars
  BY <1>1
<1>3. Init => DraftInv /\ AlertInv
  BY InitDraft, InitAlerts
<1>4. DraftInv /\ AlertInv /\ [Next]_vars => DraftInv' /\ AlertInv'
  BY StepKeepsDraft, StepKeepsAlerts
<1> QED
  BY <1>2, <1>3, <1>4, PTL DEF Spec, ApprovalNotStale

-----------------------------------------------------------------------------
(* Mails from the dashboard *)

\* While no other write interferes, a session that sends holds the case's version.
SendersCurrent ==
    \A s \in Sessions :
        pc[s] \in {"check", "send", "record"} /\ ~raced => version = ver[s]

LEMMA StepKeepsSenders ==
    ASSUME TypeOK, SendersCurrent, [Next]_vars
    PROVE  SendersCurrent'
<1> SUFFICES ASSUME NEW s \in Sessions, pc'[s] \in {"check", "send", "record"}, ~raced'
             PROVE  version' = ver'[s]
  BY DEF SendersCurrent
<1> s \in Handlers /\ s \notin Presses
  BY HandlerAssumption DEF Handlers
<1>1. ~raced
  BY RewriteWrites DEF Next, Request, Press, Continue, Quiescent, Open, RequestPrepare, StartDraft,
     RequestEdit, RequestSend, RequestConfirm, RefuseRequest, Refuse, Consume, Take,
     PressApprove, PressDecline, PressSend, PressConfirm, CreateLive, CreateCompose,
     StoreDraft, SaveDraft, RecordSent, ConfirmSent, Approve, Bump, Offer,
     SyncDraft, SyncFails, CheckDraft, DraftChanged, SendDraft, SendFails, StaleWrite,
     EditInGmail, SendInGmail, Crash, vars, history
<1>2. CASE pc[s] \in {"check", "send", "record"} /\ UNCHANGED <<version, ver>>
  BY <1>1, <1>2 DEF SendersCurrent
<1>3. s \in Sending <=> pc[s] \in {"check", "send", "record"}
  BY DEF Sending
<1>4. ASSUME NEW h \in Handlers, Bump(h) PROVE h = s \/ pc[s] \notin {"check", "send", "record"}
  BY <1>3, <1>4 DEF Bump
<1>5. ASSUME NEW h \in Handlers, NEW from, Return(h, from), pc'[s] # "done"
      PROVE  h # s /\ pc'[s] = pc[s] /\ ver'[s] = ver[s]
  BY <1>5 DEF Return, Step, TypeOK
<1>6. CASE \E h \in Handlers : SaveDraft(h) \/ RecordSent(h) \/ ConfirmSent(h) \/ Approve(h)
  BY <1>4, <1>5, <1>6 DEF SaveDraft, RecordSent, ConfirmSent, Approve
<1>7. ASSUME NEW h \in Handlers, StoreDraft(h) PROVE version' = ver'[s]
  BY <1>4, <1>7 DEF StoreDraft, Step, TypeOK
<1>8. CASE Rewrite
  BY <1>3, <1>8, RewriteWrites
<1>9. ASSUME NEW h \in Handlers, NEW from, Return(h, from), UNCHANGED version
      PROVE  version' = ver'[s]
  BY <1>1, <1>5, <1>9 DEF SendersCurrent
<1>10. CASE UNCHANGED vars
  BY <1>1, <1>10 DEF vars, caseVars, locals, SendersCurrent
<1>11. ASSUME NEW h \in Handlers, NEW from, Refuse(h, from) PROVE version' = ver'[s]
  BY <1>9, <1>11 DEF Refuse, caseVars
<1>12. ASSUME NEW t \in Sessions, Open(t) \/ Request(t) PROVE version' = ver'[s]
  <2> t \in Handlers
    BY DEF Handlers
  <2>1. CASE RefuseRequest(t)
    BY <1>11, <2>1 DEF RefuseRequest
  <2>2. CASE RequestSend(t)
    BY <1>1, <2>2 DEF RequestSend, Step, TypeOK, caseVars, SendersCurrent
  <2>3. CASE Open(t) \/ RequestPrepare(t) \/ RequestEdit(t) \/ RequestConfirm(t)
    BY <1>1, <2>3 DEF Open, RequestPrepare, StartDraft, RequestEdit, RequestConfirm, Step,
       TypeOK, caseVars, SendersCurrent
  <2> QED
    BY <1>12, <2>1, <2>2, <2>3 DEF Request
<1>13. ASSUME NEW p \in Presses, Press(p) PROVE version' = ver'[s]
  <2> p \in Handlers /\ p # s
    BY DEF Handlers
  <2>1. CASE Refuse(p, "pressed")
    BY <1>11, <2>1
  <2>2. ASSUME NEW b, NEW to, Consume(p, b) \/ Take(p, b, to) \/ StartDraft(p, "pressed")
        PROVE  version' = ver'[s]
    BY <1>1, <2>2 DEF Consume, Take, StartDraft, Step, TypeOK, caseVars, SendersCurrent
  <2> QED
    BY <1>13, <2>1, <2>2 DEF Press, PressApprove, PressDecline, PressSend, PressConfirm
<1>14. ASSUME NEW h \in Handlers, CreateLive(h) \/ CreateCompose(h) \/ SyncDraft(h)
                                  \/ CheckDraft(h) \/ SendDraft(h)
       PROVE  version' = ver'[s]
  BY <1>1, <1>14 DEF CreateLive, CreateCompose, SyncDraft, CheckDraft, SendDraft, Step,
     TypeOK, caseVars, locals, SendersCurrent
<1>15. ASSUME NEW h \in Handlers, Offer(h) \/ Crash(h) PROVE version' = ver'[s]
  BY <1>9, <1>15 DEF Offer, Crash, caseVars
<1>16. ASSUME NEW h \in Handlers, SyncFails(h) \/ DraftChanged(h) \/ SendFails(h) \/ StaleWrite(h)
       PROVE  version' = ver'[s]
  BY <1>11, <1>16 DEF SyncFails, DraftChanged, SendFails, StaleWrite
<1>17. ASSUME NEW g \in Handlers, EditInGmail(g) \/ SendInGmail(g) PROVE version' = ver'[s]
  BY <1>1, <1>17 DEF EditInGmail, SendInGmail, caseVars, locals, SendersCurrent
<1> QED
  BY <1>6, <1>7, <1>8, <1>10, <1>12, <1>13, <1>14, <1>15, <1>16, <1>17
     DEF Next, Continue, Quiescent

\* A mail sent from the dashboard can be recorded, unless somebody else wrote the case
\* while the request was sending it.
THEOREM DashboardMailsRecordable == Spec => []DashboardMailRecordable
<1>1. Init => SendersCurrent
  BY DEF Init, SendersCurrent, Handlers
<1>2. SendersCurrent => DashboardMailRecordable
  BY DEF SendersCurrent, DashboardMailRecordable
<1> QED
  BY <1>1, <1>2, InitType, StepTypes, StepKeepsSenders, PTL DEF Spec

-----------------------------------------------------------------------------
(* One mail for each approval *)

Used(b) == button[b].kind # "none" /\ button[b].used

\* Presses hold different used buttons.  A mail was sent on a used button, or by a
\* session that has sent it; nobody about to send has sent already.
MailInv ==
    /\ \A s \in Sessions : pressed[s] = {}
    /\ \A h \in Handlers : pressed[h] = {} \/ \E b \in Buttons : pressed[h] = {b} /\ Used(b)
    /\ \A h, k \in Handlers : h # k => pressed[h] \cap pressed[k] = {}
    /\ \A h \in Handlers : pc[h] # "done" => button[h].kind = "none"
    /\ \A g \in Handlers : \A b \in gmail[g].by :
          Used(b) \/ (b \in Sessions /\ button[b].kind = "none" /\ pc[b] \in {"record", "done"})
    /\ \A h \in Handlers : pc[h] \notin {"record", "done"} =>
          \A g \in Handlers : pressed[h] \cap gmail[g].by = {}
    /\ \A g, h \in Handlers : g # h => gmail[g].by \cap gmail[h].by = {}

\* A step of one handler that presses no button, offers none and sends nothing.
Harmless(h) ==
    /\ UNCHANGED button
    /\ \A g \in Handlers : gmail'[g].by \in {gmail[g].by, {}}
    /\ \A k \in Handlers \ {h} : pc'[k] = pc[k] /\ pressed'[k] = pressed[k]
    /\ pressed'[h] \in {pressed[h], {}}
    /\ pc[h] # "done" /\ (pc[h] = "record" => pc'[h] = "done")

LEMMA HarmlessKeeps ==
    ASSUME TypeOK, MailInv, NEW h \in Handlers, Harmless(h)
    PROVE  MailInv'
<1>1. (\A s \in Sessions : pressed[s] = {})'
  BY DEF MailInv, Harmless, Handlers
<1>2. (\A k \in Handlers : pressed[k] = {} \/ \E b \in Buttons : pressed[k] = {b} /\ Used(b))'
  BY DEF MailInv, Harmless, Used
<1>3. (\A k, l \in Handlers : k # l => pressed[k] \cap pressed[l] = {})'
  BY DEF MailInv, Harmless
<1>4. (\A k \in Handlers : pc[k] # "done" => button[k].kind = "none")'
  BY DEF MailInv, Harmless
<1>5. (\A g \in Handlers : \A b \in gmail[g].by :
          Used(b) \/ (b \in Sessions /\ button[b].kind = "none" /\ pc[b] \in {"record", "done"}))'
  BY DEF MailInv, Harmless, Used, Handlers
<1>6. (\A k \in Handlers : pc[k] \notin {"record", "done"} =>
          \A g \in Handlers : pressed[k] \cap gmail[g].by = {})'
  BY DEF MailInv, Harmless
<1>7. (\A g, k \in Handlers : g # k => gmail[g].by \cap gmail[k].by = {})'
  BY DEF MailInv, Harmless
<1> QED
  BY <1>1, <1>2, <1>3, <1>4, <1>5, <1>6, <1>7 DEF MailInv

LEMMA ReturnHarmless ==
    ASSUME TypeOK, NEW h \in Handlers, NEW from \in PcStates \ {"done"}, Return(h, from),
           UNCHANGED button, \A g \in Handlers : gmail'[g].by = gmail[g].by
    PROVE  Harmless(h)
BY DEF Return, Step, Harmless, TypeOK, PcStates

LEMMA HarmlessSteps ==
    ASSUME TypeOK, NEW h \in Handlers,
           \/ \E from \in PcStates \ {"done"} : Refuse(h, from)
           \/ Open(h) \/ StartDraft(h, "shown") \/ StartDraft(h, "pressed")
           \/ RequestEdit(h) \/ RequestSend(h) \/ RequestConfirm(h)
           \/ \E b \in Buttons, to \in PcStates \ {"done"} : Take(h, b, to)
           \/ CreateLive(h) \/ CreateCompose(h) \/ StoreDraft(h)
           \/ SyncDraft(h) \/ SaveDraft(h) \/ CheckDraft(h)
           \/ RecordSent(h) \/ ConfirmSent(h) \/ Approve(h) \/ Crash(h)
    PROVE  Harmless(h)
<1>1. \A g, k \in Handlers : \A t : [gmail EXCEPT ![g].text = t][k].by = gmail[k].by
  BY DEF TypeOK
<1>2. ASSUME NEW from \in PcStates \ {"done"}, Refuse(h, from) PROVE Harmless(h)
  BY <1>2, ReturnHarmless DEF Refuse
<1>3. CASE Open(h) \/ StartDraft(h, "shown") \/ StartDraft(h, "pressed") \/ RequestEdit(h)
           \/ RequestSend(h) \/ RequestConfirm(h)
  BY <1>3 DEF Open, StartDraft, RequestEdit, RequestSend, RequestConfirm, Step, Harmless,
     TypeOK, history
<1>4. ASSUME NEW b \in Buttons, NEW to \in PcStates \ {"done"}, Take(h, b, to)
      PROVE  Harmless(h)
  BY <1>4 DEF Take, Step, Harmless, TypeOK
<1>5. CASE CreateLive(h) \/ CreateCompose(h)
  <2>1. \A g \in Handlers : gmail'[g].by \in {gmail[g].by, {}}
    BY <1>5 DEF CreateLive, CreateCompose, TypeOK
  <2> QED
    BY <1>5, <2>1 DEF CreateLive, CreateCompose, Step, Harmless, TypeOK
<1>6. CASE StoreDraft(h) \/ CheckDraft(h)
  BY <1>6 DEF StoreDraft, CheckDraft, Step, Harmless, TypeOK, locals
<1>7. CASE SyncDraft(h)
  <2>1. \A g \in Handlers : gmail'[g].by = gmail[g].by
    BY <1>1, <1>7, RefType DEF SyncDraft
  <2> QED
    BY <1>7, <2>1 DEF SyncDraft, Step, Harmless, TypeOK, locals
<1>8. CASE SaveDraft(h) \/ RecordSent(h) \/ ConfirmSent(h) \/ Approve(h)
  BY <1>8, ReturnHarmless DEF SaveDraft, RecordSent, ConfirmSent, Approve, PcStates
<1>9. CASE Crash(h)
  <2>1. pc[h] \in PcStates \ {"done"}
    BY <1>9 DEF Crash, TypeOK
  <2> QED
    BY <1>9, <2>1, ReturnHarmless DEF Crash
<1> QED
  BY <1>2, <1>3, <1>4, <1>5, <1>6, <1>7, <1>8, <1>9

LEMMA StillKeeps ==
    ASSUME MailInv, UNCHANGED <<button, pc, pressed>>,
           \A g \in Handlers : gmail'[g].by = gmail[g].by
    PROVE  MailInv'
BY DEF MailInv, Used

\* A button is fresh when it is consumed: nobody holds it, no mail was sent on it.
LEMMA ConsumeKeeps ==
    ASSUME TypeOK, MailInv, NEW p \in Presses, NEW b \in Buttons, Consume(p, b)
    PROVE  MailInv'
<1> p \in Handlers /\ p \notin Sessions
  BY HandlerAssumption DEF Handlers
<1>1. UNCHANGED gmail /\ pc[p] = "idle"
  BY DEF Consume, Step
<1>2. \A k \in Handlers \ {p} : pc'[k] = pc[k] /\ pressed'[k] = pressed[k]
  BY DEF Consume, Step, TypeOK
<1>3. pressed'[p] = {b} /\ ~Used(b)
  BY DEF Consume, TypeOK, Used
<1>4. \A c \in Buttons : button'[c].kind = button[c].kind /\ (Used(c) => Used(c)')
  BY DEF Consume, TypeOK, Used
<1>5. Used(b)'
  BY DEF Consume, TypeOK, Used
<1>6. \A g \in Handlers : b \notin gmail[g].by
  BY <1>3 DEF MailInv, Consume
<1>7. \A k \in Handlers : b \notin pressed[k]
  BY <1>3 DEF MailInv
<1>8. \A k \in Handlers : k \in Buttons
  BY DEF Buttons
<1>9. \A g \in Handlers : gmail[g].by \subseteq Buttons
  BY DEF TypeOK
<1>10. (\A s \in Sessions : pressed[s] = {})'
  BY <1>2 DEF MailInv, Handlers
<1>11. (\A k \in Handlers : pressed[k] = {} \/ \E c \in Buttons : pressed[k] = {c} /\ Used(c))'
  BY <1>2, <1>3, <1>4, <1>5 DEF MailInv
<1>12. (\A k, l \in Handlers : k # l => pressed[k] \cap pressed[l] = {})'
  BY <1>2, <1>3, <1>7 DEF MailInv
<1>13. (\A k \in Handlers : pc[k] # "done" => button[k].kind = "none")'
  BY <1>1, <1>2, <1>4, <1>8 DEF MailInv
<1>14. (\A g \in Handlers : \A c \in gmail[g].by :
          Used(c) \/ (c \in Sessions /\ button[c].kind = "none" /\ pc[c] \in {"record", "done"}))'
  BY <1>1, <1>2, <1>4, <1>9 DEF MailInv, Handlers
<1>15. (\A k \in Handlers : pc[k] \notin {"record", "done"} =>
          \A g \in Handlers : pressed[k] \cap gmail[g].by = {})'
  BY <1>1, <1>2, <1>3, <1>6 DEF MailInv
<1>16. (\A g, k \in Handlers : g # k => gmail[g].by \cap gmail[k].by = {})'
  BY <1>1 DEF MailInv
<1> QED
  BY <1>10, <1>11, <1>12, <1>13, <1>14, <1>15, <1>16 DEF MailInv

\* Before a handler offers a button it has none, and it has sent nothing.
LEMMA OfferKeeps ==
    ASSUME TypeOK, MailInv, NEW h \in Handlers, Offer(h)
    PROVE  MailInv'
<1>1. UNCHANGED gmail /\ pc[h] = "offer" /\ pc'[h] = "done" /\ pressed'[h] = {}
  BY DEF Offer, Return, Step, TypeOK
<1>2. \A k \in Handlers \ {h} : pc'[k] = pc[k] /\ pressed'[k] = pressed[k]
  BY DEF Offer, Return, Step, TypeOK
<1>3. \A c \in Buttons \ {h} : button'[c] = button[c]
  BY DEF Offer, TypeOK
<1>4. button[h].kind = "none" /\ ~Used(h)
  BY <1>1 DEF MailInv, Used
<1>5. \A c \in Buttons : Used(c) => c # h /\ Used(c)'
  BY <1>3, <1>4 DEF Used
<1>6. \A g \in Handlers : gmail[g].by \subseteq Buttons \ {h}
  BY <1>1, <1>4 DEF TypeOK, MailInv
<1>7. (\A s \in Sessions : pressed[s] = {})'
  BY <1>1, <1>2 DEF MailInv, Handlers
<1>8. (\A k \in Handlers : pressed[k] = {} \/ \E c \in Buttons : pressed[k] = {c} /\ Used(c))'
  BY <1>1, <1>2, <1>5 DEF MailInv
<1>9. (\A k, l \in Handlers : k # l => pressed[k] \cap pressed[l] = {})'
  BY <1>1, <1>2 DEF MailInv
<1>10. (\A k \in Handlers : pc[k] # "done" => button[k].kind = "none")'
  BY <1>1, <1>2, <1>3 DEF MailInv, Buttons
<1>11. (\A g \in Handlers : \A c \in gmail[g].by :
          Used(c) \/ (c \in Sessions /\ button[c].kind = "none" /\ pc[c] \in {"record", "done"}))'
  BY <1>1, <1>2, <1>3, <1>5, <1>6 DEF MailInv, Handlers
<1>12. (\A k \in Handlers : pc[k] \notin {"record", "done"} =>
          \A g \in Handlers : pressed[k] \cap gmail[g].by = {})'
  BY <1>1, <1>2 DEF MailInv
<1>13. (\A g, k \in Handlers : g # k => gmail[g].by \cap gmail[k].by = {})'
  BY <1>1 DEF MailInv
<1> QED
  BY <1>7, <1>8, <1>9, <1>10, <1>11, <1>12, <1>13 DEF MailInv

\* A mail is sent on a button nobody else holds, or by a session that has sent none.
LEMMA SendKeeps ==
    ASSUME TypeOK, MailInv, NEW h \in Handlers, SendDraft(h)
    PROVE  MailInv'
<1> DEFINE by == IF h \in Presses THEN pressed[h] ELSE {h}
<1>1. UNCHANGED <<button, pressed>> /\ pc[h] = "send" /\ pc'[h] = "record"
  BY DEF SendDraft, Step, TypeOK, locals
<1>2. \A k \in Handlers \ {h} : pc'[k] = pc[k]
  BY DEF SendDraft, Step, TypeOK
<1>3. PICK g \in Handlers : gmail'[g].by = by /\ \A k \in Handlers \ {g} : gmail'[k].by = gmail[k].by
  BY RefType DEF SendDraft, TypeOK
<1>4. button[h].kind = "none" /\ ~Used(h)
  BY <1>1 DEF MailInv, Used
<1>5. \A k \in Handlers : h \notin pressed[k]
  BY <1>4 DEF MailInv
<1>6. \A k \in Handlers : h \notin gmail[k].by
  BY <1>1, <1>4 DEF MailInv
<1>7. \A k \in Handlers : by \cap gmail[k].by = {}
  BY <1>1, <1>6 DEF MailInv
<1>8. \A k \in Handlers \ {h} : by \cap pressed[k] = {}
  BY <1>5 DEF MailInv
<1>9. \A c \in by : Used(c) \/ (c = h /\ h \in Sessions)
  BY DEF MailInv, Handlers
<1>10. \A c : Used(c)' = Used(c)
  BY <1>1 DEF Used
<1> HIDE DEF by
<1>11. (\A k \in Handlers : \A c \in gmail[k].by :
          Used(c) \/ (c \in Sessions /\ button[c].kind = "none" /\ pc[c] \in {"record", "done"}))'
  <2>1. \A c \in by :
          Used(c)' \/ (c \in Sessions /\ button'[c].kind = "none" /\ pc'[c] \in {"record", "done"})
    BY <1>1, <1>4, <1>9, <1>10
  <2>2. \A k \in Handlers : \A c \in gmail[k].by :
          Used(c)' \/ (c \in Sessions /\ button'[c].kind = "none" /\ pc'[c] \in {"record", "done"})
    BY <1>1, <1>2, <1>10 DEF MailInv, Handlers
  <2> QED
    BY <1>3, <2>1, <2>2
<1>12. (\A k \in Handlers : pc[k] \notin {"record", "done"} =>
          \A l \in Handlers : pressed[k] \cap gmail[l].by = {})'
  BY <1>1, <1>2, <1>3, <1>8 DEF MailInv
<1>13. (\A k, l \in Handlers : k # l => gmail[k].by \cap gmail[l].by = {})'
  <2>1. \A k, l \in Handlers : k # l => gmail[k].by \cap gmail[l].by = {}
    BY DEF MailInv
  <2> QED
    BY <1>3, <1>7, <2>1
<1>14. (\A k \in Handlers : pc[k] # "done" => button[k].kind = "none")'
  BY <1>1, <1>2, <1>4 DEF MailInv
<1>15. (\A k \in Handlers : pressed[k] = {} \/ \E c \in Buttons : pressed[k] = {c} /\ Used(c))'
  BY <1>1, <1>10 DEF MailInv
<1>16. /\ (\A s \in Sessions : pressed[s] = {})'
       /\ (\A k, l \in Handlers : k # l => pressed[k] \cap pressed[l] = {})'
  BY <1>1 DEF MailInv
<1> QED
  BY <1>11, <1>12, <1>13, <1>14, <1>15, <1>16 DEF MailInv

\* The buttons of a new alert are nobody's yet.
LEMMA RewriteKeepsMail ==
    ASSUME TypeOK, MailInv, Rewrite
    PROVE  MailInv'
<1>1. UNCHANGED <<gmail, pc, pressed>>
  BY RewriteWrites DEF locals
<1>2. \A b \in Buttons : button'[b] = button[b] \/ (b \notin Handlers /\ ~Used(b))
  BY RewriteButtons, HandlerAssumption DEF Used
<1>3. Handlers \subseteq Buttons /\ Sessions \subseteq Handlers
  BY DEF Buttons, Handlers
<1>4. \A g \in Handlers : gmail[g].by \subseteq Buttons
  BY DEF TypeOK
<1>5. \A b \in Buttons : Used(b) => Used(b)'
  BY <1>2 DEF Used
<1> QED
  BY <1>1, <1>2, <1>3, <1>4, <1>5 DEF MailInv

LEMMA PressKeepsMail ==
    ASSUME TypeOK, MailInv, NEW p \in Presses, Press(p)
    PROVE  MailInv'
<1> p \in Handlers
  BY DEF Handlers
<1>1. CASE \E b \in Buttons : Consume(p, b)
  BY <1>1, ConsumeKeeps
<1>2. ASSUME NEW b \in pressed[p],
             PressApprove(p, b) \/ PressDecline(p, b) \/ PressSend(p, b) \/ PressConfirm(p, b)
      PROVE  MailInv'
  <2>1. b \in Buttons
    BY DEF TypeOK
  <2>2. \/ \E from \in PcStates \ {"done"} : Refuse(p, from)
        \/ StartDraft(p, "pressed")
        \/ \E to \in PcStates \ {"done"} : Take(p, b, to)
    <3>1. {"pressed", "approve", "check", "confirm"} \subseteq PcStates \ {"done"}
      BY DEF PcStates
    <3> QED
      BY <1>2, <3>1 DEF PressApprove, PressDecline, PressSend, PressConfirm
  <2> QED
    BY <2>1, <2>2, HarmlessSteps, HarmlessKeeps
<1> QED
  BY <1>1, <1>2 DEF Press

LEMMA StepKeepsMail ==
    ASSUME TypeOK, MailInv, [Next]_vars
    PROVE  MailInv'
<1>1. CASE UNCHANGED vars
  BY <1>1, StillKeeps DEF vars, locals
<1>2. ASSUME NEW s \in Sessions, Open(s) \/ Request(s) PROVE MailInv'
  <2> s \in Handlers
    BY DEF Handlers
  <2>1. RefuseRequest(s) => \E from \in PcStates \ {"done"} : Refuse(s, from)
    BY DEF RefuseRequest, PcStates
  <2> QED
    BY <1>2, <2>1, HarmlessSteps, HarmlessKeeps DEF Request, RequestPrepare
<1>3. ASSUME NEW p \in Presses, Press(p) PROVE MailInv'
  BY <1>3, PressKeepsMail
<1>4. ASSUME NEW h \in Handlers, Continue(h) \/ Crash(h) PROVE MailInv'
  <2>1. SyncFails(h) \/ DraftChanged(h) \/ SendFails(h) \/ StaleWrite(h) =>
            \E from \in PcStates \ {"done"} : Refuse(h, from)
    <3>1. {"sync", "check", "send", "store", "save", "record", "confirm", "approve"}
              \subseteq PcStates \ {"done"}
      BY DEF PcStates
    <3> QED
      BY <3>1 DEF SyncFails, DraftChanged, SendFails, StaleWrite
  <2> QED
    BY <1>4, <2>1, HarmlessSteps, HarmlessKeeps, OfferKeeps, SendKeeps DEF Continue
<1>5. ASSUME NEW g \in Handlers, EditInGmail(g) \/ SendInGmail(g) PROVE MailInv'
  <2>1. gmail' = [gmail EXCEPT ![g].st = "sent"] \/ \E t : gmail' = [gmail EXCEPT ![g].text = t]
    BY <1>5 DEF EditInGmail, SendInGmail
  <2>2. gmail \in [Handlers -> [st : {"absent", "draft", "sent"}, text : Texts \cup {NoText},
                              by : SUBSET Buttons]]
    BY DEF TypeOK
  <2>3. \A k \in Handlers : gmail'[k].by = gmail[k].by
    BY <2>1, <2>2
  <2> QED
    BY <1>5, <2>3, StillKeeps DEF EditInGmail, SendInGmail, locals
<1>6. CASE Rewrite
  BY <1>6, RewriteKeepsMail
<1> QED
  BY <1>1, <1>2, <1>3, <1>4, <1>5, <1>6 DEF Next, Quiescent

LEMMA InitMail == Init => MailInv
<1> SUFFICES ASSUME Init PROVE MailInv
  OBVIOUS
<1>1. \A h \in Handlers : pressed[h] = {} /\ gmail[h].by = {}
  BY DEF Init, NoMail
<1>2. \A h \in Handlers : button[h].kind = "none"
  <2>1. PICK a \in ApproveButtons, d \in DeclineButtons :
            button = AlertButtons([b \in Buttons |-> NoButton], a, d, 0)
    BY DEF Init
  <2>2. ASSUME NEW h \in Handlers PROVE h \in Buttons /\ h # a /\ h # d
    BY HandlerAssumption DEF Buttons
  <2>3. ASSUME NEW b \in Buttons, b # a, b # d PROVE button[b] = NoButton
    BY <2>1, <2>3 DEF AlertButtons
  <2> QED
    BY <2>2, <2>3 DEF NoButton
<1> QED
  BY <1>1, <1>2 DEF MailInv, Handlers

\* One approval, a request or a button, sends one mail at most, however often Telegram
\* delivers a press and whoever presses.
THEOREM OneMail == Spec => []OneMailPerApproval
<1>1. MailInv => OneMailPerApproval
  BY DEF MailInv, OneMailPerApproval
<1> QED
  BY <1>1, InitType, StepTypes, InitMail, StepKeepsMail, PTL DEF Spec

-----------------------------------------------------------------------------
(* The text of a mail *)

\* A draft the case or a handler names: at most one in Gmail, and one that was made.
Fits(d) ==
    /\ \A g, k \in d.ref : g = k
    /\ d.mode # "live" => d.ref = {}
    /\ \A g \in d.ref : gmail[g].st # "absent"

Mailed(g, t) == gmail[g].st = "sent" /\ gmail[g].text = t

\* A handler that has not made a Gmail draft yet.
Fresh(h) == pc[h] \in {"idle", "shown", "pressed", "create"}

\* What a handler has read, or made and not stored yet.
NamesFit(h) ==
    /\ Fits(seen[h])
    /\ Fresh(h) => gmail[h].st = "absent"
    /\ pc[h] = "store" => /\ seen[h].ref \subseteq {h} /\ seen[h].state = "READY"
                          /\ h \notin draft.ref \cup sentRef

\* Nobody but its maker knows a Gmail draft before the case names it.
Secret(h) == pc[h] = "store" => \A k \in Handlers \ {h} : h \notin seen[k].ref

\* The text a handler sends or sent; and what it overwrites was not mailed.
TextFits(h) ==
    /\ pc[h] = "send" => \A g \in seen[h].ref : gmail[g].text = txt[h]
    /\ pc[h] = "record" => \A g \in seen[h].ref : Mailed(g, txt[h])
    /\ pc[h] = "save" /\ ver[h] = version /\ draft.state = "SENT" /\ sentRef = draft.ref =>
          draft.ref = {}

\* What the case names was made; the draft it recorded as mailed it calls sent.
CaseFits ==
    /\ Fits(draft)
    /\ \A g \in sentRef : gmail[g].st # "absent"
    /\ sentRef # {} /\ sentRef = draft.ref => draft.state = "SENT"

MailedFits ==
    draft.state = "SENT" /\ sentRef = draft.ref => \A g \in sentRef : Mailed(g, draft.text)

TextInv ==
    /\ CaseFits
    /\ \A h \in Handlers : NamesFit(h) /\ Secret(h)
    /\ ~swapped => MailedFits /\ \A h \in Handlers : TextFits(h)

LEMMA NoDraftFits == Fits(NoDraft) /\ Fits(NoDraft)'
BY DEF Fits, NoDraft

\* A step of one handler that writes neither the case nor Gmail.
LEMMA QuietText ==
    ASSUME TextInv, NEW h \in Handlers, OnlyMoves(h),
           UNCHANGED <<version, draft, sentRef, gmail, swapped>>,
           seen'[h] \in {seen[h], draft, NoDraft}, pc'[h] # "store",
           Fresh(h)' => Fresh(h), ~swapped => TextFits(h)'
    PROVE  TextInv'
<1>1. CaseFits'
  BY DEF TextInv, CaseFits, Fits
<1>2. \A k \in Handlers : Fits(seen[k])'
  <2>1. Fits(seen[h])'
    BY NoDraftFits DEF TextInv, NamesFit, CaseFits, Fits
  <2> QED
    BY <2>1 DEF OnlyMoves, TextInv, NamesFit, Fits
<1>3. \A k \in Handlers : NamesFit(k)'
  BY <1>2 DEF OnlyMoves, TextInv, NamesFit, Fresh
<1>4. \A k \in Handlers : Secret(k)'
  <2>1. seen'[h].ref \subseteq seen[h].ref \cup draft.ref
    BY DEF NoDraft
  <2> QED
    BY <2>1 DEF OnlyMoves, TextInv, Secret, NamesFit
<1>5. ~swapped => MailedFits'
  BY DEF TextInv, MailedFits, Mailed
<1>6. ~swapped => \A k \in Handlers : TextFits(k)'
  BY DEF TextInv, OnlyMoves, TextFits, Mailed
<1> QED
  BY <1>1, <1>3, <1>4, <1>5, <1>6 DEF TextInv

LEMMA RefuseText ==
    ASSUME TypeOK, TextInv, NEW h \in Handlers, NEW from, Return(h, from),
           UNCHANGED <<caseVars, gmail, swapped>>
    PROVE  TextInv'
<1>1. OnlyMoves(h) /\ pc'[h] = "done" /\ seen'[h] = NoDraft
  BY DEF Return, Step, OnlyMoves, TypeOK
<1> QED
  BY <1>1, QuietText DEF Fresh, TextFits, caseVars

LEMMA RequestText ==
    ASSUME DraftInv, TextInv, NEW s \in Sessions, Open(s) \/ Request(s)
    PROVE  TextInv'
<1> s \in Handlers
  BY DEF Handlers
<1>1. TypeOK
  BY DEF DraftInv
<1>2. CASE Open(s) \/ RequestPrepare(s)
  <2>1. /\ OnlyMoves(s) /\ pc'[s] \in {"shown", "create"} /\ pc[s] \in {"idle", "shown"}
        /\ seen'[s] = seen[s] /\ UNCHANGED <<version, draft, sentRef, gmail, swapped>>
    BY <1>1, <1>2
       DEF Open, RequestPrepare, StartDraft, Step, OnlyMoves, TypeOK, caseVars, history
  <2> QED
    BY <2>1, QuietText DEF Fresh, TextFits
<1>3. CASE RequestSend(s) \/ RequestConfirm(s)
  <2>1. /\ OnlyMoves(s) /\ pc'[s] \in {"check", "confirm"}
        /\ seen'[s] = draft /\ UNCHANGED <<version, draft, sentRef, gmail, swapped>>
    BY <1>1, <1>3 DEF RequestSend, RequestConfirm, Step, OnlyMoves, TypeOK, caseVars, history
  <2> QED
    BY <2>1, QuietText DEF Fresh, TextFits
<1>4. CASE RequestEdit(s)
  <2>1. /\ OnlyMoves(s) /\ pc'[s] = (IF Live(draft) THEN "sync" ELSE "save")
        /\ seen'[s] = draft /\ UNCHANGED <<version, draft, sentRef, gmail, swapped>>
    BY <1>1, <1>4 DEF RequestEdit, Step, OnlyMoves, TypeOK, caseVars, history
  <2>2. ~Live(draft) => draft.ref = {}
    BY DEF Live, TextInv, CaseFits, Fits
  <2>3. TextFits(s)'
    BY <2>1, <2>2 DEF TextFits
  <2> QED
    BY <2>1, <2>3, QuietText DEF Fresh
<1>5. CASE RefuseRequest(s)
  BY <1>1, <1>5, RefuseText DEF RefuseRequest, Refuse, history
<1> QED
  BY <1>2, <1>3, <1>4, <1>5 DEF Request

LEMMA PressText ==
    ASSUME DraftInv, TextInv, NEW p \in Presses, Press(p)
    PROVE  TextInv'
<1> p \in Handlers
  BY DEF Handlers
<1>1. TypeOK
  BY DEF DraftInv
<1>2. CASE (\E b \in Buttons : Consume(p, b)) \/ StartDraft(p, "pressed")
  <2>1. /\ OnlyMoves(p) /\ pc'[p] \in {"pressed", "create"} /\ pc[p] \in {"idle", "pressed"}
        /\ seen'[p] = seen[p] /\ UNCHANGED <<version, draft, sentRef, gmail, swapped>>
    BY <1>1, <1>2 DEF Consume, StartDraft, Step, OnlyMoves, TypeOK, caseVars, history
  <2> QED
    BY <2>1, QuietText DEF Fresh, TextFits
<1>3. ASSUME NEW b, NEW to \in {"approve", "check", "confirm"}, Take(p, b, to)
      PROVE  TextInv'
  <2>1. /\ OnlyMoves(p) /\ pc'[p] = to
        /\ seen'[p] = draft /\ UNCHANGED <<version, draft, sentRef, gmail, swapped>>
    BY <1>1, <1>3 DEF Take, Step, OnlyMoves, TypeOK, caseVars, history
  <2> QED
    BY <2>1, QuietText DEF Fresh, TextFits
<1>4. CASE Refuse(p, "pressed")
  BY <1>1, <1>4, RefuseText DEF Refuse, history
<1> QED
  BY <1>2, <1>3, <1>4
     DEF Press, PressApprove, PressDecline, PressSend, PressConfirm

\* A new Gmail draft is one nobody has heard of.
LEMMA CreateText ==
    ASSUME TypeOK, TextInv, NEW h \in Handlers, CreateLive(h) \/ CreateCompose(h)
    PROVE  TextInv'
<1>1. /\ OnlyMoves(h) /\ pc[h] = "create" /\ pc'[h] = "store"
      /\ UNCHANGED <<version, draft, sentRef, swapped>>
  BY DEF CreateLive, CreateCompose, Step, OnlyMoves, TypeOK, caseVars, history
<1>2. /\ \A g \in Handlers \ {h} : gmail'[g] = gmail[g]
      /\ seen'[h].state = "READY" /\ seen'[h].ref \subseteq {h}
      /\ seen'[h].mode # "live" => seen'[h].ref = {}
      /\ seen'[h].ref # {} => gmail'[h].st = "draft"
  BY DEF CreateLive, CreateCompose, TypeOK
<1>3. gmail[h].st = "absent"
  BY <1>1 DEF TextInv, NamesFit, Fresh
<1>4. /\ h \notin draft.ref \cup sentRef
      /\ \A k \in Handlers : h \notin seen[k].ref
  BY <1>3 DEF TextInv, CaseFits, NamesFit, Fits
<1>5. /\ draft.ref \subseteq Handlers /\ sentRef \subseteq Handlers
      /\ \A k \in Handlers : seen[k].ref \subseteq Handlers
  BY DEF TypeOK, Drafts
<1>6. CaseFits'
  BY <1>1, <1>2, <1>4, <1>5 DEF TextInv, CaseFits, Fits
<1>7. Fits(seen[h])'
  BY <1>2 DEF Fits
<1>8. \A k \in Handlers \ {h} : Fits(seen[k])'
  BY <1>1, <1>2, <1>4, <1>5 DEF OnlyMoves, TextInv, NamesFit, Fits
<1>9. NamesFit(h)'
  BY <1>1, <1>2, <1>4, <1>7 DEF NamesFit, Fresh
<1>10. \A k \in Handlers \ {h} : NamesFit(k)'
  BY <1>1, <1>2, <1>8 DEF OnlyMoves, TextInv, NamesFit, Fresh
<1>11. \A k \in Handlers : Secret(k)'
  BY <1>1, <1>2, <1>4 DEF OnlyMoves, TextInv, Secret
<1>12. ~swapped => MailedFits'
  BY <1>1, <1>2, <1>4, <1>5 DEF TextInv, MailedFits, Mailed
<1>13. ~swapped => \A k \in Handlers : TextFits(k)'
  BY <1>1, <1>2, <1>4, <1>5 DEF OnlyMoves, TextInv, TextFits, Mailed
<1> QED
  BY <1>1, <1>6, <1>9, <1>10, <1>11, <1>12, <1>13 DEF TextInv

\* A write of the case under its version.
LEMMA WriteText ==
    ASSUME DraftInv, TextInv, NEW h \in Handlers, OnlyMoves(h), version' = version + 1,
           UNCHANGED <<gmail, swapped>>, seen'[h] \in {seen[h], NoDraft},
           pc'[h] \in {"done", "offer"},
           draft'.ref \cup sentRef' \subseteq draft.ref \cup sentRef \cup seen[h].ref,
           CaseFits', ~swapped => MailedFits'
    PROVE  TextInv'
<1>1. TypeOK /\ \A k \in Handlers : ver[k] <= version
  BY DEF DraftInv, Promise
<1>2. \A k \in Handlers : ver[k] # version'
  <2>1. \A k \in Handlers : ver[k] \in Nat
    BY <1>1 DEF TypeOK
  <2> QED
    BY <1>1, <2>1, VersionTypes
<1>3. \A k \in Handlers : Fits(seen[k])'
  <2>1. Fits(seen[h])'
    BY NoDraftFits DEF TextInv, NamesFit, Fits
  <2> QED
    BY <2>1 DEF OnlyMoves, TextInv, NamesFit, Fits
<1>4. \A k \in Handlers : NamesFit(k)'
  BY <1>3 DEF OnlyMoves, TextInv, NamesFit, Secret, Fresh
<1>5. \A k \in Handlers : Secret(k)'
  <2>1. seen'[h].ref \subseteq seen[h].ref
    BY DEF NoDraft
  <2> QED
    BY <2>1 DEF OnlyMoves, TextInv, Secret
<1>6. ~swapped => \A k \in Handlers : TextFits(k)'
  BY <1>2 DEF OnlyMoves, TextInv, TextFits, Mailed
<1> QED
  BY <1>4, <1>5, <1>6 DEF TextInv

LEMMA StoreText ==
    ASSUME DraftInv, TextInv, NEW h \in Handlers, StoreDraft(h)
    PROVE  TextInv'
<1>1. TypeOK
  BY DEF DraftInv
<1>2. /\ OnlyMoves(h) /\ pc[h] = "store" /\ pc'[h] = "offer" /\ version' = version + 1
      /\ seen'[h] = seen[h] /\ draft' = seen[h] /\ UNCHANGED <<sentRef, gmail, swapped>>
  BY <1>1 DEF StoreDraft, Bump, Step, OnlyMoves, TypeOK
<1>3. /\ seen[h].ref \subseteq {h} /\ seen[h].state = "READY" /\ h \notin sentRef
      /\ Fits(seen[h])
  BY <1>2 DEF TextInv, NamesFit
<1>4. CaseFits' /\ MailedFits'
  BY <1>2, <1>3 DEF TextInv, CaseFits, MailedFits, Fits
<1> QED
  BY <1>2, <1>4, WriteText

LEMMA RecordingText ==
    ASSUME DraftInv, TextInv, NEW h \in Handlers,
           SaveDraft(h) \/ RecordSent(h) \/ ConfirmSent(h) \/ Approve(h)
    PROVE  TextInv'
<1>1. TypeOK /\ Promise(h)
  BY DEF DraftInv
<1>2. /\ OnlyMoves(h) /\ pc'[h] = "done" /\ seen'[h] = NoDraft /\ version' = version + 1
      /\ UNCHANGED <<gmail, swapped>>
  BY <1>1 DEF SaveDraft, RecordSent, ConfirmSent, Approve, Return, Bump, Step, OnlyMoves, TypeOK
<1>3. CaseFits /\ NamesFit(h) /\ (~swapped => MailedFits /\ TextFits(h))
  BY DEF TextInv
<1>4. draft \in Drafts /\ seen[h] \in Drafts
  BY <1>1 DEF TypeOK
<1>5. CASE SaveDraft(h)
  <2>1. pc[h] = "save" /\ version = ver[h] /\ seen[h] = draft /\ UNCHANGED sentRef
    BY <1>1, <1>5 DEF SaveDraft, Return, Step, Promise, Holding
  <2>2. draft'.ref = draft.ref /\ draft'.mode = draft.mode /\ draft'.state = draft.state
    BY <1>4, <1>5, <2>1 DEF SaveDraft, Drafts
  <2>3. CaseFits'
    BY <1>2, <1>3, <2>1, <2>2 DEF CaseFits, Fits
  <2>4. ~swapped => MailedFits'
    BY <1>3, <2>1, <2>2 DEF TextFits, MailedFits
  <2> QED
    BY <1>2, <2>1, <2>2, <2>3, <2>4, WriteText
<1>6. CASE RecordSent(h)
  <2>1. pc[h] = "record" /\ version = ver[h] /\ sentRef' = seen[h].ref
    BY <1>6 DEF RecordSent, Return, Step
  <2>2. /\ draft'.ref = seen[h].ref /\ draft'.mode = seen[h].mode /\ draft'.state = "SENT"
        /\ draft'.text = seen[h].text
    BY <1>4, <1>6 DEF RecordSent, Drafts
  <2>3. seen[h].text = txt[h]
    BY <1>1, <2>1 DEF Promise, Holding, Knowing
  <2>4. CaseFits'
    BY <1>2, <1>3, <2>1, <2>2 DEF CaseFits, NamesFit, Fits
  <2>5. ~swapped => MailedFits'
    BY <1>2, <1>3, <2>1, <2>2, <2>3 DEF TextFits, MailedFits, Mailed
  <2> QED
    BY <1>2, <2>1, <2>2, <2>4, <2>5, WriteText
<1>7. CASE ConfirmSent(h)
  <2>1. pc[h] = "confirm" /\ version = ver[h] /\ seen[h] = draft /\ UNCHANGED sentRef
    BY <1>1, <1>7 DEF ConfirmSent, Return, Step, Promise, Holding
  <2>2. /\ draft'.ref = draft.ref /\ draft'.mode = draft.mode /\ draft'.state = "SENT"
        /\ draft'.text = draft.text
    BY <1>4, <1>7, <2>1 DEF ConfirmSent, Drafts
  <2>3. CaseFits'
    BY <1>2, <1>3, <2>1, <2>2 DEF CaseFits, Fits
  <2>4. ~swapped => MailedFits'
    BY <1>2, <1>3, <2>1, <2>2 DEF CaseFits, MailedFits, Mailed
  <2> QED
    BY <1>2, <2>1, <2>2, <2>3, <2>4, WriteText
<1>8. CASE Approve(h)
  <2>1. UNCHANGED <<draft, sentRef>>
    BY <1>8 DEF Approve
  <2>2. CaseFits' /\ (~swapped => MailedFits')
    BY <1>2, <1>3, <2>1 DEF CaseFits, Fits, MailedFits, Mailed
  <2> QED
    BY <1>2, <2>1, <2>2, WriteText
<1> QED
  BY <1>5, <1>6, <1>7, <1>8

\* A Gmail draft gets another text or is sent: it was not sent before.
LEMMA GmailText ==
    ASSUME TypeOK, TextInv, NEW g \in Handlers, gmail[g].st = "draft",
           gmail'[g].st # "absent", \A k \in Handlers \ {g} : gmail'[k] = gmail[k],
           UNCHANGED <<version, draft, sentRef, ver, txt, seen>>,
           \A k \in Handlers : /\ pc'[k] = "store" => pc[k] = "store"
                               /\ Fresh(k)' => Fresh(k),
           ~swapped' => ~swapped,
           ~swapped' => \A k \in Handlers : TextFits(k)'
    PROVE  TextInv'
<1>1. /\ draft.ref \subseteq Handlers /\ sentRef \subseteq Handlers
      /\ \A k \in Handlers : seen[k].ref \subseteq Handlers
  BY DEF TypeOK, Drafts
<1>2. CaseFits'
  BY <1>1 DEF TextInv, CaseFits, Fits
<1>3. \A k \in Handlers : Fits(seen[k])'
  BY <1>1 DEF TextInv, NamesFit, Fits
<1>4. \A k \in Handlers : NamesFit(k)'
  BY <1>3 DEF TextInv, NamesFit
<1>5. \A k \in Handlers : Secret(k)'
  BY DEF TextInv, Secret
<1>6. ~swapped' => MailedFits'
  BY <1>1 DEF TextInv, MailedFits, Mailed
<1> QED
  BY <1>2, <1>4, <1>5, <1>6 DEF TextInv

\* A draft that changes its text is about to be sent by nobody, or is swapped.
LEMMA EditedText ==
    ASSUME TypeOK, TextInv, NEW g \in Handlers, gmail[g].st = "draft", NEW t,
           gmail' = [gmail EXCEPT ![g].text = t],
           IF gmail[g].text = t THEN UNCHANGED swapped ELSE Swap(g),
           UNCHANGED <<version, draft, sentRef, ver, txt, seen>>, ~swapped'
    PROVE  /\ ~swapped
           /\ \A k \in Handlers : pc'[k] = pc[k] => TextFits(k)'
<1>1. \A k \in Handlers : seen[k].ref \subseteq Handlers
  BY DEF TypeOK, Drafts
<1>2. /\ gmail'[g].text = t /\ gmail'[g].st = "draft"
      /\ \A k \in Handlers \ {g} : gmail'[k] = gmail[k]
  BY DEF TypeOK
<1>3. ~swapped
  BY DEF Swap
<1>4. ASSUME NEW k \in Handlers, pc'[k] = pc[k] PROVE TextFits(k)'
  <2>1. TextFits(k)
    BY <1>3 DEF TextInv
  <2>2. pc[k] = "send" /\ g \in seen[k].ref => gmail[g].text = t
    BY DEF Swap
  <2>3. pc[k] = "record" => g \notin seen[k].ref
    BY <2>1 DEF TextFits, Mailed
  <2> QED
    BY <1>1, <1>2, <1>4, <2>1, <2>2, <2>3 DEF TextFits, Mailed
<1> QED
  BY <1>3, <1>4

LEMMA SyncText ==
    ASSUME DraftInv, TextInv, NEW h \in Handlers, SyncDraft(h)
    PROVE  TextInv'
<1>1. TypeOK /\ Promise(h)
  BY DEF DraftInv
<1>2. /\ pc[h] = "sync" /\ pc'[h] = "save" /\ \A k \in Handlers \ {h} : pc'[k] = pc[k]
      /\ UNCHANGED <<version, draft, sentRef, ver, txt, seen>>
  BY <1>1 DEF SyncDraft, Step, TypeOK, caseVars, locals
<1>3. PICK g \in seen[h].ref :
          /\ gmail[g].st = "draft"
          /\ gmail' = [gmail EXCEPT ![g].text = txt[h]]
          /\ IF gmail[g].text = txt[h] THEN UNCHANGED swapped ELSE Swap(g)
  BY DEF SyncDraft
<1>4. g \in Handlers
  BY <1>1, <1>3, RefType
<1>5. gmail'[g].st = "draft" /\ \A k \in Handlers \ {g} : gmail'[k] = gmail[k]
  BY <1>1, <1>3, <1>4 DEF TypeOK
<1>6. ~swapped' => ~swapped
  BY <1>3 DEF Swap
<1>7. ~swapped' => TextFits(h)'
  <2>1. SUFFICES ASSUME ~swapped, ver[h] = version, draft.state = "SENT", sentRef = draft.ref
                 PROVE  FALSE
    BY <1>2, <1>6 DEF TextFits
  <2>2. seen[h] = draft
    BY <1>1, <1>2, <2>1 DEF Promise, Holding
  <2>3. gmail[g].st = "sent"
    BY <1>3, <2>1, <2>2 DEF TextInv, MailedFits, Mailed
  <2> QED
    BY <1>3, <2>3
<1>8. ~swapped' => \A k \in Handlers : TextFits(k)'
  BY <1>1, <1>2, <1>3, <1>4, <1>7, EditedText
<1> QED
  BY <1>1, <1>2, <1>3, <1>4, <1>5, <1>6, <1>8, GmailText DEF Fresh

LEMMA SendText ==
    ASSUME TypeOK, TextInv, NEW h \in Handlers, SendDraft(h)
    PROVE  TextInv'
<1>1. /\ pc[h] = "send" /\ pc'[h] = "record" /\ \A k \in Handlers \ {h} : pc'[k] = pc[k]
      /\ UNCHANGED <<version, draft, sentRef, ver, txt, seen, swapped>>
  BY DEF SendDraft, Step, TypeOK, caseVars, locals, history
<1>2. PICK g \in seen[h].ref :
          /\ gmail[g].st = "draft"
          /\ gmail' = [gmail EXCEPT ![g].st = "sent",
                                    ![g].by = IF h \in Presses THEN pressed[h] ELSE {h}]
  BY DEF SendDraft
<1>3. g \in Handlers /\ \A k \in Handlers : seen[k].ref \subseteq Handlers
  BY <1>2, RefType
<1>4. /\ gmail'[g].st = "sent" /\ gmail'[g].text = gmail[g].text
      /\ \A k \in Handlers \ {g} : gmail'[k] = gmail[k]
  BY <1>2, <1>3 DEF TypeOK
<1>5. ASSUME ~swapped, NEW k \in Handlers PROVE TextFits(k)'
  <2>1. TextFits(k)
    BY <1>5 DEF TextInv
  <2>2. CASE k = h
    <3>1. \A l \in seen[h].ref : l = g
      BY <1>2 DEF TextInv, NamesFit, Fits
    <3> QED
      BY <1>1, <1>4, <2>1, <2>2, <3>1 DEF TextFits, Mailed
  <2>3. CASE k # h
    BY <1>1, <1>3, <1>4, <2>1, <2>3 DEF TextFits, Mailed
  <2> QED
    BY <2>2, <2>3
<1> QED
  BY <1>1, <1>2, <1>3, <1>4, <1>5, GmailText DEF Fresh

LEMMA InGmailText ==
    ASSUME TypeOK, TextInv, NEW g \in Handlers, EditInGmail(g) \/ SendInGmail(g)
    PROVE  TextInv'
<1>1. gmail[g].st = "draft" /\ UNCHANGED <<version, draft, sentRef, ver, txt, seen, pc>>
  BY DEF EditInGmail, SendInGmail, caseVars, locals
<1>2. gmail'[g].st # "absent" /\ \A k \in Handlers \ {g} : gmail'[k] = gmail[k]
  BY DEF EditInGmail, SendInGmail, TypeOK
<1>3. ASSUME ~swapped' PROVE ~swapped /\ \A k \in Handlers : TextFits(k)'
  <2>1. CASE EditInGmail(g)
    <3>1. PICK t \in Texts \ {gmail[g].text} : gmail' = [gmail EXCEPT ![g].text = t]
      BY <2>1 DEF EditInGmail
    <3>2. IF gmail[g].text = t THEN UNCHANGED swapped ELSE Swap(g)
      BY <2>1, <3>1 DEF EditInGmail
    <3> QED
      BY <1>1, <1>3, <3>1, <3>2, EditedText
  <2>2. CASE SendInGmail(g)
    <3>1. /\ UNCHANGED swapped /\ gmail'[g].text = gmail[g].text /\ gmail'[g].st = "sent"
          /\ \A k \in Handlers : seen[k].ref \subseteq Handlers
      BY <2>2, RefType DEF SendInGmail, TypeOK
    <3> QED
      BY <1>1, <1>2, <1>3, <3>1 DEF TextInv, TextFits, Mailed
  <2> QED
    BY <2>1, <2>2
<1> QED
  BY <1>1, <1>2, <1>3, GmailText DEF Fresh

LEMMA OtherText ==
    ASSUME DraftInv, TextInv, Rewrite
    PROVE  TextInv'
<1>1. version' = version + 1 /\ UNCHANGED <<draft, sentRef, gmail, pc, ver, txt, seen, swapped>>
  BY RewriteWrites DEF locals
<1>2. \A k \in Handlers : ver[k] # version'
  <2>1. TypeOK /\ \A k \in Handlers : ver[k] <= version
    BY DEF DraftInv, Promise
  <2>2. \A k \in Handlers : ver[k] \in Nat
    BY <2>1 DEF TypeOK
  <2> QED
    BY <1>1, <2>1, <2>2, VersionTypes
<1> QED
  BY <1>1, <1>2
     DEF TextInv, CaseFits, NamesFit, Secret, MailedFits, TextFits, Fits, Fresh, Mailed

LEMMA StepKeepsText ==
    ASSUME DraftInv, TextInv, [Next]_vars
    PROVE  TextInv'
<1>1. TypeOK
  BY DEF DraftInv
<1>2. CASE UNCHANGED vars
  <2>1. UNCHANGED <<version, draft, sentRef, gmail, pc, ver, txt, seen, swapped>>
    BY <1>2 DEF vars, caseVars, locals, history
  <2> QED
    BY <2>1 DEF TextInv, CaseFits, NamesFit, Secret, MailedFits, TextFits, Fits, Fresh, Mailed
<1>3. ASSUME NEW h \in Handlers,
             \/ SyncFails(h) \/ DraftChanged(h) \/ SendFails(h) \/ StaleWrite(h)
             \/ Offer(h) \/ Crash(h)
      PROVE  TextInv'
  <2>1. (\E from : Return(h, from)) /\ UNCHANGED <<caseVars, gmail, swapped>>
    BY <1>3 DEF SyncFails, DraftChanged, SendFails, StaleWrite, Refuse, Offer, Crash, history
  <2> QED
    BY <1>1, <2>1, RefuseText
<1>4. ASSUME NEW h \in Handlers, CheckDraft(h) PROVE TextInv'
  <2>1. /\ OnlyMoves(h) /\ pc'[h] = "send" /\ seen'[h] = seen[h] /\ txt'[h] = txt[h]
        /\ UNCHANGED <<version, draft, sentRef, gmail, swapped>>
    BY <1>1, <1>4 DEF CheckDraft, Step, OnlyMoves, TypeOK, caseVars, locals, history
  <2>2. \A g \in seen[h].ref : gmail[g].text = txt[h]
    BY <1>4 DEF CheckDraft, TextInv, NamesFit, Fits
  <2>3. TextFits(h)'
    BY <2>1, <2>2 DEF TextFits
  <2> QED
    BY <2>1, <2>3, QuietText DEF Fresh
<1> QED
  BY <1>1, <1>2, <1>3, <1>4, RequestText, PressText, CreateText, StoreText, RecordingText,
     SyncText, SendText, InGmailText, OtherText
     DEF Next, Continue, Quiescent

LEMMA InitText == Init => TextInv
<1> SUFFICES ASSUME Init PROVE TextInv
  OBVIOUS
<1>1. \A h \in Handlers : gmail[h].st = "absent" /\ pc[h] = "idle" /\ seen[h] = NoDraft
  BY DEF Init, NoMail
<1>2. draft.state = "none" /\ draft = NoDraft /\ sentRef = {}
  BY DEF Init, NoDraft
<1> QED
  BY <1>1, <1>2, NoDraftFits
     DEF TextInv, CaseFits, NamesFit, Secret, MailedFits, TextFits, Fresh

\* The mail a handler sends has the text that was approved, and the one a case records
\* has the text the case shows, unless somebody changed the draft in Gmail in between.
THEOREM MailedAsApproved == Spec => []MailAsApproved
<1>1. TextInv => MailAsApproved
  BY DEF TextInv, TextFits, MailedFits, Mailed, MailAsApproved
<1> QED
  BY <1>1, InitDraft, StepKeepsDraft, InitText, StepKeepsText, PTL DEF Spec

-----------------------------------------------------------------------------
(* The contract *)

\* A handler edits or confirms an answer there is, has a text to write, has sent what it
\* records, and a press holds the button it came from until it returns.
Earnest(h) ==
    /\ pc[h] \in {"sync", "save", "confirm"} => seen[h].state # "none"
    /\ pc[h] \in {"create", "store", "sync", "save"} => txt[h] \in Texts
    /\ pc[h] = "record" => \E g \in seen[h].ref : gmail[g].st = "sent"
    /\ h \in Presses /\ pc[h] \notin {"idle", "done"} => pressed[h] # {}

EarnestInv == \A h \in Handlers : Earnest(h)

\* A mail that was sent stays sent.
SentStays == \A g \in Handlers : gmail[g].st = "sent" => gmail'[g].st = "sent"

LEMMA MailsStaySent ==
    ASSUME TypeOK, TextInv, [Next]_vars
    PROVE  SentStays
<1>1. CASE UNCHANGED gmail
  BY <1>1 DEF SentStays
<1>2. ASSUME NEW h \in Handlers, CreateLive(h) \/ CreateCompose(h) PROVE SentStays
  <2>1. gmail[h].st = "absent"
    BY <1>2 DEF CreateLive, CreateCompose, Step, TextInv, NamesFit, Fresh
  <2> QED
    BY <1>2, <2>1 DEF CreateLive, CreateCompose, SentStays, TypeOK
<1>3. ASSUME NEW h \in Handlers, SyncDraft(h) \/ SendDraft(h) PROVE SentStays
  BY <1>3, RefType DEF SyncDraft, SendDraft, SentStays, TypeOK
<1>4. ASSUME NEW g \in Handlers, EditInGmail(g) \/ SendInGmail(g) PROVE SentStays
  BY <1>4 DEF EditInGmail, SendInGmail, SentStays, TypeOK
<1> QED
  BY <1>1, <1>2, <1>3, <1>4, RewriteWrites DEF Next, Request, Press, Continue, Quiescent, Open,
     RequestPrepare, StartDraft, RequestEdit, RequestSend, RequestConfirm, RefuseRequest,
     Refuse, Consume, Take, PressApprove, PressDecline, PressSend, PressConfirm, StoreDraft,
     SaveDraft, RecordSent, ConfirmSent, Approve, Offer, CheckDraft, DraftChanged,
     SendFails, SyncFails, StaleWrite, Crash, vars

\* The step of one handler, which keeps its own promise.
LEMMA OthersEarnest ==
    ASSUME TypeOK, EarnestInv, SentStays, NEW h \in Handlers, OnlyMoves(h),
           \A k \in Handlers \ {h} : pressed'[k] = pressed[k], Earnest(h)'
    PROVE  EarnestInv'
<1>1. ASSUME NEW k \in Handlers, k # h PROVE Earnest(k)'
  <2>1. /\ pc'[k] = pc[k] /\ txt'[k] = txt[k] /\ seen'[k] = seen[k] /\ pressed'[k] = pressed[k]
        /\ Earnest(k)
    BY <1>1 DEF OnlyMoves, EarnestInv
  <2>2. seen[k].ref \subseteq Handlers
    BY RefType
  <2> QED
    BY <2>1, <2>2 DEF Earnest, SentStays
<1> QED
  BY <1>1 DEF EarnestInv

LEMMA ReturnEarnest ==
    ASSUME TypeOK, EarnestInv, SentStays, NEW h \in Handlers, NEW from, Return(h, from)
    PROVE  EarnestInv'
<1>1. OnlyMoves(h) /\ pc'[h] = "done" /\ \A k \in Handlers \ {h} : pressed'[k] = pressed[k]
  BY DEF Return, Step, OnlyMoves, TypeOK
<1>2. Earnest(h)'
  BY <1>1 DEF Earnest
<1> QED
  BY <1>1, <1>2, OthersEarnest

LEMMA RequestEarnest ==
    ASSUME TypeOK, EarnestInv, SentStays, NEW s \in Sessions, Open(s) \/ Request(s)
    PROVE  EarnestInv'
<1> s \in Handlers /\ s \notin Presses
  BY HandlerAssumption DEF Handlers
<1>1. CASE RefuseRequest(s)
  BY <1>1, ReturnEarnest DEF RefuseRequest, Refuse
<1>2. CASE Open(s) \/ RequestPrepare(s) \/ RequestEdit(s) \/ RequestSend(s) \/ RequestConfirm(s)
  <2>1. OnlyMoves(s) /\ pressed' = pressed
    BY <1>2 DEF Open, RequestPrepare, StartDraft, RequestEdit, RequestSend, RequestConfirm, Step,
       OnlyMoves, TypeOK
  <2>2. Earnest(s)'
    BY <1>2 DEF Open, RequestPrepare, StartDraft, RequestEdit, RequestSend, RequestConfirm, Step,
       Earnest, TypeOK
  <2> QED
    BY <2>1, <2>2, OthersEarnest
<1> QED
  BY <1>1, <1>2 DEF Request

LEMMA PressEarnest ==
    ASSUME TypeOK, EarnestInv, SentStays, NEW p \in Presses, Press(p)
    PROVE  EarnestInv'
<1> p \in Handlers
  BY DEF Handlers
<1>1. ASSUME NEW b \in Buttons, Consume(p, b) PROVE EarnestInv'
  <2>1. OnlyMoves(p) /\ \A k \in Handlers \ {p} : pressed'[k] = pressed[k]
    BY <1>1 DEF Consume, Step, OnlyMoves, TypeOK
  <2>2. Earnest(p)'
    BY <1>1 DEF Consume, Step, Earnest, TypeOK
  <2> QED
    BY <2>1, <2>2, OthersEarnest
<1>2. pc[p] = "pressed" => pressed[p] # {}
  BY DEF EarnestInv, Earnest
<1>3. ASSUME NEW b \in Buttons, NEW to \in {"approve", "check", "confirm"}, Take(p, b, to),
             to = "confirm" => draft.state # "none"
      PROVE  EarnestInv'
  <2>1. OnlyMoves(p) /\ pressed' = pressed
    BY <1>3 DEF Take, Step, OnlyMoves, TypeOK
  <2>2. Earnest(p)'
    BY <1>2, <1>3 DEF Take, Step, Earnest, TypeOK
  <2> QED
    BY <2>1, <2>2, OthersEarnest
<1>4. ASSUME StartDraft(p, "pressed") PROVE EarnestInv'
  <2>1. OnlyMoves(p) /\ pressed' = pressed
    BY <1>4 DEF StartDraft, Step, OnlyMoves, TypeOK
  <2>2. Earnest(p)'
    BY <1>2, <1>4 DEF StartDraft, Step, Earnest, TypeOK
  <2> QED
    BY <2>1, <2>2, OthersEarnest
<1>5. ASSUME Refuse(p, "pressed") PROVE EarnestInv'
  BY <1>5, ReturnEarnest DEF Refuse
<1>6. \A b \in pressed[p] : b \in Buttons
  BY DEF TypeOK
<1> QED
  BY <1>1, <1>3, <1>4, <1>5, <1>6 DEF Press, PressApprove, PressDecline, PressSend, PressConfirm

LEMMA ContinueEarnest ==
    ASSUME TypeOK, EarnestInv, SentStays, NEW h \in Handlers, Continue(h) \/ Crash(h)
    PROVE  EarnestInv'
<1>1. ASSUME NEW from, Return(h, from) PROVE EarnestInv'
  BY <1>1, ReturnEarnest
<1>2. Earnest(h)
  BY DEF EarnestInv
<1>3. CASE CreateLive(h) \/ CreateCompose(h) \/ StoreDraft(h) \/ CheckDraft(h)
  <2>1. OnlyMoves(h) /\ pressed' = pressed
    BY <1>3 DEF CreateLive, CreateCompose, StoreDraft, CheckDraft, Step, OnlyMoves, TypeOK, locals
  <2>2. Earnest(h)'
    BY <1>2, <1>3 DEF CreateLive, CreateCompose, StoreDraft, CheckDraft, Step, Earnest, TypeOK,
       locals
  <2> QED
    BY <2>1, <2>2, OthersEarnest
<1>4. CASE SyncDraft(h)
  <2>1. /\ OnlyMoves(h) /\ pressed' = pressed /\ pc[h] = "sync" /\ pc'[h] = "save"
        /\ UNCHANGED <<txt, seen>>
    BY <1>4 DEF SyncDraft, Step, OnlyMoves, TypeOK, locals
  <2>2. Earnest(h)'
    BY <1>2, <2>1 DEF Earnest
  <2> QED
    BY <2>1, <2>2, OthersEarnest
<1>5. CASE SendDraft(h)
  <2>1. /\ OnlyMoves(h) /\ pressed' = pressed /\ pc[h] = "send" /\ pc'[h] = "record"
        /\ UNCHANGED <<txt, seen>>
    BY <1>5 DEF SendDraft, Step, OnlyMoves, TypeOK, locals
  <2>2. \E g \in seen[h].ref : gmail'[g].st = "sent"
    BY <1>5, RefType DEF SendDraft, TypeOK
  <2>3. Earnest(h)'
    BY <1>2, <2>1, <2>2 DEF Earnest
  <2> QED
    BY <2>1, <2>3, OthersEarnest
<1> QED
  BY <1>1, <1>3, <1>4, <1>5 DEF Continue, Crash, Offer, SyncFails, SaveDraft, DraftChanged,
     SendFails, RecordSent, ConfirmSent, Approve, StaleWrite, Refuse

LEMMA StepKeepsEarnest ==
    ASSUME TypeOK, TextInv, EarnestInv, [Next]_vars
    PROVE  EarnestInv'
<1>1. SentStays
  BY MailsStaySent
<1>2. CASE UNCHANGED <<pc, txt, seen, pressed>>
  <2>1. \A k \in Handlers : seen[k].ref \subseteq Handlers
    BY RefType
  <2> QED
    BY <1>1, <1>2, <2>1 DEF EarnestInv, Earnest, SentStays
<1> QED
  BY <1>1, <1>2, RequestEarnest, PressEarnest, ContinueEarnest, RewriteWrites
     DEF Next, EditInGmail, SendInGmail, Quiescent, vars, locals

\* All that the contract needs to know of a state.
ReplyInv == DraftInv /\ MailInv /\ TextInv /\ EarnestInv

LEMMA ReplyStep ==
    ASSUME ReplyInv, [Next]_vars
    PROVE  ReplyInv'
BY StepKeepsDraft, StepKeepsMail, StepKeepsText, StepKeepsEarnest DEF ReplyInv, DraftInv

\* A step that leaves alone what the contract is about stands still.
LEMMA Stutter ==
    ASSUME UNCHANGED <<draft, sentRef, decision, gmail, swapped>>
    PROVE  UNCHANGED Contract!vars
BY DEF Contract!vars

LEMMA GmailContract ==
    ASSUME ReplyInv, NEW h \in Handlers,
           CreateLive(h) \/ CreateCompose(h) \/ SyncDraft(h) \/ EditInGmail(h) \/ SendInGmail(h)
    PROVE  Contract!Next \/ UNCHANGED Contract!vars
<1>1. TypeOK /\ TextInv /\ Earnest(h)
  BY DEF ReplyInv, DraftInv, EarnestInv
<1>2. CASE UNCHANGED gmail /\ (CreateLive(h) \/ CreateCompose(h))
  BY <1>2, Stutter DEF CreateLive, CreateCompose, caseVars, history
<1>3. CASE gmail' # gmail /\ (CreateLive(h) \/ CreateCompose(h))
  <2>1. gmail[h].st = "absent" /\ txt[h] \in Texts
    BY <1>1, <1>3 DEF CreateLive, CreateCompose, Step, TextInv, NamesFit, Fresh, Earnest
  <2>2. /\ gmail' = [gmail EXCEPT ![h] = [st |-> "draft", text |-> txt[h], by |-> {}]]
        /\ UNCHANGED <<draft, sentRef, decision, swapped>>
    BY <1>3 DEF CreateLive, CreateCompose, caseVars, history
  <2> QED
    BY <2>1, <2>2 DEF Contract!Make, Contract!Next
<1>4. CASE SyncDraft(h)
  <2>1. PICK g \in seen[h].ref :
            /\ gmail[g].st = "draft" /\ gmail' = [gmail EXCEPT ![g].text = txt[h]]
            /\ swapped' \in {swapped, TRUE}
    BY <1>1, <1>4 DEF SyncDraft, Swap, TypeOK
  <2>2. g \in Handlers /\ txt[h] \in Texts /\ UNCHANGED <<draft, sentRef, decision>>
    BY <1>1, <1>4, RefType DEF SyncDraft, Step, Earnest, caseVars
  <2> QED
    BY <2>1, <2>2 DEF Contract!Change, Contract!Next
<1>5. CASE EditInGmail(h)
  <2>1. swapped' \in {swapped, TRUE}
    BY <1>1, <1>5 DEF EditInGmail, Swap, TypeOK
  <2>2. gmail[h].st = "draft" /\ \E t \in Texts : gmail' = [gmail EXCEPT ![h].text = t]
    BY <1>5 DEF EditInGmail
  <2> QED
    BY <1>5, <2>1, <2>2 DEF EditInGmail, caseVars, Contract!Change, Contract!Next
<1>6. CASE SendInGmail(h)
  BY <1>6 DEF SendInGmail, caseVars, Contract!SendByHand, Contract!Next
<1> QED
  BY <1>2, <1>3, <1>4, <1>5, <1>6

\* An approval is worth a mail only once.
LEMMA SendContract ==
    ASSUME ReplyInv, NEW h \in Handlers, SendDraft(h)
    PROVE  Contract!Next
<1> DEFINE by == IF h \in Presses THEN pressed[h] ELSE {h}
<1>1. TypeOK /\ MailInv /\ Earnest(h) /\ pc[h] = "send"
  BY DEF ReplyInv, DraftInv, EarnestInv, SendDraft, Step
<1>2. PICK g \in seen[h].ref :
          gmail[g].st = "draft" /\ gmail' = [gmail EXCEPT ![g].st = "sent", ![g].by = by]
  BY DEF SendDraft
<1>3. g \in Handlers
  BY <1>1, RefType
<1>4. \E a \in Buttons : by = {a} /\ \A m \in Handlers : a \notin gmail[m].by
  <2>1. CASE h \in Presses
    <3>1. PICK b \in Buttons : pressed[h] = {b}
      BY <1>1, <2>1 DEF Earnest, MailInv
    <3>2. \A m \in Handlers : b \notin gmail[m].by
      BY <1>1, <3>1 DEF MailInv
    <3> QED
      BY <2>1, <3>1, <3>2
  <2>2. CASE h \notin Presses
    <3>1. button[h].kind = "none" /\ ~Used(h)
      BY <1>1 DEF MailInv, Used
    <3>2. \A m \in Handlers : h \notin gmail[m].by
      BY <1>1, <3>1 DEF MailInv
    <3> QED
      BY <2>2, <3>2 DEF Buttons
  <2> QED
    BY <2>1, <2>2
<1>5. UNCHANGED <<draft, sentRef, decision, swapped>>
  BY DEF SendDraft, caseVars, history
<1> HIDE DEF by
<1>6. Contract!Send(g)
  BY <1>2, <1>4, <1>5 DEF Contract!Send
<1> QED
  BY <1>3, <1>6 DEF Contract!Next

\* What a handler is about to write fits what the case shows.
LEMMA WriteContract ==
    ASSUME ReplyInv, NEW h \in Handlers,
           StoreDraft(h) \/ SaveDraft(h) \/ RecordSent(h) \/ ConfirmSent(h) \/ Approve(h)
    PROVE  Contract!Next
<1>1. TypeOK /\ TextInv /\ Earnest(h) /\ Promise(h) /\ NamesFit(h)
  BY DEF ReplyInv, DraftInv, EarnestInv, TextInv
<1>2. draft \in Drafts /\ seen[h] \in Drafts
  BY <1>1 DEF TypeOK
<1>3. CASE StoreDraft(h)
  <2>1. /\ pc[h] = "store" /\ draft' = seen[h] /\ UNCHANGED <<sentRef, decision, gmail, swapped>>
    BY <1>3 DEF StoreDraft, Step
  <2>2. seen[h].state = "READY" /\ seen[h].text \in Texts
    BY <1>1, <2>1 DEF NamesFit, Promise, Earnest
  <2>3. seen[h].ref = {} \/ seen[h].ref = {h}
    BY <1>1, <2>1 DEF NamesFit
  <2>4. \A g \in seen[h].ref : gmail[g].st # "absent" /\ g \notin draft.ref \cup sentRef
    BY <1>1, <2>1 DEF NamesFit, Fits
  <2>5. Contract!Prepare
    BY <2>1, <2>2, <2>3, <2>4 DEF Contract!Prepare
  <2> QED
    BY <2>5 DEF Contract!Next
<1>4. CASE SaveDraft(h)
  <2>1. pc[h] = "save" /\ ver[h] = version /\ UNCHANGED <<sentRef, decision, gmail, swapped>>
    BY <1>4 DEF SaveDraft, Return, Step
  <2>2. seen[h] = draft /\ draft.state # "none" /\ txt[h] \in Texts
    BY <1>1, <2>1 DEF Promise, Holding, Earnest
  <2>3. draft'.state = draft.state /\ draft'.ref = draft.ref /\ draft'.text = txt[h]
    BY <1>2, <1>4, <2>2 DEF SaveDraft, Drafts
  <2>4. ~swapped => ~(draft.state = "SENT" /\ sentRef = draft.ref /\ sentRef # {})
    BY <1>1, <2>1 DEF TextInv, TextFits
  <2>5. Contract!Reword
    BY <2>1, <2>2, <2>3, <2>4 DEF Contract!Reword, Contract!Mailed
  <2> QED
    BY <2>5 DEF Contract!Next
<1>5. CASE RecordSent(h)
  <2>1. /\ pc[h] = "record" /\ ver[h] = version /\ UNCHANGED <<gmail, swapped>>
        /\ sentRef' = seen[h].ref /\ decision' = "DECLINE"
    BY <1>5 DEF RecordSent, Return, Step
  <2>2. seen[h] = draft /\ txt[h] = draft.text
    BY <1>1, <2>1 DEF Promise, Holding, Knowing
  <2>3. draft'.state = "SENT" /\ draft'.ref = draft.ref /\ draft'.text = draft.text
    BY <1>2, <1>5, <2>2 DEF RecordSent, Drafts
  <2>4. \E g \in draft.ref : gmail[g].st = "sent" /\ (swapped \/ gmail[g].text = draft.text)
    BY <1>1, <2>1, <2>2 DEF Earnest, TextInv, TextFits, Mailed
  <2>5. Contract!Record
    BY <2>1, <2>2, <2>3, <2>4 DEF Contract!Record
  <2> QED
    BY <2>5 DEF Contract!Next
<1>6. CASE ConfirmSent(h)
  <2>1. /\ pc[h] = "confirm" /\ ver[h] = version /\ UNCHANGED <<sentRef, gmail, swapped>>
        /\ decision' = "DECLINE"
    BY <1>6 DEF ConfirmSent, Return, Step
  <2>2. seen[h] = draft /\ draft.state # "none"
    BY <1>1, <2>1 DEF Promise, Holding, Earnest
  <2>3. draft'.state = "SENT" /\ draft'.ref = draft.ref /\ draft'.text = draft.text
    BY <1>2, <1>6, <2>2 DEF ConfirmSent, Drafts
  <2>4. Contract!Confirm
    BY <2>1, <2>2, <2>3 DEF Contract!Confirm
  <2> QED
    BY <2>4 DEF Contract!Next
<1>7. CASE Approve(h)
  <2>1. /\ pc[h] = "approve" /\ ver[h] = version /\ decision' = "APPROVE"
        /\ UNCHANGED <<draft, sentRef, gmail, swapped>>
    BY <1>7 DEF Approve, Return, Step
  <2> QED
    BY <2>1 DEF Contract!Decide, Contract!Next
<1> QED
  BY <1>3, <1>4, <1>5, <1>6, <1>7

LEMMA StepContract ==
    ASSUME ReplyInv, [Next]_vars
    PROVE  Contract!Next \/ UNCHANGED Contract!vars
<1>1. CASE Rewrite
  <2>1. /\ UNCHANGED <<draft, sentRef, gmail, swapped>>
        /\ decision' \in {decision, "none", "APPROVE"}
    BY <1>1, RewriteWrites
  <2>2. CASE decision' = decision
    BY <2>1, <2>2, Stutter
  <2>3. CASE decision' \in {"none", "APPROVE"}
    BY <2>1, <2>3 DEF Contract!Decide, Contract!Next
  <2> QED
    BY <2>1, <2>2, <2>3
<1>2. CASE UNCHANGED <<draft, sentRef, decision, gmail, swapped>>
  BY <1>2, Stutter
<1> QED
  BY <1>1, <1>2, GmailContract, SendContract, WriteContract
     DEF Next, Request, Press, Continue, Quiescent, Open, RequestPrepare, StartDraft,
     RequestEdit, RequestSend, RequestConfirm, RefuseRequest, Refuse, Consume, Take,
     PressApprove, PressDecline, PressSend, PressConfirm, Offer, SyncFails, CheckDraft,
     DraftChanged, SendFails, StaleWrite, Crash, vars, caseVars, history

\* The answer keeps its contract for any number of requests, presses, texts and
\* disturbances: what a case records was sent and says what the case shows, is not
\* reworded afterwards, an approval sends one mail, and a case is declined only with its
\* answer recorded or confirmed as sent.
THEOREM ReplyImplemented == Spec => ImplementsReplyContract
<1>1. Init => ReplyInv
  <2>1. Init => EarnestInv
    BY DEF Init, EarnestInv, Earnest
  <2> QED
    BY <2>1, InitDraft, InitMail, InitText DEF ReplyInv
<1>2. Init => Contract!Init
  BY DEF Init, Contract!Init, NoDraft, NoMail
<1>3. ReplyInv /\ [Next]_vars => [Contract!Next]_(Contract!vars)
  BY StepContract
<1> QED
  BY <1>1, <1>2, <1>3, ReplyStep, PTL DEF Spec, ImplementsReplyContract, Contract!Spec

=============================================================================
