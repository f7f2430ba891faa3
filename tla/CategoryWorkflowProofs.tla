------------------------ MODULE CategoryWorkflowProofs ------------------------
(***************************************************************************)
(* The properties of CategoryWorkflow for any number of requests, under    *)
(* way at once and in all.                                                 *)
(*                                                                         *)
(* Handlers are told apart by what they are asked for: the goal limits     *)
(* where a handler can be (PcGoal), and a number is given to one request   *)
(* (FreshInv), which names its document and its filter.  What is written   *)
(* at the end is computed from the case as it is, for versions only grow   *)
(* and a handler writes at the one it read (VersionInv, BaseInv): so a     *)
(* document is signed in order, whichever requests overlap.                *)
(*                                                                         *)
(* For clients that follow the case's offers a request under way stays one *)
(* the case allows (OfferInv), from which the abstract stages and the      *)
(* returned document follow: the stored bytes are the case's, or those of  *)
(* the only generation that can still commit (BlobInv, ReturnInv).         *)
(***************************************************************************)
EXTENDS CategoryWorkflow, TLAPS

LEMMA DocumentFacts ==
    /\ None \in Documents
    /\ \A n \in Documents : n \in Nat
    /\ \A n \in Documents : n < MaxRequests => n + 1 \in Documents
BY RequestsAssumption DEF Documents, None

LEMMA Results ==
    /\ \A a \in CaseActions : ResultStage[a] \in Stages
    /\ ResultStage["generate_si"] = "GENERATED" /\ ResultStage["return_si"] = "RETURNED"
    /\ ResultStage["verify_si"] = "VERIFIED" /\ ResultStage["approve_si"] = "APPROVED"
    /\ \A a \in CaseActions \ {"generate_si", "verify_si", "approve_si", "return_si"} :
          ResultStage[a] \notin {"GENERATED", "VERIFIED", "APPROVED", "RETURNED"}
BY DEF ResultStage, CaseActions, Stages

LEMMA NewCaseType ==
    ASSUME NEW category \in Categories
    PROVE  NewCase(category) \in Cases
<1>1. NoArtifact \in Artifacts
  BY DocumentFacts DEF NoArtifact, Artifacts
<1>2. DefaultStage(category) \in Stages
  BY DEF DefaultStage, Stages
<1> QED
  BY <1>1, <1>2 DEF NewCase, Cases

LEMMA GeneralType == NewCase("GENERAL") \in Cases
BY NewCaseType DEF Categories

LEMMA AlertType ==
    ASSUME NEW category, NEW v \in Nat
    PROVE  Alert(category, v) \subseteq {"block_sender", "not_spam"} \X Nat
BY DEF Alert

LEMMA OfferedType ==
    ASSUME NEW c
    PROVE  Offered(c) \subseteq CaseActions
BY DEF Offered, AvailableActions, RequestActions, InquiryActions, CaseActions

LEMMA OutcomeType ==
    ASSUME NEW h, base[h] \in Cases, field[h] \in {"unstated", "stated", "placeholder"},
           req[h] \in Documents, goal[h] \in CaseActions, NEW c \in Outcomes(h)
    PROVE  c \in Cases
<1>0. ResultStage[goal[h]] \in Stages /\ ResultStage["generate_si"] \in Stages
      /\ ResultStage["return_si"] \in Stages
  BY Results DEF CaseActions
<1>1. CASE goal[h] = "generate_si"
  <2>1. c = Generated(h)
    BY <1>1 DEF Outcomes
  <2> QED
    BY <1>0, <2>1 DEF Generated, Cases, Artifacts
<1>2. CASE goal[h] \in {"verify_si", "approve_si"}
  <2>1. c \in Signed(h)
    BY <1>2 DEF Outcomes
  <2> DEFINE signed == [base[h].artifact EXCEPT
                           !.status = IF goal[h] = "verify_si" THEN "verified" ELSE "approved"]
  <2>2. PICK f \in {base[h].field, "corrected"} :
           c = [base[h] EXCEPT !.stage = ResultStage[goal[h]], !.artifact = signed,
                               !.copy = signed, !.field = f]
    BY <2>1 DEF Signed
  <2>3. signed \in Artifacts
    BY DEF Cases, Artifacts
  <2>4. f \in {"unstated", "stated", "placeholder", "corrected"}
    BY DEF Cases
  <2> HIDE DEF signed
  <2> QED
    BY <1>0, <2>2, <2>3, <2>4 DEF Cases
<1>3. CASE goal[h] = "return_si"
  <2>1. c = Returned(h)
    BY <1>3 DEF Outcomes
  <2> QED
    BY <1>0, <2>1 DEF Returned, Cases, Artifacts
<1>4. CASE goal[h] = "block_sender"
  <2>1. c = [base[h] EXCEPT !.stage = ResultStage[goal[h]], !.blocked = TRUE, !.flagged = TRUE]
    BY <1>4 DEF Outcomes
  <2> QED
    BY <1>0, <2>1 DEF Cases
<1>5. CASE goal[h] = "not_spam"
  <2>1. PICK k \in Categories :
           c = [base[h] EXCEPT !.stage = ResultStage[goal[h]], !.blocked = FALSE,
                               !.flagged = FALSE, !.category = k]
    BY <1>5 DEF Outcomes
  <2> QED
    BY <1>0, <2>1 DEF Cases
<1>6. CASE goal[h] \in {"route", "draft_response", "complete"}
  <2>1. c = [base[h] EXCEPT !.stage = ResultStage[goal[h]]]
    BY <1>6 DEF Outcomes
  <2> QED
    BY <1>0, <2>1 DEF Cases
<1> QED
  BY <1>1, <1>2, <1>3, <1>4, <1>5, <1>6 DEF CaseActions

-----------------------------------------------------------------------------
(* Types *)

Goals == CaseActions \cup {"none", "unblock"}
Found == {"unstated", "stated", "placeholder"}

LocalTypes ==
    /\ pc \in [Handlers -> PcStates] /\ req \in [Handlers -> Documents]
    /\ goal \in [Handlers -> Goals] /\ ver \in [Handlers -> Nat]
    /\ base \in [Handlers -> Cases] /\ doc \in [Handlers -> Documents] /\ field \in [Handlers -> Found]

SharedTypes ==
    /\ version \in Nat /\ case \in Cases /\ reply \in Documents
    /\ buttons \subseteq ({"block_sender", "not_spam"} \X Nat)
    /\ blob \in Documents /\ record \in Documents
    /\ sender \in [on : BOOLEAN, filter : Documents] /\ filters \subseteq Documents
    /\ requests \in Documents
    /\ lost \in BOOLEAN /\ lifted \in BOOLEAN /\ orphans \subseteq Documents

LEMMA TypeParts == TypeOK <=> LocalTypes /\ SharedTypes
BY DEF TypeOK, LocalTypes, SharedTypes, Goals, Found

LEMMA ReturnType ==
    ASSUME LocalTypes, NEW h, Return(h)
    PROVE  LocalTypes'
<1>1. "idle" \in PcStates /\ "none" \in Goals /\ "unstated" \in Found /\ 0 \in Nat
  BY DEF PcStates, Goals, Found
<1>2. 0 \in Documents
  BY DocumentFacts DEF None
<1> QED
  BY <1>1, <1>2, DocumentFacts, GeneralType DEF Return, LocalTypes

LEMMA BeginType ==
    ASSUME LocalTypes, SharedTypes, NEW h, NEW a \in CaseActions \cup {"unblock"}, NEW v \in Nat,
           Begin(h, a, v)
    PROVE  LocalTypes' /\ requests' \in Documents
<1>1. requests' \in Documents
  BY DocumentFacts DEF Begin, SharedTypes
<1>2. "asked" \in PcStates /\ a \in Goals
  BY DEF PcStates, Goals
<1> QED
  BY <1>1, <1>2 DEF Begin, Step, LocalTypes

LEMMA ReadType ==
    ASSUME LocalTypes, SharedTypes, NEW h, NEW from, NEW to \in PcStates, ReadCase(h, from, to)
    PROVE  LocalTypes' /\ SharedTypes'
<1>1. LocalTypes'
  BY DEF ReadCase, Step, LocalTypes, SharedTypes
<1>2. SharedTypes'
  BY DEF ReadCase, SharedTypes, services, history
<1> QED
  BY <1>1, <1>2

LEMMA AskType ==
    ASSUME LocalTypes, SharedTypes, NEW h, Ask(h) \/ AskUnblock(h) \/ Press(h)
    PROVE  LocalTypes' /\ SharedTypes'
<1>1. PICK a \in CaseActions \cup {"unblock"}, v \in Nat : Begin(h, a, v)
  <2>1. CASE Ask(h)
    <3>1. PICK a \in IF Guided THEN Offered(case) ELSE CaseActions : Begin(h, a, version)
      BY <2>1 DEF Ask
    <3>2. a \in CaseActions
      BY <3>1, OfferedType
    <3> QED
      BY <3>1, <3>2 DEF SharedTypes
  <2>2. CASE AskUnblock(h)
    BY <2>2 DEF AskUnblock, SharedTypes
  <2>3. CASE Press(h)
    <3>1. PICK b \in buttons : Begin(h, b[1], b[2])
      BY <2>3 DEF Press
    <3>2. b[1] \in CaseActions /\ b[2] \in Nat
      BY <3>1 DEF SharedTypes, CaseActions
    <3> QED
      BY <3>1, <3>2
  <2> QED
    BY <2>1, <2>2, <2>3
<1>2. LocalTypes' /\ requests' \in Documents
  BY <1>1, BeginType
<1>3. buttons' \subseteq buttons
  BY DEF Ask, AskUnblock, Press
<1> QED
  BY <1>1, <1>2, <1>3 DEF Begin, SharedTypes, services, history

LEMMA AbandonType ==
    ASSUME LocalTypes, SharedTypes, NEW h \in Handlers, Abandon(h)
    PROVE  lost' \in BOOLEAN /\ orphans' \subseteq Documents /\ lifted' = lifted
<1>1. doc[h] \in Documents
  BY DEF LocalTypes
<1> QED
  BY <1>1 DEF Abandon, SharedTypes

LEMMA StartType ==
    ASSUME LocalTypes, SharedTypes, NEW h \in Handlers, Start(h)
    PROVE  LocalTypes' /\ SharedTypes'
<1>1. CASE StartSimple(h) \/ StartReturn(h) \/ StartResponse(h) \/ StartNotSpam(h)
  <2>1. PICK from, to \in PcStates : ReadCase(h, from, to)
    BY <1>1 DEF StartSimple, StartReturn, StartResponse, StartNotSpam, PcStates
  <2> QED
    BY <2>1, ReadType
<1>2. CASE StartGenerate(h)
  <2>1. PICK f \in Found : field' = [field EXCEPT ![h] = f]
    BY <1>2 DEF StartGenerate, Extracted, Found
  <2>2. LocalTypes'
    BY <1>2, <2>1 DEF StartGenerate, Step, LocalTypes, SharedTypes, PcStates
  <2>3. SharedTypes'
    BY <1>2 DEF StartGenerate, SharedTypes, services, history
  <2> QED
    BY <2>2, <2>3
<1>3. CASE CreateFilter(h)
  <2>1. PICK f \in Documents :
           doc' = [doc EXCEPT ![h] = f] /\ filters' = filters \cup ({f} \ {None})
    <3>1. req[h] \in Documents
      BY DEF LocalTypes
    <3> QED
      BY <1>3, <3>1, DocumentFacts DEF CreateFilter
  <2>2. LocalTypes'
    BY <1>3, <2>1 DEF CreateFilter, Step, LocalTypes, PcStates
  <2>3. SharedTypes'
    BY <1>3, <2>1 DEF CreateFilter, SharedTypes, history
  <2> QED
    BY <2>2, <2>3
<1>4. CASE StartUnblock(h)
  <2>1. LocalTypes'
    BY <1>4 DEF StartUnblock, Step, LocalTypes, locals, PcStates
  <2>2. SharedTypes'
    BY <1>4 DEF StartUnblock, SharedTypes, services, history
  <2> QED
    BY <2>1, <2>2
<1> QED
  BY <1>1, <1>2, <1>3, <1>4 DEF Start

LEMMA ContinueType ==
    ASSUME LocalTypes, SharedTypes, NEW h \in Handlers, Continue(h), ~Commit(h)
    PROVE  LocalTypes' /\ SharedTypes'
<1>1. CASE Upload(h) \/ AddDocument(h)
  <2>1. LocalTypes'
    BY <1>1 DEF Upload, AddDocument, Step, LocalTypes, locals, PcStates
  <2>2. req[h] \in Documents
    BY DEF LocalTypes
  <2>3. SharedTypes'
    BY <1>1, <2>2 DEF Upload, AddDocument, SharedTypes, history
  <2> QED
    BY <2>1, <2>3
<1>2. CASE Download(h)
  <2>1. LocalTypes'
    BY <1>2 DEF Download, Step, LocalTypes, SharedTypes, PcStates
  <2>2. SharedTypes'
    BY <1>2 DEF Download, SharedTypes, services, history
  <2> QED
    BY <2>1, <2>2
<1>3. CASE StoreReply(h)
  <2>1. version' \in Nat /\ ver' = [ver EXCEPT ![h] = version']
    BY <1>3 DEF StoreReply, SharedTypes
  <2>2. LocalTypes'
    BY <1>3, <2>1 DEF StoreReply, Step, LocalTypes, PcStates
  <2>3. SharedTypes'
    BY <1>3, <2>1 DEF StoreReply, SharedTypes, LocalTypes, services, history
  <2> QED
    BY <2>2, <2>3
<1>4. CASE BlockSender(h)
  <2>1. LocalTypes'
    BY <1>4, DocumentFacts DEF BlockSender, Step, LocalTypes, PcStates
  <2>2. SharedTypes'
    BY <1>4 DEF BlockSender, SharedTypes, LocalTypes
  <2> QED
    BY <2>1, <2>2
<1>5. CASE BlockCase(h)
  <2>1. ReadCase(h, "reread", "commit") /\ "commit" \in PcStates
    BY <1>5 DEF BlockCase, PcStates
  <2> QED
    BY <2>1, ReadType
<1>6. CASE IsBlocked(h) \/ ListBlocked(h) \/ DeleteFilter(h)
  <2>1. sender.filter \in Documents
    BY DEF SharedTypes
  <2>2. LocalTypes'
    BY <1>6, <2>1 DEF IsBlocked, ListBlocked, DeleteFilter, Step, LocalTypes, locals, PcStates
  <2>3. doc[h] \in Documents
    BY DEF LocalTypes
  <2>4. SharedTypes'
    BY <1>6, <2>3 DEF IsBlocked, ListBlocked, DeleteFilter, SharedTypes, services, history
  <2> QED
    BY <2>2, <2>4
<1>7. CASE UnblockSender(h)
  <2>1. LocalTypes'
    <3>1. CASE Return(h)
      BY <3>1, ReturnType
    <3>2. CASE Step(h, "unblock", "commit") /\ UNCHANGED locals
      BY <3>2 DEF Step, LocalTypes, locals, PcStates
    <3> QED
      BY <1>7, <3>1, <3>2 DEF UnblockSender
  <2>2. Unblocked \in [on : BOOLEAN, filter : Documents]
    BY DocumentFacts DEF Unblocked
  <2>3. sender.filter \in Documents /\ sender.on \in BOOLEAN
    BY DEF SharedTypes
  <2>4. orphans' \subseteq Documents
    BY <1>7, <2>3 DEF UnblockSender, SharedTypes
  <2>5. lifted' \in BOOLEAN
    BY <1>7 DEF UnblockSender, SharedTypes
  <2>6. SharedTypes'
    BY <1>7, <2>2, <2>4, <2>5 DEF UnblockSender, SharedTypes
  <2> QED
    BY <2>1, <2>6
<1> QED
  BY <1>1, <1>2, <1>3, <1>4, <1>5, <1>6, <1>7 DEF Continue

-----------------------------------------------------------------------------
(* A handler works for one goal, and keeps to its own locals *)

Handler(h) ==
    Ask(h) \/ AskUnblock(h) \/ Press(h) \/ Start(h) \/ Continue(h) \/ Refuse(h) \/ Crash(h)

GoalsAt(state) ==
    CASE state = "idle" -> {"none"}
      [] state \in {"upload", "record"} -> {"generate_si"}
      [] state = "download" -> {"return_si"}
      [] state = "reply" -> {"return_si", "draft_response"}
      [] state \in {"block", "reread"} -> {"block_sender"}
      [] state = "blocked" -> {"not_spam"}
      [] state \in {"list", "unfilter", "unblock"} -> {"not_spam", "unblock"}
      [] state = "commit" -> CaseActions
      [] OTHER -> CaseActions \cup {"unblock"}

PcGoal == \A h \in Handlers : goal[h] \in GoalsAt(pc[h])

LEMMA OthersKept ==
    ASSUME LocalTypes, NEW h \in Handlers, Handler(h), NEW k \in Handlers \ {h}
    PROVE  /\ pc'[k] = pc[k] /\ req'[k] = req[k] /\ goal'[k] = goal[k] /\ ver'[k] = ver[k]
           /\ base'[k] = base[k] /\ doc'[k] = doc[k] /\ field'[k] = field[k]
<1>1. CASE Ask(h) \/ AskUnblock(h) \/ Press(h)
  BY <1>1 DEF Ask, AskUnblock, Press, Begin, Step, LocalTypes
<1>2. CASE Start(h)
  BY <1>2 DEF Start, StartSimple, StartReturn, StartResponse, StartNotSpam, ReadCase, StartGenerate,
              CreateFilter, StartUnblock, Step, LocalTypes, locals
<1>3. CASE Refuse(h) \/ Crash(h) \/ Commit(h)
  BY <1>3 DEF Refuse, Crash, Commit, Return, LocalTypes
<1>4. CASE Continue(h) /\ ~Commit(h)
  BY <1>4 DEF Continue, Upload, AddDocument, Download, StoreReply, BlockSender, BlockCase, ReadCase,
              IsBlocked, ListBlocked, DeleteFilter, UnblockSender, Return, Step, LocalTypes, locals
<1> QED
  BY <1>1, <1>2, <1>3, <1>4 DEF Handler, Continue

LEMMA HandlerGoal ==
    ASSUME LocalTypes, SharedTypes, PcGoal, NEW h \in Handlers, Handler(h)
    PROVE  goal'[h] \in GoalsAt(pc'[h])
<1>0. goal[h] \in GoalsAt(pc[h])
  BY DEF PcGoal
<1>1. CASE Ask(h) \/ AskUnblock(h) \/ Press(h)
  <2>1. PICK a \in CaseActions \cup {"unblock"} : \E v : Begin(h, a, v)
    <3>1. CASE Ask(h)
      <4>1. PICK a \in IF Guided THEN Offered(case) ELSE CaseActions : Begin(h, a, version)
        BY <3>1 DEF Ask
      <4>2. a \in CaseActions
        BY <4>1, OfferedType
      <4> QED
        BY <4>1, <4>2
    <3>2. CASE AskUnblock(h)
      BY <3>2 DEF AskUnblock
    <3>3. CASE Press(h)
      <4>1. PICK b \in buttons : Begin(h, b[1], b[2])
        BY <3>3 DEF Press
      <4>2. b[1] \in CaseActions
        BY <4>1 DEF SharedTypes, CaseActions
      <4> QED
        BY <4>1, <4>2
    <3> QED
      BY <1>1, <3>1, <3>2, <3>3
  <2>2. pc'[h] = "asked" /\ goal'[h] = a
    BY <2>1 DEF Begin, Step, LocalTypes
  <2> QED
    BY <2>1, <2>2 DEF GoalsAt
<1>2. CASE Start(h)
  BY <1>0, <1>2 DEF Start, StartSimple, StartReturn, StartResponse, StartNotSpam, ReadCase,
     StartGenerate, CreateFilter, StartUnblock, Step, LocalTypes, locals, GoalsAt, CaseActions
<1>3. CASE Refuse(h) \/ Crash(h) \/ Commit(h)
  <2>1. pc'[h] = "idle" /\ goal'[h] = "none"
    BY <1>3 DEF Refuse, Crash, Commit, Return, LocalTypes
  <2> QED
    BY <2>1 DEF GoalsAt
<1>4. CASE Upload(h) \/ AddDocument(h) \/ Download(h) \/ StoreReply(h) \/ BlockSender(h) \/ BlockCase(h)
  BY <1>0, <1>4 DEF Upload, AddDocument, Download, StoreReply, BlockSender, BlockCase, ReadCase,
     Step, LocalTypes, locals, GoalsAt, CaseActions
<1>5. CASE IsBlocked(h) \/ ListBlocked(h) \/ DeleteFilter(h)
  BY <1>0, <1>5 DEF IsBlocked, ListBlocked, DeleteFilter, Step, LocalTypes, locals, GoalsAt, CaseActions
<1>6. CASE UnblockSender(h)
  BY <1>0, <1>6 DEF UnblockSender, Return, Step, LocalTypes, locals, GoalsAt, CaseActions
<1> QED
  BY <1>1, <1>2, <1>3, <1>4, <1>5, <1>6 DEF Handler, Continue

LEMMA NextGoal ==
    ASSUME LocalTypes, SharedTypes, PcGoal, [Next]_vars
    PROVE  PcGoal'
<1>1. ASSUME NEW h \in Handlers, Handler(h) PROVE PcGoal'
  <2>1. goal'[h] \in GoalsAt(pc'[h])
    BY <1>1, HandlerGoal
  <2>2. \A k \in Handlers \ {h} : goal'[k] = goal[k] /\ pc'[k] = pc[k]
    BY <1>1, OthersKept
  <2> QED
    BY <2>1, <2>2 DEF PcGoal
<1>2. CASE Reprocess \/ Quiescent \/ UNCHANGED vars
  <2>1. pc' = pc /\ goal' = goal
    BY <1>2 DEF Reprocess, Quiescent, vars, locals
  <2> QED
    BY <2>1 DEF PcGoal
<1> QED
  BY <1>1, <1>2 DEF Next, Handler

LEMMA NextType ==
    ASSUME LocalTypes, SharedTypes, PcGoal, [Next]_vars
    PROVE  LocalTypes' /\ SharedTypes'
<1>1. ASSUME NEW h \in Handlers, Commit(h) PROVE LocalTypes' /\ SharedTypes'
  <2>1. LocalTypes'
    BY <1>1, ReturnType DEF Commit
  <2>2. goal[h] \in CaseActions
    BY <1>1 DEF Commit, PcGoal, GoalsAt
  <2>3. base[h] \in Cases /\ field[h] \in {"unstated", "stated", "placeholder"} /\ req[h] \in Documents
    BY DEF LocalTypes, Found
  <2>4. case' \in Cases
    BY <1>1, <2>2, <2>3, OutcomeType DEF Commit
  <2>5. version' \in Nat
    BY <1>1 DEF Commit, SharedTypes
  <2> QED
    BY <1>1, <2>1, <2>4, <2>5 DEF Commit, SharedTypes, services, history
<1>2. ASSUME NEW h \in Handlers, Refuse(h) \/ Crash(h) PROVE LocalTypes' /\ SharedTypes'
  <2>1. LocalTypes'
    BY <1>2, ReturnType DEF Refuse, Crash
  <2>2. lost' \in BOOLEAN /\ orphans' \subseteq Documents /\ lifted' = lifted
    BY <1>2, AbandonType DEF Refuse, Crash
  <2> QED
    BY <1>2, <2>1, <2>2 DEF Refuse, Crash, SharedTypes, services
<1>3. ASSUME Reprocess PROVE LocalTypes' /\ SharedTypes'
  <2>1. PICK c \in Categories :
           case' = [case EXCEPT !.category = c] /\ buttons' = buttons \cup Alert(c, version + 1)
    BY <1>3 DEF Reprocess
  <2>2. case' \in Cases
    BY <2>1 DEF SharedTypes, Cases
  <2>3. version' \in Nat /\ version' = version + 1
    BY <1>3 DEF Reprocess, SharedTypes
  <2>4. buttons' \subseteq {"block_sender", "not_spam"} \X Nat
    BY <2>1, <2>3, AlertType DEF SharedTypes
  <2>5. requests' \in Documents
    BY <1>3, DocumentFacts DEF Reprocess, SharedTypes
  <2> QED
    BY <1>3, <2>2, <2>3, <2>4, <2>5 DEF Reprocess, LocalTypes, SharedTypes, services, locals, history
<1>4. CASE Quiescent \/ UNCHANGED vars
  BY <1>4 DEF Quiescent, vars, services, locals, history, LocalTypes, SharedTypes
<1> QED
  BY <1>1, <1>2, <1>3, <1>4, AskType, StartType, ContinueType DEF Next, Continue

LEMMA InitType == Init => LocalTypes /\ SharedTypes /\ PcGoal
<1> SUFFICES ASSUME Init PROVE LocalTypes /\ SharedTypes /\ PcGoal
  OBVIOUS
<1>1. 0 \in Documents /\ None = 0
  BY DocumentFacts DEF None
<1>2. LocalTypes
  BY <1>1, GeneralType DEF Init, LocalTypes, PcStates, Goals, Found
<1>3. case \in Cases
  BY NewCaseType DEF Init
<1>4. buttons \subseteq {"block_sender", "not_spam"} \X Nat
  BY AlertType DEF Init
<1>5. SharedTypes
  BY <1>1, <1>3, <1>4 DEF Init, SharedTypes, Unblocked
<1>6. PcGoal
  BY DEF Init, PcGoal, GoalsAt
<1> QED
  BY <1>2, <1>5, <1>6

\* Every variable has its type: the stages and copies a handler writes are the case's.
THEOREM TypeCorrect == Spec => []TypeOK
<1>1. LocalTypes /\ SharedTypes /\ PcGoal /\ [Next]_vars => (LocalTypes /\ SharedTypes /\ PcGoal)'
  BY NextGoal, NextType
<1> QED
  BY <1>1, InitType, TypeParts, PTL DEF Spec

TypeInv == LocalTypes /\ SharedTypes /\ PcGoal

LEMMA TypeStep == TypeInv /\ [Next]_vars => TypeInv'
BY NextGoal, NextType DEF TypeInv

LEMMA TypeInit == Init => TypeInv
BY InitType DEF TypeInv

LEMMA TypeHolds == Spec => []TypeInv
BY TypeInit, TypeStep, PTL DEF Spec

-----------------------------------------------------------------------------
(* Stage and artifact *)

LEMMA CaseSteps ==
    ASSUME [Next]_vars
    PROVE  case' = case \/ Reprocess \/ \E h \in Handlers : Commit(h)
BY DEF Next, Ask, AskUnblock, Press, Begin, Start, StartSimple, StartReturn, StartResponse,
       StartNotSpam, ReadCase, StartGenerate, CreateFilter, StartUnblock, Continue, Upload,
       AddDocument, Download, StoreReply, BlockSender, BlockCase, IsBlocked, ListBlocked,
       DeleteFilter, UnblockSender, Refuse, Crash, Quiescent, vars

LEMMA OutcomeSigned ==
    ASSUME TypeInv, NEW h \in Handlers, goal[h] \in CaseActions, NEW c \in Outcomes(h),
           NEW status \in DOMAIN SignedStage, c.stage = SignedStage[status]
    PROVE  c.artifact.status = status /\ c.copy = c.artifact
<1>0. base[h] \in Cases
  BY DEF TypeInv, LocalTypes
<1>1. status \in {"generated", "verified", "approved", "returned"}
  BY DEF SignedStage
<1>2. /\ SignedStage["generated"] = "GENERATED" /\ SignedStage["verified"] = "VERIFIED"
      /\ SignedStage["approved"] = "APPROVED" /\ SignedStage["returned"] = "RETURNED"
  BY DEF SignedStage
<1>3. CASE goal[h] = "generate_si"
  <2>1. c = Generated(h)
    BY <1>3 DEF Outcomes
  <2>2. c.stage = "GENERATED" /\ c.artifact.status = "generated" /\ c.copy = c.artifact
    BY <1>0, <2>1, Results DEF Generated, Cases
  <2> QED
    BY <1>1, <1>2, <2>2
<1>4. CASE goal[h] \in {"verify_si", "approve_si"}
  <2>1. c \in Signed(h)
    BY <1>4 DEF Outcomes
  <2> DEFINE signed == [base[h].artifact EXCEPT
                           !.status = IF goal[h] = "verify_si" THEN "verified" ELSE "approved"]
  <2>2. PICK f \in {base[h].field, "corrected"} :
           c = [base[h] EXCEPT !.stage = ResultStage[goal[h]], !.artifact = signed,
                               !.copy = signed, !.field = f]
    BY <2>1 DEF Signed
  <2>3. signed.status = IF goal[h] = "verify_si" THEN "verified" ELSE "approved"
    BY <1>0 DEF Cases, Artifacts
  <2> HIDE DEF signed
  <2>4. c.stage = ResultStage[goal[h]] /\ c.artifact = signed /\ c.copy = signed
    BY <1>0, <2>2 DEF Cases
  <2> QED
    BY <1>1, <1>2, <1>4, <2>3, <2>4, Results
<1>5. CASE goal[h] = "return_si"
  <2>1. c = Returned(h)
    BY <1>5 DEF Outcomes
  <2>2. c.stage = "RETURNED" /\ c.artifact.status = "returned" /\ c.copy = c.artifact
    BY <1>0, <2>1, Results DEF Returned, Cases, Artifacts
  <2> QED
    BY <1>1, <1>2, <2>2
<1>6. CASE goal[h] \in {"route", "draft_response", "complete", "block_sender", "not_spam"}
  <2>1. c.stage = ResultStage[goal[h]]
    BY <1>0, <1>6 DEF Outcomes, Cases
  <2>2. goal[h] \in CaseActions \ {"generate_si", "verify_si", "approve_si", "return_si"}
    BY <1>6 DEF CaseActions
  <2>3. c.stage \notin {"GENERATED", "VERIFIED", "APPROVED", "RETURNED"}
    BY <2>1, <2>2, Results
  <2> QED
    BY <1>1, <1>2, <2>3
<1> QED
  BY <1>3, <1>4, <1>5, <1>6 DEF CaseActions

LEMMA CommitGoal ==
    ASSUME TypeInv, NEW h \in Handlers, Commit(h)
    PROVE  goal[h] \in CaseActions /\ case' \in Outcomes(h)
BY DEF TypeInv, PcGoal, GoalsAt, Commit

LEMMA NextSigned == TypeInv /\ StageMatchesArtifact /\ [Next]_vars => StageMatchesArtifact'
<1> SUFFICES ASSUME TypeInv, StageMatchesArtifact, [Next]_vars PROVE StageMatchesArtifact'
  OBVIOUS
<1>1. ASSUME NEW h \in Handlers, Commit(h) PROVE StageMatchesArtifact'
  BY <1>1, CommitGoal, OutcomeSigned DEF StageMatchesArtifact
<1>2. CASE Reprocess
  <2>1. case'.stage = case.stage /\ case'.artifact = case.artifact /\ case'.copy = case.copy
    BY <1>2 DEF Reprocess, TypeInv, SharedTypes, Cases
  <2> QED
    BY <2>1 DEF StageMatchesArtifact
<1>3. CASE case' = case
  BY <1>3 DEF StageMatchesArtifact
<1> QED
  BY <1>1, <1>2, <1>3, CaseSteps

\* Every write that sets a signed stage sets both copies of the artifact with it, and no
\* other write touches either.
THEOREM SignedHolds == Spec => []StageMatchesArtifact
<1>1. Init => StageMatchesArtifact
  BY DEF Init, NewCase, DefaultStage, StageMatchesArtifact, SignedStage
<1> QED
  BY <1>1, TypeHolds, NextSigned, PTL DEF Spec

-----------------------------------------------------------------------------
(* Blocked senders *)

Recorded == sender.on \/ lifted

\* Whoever is about to say that the sender is blocked has recorded it before.
BlockInv ==
    /\ case.flagged => Recorded
    /\ \A h \in Handlers : base[h].flagged => Recorded
    /\ \A h \in Handlers : goal[h] = "block_sender" /\ pc[h] \in {"reread", "commit"} => Recorded

LEMMA RecordedStays ==
    ASSUME TypeInv, [Next]_vars, Recorded
    PROVE  Recorded'
<1>0. sender.on \in BOOLEAN /\ lifted \in BOOLEAN
  BY DEF TypeInv, SharedTypes
<1>1. CASE \E h \in Handlers : BlockSender(h) \/ UnblockSender(h)
  <2>1. ASSUME NEW h \in Handlers, BlockSender(h) PROVE Recorded'
    <3>1. sender'.on
      BY <2>1 DEF BlockSender
    <3> QED
      BY <3>1 DEF Recorded
  <2>2. ASSUME NEW h \in Handlers, UnblockSender(h) PROVE Recorded'
    <3>1. lifted' = (lifted \/ sender.on)
      BY <2>2 DEF UnblockSender
    <3> QED
      BY <1>0, <3>1 DEF Recorded
  <2> QED
    BY <1>1, <2>1, <2>2
<1>2. CASE sender' = sender /\ lifted' = lifted
  BY <1>2 DEF Recorded
<1>3. (sender' = sender /\ lifted' = lifted) \/ \E h \in Handlers : BlockSender(h) \/ UnblockSender(h)
  BY DEF Next, Ask, AskUnblock, Press, Begin, Start, StartSimple, StartReturn, StartResponse,
       StartNotSpam, ReadCase, StartGenerate, CreateFilter, StartUnblock, Continue, Upload,
       AddDocument, Download, StoreReply, BlockCase, IsBlocked, ListBlocked, DeleteFilter,
       Commit, Abandon, Refuse, Crash, Reprocess, Quiescent, vars, services, history
<1> QED
  BY <1>1, <1>2, <1>3

LEMMA OutcomeFlagged ==
    ASSUME TypeInv, NEW h \in Handlers, goal[h] \in CaseActions, NEW c \in Outcomes(h), c.flagged
    PROVE  base[h].flagged \/ goal[h] = "block_sender"
<1>0. base[h] \in Cases
  BY DEF TypeInv, LocalTypes
<1>1. CASE goal[h] = "generate_si"
  <2>1. c = Generated(h)
    BY <1>1 DEF Outcomes
  <2> QED
    BY <1>0, <2>1 DEF Generated, Cases
<1>2. CASE goal[h] \in {"verify_si", "approve_si"}
  <2>1. c \in Signed(h)
    BY <1>2 DEF Outcomes
  <2> QED
    BY <1>0, <2>1 DEF Signed, Cases
<1>3. CASE goal[h] = "return_si"
  <2>1. c = Returned(h)
    BY <1>3 DEF Outcomes
  <2> QED
    BY <1>0, <2>1 DEF Returned, Cases
<1>4. CASE goal[h] \in {"route", "draft_response", "complete", "not_spam"}
  BY <1>0, <1>4 DEF Outcomes, Cases
<1> QED
  BY <1>1, <1>2, <1>3, <1>4 DEF CaseActions

\* What a handler may remember of the case it read.
LEMMA BaseSteps ==
    ASSUME TypeInv, [Next]_vars, NEW h \in Handlers
    PROVE  base'[h] \in {base[h], case, NewCase("GENERAL")}
<1>0. LocalTypes
  BY DEF TypeInv
<1>1. ASSUME NEW k \in Handlers, Handler(k) PROVE base'[h] \in {base[h], case, NewCase("GENERAL")}
  <2>1. CASE k # h
    BY <1>0, <1>1, <2>1, OthersKept
  <2>2. CASE k = h
    BY <1>0, <1>1, <2>2 DEF Handler, LocalTypes,
       Ask, AskUnblock, Press, Begin, Start, StartSimple, StartReturn, StartResponse,
       StartNotSpam, ReadCase, StartGenerate, CreateFilter, StartUnblock, Continue, Upload,
       AddDocument, Download, StoreReply, BlockSender, BlockCase, IsBlocked, ListBlocked,
       DeleteFilter, UnblockSender, Commit, Refuse, Crash, Return, locals
  <2> QED
    BY <2>1, <2>2
<1>2. CASE Reprocess \/ Quiescent \/ UNCHANGED vars
  BY <1>2 DEF Reprocess, Quiescent, vars, locals
<1> QED
  BY <1>1, <1>2 DEF Next, Handler

LEMMA NextBlock == TypeInv /\ BlockInv /\ [Next]_vars => BlockInv'
<1> SUFFICES ASSUME TypeInv, BlockInv, [Next]_vars PROVE BlockInv'
  OBVIOUS
<1>0. LocalTypes /\ SharedTypes /\ PcGoal
  BY DEF TypeInv
<1>1. Recorded => Recorded'
  BY RecordedStays
<1>2. case'.flagged => Recorded'
  <2>1. ASSUME NEW h \in Handlers, Commit(h), case'.flagged PROVE Recorded
    <3>1. base[h].flagged \/ goal[h] = "block_sender"
      BY <2>1, CommitGoal, OutcomeFlagged
    <3>2. pc[h] = "commit"
      BY <2>1 DEF Commit
    <3> QED
      BY <3>1, <3>2 DEF BlockInv
  <2>2. CASE Reprocess
    BY <1>0, <1>1, <2>2 DEF Reprocess, SharedTypes, Cases, BlockInv
  <2> QED
    BY <1>1, <2>1, <2>2, CaseSteps DEF BlockInv
<1>3. \A h \in Handlers : base'[h].flagged => Recorded'
  <2>1. ~NewCase("GENERAL").flagged
    BY DEF NewCase
  <2> QED
    BY <1>1, <2>1, BaseSteps DEF BlockInv
<1>4. ASSUME NEW h \in Handlers, goal'[h] = "block_sender", pc'[h] \in {"reread", "commit"}
      PROVE  Recorded'
  <2>1. ASSUME NEW k \in Handlers, Handler(k), k # h PROVE Recorded'
    BY <1>0, <1>1, <1>4, <2>1, OthersKept DEF BlockInv
  <2>2. ASSUME Handler(h) PROVE Recorded'
    <3>1. CASE BlockSender(h)
      BY <3>1 DEF BlockSender, Recorded
    <3>2. CASE BlockCase(h)
      <4>1. goal[h] = "block_sender" /\ pc[h] = "reread"
        BY <1>0, <1>4, <3>2 DEF BlockCase, ReadCase, Step
      <4> QED
        BY <1>1, <4>1 DEF BlockInv
    <3>3. CASE ~BlockSender(h) /\ ~BlockCase(h)
      <4>1. goal[h] \in GoalsAt(pc[h])
        BY <1>0 DEF PcGoal
      <4> QED
        BY <1>0, <1>4, <2>2, <3>3, <4>1 DEF Handler, LocalTypes, GoalsAt,
           Ask, AskUnblock, Press, Begin, Start, StartSimple, StartReturn, StartResponse,
           StartNotSpam, ReadCase, StartGenerate, CreateFilter, StartUnblock, Continue, Upload,
           AddDocument, Download, StoreReply, IsBlocked, ListBlocked,
           DeleteFilter, UnblockSender, Commit, Refuse, Crash, Return, Step, locals
    <3> QED
      BY <3>1, <3>2, <3>3
  <2>3. CASE Reprocess \/ Quiescent \/ UNCHANGED vars
    BY <1>1, <1>4, <2>3 DEF Reprocess, Quiescent, vars, locals, BlockInv
  <2> QED
    BY <2>1, <2>2, <2>3 DEF Next, Handler
<1> QED
  BY <1>2, <1>3, <1>4 DEF BlockInv

\* The record of a blocked sender is set before the case says so, and only un-blocking
\* deletes it: the order of the calls in block_sender.
THEOREM BlockHolds == Spec => []BlockRecordedFirst
<1>1. Init => BlockInv
  BY DEF Init, NewCase, BlockInv
<1>2. BlockInv => BlockRecordedFirst
  BY DEF BlockInv, Recorded, BlockRecordedFirst
<1> QED
  BY <1>1, <1>2, TypeHolds, NextBlock, PTL DEF Spec

-----------------------------------------------------------------------------
(* Filters *)

Held(h) == IF pc[h] \in {"block", "unfilter", "unblock"} THEN {doc[h]} ELSE {}
InUse == filters \cup {sender.filter} \cup UNION {Held(h) : h \in Handlers}

\* A request about to make a filter has a number that nothing is named by.
FreshInv ==
    /\ \A h \in Handlers : req[h] <= requests
    /\ \A n \in InUse : n <= requests
    /\ \A h \in Handlers : pc[h] = "asked" => req[h] \notin InUse /\ req[h] # None
    /\ \A h, g \in Handlers : pc[h] = "asked" /\ pc[g] = "asked" /\ req[h] = req[g] => h = g

FilterInv ==
    /\ None \notin filters
    /\ \A n \in filters : \/ n \in orphans \/ n = sender.filter
                          \/ \E h \in Handlers : pc[h] = "block" /\ doc[h] = n
    /\ \A h \in Handlers : pc[h] = "unblock" => doc[h] \notin filters \ orphans

Numbered ==
    /\ requests \in Nat /\ None \in Nat /\ None <= requests
    /\ InUse \subseteq Nat /\ \A h \in Handlers : req[h] \in Nat

LEMMA Numbers == TypeInv => Numbered
<1> SUFFICES ASSUME TypeInv PROVE Numbered
  OBVIOUS
<1>1. requests \in Nat /\ None \in Nat
  BY DocumentFacts DEF TypeInv, SharedTypes
<1>2. None <= requests
  BY <1>1 DEF None
<1>3. \A h \in Handlers : req[h] \in Nat /\ doc[h] \in Nat
  BY DocumentFacts DEF TypeInv, LocalTypes
<1>4. \A h \in Handlers : Held(h) \subseteq Nat
  BY <1>3 DEF Held
<1>5. filters \subseteq Nat /\ sender.filter \in Nat
  BY DocumentFacts DEF TypeInv, SharedTypes
<1>6. InUse \subseteq Nat
  BY <1>4, <1>5 DEF InUse
<1> QED
  BY <1>1, <1>2, <1>3, <1>6 DEF Numbered

LEMMA HeldSteps ==
    ASSUME TypeInv, [Next]_vars, NEW h \in Handlers
    PROVE  \/ Held(h)' \subseteq Held(h) \cup {sender.filter}
           \/ CreateFilter(h) /\ Held(h)' \subseteq {req[h], None}
<1>0. LocalTypes
  BY DEF TypeInv
<1>1. ASSUME NEW k \in Handlers, Handler(k), k # h PROVE Held(h)' = Held(h)
  BY <1>0, <1>1, OthersKept DEF Held
<1>2. CASE CreateFilter(h)
  BY <1>0, <1>2 DEF CreateFilter, Step, LocalTypes, Held
<1>3. CASE ListBlocked(h) \/ DeleteFilter(h)
  BY <1>0, <1>3 DEF ListBlocked, DeleteFilter, Step, LocalTypes, locals, Held
<1>4. CASE Handler(h) /\ ~CreateFilter(h) /\ ~ListBlocked(h) /\ ~DeleteFilter(h)
  <2>1. pc'[h] \notin {"block", "unfilter", "unblock"}
    BY <1>0, <1>4 DEF Handler, LocalTypes,
       Ask, AskUnblock, Press, Begin, Start, StartSimple, StartReturn, StartResponse,
       StartNotSpam, ReadCase, StartGenerate, StartUnblock, Continue, Upload,
       AddDocument, Download, StoreReply, BlockSender, BlockCase, IsBlocked,
       UnblockSender, Commit, Refuse, Crash, Return, Step
  <2> QED
    BY <2>1 DEF Held
<1>5. CASE Reprocess \/ Quiescent \/ UNCHANGED vars
  BY <1>5 DEF Reprocess, Quiescent, vars, locals, Held
<1> QED
  BY <1>1, <1>2, <1>3, <1>4, <1>5 DEF Next, Handler

\* Filters and the sender's record change in these steps only.
LEMMA FilterSteps ==
    ASSUME TypeInv, [Next]_vars
    PROVE  \/ filters' = filters /\ sender' = sender
           \/ \E h \in Handlers : CreateFilter(h) \/ BlockSender(h) \/ DeleteFilter(h) \/ UnblockSender(h)
BY DEF Next, Ask, AskUnblock, Press, Begin, Start, StartSimple, StartReturn, StartResponse,
       StartNotSpam, ReadCase, StartGenerate, StartUnblock, Continue, Upload,
       AddDocument, Download, StoreReply, BlockCase, IsBlocked, ListBlocked,
       Commit, Refuse, Crash, Reprocess, Quiescent, vars, services

LEMMA InUseSteps ==
    ASSUME TypeInv, [Next]_vars
    PROVE  \/ InUse' \subseteq InUse \cup {None}
           \/ \E h \in Handlers : CreateFilter(h) /\ InUse' \subseteq InUse \cup {req[h], None}
<1>0. LocalTypes /\ SharedTypes
  BY DEF TypeInv
<1>1. ASSUME NEW h \in Handlers, CreateFilter(h) PROVE InUse' \subseteq InUse \cup {req[h], None}
  <2>1. filters' \subseteq filters \cup {req[h]} /\ sender' = sender
    BY <1>1 DEF CreateFilter
  <2>2. \A k \in Handlers : Held(k)' \subseteq Held(k) \cup {req[h], None}
    BY <1>0, <1>1 DEF CreateFilter, Step, LocalTypes, Held
  <2> QED
    BY <2>1, <2>2 DEF InUse
<1>2. CASE ~\E h \in Handlers : CreateFilter(h)
  <2>1. \A h \in Handlers : Held(h)' \subseteq Held(h) \cup {sender.filter}
    BY <1>2, HeldSteps
  <2>2. filters' \subseteq filters /\ sender'.filter \in InUse \cup {None}
    <3>1. ASSUME NEW h \in Handlers, BlockSender(h)
          PROVE  filters' \subseteq filters /\ sender'.filter \in InUse \cup {None}
      <4>1. pc[h] = "block" /\ sender'.filter = doc[h] /\ filters' = filters
        BY <3>1 DEF BlockSender, Step
      <4>2. doc[h] \in Held(h)
        BY <4>1 DEF Held
      <4> QED
        BY <4>1, <4>2 DEF InUse
    <3>2. ASSUME NEW h \in Handlers, DeleteFilter(h) \/ UnblockSender(h)
          PROVE  filters' \subseteq filters /\ sender'.filter \in InUse \cup {None}
      BY <3>2 DEF DeleteFilter, UnblockSender, Unblocked, InUse
    <3>3. CASE filters' = filters /\ sender' = sender
      BY <3>3 DEF InUse
    <3> QED
      BY <1>2, <3>1, <3>2, <3>3, FilterSteps
  <2> QED
    BY <2>1, <2>2 DEF InUse
<1> QED
  BY <1>1, <1>2

\* A number is given out once.
LEMMA RequestSteps ==
    ASSUME TypeInv, [Next]_vars
    PROVE  /\ requests' \in {requests, requests + 1}
           /\ \A h \in Handlers : \/ req'[h] \in {req[h], 0} /\ (pc'[h] = "asked" => pc[h] = "asked" /\ req'[h] = req[h])
                                  \/ req'[h] = requests + 1 /\ requests' = requests + 1
                                     /\ \A g \in Handlers \ {h} : req'[g] = req[g] /\ pc'[g] = pc[g]
<1>0. LocalTypes
  BY DEF TypeInv
<1>1. ASSUME NEW h \in Handlers, Ask(h) \/ AskUnblock(h) \/ Press(h)
      PROVE  /\ requests' = requests + 1 /\ req'[h] = requests + 1
             /\ \A g \in Handlers \ {h} : req'[g] = req[g] /\ pc'[g] = pc[g]
  <2>1. requests' = requests + 1 /\ req' = [req EXCEPT ![h] = requests'] /\ pc' = [pc EXCEPT ![h] = "asked"]
    BY <1>1 DEF Ask, AskUnblock, Press, Begin, Step
  <2> QED
    BY <1>0, <2>1 DEF LocalTypes
<1>2. ASSUME NEW h \in Handlers, Start(h) \/ Continue(h) \/ Refuse(h) \/ Crash(h)
      PROVE  /\ requests' = requests /\ req'[h] \in {req[h], 0} /\ pc'[h] # "asked"
             /\ \A g \in Handlers \ {h} : req'[g] = req[g] /\ pc'[g] = pc[g]
  <2>1. requests' = requests
    BY <1>2 DEF Start, StartSimple, StartReturn, StartResponse,
       StartNotSpam, ReadCase, StartGenerate, CreateFilter, StartUnblock, Continue, Upload,
       AddDocument, Download, StoreReply, BlockSender, BlockCase, IsBlocked, ListBlocked,
       DeleteFilter, UnblockSender, Commit, Refuse, Crash
  <2>2. req'[h] \in {req[h], 0} /\ pc'[h] # "asked"
    BY <1>0, <1>2 DEF Start, StartSimple, StartReturn, StartResponse, LocalTypes,
       StartNotSpam, ReadCase, StartGenerate, CreateFilter, StartUnblock, Continue, Upload,
       AddDocument, Download, StoreReply, BlockSender, BlockCase, IsBlocked, ListBlocked,
       DeleteFilter, UnblockSender, Commit, Refuse, Crash, Return, Step, locals
  <2> QED
    BY <1>0, <1>2, <2>1, <2>2, OthersKept DEF Handler
<1>3. CASE Reprocess \/ Quiescent \/ UNCHANGED vars
  BY <1>3 DEF Reprocess, Quiescent, vars, locals
<1>4. ASSUME NEW k \in Handlers, Ask(k) \/ AskUnblock(k) \/ Press(k)
      PROVE  /\ requests' \in {requests, requests + 1}
             /\ \A h \in Handlers : \/ req'[h] \in {req[h], 0} /\ (pc'[h] = "asked" => pc[h] = "asked" /\ req'[h] = req[h])
                                    \/ req'[h] = requests + 1 /\ requests' = requests + 1
                                       /\ \A g \in Handlers \ {h} : req'[g] = req[g] /\ pc'[g] = pc[g]
  BY <1>1, <1>4
<1>5. ASSUME NEW k \in Handlers, Start(k) \/ Continue(k) \/ Refuse(k) \/ Crash(k)
      PROVE  /\ requests' \in {requests, requests + 1}
             /\ \A h \in Handlers : req'[h] \in {req[h], 0} /\ (pc'[h] = "asked" => pc[h] = "asked" /\ req'[h] = req[h])
  BY <1>2, <1>5
<1> QED
  BY <1>3, <1>4, <1>5 DEF Next

LEMMA NextFresh == TypeInv /\ FreshInv /\ [Next]_vars => FreshInv'
<1> SUFFICES ASSUME TypeInv, FreshInv, [Next]_vars PROVE FreshInv'
  OBVIOUS
<1>0. Numbered
  BY Numbers
<1>1. \A n \in InUse' : n \in InUse \/ n = None
                        \/ \E h \in Handlers : CreateFilter(h) /\ n = req[h]
  BY InUseSteps
<1>2. \A n \in InUse' : n <= requests
  BY <1>0, <1>1 DEF FreshInv, Numbered
<1>3. requests <= requests' /\ \A n \in Nat : n <= requests => n <= requests' /\ n # requests + 1
  BY <1>0, RequestSteps DEF Numbered
<1>4. ASSUME NEW h \in Handlers PROVE req'[h] <= requests'
  <2>1. req[h] <= requests' /\ 0 <= requests'
    BY <1>0, <1>3 DEF FreshInv, Numbered, None
  <2>2. CASE req'[h] = requests + 1 /\ requests' = requests + 1
    BY <1>0, <2>2 DEF Numbered
  <2> QED
    BY <2>1, <2>2, RequestSteps
<1>5. \A n \in InUse' : n <= requests' /\ n # requests + 1
  <2>1. \A n \in InUse' : n \in Nat
    BY <1>0, <1>1 DEF Numbered
  <2> QED
    BY <1>2, <1>3, <2>1
<1>6. \A h \in Handlers : req[h] # requests + 1
  BY <1>0, <1>3 DEF FreshInv, Numbered
<1>7. ASSUME NEW h \in Handlers, pc'[h] = "asked" PROVE req'[h] \notin InUse' /\ req'[h] # None
  <2>1. CASE req'[h] = requests + 1
    <3>1. requests + 1 # None
      BY <1>0 DEF Numbered, None
    <3> QED
      BY <1>5, <2>1, <3>1
  <2>2. CASE pc[h] = "asked" /\ req'[h] = req[h]
    <3>1. req[h] \notin InUse /\ req[h] # None
      BY <2>2 DEF FreshInv
    <3>2. ASSUME NEW k \in Handlers, CreateFilter(k), req[k] = req[h] PROVE FALSE
      <4>1. pc[k] = "asked" /\ pc'[k] = "block"
        BY <3>2 DEF CreateFilter, Step, TypeInv, LocalTypes
      <4>2. k = h
        BY <2>2, <3>2, <4>1 DEF FreshInv
      <4> QED
        BY <1>7, <4>1, <4>2
    <3> QED
      BY <1>1, <2>2, <3>1, <3>2
  <2> QED
    BY <1>7, <2>1, <2>2, RequestSteps
<1>8. ASSUME NEW h \in Handlers, NEW g \in Handlers, pc'[h] = "asked", pc'[g] = "asked",
             req'[h] = req'[g], h # g
      PROVE  FALSE
  <2>1. CASE req'[h] = requests + 1 /\ req'[g] = req[g]
    BY <1>6, <1>8, <2>1
  <2>2. CASE req'[g] = requests + 1 /\ req'[h] = req[h]
    BY <1>6, <1>8, <2>2
  <2>3. CASE pc[h] = "asked" /\ req'[h] = req[h] /\ pc[g] = "asked" /\ req'[g] = req[g]
    BY <1>8, <2>3 DEF FreshInv
  <2> QED
    BY <1>8, <2>1, <2>2, <2>3, RequestSteps
<1> QED
  BY <1>4, <1>5, <1>7, <1>8 DEF FreshInv

LEMMA OrphansStay ==
    ASSUME TypeInv, [Next]_vars
    PROVE  orphans \subseteq orphans'
BY DEF Next, Ask, AskUnblock, Press, Begin, Start, StartSimple, StartReturn, StartResponse,
       StartNotSpam, ReadCase, StartGenerate, CreateFilter, StartUnblock, Continue, Upload,
       AddDocument, Download, StoreReply, BlockSender, BlockCase, IsBlocked, ListBlocked,
       DeleteFilter, UnblockSender, Commit, Abandon, Refuse, Crash, Reprocess, Quiescent, vars,
       services, history

LEMMA NextFilter == TypeInv /\ FreshInv /\ FilterInv /\ [Next]_vars => FilterInv'
<1> SUFFICES ASSUME TypeInv, FreshInv, FilterInv, [Next]_vars PROVE FilterInv'
  OBVIOUS
<1>0. LocalTypes /\ PcGoal
  BY DEF TypeInv
<1>1. orphans \subseteq orphans'
  BY OrphansStay
<1>2. \A n \in filters' : n \in filters \/ \E h \in Handlers : CreateFilter(h) /\ n = req[h] /\ n # None
  BY FilterSteps DEF CreateFilter, BlockSender, DeleteFilter, UnblockSender
<1>3. None \notin filters'
  BY <1>2 DEF FilterInv
<1>4. ASSUME NEW h \in Handlers, pc'[h] = "unblock" PROVE doc'[h] \notin filters' \ orphans'
  <2>1. CASE DeleteFilter(h)
    BY <1>0, <2>1 DEF DeleteFilter, locals
  <2>2. CASE ListBlocked(h)
    <3>1. doc'[h] = sender.filter /\ sender.filter = None
      BY <1>0, <1>4, <2>2 DEF ListBlocked, Step, LocalTypes
    <3> QED
      BY <1>3, <3>1
  <2>3. CASE pc[h] = "unblock" /\ doc'[h] = doc[h]
    <3>1. doc[h] \notin filters \ orphans
      BY <2>3 DEF FilterInv
    <3>2. ASSUME NEW k \in Handlers, CreateFilter(k) PROVE doc[h] # req[k]
      <4>1. doc[h] \in InUse
        BY <2>3 DEF InUse, Held
      <4>2. pc[k] = "asked"
        BY <3>2 DEF CreateFilter, Step
      <4> QED
        BY <4>1, <4>2 DEF FreshInv
    <3> QED
      BY <1>1, <1>2, <2>3, <3>1, <3>2
  <2>4. ASSUME NEW k \in Handlers, Handler(k), k # h PROVE pc[h] = "unblock" /\ doc'[h] = doc[h]
    BY <1>0, <1>4, <2>4, OthersKept
  <2>5. ASSUME Handler(h), ~DeleteFilter(h), ~ListBlocked(h) PROVE FALSE
    BY <1>0, <1>4, <2>5 DEF Handler, LocalTypes,
       Ask, AskUnblock, Press, Begin, Start, StartSimple, StartReturn, StartResponse,
       StartNotSpam, ReadCase, StartGenerate, CreateFilter, StartUnblock, Continue, Upload,
       AddDocument, Download, StoreReply, BlockSender, BlockCase, IsBlocked,
       UnblockSender, Commit, Refuse, Crash, Return, Step
  <2>6. CASE Reprocess \/ Quiescent \/ UNCHANGED vars
    <3>1. pc[h] = "unblock" /\ doc'[h] = doc[h]
      BY <1>4, <2>6 DEF Reprocess, Quiescent, vars, locals
    <3> QED
      BY <2>3, <3>1
  <2> QED
    BY <2>1, <2>2, <2>3, <2>4, <2>5, <2>6 DEF Next, Handler
<1>5. ASSUME NEW n \in filters'
      PROVE  \/ n \in orphans' \/ n = sender'.filter
             \/ \E h \in Handlers : pc'[h] = "block" /\ doc'[h] = n
  <2> DEFINE Known == \/ n \in orphans' \/ n = sender'.filter
                      \/ \E h \in Handlers : pc'[h] = "block" /\ doc'[h] = n
  <2>1. n # None
    BY <1>3, <1>5
  <2>2. ASSUME NEW h \in Handlers, CreateFilter(h) PROVE Known
    <3>1. sender' = sender /\ pc[h] = "asked"
      BY <2>2 DEF CreateFilter, Step
    <3>2. \A g \in Handlers \ {h} : pc'[g] = pc[g] /\ doc'[g] = doc[g]
      BY <1>0, <2>2, OthersKept DEF Handler, Start
    <3>3. pc'[h] = "block"
      BY <1>0, <2>2 DEF CreateFilter, Step, LocalTypes
    <3>4. n \in filters \/ n = doc'[h]
      BY <1>0, <1>5, <2>1, <2>2 DEF CreateFilter, LocalTypes
    <3> QED
      BY <1>1, <3>1, <3>2, <3>3, <3>4 DEF FilterInv
  <2>3. CASE n \in filters
    <3>1. CASE n \in orphans
      BY <1>1, <3>1
    <3>2. CASE n = sender.filter
      <4>1. CASE sender' = sender
        BY <3>2, <4>1
      <4>2. ASSUME NEW h \in Handlers, BlockSender(h) PROVE n \in orphans'
        BY <2>1, <3>2, <4>2 DEF BlockSender
      <4>3. ASSUME NEW h \in Handlers, UnblockSender(h) PROVE n \in orphans'
        <5>1. pc[h] = "unblock" /\ orphans' = orphans \cup ({sender.filter} \ {None, doc[h]})
          BY <4>3 DEF UnblockSender
        <5>2. n = doc[h] => n \in orphans
          BY <2>3, <5>1 DEF FilterInv
        <5> QED
          BY <2>1, <3>2, <5>1, <5>2
      <4>4. ASSUME NEW h \in Handlers, DeleteFilter(h) \/ CreateFilter(h) PROVE sender' = sender
        BY <4>4 DEF DeleteFilter, CreateFilter
      <4> QED
        BY <4>1, <4>2, <4>3, <4>4, FilterSteps
    <3>3. ASSUME NEW h \in Handlers, pc[h] = "block", doc[h] = n PROVE Known
      <4>1. CASE pc'[h] = "block" /\ doc'[h] = doc[h]
        BY <3>3, <4>1
      <4>2. ASSUME NEW k \in Handlers, Handler(k), k # h PROVE pc'[h] = "block" /\ doc'[h] = doc[h]
        BY <1>0, <3>3, <4>2, OthersKept
      <4>3. CASE BlockSender(h)
        <5>1. sender'.filter = doc[h]
          BY <4>3 DEF BlockSender
        <5> QED
          BY <3>3, <5>1
      <4>4. CASE Refuse(h) \/ Crash(h)
        BY <2>1, <3>3, <4>4 DEF Refuse, Crash, Abandon
      <4>5. ASSUME Handler(h), ~BlockSender(h), ~Refuse(h), ~Crash(h) PROVE FALSE
        BY <3>3, <4>5 DEF Handler,
           Ask, AskUnblock, Press, Begin, Start, StartSimple, StartReturn, StartResponse,
           StartNotSpam, ReadCase, StartGenerate, CreateFilter, StartUnblock, Continue, Upload,
           AddDocument, Download, StoreReply, BlockCase, IsBlocked, ListBlocked, DeleteFilter,
           UnblockSender, Commit, Step
      <4>6. CASE Reprocess \/ Quiescent \/ UNCHANGED vars
        <5>1. pc'[h] = "block" /\ doc'[h] = doc[h]
          BY <3>3, <4>6 DEF Reprocess, Quiescent, vars, locals
        <5> QED
          BY <4>1, <5>1
      <4> QED
        BY <4>1, <4>2, <4>3, <4>4, <4>5, <4>6 DEF Next, Handler
    <3> QED
      BY <2>3, <3>1, <3>2, <3>3 DEF FilterInv
  <2> QED
    BY <1>2, <1>5, <2>2, <2>3
<1> QED
  BY <1>3, <1>4, <1>5 DEF FilterInv

LEMMA InitFilter == Init => FreshInv /\ FilterInv
<1> SUFFICES ASSUME Init PROVE FreshInv /\ FilterInv
  OBVIOUS
<1>1. \A h \in Handlers : pc[h] = "idle" /\ req[h] = 0
  BY DEF Init
<1>2. sender.filter = 0 /\ filters = {} /\ requests = 0
  BY DEF Init, Unblocked, None
<1>3. \A n \in InUse : n = 0
  BY <1>1, <1>2 DEF InUse, Held
<1> QED
  BY <1>1, <1>2, <1>3 DEF FreshInv, FilterInv, None

\* However blocks and un-blocks of the sender overlap, a filter in Gmail is known to the
\* record or to a block under way, or its loss is one of those the code reports or causes.
THEOREM FiltersHold == Spec => []FiltersAccountedFor
<1>1. FilterInv => FiltersAccountedFor
  BY DEF FilterInv, FiltersAccountedFor
<1> QED
  BY <1>1, TypeHolds, InitFilter, NextFresh, NextFilter, PTL DEF Spec

-----------------------------------------------------------------------------
(* A handler whose version is the case's acts on the case as it is *)

VersionInv ==
    /\ \A h \in Handlers : ver[h] <= version
    /\ \A b \in buttons : b[2] <= version

Current(h) == ver[h] = version

HasRead == {"commit", "download", "reply", "blocked", "upload", "record", "list", "unfilter", "unblock"}

BaseInv == \A h \in Handlers : pc[h] \in HasRead /\ goal[h] # "unblock" /\ Current(h) => base[h] = case

\* The steps that change the case, or the reply, give it a new version.
LEMMA VersionSteps ==
    ASSUME TypeInv, [Next]_vars
    PROVE  /\ version \in Nat
           /\ version' \in {version, version + 1}
           /\ version' # version \/ (case' = case /\ reply' = reply)
<1>1. version \in Nat
  BY DEF TypeInv, SharedTypes
<1>2. \/ version' = version /\ case' = case /\ reply' = reply
      \/ version' = version + 1
  BY DEF Next, Ask, AskUnblock, Press, Begin, Start, StartSimple, StartReturn, StartResponse,
       StartNotSpam, ReadCase, StartGenerate, CreateFilter, StartUnblock, Continue, Upload,
       AddDocument, Download, StoreReply, BlockSender, BlockCase, IsBlocked, ListBlocked,
       DeleteFilter, UnblockSender, Commit, Refuse, Crash, Reprocess, Quiescent, vars
<1> QED
  BY <1>1, <1>2

LEMMA ButtonSteps ==
    ASSUME [Next]_vars
    PROVE  \/ buttons' \subseteq buttons
           \/ Reprocess /\ \E c \in Categories : /\ case' = [case EXCEPT !.category = c]
                                                 /\ buttons' = buttons \cup Alert(c, version')
<1>1. CASE Reprocess
  BY <1>1 DEF Reprocess
<1>2. CASE ~Reprocess
  BY <1>2 DEF Next, Ask, AskUnblock, Press, Begin, Start, StartSimple, StartReturn, StartResponse,
       StartNotSpam, ReadCase, StartGenerate, CreateFilter, StartUnblock, Continue, Upload,
       AddDocument, Download, StoreReply, BlockSender, BlockCase, IsBlocked, ListBlocked,
       DeleteFilter, UnblockSender, Commit, Refuse, Crash, Quiescent, vars
<1> QED
  BY <1>1, <1>2

\* The version a handler goes by is its earlier one, the case's or that of its request.
LEMMA VerSteps ==
    ASSUME TypeInv, [Next]_vars, NEW h \in Handlers
    PROVE  ver'[h] \in {ver[h], version, version', 0} \cup {b[2] : b \in buttons}
<1>0. LocalTypes
  BY DEF TypeInv
<1>1. ASSUME NEW k \in Handlers, k # h, Handler(k) PROVE ver'[h] = ver[h]
  BY <1>0, <1>1, OthersKept
<1>2. ASSUME Ask(h) \/ AskUnblock(h) PROVE ver'[h] = version
  BY <1>0, <1>2 DEF Ask, AskUnblock, Begin, LocalTypes
<1>3. ASSUME Press(h) PROVE \E b \in buttons : ver'[h] = b[2]
  BY <1>0, <1>3 DEF Press, Begin, LocalTypes
<1>4. ASSUME Start(h) \/ Continue(h) \/ Refuse(h) \/ Crash(h)
      PROVE  ver'[h] \in {ver[h], version, version', 0}
  BY <1>0, <1>4 DEF Start, StartSimple, StartReturn, StartResponse, LocalTypes,
     StartNotSpam, ReadCase, StartGenerate, CreateFilter, StartUnblock, Continue, Upload,
     AddDocument, Download, StoreReply, BlockSender, BlockCase, IsBlocked, ListBlocked,
     DeleteFilter, UnblockSender, Commit, Refuse, Crash, Return, locals
<1>5. CASE Reprocess \/ Quiescent \/ UNCHANGED vars
  BY <1>5 DEF Reprocess, Quiescent, vars, locals
<1> QED
  BY <1>1, <1>2, <1>3, <1>4, <1>5 DEF Next, Handler

LEMMA NextVersion == TypeInv /\ VersionInv /\ [Next]_vars => VersionInv'
<1> SUFFICES ASSUME TypeInv, VersionInv, [Next]_vars PROVE VersionInv'
  OBVIOUS
<1>1. version \in Nat /\ version' \in {version, version + 1}
  BY VersionSteps
<1>2. /\ \A h \in Handlers : ver[h] \in Nat
      /\ \A b \in buttons : b[2] \in Nat
  BY DEF TypeInv, LocalTypes, SharedTypes
<1>3. \A n \in Nat : n <= version => n <= version'
  BY <1>1
<1>4. version <= version' /\ version' <= version' /\ 0 <= version'
  BY <1>1
<1>5. \A b \in buttons : b[2] <= version'
  BY <1>2, <1>3 DEF VersionInv
<1>6. \A h \in Handlers : ver[h] <= version'
  BY <1>2, <1>3 DEF VersionInv
<1>7. \A h \in Handlers : ver'[h] <= version'
  BY <1>4, <1>5, <1>6, VerSteps
<1>8. \A b \in buttons' : b[2] <= version'
  BY <1>4, <1>5, ButtonSteps DEF Alert
<1> QED
  BY <1>7, <1>8 DEF VersionInv

\* Once the version moves on, only the handler that moved it is current.
LEMMA StaysCurrent ==
    ASSUME TypeInv, VersionInv, [Next]_vars, NEW h \in Handlers, ver'[h] = ver[h], Current(h)'
    PROVE  Current(h) /\ version' = version /\ case' = case /\ reply' = reply
<1>1. version \in Nat /\ version' \in {version, version + 1}
  BY VersionSteps
<1>2. ver[h] <= version /\ ver[h] \in Nat
  BY DEF VersionInv, TypeInv, LocalTypes
<1>3. ver[h] # version + 1
  BY <1>1, <1>2
<1> QED
  BY <1>1, <1>3, VersionSteps DEF Current

LEMMA NextBase == TypeInv /\ VersionInv /\ BaseInv /\ [Next]_vars => BaseInv'
<1> SUFFICES ASSUME TypeInv, VersionInv, BaseInv, [Next]_vars,
                    NEW h \in Handlers, pc'[h] \in HasRead, goal'[h] # "unblock", Current(h)'
             PROVE  base'[h] = case'
  BY DEF BaseInv
<1>0. LocalTypes /\ PcGoal
  BY DEF TypeInv
<1>1. CASE ver'[h] = ver[h] /\ pc[h] \in HasRead /\ goal[h] = goal'[h] /\ base'[h] = base[h]
  BY <1>1, StaysCurrent DEF BaseInv
<1>2. ASSUME NEW k \in Handlers, k # h, Handler(k) PROVE base'[h] = case'
  BY <1>0, <1>1, <1>2, OthersKept
<1>3. ASSUME StartSimple(h) \/ StartReturn(h) \/ StartResponse(h) \/ StartNotSpam(h)
             \/ StartGenerate(h) \/ BlockCase(h)
      PROVE  base'[h] = case'
  BY <1>0, <1>3 DEF StartSimple, StartReturn, StartResponse, StartNotSpam, ReadCase, StartGenerate,
                    BlockCase, LocalTypes
<1>4. ASSUME StartUnblock(h) PROVE FALSE
  BY <1>4 DEF StartUnblock, locals
<1>5. ASSUME Ask(h) \/ AskUnblock(h) \/ Press(h) \/ CreateFilter(h) \/ BlockSender(h)
             \/ Commit(h) \/ Refuse(h) \/ Crash(h)
      PROVE  FALSE
  <2>1. pc'[h] \in {"asked", "block", "reread", "idle"}
    BY <1>0, <1>5 DEF Ask, AskUnblock, Press, Begin, CreateFilter, BlockSender, Commit, Refuse,
                      Crash, Return, Step, LocalTypes
  <2> QED
    BY <2>1 DEF HasRead
<1>6. ASSUME StoreReply(h) PROVE base'[h] = case'
  <2>1. pc[h] = "reply" /\ Current(h) /\ base' = base /\ case' = case
    BY <1>6 DEF StoreReply, Step, Current
  <2>2. goal[h] # "unblock"
    BY <1>0, <2>1 DEF PcGoal, GoalsAt
  <2> QED
    BY <2>1, <2>2 DEF BaseInv, HasRead
<1>7. ASSUME Upload(h) \/ AddDocument(h) \/ Download(h) \/ IsBlocked(h) \/ ListBlocked(h)
             \/ DeleteFilter(h)
      PROVE  base'[h] = case'
  <2>1. ver'[h] = ver[h] /\ pc[h] \in HasRead /\ goal[h] = goal'[h] /\ base'[h] = base[h]
    BY <1>7 DEF Upload, AddDocument, Download, IsBlocked, ListBlocked, DeleteFilter, Step, HasRead, locals
  <2> QED
    BY <1>1, <2>1
<1>8. ASSUME UnblockSender(h) PROVE base'[h] = case'
  <2>1. ~Return(h)
    BY <1>0 DEF Return, LocalTypes, HasRead
  <2>2. ver'[h] = ver[h] /\ pc[h] \in HasRead /\ goal[h] = goal'[h] /\ base'[h] = base[h]
    BY <1>8, <2>1 DEF UnblockSender, HasRead, locals
  <2> QED
    BY <1>1, <2>2
<1>9. CASE Reprocess \/ Quiescent \/ UNCHANGED vars
  <2>1. ver'[h] = ver[h] /\ pc[h] \in HasRead /\ goal[h] = goal'[h] /\ base'[h] = base[h]
    BY <1>9 DEF Reprocess, Quiescent, vars, locals
  <2> QED
    BY <1>1, <2>1
<1> QED
  BY <1>2, <1>3, <1>4, <1>5, <1>6, <1>7, <1>8, <1>9 DEF Next, Start, Continue, Handler

-----------------------------------------------------------------------------
(* Guided clients, and the abstract stages *)

\* What may be under way on the case as it is: what it offers, a generation, and either
\* answer to a spam alert.
Legal(a, c) ==
    \/ a \in Offered(c) \cup {"generate_si", "unblock"}
    \/ a \in {"block_sender", "not_spam"} /\ c.category = "SPAM"

OfferInv ==
    /\ \A h \in Handlers : pc[h] # "idle" /\ Current(h) => Legal(goal[h], case)
    /\ \A b \in buttons : b[2] = version => case.category = "SPAM"

LEMMA NextOffer ==
    ASSUME Guided
    PROVE  TypeInv /\ VersionInv /\ OfferInv /\ [Next]_vars => OfferInv'
<1> SUFFICES ASSUME TypeInv, VersionInv, OfferInv, [Next]_vars PROVE OfferInv'
  OBVIOUS
<1>0. LocalTypes /\ SharedTypes
  BY DEF TypeInv
<1>1. \A b \in buttons' : b[2] = version' => case'.category = "SPAM"
  <2>1. version \in Nat /\ version' \in {version, version + 1}
    BY VersionSteps
  <2>2. \A b \in buttons : b[2] # version + 1
    BY <1>0, <2>1 DEF SharedTypes, VersionInv
  <2>3. CASE buttons' \subseteq buttons
    <3>1. version' = version => case' = case
      BY <2>1, VersionSteps
    <3> QED
      BY <2>1, <2>2, <2>3, <3>1 DEF OfferInv
  <2>4. ASSUME Reprocess, NEW c \in Categories, case' = [case EXCEPT !.category = c],
               buttons' = buttons \cup Alert(c, version')
        PROVE  \A b \in buttons' : b[2] = version' => case'.category = "SPAM"
    <3>1. version' = version + 1
      BY <2>4 DEF Reprocess
    <3>2. case'.category = c
      BY <1>0, <2>4 DEF SharedTypes, Cases
    <3> QED
      BY <2>2, <2>4, <3>1, <3>2 DEF Alert
  <2> QED
    BY <2>3, <2>4, ButtonSteps
<1>2. ASSUME NEW h \in Handlers, pc'[h] # "idle", Current(h)' PROVE Legal(goal'[h], case')
  <2>1. CASE ver'[h] = ver[h] /\ pc[h] # "idle" /\ goal'[h] = goal[h]
    BY <1>2, <2>1, StaysCurrent DEF OfferInv
  <2>2. ASSUME NEW k \in Handlers, k # h, Handler(k) PROVE Legal(goal'[h], case')
    BY <1>0, <1>2, <2>1, <2>2, OthersKept
  <2>3. ASSUME Ask(h) PROVE Legal(goal'[h], case')
    <3>1. PICK a \in Offered(case) : Begin(h, a, version)
      BY <2>3 DEF Ask
    <3>2. goal'[h] = a /\ case' = case
      BY <1>0, <3>1 DEF Begin, LocalTypes
    <3> QED
      BY <3>1, <3>2 DEF Legal
  <2>4. ASSUME AskUnblock(h) PROVE Legal(goal'[h], case')
    BY <1>0, <2>4 DEF AskUnblock, Begin, LocalTypes, Legal
  <2>5. ASSUME Press(h) PROVE Legal(goal'[h], case')
    <3>1. PICK b \in buttons : Begin(h, b[1], b[2])
      BY <2>5 DEF Press
    <3>2. goal'[h] = b[1] /\ ver'[h] = b[2] /\ case' = case /\ version' = version
      BY <1>0, <3>1 DEF Begin, LocalTypes
    <3>3. b[1] \in {"block_sender", "not_spam"}
      BY <1>0, <3>1 DEF SharedTypes
    <3>4. case.category = "SPAM"
      BY <1>2, <3>1, <3>2 DEF OfferInv, Current
    <3> QED
      BY <3>2, <3>3, <3>4 DEF Legal
  <2>6. ASSUME StartSimple(h) \/ StartReturn(h) \/ StartResponse(h) \/ StartNotSpam(h) \/ BlockCase(h)
        PROVE  Legal(goal'[h], case')
    <3>1. pc[h] # "idle" /\ version = ver[h] /\ ver'[h] = version /\ goal' = goal
      BY <1>0, <2>6 DEF StartSimple, StartReturn, StartResponse, StartNotSpam, BlockCase, ReadCase,
                        Step, Unversioned, LocalTypes
    <3> QED
      BY <2>1, <3>1
  <2>7. ASSUME StartGenerate(h) PROVE Legal(goal'[h], case')
    BY <2>7 DEF StartGenerate, Legal
  <2>8. ASSUME \/ CreateFilter(h) \/ StartUnblock(h) \/ Upload(h) \/ AddDocument(h) \/ Download(h)
               \/ BlockSender(h) \/ IsBlocked(h) \/ ListBlocked(h) \/ DeleteFilter(h)
        PROVE  Legal(goal'[h], case')
    <3>1. pc[h] # "idle" /\ ver' = ver /\ goal' = goal
      BY <2>8 DEF CreateFilter, StartUnblock, Upload, AddDocument, Download, BlockSender, IsBlocked,
                  ListBlocked, DeleteFilter, Step, locals
    <3> QED
      BY <2>1, <3>1
  <2>9. ASSUME StoreReply(h) PROVE Legal(goal'[h], case')
    <3>1. pc[h] # "idle" /\ Current(h) /\ goal' = goal /\ case' = case
      BY <2>9 DEF StoreReply, Step, Current
    <3> QED
      BY <3>1 DEF OfferInv
  <2>10. ASSUME UnblockSender(h) PROVE Legal(goal'[h], case')
    <3>1. ~Return(h)
      BY <1>0, <1>2 DEF Return, LocalTypes
    <3>2. pc[h] # "idle" /\ ver' = ver /\ goal' = goal
      BY <2>10, <3>1 DEF UnblockSender, locals
    <3> QED
      BY <2>1, <3>2
  <2>11. ASSUME Commit(h) \/ Refuse(h) \/ Crash(h) PROVE FALSE
    BY <1>0, <1>2, <2>11 DEF Commit, Refuse, Crash, Return, LocalTypes
  <2>12. CASE Reprocess \/ Quiescent \/ UNCHANGED vars
    BY <1>2, <2>1, <2>12 DEF Reprocess, Quiescent, vars, locals
  <2> QED
    BY <2>2, <2>3, <2>4, <2>5, <2>6, <2>7, <2>8, <2>9, <2>10, <2>11, <2>12
    DEF Next, Start, Continue, Handler
<1> QED
  BY <1>1, <1>2 DEF OfferInv

\* A committed request leads from the case as it is to what its goal stands for.
LEMMA OutcomeStage ==
    ASSUME TypeInv, NEW h \in Handlers, goal[h] \in CaseActions, NEW c \in Outcomes(h)
    PROVE  /\ c.stage = ResultStage[goal[h]]
           /\ c.category \in Categories
           /\ goal[h] # "not_spam" => c.category = base[h].category
           /\ c.flagged = CASE goal[h] = "block_sender" -> TRUE [] goal[h] = "not_spam" -> FALSE
                            [] OTHER -> base[h].flagged
<1>0. base[h] \in Cases
  BY DEF TypeInv, LocalTypes
<1>1. CASE goal[h] = "generate_si"
  <2>1. c = Generated(h)
    BY <1>1 DEF Outcomes
  <2> QED
    BY <1>0, <1>1, <2>1 DEF Generated, Cases
<1>2. CASE goal[h] \in {"verify_si", "approve_si"}
  <2>1. c \in Signed(h)
    BY <1>2 DEF Outcomes
  <2> QED
    BY <1>0, <1>2, <2>1 DEF Signed, Cases
<1>3. CASE goal[h] = "return_si"
  <2>1. c = Returned(h)
    BY <1>3 DEF Outcomes
  <2> QED
    BY <1>0, <1>3, <2>1 DEF Returned, Cases
<1>4. CASE goal[h] \in {"route", "draft_response", "complete"}
  BY <1>0, <1>4 DEF Outcomes, Cases
<1>5. CASE goal[h] = "block_sender"
  BY <1>0, <1>5 DEF Outcomes, Cases
<1>6. CASE goal[h] = "not_spam"
  BY <1>0, <1>6 DEF Outcomes, Cases
<1> QED
  BY <1>1, <1>2, <1>3, <1>4, <1>5, <1>6 DEF CaseActions

\* The instance sees the same tables.
LEMMA SameTables ==
    /\ Order!Categories = Categories /\ Order!CaseActions = CaseActions
    /\ Order!ResultStage = ResultStage
    /\ \A c, s, b : Order!AvailableActions(c, s, b) = AvailableActions(c, s, b)
    /\ \A c : Order!DefaultStage(c) = DefaultStage(c)
BY DEF Order!Categories, Categories, Order!CaseActions, CaseActions, Order!ResultStage, ResultStage,
       Order!AvailableActions, AvailableActions, Order!RequestActions, RequestActions,
       Order!InquiryActions, InquiryActions, Order!DefaultStage, DefaultStage

LEMMA StepImplements ==
    ASSUME TypeInv, BaseInv, OfferInv, [Next]_vars
    PROVE  [Order!Next]_(Order!vars)
<1>0. LocalTypes /\ SharedTypes /\ PcGoal
  BY DEF TypeInv
<1>1. ASSUME NEW h \in Handlers, Commit(h) PROVE Order!Next
  <2>1. goal[h] \in CaseActions /\ case' \in Outcomes(h)
    BY <1>1, CommitGoal
  <2>2. pc[h] = "commit" /\ Current(h)
    BY <1>1 DEF Commit, Current
  <2>3. base[h] = case
    BY <2>1, <2>2 DEF BaseInv, HasRead, CaseActions
  <2>4. Legal(goal[h], case)
    BY <2>2 DEF OfferInv
  <2>5. /\ case'.stage = ResultStage[goal[h]]
        /\ case'.category \in Categories
        /\ goal[h] # "not_spam" => case'.category = case.category
        /\ case'.flagged = CASE goal[h] = "block_sender" -> TRUE [] goal[h] = "not_spam" -> FALSE
                             [] OTHER -> case.flagged
    BY <2>1, <2>3, OutcomeStage
  <2>6. CASE goal[h] = "generate_si"
    BY <2>5, <2>6, Results DEF Order!Next, Order!Regenerate
  <2>7. CASE goal[h] = "block_sender"
    <3>1. case.category = "SPAM"
      BY <2>4, <2>7 DEF Legal, Offered, AvailableActions, RequestActions, InquiryActions
    <3>2. ResultStage["block_sender"] = "BLOCKED"
      BY DEF ResultStage
    <3> QED
      BY <2>5, <2>7, <3>1, <3>2 DEF Order!Next, Order!BlockAgain
  <2>8. CASE goal[h] = "not_spam"
    <3>1. case.category = "SPAM"
      BY <2>4, <2>8 DEF Legal, Offered, AvailableActions, RequestActions, InquiryActions
    <3>2. goal[h] \in AvailableActions(case.category, case.stage, case.flagged)
      BY <2>8, <3>1 DEF AvailableActions
    <3> QED
      BY <2>1, <2>5, <2>8, <3>2, SameTables DEF Order!Next, Order!Take
  <2>9. CASE goal[h] \in {"verify_si", "approve_si", "return_si", "route", "draft_response", "complete"}
    <3>1. goal[h] \in AvailableActions(case.category, case.stage, case.flagged)
      BY <2>4, <2>9 DEF Legal, Offered, AvailableActions
    <3> QED
      BY <2>1, <2>5, <2>9, <3>1, SameTables DEF Order!Next, Order!Take
  <2> QED
    BY <2>1, <2>6, <2>7, <2>8, <2>9 DEF CaseActions
<1>2. CASE Reprocess
  <2>1. /\ case'.category \in Categories
        /\ case'.stage = case.stage /\ case'.flagged = case.flagged
    BY <1>0, <1>2 DEF Reprocess, SharedTypes, Cases
  <2> QED
    BY <2>1, SameTables DEF Order!Next, Order!Reclassify
<1>3. CASE case' = case
  BY <1>3 DEF Order!vars
<1> QED
  BY <1>1, <1>2, <1>3, CaseSteps

LEMMA InitVersions == Init => VersionInv /\ BaseInv /\ OfferInv
<1> SUFFICES ASSUME Init PROVE VersionInv /\ BaseInv /\ OfferInv
  OBVIOUS
<1>1. \A h \in Handlers : pc[h] = "idle" /\ ver[h] = 0
  BY DEF Init
<1>2. \A b \in buttons : b[2] = 0 /\ case.category = "SPAM"
  BY DEF Init, Alert, NewCase
<1> QED
  BY <1>1, <1>2 DEF Init, VersionInv, BaseInv, HasRead, OfferInv

\* Clients that follow the case's offers see its stages change as if requests took turns:
\* every write is made at the version whose case the action was offered for.
THEOREM OrderImplemented ==
    ASSUME Guided
    PROVE  Spec => ImplementsStageOrder
<1>1. Init => Order!Init
  BY SameTables DEF Init, NewCase, Order!Init
<1>2. TypeInv /\ BaseInv /\ OfferInv /\ [Next]_vars => [Order!Next]_(Order!vars)
  BY StepImplements
<1>3. TypeInv /\ VersionInv /\ OfferInv /\ [Next]_vars => OfferInv'
  BY NextOffer
<1> QED
  BY <1>1, <1>2, <1>3, TypeHolds, InitVersions, NextVersion, NextBase, PTL
  DEF Spec, ImplementsStageOrder, Order!Spec

-----------------------------------------------------------------------------
(* The document that is returned *)

\* A generation that stored its bytes, and not yet its stage.
Flying(h) == goal[h] = "generate_si" /\ pc[h] \in {"record", "commit"}
Settled == ~lost /\ \A h \in Handlers : ~Flying(h)

CopyInv == case.copy = case.artifact /\ \A h \in Handlers : base[h].copy = base[h].artifact

\* The bytes are the case's document, or those of the one generation that may still commit.
Alone(h) == \A k \in Handlers \ {h} : ~Flying(k)

BlobInv ==
    /\ Settled => blob = case.artifact.doc
    /\ \A h \in Handlers : ~lost /\ Flying(h) /\ Current(h) /\ Alone(h) => blob = req[h]

ReturnInv ==
    Settled =>
       /\ case.stage = "RETURNED" => reply = case.artifact.doc
       /\ \A h \in Handlers : goal[h] = "return_si" /\ Current(h) =>
             /\ pc[h] = "reply" => doc[h] = case.artifact.doc
             /\ pc[h] = "commit" => reply = case.artifact.doc

LEMMA OutcomeArtifact ==
    ASSUME TypeInv, NEW h \in Handlers, goal[h] \in CaseActions, NEW c \in Outcomes(h),
           base[h].copy = base[h].artifact
    PROVE  /\ c.copy = c.artifact
           /\ goal[h] = "generate_si" => c.artifact.doc = req[h]
           /\ goal[h] # "generate_si" => c.artifact.doc = base[h].artifact.doc
<1>0. base[h] \in Cases
  BY DEF TypeInv, LocalTypes
<1>1. CASE goal[h] = "generate_si"
  <2>1. c = Generated(h)
    BY <1>1 DEF Outcomes
  <2> QED
    BY <1>0, <1>1, <2>1 DEF Generated, Cases
<1>2. CASE goal[h] \in {"verify_si", "approve_si"}
  <2>1. c \in Signed(h)
    BY <1>2 DEF Outcomes
  <2> DEFINE signed == [base[h].artifact EXCEPT
                           !.status = IF goal[h] = "verify_si" THEN "verified" ELSE "approved"]
  <2>2. PICK f \in {base[h].field, "corrected"} :
           c = [base[h] EXCEPT !.stage = ResultStage[goal[h]], !.artifact = signed,
                               !.copy = signed, !.field = f]
    BY <2>1 DEF Signed
  <2>3. signed.doc = base[h].artifact.doc
    BY <1>0 DEF Cases, Artifacts
  <2> HIDE DEF signed
  <2> QED
    BY <1>0, <1>2, <2>2, <2>3 DEF Cases
<1>3. CASE goal[h] = "return_si"
  <2>1. c = Returned(h)
    BY <1>3 DEF Outcomes
  <2> QED
    BY <1>0, <1>3, <2>1 DEF Returned, Cases, Artifacts
<1>4. CASE goal[h] \in {"route", "draft_response", "complete", "block_sender", "not_spam"}
  BY <1>0, <1>4 DEF Outcomes, Cases
<1> QED
  BY <1>1, <1>2, <1>3, <1>4 DEF CaseActions

LEMMA NextCopy == TypeInv /\ CopyInv /\ [Next]_vars => CopyInv'
<1> SUFFICES ASSUME TypeInv, CopyInv, [Next]_vars PROVE CopyInv'
  OBVIOUS
<1>1. NewCase("GENERAL").copy = NewCase("GENERAL").artifact
  BY DEF NewCase
<1>2. \A h \in Handlers : base'[h].copy = base'[h].artifact
  BY <1>1, BaseSteps DEF CopyInv
<1>3. case'.copy = case'.artifact
  <2>1. ASSUME NEW h \in Handlers, Commit(h) PROVE case'.copy = case'.artifact
    BY <2>1, CommitGoal, OutcomeArtifact DEF CopyInv
  <2>2. CASE Reprocess
    BY <2>2 DEF Reprocess, TypeInv, SharedTypes, Cases, CopyInv
  <2> QED
    BY <2>1, <2>2, CaseSteps DEF CopyInv
<1> QED
  BY <1>2, <1>3 DEF CopyInv

\* What a committed request does to the document of the case.
LEMMA CommitDocument ==
    ASSUME TypeInv, CopyInv, BaseInv, NEW h \in Handlers, Commit(h)
    PROVE  /\ goal[h] \in CaseActions /\ case'.stage = ResultStage[goal[h]]
           /\ goal[h] = "generate_si" => case'.artifact.doc = req[h]
           /\ goal[h] # "generate_si" => case'.artifact.doc = case.artifact.doc
<1>1. goal[h] \in CaseActions /\ case' \in Outcomes(h)
  BY CommitGoal
<1>2. pc[h] = "commit" /\ Current(h)
  BY DEF Commit, Current
<1>3. base[h] = case
  BY <1>1, <1>2 DEF BaseInv, HasRead, CaseActions
<1>4. base[h].copy = base[h].artifact
  BY DEF CopyInv
<1> QED
  BY <1>1, <1>3, <1>4, OutcomeArtifact, OutcomeStage

\* A generation that stops flying has committed, or its bytes are known to be lost.
LEMMA FlightSteps ==
    ASSUME TypeInv, [Next]_vars, NEW h \in Handlers
    PROVE  /\ lost => lost'
           /\ Flying(h) /\ ~Flying(h)' => lost' \/ Commit(h)
           /\ Flying(h)' => \/ Flying(h) /\ ver'[h] = ver[h] /\ req'[h] = req[h]
                            \/ Upload(h)
<1>0. LocalTypes /\ PcGoal /\ lost \in BOOLEAN
  BY DEF TypeInv, SharedTypes
<1>1. lost => lost'
  <2>1. ASSUME NEW k \in Handlers, Refuse(k) \/ Crash(k) PROVE lost => lost'
    <3>1. lost' = (lost \/ (goal[k] = "generate_si" /\ pc[k] \in {"record", "commit"}))
      BY <2>1 DEF Refuse, Crash, Abandon
    <3> QED
      BY <1>0, <3>1
  <2>2. lost' = lost \/ \E k \in Handlers : Refuse(k) \/ Crash(k)
    BY DEF Next, Ask, AskUnblock, Press, Begin, Start, StartSimple, StartReturn, StartResponse,
       StartNotSpam, ReadCase, StartGenerate, CreateFilter, StartUnblock, Continue, Upload,
       AddDocument, Download, StoreReply, BlockSender, BlockCase, IsBlocked, ListBlocked,
       DeleteFilter, UnblockSender, Commit, Reprocess, Quiescent, vars, history
  <2> QED
    BY <2>1, <2>2
<1>2. ASSUME NEW k \in Handlers, k # h, Handler(k)
      PROVE  pc'[h] = pc[h] /\ goal'[h] = goal[h] /\ ver'[h] = ver[h] /\ req'[h] = req[h]
  BY <1>0, <1>2, OthersKept
<1>3. CASE Reprocess \/ Quiescent \/ UNCHANGED vars
  BY <1>1, <1>3 DEF Reprocess, Quiescent, vars, locals, Flying
<1>4. ASSUME Refuse(h) \/ Crash(h), Flying(h) PROVE lost'
  <2>1. lost' = (lost \/ (goal[h] = "generate_si" /\ pc[h] \in {"record", "commit"}))
    BY <1>4 DEF Refuse, Crash, Abandon
  <2> QED
    BY <1>4, <2>1 DEF Flying
<1>5. ASSUME Refuse(h) \/ Crash(h) \/ Commit(h) PROVE ~Flying(h)'
  BY <1>0, <1>5 DEF Refuse, Crash, Commit, Return, LocalTypes, Flying
<1>6. ASSUME Ask(h) \/ AskUnblock(h) \/ Press(h) PROVE ~Flying(h)' /\ ~Flying(h)
  BY <1>0, <1>6 DEF Ask, AskUnblock, Press, Begin, Step, LocalTypes, Flying
<1>7. ASSUME Start(h) PROVE ~Flying(h)' /\ ~Flying(h)
  BY <1>0, <1>7 DEF Start, StartSimple, StartReturn, StartResponse,
       StartNotSpam, ReadCase, StartGenerate, CreateFilter, StartUnblock, Step, LocalTypes, locals, Flying
<1>8. ASSUME AddDocument(h)
      PROVE  Flying(h)' => Flying(h) /\ ver'[h] = ver[h] /\ req'[h] = req[h]
  BY <1>8 DEF AddDocument, Step, locals, Flying
<1>9. ASSUME AddDocument(h) PROVE Flying(h) => Flying(h)'
  BY <1>0, <1>9 DEF AddDocument, Step, LocalTypes, locals, Flying
<1>10. ASSUME \/ Download(h) \/ StoreReply(h) \/ BlockSender(h) \/ BlockCase(h) \/ IsBlocked(h)
              \/ ListBlocked(h) \/ DeleteFilter(h) \/ UnblockSender(h)
       PROVE  ~Flying(h)' /\ ~Flying(h)
  <2>1. goal[h] # "generate_si" /\ (goal' = goal \/ goal'[h] = "none")
    <3>1. pc[h] \in {"download", "reply", "block", "reread", "blocked", "list", "unfilter", "unblock"}
      BY <1>10 DEF Download, StoreReply, BlockSender, BlockCase, ReadCase, IsBlocked, ListBlocked,
                   DeleteFilter, UnblockSender, Step
    <3>2. goal[h] # "generate_si"
      BY <1>0, <3>1 DEF PcGoal, GoalsAt
    <3>3. goal' = goal \/ goal'[h] = "none"
      BY <1>0, <1>10 DEF Download, StoreReply, BlockSender, BlockCase, ReadCase, IsBlocked, ListBlocked,
                   DeleteFilter, UnblockSender, Return, LocalTypes, locals
    <3> QED
      BY <3>2, <3>3
  <2> QED
    BY <2>1 DEF Flying
<1>11. ASSUME Upload(h) PROVE ~Flying(h)
  BY <1>11 DEF Upload, Step, Flying
<1>12. ASSUME NEW k \in Handlers, k # h, Handler(k)
       PROVE  /\ Flying(h)' <=> Flying(h)
              /\ ver'[h] = ver[h] /\ req'[h] = req[h]
  BY <1>2, <1>12 DEF Flying
<1> QED
  BY <1>1, <1>3, <1>4, <1>5, <1>6, <1>7, <1>8, <1>9, <1>10, <1>11, <1>12
  DEF Next, Handler, Continue

LEMMA BlobSteps ==
    ASSUME TypeInv, [Next]_vars
    PROVE  \/ blob' = blob
           \/ \E h \in Handlers : Upload(h) /\ blob' = req[h] /\ req' = req /\ Flying(h)'
<1>1. ASSUME NEW h \in Handlers, Upload(h) PROVE blob' = req[h] /\ req' = req /\ Flying(h)'
  BY <1>1 DEF Upload, Step, locals, Flying, TypeInv, LocalTypes, PcGoal, GoalsAt
<1>2. blob' = blob \/ \E h \in Handlers : Upload(h)
  BY DEF Next, Ask, AskUnblock, Press, Begin, Start, StartSimple, StartReturn, StartResponse,
       StartNotSpam, ReadCase, StartGenerate, CreateFilter, StartUnblock, Continue,
       AddDocument, Download, StoreReply, BlockSender, BlockCase, IsBlocked, ListBlocked,
       DeleteFilter, UnblockSender, Commit, Refuse, Crash, Reprocess, Quiescent, vars, services
<1> QED
  BY <1>1, <1>2

\* Settled afterwards: it was before, or the last generation has just committed.
LEMMA SettledSteps ==
    ASSUME TypeInv, [Next]_vars, Settled'
    PROVE  \/ Settled
           \/ \E h \in Handlers : ~lost /\ Flying(h) /\ Alone(h) /\ Commit(h)
<1>0. LocalTypes
  BY DEF TypeInv
<1>1. CASE \E h \in Handlers : Flying(h)
  <2>1. PICK h \in Handlers : Flying(h)
    BY <1>1
  <2>2. Commit(h) /\ ~lost
    BY <2>1, FlightSteps DEF Settled
  <2>3. ASSUME NEW k \in Handlers \ {h} PROVE ~Flying(k)
    <3>1. pc'[k] = pc[k] /\ goal'[k] = goal[k]
      BY <1>0, <2>2, OthersKept DEF Handler, Continue
    <3> QED
      BY <3>1 DEF Settled, Flying
  <2> QED
    BY <2>1, <2>2, <2>3 DEF Alone
<1>2. CASE ~\E h \in Handlers : Flying(h)
  <2>1. lost' = lost \/ \E h \in Handlers : Handler(h)
    BY DEF Next, Handler, Reprocess, Quiescent, vars, history
  <2>2. ~lost
    BY <2>1, FlightSteps DEF Settled
  <2> QED
    BY <1>2, <2>2 DEF Settled
<1> QED
  BY <1>1, <1>2

LEMMA NextBlob == TypeInv /\ VersionInv /\ CopyInv /\ BaseInv /\ BlobInv /\ [Next]_vars => BlobInv'
<1> SUFFICES ASSUME TypeInv, VersionInv, CopyInv, BaseInv, BlobInv, [Next]_vars PROVE BlobInv'
  OBVIOUS
<1>1. ASSUME Settled' PROVE blob' = case'.artifact.doc
  <2>1. blob' = blob
    BY <1>1, BlobSteps DEF Settled
  <2>2. ASSUME NEW h \in Handlers, ~lost, Flying(h), Alone(h), Commit(h)
        PROVE  blob = case'.artifact.doc
    <3>1. Current(h) /\ goal[h] = "generate_si"
      BY <2>2 DEF Commit, Current, Flying
    <3>2. blob = req[h]
      BY <2>2, <3>1 DEF BlobInv
    <3> QED
      BY <2>2, <3>1, <3>2, CommitDocument
  <2>3. ASSUME Settled PROVE blob = case'.artifact.doc
    <3>1. blob = case.artifact.doc
      BY <2>3 DEF BlobInv
    <3>2. ASSUME NEW h \in Handlers, Commit(h) PROVE case'.artifact.doc = case.artifact.doc
      <4>1. goal[h] # "generate_si"
        BY <2>3, <3>2 DEF Settled, Flying, Commit
      <4> QED
        BY <3>2, <4>1, CommitDocument
    <3>3. CASE Reprocess
      BY <3>1, <3>3 DEF Reprocess, TypeInv, SharedTypes, Cases
    <3> QED
      BY <3>1, <3>2, <3>3, CaseSteps
  <2> QED
    BY <1>1, <2>1, <2>2, <2>3, SettledSteps
<1>2. ASSUME NEW h \in Handlers, ~lost', Flying(h)', Current(h)', Alone(h)' PROVE blob' = req'[h]
  <2>1. CASE Upload(h)
    BY <2>1 DEF Upload, locals
  <2>2. CASE Flying(h) /\ ver'[h] = ver[h] /\ req'[h] = req[h]
    <3>1. Current(h) /\ version' = version
      BY <1>2, <2>2, StaysCurrent
    <3>2. ASSUME NEW k \in Handlers, Commit(k) PROVE FALSE
      <4>1. version' = version + 1 /\ version \in Nat
        BY <3>2, VersionSteps DEF Commit
      <4> QED
        BY <3>1, <4>1
    <3>3. Alone(h) /\ ~lost
      BY <1>2, <3>2, FlightSteps DEF Alone
    <3>4. blob = req[h]
      BY <2>2, <3>1, <3>3 DEF BlobInv
    <3>5. ASSUME NEW g \in Handlers, Upload(g), Flying(g)' PROVE FALSE
      <4>1. g = h
        BY <1>2, <3>5 DEF Alone
      <4> QED
        BY <2>2, <3>5, <4>1 DEF Upload, Step, Flying
    <3>6. blob' = blob
      BY <3>5, BlobSteps
    <3> QED
      BY <2>2, <3>4, <3>6
  <2> QED
    BY <1>2, <2>1, <2>2, FlightSteps
<1> QED
  BY <1>1, <1>2 DEF BlobInv

LEMMA NextReturn ==
    ASSUME Guided
    PROVE  /\ TypeInv /\ VersionInv /\ CopyInv /\ BaseInv /\ BlobInv
           /\ OfferInv /\ ReturnInv /\ [Next]_vars
           => ReturnInv'
<1> SUFFICES ASSUME TypeInv, VersionInv, CopyInv, BaseInv, BlobInv, OfferInv, ReturnInv, [Next]_vars,
                    Settled'
             PROVE  /\ case'.stage = "RETURNED" => reply' = case'.artifact.doc
                    /\ \A h \in Handlers : goal'[h] = "return_si" /\ Current(h)' =>
                          /\ pc'[h] = "reply" => doc'[h] = case'.artifact.doc
                          /\ pc'[h] = "commit" => reply' = case'.artifact.doc
  BY DEF ReturnInv
<1>0. LocalTypes /\ SharedTypes /\ PcGoal
  BY DEF TypeInv
<1>1. ASSUME NEW h \in Handlers, Flying(h), Commit(h)
      PROVE  /\ case'.stage # "RETURNED"
             /\ \A k \in Handlers : pc'[k] \in {"reply", "commit"} => ~Current(k)'
  <2>1. case'.stage = "GENERATED"
    BY <1>1, CommitDocument, Results DEF Flying
  <2>2. version' = version + 1 /\ version \in Nat
    BY <1>1, VersionSteps DEF Commit
  <2>3. pc'[h] = "idle"
    BY <1>0, <1>1 DEF Commit, Return, LocalTypes
  <2>4. ASSUME NEW k \in Handlers, k # h, Current(k)' PROVE FALSE
    <3>1. ver'[k] = ver[k]
      BY <1>0, <1>1, <2>4, OthersKept DEF Handler, Continue
    <3>2. version' = version
      BY <2>4, <3>1, StaysCurrent
    <3> QED
      BY <2>2, <3>2
  <2> QED
    BY <2>1, <2>3, <2>4
<1>2. ASSUME Settled, case'.stage = "RETURNED" PROVE reply' = case'.artifact.doc
  <2>1. ASSUME NEW h \in Handlers, Commit(h) PROVE reply' = case'.artifact.doc
    <3>1. goal[h] \in CaseActions /\ ResultStage[goal[h]] = "RETURNED"
      BY <1>2, <2>1, CommitDocument
    <3>2. goal[h] = "return_si"
      BY <3>1, Results
    <3>3. pc[h] = "commit" /\ Current(h) /\ reply' = reply
      BY <2>1 DEF Commit, Current
    <3>4. reply = case.artifact.doc
      BY <1>2, <3>2, <3>3 DEF ReturnInv
    <3> QED
      BY <2>1, <3>2, <3>3, <3>4, CommitDocument
  <2>2. CASE Reprocess
    BY <1>0, <1>2, <2>2 DEF Reprocess, SharedTypes, Cases, ReturnInv
  <2>3. ASSUME NEW h \in Handlers, StoreReply(h) PROVE reply' = case'.artifact.doc
    <3>1. pc[h] = "reply" /\ Current(h) /\ reply' = doc[h] /\ case' = case
      BY <2>3 DEF StoreReply, Step, Current
    <3>2. goal[h] \in {"return_si", "draft_response"}
      BY <1>0, <3>1 DEF PcGoal, GoalsAt
    <3>3. CASE goal[h] = "return_si"
      BY <1>2, <3>1, <3>3 DEF ReturnInv
    <3>4. CASE goal[h] = "draft_response"
      <4>1. Legal(goal[h], case) /\ case.stage = "RETURNED"
        BY <1>2, <3>1 DEF OfferInv
      <4> QED
        BY <3>4, <4>1 DEF Legal, Offered, AvailableActions, RequestActions, InquiryActions
    <3> QED
      BY <3>2, <3>3, <3>4
  <2>4. CASE case' = case /\ reply' = reply
    BY <1>2, <2>4 DEF ReturnInv
  <2>5. reply' = reply \/ \E h \in Handlers : StoreReply(h)
    BY DEF Next, Ask, AskUnblock, Press, Begin, Start, StartSimple, StartReturn, StartResponse,
       StartNotSpam, ReadCase, StartGenerate, CreateFilter, StartUnblock, Continue, Upload,
       AddDocument, Download, BlockSender, BlockCase, IsBlocked, ListBlocked,
       DeleteFilter, UnblockSender, Commit, Refuse, Crash, Reprocess, Quiescent, vars
  <2> QED
    BY <2>1, <2>2, <2>3, <2>4, <2>5, CaseSteps
<1>3. ASSUME Settled, NEW h \in Handlers, goal'[h] = "return_si", Current(h)'
      PROVE  /\ pc'[h] = "reply" => doc'[h] = case'.artifact.doc
             /\ pc'[h] = "commit" => reply' = case'.artifact.doc
  <2>1. CASE ver'[h] = ver[h] /\ pc'[h] = pc[h] /\ goal'[h] = goal[h] /\ doc'[h] = doc[h]
    <3>1. Current(h) /\ case' = case /\ reply' = reply
      BY <1>3, <2>1, StaysCurrent
    <3> QED
      BY <1>3, <2>1, <3>1 DEF ReturnInv
  <2>2. ASSUME NEW k \in Handlers, k # h, Handler(k)
        PROVE  ver'[h] = ver[h] /\ pc'[h] = pc[h] /\ goal'[h] = goal[h] /\ doc'[h] = doc[h]
    BY <1>0, <2>2, OthersKept
  <2>3. CASE Reprocess \/ Quiescent \/ UNCHANGED vars
    BY <2>1, <2>3 DEF Reprocess, Quiescent, vars, locals
  <2>4. CASE Download(h)
    <3>1. doc'[h] = blob /\ case' = case /\ pc'[h] = "reply"
      BY <1>0, <2>4 DEF Download, Step, LocalTypes
    <3>2. blob = case.artifact.doc
      BY <1>3 DEF BlobInv
    <3> QED
      BY <3>1, <3>2
  <2>5. CASE StoreReply(h)
    <3>1. /\ pc[h] = "reply" /\ Current(h) /\ reply' = doc[h] /\ case' = case
          /\ goal[h] = "return_si" /\ pc'[h] = "commit"
      BY <1>0, <1>3, <2>5 DEF StoreReply, Step, Current, LocalTypes
    <3> QED
      BY <1>3, <3>1 DEF ReturnInv
  <2>6. ASSUME Handler(h), ~Download(h), ~StoreReply(h) PROVE pc'[h] \notin {"reply", "commit"}
    <3>1. goal'[h] = goal[h] \/ pc'[h] \in {"asked", "idle"}
      BY <1>0, <2>6 DEF Handler, LocalTypes,
         Ask, AskUnblock, Press, Begin, Start, StartSimple, StartReturn, StartResponse,
         StartNotSpam, ReadCase, StartGenerate, CreateFilter, StartUnblock, Continue, Upload,
         AddDocument, BlockSender, BlockCase, IsBlocked, ListBlocked,
         DeleteFilter, UnblockSender, Commit, Refuse, Crash, Return, Step, locals
    <3>2. goal[h] = "return_si" => pc[h] \in {"asked", "download", "reply", "commit"}
      BY <1>0 DEF PcGoal, GoalsAt, LocalTypes, PcStates
    <3> QED
      BY <1>0, <1>3, <2>6, <3>1, <3>2 DEF Handler, LocalTypes,
         Ask, AskUnblock, Press, Begin, Start, StartSimple, StartReturn, StartResponse,
         StartNotSpam, ReadCase, StartGenerate, CreateFilter, StartUnblock, Continue, Upload,
         AddDocument, BlockSender, BlockCase, IsBlocked, ListBlocked,
         DeleteFilter, UnblockSender, Commit, Refuse, Crash, Return, Step
  <2> QED
    BY <2>1, <2>2, <2>3, <2>4, <2>5, <2>6 DEF Next, Handler
<1> QED
  BY <1>1, <1>2, <1>3, SettledSteps

LEMMA InitDocument == Init => CopyInv /\ BlobInv /\ ReturnInv
<1> SUFFICES ASSUME Init PROVE CopyInv /\ BlobInv /\ ReturnInv
  OBVIOUS
<1>1. \A c : NewCase(c).copy = NewCase(c).artifact /\ NewCase(c).artifact.doc = None
  BY DEF NewCase, NoArtifact
<1>2. \A h \in Handlers : pc[h] = "idle" /\ base[h] = NewCase("GENERAL") /\ goal[h] = "none"
  BY DEF Init
<1>3. CopyInv
  BY <1>1, <1>2 DEF Init, CopyInv
<1>4. BlobInv
  BY <1>1, <1>2 DEF Init, BlobInv, Flying
<1>5. ReturnInv
  BY <1>1, <1>2 DEF Init, ReturnInv
<1> QED
  BY <1>3, <1>4, <1>5

\* For clients that follow the case's offers, the reply to the requester has the returned
\* document attached: it was downloaded while the bytes were the case's.
THEOREM ReturnedHolds ==
    ASSUME Guided
    PROVE  Spec => []ReturnedDocument
<1>1. TypeInv /\ ReturnInv => ReturnedDocument
  BY DEF ReturnInv, Settled, Flying, ReturnedDocument
<1>2. TypeInv /\ VersionInv /\ OfferInv /\ [Next]_vars => OfferInv'
  BY NextOffer
<1>3. TypeInv /\ VersionInv /\ CopyInv /\ BaseInv /\ BlobInv /\ OfferInv /\ ReturnInv /\ [Next]_vars
        => ReturnInv'
  BY NextReturn
<1> QED
  BY <1>1, <1>2, <1>3, TypeHolds, InitVersions, InitDocument, NextVersion, NextBase, NextCopy, NextBlob,
     PTL DEF Spec

-----------------------------------------------------------------------------
(* The order of the signatures *)

\* What a committed request writes about the document.
LEMMA OutcomeStatus ==
    ASSUME TypeInv, NEW h \in Handlers, goal[h] \in CaseActions, NEW c \in Outcomes(h)
    PROVE  /\ goal[h] \notin {"generate_si", "verify_si", "approve_si", "return_si"}
                => c.artifact = base[h].artifact
           /\ goal[h] = "generate_si" => c.artifact.status = "generated"
           /\ goal[h] = "verify_si" => c.artifact.status = "verified"
           /\ goal[h] = "approve_si" => c.artifact.status = "approved"
           /\ goal[h] = "return_si" => c.artifact.status = "returned"
<1>0. base[h] \in Cases
  BY DEF TypeInv, LocalTypes
<1>1. CASE goal[h] = "generate_si"
  <2>1. c = Generated(h)
    BY <1>1 DEF Outcomes
  <2> QED
    BY <1>0, <1>1, <2>1 DEF Generated, Cases
<1>2. CASE goal[h] \in {"verify_si", "approve_si"}
  <2>1. c.stage = ResultStage[goal[h]]
    BY OutcomeStage
  <2>2. /\ c.stage = SignedStage["verified"] => c.artifact.status = "verified"
        /\ c.stage = SignedStage["approved"] => c.artifact.status = "approved"
    BY OutcomeSigned DEF SignedStage
  <2> QED
    BY <1>2, <2>1, <2>2, Results DEF SignedStage
<1>3. CASE goal[h] = "return_si"
  <2>1. c = Returned(h)
    BY <1>3 DEF Outcomes
  <2> QED
    BY <1>0, <1>3, <2>1 DEF Returned, Cases, Artifacts
<1>4. CASE goal[h] \in {"route", "draft_response", "complete", "block_sender", "not_spam"}
  BY <1>0, <1>4 DEF Outcomes, Cases
<1> QED
  BY <1>1, <1>2, <1>3, <1>4 DEF CaseActions

\* An action that signs is offered where the signature before it was given.
LEMMA OfferedSignature ==
    ASSUME TypeInv, StageMatchesArtifact, NEW a \in {"verify_si", "approve_si", "return_si"},
           a \in Offered(case)
    PROVE  /\ a = "verify_si" => case.artifact.status \in {"generated", "verified", "approved"}
           /\ a = "approve_si" => case.artifact.status \in {"generated", "verified"}
           /\ a = "return_si" => case.artifact.status = "approved"
<1>1. a \in RequestActions(case.stage)
  BY DEF Offered, AvailableActions, InquiryActions
<1>2. /\ a = "verify_si" => case.stage \in {"GENERATED", "VERIFIED", "APPROVED"}
      /\ a = "approve_si" => case.stage \in {"GENERATED", "VERIFIED"}
      /\ a = "return_si" => case.stage = "APPROVED"
  BY <1>1 DEF RequestActions
<1>3. /\ case.stage = "GENERATED" => case.artifact.status = "generated"
      /\ case.stage = "VERIFIED" => case.artifact.status = "verified"
      /\ case.stage = "APPROVED" => case.artifact.status = "approved"
  BY DEF StageMatchesArtifact, SignedStage
<1> QED
  BY <1>2, <1>3

InOrder ==
    /\ case'.artifact.doc # case.artifact.doc => case'.artifact.status = "generated"
    /\ Guided /\ case'.artifact # case.artifact
         => case.artifact.status \in SignedFrom[case'.artifact.status]

LEMMA StepInOrder ==
    ASSUME TypeInv, StageMatchesArtifact, CopyInv, BaseInv, Guided => OfferInv, [Next]_vars
    PROVE  InOrder
<1>0. case \in Cases
  BY DEF TypeInv, SharedTypes
<1>1. ASSUME NEW h \in Handlers, Commit(h) PROVE InOrder
  <2>1. goal[h] \in CaseActions /\ case' \in Outcomes(h)
    BY <1>1, CommitGoal
  <2>2. pc[h] = "commit" /\ Current(h)
    BY <1>1 DEF Commit, Current
  <2>3. base[h] = case
    BY <2>1, <2>2 DEF BaseInv, HasRead, CaseActions
  <2>4. goal[h] # "generate_si" => case'.artifact.doc = case.artifact.doc
    BY <1>1, CommitDocument
  <2>5. CASE goal[h] = "generate_si"
    <3>1. case'.artifact.status = "generated"
      BY <2>1, <2>5, OutcomeStatus
    <3>2. case.artifact.status \in SignedFrom["generated"]
      BY <1>0 DEF Cases, Artifacts, SignedFrom
    <3> QED
      BY <3>1, <3>2 DEF InOrder
  <2>6. CASE goal[h] \in {"verify_si", "approve_si", "return_si"}
    <3>1. Guided => goal[h] \in Offered(case)
      BY <2>2, <2>6 DEF OfferInv, Legal
    <3>2. ASSUME Guided PROVE case.artifact.status \in SignedFrom[case'.artifact.status]
      BY <2>1, <2>6, <3>1, <3>2, OutcomeStatus, OfferedSignature DEF SignedFrom
    <3> QED
      BY <2>4, <2>6, <3>2 DEF InOrder
  <2>7. CASE goal[h] \notin {"generate_si", "verify_si", "approve_si", "return_si"}
    <3>1. case'.artifact = case.artifact
      BY <2>1, <2>3, <2>7, OutcomeStatus
    <3> QED
      BY <3>1 DEF InOrder
  <2> QED
    BY <2>5, <2>6, <2>7
<1>2. CASE Reprocess
  BY <1>0, <1>2 DEF Reprocess, Cases, InOrder
<1>3. CASE case' = case
  BY <1>3 DEF InOrder
<1> QED
  BY <1>1, <1>2, <1>3, CaseSteps

\* A document starts as generated, and is approved and returned only after the signatures
\* the case offers those steps for: whoever writes, writes about the document it saw.
THEOREM SignaturesHold == Spec => SignaturesInOrder
<1>1. TypeInv /\ StageMatchesArtifact /\ CopyInv /\ BaseInv /\ (Guided => OfferInv) /\ [Next]_vars
        => [/\ case'.artifact.doc # case.artifact.doc => case'.artifact.status = "generated"
            /\ Guided /\ case'.artifact # case.artifact
                 => case.artifact.status \in SignedFrom[case'.artifact.status]]_vars
  BY StepInOrder DEF InOrder
<1>2. TypeInv /\ VersionInv /\ (Guided => OfferInv) /\ [Next]_vars => (Guided => OfferInv)'
  BY NextOffer
<1>3. Init => (Guided => OfferInv) /\ VersionInv /\ BaseInv /\ CopyInv
  BY InitVersions, InitDocument
<1> QED
  BY <1>1, <1>2, <1>3, TypeHolds, SignedHolds, NextVersion, NextBase, NextCopy, PTL
  DEF Spec, SignaturesInOrder

-----------------------------------------------------------------------------
(* Corrections *)

\* Only a generation replaces what a field was corrected to.
LEMMA OutcomeField ==
    ASSUME TypeInv, NEW h \in Handlers, goal[h] \in CaseActions \ {"generate_si"},
           NEW c \in Outcomes(h)
    PROVE  c.field \in {base[h].field, "corrected"}
<1>0. base[h] \in Cases
  BY DEF TypeInv, LocalTypes
<1>1. CASE goal[h] \in {"verify_si", "approve_si"}
  <2>1. c \in Signed(h)
    BY <1>1 DEF Outcomes
  <2> QED
    BY <1>0, <2>1 DEF Signed, Cases
<1>2. CASE goal[h] = "return_si"
  <2>1. c = Returned(h)
    BY <1>2 DEF Outcomes
  <2> QED
    BY <1>0, <2>1 DEF Returned, Cases
<1>3. CASE goal[h] \in {"route", "draft_response", "complete", "block_sender", "not_spam"}
  BY <1>0, <1>3 DEF Outcomes, Cases
<1> QED
  BY <1>1, <1>2, <1>3 DEF CaseActions

LEMMA StepKeepsCorrection ==
    ASSUME TypeInv, BaseInv, [Next]_vars, case.field = "corrected", case'.field # "corrected"
    PROVE  \E h \in Handlers : /\ pc[h] = "commit" /\ pc'[h] = "idle"
                              /\ goal[h] = "generate_si" /\ base[h].field = "corrected"
<1>1. ASSUME Reprocess PROVE case'.field = case.field
  BY <1>1 DEF Reprocess, TypeInv, SharedTypes, Cases
<1>2. PICK h \in Handlers : Commit(h)
  BY <1>1, CaseSteps
<1>3. goal[h] \in CaseActions /\ case' \in Outcomes(h)
  BY <1>2, CommitGoal
<1>4. pc[h] = "commit" /\ pc'[h] = "idle" /\ Current(h)
  BY <1>2 DEF Commit, Return, Current, TypeInv, LocalTypes
<1>5. base[h] = case
  BY <1>3, <1>4 DEF BaseInv, HasRead, CaseActions
<1>6. goal[h] = "generate_si"
  BY <1>3, <1>5, OutcomeField
<1> QED
  BY <1>4, <1>5, <1>6

\* A reviewer's correction is replaced by nothing but a generation that read it, whichever
\* requests overlap and whatever their clients ask: one that read the case before is refused.
THEOREM CorrectionsHold == Spec => CorrectionsKept
<1>1. TypeInv /\ BaseInv /\ [Next]_vars
        => [case.field = "corrected" /\ case'.field # "corrected" =>
              \E h \in Handlers : /\ pc[h] = "commit" /\ pc'[h] = "idle"
                                  /\ goal[h] = "generate_si" /\ base[h].field = "corrected"]_vars
  BY StepKeepsCorrection
<1> QED
  BY <1>1, InitVersions, TypeHolds, NextVersion, NextBase, PTL DEF Spec, CorrectionsKept

=============================================================================
