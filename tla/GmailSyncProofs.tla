-------------------------- MODULE GmailSyncProofs ---------------------------
(***************************************************************************)
(* No message is lost behind the history cursor, for any number of push    *)
(* handlers, messages and mishaps: GmailSync implements MailboxContract.   *)
(*                                                                         *)
(* What a handler is going to store is covered by what was handled and by  *)
(* what it still has to handle (SyncInv), and it holds only messages that  *)
(* have arrived (BatchesReady).                                            *)
(***************************************************************************)
EXTENDS GmailSync, TLAPS

\* What has arrived, and nothing else, is in the inbox or has left it.
Arrived == \A n \in Messages : n <= now <=> place[n] # "to come"

\* The cursor a push has read is covered.
ReadCursorCovers ==
    \A h \in Handlers : pc[h] = "list" => \A n \in Messages : n <= mark[h] => Covered(n)

\* Up to the cursor a handler is going to store, messages are covered or still to be
\* handled.  The hourly job stores none.
BatchCovers ==
    \A h \in Handlers \ {"hourly"} : pc[h] \in {"history", "recent"} =>
        \A n \in Messages : n <= mark[h] => Covered(n) \/ n \in todo[h]

SyncInv == TypeOK /\ Arrived /\ CursorCovers /\ ReadCursorCovers /\ BatchCovers

-----------------------------------------------------------------------------
(* Types *)

LEMMA StepType ==
    ASSUME TypeOK, NEW h \in Handlers, NEW from, NEW to \in PcStates, Step(h, from, to)
    PROVE  pc' \in [Handlers -> PcStates]
BY DEF Step, TypeOK

LEMMA NoCursorType == NoCursor \in Int /\ NoCursor < 0
BY DEF NoCursor

LEMMA NowType ==
    ASSUME TypeOK
    PROVE  now \in Nat /\ now \in Int /\ 0 <= now /\ now <= now /\ NoCursor <= now /\ now < now + 1
<1>1. now \in Nat
  BY DEF TypeOK
<1> QED
  BY <1>1, NoCursorType

LEMMA MishapType ==
    ASSUME TypeOK, Mishap
    PROVE  mishaps' \in Nat
<1>1. mishaps \in Nat
  BY DEF TypeOK
<1> QED
  BY <1>1 DEF Mishap

\* A handler may remember any history id the mailbox has had.
LEMMA MarkType ==
    ASSUME TypeOK, NEW h \in Handlers, NEW n \in Int, n <= now, mark' = [mark EXCEPT ![h] = n]
    PROVE  mark' \in [Handlers -> Int] /\ \A k \in Handlers : mark'[k] <= now
<1>1. mark \in [Handlers -> Int] /\ \A k \in Handlers : mark[k] <= now
  BY DEF TypeOK
<1> QED
  BY <1>1

LEMMA NoteType ==
    ASSUME TypeOK, NEW h \in Handlers, NEW n \in Nat, n <= now, note' = [note EXCEPT ![h] = n]
    PROVE  note' \in [Handlers -> Nat] /\ \A k \in Handlers : note'[k] <= now
<1>1. note \in [Handlers -> Nat] /\ \A k \in Handlers : note[k] <= now
  BY DEF TypeOK
<1> QED
  BY <1>1

LEMMA EndType ==
    ASSUME TypeOK, NEW h \in Handlers, NEW from, End(h, from)
    PROVE  /\ pc' \in [Handlers -> PcStates]
           /\ note' \in [Handlers -> Nat]
           /\ mark' \in [Handlers -> Int]
           /\ todo' \in [Handlers -> SUBSET Messages]
           /\ \A k \in Handlers : note'[k] <= now /\ mark'[k] <= now
<1>1. todo \in [Handlers -> SUBSET Messages]
  BY DEF TypeOK
<1>2. pc' \in [Handlers -> PcStates]
  BY StepType DEF End, PcStates
<1>3. /\ note' = [note EXCEPT ![h] = 0] /\ mark' = [mark EXCEPT ![h] = NoCursor]
      /\ todo' = [todo EXCEPT ![h] = {}]
  BY DEF End
<1>4. note' \in [Handlers -> Nat] /\ \A k \in Handlers : note'[k] <= now
  BY <1>3, NowType, NoteType
<1>5. mark' \in [Handlers -> Int] /\ \A k \in Handlers : mark'[k] <= now
  BY <1>3, NowType, MarkType, NoCursorType
<1> QED
  BY <1>1, <1>2, <1>3, <1>4, <1>5

LEMMA ListedType == Listed \subseteq Messages /\ \A k : Newest(Listed, k) \subseteq Messages
BY DEF Listed, Newest

LEMMA PushType ==
    ASSUME TypeOK, NEW p \in Pushes, PushStep(p)
    PROVE  TypeOK'
<1> p \in Handlers
  BY DEF Handlers
<1>1. ASSUME NEW n \in Messages, StartPush(p, n) PROVE TypeOK'
  <2>1. pc' \in [Handlers -> PcStates]
    BY <1>1, StepType DEF StartPush, PcStates
  <2>2. note' \in [Handlers -> Nat] /\ \A k \in Handlers : note'[k] <= now
    <3>1. n \in Nat
      BY DEF Messages
    <3>2. n <= now
      BY <1>1 DEF StartPush, TypeOK
    <3> QED
      BY <1>1, <3>1, <3>2, NoteType DEF StartPush
  <2>3. mark' \in [Handlers -> Int] /\ \A k \in Handlers : mark'[k] <= now
    <3>1. cursor \in Int /\ cursor <= now
      BY DEF TypeOK
    <3> QED
      BY <1>1, <3>1, MarkType DEF StartPush
  <2> QED
    BY <1>1, <2>1, <2>2, <2>3 DEF StartPush, TypeOK, mailbox, state
<1>2. CASE ListHistory(p)
  <2>1. pc' \in [Handlers -> PcStates]
    BY <1>2, StepType DEF ListHistory, PcStates
  <2>2. mark' \in [Handlers -> Int] /\ \A k \in Handlers : mark'[k] <= now
    BY <1>2, NowType, MarkType DEF ListHistory
  <2>3. todo' \in [Handlers -> SUBSET Messages]
    BY <1>2 DEF ListHistory, TypeOK
  <2> QED
    BY <1>2, <2>1, <2>2, <2>3 DEF ListHistory, TypeOK, mailbox, state
<1>3. CASE ListRecent(p)
  <2>1. pc' \in [Handlers -> PcStates]
    BY <1>3, StepType DEF ListRecent, PcStates
  <2>2. mark' \in [Handlers -> Int] /\ \A k \in Handlers : mark'[k] <= now
    <3>1. note[p] \in Nat /\ note[p] <= now
      BY DEF TypeOK
    <3>2. note[p] \in Int
      BY <3>1
    <3> QED
      BY <1>3, <3>1, <3>2, MarkType DEF ListRecent
  <2>3. todo' \in [Handlers -> SUBSET Messages]
    BY <1>3, ListedType DEF ListRecent, TypeOK
  <2> QED
    BY <1>3, <2>1, <2>2, <2>3 DEF ListRecent, TypeOK, mailbox, state
<1>4. CASE Advance(p)
  BY <1>4 DEF Advance, TypeOK, mailbox, locals, PcStates
<1>5. CASE Confirm(p)
  BY <1>5, EndType DEF Confirm, TypeOK, mailbox
<1>6. CASE PushRefreshFails(p)
  BY <1>6 DEF PushRefreshFails, TypeOK, mailbox, state, locals, PcStates
<1> QED
  BY <1>1, <1>2, <1>3, <1>4, <1>5, <1>6 DEF PushStep

LEMMA CronType ==
    ASSUME TypeOK, Watch \/ Hourly \/ StoreConnected
    PROVE  TypeOK'
<1> "watch" \in Handlers /\ "hourly" \in Handlers /\ "oauth" \in Handlers
  BY DEF Handlers
<1>1. CASE RenewWatch
  <2>1. pc' \in [Handlers -> PcStates]
    BY <1>1, StepType DEF RenewWatch, PcStates
  <2>2. mark' \in [Handlers -> Int] /\ \A k \in Handlers : mark'[k] <= now
    BY <1>1, NowType, MarkType DEF RenewWatch
  <2> QED
    BY <1>1, <2>1, <2>2 DEF RenewWatch, TypeOK, mailbox, state
<1>2. CASE ReconcileAll
  <2>1. pc' \in [Handlers -> PcStates]
    BY <1>2, StepType DEF ReconcileAll, PcStates
  <2> QED
    BY <1>2, <2>1, ListedType DEF ReconcileAll, TypeOK, mailbox, state
<1>3. CASE StoreWatch
  BY <1>3, EndType DEF StoreWatch, TypeOK, mailbox
<1>4. CASE RenewRefreshFails
  BY <1>4, StepType DEF RenewRefreshFails, PcStates, TypeOK, mailbox, state, locals
<1>5. CASE StartHourly
  <2>1. pc' \in [Handlers -> PcStates]
    BY <1>5, StepType DEF StartHourly, PcStates
  <2>2. todo' \in [Handlers -> SUBSET Messages]
    BY <1>5, ListedType DEF StartHourly, TypeOK
  <2> QED
    BY <1>5, <2>1, <2>2 DEF StartHourly, TypeOK, mailbox, state
<1>6. CASE EndHourly
  BY <1>6, EndType DEF EndHourly, TypeOK, mailbox, state
<1>7. CASE StoreConnected
  BY <1>7, EndType DEF StoreConnected, TypeOK, mailbox
<1> QED
  BY <1>1, <1>2, <1>3, <1>4, <1>5, <1>6, <1>7 DEF Watch, Hourly

LEMMA WorkType ==
    ASSUME TypeOK, NEW h \in Handlers, Work(h)
    PROVE  TypeOK'
<1>1. ASSUME NEW n \in Messages, Ingest(h, n) PROVE TypeOK'
  BY <1>1 DEF Ingest, TypeOK, mailbox, state
<1>2. ASSUME NEW n \in Messages, Raise(h, n) PROVE TypeOK'
  BY <1>2, EndType DEF Raise, TypeOK, mailbox, state
<1>3. CASE CronRefreshFails(h)
  BY <1>3, EndType DEF CronRefreshFails, TypeOK, mailbox, state
<1>4. CASE Signal(h)
  BY <1>4, EndType DEF Signal, TypeOK, mailbox
<1> QED
  BY <1>1, <1>2, <1>3, <1>4 DEF Work

LEMMA EnvironmentType ==
    ASSUME TypeOK, Environment
    PROVE  TypeOK'
<1> "oauth" \in Handlers
  BY DEF Handlers
<1>1. CASE Arrive
  <2>1. /\ now < NumMessages /\ now' = now + 1
        /\ place' = [place EXCEPT ![now + 1] = "inbox"] /\ notes' = notes \cup {now + 1}
        /\ UNCHANGED <<horizon, token, rejected, state, handled, pc, locals, mishaps>>
    BY <1>1 DEF Arrive
  <2>2. /\ now' \in Nat /\ now' <= NumMessages /\ now + 1 \in Messages /\ now' <= now'
        /\ \A n \in Int : n <= now => n <= now'
    BY <2>1, NowType, SyncAssumption DEF Messages
  <2>3. cursor' <= now'
    BY <2>1, <2>2 DEF TypeOK, state
  <2>4. \A n \in notes' : n <= now'
    <3>1. \A n \in notes : n \in Int /\ n <= now
      <4>1. notes \subseteq Messages /\ \A n \in notes : n <= now
        BY DEF TypeOK
      <4> QED
        BY <4>1 DEF Messages
    <3> QED
      BY <2>1, <2>2, <3>1
  <2>5. \A h \in Handlers : note'[h] <= now' /\ mark'[h] <= now'
    <3>1. \A h \in Handlers : note[h] \in Int /\ note[h] <= now
      <4>1. note \in [Handlers -> Nat] /\ \A h \in Handlers : note[h] <= now
        BY DEF TypeOK
      <4> QED
        BY <4>1
    <3>2. \A h \in Handlers : mark[h] \in Int /\ mark[h] <= now
      BY DEF TypeOK
    <3> QED
      BY <2>1, <2>2, <3>1, <3>2 DEF locals
  <2> QED
    BY <2>1, <2>2, <2>3, <2>4, <2>5 DEF TypeOK, state, locals
<1>2. CASE Expire
  BY <1>2, MishapType DEF Expire, TypeOK, state, locals
<1>3. CASE Revoke
  BY <1>3, MishapType DEF Revoke, TypeOK, state, locals
<1>4. CASE Authorize
  BY <1>4, StepType DEF Authorize, TypeOK, PcStates, state, locals
<1>5. ASSUME NEW n \in Messages, Lose(n) PROVE TypeOK'
  BY <1>5, MishapType DEF Lose, TypeOK, mailbox, state, locals
<1>6. ASSUME NEW n \in Messages, Leave(n) PROVE TypeOK'
  BY <1>6, MishapType DEF Leave, TypeOK, state, locals
<1>7. ASSUME NEW h \in Handlers, Fail(h) PROVE TypeOK'
  BY <1>7, EndType, MishapType DEF Fail, TypeOK, mailbox, state
<1> QED
  BY <1>1, <1>2, <1>3, <1>4, <1>5, <1>6, <1>7 DEF Environment

LEMMA StepTypes ==
    ASSUME TypeOK, [Next]_vars
    PROVE  TypeOK'
<1>1. CASE UNCHANGED vars
  BY <1>1 DEF vars, TypeOK, mailbox, state, locals
<1> QED
  BY <1>1, PushType, CronType, WorkType, EnvironmentType DEF Next

\* Every reachable state is well-typed: no cursor is ahead of the mailbox, no
\* notification and no batch is about a message to come.
THEOREM TypeCorrect == Spec => []TypeOK
<1>1. ASSUME Init PROVE TypeOK
  <2>1. NoCursor <= 0 /\ 0 <= NumMessages /\ 0 \in Nat /\ NoCursor \in Int /\ 0 <= 0
    BY NoCursorType, SyncAssumption
  <2> QED
    BY <1>1, <2>1 DEF Init, TypeOK, PcStates
<1> QED
  BY <1>1, StepTypes, PTL DEF Spec

-----------------------------------------------------------------------------
(* The cursor *)

\* What is covered remains so.
LEMMA CoveredGrows ==
    ASSUME TypeOK, Arrived, [Next]_vars, NEW n \in Messages, Covered(n)
    PROVE  Covered(n)'
<1>1. handled \subseteq handled'
  BY DEF Next, PushStep, Watch, Hourly, Work, Environment, StartPush, ListHistory,
     ListRecent, Advance, Confirm, PushRefreshFails, RenewWatch, ReconcileAll,
     StoreWatch, RenewRefreshFails, StartHourly, EndHourly, StoreConnected, Ingest,
     Raise, CronRefreshFails, Signal, Arrive, Expire, Revoke, Authorize, Lose, Leave,
     Fail, vars
<1>2. CASE place' = place
  BY <1>1, <1>2 DEF Covered
<1>3. CASE Arrive
  <2>1. now \in Nat
    BY NowType
  <2>2. n = now + 1 => place[n] = "to come"
    <3>1. n = now + 1 => ~(n <= now)
      BY <2>1
    <3> QED
      BY <3>1 DEF Arrived
  <2>3. n # now + 1 => place'[n] = place[n]
    BY <1>3 DEF Arrive, TypeOK
  <2> QED
    BY <1>1, <2>2, <2>3 DEF Covered
<1>4. ASSUME NEW m \in Messages, Leave(m) PROVE Covered(n)'
  BY <1>1, <1>4 DEF Leave, Covered, TypeOK
<1> QED
  BY <1>2, <1>3, <1>4 DEF Next, PushStep, Watch, Hourly, Work, Environment, StartPush,
     ListHistory, ListRecent, Advance, Confirm, PushRefreshFails, RenewWatch,
     ReconcileAll, StoreWatch, RenewRefreshFails, StartHourly, EndHourly,
     StoreConnected, Ingest, Raise, CronRefreshFails, Signal, Expire, Revoke,
     Authorize, Lose, Fail, vars, mailbox

\* A handler that does not begin a batch or read the cursor keeps its promises.
LEMMA PromisesKept ==
    ASSUME TypeOK, Arrived, [Next]_vars, NEW h \in Handlers,
           pc'[h] = pc[h], mark'[h] = mark[h], todo'[h] = todo[h]
    PROVE  /\ (pc[h] = "list" => \A n \in Messages : n <= mark[h] => Covered(n))
              => (pc'[h] = "list" => \A n \in Messages : n <= mark'[h] => Covered(n)')
           /\ (pc[h] \in {"history", "recent"} =>
                  \A n \in Messages : n <= mark[h] => Covered(n) \/ n \in todo[h])
              => (pc'[h] \in {"history", "recent"} =>
                  \A n \in Messages : n <= mark'[h] => Covered(n)' \/ n \in todo'[h])
BY CoveredGrows

\* The promises of all handlers, when one of them may do something else.
LEMMA OthersKeepPromises ==
    ASSUME SyncInv, [Next]_vars, NEW h,
           \A k \in Handlers \ {h} : pc'[k] = pc[k] /\ mark'[k] = mark[k] /\ todo'[k] = todo[k],
           h \in Handlers =>
              /\ pc'[h] = "list" => \A n \in Messages : n <= mark'[h] => Covered(n)'
              /\ pc'[h] \in {"history", "recent"} /\ h # "hourly" =>
                    \A n \in Messages : n <= mark'[h] => Covered(n)' \/ n \in todo'[h]
    PROVE  ReadCursorCovers' /\ BatchCovers'
<1>1. TypeOK /\ Arrived /\ ReadCursorCovers /\ BatchCovers
  BY DEF SyncInv
<1>2. ASSUME NEW k \in Handlers, pc'[k] = "list", NEW n \in Messages, n <= mark'[k]
      PROVE  Covered(n)'
  <2>1. CASE k = h
    BY <1>2, <2>1
  <2>2. CASE k # h
    BY <1>1, <1>2, <2>2, PromisesKept DEF ReadCursorCovers
  <2> QED
    BY <2>1, <2>2
<1>3. ASSUME NEW k \in Handlers \ {"hourly"}, pc'[k] \in {"history", "recent"},
             NEW n \in Messages, n <= mark'[k]
      PROVE  Covered(n)' \/ n \in todo'[k]
  <2>1. CASE k = h
    BY <1>3, <2>1
  <2>2. CASE k # h
    BY <1>1, <1>3, <2>2, PromisesKept DEF BatchCovers
  <2> QED
    BY <2>1, <2>2
<1> QED
  BY <1>2, <1>3 DEF ReadCursorCovers, BatchCovers

\* A request that ends promises nothing more.
LEMMA EndKeepsPromises ==
    ASSUME SyncInv, [Next]_vars, NEW h \in Handlers, NEW from, End(h, from)
    PROVE  ReadCursorCovers' /\ BatchCovers'
<1>1. pc' = [pc EXCEPT ![h] = "idle"] /\ pc'[h] = "idle"
  BY DEF End, Step, SyncInv, TypeOK
<1>2. \A k \in Handlers \ {h} : pc'[k] = pc[k] /\ mark'[k] = mark[k] /\ todo'[k] = todo[k]
  BY DEF End, Step, SyncInv, TypeOK
<1> QED
  BY <1>1, <1>2, OthersKeepPromises

\* The cursor is covered as long as it stays where it is.
LEMMA CursorKept ==
    ASSUME SyncInv, [Next]_vars, cursor' = cursor
    PROVE  CursorCovers'
BY CoveredGrows DEF SyncInv, CursorCovers

\* What the query returns, with what has left the inbox, is everything so far.
LEMMA ListedCovers ==
    ASSUME TypeOK, Arrived, NEW n \in Messages, n <= now
    PROVE  Covered(n) \/ n \in Listed
BY DEF TypeOK, Arrived, Covered, Listed

LEMMA PushKeepsCover ==
    ASSUME SyncInv, NEW p \in Pushes, PushStep(p)
    PROVE  CursorCovers' /\ ReadCursorCovers' /\ BatchCovers'
<1> p \in Handlers /\ p # "hourly"
  BY SyncAssumption DEF Handlers
<1>1. [Next]_vars
  BY DEF Next
<1>2. TypeOK /\ Arrived /\ CursorCovers /\ ReadCursorCovers /\ BatchCovers
  BY DEF SyncInv
<1>3. ASSUME NEW n \in Messages, StartPush(p, n)
      PROVE  CursorCovers' /\ ReadCursorCovers' /\ BatchCovers'
  <2>1. CursorCovers'
    BY <1>1, <1>3, CursorKept DEF StartPush, state
  <2>2. \A k \in Handlers \ {p} : pc'[k] = pc[k] /\ mark'[k] = mark[k] /\ todo'[k] = todo[k]
    BY <1>2, <1>3 DEF StartPush, Step, TypeOK
  <2>3. pc'[p] = "list" /\ mark'[p] = cursor
    BY <1>2, <1>3 DEF StartPush, Step, TypeOK
  <2>4. \A m \in Messages : m <= mark'[p] => Covered(m)'
    BY <1>1, <1>2, <2>3, CoveredGrows DEF CursorCovers
  <2> QED
    BY <1>1, <2>1, <2>2, <2>3, <2>4, OthersKeepPromises
<1>4. CASE ListHistory(p)
  <2>1. CursorCovers'
    BY <1>1, <1>4, CursorKept DEF ListHistory, state
  <2>2. \A k \in Handlers \ {p} : pc'[k] = pc[k] /\ mark'[k] = mark[k] /\ todo'[k] = todo[k]
    BY <1>2, <1>4 DEF ListHistory, Step, TypeOK
  <2>3. /\ pc[p] = "list" /\ pc'[p] = "history" /\ mark'[p] = now
        /\ todo'[p] = {n \in Messages : mark[p] < n /\ n <= now}
    BY <1>2, <1>4 DEF ListHistory, Step, TypeOK
  <2>4. ASSUME NEW n \in Messages, n <= mark'[p], n \notin todo'[p] PROVE Covered(n)'
    <3>1. ~(mark[p] < n)
      BY <2>3, <2>4
    <3>2. mark[p] \in Int
      BY <1>2 DEF TypeOK
    <3>3. n <= mark[p]
      BY <3>1, <3>2 DEF Messages
    <3>4. Covered(n)
      BY <1>2, <2>3, <3>3 DEF ReadCursorCovers
    <3> QED
      BY <1>1, <1>2, <3>4, CoveredGrows
  <2> QED
    BY <1>1, <2>1, <2>2, <2>3, <2>4, OthersKeepPromises
<1>5. CASE ListRecent(p)
  <2>1. CursorCovers'
    BY <1>1, <1>5, CursorKept DEF ListRecent, state
  <2>2. \A k \in Handlers \ {p} : pc'[k] = pc[k] /\ mark'[k] = mark[k] /\ todo'[k] = todo[k]
    BY <1>2, <1>5 DEF ListRecent, Step, TypeOK
  <2>3. pc'[p] = "recent" /\ mark'[p] = note[p] /\ todo'[p] = Listed
    BY <1>2, <1>5 DEF ListRecent, Step, TypeOK
  <2>4. ASSUME NEW n \in Messages, n <= mark'[p] PROVE Covered(n)' \/ n \in todo'[p]
    <3>1. note[p] \in Nat /\ note[p] <= now /\ now \in Nat
      BY <1>2 DEF TypeOK
    <3>2. n \in Int
      BY DEF Messages
    <3>3. n <= now
      BY <2>3, <2>4, <3>1, <3>2
    <3> QED
      BY <1>1, <1>2, <2>3, <3>3, ListedCovers, CoveredGrows
  <2> QED
    BY <1>1, <2>1, <2>2, <2>3, <2>4, OthersKeepPromises
<1>6. CASE Advance(p)
  <2>1. todo[p] = {} /\ pc[p] \in {"history", "recent"} /\ cursor' = mark[p]
    BY <1>6 DEF Advance
  <2>2. \A n \in Messages : n <= mark[p] => Covered(n)
    BY <1>2, <2>1 DEF BatchCovers
  <2>3. CursorCovers'
    BY <1>1, <1>2, <2>1, <2>2, CoveredGrows DEF CursorCovers
  <2>4. /\ \A k \in Handlers \ {p} : pc'[k] = pc[k] /\ mark'[k] = mark[k] /\ todo'[k] = todo[k]
        /\ pc'[p] = "confirm"
    BY <1>2, <1>6 DEF Advance, locals, TypeOK
  <2> QED
    BY <1>1, <2>3, <2>4, OthersKeepPromises
<1>7. CASE Confirm(p)
  BY <1>1, <1>7, CursorKept, EndKeepsPromises DEF Confirm
<1>8. CASE PushRefreshFails(p)
  <2>1. CursorCovers'
    BY <1>1, <1>8, CursorKept DEF PushRefreshFails, state
  <2>2. /\ \A k \in Handlers \ {p} : pc'[k] = pc[k] /\ mark'[k] = mark[k] /\ todo'[k] = todo[k]
        /\ pc'[p] = "signal"
    BY <1>2, <1>8 DEF PushRefreshFails, locals, TypeOK
  <2> QED
    BY <1>1, <2>1, <2>2, OthersKeepPromises
<1> QED
  BY <1>3, <1>4, <1>5, <1>6, <1>7, <1>8 DEF PushStep

LEMMA CronKeepsCover ==
    ASSUME SyncInv, Watch \/ Hourly \/ StoreConnected
    PROVE  CursorCovers' /\ ReadCursorCovers' /\ BatchCovers'
<1> "watch" \in Handlers /\ "hourly" \in Handlers /\ "oauth" \in Handlers
  BY DEF Handlers
<1>1. [Next]_vars
  BY DEF Next
<1>2. TypeOK /\ Arrived /\ CursorCovers /\ ReadCursorCovers /\ BatchCovers
  BY DEF SyncInv
<1>3. CASE RenewWatch
  <2>1. CursorCovers'
    BY <1>1, <1>3, CursorKept DEF RenewWatch, state
  <2>2. /\ \A k \in Handlers \ {"watch"} : pc'[k] = pc[k] /\ mark'[k] = mark[k] /\ todo'[k] = todo[k]
        /\ pc'["watch"] = "renewed"
    BY <1>2, <1>3 DEF RenewWatch, Step, TypeOK
  <2> QED
    BY <1>1, <2>1, <2>2, OthersKeepPromises
<1>4. CASE ReconcileAll
  <2>1. CursorCovers'
    BY <1>1, <1>4, CursorKept DEF ReconcileAll, state
  <2>2. /\ \A k \in Handlers \ {"watch"} : pc'[k] = pc[k] /\ mark'[k] = mark[k] /\ todo'[k] = todo[k]
        /\ pc'["watch"] = "recent" /\ mark'["watch"] = mark["watch"] /\ todo'["watch"] = Listed
    BY <1>2, <1>4 DEF ReconcileAll, Step, TypeOK
  <2>3. ASSUME NEW n \in Messages, n <= mark'["watch"]
        PROVE  Covered(n)' \/ n \in todo'["watch"]
    <3>1. mark["watch"] \in Int /\ mark["watch"] <= now /\ now \in Nat
      BY <1>2 DEF TypeOK
    <3>2. n \in Int
      BY DEF Messages
    <3>3. n <= now
      BY <2>2, <2>3, <3>1, <3>2
    <3> QED
      BY <1>1, <1>2, <2>2, <3>3, ListedCovers, CoveredGrows
  <2> QED
    BY <1>1, <2>1, <2>2, <2>3, OthersKeepPromises
<1>5. CASE StoreWatch
  <2>1. todo["watch"] = {} /\ pc["watch"] = "recent" /\ cursor' = mark["watch"]
    BY <1>5 DEF StoreWatch, End, Step
  <2>2. \A n \in Messages : n <= mark["watch"] => Covered(n)
    BY <1>2, <2>1 DEF BatchCovers
  <2>3. CursorCovers'
    BY <1>1, <1>2, <2>1, <2>2, CoveredGrows DEF CursorCovers
  <2> QED
    BY <1>1, <1>5, <2>3, EndKeepsPromises DEF StoreWatch
<1>6. CASE RenewRefreshFails
  <2>1. CursorCovers'
    BY <1>1, <1>6, CursorKept DEF RenewRefreshFails, state
  <2>2. /\ \A k \in Handlers \ {"watch"} : pc'[k] = pc[k] /\ mark'[k] = mark[k] /\ todo'[k] = todo[k]
        /\ pc'["watch"] = "signal"
    BY <1>2, <1>6 DEF RenewRefreshFails, Step, locals, TypeOK
  <2> QED
    BY <1>1, <2>1, <2>2, OthersKeepPromises
<1>7. CASE StartHourly
  <2>1. CursorCovers'
    BY <1>1, <1>7, CursorKept DEF StartHourly, state
  <2>2. /\ \A k \in Handlers \ {"hourly"} : pc'[k] = pc[k] /\ mark'[k] = mark[k] /\ todo'[k] = todo[k]
        /\ pc'["hourly"] = "recent"
    BY <1>2, <1>7 DEF StartHourly, Step, TypeOK
  <2> QED
    BY <1>1, <2>1, <2>2, OthersKeepPromises
<1>8. CASE EndHourly
  BY <1>1, <1>8, CursorKept, EndKeepsPromises DEF EndHourly, state
<1>9. CASE StoreConnected
  BY <1>1, <1>9, CursorKept, EndKeepsPromises DEF StoreConnected
<1> QED
  BY <1>3, <1>4, <1>5, <1>6, <1>7, <1>8, <1>9 DEF Watch, Hourly

LEMMA WorkKeepsCover ==
    ASSUME SyncInv, NEW h \in Handlers, Work(h)
    PROVE  CursorCovers' /\ ReadCursorCovers' /\ BatchCovers'
<1>1. [Next]_vars
  BY DEF Next
<1>2. TypeOK /\ Arrived /\ BatchCovers
  BY DEF SyncInv
<1>3. ASSUME NEW n \in Messages, Ingest(h, n)
      PROVE  CursorCovers' /\ ReadCursorCovers' /\ BatchCovers'
  <2>1. CursorCovers'
    BY <1>1, <1>3, CursorKept DEF Ingest, state
  <2>2. /\ \A k \in Handlers \ {h} : pc'[k] = pc[k] /\ mark'[k] = mark[k] /\ todo'[k] = todo[k]
        /\ pc'[h] = pc[h] /\ pc[h] \in {"history", "recent"} /\ mark'[h] = mark[h]
        /\ todo'[h] = todo[h] \ {n} /\ handled' = handled \cup {n}
    BY <1>2, <1>3 DEF Ingest, Upcoming, TypeOK
  <2>3. Covered(n)'
    BY <2>2 DEF Covered
  <2>4. h # "hourly" => \A m \in Messages : m <= mark'[h] => Covered(m)' \/ m \in todo'[h]
    BY <1>1, <1>2, <2>2, <2>3, CoveredGrows DEF BatchCovers
  <2> QED
    BY <1>1, <2>1, <2>2, <2>4, OthersKeepPromises
<1>4. ASSUME NEW n \in Messages, Raise(h, n)
      PROVE  CursorCovers' /\ ReadCursorCovers' /\ BatchCovers'
  BY <1>1, <1>4, CursorKept, EndKeepsPromises DEF Raise, state
<1>5. CASE CronRefreshFails(h)
  BY <1>1, <1>5, CursorKept, EndKeepsPromises DEF CronRefreshFails, state
<1>6. CASE Signal(h)
  BY <1>1, <1>6, CursorKept, EndKeepsPromises DEF Signal
<1> QED
  BY <1>3, <1>4, <1>5, <1>6 DEF Work

LEMMA EnvironmentKeepsCover ==
    ASSUME SyncInv, Environment
    PROVE  CursorCovers' /\ ReadCursorCovers' /\ BatchCovers'
<1>1. [Next]_vars
  BY DEF Next
<1>2. cursor' = cursor
  BY DEF Environment, Arrive, Expire, Revoke, Authorize, Lose, Leave, Fail, state
<1>3. CursorCovers'
  BY <1>1, <1>2, CursorKept
<1>4. ASSUME NEW h \in Handlers, Fail(h) PROVE ReadCursorCovers' /\ BatchCovers'
  BY <1>1, <1>4, EndKeepsPromises DEF Fail
<1>5. CASE Authorize
  <2>1. "oauth" \in Handlers
    BY DEF Handlers
  <2>2. /\ \A k \in Handlers \ {"oauth"} : pc'[k] = pc[k] /\ mark'[k] = mark[k] /\ todo'[k] = todo[k]
        /\ pc'["oauth"] \notin {"list", "history", "recent"}
    BY <1>5, <2>1 DEF Authorize, Step, locals, SyncInv, TypeOK
  <2> QED
    BY <1>1, <1>3, <2>1, <2>2, OthersKeepPromises
<1>6. CASE UNCHANGED <<pc, locals>>
  <2>1. /\ \A k \in Handlers : pc'[k] = pc[k] /\ mark'[k] = mark[k] /\ todo'[k] = todo[k]
        /\ TypeOK /\ Arrived /\ ReadCursorCovers /\ BatchCovers
    BY <1>6 DEF locals, SyncInv
  <2>2. ASSUME NEW h \in Handlers, pc'[h] = "list", NEW n \in Messages, n <= mark'[h]
        PROVE  Covered(n)'
    BY <1>1, <2>1, <2>2, CoveredGrows DEF ReadCursorCovers
  <2>3. ASSUME NEW h \in Handlers \ {"hourly"}, pc'[h] \in {"history", "recent"},
               NEW n \in Messages, n <= mark'[h]
        PROVE  Covered(n)' \/ n \in todo'[h]
    BY <1>1, <2>1, <2>3, CoveredGrows DEF BatchCovers
  <2> QED
    BY <1>3, <2>2, <2>3 DEF ReadCursorCovers, BatchCovers
<1> QED
  BY <1>3, <1>4, <1>5, <1>6 DEF Environment, Arrive, Expire, Revoke, Lose, Leave

LEMMA ArrivedKept ==
    ASSUME TypeOK, Arrived, [Next]_vars
    PROVE  Arrived'
<1>1. CASE Arrive
  <2>1. /\ now' = now + 1 /\ now \in Nat
        /\ \A n \in Messages : place'[n] = IF n = now + 1 THEN "inbox" ELSE place[n]
    BY <1>1, NowType DEF Arrive, TypeOK
  <2>2. \A n \in Messages : n \in Int /\ (n <= now' <=> n <= now \/ n = now + 1)
    BY <2>1 DEF Messages
  <2> QED
    BY <2>1, <2>2 DEF Arrived
<1>2. ASSUME NEW n \in Messages, Leave(n) PROVE Arrived'
  BY <1>2 DEF Leave, Arrived, TypeOK
<1>3. CASE UNCHANGED <<now, place>>
  BY <1>3 DEF Arrived
<1> QED
  BY <1>1, <1>2, <1>3 DEF Next, PushStep, Watch, Hourly, Work, Environment, StartPush,
     ListHistory, ListRecent, Advance, Confirm, PushRefreshFails, RenewWatch,
     ReconcileAll, StoreWatch, RenewRefreshFails, StartHourly, EndHourly,
     StoreConnected, Ingest, Raise, CronRefreshFails, Signal, Expire, Revoke,
     Authorize, Lose, Fail, vars, mailbox

LEMMA SyncInit ==
    ASSUME Init
    PROVE  SyncInv
<1>1. TypeOK
  <2>1. NoCursor <= 0 /\ 0 <= NumMessages /\ 0 \in Nat /\ NoCursor \in Int /\ 0 <= 0
    BY NoCursorType, SyncAssumption
  <2> QED
    BY <2>1 DEF Init, TypeOK, PcStates
<1>2. \A n \in Messages : ~(n <= 0) /\ ~(n <= NoCursor)
  BY DEF Messages, NoCursor
<1> QED
  BY <1>1, <1>2 DEF Init, SyncInv, Arrived, CursorCovers, ReadCursorCovers, BatchCovers

LEMMA SyncStep ==
    ASSUME SyncInv, [Next]_vars
    PROVE  SyncInv'
<1>1. TypeOK' /\ Arrived'
  BY StepTypes, ArrivedKept DEF SyncInv
<1>2. CursorCovers' /\ ReadCursorCovers' /\ BatchCovers'
  <2>1. CASE UNCHANGED vars
    <3>1. UNCHANGED <<cursor, handled, place, pc, mark, todo>>
      BY <2>1 DEF vars, mailbox, state, locals
    <3> QED
      BY <3>1 DEF SyncInv, CursorCovers, ReadCursorCovers, BatchCovers, Covered
  <2> QED
    BY <2>1, PushKeepsCover, CronKeepsCover, WorkKeepsCover, EnvironmentKeepsCover DEF Next
<1> QED
  BY <1>1, <1>2 DEF SyncInv

\* No message is lost behind the cursor: whatever the pushes, the daily job, failures
\* and Gmail do, a message with an id up to gmail_state.history_id was handled or had
\* left the inbox.
THEOREM NothingLost == Spec => []CursorCovers
<1>1. SyncInv => CursorCovers
  BY DEF SyncInv
<1> QED
  BY <1>1, SyncInit, SyncStep, PTL DEF Spec

-----------------------------------------------------------------------------
(* The contract *)

\* A handler holds only messages that have arrived, and what it is going to store is a
\* history id.
Ready(h) ==
    /\ \A n \in todo[h] : place[n] # "to come"
    /\ h # "hourly" /\ pc[h] \in {"history", "recent", "renewed"} => mark[h] \in Nat

BatchesReady == \A h \in Handlers : Ready(h)

\* A message that has arrived is not to come again.
LEMMA NoReturn ==
    ASSUME TypeOK, Arrived, [Next]_vars, NEW n \in Messages, place[n] # "to come"
    PROVE  place'[n] # "to come"
<1>1. CASE Arrive
  BY <1>1 DEF Arrive, TypeOK
<1>2. ASSUME NEW m \in Messages, Leave(m) PROVE place'[n] # "to come"
  BY <1>2 DEF Leave, TypeOK
<1> QED
  BY <1>1, <1>2 DEF Next, PushStep, Watch, Hourly, Work, Environment, StartPush,
     ListHistory, ListRecent, Advance, Confirm, PushRefreshFails, RenewWatch,
     ReconcileAll, StoreWatch, RenewRefreshFails, StartHourly, EndHourly,
     StoreConnected, Ingest, Raise, CronRefreshFails, Signal, Expire, Revoke,
     Authorize, Lose, Fail, vars, mailbox

\* A handler that takes no message on and keeps its mark stays ready.
LEMMA ReadyKept ==
    ASSUME SyncInv, [Next]_vars, NEW h \in Handlers, Ready(h),
           todo'[h] \subseteq todo[h], mark'[h] = mark[h],
           pc'[h] \in {"history", "recent", "renewed"}
              => pc[h] \in {"history", "recent", "renewed"} \/ h = "hourly"
    PROVE  Ready(h)'
<1>1. todo[h] \subseteq Messages /\ TypeOK /\ Arrived
  BY DEF SyncInv, TypeOK
<1>2. \A n \in todo'[h] : place'[n] # "to come"
  BY <1>1, NoReturn DEF Ready
<1> QED
  BY <1>2 DEF Ready

\* One that ends holds nothing.
LEMMA ReadyAtEnd ==
    ASSUME TypeOK, NEW h \in Handlers, NEW from, End(h, from)
    PROVE  Ready(h)'
BY DEF End, Step, TypeOK, Ready

\* What is listed has arrived.
LEMMA ListedArrived ==
    /\ \A n \in Listed : place[n] # "to come"
    /\ \A k : \A n \in Newest(Listed, k) : place[n] # "to come"
BY DEF Listed, Newest

\* Only the handler that takes a step changes its locals.
Alone(h) == \A k \in Handlers \ {h} : pc'[k] = pc[k] /\ mark'[k] = mark[k] /\ todo'[k] = todo[k]

LEMMA OthersReady ==
    ASSUME SyncInv, BatchesReady, [Next]_vars, NEW h, Alone(h), h \in Handlers => Ready(h)'
    PROVE  BatchesReady'
<1>1. ASSUME NEW k \in Handlers, k # h PROVE Ready(k)'
  BY <1>1, ReadyKept DEF Alone, BatchesReady
<1> QED
  BY <1>1 DEF BatchesReady

LEMMA EndsReady ==
    ASSUME SyncInv, BatchesReady, [Next]_vars, NEW h \in Handlers, NEW from, End(h, from)
    PROVE  BatchesReady'
<1>1. Alone(h)
  BY DEF End, Step, SyncInv, TypeOK, Alone
<1> QED
  BY <1>1, ReadyAtEnd, OthersReady DEF SyncInv

LEMMA PushReady ==
    ASSUME SyncInv, BatchesReady, NEW p \in Pushes, PushStep(p)
    PROVE  BatchesReady'
<1> p \in Handlers /\ p # "hourly"
  BY SyncAssumption DEF Handlers
<1>1. [Next]_vars /\ TypeOK /\ Arrived /\ Ready(p)
  BY DEF Next, SyncInv, BatchesReady
<1>2. ASSUME NEW n \in Messages, StartPush(p, n) PROVE BatchesReady'
  <2>1. Alone(p) /\ pc'[p] = "list" /\ todo' = todo
    BY <1>1, <1>2 DEF StartPush, Step, TypeOK, Alone
  <2>2. Ready(p)'
    <3>1. \A m \in todo'[p] : place'[m] # "to come"
      BY <1>1, <1>2, <2>1 DEF StartPush, mailbox, Ready
    <3> QED
      BY <2>1, <3>1 DEF Ready
  <2> QED
    BY <1>1, <2>1, <2>2, OthersReady
<1>3. CASE ListHistory(p)
  <2>1. /\ Alone(p) /\ place' = place /\ mark'[p] = now
        /\ todo'[p] = {n \in Messages : mark[p] < n /\ n <= now}
    BY <1>1, <1>3 DEF ListHistory, Step, TypeOK, Alone, mailbox
  <2>2. Ready(p)'
    BY <1>1, <2>1 DEF Ready, Arrived, TypeOK
  <2> QED
    BY <1>1, <2>1, <2>2, OthersReady
<1>4. CASE ListRecent(p)
  <2>1. Alone(p) /\ place' = place /\ mark'[p] = note[p] /\ todo'[p] = Listed
    BY <1>1, <1>4 DEF ListRecent, Step, TypeOK, Alone, mailbox
  <2>2. Ready(p)'
    BY <1>1, <2>1, ListedArrived DEF Ready, TypeOK
  <2> QED
    BY <1>1, <2>1, <2>2, OthersReady
<1>5. CASE Advance(p)
  <2>1. Alone(p) /\ pc'[p] = "confirm" /\ mark' = mark /\ todo' = todo
    BY <1>1, <1>5 DEF Advance, locals, TypeOK, Alone
  <2> QED
    BY <1>1, <2>1, ReadyKept, OthersReady
<1>6. CASE Confirm(p)
  BY <1>1, <1>6, EndsReady DEF Confirm
<1>7. CASE PushRefreshFails(p)
  <2>1. Alone(p) /\ pc'[p] = "signal" /\ mark' = mark /\ todo' = todo
    BY <1>1, <1>7 DEF PushRefreshFails, locals, TypeOK, Alone
  <2> QED
    BY <1>1, <2>1, ReadyKept, OthersReady
<1> QED
  BY <1>2, <1>3, <1>4, <1>5, <1>6, <1>7 DEF PushStep

LEMMA CronReady ==
    ASSUME SyncInv, BatchesReady, Watch \/ Hourly \/ StoreConnected
    PROVE  BatchesReady'
<1> "watch" \in Handlers /\ "hourly" \in Handlers /\ "oauth" \in Handlers
  BY DEF Handlers
<1>1. [Next]_vars /\ TypeOK /\ Ready("watch") /\ Ready("hourly")
  BY DEF Next, SyncInv, BatchesReady
<1>2. CASE RenewWatch
  <2>1. Alone("watch") /\ place' = place /\ mark'["watch"] = now /\ todo' = todo
    BY <1>1, <1>2 DEF RenewWatch, Step, TypeOK, Alone, mailbox
  <2>2. Ready("watch")'
    BY <1>1, <2>1 DEF Ready, TypeOK
  <2> QED
    BY <1>1, <2>1, <2>2, OthersReady
<1>3. CASE ReconcileAll
  <2>1. Alone("watch") /\ place' = place /\ mark' = mark /\ pc["watch"] = "renewed"
    BY <1>1, <1>3 DEF ReconcileAll, Step, TypeOK, Alone, mailbox
  <2>2. todo'["watch"] = Listed
    BY <1>1, <1>3 DEF ReconcileAll, TypeOK
  <2>3. Ready("watch")'
    BY <1>1, <2>1, <2>2, ListedArrived DEF Ready
  <2> QED
    BY <1>1, <2>1, <2>3, OthersReady
<1>4. CASE StoreWatch
  BY <1>1, <1>4, EndsReady DEF StoreWatch
<1>5. CASE RenewRefreshFails
  <2>1. Alone("watch") /\ pc'["watch"] = "signal" /\ mark' = mark /\ todo' = todo
    BY <1>1, <1>5 DEF RenewRefreshFails, Step, locals, TypeOK, Alone
  <2> QED
    BY <1>1, <2>1, ReadyKept, OthersReady
<1>6. CASE StartHourly
  <2>1. Alone("hourly") /\ place' = place /\ todo'["hourly"] = Newest(Listed, HourlyLimit)
    BY <1>1, <1>6 DEF StartHourly, Step, TypeOK, Alone, mailbox
  <2>2. Ready("hourly")'
    BY <2>1, ListedArrived DEF Ready
  <2> QED
    BY <1>1, <2>1, <2>2, OthersReady
<1>7. CASE EndHourly
  BY <1>1, <1>7, EndsReady DEF EndHourly
<1>8. CASE StoreConnected
  BY <1>1, <1>8, EndsReady DEF StoreConnected
<1> QED
  BY <1>2, <1>3, <1>4, <1>5, <1>6, <1>7, <1>8 DEF Watch, Hourly

LEMMA OtherReady ==
    ASSUME SyncInv, BatchesReady, (\E h \in Handlers : Work(h)) \/ Environment \/ UNCHANGED vars
    PROVE  BatchesReady'
<1>1. [Next]_vars /\ TypeOK
  BY DEF Next, SyncInv
<1>2. ASSUME NEW h \in Handlers, NEW n \in Messages, Ingest(h, n) PROVE BatchesReady'
  <2>1. Alone(h) /\ pc' = pc /\ mark' = mark /\ todo'[h] \subseteq todo[h]
    BY <1>1, <1>2 DEF Ingest, TypeOK, Alone
  <2>2. Ready(h)
    BY DEF BatchesReady
  <2> QED
    BY <1>1, <2>1, <2>2, ReadyKept, OthersReady
<1>3. ASSUME NEW h \in Handlers, NEW n \in Messages, Raise(h, n) PROVE BatchesReady'
  BY <1>1, <1>3, EndsReady DEF Raise
<1>4. ASSUME NEW h \in Handlers, CronRefreshFails(h) PROVE BatchesReady'
  BY <1>1, <1>4, EndsReady DEF CronRefreshFails
<1>5. ASSUME NEW h \in Handlers, Signal(h) PROVE BatchesReady'
  BY <1>1, <1>5, EndsReady DEF Signal
<1>6. ASSUME NEW h \in Handlers, Fail(h) PROVE BatchesReady'
  BY <1>1, <1>6, EndsReady DEF Fail
<1>7. CASE Authorize
  <2>1. "oauth" \in Handlers
    BY DEF Handlers
  <2>2. Alone("oauth") /\ pc'["oauth"] = "authorized" /\ mark' = mark /\ todo' = todo
    BY <1>1, <1>7, <2>1 DEF Authorize, Step, locals, TypeOK, Alone
  <2>3. Ready("oauth")
    BY <2>1 DEF BatchesReady
  <2> QED
    BY <1>1, <2>1, <2>2, <2>3, ReadyKept, OthersReady
<1>8. CASE UNCHANGED <<pc, mark, todo>>
  <2>1. ASSUME NEW h \in Handlers PROVE Ready(h)'
    BY <1>1, <1>8, ReadyKept DEF BatchesReady
  <2> QED
    BY <2>1 DEF BatchesReady
<1> QED
  BY <1>2, <1>3, <1>4, <1>5, <1>6, <1>7, <1>8 DEF Work, Environment, Arrive, Expire, Revoke,
     Lose, Leave, vars, locals

LEMMA StepReady ==
    ASSUME SyncInv, BatchesReady, [Next]_vars
    PROVE  BatchesReady'
BY PushReady, CronReady, OtherReady DEF Next

\* A step that touches neither the mailbox, nor what is handled, nor the cursor stands
\* still.
LEMMA Stutter ==
    ASSUME UNCHANGED <<now, place, handled, cursor>>
    PROVE  Contract!Next \/ UNCHANGED Contract!vars
BY DEF Contract!vars

\* What is covered does not wait.
LEMMA CursorStored ==
    ASSUME SyncInv, BatchesReady, NEW h \in Handlers \ {"hourly"}, pc[h] \in {"history", "recent"},
           todo[h] = {}, cursor' = mark[h], UNCHANGED <<now, place, handled>>
    PROVE  Contract!Checkpoint
<1>1. mark[h] \in Nat /\ mark[h] <= now /\ now \in Nat
  BY DEF SyncInv, TypeOK, BatchesReady, Ready
<1>2. \A n \in Messages : n <= mark[h] => Covered(n)
  BY DEF SyncInv, BatchCovers
<1>3. \A n \in Messages : Covered(n) => ~Contract!Waiting(n)
  BY DEF Covered, Contract!Waiting
<1>4. cursor' \in 0..now
  BY <1>1
<1>5. \A n \in Messages : n <= cursor' => ~Contract!Waiting(n)
  BY <1>2, <1>3
<1> QED
  BY <1>4, <1>5 DEF Contract!Checkpoint

\* Every step is a step of the contract or stands still.
LEMMA StepContract ==
    ASSUME SyncInv, BatchesReady, [Next]_vars
    PROVE  Contract!Next \/ UNCHANGED Contract!vars
<1>1. TypeOK
  BY DEF SyncInv
<1>2. ASSUME NEW p \in Pushes, Advance(p) PROVE Contract!Checkpoint
  <2>1. p \in Handlers \ {"hourly"}
    BY SyncAssumption DEF Handlers
  <2> QED
    BY <1>2, <2>1, CursorStored DEF Advance, mailbox
<1>3. CASE StoreWatch
  <2>1. "watch" \in Handlers \ {"hourly"}
    BY DEF Handlers
  <2> QED
    BY <1>3, <2>1, CursorStored DEF StoreWatch, End, Step, mailbox, Contract!Next
<1>4. ASSUME NEW h \in Handlers, NEW n \in Messages, Ingest(h, n)
      PROVE  Contract!Next \/ UNCHANGED Contract!vars
  <2>1. UNCHANGED <<now, place, cursor>> /\ handled' = handled \cup {n}
    BY <1>4 DEF Ingest, mailbox, state
  <2>2. CASE n \in handled
    BY <2>1, <2>2, Stutter
  <2>3. CASE n \notin handled
    <3>1. place[n] # "deleted" /\ n \in todo[h]
      BY <1>4, <2>3 DEF Ingest, Upcoming
    <3>2. place[n] \in {"inbox", "elsewhere"}
      BY <1>1, <3>1 DEF TypeOK, BatchesReady, Ready
    <3> QED
      BY <2>1, <3>2 DEF Contract!Handle, Contract!Next
  <2> QED
    BY <2>2, <2>3
<1>5. CASE Arrive
  <2>1. now + 1 \in Messages
    <3>1. now \in Nat /\ now < NumMessages
      BY <1>1, <1>5, NowType DEF Arrive
    <3> QED
      BY <3>1, SyncAssumption DEF Messages
  <2> QED
    BY <1>5, <2>1 DEF Arrive, state, Contract!Arrive, Contract!Next
<1>6. ASSUME NEW n \in Messages, Leave(n) PROVE Contract!Next
  BY <1>6 DEF Leave, state, Contract!Leave, Contract!Next
<1> QED
  BY <1>2, <1>3, <1>4, <1>5, <1>6, Stutter DEF Next, PushStep, Watch, Hourly, Work, Environment,
     StartPush, ListHistory, ListRecent, Confirm, PushRefreshFails, RenewWatch, ReconcileAll,
     RenewRefreshFails, StartHourly, EndHourly, StoreConnected, Raise, CronRefreshFails, Signal,
     Expire, Revoke, Authorize, Lose, Fail, vars, mailbox, state, Contract!Next

\* The synchronization implements the contract of the mailbox: through every overlap of
\* pushes, renewal, reconciliation and OAuth callback, with any number of failures, a
\* message is handled only while it can be read and for good, and the cursor moves only
\* to places behind which nothing waits.
THEOREM MailboxImplemented == Spec => ImplementsMailboxContract
<1>1. Init => SyncInv /\ BatchesReady
  <2>1. Init => BatchesReady
    BY DEF Init, BatchesReady, Ready
  <2> QED
    BY <2>1, SyncInit
<1>2. SyncInv /\ BatchesReady /\ [Next]_vars => (SyncInv /\ BatchesReady)'
  BY SyncStep, StepReady
<1>3. Init => Contract!Init
  BY DEF Init, Contract!Init
<1>4. SyncInv /\ BatchesReady /\ [Next]_vars => [Contract!Next]_(Contract!vars)
  BY StepContract
<1> QED
  BY <1>1, <1>2, <1>3, <1>4, PTL DEF Spec, ImplementsMailboxContract, Contract!Spec

=============================================================================
