----------------------------- MODULE GmailSync ------------------------------
(***************************************************************************)
(* How messages get from the Gmail mailbox into the case pipeline: pushes  *)
(* about new messages, the daily renewal of the watch and the hourly       *)
(* reconciliation, with the history cursor and the OAuth status that they  *)
(* share in gmail_state.                                                   *)
(*                                                                         *)
(* Message n is the n-th to arrive and n is its history id.  A handler is  *)
(* a request to the worker (a push or a cron job) or the OAuth callback of *)
(* the API; each of its steps is one call to Gmail or Firestore, and all   *)
(* of them interleave.  Ingesting one message is one step: CasePipeline    *)
(* models what happens inside it.                                          *)
(***************************************************************************)
EXTENDS Integers, FiniteSets

CONSTANTS
    Pushes,        \* instances that handle push notifications
    NumMessages,   \* bound on the messages that arrive
    Rejectable,    \* messages that may have an attachment larger than max_upload_bytes
    HourlyLimit,   \* gmail_reconcile_limit
    MaxMishaps     \* bound on what goes wrong: requests that fail, lost notifications,
                   \* forgotten history, messages that leave the inbox, revoked tokens

Messages == 1..NumMessages
Handlers == Pushes \cup {"watch", "hourly", "oauth"}
NoCursor == -1

ASSUME SyncAssumption ==
    /\ Pushes \cap {"watch", "hourly", "oauth"} = {}
    /\ NumMessages \in Nat /\ HourlyLimit \in Nat /\ MaxMishaps \in Nat
    /\ Rejectable \subseteq Messages

VARIABLES
    \* Gmail
    now,        \* the newest message, and the history id of the mailbox
    place,      \* of each message: to come, inbox (the query returns it), elsewhere, deleted
    horizon,    \* the oldest cursor history.list still answers
    token,      \* does the refresh token work?
    rejected,   \* messages with an attachment that large: no ingestion accepts them
    \* Pub/Sub
    notes,      \* notifications not acknowledged
    \* Firestore
    cursor,     \* gmail_state.history_id
    oauth,      \* gmail_state.oauth_status
    handled,    \* messages that have a case, or were skipped as their sender was blocked
    \* handlers
    pc,
    note,       \* the history id of the notification handled
    mark,       \* the cursor read, later the cursor to be stored
    todo,       \* messages still to be handled
    mishaps     \* how often something went wrong

mailbox == <<now, place, horizon, token, rejected>>
state == <<cursor, oauth>>
locals == <<note, mark, todo>>
vars == <<mailbox, notes, state, handled, pc, locals, mishaps>>

Init ==
    /\ now = 0 /\ place = [n \in Messages |-> "to come"] /\ horizon = 0 /\ token = TRUE
    /\ rejected \in SUBSET Rejectable
    /\ notes = {} /\ cursor = NoCursor /\ oauth = "connected"
    /\ handled = {} /\ mishaps = 0
    /\ pc = [h \in Handlers |-> "idle"] /\ note = [h \in Handlers |-> 0]
    /\ mark = [h \in Handlers |-> NoCursor] /\ todo = [h \in Handlers |-> {}]

-----------------------------------------------------------------------------
Step(h, from, to) == pc[h] = from /\ pc' = [pc EXCEPT ![h] = to]

\* A request that ends forgets its locals.
End(h, from) ==
    /\ Step(h, from, "idle")
    /\ note' = [note EXCEPT ![h] = 0] /\ mark' = [mark EXCEPT ![h] = NoCursor]
    /\ todo' = [todo EXCEPT ![h] = {}]

\* What the query for the label returns.
Listed == {n \in Messages : place[n] = "inbox"}

\* The k newest messages of a list.
Newest(S, k) == {n \in S : Cardinality({m \in S : m > n}) < k}

-----------------------------------------------------------------------------
(* process_gmail_notification *)

\* The cursor is read.
StartPush(p, n) ==
    /\ n \in notes
    /\ Step(p, "idle", "list")
    /\ note' = [note EXCEPT ![p] = n] /\ mark' = [mark EXCEPT ![p] = cursor]
    /\ UNCHANGED <<mailbox, notes, state, handled, todo, mishaps>>

\* All pages of history.list: what was added after the cursor, and where the
\* mailbox is now.
ListHistory(p) ==
    /\ token /\ mark[p] # NoCursor /\ mark[p] >= horizon
    /\ Step(p, "list", "history")
    /\ todo' = [todo EXCEPT ![p] = {n \in Messages : mark[p] < n /\ n <= now}]
    /\ mark' = [mark EXCEPT ![p] = now]
    /\ UNCHANGED <<mailbox, notes, state, handled, note, mishaps>>

\* No cursor yet, or 404: all that the query returns is handled again, and the
\* cursor is to be the history id of the notification.
ListRecent(p) ==
    /\ token /\ (mark[p] = NoCursor \/ mark[p] < horizon)
    /\ Step(p, "list", "recent")
    /\ todo' = [todo EXCEPT ![p] = Listed]
    /\ mark' = [mark EXCEPT ![p] = note[p]]
    /\ UNCHANGED <<mailbox, notes, state, handled, note, mishaps>>

\* Slip: the cursor is stored one too far.
AdvanceTooFar(p) ==
    /\ p \in Pushes
    /\ todo[p] = {}
    /\ pc[p] \in {"history", "recent"}
    /\ pc' = [pc EXCEPT ![p] = "confirm"]
    /\ cursor' = mark[p] + 1
    /\ UNCHANGED <<mailbox, notes, oauth, handled, locals, mishaps>>

\* Slip: the cursor is stored before the messages are handled.
AdvanceEarly(p) ==
    /\ p \in Pushes
    /\ pc[p] \in {"history", "recent"}
    /\ pc' = [pc EXCEPT ![p] = "confirm"]
    /\ cursor' = mark[p]
    /\ UNCHANGED <<mailbox, notes, oauth, handled, locals, mishaps>>

\* Only when all of them are handled is the cursor stored.
Advance(p) ==
    /\ p \in Pushes
    /\ todo[p] = {}
    /\ pc[p] \in {"history", "recent"}
    /\ pc' = [pc EXCEPT ![p] = "confirm"]
    /\ cursor' = mark[p]
    /\ UNCHANGED <<mailbox, notes, oauth, handled, locals, mishaps>>

\* The status is stored and the notification acknowledged.
Confirm(p) ==
    /\ oauth' = "connected"
    /\ notes' = notes \ {note[p]}
    /\ End(p, "confirm")
    /\ UNCHANGED <<mailbox, cursor, handled, mishaps>>

-----------------------------------------------------------------------------
(* The cron jobs *)

\* renew_watch answers with the history id of the mailbox.
RenewWatch ==
    /\ token
    /\ Step("watch", "idle", "renewed")
    /\ mark' = [mark EXCEPT !["watch"] = now]
    /\ UNCHANGED <<mailbox, notes, state, handled, note, todo, mishaps>>

\* Slip: the hourly limit applies to the daily job as well.
ReconcileNewest ==
    /\ token
    /\ Step("watch", "renewed", "recent")
    /\ todo' = [todo EXCEPT !["watch"] = Newest(Listed, HourlyLimit)]
    /\ UNCHANGED <<mailbox, notes, state, handled, note, mark, mishaps>>

\* Then all that the query returns is handled ...
ReconcileAll ==
    /\ token
    /\ Step("watch", "renewed", "recent")
    /\ todo' = [todo EXCEPT !["watch"] = Listed]
    /\ UNCHANGED <<mailbox, notes, state, handled, note, mark, mishaps>>

\* Slip: the status is left alone.
StoreCursorOnly ==
    /\ todo["watch"] = {}
    /\ cursor' = mark["watch"]
    /\ End("watch", "recent")
    /\ UNCHANGED <<mailbox, notes, oauth, handled, mishaps>>

\* ... before cursor, expiration and status are stored.
StoreWatch ==
    /\ todo["watch"] = {}
    /\ cursor' = mark["watch"] /\ oauth' = "connected"
    /\ End("watch", "recent")
    /\ UNCHANGED <<mailbox, notes, handled, mishaps>>

\* The hourly job ingests the newest messages and leaves gmail_state alone.
StartHourly ==
    /\ token
    /\ Step("hourly", "idle", "recent")
    /\ todo' = [todo EXCEPT !["hourly"] = Newest(Listed, HourlyLimit)]
    /\ UNCHANGED <<mailbox, notes, state, handled, note, mark, mishaps>>

EndHourly ==
    /\ todo["hourly"] = {}
    /\ End("hourly", "recent")
    /\ UNCHANGED <<mailbox, notes, state, handled, mishaps>>

-----------------------------------------------------------------------------
(* ingest_gmail_message *)

\* The message a handler looks at next: messages.list returns the newest first, the
\* order of history ids is not known to be that of the sorted message ids.
Upcoming(h, n) ==
    /\ n \in todo[h]
    /\ \/ pc[h] = "history"
       \/ pc[h] = "recent" /\ \A m \in todo[h] : m <= n

\* A case is made, unless the sender is blocked or an attachment too large; nothing
\* happens if there is a finished case.
Ingest(h, n) ==
    /\ Upcoming(h, n)
    /\ \/ token /\ place[n] # "deleted"
       \/ n \in handled
    /\ handled' = handled \cup {n}
    /\ todo' = [todo EXCEPT ![h] = @ \ {n}]
    /\ UNCHANGED <<mailbox, notes, state, pc, note, mark, mishaps>>

\* The message is gone or cannot be handled: the request fails, now and whenever
\* it comes back to this message.
Raise(h, n) ==
    /\ Upcoming(h, n)
    /\ token /\ (place[n] = "deleted" \/ n \in rejected)
    /\ End(h, pc[h])
    /\ UNCHANGED <<mailbox, notes, state, handled, mishaps>>

-----------------------------------------------------------------------------
(* RefreshError *)

\* A push that meets it at any Gmail call signals the outage.
PushRefreshFails(p) ==
    /\ ~token
    /\ \/ pc[p] = "list"
       \/ pc[p] \in {"history", "recent"} /\ todo[p] # {}
    /\ pc' = [pc EXCEPT ![p] = "signal"]
    /\ UNCHANGED <<mailbox, notes, state, handled, locals, mishaps>>

\* Slip: the renewal fails like the hourly job.
RenewFails ==
    /\ ~token
    /\ Step("watch", "idle", "idle")
    /\ UNCHANGED <<mailbox, notes, state, handled, locals, mishaps>>

\* So does the renewal of the watch ...
RenewRefreshFails ==
    /\ ~token
    /\ Step("watch", "idle", "signal")
    /\ UNCHANGED <<mailbox, notes, state, handled, locals, mishaps>>

\* ... but not the reconciliation after it, nor the hourly job: they fail.
CronRefreshFails(h) ==
    /\ ~token
    /\ h \in {"watch", "hourly"}
    /\ pc[h] = "renewed" \/ (pc[h] = "recent" /\ todo[h] # {})
    /\ End(h, pc[h])
    /\ UNCHANGED <<mailbox, notes, state, handled, mishaps>>

\* The administrator is told, the status is stored and the notification acknowledged.
Signal(h) ==
    /\ oauth' = "reconnect_required"
    /\ notes' = notes \ {note[h]}
    /\ End(h, "signal")
    /\ UNCHANGED <<mailbox, cursor, handled, mishaps>>

\* The OAuth callback: a new refresh token, which every later call uses ...
Authorize ==
    /\ ~token
    /\ token' = TRUE
    /\ Step("oauth", "idle", "authorized")
    /\ UNCHANGED <<now, place, horizon, rejected, notes, state, handled, locals, mishaps>>

\* ... then the status.
StoreConnected ==
    /\ oauth' = "connected"
    /\ End("oauth", "authorized")
    /\ UNCHANGED <<mailbox, notes, cursor, handled, mishaps>>

-----------------------------------------------------------------------------
(* Gmail, Pub/Sub and failures *)

Mishap == mishaps < MaxMishaps /\ mishaps' = mishaps + 1

Arrive ==
    /\ now < NumMessages
    /\ now' = now + 1
    /\ place' = [place EXCEPT ![now + 1] = "inbox"]
    /\ notes' = notes \cup {now + 1}
    /\ UNCHANGED <<horizon, token, rejected, state, handled, pc, locals, mishaps>>

\* A notification is lost, or its five attempts are over.
Lose(n) ==
    /\ n \in notes
    /\ notes' = notes \ {n}
    /\ Mishap
    /\ UNCHANGED <<mailbox, state, handled, pc, locals>>

\* A message gets older than 30 days or is moved away, or is deleted.
Leave(n) ==
    /\ \/ place[n] = "inbox" /\ place' = [place EXCEPT ![n] = "elsewhere"]
       \/ place[n] \in {"inbox", "elsewhere"} /\ place' = [place EXCEPT ![n] = "deleted"]
    /\ Mishap
    /\ UNCHANGED <<now, horizon, token, rejected, notes, state, handled, pc, locals>>

\* Gmail forgets old history.
Expire ==
    /\ horizon < now
    /\ horizon' = now
    /\ Mishap
    /\ UNCHANGED <<now, place, token, rejected, notes, state, handled, pc, locals>>

Revoke ==
    /\ token
    /\ token' = FALSE
    /\ Mishap
    /\ UNCHANGED <<now, place, horizon, rejected, notes, state, handled, pc, locals>>

\* 429, 5xx, a timeout, or the instance dies.
Fail(h) ==
    /\ pc[h] # "idle"
    /\ Mishap
    /\ End(h, pc[h])
    /\ UNCHANGED <<mailbox, notes, state, handled>>

-----------------------------------------------------------------------------
PushStep(p) ==
    \/ \E n \in Messages : StartPush(p, n)
    \/ ListHistory(p) \/ ListRecent(p) \/ Advance(p) \/ Confirm(p) \/ PushRefreshFails(p)

Watch == RenewWatch \/ ReconcileAll \/ StoreWatch \/ RenewRefreshFails

Hourly == StartHourly \/ EndHourly

Work(h) ==
    \/ \E n \in Messages : Ingest(h, n) \/ Raise(h, n)
    \/ CronRefreshFails(h) \/ Signal(h)

Environment ==
    \/ Arrive \/ Expire \/ Revoke \/ Authorize
    \/ \E n \in Messages : Lose(n) \/ Leave(n)
    \/ \E h \in Handlers : Fail(h)

Next ==
    \/ \E p \in Pushes : PushStep(p)
    \/ Watch \/ Hourly \/ StoreConnected
    \/ \E h \in Handlers : Work(h)
    \/ Environment

Spec == Init /\ [][Next]_vars

\* Every request ends; the scheduler starts the daily job; the rest may never happen.
Fairness ==
    /\ WF_vars(Watch) /\ WF_vars(StoreConnected)
    /\ \A p \in Pushes : WF_vars(PushStep(p))
    /\ \A h \in Handlers : WF_vars(Work(h))

FairSpec == Spec /\ Fairness

-----------------------------------------------------------------------------
(* Properties *)

PcStates == {"idle", "list", "history", "recent", "confirm", "renewed", "signal", "authorized"}

\* Every variable has its type, and no cursor, notification or request is ahead of
\* the mailbox.
TypeOK ==
    /\ now \in Nat /\ now <= NumMessages /\ horizon \in Nat /\ token \in BOOLEAN
    /\ place \in [Messages -> {"to come", "inbox", "elsewhere", "deleted"}]
    /\ rejected \subseteq Rejectable /\ notes \subseteq Messages
    /\ cursor \in Int /\ oauth \in {"connected", "reconnect_required"}
    /\ handled \subseteq Messages /\ mishaps \in Nat
    /\ pc \in [Handlers -> PcStates] /\ note \in [Handlers -> Nat]
    /\ mark \in [Handlers -> Int] /\ todo \in [Handlers -> SUBSET Messages]
    /\ cursor <= now /\ \A n \in notes : n <= now
    /\ \A h \in Handlers : note[h] <= now /\ mark[h] <= now

\* The sync need not see message n again.
Covered(n) == n \in handled \/ place[n] \in {"elsewhere", "deleted"}

\* No message is lost behind the cursor, however pushes, renewals, failures and
\* expired cursors interleave: what is behind it has a case, was skipped for its
\* sender, or had left the inbox before anyone looked.
CursorCovers == \A n \in Messages : n <= cursor => Covered(n)

\* What a reader of the mailbox may rely on: whatever requests overlap, fail or are
\* repeated, a message is handled only after it arrived and while it could be read, is
\* never forgotten, and the stored cursor only moves to a place that exists and behind
\* which nothing waits; it is never cleared.
Contract == INSTANCE MailboxContract

ImplementsMailboxContract == Contract!Spec

\* A message in the inbox is handled in the end, even if every notification about
\* it is lost, as long as the token works and no message that cannot be handled,
\* itself or a newer one, is in the inbox.
EveryMessageHandled ==
    \A n \in Messages :
        []<>(\/ n \in handled \/ place[n] # "inbox" \/ ~token
             \/ \E r \in rejected : r >= n /\ place[r] = "inbox")

\* A token that stays revoked is reported for good in the end, though requests that
\* began before the outage may still store "connected".
OutageReported == (<>[]~token) => <>[](oauth = "reconnect_required")

\* After a reconnection "connected" stays in the end, though requests of the outage
\* may still store "reconnect_required"; a message that cannot be handled, while in
\* the inbox, keeps the daily job from saying so.
RecoveryReported ==
    <>[](token /\ \A r \in rejected : place[r] # "inbox") => <>[](oauth = "connected")

=============================================================================
