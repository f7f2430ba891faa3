--------------------------- MODULE WeeklySummary ---------------------------
(***************************************************************************)
(* The weekly knowledge base: the scheduler's job claims a week, publishes *)
(* its summary and announces it to the administrator; a user may publish   *)
(* any week at any time.  A publication reads the cases of its week,       *)
(* enters their assumptions into the registry one after the other, has a   *)
(* narrative written, and stores the week's record unless an equal one is  *)
(* there.                                                                  *)
(*                                                                         *)
(* Requests are single threads that interleave at the calls they make; a   *)
(* job whose instance dies leaves its claim behind.  The scheduler may     *)
(* start the job of a week again, for a retry or because it was delivered  *)
(* twice.  The administrator's chat is configured.  Of the aggregate only  *)
(* the assumptions matter here: the counts of statuses and categories, and *)
(* the limit of 5000 cases, are left out.                                  *)
(***************************************************************************)
EXTENDS Integers, FiniteSets

CONSTANTS
    Weeks, Cases, Assumptions, Narratives,
    WeekOf,      \* the week a case was created in
    Assumes,     \* the assumptions that processing a case noted
    Jobs,        \* requests of the scheduler
    Publishers,  \* requests of users
    MaxReviews   \* bound on the decisions about cases

Requests == Jobs \cup Publishers

ASSUME WeeklyAssumption ==
    /\ WeekOf \in [Cases -> Weeks] /\ Assumes \in [Cases -> SUBSET Assumptions]
    /\ Jobs \cap Publishers = {} /\ MaxReviews \in Nat
    /\ {"none"} \cap Weeks = {}

VARIABLES
    created,     \* the cases there are
    approved,    \* those that a reviewer approved
    reviews,     \* decisions so far
    claim,       \* the weeks the scheduler's job has claimed
    record,      \* what is published of a week
    registry,    \* the governed assumptions
    announced,   \* announcements that reached the administrator
    lost,        \* those whose answer was lost
    pc, week,
    agg,         \* the aggregate a request made
    todo,        \* assumptions it has yet to enter
    text         \* the narrative

vars == <<created, approved, reviews, claim, record, registry, announced, lost, pc, week,
          agg, todo, text>>
cases == <<created, approved, reviews>>
stored == <<claim, record, registry>>
chat == <<announced, lost>>

NoAggregate == [cases |-> {}, approved |-> {}]
Unpublished == [status |-> "none", agg |-> NoAggregate, text |-> "none"]
Published(a, t) == [status |-> "published", agg |-> a, text |-> t]
Unknown == [status |-> "none", cases |-> {}]

Assumed(a) == UNION {Assumes[c] : c \in a.cases}

\* The cases that make an assumption, and whether a reviewer approved one of them.
Entry(a, x) == [cases |-> {c \in a.cases : x \in Assumes[c]},
                status |-> IF \E c \in a.approved : x \in Assumes[c] THEN "accepted" ELSE "proposed"]

Init ==
    /\ created = {} /\ approved = {} /\ reviews = 0 /\ claim = {}
    /\ record = [w \in Weeks |-> Unpublished] /\ registry = [x \in Assumptions |-> Unknown]
    /\ announced = [w \in Weeks |-> 0] /\ lost = [w \in Weeks |-> 0]
    /\ pc = [h \in Requests |-> "idle"] /\ week = [h \in Requests |-> "none"]
    /\ agg = [h \in Requests |-> NoAggregate] /\ todo = [h \in Requests |-> {}]
    /\ text = [h \in Requests |-> "none"]

-----------------------------------------------------------------------------
(* A publication *)

Step(h, from, to) == pc[h] = from /\ pc' = [pc EXCEPT ![h] = to]

\* Slip: the job looks for the claim and does not mind finding it.
ClaimAgain(h, w) ==
    /\ h \in Jobs /\ Step(h, "idle", "aggregate")
    /\ claim' = claim \cup {w} /\ week' = [week EXCEPT ![h] = w]
    /\ UNCHANGED <<cases, record, registry, chat, agg, todo, text>>

\* claim_weekly_summary creates the week's claim, or finds it and the job ends.
Claim(h, w) ==
    /\ h \in Jobs /\ Step(h, "idle", IF w \in claim THEN "done" ELSE "aggregate")
    /\ claim' = claim \cup {w} /\ week' = [week EXCEPT ![h] = w]
    /\ UNCHANGED <<cases, record, registry, chat, agg, todo, text>>

Publish(h, w) ==
    /\ h \in Publishers /\ Step(h, "idle", "aggregate") /\ week' = [week EXCEPT ![h] = w]
    /\ UNCHANGED <<cases, stored, chat, agg, todo, text>>

Aggregate(h) ==
    /\ Step(h, "aggregate", "enter")
    /\ LET seen == {c \in created : WeekOf[c] = week[h]}
           a == [cases |-> seen, approved |-> seen \cap approved]
       IN  agg' = [agg EXCEPT ![h] = a] /\ todo' = [todo EXCEPT ![h] = Assumed(a)]
    /\ UNCHANGED <<cases, stored, chat, week, text>>

\* save_assumption replaces the entry, whichever week it was made for.
EnterAssumption(h) ==
    /\ pc[h] = "enter"
    /\ \E x \in todo[h] :
          /\ registry' = [registry EXCEPT ![x] = Entry(agg[h], x)]
          /\ todo' = [todo EXCEPT ![h] = @ \ {x}]
    /\ UNCHANGED <<cases, claim, record, chat, pc, week, agg, text>>

\* A record of the same content is not written again.
Narrate(h) ==
    /\ todo[h] = {}
    /\ \E t \in Narratives :
          /\ text' = [text EXCEPT ![h] = t]
          /\ Step(h, "enter", IF record[week[h]] # Published(agg[h], t) THEN "store"
                              ELSE IF h \in Jobs THEN "announce" ELSE "done")
    /\ UNCHANGED <<cases, stored, chat, week, agg, todo>>

SaveWeek(h) ==
    /\ Step(h, "store", IF h \in Jobs THEN "announce" ELSE "done")
    /\ record' = [record EXCEPT ![week[h]] = Published(agg[h], text[h])]
    /\ UNCHANGED <<cases, claim, registry, chat, week, agg, todo, text>>

-----------------------------------------------------------------------------
(* The announcement, and what may go wrong *)

\* send_message tries a second time, as plain text, whatever went wrong with the first.
Send(h, to) ==
    /\ pc[h] \in {"announce", "again"} /\ pc' = [pc EXCEPT ![h] = to]
    /\ UNCHANGED <<cases, stored, week, agg, todo, text>>

Retried(h) == IF pc[h] = "announce" THEN "again" ELSE "release"

Announce(h) ==
    /\ Send(h, "done") /\ UNCHANGED lost
    /\ announced' = [announced EXCEPT ![week[h]] = @ + 1]

\* The message arrives, its answer does not: to the caller that is a failure.
AnswerLost(h) ==
    /\ Send(h, Retried(h)) /\ lost' = [lost EXCEPT ![week[h]] = @ + 1]
    /\ announced' = [announced EXCEPT ![week[h]] = @ + 1]

SendFails(h) == Send(h, Retried(h)) /\ UNCHANGED chat

\* Another call fails: a job releases its claim before it ends.
Fail(h) ==
    /\ pc[h] \in {"aggregate", "enter", "store"}
    /\ pc' = [pc EXCEPT ![h] = IF h \in Jobs THEN "release" ELSE "done"]
    /\ UNCHANGED <<cases, stored, chat, week, agg, todo, text>>

Release(h) ==
    /\ Step(h, "release", "done") /\ claim' = claim \ {week[h]}
    /\ UNCHANGED <<cases, record, registry, chat, week, agg, todo, text>>

Crash(h) ==
    /\ pc[h] \notin {"idle", "done"} /\ pc' = [pc EXCEPT ![h] = "done"]
    /\ UNCHANGED <<cases, stored, chat, week, agg, todo, text>>

-----------------------------------------------------------------------------
(* The cases *)

Create(c) ==
    /\ c \notin created /\ created' = created \cup {c}
    /\ UNCHANGED <<approved, reviews, stored, chat, pc, week, agg, todo, text>>

\* A case is approved, declined, or retried.
Review(c) ==
    /\ c \in created /\ reviews < MaxReviews /\ reviews' = reviews + 1
    /\ approved' \in {approved \cup {c}, approved \ {c}}
    /\ UNCHANGED <<created, stored, chat, pc, week, agg, todo, text>>

Next ==
    \/ \E h \in Requests, w \in Weeks : Claim(h, w) \/ Publish(h, w)
    \/ \E h \in Requests :
          \/ Aggregate(h) \/ EnterAssumption(h) \/ Narrate(h) \/ SaveWeek(h)
          \/ Announce(h) \/ AnswerLost(h) \/ SendFails(h) \/ Fail(h) \/ Release(h) \/ Crash(h)
    \/ \E c \in Cases : Create(c) \/ Review(c)

Spec == Init /\ [][Next]_vars

-----------------------------------------------------------------------------
(* Properties *)

Aggregates == [cases : SUBSET Cases, approved : SUBSET Cases]

\* Of the code: the records, the registry and the requests have the forms of
\* knowledge_publisher.py.
TypeOK ==
    /\ created \in SUBSET Cases /\ approved \in SUBSET Cases /\ reviews \in Nat
    /\ claim \in SUBSET Weeks
    /\ record \in [Weeks -> [status : {"none", "published"}, agg : Aggregates,
                             text : Narratives \cup {"none"}]]
    /\ registry \in [Assumptions -> [status : {"none", "proposed", "accepted"}, cases : SUBSET Cases]]
    /\ announced \in [Weeks -> Nat] /\ lost \in [Weeks -> Nat]
    /\ pc \in [Requests -> {"idle", "aggregate", "enter", "store", "announce", "again", "release",
                         "done"}]
    /\ week \in [Requests -> Weeks \cup {"none"}] /\ agg \in [Requests -> Aggregates]
    /\ todo \in [Requests -> SUBSET Assumptions] /\ text \in [Requests -> Narratives \cup {"none"}]

\* Of the code: however often the scheduler starts the job of a week, and whatever fails or
\* is published by hand meanwhile, the administrator is told of a week once, unless the
\* answer to an announcement was lost; a week that was announced is published, and of a
\* week that is published every assumption it counts is in the registry.
SummaryStands ==
    \A w \in Weeks :
       /\ announced[w] <= lost[w] + 1
       /\ announced[w] > 0 => record[w].status = "published"
       /\ \A x \in Assumed(record[w].agg) : registry[x].status # "none"

=============================================================================
