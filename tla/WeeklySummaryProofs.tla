------------------------ MODULE WeeklySummaryProofs ------------------------
(***************************************************************************)
(* The types of WeeklySummary and SummaryStands, for any number of weeks,  *)
(* cases, jobs and publications.                                           *)
(*                                                                         *)
(* A job at work owns the claim of its week alone (ClaimInv).  While it    *)
(* does, and while nobody does, every announcement of the week is one      *)
(* whose answer was lost (CountInv); it announces what is published        *)
(* (RecordInv), and what it has not yet to enter is in the registry        *)
(* (RegistryInv), which forgets nothing.                                   *)
(***************************************************************************)
EXTENDS WeeklySummary, TLAPS

Busy == {"aggregate", "enter", "store", "announce", "again", "release"}

ClaimInv ==
    /\ \A h \in Requests : pc[h] \in Busy => week[h] \in Weeks
    /\ \A h \in Jobs : pc[h] \in Busy => week[h] \in claim
    /\ \A g, h \in Jobs : pc[g] \in Busy /\ pc[h] \in Busy /\ week[g] = week[h] => g = h
    /\ \A p \in Publishers : pc[p] \notin {"announce", "again", "release"}

CountInv ==
    /\ \A w \in Weeks : announced[w] <= lost[w] + 1
    /\ \A w \in Weeks \ claim : announced[w] <= lost[w]
    /\ \A h \in Jobs : pc[h] \in Busy => announced[week[h]] <= lost[week[h]]

RecordInv ==
    /\ \A h \in Requests : pc[h] \in {"announce", "again"} => record[week[h]].status = "published"
    /\ \A w \in Weeks : announced[w] > 0 => record[w].status = "published"

Known(X) == \A x \in X : registry[x].status # "none"

RegistryInv ==
    /\ \A h \in Requests : pc[h] \in {"enter", "store"} => Known(Assumed(agg[h]) \ todo[h])
    /\ \A h \in Requests : pc[h] = "store" => todo[h] = {}
    /\ \A w \in Weeks : Known(Assumed(record[w].agg))

-----------------------------------------------------------------------------
(* Types *)

LEMMA AssumedType ==
    ASSUME NEW a \in Aggregates
    PROVE  Assumed(a) \in SUBSET Assumptions
BY WeeklyAssumption DEF Assumed, Aggregates

LEMMA EntryType ==
    ASSUME NEW a \in Aggregates, NEW x \in Assumptions
    PROVE  /\ Entry(a, x) \in [status : {"none", "proposed", "accepted"}, cases : SUBSET Cases]
           /\ Entry(a, x).status # "none"
BY DEF Entry, Aggregates

LEMMA CountOne ==
    ASSUME NEW f \in [Weeks -> Nat], NEW w
    PROVE  [f EXCEPT ![w] = f[w] + 1] \in [Weeks -> Nat]
<1> DEFINE g == [f EXCEPT ![w] = f[w] + 1]
<1>1. ASSUME NEW v \in Weeks PROVE g[v] \in Nat
  <2>1. CASE v = w
    <3>1. f[v] + 1 \in Nat
      OBVIOUS
    <3> QED
      BY <2>1, <3>1
  <2>2. CASE v # w
    BY <2>2
  <2> QED
    BY <2>1, <2>2
<1>2. g = [v \in Weeks |-> g[v]]
  OBVIOUS
<1> HIDE DEF g
<1> QED
  BY <1>1, <1>2 DEF g

LEMMA NextType == TypeOK /\ [Next]_vars => TypeOK'
<1> SUFFICES ASSUME TypeOK, [Next]_vars PROVE TypeOK'
  OBVIOUS
<1> USE DEF TypeOK
<1>1. ASSUME NEW h \in Requests, NEW w \in Weeks, Claim(h, w) PROVE TypeOK'
  BY <1>1 DEF Claim, Step, cases, chat
<1>2. ASSUME NEW h \in Requests, NEW w \in Weeks, Publish(h, w) PROVE TypeOK'
  BY <1>2 DEF Publish, Step, cases, stored, chat
<1>3. ASSUME NEW h \in Requests, Aggregate(h) PROVE TypeOK'
  <2> DEFINE seen == {c \in created : WeekOf[c] = week[h]}
             a == [cases |-> seen, approved |-> seen \cap approved]
  <2>1. a \in Aggregates
    BY DEF Aggregates
  <2>2. Assumed(a) \in SUBSET Assumptions
    BY <2>1, AssumedType
  <2>3. agg' = [agg EXCEPT ![h] = a] /\ todo' = [todo EXCEPT ![h] = Assumed(a)]
    BY <1>3 DEF Aggregate
  <2> HIDE DEF a
  <2>4. agg' \in [Requests -> Aggregates] /\ todo' \in [Requests -> SUBSET Assumptions]
    BY <2>1, <2>2, <2>3
  <2> QED
    BY <1>3, <2>4 DEF Aggregate, Step, cases, stored, chat
<1>4. ASSUME NEW h \in Requests, EnterAssumption(h) PROVE TypeOK'
  <2>1. PICK x \in todo[h] : /\ registry' = [registry EXCEPT ![x] = Entry(agg[h], x)]
                             /\ todo' = [todo EXCEPT ![h] = @ \ {x}]
    BY <1>4 DEF EnterAssumption
  <2>2. Entry(agg[h], x) \in [status : {"none", "proposed", "accepted"}, cases : SUBSET Cases]
    BY EntryType
  <2> QED
    BY <1>4, <2>1, <2>2 DEF EnterAssumption, cases, chat
<1>5. ASSUME NEW h \in Requests, Narrate(h) PROVE TypeOK'
  BY <1>5 DEF Narrate, Step, cases, stored, chat
<1>6. ASSUME NEW h \in Requests, SaveWeek(h) PROVE TypeOK'
  <2>1. Published(agg[h], text[h]) \in [status : {"none", "published"}, agg : Aggregates,
                                       text : Narratives \cup {"none"}]
    BY DEF Published
  <2> QED
    BY <1>6, <2>1 DEF SaveWeek, Step, cases, chat
<1>7. ASSUME NEW h \in Requests, Announce(h) PROVE TypeOK'
  <2>1. announced' \in [Weeks -> Nat]
    BY <1>7, CountOne DEF Announce
  <2> QED
    BY <1>7, <2>1 DEF Announce, Send, cases, stored
<1>8. ASSUME NEW h \in Requests, AnswerLost(h) PROVE TypeOK'
  <2>1. announced' \in [Weeks -> Nat] /\ lost' \in [Weeks -> Nat]
    BY <1>8, CountOne DEF AnswerLost
  <2> QED
    BY <1>8, <2>1 DEF AnswerLost, Send, Retried, cases, stored
<1>9. ASSUME NEW h \in Requests, SendFails(h) PROVE TypeOK'
  BY <1>9 DEF SendFails, Send, Retried, cases, stored, chat
<1>10. ASSUME NEW h \in Requests, Fail(h) \/ Crash(h) PROVE TypeOK'
  BY <1>10 DEF Fail, Crash, cases, stored, chat
<1>11. ASSUME NEW h \in Requests, Release(h) PROVE TypeOK'
  BY <1>11 DEF Release, Step, cases, chat
<1>12. ASSUME NEW c \in Cases, Create(c) \/ Review(c) PROVE TypeOK'
  <2>1. reviews' \in Nat
    BY <1>12 DEF Create, Review
  <2> QED
    BY <1>12, <2>1 DEF Create, Review, stored, chat
<1>13. ASSUME UNCHANGED vars PROVE TypeOK'
  BY <1>13 DEF vars
<1> QED
  BY <1>1, <1>2, <1>3, <1>4, <1>5, <1>6, <1>7, <1>8, <1>9, <1>10, <1>11, <1>12, <1>13 DEF Next

\* Of the code: the records, the registry and the requests have the forms of
\* knowledge_publisher.py.
THEOREM TypeCorrect == Spec => []TypeOK
<1>1. Init => TypeOK
  BY DEF Init, TypeOK, Unpublished, Unknown, NoAggregate, Aggregates
<1> QED
  BY <1>1, NextType, PTL DEF Spec

-----------------------------------------------------------------------------
(* The claim *)

LEMMA NextClaim == TypeOK /\ ClaimInv /\ [Next]_vars => ClaimInv'
<1> SUFFICES ASSUME TypeOK, ClaimInv, [Next]_vars PROVE ClaimInv'
  OBVIOUS
<1> USE DEF ClaimInv, Busy, TypeOK, Requests
<1>1. ASSUME NEW h \in Requests, NEW w \in Weeks, Claim(h, w) PROVE ClaimInv'
  BY <1>1, WeeklyAssumption DEF Claim, Step
<1>2. ASSUME NEW h \in Requests, NEW w \in Weeks, Publish(h, w) PROVE ClaimInv'
  BY <1>2, WeeklyAssumption DEF Publish, Step, stored
<1>3. ASSUME NEW h \in Requests, Aggregate(h) PROVE ClaimInv'
  BY <1>3 DEF Aggregate, Step, stored
<1>4. ASSUME NEW h \in Requests, EnterAssumption(h) PROVE ClaimInv'
  BY <1>4 DEF EnterAssumption
<1>5. ASSUME NEW h \in Requests, Narrate(h) PROVE ClaimInv'
  BY <1>5, WeeklyAssumption DEF Narrate, Step, stored
<1>6. ASSUME NEW h \in Requests, SaveWeek(h) PROVE ClaimInv'
  BY <1>6, WeeklyAssumption DEF SaveWeek, Step
<1>7. ASSUME NEW h \in Requests, Announce(h) \/ AnswerLost(h) \/ SendFails(h) PROVE ClaimInv'
  BY <1>7 DEF Announce, AnswerLost, SendFails, Send, Retried, stored
<1>8. ASSUME NEW h \in Requests, Fail(h) \/ Crash(h) PROVE ClaimInv'
  BY <1>8, WeeklyAssumption DEF Fail, Crash, stored
<1>9. ASSUME NEW h \in Requests, Release(h) PROVE ClaimInv'
  BY <1>9 DEF Release, Step
<1>10. ASSUME NEW c \in Cases, Create(c) \/ Review(c) PROVE ClaimInv'
  BY <1>10 DEF Create, Review, stored
<1>11. ASSUME UNCHANGED vars PROVE ClaimInv'
  BY <1>11 DEF vars, stored
<1> QED
  BY <1>1, <1>2, <1>3, <1>4, <1>5, <1>6, <1>7, <1>8, <1>9, <1>10, <1>11 DEF Next

-----------------------------------------------------------------------------
(* The announcements *)

\* The announcements of a week and the owners of its claim stay as they are.
LEMMA QuietCount ==
    ASSUME CountInv, UNCHANGED <<announced, lost>>,
           \A w \in Weeks \ claim' : w \notin claim \/ announced[w] <= lost[w],
           \A h \in Jobs : pc'[h] \in Busy => announced[week'[h]] <= lost[week'[h]]
    PROVE  CountInv'
BY DEF CountInv

LEMMA NextCount == TypeOK /\ ClaimInv /\ CountInv /\ [Next]_vars => CountInv'
<1> SUFFICES ASSUME TypeOK, ClaimInv, CountInv, [Next]_vars PROVE CountInv'
  OBVIOUS
<1> USE DEF Busy, TypeOK, Requests
<1>1. ASSUME NEW h \in Requests, NEW w \in Weeks, Claim(h, w) PROVE CountInv'
  <2>1. UNCHANGED <<announced, lost>> /\ claim \subseteq claim'
    BY <1>1 DEF Claim, chat
  <2>2. \A g \in Jobs : pc'[g] \in Busy => announced[week'[g]] <= lost[week'[g]]
    <3> SUFFICES ASSUME NEW g \in Jobs, pc'[g] \in Busy
                 PROVE  announced[week'[g]] <= lost[week'[g]]
      OBVIOUS
    <3>1. CASE g = h
      BY <1>1, <3>1 DEF Claim, Step, CountInv
    <3>2. CASE g # h
      BY <1>1, <3>2 DEF Claim, Step, CountInv
    <3> QED
      BY <3>1, <3>2
  <2> QED
    BY <2>1, <2>2, QuietCount
<1>2. ASSUME NEW h \in Requests, NEW w \in Weeks, Publish(h, w) PROVE CountInv'
  <2>1. UNCHANGED <<announced, lost, claim>>
    BY <1>2 DEF Publish, chat, stored
  <2>2. \A g \in Jobs : pc'[g] = pc[g] /\ week'[g] = week[g]
    BY <1>2, WeeklyAssumption DEF Publish, Step
  <2> QED
    BY <2>1, <2>2, QuietCount DEF CountInv
<1>3. ASSUME NEW h \in Requests,
             Aggregate(h) \/ EnterAssumption(h) \/ Narrate(h) \/ SaveWeek(h) \/ SendFails(h)
                \/ Fail(h) \/ Crash(h)
      PROVE  CountInv'
  <2>1. UNCHANGED <<announced, lost, claim, week>>
    BY <1>3 DEF Aggregate, EnterAssumption, Narrate, SaveWeek, SendFails, Send, Fail, Crash, chat, stored
  <2>2. \A g \in Jobs : pc'[g] \in Busy => pc[g] \in Busy
    BY <1>3 DEF Aggregate, EnterAssumption, Narrate, SaveWeek, SendFails, Send, Fail, Crash, Step
  <2> QED
    BY <2>1, <2>2, QuietCount DEF CountInv
<1>4. ASSUME NEW h \in Requests, Announce(h) \/ AnswerLost(h) PROVE CountInv'
  <2>1. h \in Jobs /\ pc[h] \in Busy /\ week[h] \in Weeks /\ week[h] \in claim
    BY <1>4 DEF Announce, AnswerLost, Send, ClaimInv
  <2>2. UNCHANGED <<claim, week>>
    BY <1>4 DEF Announce, AnswerLost, Send, stored
  <2>3. \A g \in Jobs : pc'[g] \in Busy => pc[g] \in Busy
    BY <1>4 DEF Announce, AnswerLost, Send
  <2>4. announced[week[h]] <= lost[week[h]]
    BY <2>1 DEF CountInv
  <2>5. \A w \in Weeks \ {week[h]} : announced'[w] = announced[w] /\ lost'[w] = lost[w]
    BY <1>4 DEF Announce, AnswerLost
  <2>6. \A g \in Jobs \ {h} : pc[g] \in Busy => week[g] \in Weeks \ {week[h]}
    BY <2>1 DEF ClaimInv
  <2>7. announced'[week[h]] = announced[week[h]] + 1
    BY <1>4, <2>1 DEF Announce, AnswerLost
  <2>8. CASE Announce(h)
    <3>1. lost'[week[h]] = lost[week[h]] /\ pc'[h] = "done"
      BY <2>8 DEF Announce, Send
    <3>2. announced'[week[h]] <= lost'[week[h]] + 1
      BY <2>1, <2>4, <2>7, <3>1
    <3> QED
      BY <2>1, <2>2, <2>3, <2>5, <2>6, <3>1, <3>2 DEF CountInv
  <2>9. CASE AnswerLost(h)
    <3>1. lost'[week[h]] = lost[week[h]] + 1
      BY <2>1, <2>9 DEF AnswerLost
    <3>2. announced'[week[h]] <= lost'[week[h]] /\ announced'[week[h]] <= lost'[week[h]] + 1
      BY <2>1, <2>4, <2>7, <3>1
    <3> QED
      BY <2>1, <2>2, <2>3, <2>5, <2>6, <3>2 DEF CountInv
  <2> QED
    BY <1>4, <2>8, <2>9
<1>5. ASSUME NEW h \in Requests, Release(h) PROVE CountInv'
  <2>1. UNCHANGED <<announced, lost, week>> /\ claim' = claim \ {week[h]}
    BY <1>5 DEF Release, chat
  <2>2. \A g \in Jobs : pc'[g] \in Busy => pc[g] \in Busy
    BY <1>5 DEF Release, Step
  <2>3. h \in Jobs /\ pc[h] \in Busy
    BY <1>5 DEF Release, Step, ClaimInv
  <2>4. announced[week[h]] <= lost[week[h]]
    BY <2>3 DEF CountInv
  <2> QED
    BY <2>1, <2>2, <2>4, QuietCount DEF CountInv
<1>6. ASSUME NEW c \in Cases, Create(c) \/ Review(c) PROVE CountInv'
  BY <1>6 DEF Create, Review, stored, chat, CountInv
<1>7. ASSUME UNCHANGED vars PROVE CountInv'
  BY <1>7 DEF vars, stored, chat, CountInv
<1> QED
  BY <1>1, <1>2, <1>3, <1>4, <1>5, <1>6, <1>7 DEF Next

-----------------------------------------------------------------------------
(* The record and the registry *)

LEMMA NextRecord == TypeOK /\ ClaimInv /\ RecordInv /\ [Next]_vars => RecordInv'
<1> SUFFICES ASSUME TypeOK, ClaimInv, RecordInv, [Next]_vars PROVE RecordInv'
  OBVIOUS
<1> USE DEF TypeOK, RecordInv
<1>1. ASSUME NEW h \in Requests, NEW w \in Weeks, Claim(h, w) \/ Publish(h, w) PROVE RecordInv'
  <2>1. UNCHANGED <<announced, record>>
    BY <1>1 DEF Claim, Publish, chat, stored
  <2>2. \A g \in Requests : pc'[g] \in {"announce", "again"} => pc[g] = pc'[g] /\ week'[g] = week[g]
    BY <1>1 DEF Claim, Publish, Step
  <2> QED
    BY <2>1, <2>2
<1>2. ASSUME NEW h \in Requests,
             Aggregate(h) \/ EnterAssumption(h) \/ SendFails(h) \/ Fail(h) \/ Crash(h) \/ Release(h)
      PROVE  RecordInv'
  <2>1. UNCHANGED <<announced, record, week>>
    BY <1>2 DEF Aggregate, EnterAssumption, SendFails, Send, Fail, Crash, Release, chat, stored
  <2>2. \A g \in Requests : pc'[g] \in {"announce", "again"} => pc[g] \in {"announce", "again"}
    BY <1>2 DEF Aggregate, EnterAssumption, SendFails, Send, Retried, Fail, Crash, Release, Step
  <2> QED
    BY <2>1, <2>2
<1>3. ASSUME NEW h \in Requests, Narrate(h) PROVE RecordInv'
  <2>1. UNCHANGED <<announced, record, week>>
    BY <1>3 DEF Narrate, chat, stored
  <2>2. pc'[h] \in {"announce", "again"} => record[week[h]].status = "published"
    BY <1>3 DEF Narrate, Step, Published
  <2>3. \A g \in Requests \ {h} : pc'[g] = pc[g]
    BY <1>3 DEF Narrate, Step
  <2> QED
    BY <2>1, <2>2, <2>3
<1>4. ASSUME NEW h \in Requests, SaveWeek(h) PROVE RecordInv'
  <2>1. UNCHANGED <<announced, week>> /\ \A g \in Requests \ {h} : pc'[g] = pc[g]
    BY <1>4 DEF SaveWeek, chat, Step
  <2>2. week[h] \in Weeks
    BY <1>4 DEF SaveWeek, Step, ClaimInv, Busy
  <2>3. /\ record'[week[h]].status = "published"
        /\ \A w \in Weeks : record'[w] = record[w] \/ record'[w].status = "published"
    BY <1>4, <2>2 DEF SaveWeek, Published
  <2>4. \A g \in Requests : pc[g] \in {"announce", "again"} => week[g] \in Weeks
    BY DEF ClaimInv, Busy
  <2> QED
    BY <2>1, <2>2, <2>3, <2>4
<1>5. ASSUME NEW h \in Requests, Announce(h) \/ AnswerLost(h) PROVE RecordInv'
  <2>1. UNCHANGED <<record, week>>
    BY <1>5 DEF Announce, AnswerLost, Send, stored
  <2>2. \A g \in Requests : pc'[g] \in {"announce", "again"} => pc[g] \in {"announce", "again"}
    BY <1>5 DEF Announce, AnswerLost, Send
  <2>3. record[week[h]].status = "published"
    BY <1>5 DEF Announce, AnswerLost, Send
  <2>4. \A w \in Weeks : w = week[h] \/ announced'[w] = announced[w]
    BY <1>5 DEF Announce, AnswerLost
  <2> QED
    BY <2>1, <2>2, <2>3, <2>4
<1>6. ASSUME NEW c \in Cases, Create(c) \/ Review(c) PROVE RecordInv'
  BY <1>6 DEF Create, Review, stored, chat
<1>7. ASSUME UNCHANGED vars PROVE RecordInv'
  BY <1>7 DEF vars, stored, chat
<1> QED
  BY <1>1, <1>2, <1>3, <1>4, <1>5, <1>6, <1>7 DEF Next

\* What is known stays known, and the requests do not look at more than they did.
LEMMA QuietRegistry ==
    ASSUME RegistryInv, UNCHANGED <<registry, record>>,
           \A h \in Requests : pc'[h] \in {"enter", "store"} =>
              pc[h] = pc'[h] /\ agg'[h] = agg[h] /\ todo'[h] = todo[h]
    PROVE  RegistryInv'
BY DEF RegistryInv, Known, Assumed

LEMMA NextRegistry == TypeOK /\ ClaimInv /\ RegistryInv /\ [Next]_vars => RegistryInv'
<1> SUFFICES ASSUME TypeOK, ClaimInv, RegistryInv, [Next]_vars PROVE RegistryInv'
  OBVIOUS
<1> USE DEF TypeOK
<1>1. ASSUME NEW h \in Requests, NEW w \in Weeks, Claim(h, w) \/ Publish(h, w) PROVE RegistryInv'
  BY <1>1, QuietRegistry DEF Claim, Publish, Step, stored
<1>2. ASSUME NEW h \in Requests,
             Announce(h) \/ AnswerLost(h) \/ SendFails(h) \/ Fail(h) \/ Crash(h) \/ Release(h)
      PROVE  RegistryInv'
  BY <1>2, QuietRegistry
  DEF Announce, AnswerLost, SendFails, Send, Retried, Fail, Crash, Release, Step, stored
<1>3. ASSUME NEW h \in Requests, Aggregate(h) PROVE RegistryInv'
  <2>1. todo'[h] = Assumed(agg'[h]) /\ pc'[h] = "enter" /\ UNCHANGED <<record, registry>>
    BY <1>3 DEF Aggregate, Step, stored
  <2>2. \A g \in Requests \ {h} : pc'[g] = pc[g] /\ agg'[g] = agg[g] /\ todo'[g] = todo[g]
    BY <1>3 DEF Aggregate, Step
  <2>3. Assumed(agg'[h]) \ todo'[h] = {}
    BY <2>1
  <2> QED
    BY <2>1, <2>2, <2>3 DEF RegistryInv, Known, Assumed
<1>4. ASSUME NEW h \in Requests, EnterAssumption(h) PROVE RegistryInv'
  <2>1. PICK x \in todo[h] : /\ registry' = [registry EXCEPT ![x] = Entry(agg[h], x)]
                             /\ todo' = [todo EXCEPT ![h] = @ \ {x}]
    BY <1>4 DEF EnterAssumption
  <2>2. UNCHANGED <<record, pc, agg>> /\ pc[h] = "enter"
    BY <1>4 DEF EnterAssumption
  <2>3. registry'[x].status # "none" /\ \A y \in Assumptions \ {x} : registry'[y] = registry[y]
    BY <2>1, EntryType
  <2>4. \A y \in Assumptions : registry[y].status # "none" => registry'[y].status # "none"
    BY <2>3
  <2>5. \A g \in Requests : Assumed(agg[g]) \in SUBSET Assumptions
    BY AssumedType
  <2>6. \A w \in Weeks : Assumed(record[w].agg) \in SUBSET Assumptions
    BY AssumedType
  <2>7. \A g \in Requests \ {h} : todo'[g] = todo[g]
    BY <2>1
  <2>8. Assumed(agg[h]) \ todo'[h] \subseteq (Assumed(agg[h]) \ todo[h]) \cup {x}
    BY <2>1
  <2>9. \A y \in Assumed(agg[h]) \ todo'[h] : registry'[y].status # "none"
    BY <2>2, <2>3, <2>4, <2>5, <2>8 DEF RegistryInv, Known
  <2>10. \A g \in Requests \ {h} : pc[g] \in {"enter", "store"} =>
            \A y \in Assumed(agg[g]) \ todo'[g] : registry'[y].status # "none"
    BY <2>4, <2>5, <2>7 DEF RegistryInv, Known
  <2>11. \A w \in Weeks : \A y \in Assumed(record[w].agg) : registry'[y].status # "none"
    BY <2>4, <2>6 DEF RegistryInv, Known
  <2>12. \A g \in Requests : pc[g] = "store" => todo'[g] = {}
    BY <2>2, <2>7 DEF RegistryInv
  <2> QED
    BY <2>2, <2>9, <2>10, <2>11, <2>12 DEF RegistryInv, Known, Assumed
<1>5. ASSUME NEW h \in Requests, Narrate(h) PROVE RegistryInv'
  BY <1>5 DEF Narrate, Step, stored, RegistryInv, Known, Assumed
<1>6. ASSUME NEW h \in Requests, SaveWeek(h) PROVE RegistryInv'
  <2>1. UNCHANGED <<registry, agg, todo>> /\ pc[h] = "store" /\ todo[h] = {}
    BY <1>6 DEF SaveWeek, Step, RegistryInv
  <2>2. \A g \in Requests : pc'[g] \in {"enter", "store"} => pc[g] = pc'[g]
    BY <1>6 DEF SaveWeek, Step
  <2>3. \A w \in Weeks : record'[w] = record[w] \/ record'[w].agg = agg[h]
    BY <1>6 DEF SaveWeek, Published
  <2>4. Known(Assumed(agg[h]))
    BY <2>1 DEF RegistryInv, Known
  <2> QED
    BY <2>1, <2>2, <2>3, <2>4 DEF RegistryInv, Known, Assumed
<1>8. ASSUME NEW c \in Cases, Create(c) \/ Review(c) PROVE RegistryInv'
  BY <1>8, QuietRegistry DEF Create, Review, stored
<1>7. ASSUME UNCHANGED vars PROVE RegistryInv'
  BY <1>7, QuietRegistry DEF vars, stored
<1> QED
  BY <1>1, <1>2, <1>3, <1>4, <1>5, <1>6, <1>8, <1>7 DEF Next

-----------------------------------------------------------------------------

\* Of the code: a week is announced once but for lost answers and after it is published,
\* and the assumptions it counts are in the registry.
THEOREM SummaryHolds == Spec => []SummaryStands
<1>1. Init => ClaimInv /\ CountInv /\ RecordInv /\ RegistryInv
  <2> SUFFICES ASSUME Init PROVE ClaimInv /\ CountInv /\ RecordInv /\ RegistryInv
    OBVIOUS
  <2>1. \A h \in Requests : pc[h] = "idle"
    BY DEF Init
  <2>2. ClaimInv
    BY <2>1 DEF ClaimInv, Busy, Requests
  <2>3. \A w \in Weeks : announced[w] = 0 /\ lost[w] = 0
    BY DEF Init
  <2>4. CountInv /\ RecordInv
    BY <2>1, <2>3 DEF CountInv, RecordInv, Busy, Requests
  <2>5. \A w \in Weeks : Assumed(record[w].agg) = {}
    BY DEF Init, Unpublished, NoAggregate, Assumed
  <2>6. RegistryInv
    BY <2>1, <2>5 DEF RegistryInv, Known
  <2> QED
    BY <2>2, <2>4, <2>6
<1>2. CountInv /\ RecordInv /\ RegistryInv => SummaryStands
  BY DEF CountInv, RecordInv, RegistryInv, Known, SummaryStands
<1> QED
  BY <1>1, <1>2, TypeCorrect, NextClaim, NextCount, NextRecord, NextRegistry, PTL DEF Spec

=============================================================================
