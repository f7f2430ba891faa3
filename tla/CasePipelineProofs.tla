------------------------- MODULE CasePipelineProofs -------------------------
(***************************************************************************)
(* Theorems about CasePipeline, for any sets of documents, handlers and    *)
(* payloads, any delivery limit and any number of crashes.                 *)
(*                                                                         *)
(* Until a lease is lost, or somebody rewrites the case under a worker's   *)
(* hands, whoever holds the case is alone and is its newest attempt        *)
(* (LeaseInv).  Its extractions and its result then come from that attempt *)
(* (EvidenceInv), and a reviewer who holds the case's version holds its    *)
(* result (VersionInv).  So every step is one of ProcessingContract, where *)
(* attempts follow each other, or stands still.                            *)
(***************************************************************************)
EXTENDS CasePipeline, TLAPS

-----------------------------------------------------------------------------
(* Type correctness *)

\* Every handler that forgets its locals leaves them well-typed.
LEMMA ForgetIngestType ==
    ASSUME TypeOK, NEW a, ForgetIngest(a)
    PROVE  /\ incoming' \in [Ingestors -> SUBSET Docs]
           /\ created' \in [Ingestors -> BOOLEAN]
           /\ iexp' \in [Ingestors -> SUBSET Docs]
           /\ iing' \in [Ingestors -> IngStates]
           /\ ihave' \in [Ingestors -> SUBSET Docs]
           /\ idoc' \in [Ingestors -> SUBSET Docs]
BY DEF ForgetIngest, TypeOK, IngStates

LEMMA ForgetWorkType ==
    ASSUME TypeOK, NEW a, ForgetWork(a)
    PROVE  /\ wmsg' \in [Workers -> SUBSET Publishers]
           /\ wdocs' \in [Workers -> SUBSET Docs]
           /\ wtodo' \in [Workers -> SUBSET Docs]
           /\ wtok' \in [Workers -> Nat]
           /\ wterm' \in [Workers -> BOOLEAN]
BY DEF ForgetWork, TypeOK

LEMMA ForgetReviewType ==
    ASSUME TypeOK, NEW a, ForgetReview(a)
    PROVE  /\ rver' \in [Reviewers -> Nat]
           /\ rseen' \in [Reviewers -> Nat]
BY DEF ForgetReview, TypeOK

LEMMA StepType ==
    ASSUME TypeOK, NEW a \in Actors, NEW from, NEW to \in PcStates, Step(a, from, to)
    PROVE  pc' \in [Actors -> PcStates]
BY DEF Step, TypeOK

LEMMA RewriteType ==
    ASSUME TypeOK, Rewrite
    PROVE  preempted' \in BOOLEAN /\ reopened' \in BOOLEAN
BY DEF Rewrite, TypeOK

LEMMA RequeueType ==
    ASSUME TypeOK, Requeue
    PROVE  preempted' \in BOOLEAN /\ reopened' \in BOOLEAN /\ unready' \in BOOLEAN
BY DEF Requeue, Rewrite, TypeOK

\* An ingestion step keeps every variable well-typed.
LEMMA IngestType ==
    ASSUME TypeOK, NEW i \in Ingestors, Ingest(i)
    PROVE  TypeOK'
<1> USE PayloadAssumption DEF Publishers, Actors
<1>1. CASE CreateCase(i)
  <2>1. pc' \in [Actors -> PcStates]
    BY <1>1, StepType DEF CreateCase, PcStates
  <2>2. PICK files \in SUBSET Docs :
            incoming' = [incoming EXCEPT ![i] = files] /\ expected' = files
    BY <1>1 DEF CreateCase
  <2> QED
    BY <1>1, <2>1, <2>2 DEF CreateCase, TypeOK, IngStates, ProcStates, docVars,
       runVars, queueVars, workerLocals, reviewLocals, historyVars
<1>2. CASE CaseExists(i)
  <2>1. pc' \in [Actors -> PcStates]
    BY <1>2, StepType DEF CaseExists, PcStates
  <2>2. PICK files \in SUBSET Docs :
            incoming' = [incoming EXCEPT ![i] = files]
    BY <1>2 DEF CaseExists
  <2> QED
    BY <1>2, <2>1, <2>2 DEF CaseExists, TypeOK, ProcStates, caseVars, docVars,
       runVars, queueVars, workerLocals, reviewLocals, historyVars
<1>3. CASE CountQueued(i)
  <2>1. pc' \in [Actors -> PcStates]
    BY <1>3, StepType DEF CountQueued, PcStates
  <2> QED
    BY <1>3, <2>1 DEF CountQueued, TypeOK, caseVars, docVars, queueVars, ingestLocals,
       workerLocals, reviewLocals, historyVars
<1>4. CASE ReadCase(i)
  <2>1. pc' \in [Actors -> PcStates]
    BY <1>4, StepType DEF ReadCase, PcStates
  <2> QED
    BY <1>4, <2>1 DEF ReadCase, TypeOK, IngStates, caseVars, docVars, runVars,
       queueVars, workerLocals, reviewLocals, historyVars
<1>5. CASE RejectAltered(i)
  <2>1. pc' \in [Actors -> PcStates]
    BY <1>5, StepType DEF RejectAltered, PcStates
  <2>2. ForgetIngest(i)
    BY <1>5 DEF RejectAltered
  <2> QED
    BY <1>5, <2>1, <2>2, ForgetIngestType DEF RejectAltered, TypeOK, KnownIds,
       caseVars, docVars, runVars, queueVars, workerLocals, reviewLocals, historyVars
<1>6. CASE AlreadyPublished(i)
  <2>1. pc' \in [Actors -> PcStates]
    BY <1>6, StepType DEF AlreadyPublished, PcStates
  <2>2. ForgetIngest(i)
    BY <1>6 DEF AlreadyPublished
  <2> QED
    BY <1>6, <2>1, <2>2, ForgetIngestType DEF AlreadyPublished, TypeOK, KnownIds,
       IngStates, caseVars, docVars, runVars, queueVars, workerLocals, reviewLocals,
       historyVars
<1>7. CASE ListDocuments(i)
  <2>1. pc' \in [Actors -> PcStates]
    BY <1>7, StepType DEF ListDocuments, PcStates
  <2> QED
    BY <1>7, <2>1 DEF ListDocuments, TypeOK, KnownIds, IngStates, caseVars, docVars,
       runVars, queueVars, workerLocals, reviewLocals, historyVars
<1>8. CASE ResetCase(i)
  <2>1. pc' \in [Actors -> PcStates]
    BY <1>8, StepType DEF ResetCase, PcStates
  <2> QED
    BY <1>8, <2>1, RewriteType DEF ResetCase, TypeOK, IngStates, ProcStates, docVars,
       runVars, queueVars, ingestLocals, workerLocals, reviewLocals
<1>9. CASE UploadBlob(i)
  <2>1. pc' \in [Actors -> PcStates]
    BY <1>9, StepType DEF UploadBlob, PcStates
  <2>2. PICK d \in Docs : blobs' = blobs \cup {d} /\ idoc' = [idoc EXCEPT ![i] = {d}]
    BY <1>9 DEF UploadBlob, MissingIncoming, TypeOK
  <2>3. blobs' \in SUBSET Docs /\ idoc' \in [Ingestors -> SUBSET Docs]
    BY <2>2 DEF TypeOK
  <2> QED
    BY <1>9, <2>1, <2>3 DEF UploadBlob, TypeOK, caseVars, runVars,
       queueVars, workerLocals, reviewLocals, historyVars
<1>10. CASE RecordDocument(i)
  <2>1. pc' \in [Actors -> PcStates]
    BY <1>10, StepType DEF RecordDocument, PcStates
  <2> QED
    BY <1>10, <2>1 DEF RecordDocument, TypeOK, caseVars, runVars, queueVars,
       workerLocals, reviewLocals, historyVars
<1>11. CASE IngestIncomplete(i)
  <2>1. pc' \in [Actors -> PcStates]
    BY <1>11, StepType DEF IngestIncomplete, PcStates
  <2>2. ForgetIngest(i)
    BY <1>11 DEF IngestIncomplete
  <2> QED
    BY <1>11, <2>1, <2>2, ForgetIngestType DEF IngestIncomplete, TypeOK,
       MissingIncoming, caseVars, docVars, runVars, queueVars, workerLocals,
       reviewLocals, historyVars
<1>12. CASE MarkStored(i)
  <2>1. pc' \in [Actors -> PcStates]
    BY <1>12, StepType DEF MarkStored, PcStates
  <2>2. ForgetIngest(i)
    BY <1>12 DEF MarkStored
  <2> QED
    BY <1>12, <2>1, <2>2, ForgetIngestType DEF MarkStored, TypeOK, MissingIncoming,
       IngStates, docVars, runVars, queueVars, workerLocals, reviewLocals, historyVars
<1>13. CASE PublishTask(i, "publish")
  <2>1. pc' \in [Actors -> PcStates]
    BY <1>13, StepType DEF PublishTask, PcStates
  <2> QED
    BY <1>13, <2>1 DEF PublishTask, TypeOK, caseVars, docVars, runVars, ingestLocals,
       workerLocals, reviewLocals, historyVars
<1>14. CASE MarkQueued(i)
  <2>1. pc' \in [Actors -> PcStates]
    BY <1>14, StepType DEF MarkQueued, PcStates
  <2> QED
    BY <1>14, <2>1, RequeueType DEF MarkQueued, TypeOK, IngStates, ProcStates,
       docVars, runVars, queueVars, ingestLocals, workerLocals, reviewLocals
<1> QED
  BY <1>1, <1>2, <1>3, <1>4, <1>5, <1>6, <1>7, <1>8, <1>9, <1>10, <1>11, <1>12, <1>13,
     <1>14 DEF Ingest

\* So does a step of a worker,
LEMMA WorkType ==
    ASSUME TypeOK, NEW w \in Workers, Work(w)
    PROVE  TypeOK'
<1> USE PayloadAssumption DEF Publishers, Actors
<1>1. ASSUME NEW m \in Publishers, Acquire(w, m) PROVE TypeOK'
  <2>1. pc' \in [Actors -> PcStates]
    BY <1>1, StepType DEF Acquire, PcStates
  <2>2. deliveries' \in [Publishers -> Nat] /\ wmsg' \in [Workers -> SUBSET Publishers]
    BY <1>1 DEF Acquire, Deliver, TypeOK
  <2>3. attempts' \in Nat /\ wtok' \in [Workers -> Nat] /\ procState' \in ProcStates
    BY <1>1 DEF Acquire, TypeOK, ProcStates
  <2> QED
    BY <1>1, <2>1, <2>2, <2>3 DEF Acquire, TypeOK, docVars, runVars, ingestLocals,
       reviewLocals, historyVars
<1>2. ASSUME NEW m \in Publishers, Refuse(w, m) PROVE TypeOK'
  <2> QED
    BY <1>2 DEF Refuse, Deliver, TypeOK, caseVars, docVars, runVars, ingestLocals,
       workerLocals, reviewLocals, historyVars
<1>3. CASE LoadDocuments(w)
  <2>1. pc' \in [Actors -> PcStates]
    BY <1>3, StepType DEF LoadDocuments, PcStates
  <2> QED
    BY <1>3, <2>1 DEF LoadDocuments, TypeOK, caseVars, docVars, runVars, queueVars,
       ingestLocals, reviewLocals, historyVars
<1>4. CASE ReadForComplete(w)
  <2>1. pc' \in [Actors -> PcStates]
    BY <1>4, StepType DEF ReadForComplete, PcStates
  <2> QED
    BY <1>4, <2>1 DEF ReadForComplete, TypeOK, ProcStates, caseVars, docVars, runVars,
       queueVars, ingestLocals, reviewLocals, historyVars
<1>5. CASE Complete(w)
  <2>1. pc' \in [Actors -> PcStates]
    BY <1>5, StepType DEF Complete, PcStates
  <2> QED
    BY <1>5, <2>1 DEF Complete, TypeOK, ProcStates, docVars, runVars, queueVars,
       ingestLocals, workerLocals, reviewLocals, historyVars
<1>6. CASE Tally(w)
  <2>1. pc' \in [Actors -> PcStates]
    BY <1>6, StepType DEF Tally, PcStates
  <2> QED
    BY <1>6, <2>1 DEF Tally, TypeOK, caseVars, docVars, queueVars, ingestLocals,
       workerLocals, reviewLocals, historyVars
<1>7. CASE Ack(w)
  <2>1. pc' \in [Actors -> PcStates]
    BY <1>7, StepType DEF Ack, PcStates
  <2>2. ForgetWork(w)
    BY <1>7 DEF Ack
  <2> QED
    BY <1>7, <2>1, <2>2, ForgetWorkType DEF Ack, TypeOK, caseVars, docVars, runVars,
       ingestLocals, reviewLocals, historyVars
<1>8. ASSUME NEW d \in Docs, WriteExtraction(w, d) PROVE TypeOK'
  <2> QED
    BY <1>8 DEF WriteExtraction, TypeOK, caseVars, runVars, queueVars, ingestLocals,
       reviewLocals, historyVars
<1> QED
  BY <1>1, <1>2, <1>3, <1>4, <1>5, <1>6, <1>7, <1>8 DEF Work

\* and a step of a reviewer.
LEMMA ReviewType ==
    ASSUME TypeOK, NEW r \in Reviewers, Review(r)
    PROVE  TypeOK'
<1> USE PayloadAssumption DEF Publishers, Actors
<1>1. CASE OpenCase(r)
  <2>1. pc' \in [Actors -> PcStates]
    BY <1>1, StepType DEF OpenCase, PcStates
  <2> QED
    BY <1>1, <2>1 DEF OpenCase, TypeOK, ProcStates, caseVars, docVars, runVars,
       queueVars, ingestLocals, workerLocals, historyVars
<1>2. CASE Decide(r)
  <2>1. pc' \in [Actors -> PcStates]
    BY <1>2, StepType DEF Decide, PcStates
  <2>2. ForgetReview(r)
    BY <1>2 DEF Decide
  <2> QED
    BY <1>2, <2>1, <2>2, ForgetReviewType DEF Decide, TypeOK, docVars, runVars,
       queueVars, ingestLocals, workerLocals, historyVars
<1>3. CASE Conflict(r)
  <2>1. pc' \in [Actors -> PcStates]
    BY <1>3, StepType DEF Conflict, PcStates
  <2>2. ForgetReview(r)
    BY <1>3 DEF Conflict
  <2> QED
    BY <1>3, <2>1, <2>2, ForgetReviewType DEF Conflict, TypeOK, caseVars, docVars,
       runVars, queueVars, ingestLocals, workerLocals, historyVars
<1>4. CASE Retry(r)
  <2>1. pc' \in [Actors -> PcStates]
    BY <1>4, StepType DEF Retry, PcStates
  <2>2. ForgetReview(r)
    BY <1>4 DEF Retry
  <2> QED
    BY <1>4, <2>1, <2>2, ForgetReviewType, RequeueType DEF Retry, TypeOK, ProcStates,
       docVars, runVars, queueVars, ingestLocals, workerLocals
<1>5. CASE RetryPublish(r)
  <2>1. pc' \in [Actors -> PcStates]
    BY <1>5, StepType DEF RetryPublish, PcStates
  <2> QED
    BY <1>5, <2>1 DEF RetryPublish, TypeOK, caseVars, docVars, runVars, ingestLocals,
       workerLocals, reviewLocals, historyVars
<1> QED
  BY <1>1, <1>2, <1>3, <1>4, <1>5 DEF Review

\* Every variable has its type in every reachable state.
THEOREM TypeCorrect == Spec => []TypeOK
<1>1. Init => TypeOK
  <2> SUFFICES ASSUME Init PROVE TypeOK
    OBVIOUS
  <2>1. pc \in [Actors -> PcStates] /\ deliveries \in [Publishers -> Nat]
    BY DEF Init, PcStates
  <2>2. /\ incoming \in [Ingestors -> SUBSET Docs] /\ created \in [Ingestors -> BOOLEAN]
        /\ iexp \in [Ingestors -> SUBSET Docs] /\ iing \in [Ingestors -> IngStates]
        /\ ihave \in [Ingestors -> SUBSET Docs] /\ idoc \in [Ingestors -> SUBSET Docs]
    BY DEF Init, IngStates
  <2>3. /\ wmsg \in [Workers -> SUBSET Publishers] /\ wdocs \in [Workers -> SUBSET Docs]
        /\ wtodo \in [Workers -> SUBSET Docs]
        /\ wtok \in [Workers -> Nat] /\ wterm \in [Workers -> BOOLEAN]
        /\ rver \in [Reviewers -> Nat] /\ rseen \in [Reviewers -> Nat]
    BY DEF Init
  <2> QED
    BY <2>1, <2>2, <2>3 DEF Init, TypeOK, ProcStates, IngStates, NoDecision
<1>2. TypeOK /\ [Next]_vars => TypeOK'
  <2> SUFFICES ASSUME TypeOK, [Next]_vars PROVE TypeOK'
    OBVIOUS
  <2> USE DEF Publishers, Actors
  <2>1. ASSUME NEW s \in Submitters, Submit(s) \/ MarkQueued(s) PROVE TypeOK'
    <3>1. pc' \in [Actors -> PcStates]
      BY <2>1, StepType DEF Submit, PublishTask, MarkQueued, PcStates
    <3>2. CASE Submit(s)
      BY <3>1, <3>2 DEF Submit, PublishTask, TypeOK, caseVars, docVars, runVars,
         ingestLocals, workerLocals, reviewLocals, historyVars
    <3>3. CASE MarkQueued(s)
      BY <3>1, <3>3, RequeueType DEF MarkQueued, TypeOK, IngStates, ProcStates, docVars,
         runVars, queueVars, ingestLocals, workerLocals, reviewLocals
    <3> QED
      BY <2>1, <3>2, <3>3
  <2>2. ASSUME NEW m \in Publishers, DeadLetter(m) PROVE TypeOK'
    BY <2>2 DEF DeadLetter, TypeOK, caseVars, docVars, runVars, ingestLocals,
       workerLocals, reviewLocals, historyVars
  <2>3. CASE LeaseExpires
    BY <2>3 DEF LeaseExpires, TypeOK, docVars, runVars, queueVars, ingestLocals,
       workerLocals, reviewLocals
  <2>4. ASSUME NEW a \in Actors, Crash(a) PROVE TypeOK'
    <3>1. pc' \in [Actors -> PcStates]
      BY <2>4 DEF Crash, TypeOK, PcStates
    <3>2. ForgetIngest(a) /\ ForgetWork(a)
      BY <2>4 DEF Crash
    <3> QED
      BY <2>4, <3>1, <3>2, ForgetIngestType, ForgetWorkType DEF Crash, TypeOK, caseVars,
         docVars, runVars, queueVars, reviewLocals
  <2>5. CASE UNCHANGED vars
    BY <2>5 DEF TypeOK, vars, caseVars, docVars, runVars, queueVars, ingestLocals,
       workerLocals, reviewLocals, historyVars
  <2> QED
    BY <2>1, <2>2, <2>3, <2>4, <2>5, IngestType, WorkType, ReviewType DEF Next, Quiescent
<1> QED
  BY <1>1, <1>2, PTL DEF Spec

-----------------------------------------------------------------------------
(* The lease *)

\* What the workers' invariants read, the program counters apart.
WorkerView == <<procState, lease, attempts, resultDocs, resultAttempt, extraction,
                runTerminal, wdocs, wtodo, wtok, preempted, reopened>>

\* A step the workers' invariants do not notice.
Quiet == UNCHANGED WorkerView /\ \A w \in Workers : pc'[w] = pc[w]

\* A handler outside the worker moves no worker.
LEMMA StepElsewhere ==
    ASSUME TypeOK, NEW a \in Publishers, NEW from, NEW to, Step(a, from, to)
    PROVE  \A w \in Workers : pc'[w] = pc[w]
BY ActorAssumption DEF Step, TypeOK, Actors

\* Of an ingestion, four steps touch what the workers' invariants read.
LEMMA QuietIngest ==
    ASSUME TypeOK, NEW i \in Ingestors, Ingest(i)
    PROVE  \/ CreateCase(i) \/ ResetCase(i) \/ RecordDocument(i) \/ MarkQueued(i)
           \/ Quiet
<1> SUFFICES ASSUME ~CreateCase(i), ~ResetCase(i), ~RecordDocument(i), ~MarkQueued(i)
             PROVE  Quiet
  OBVIOUS
<1> USE DEF Quiet, WorkerView, caseVars, docVars, runVars, queueVars, workerLocals,
            historyVars
<1>1. \A w \in Workers : pc'[w] = pc[w]
  <2> i \in Publishers
    BY DEF Publishers
  <2> QED
    BY StepElsewhere DEF Ingest, CaseExists, CountQueued, ReadCase, RejectAltered,
       AlreadyPublished, ListDocuments, UploadBlob, IngestIncomplete, MarkStored,
       PublishTask
<1>2. CASE CaseExists(i) \/ CountQueued(i) \/ ReadCase(i)
  BY <1>1, <1>2 DEF CaseExists, CountQueued, ReadCase
<1>3. CASE RejectAltered(i) \/ AlreadyPublished(i) \/ ListDocuments(i)
  BY <1>1, <1>3 DEF RejectAltered, AlreadyPublished, ListDocuments
<1>4. CASE UploadBlob(i) \/ IngestIncomplete(i) \/ MarkStored(i) \/ PublishTask(i, "publish")
  BY <1>1, <1>4 DEF UploadBlob, IngestIncomplete, MarkStored, PublishTask
<1> QED
  BY <1>2, <1>3, <1>4 DEF Ingest

\* Of a reviewer's steps, only Retry.
LEMMA QuietReview ==
    ASSUME TypeOK, NEW r \in Reviewers, Review(r)
    PROVE  Retry(r) \/ Quiet
<1>1. \A w \in Workers : pc'[w] = pc[w]
  <2> r \in Publishers
    BY DEF Publishers
  <2> QED
    BY StepElsewhere DEF Review, OpenCase, Decide, Conflict, Retry, RetryPublish
<1> QED
  BY <1>1 DEF Review, OpenCase, Decide, Conflict, RetryPublish, Quiet, WorkerView,
     caseVars, docVars, runVars, queueVars, workerLocals, historyVars

\* The steps the workers' invariants have to be checked against.
LEMMA QuietSteps ==
    ASSUME TypeOK, [Next]_vars
    PROVE  \/ \E i \in Ingestors : CreateCase(i) \/ ResetCase(i) \/ RecordDocument(i)
           \/ \E a \in Publishers : MarkQueued(a)
           \/ \E r \in Reviewers : Retry(r)
           \/ \E w \in Workers :
                 \/ \E m \in Publishers : Acquire(w, m)
                 \/ \E d \in Docs : WriteExtraction(w, d)
                 \/ LoadDocuments(w) \/ ReadForComplete(w) \/ Complete(w) \/ Tally(w)
                 \/ Ack(w) \/ Crash(w)
           \/ LeaseExpires
           \/ Quiet
<1> USE DEF Publishers
<1>1. ASSUME NEW s \in Submitters, Submit(s) PROVE Quiet
  BY <1>1, StepElsewhere DEF Submit, PublishTask, Quiet, WorkerView, caseVars, docVars,
     runVars, workerLocals, historyVars
<1>2. ASSUME NEW w \in Workers, NEW m \in Publishers, Refuse(w, m) PROVE Quiet
  BY <1>2 DEF Refuse, Quiet, WorkerView, caseVars, docVars, runVars, workerLocals,
     historyVars
<1>3. ASSUME NEW m \in Publishers, DeadLetter(m) PROVE Quiet
  BY <1>3 DEF DeadLetter, Quiet, WorkerView, caseVars, docVars, runVars, workerLocals,
     historyVars
<1>4. ASSUME NEW a \in Publishers, Crash(a) PROVE Quiet
  <2>1. \A w \in Workers : w # a
    BY ActorAssumption
  <2>2. \A w \in Workers : pc'[w] = pc[w]
    BY <1>4, <2>1 DEF Crash, TypeOK, Actors
  <2>3. wdocs' = wdocs /\ wtodo' = wtodo /\ wtok' = wtok
    BY <1>4, <2>1 DEF Crash, ForgetWork, TypeOK
  <2> QED
    BY <1>4, <2>2, <2>3 DEF Crash, Quiet, WorkerView, caseVars, docVars, runVars
<1>5. CASE UNCHANGED vars
  BY <1>5 DEF Quiet, WorkerView, vars, caseVars, docVars, runVars, workerLocals,
     historyVars
<1>6. ASSUME NEW w \in Workers, Work(w)
      PROVE  \/ \E m \in Publishers : Acquire(w, m)
             \/ \E d \in Docs : WriteExtraction(w, d)
             \/ LoadDocuments(w) \/ ReadForComplete(w) \/ Complete(w) \/ Tally(w)
             \/ Ack(w) \/ Quiet
  BY <1>2, <1>6 DEF Work
<1>7. CASE Next
  <2>1. ASSUME NEW i \in Ingestors, Ingest(i)
        PROVE  \/ CreateCase(i) \/ ResetCase(i) \/ RecordDocument(i)
               \/ \E a \in Publishers : MarkQueued(a)
               \/ Quiet
    BY <2>1, QuietIngest
  <2>2. ASSUME NEW a \in Actors, Crash(a) PROVE Quiet \/ \E w \in Workers : Crash(w)
    BY <1>4, <2>2 DEF Actors
  <2> QED
    BY <1>1, <1>3, <1>5, <1>6, <1>7, <2>1, <2>2, QuietReview DEF Next, Quiescent
<1> QED
  BY <1>5, <1>7

\* Until a case is taken from a worker that holds its lease, whoever holds the case
\* is alone, has a live lease and is the newest attempt, and a finished case has the
\* newest attempt's result.
LeaseInv ==
    ~preempted =>
        /\ \A w \in Holders :
              procState = "PROCESSING" /\ lease = "live" /\ wtok[w] = attempts
        /\ \A v, w \in Holders : v = w
        /\ procState = "TERMINAL" => resultAttempt = attempts

LEMMA LeaseStep ==
    ASSUME TypeOK, LeaseInv, [Next]_vars
    PROVE  LeaseInv'
<1> SUFFICES ASSUME ~preempted' PROVE LeaseInv'
  BY DEF LeaseInv
<1> USE DEF Holders
<1>1. ASSUME NEW i \in Ingestors, CreateCase(i) \/ ResetCase(i) \/ RecordDocument(i)
      PROVE  LeaseInv'
  <2>1. \A w \in Workers : pc'[w] = pc[w]
    BY <1>1, StepElsewhere DEF CreateCase, ResetCase, RecordDocument, Publishers
  <2>2. wtok' = wtok /\ attempts' = attempts /\ lease' = lease
        /\ resultAttempt' = resultAttempt
    BY <1>1 DEF CreateCase, ResetCase, RecordDocument, caseVars, workerLocals
  <2>3. CASE CreateCase(i)
    BY <2>1, <2>2, <2>3 DEF CreateCase, LeaseInv, historyVars
  <2>4. CASE ResetCase(i)
    BY <2>1, <2>2, <2>4 DEF ResetCase, Rewrite, LeaseInv
  <2>5. CASE RecordDocument(i)
    BY <2>1, <2>2, <2>5 DEF RecordDocument, LeaseInv, caseVars, historyVars
  <2> QED
    BY <1>1, <2>3, <2>4, <2>5
<1>2. ASSUME NEW a \in Publishers, MarkQueued(a) PROVE LeaseInv'
  BY <1>2, StepElsewhere DEF MarkQueued, Requeue, Rewrite, LeaseInv, workerLocals
<1>3. ASSUME NEW r \in Reviewers, Retry(r) PROVE LeaseInv'
  <2>1. \A w \in Workers : pc'[w] = pc[w]
    BY <1>3, StepElsewhere DEF Retry, Publishers
  <2> QED
    BY <1>3, <2>1 DEF Retry, Requeue, Rewrite, LeaseInv, workerLocals
<1>4. ASSUME NEW w \in Workers, NEW m \in Publishers, Acquire(w, m) PROVE LeaseInv'
  <2>1. ~preempted /\ Holders = {}
    BY <1>4 DEF Acquire, Acquirable, LeaseInv, historyVars
  <2>2. \A v \in Workers \ {w} : pc'[v] = pc[v]
    BY <1>4 DEF Acquire, Step, TypeOK, Actors
  <2>3. wtok'[w] = attempts'
    BY <1>4 DEF Acquire, TypeOK
  <2> QED
    BY <1>4, <2>1, <2>2, <2>3 DEF Acquire, LeaseInv
<1>5. ASSUME NEW w \in Workers, NEW d \in Docs, WriteExtraction(w, d) PROVE LeaseInv'
  BY <1>5 DEF WriteExtraction, LeaseInv, caseVars, historyVars
<1>6. ASSUME NEW w \in Workers, LoadDocuments(w) \/ ReadForComplete(w) PROVE LeaseInv'
  <2>1. Holders' = Holders
    BY <1>6 DEF LoadDocuments, ReadForComplete, Step, TypeOK, Actors
  <2> QED
    BY <1>6, <2>1 DEF LoadDocuments, ReadForComplete, LeaseInv, caseVars, historyVars
<1>7. ASSUME NEW w \in Workers, Complete(w) PROVE LeaseInv'
  <2>1. w \in Holders /\ Holders' = Holders \ {w}
    BY <1>7 DEF Complete, Step, TypeOK, Actors
  <2> QED
    BY <1>7, <2>1 DEF Complete, LeaseInv, historyVars
<1>8. ASSUME NEW w \in Workers, Tally(w) \/ Ack(w) \/ Crash(w) PROVE LeaseInv'
  <2>1. Holders' = Holders \ {w}
    BY <1>8 DEF Tally, Ack, Crash, Step, TypeOK, Actors
  <2>2. \A v \in Holders' : wtok'[v] = wtok[v]
    BY <1>8, <2>1 DEF Tally, Ack, Crash, ForgetWork, TypeOK, workerLocals
  <2> QED
    BY <1>8, <2>1, <2>2 DEF Tally, Ack, Crash, LeaseInv, caseVars, historyVars
<1>9. CASE LeaseExpires
  BY <1>9 DEF LeaseExpires, LeaseInv, workerLocals
<1>10. CASE Quiet
  BY <1>10 DEF Quiet, WorkerView, LeaseInv
<1> QED
  BY <1>1, <1>2, <1>3, <1>4, <1>5, <1>6, <1>7, <1>8, <1>9, <1>10, QuietSteps

LEMMA LeaseAlways == Spec => []LeaseInv
<1>1. Init => LeaseInv
  BY ActorAssumption DEF Init, LeaseInv, Holders, Actors
<1>2. TypeOK /\ LeaseInv /\ [Next]_vars => LeaseInv'
  BY LeaseStep
<1> QED
  BY <1>1, <1>2, TypeCorrect, PTL DEF Spec

\* The workers exclude each other while no lease is lost, for any number of workers,
\* tasks, deliveries, retries and crashes.
THEOREM LeaseExcludes == Spec => []LeaseExclusion
<1>1. LeaseInv => LeaseExclusion
  BY DEF LeaseInv, LeaseExclusion
<1> QED
  BY <1>1, LeaseAlways, PTL

\* While no lease is lost, a finished case shows the result of its newest attempt.
THEOREM NewestResult == Spec => []NewestAttemptWins
<1>1. LeaseInv => NewestAttemptWins
  BY DEF LeaseInv, NewestAttemptWins
<1> QED
  BY <1>1, LeaseAlways, PTL

\* The workers between the lease and the last call of complete_case.
Busy == {w \in Workers : pc[w] \in {"load", "extract", "complete", "tally"}}

\* Until a case is taken from its worker or reopened, its one attempt is in progress,
\* or it is finished; and it is counted at most once.
OnceInv ==
    ~preempted /\ ~reopened =>
        /\ attempts = 0 => Busy = {} /\ runTerminal = 0 /\ procState # "TERMINAL"
        /\ attempts # 0 =>
              /\ attempts = 1
              /\ procState = "TERMINAL" \/ (procState = "PROCESSING" /\ lease = "live")
        /\ \A w \in Busy : runTerminal = 0 /\ \A v \in Busy : v = w
        /\ \A w \in Workers : pc[w] = "tally" => procState = "TERMINAL"
        /\ runTerminal <= 1

LEMMA OnceStep ==
    ASSUME TypeOK, LeaseInv, OnceInv, [Next]_vars
    PROVE  OnceInv'
<1> SUFFICES ASSUME ~preempted', ~reopened' PROVE OnceInv'
  BY DEF OnceInv
<1> USE DEF Busy
<1>1. ASSUME NEW i \in Ingestors, CreateCase(i) \/ ResetCase(i) \/ RecordDocument(i)
      PROVE  OnceInv'
  <2>1. \A w \in Workers : pc'[w] = pc[w]
    BY <1>1, StepElsewhere DEF CreateCase, ResetCase, RecordDocument, Publishers
  <2>2. attempts' = attempts /\ lease' = lease /\ runTerminal' = runTerminal
    BY <1>1 DEF CreateCase, ResetCase, RecordDocument, caseVars, runVars
  <2>3. CASE CreateCase(i)
    BY <2>1, <2>2, <2>3 DEF CreateCase, OnceInv, historyVars
  <2>4. CASE ResetCase(i)
    BY <2>1, <2>2, <2>4 DEF ResetCase, Rewrite, OnceInv
  <2>5. CASE RecordDocument(i)
    BY <2>1, <2>2, <2>5 DEF RecordDocument, OnceInv, caseVars, historyVars
  <2> QED
    BY <1>1, <2>3, <2>4, <2>5
<1>2. ASSUME NEW a \in Publishers, MarkQueued(a) PROVE OnceInv'
  BY <1>2, StepElsewhere DEF MarkQueued, Requeue, Rewrite, OnceInv, runVars
<1>3. ASSUME NEW r \in Reviewers, Retry(r) PROVE OnceInv'
  <2>1. \A w \in Workers : pc'[w] = pc[w]
    BY <1>3, StepElsewhere DEF Retry, Publishers
  <2> QED
    BY <1>3, <2>1 DEF Retry, Requeue, Rewrite, OnceInv, runVars
<1>4. ASSUME NEW w \in Workers, NEW m \in Publishers, Acquire(w, m) PROVE OnceInv'
  <2>1. attempts = 0 /\ Busy = {} /\ runTerminal = 0
    BY <1>4 DEF Acquire, Acquirable, OnceInv, historyVars
  <2>2. \A v \in Workers \ {w} : pc'[v] = pc[v]
    BY <1>4 DEF Acquire, Step, TypeOK, Actors
  <2>3. pc'[w] = "load"
    BY <1>4 DEF Acquire, Step, TypeOK, Actors
  <2> QED
    BY <1>4, <2>1, <2>2, <2>3 DEF Acquire, OnceInv, runVars
<1>5. ASSUME NEW w \in Workers, NEW d \in Docs, WriteExtraction(w, d) PROVE OnceInv'
  BY <1>5 DEF WriteExtraction, OnceInv, caseVars, runVars, historyVars
<1>6. ASSUME NEW w \in Workers, LoadDocuments(w) \/ ReadForComplete(w) PROVE OnceInv'
  <2>1. Busy' = Busy /\ \A v \in Workers : pc'[v] = "tally" <=> pc[v] = "tally"
    BY <1>6 DEF LoadDocuments, ReadForComplete, Step, TypeOK, Actors
  <2> QED
    BY <1>6, <2>1 DEF LoadDocuments, ReadForComplete, OnceInv, caseVars, runVars,
       historyVars
<1>7. ASSUME NEW w \in Workers, Complete(w) PROVE OnceInv'
  <2>1. w \in Busy /\ Busy' \subseteq Busy
    BY <1>7 DEF Complete, Step, TypeOK, Actors
  <2>2. \A v \in Workers : pc'[v] = "tally" => pc[v] = "tally" \/ v = w
    BY <1>7 DEF Complete, Step, TypeOK, Actors
  <2> QED
    BY <1>7, <2>1, <2>2 DEF Complete, OnceInv, runVars, historyVars
<1>8. ASSUME NEW w \in Workers, Tally(w) PROVE OnceInv'
  <2>1. w \in Busy /\ Busy' = Busy \ {w}
    BY <1>8 DEF Tally, Step, TypeOK, Actors
  <2>2. \A v \in Workers : pc'[v] = "tally" => pc[v] = "tally"
    BY <1>8 DEF Tally, Step, TypeOK, Actors
  <2> QED
    BY <1>8, <2>1, <2>2 DEF Tally, OnceInv, caseVars, historyVars
<1>9. ASSUME NEW w \in Workers, Ack(w) \/ Crash(w) PROVE OnceInv'
  <2>1. Busy' = Busy \ {w} /\ \A v \in Workers : pc'[v] = "tally" => pc[v] = "tally"
    BY <1>9 DEF Ack, Crash, Step, TypeOK, Actors
  <2> QED
    BY <1>9, <2>1 DEF Ack, Crash, OnceInv, caseVars, runVars, historyVars
<1>10. CASE LeaseExpires
  BY <1>10 DEF LeaseExpires, OnceInv, runVars
<1>11. CASE Quiet
  BY <1>11 DEF Quiet, WorkerView, OnceInv
<1> QED
  BY <1>1, <1>2, <1>3, <1>4, <1>5, <1>6, <1>7, <1>8, <1>9, <1>10, <1>11, QuietSteps

LEMMA OnceAlways == Spec => []OnceInv
<1>1. Init => OnceInv
  BY ActorAssumption DEF Init, OnceInv, Busy, Actors
<1>2. TypeOK /\ LeaseInv /\ OnceInv /\ [Next]_vars => OnceInv'
  BY OnceStep
<1> QED
  BY <1>1, <1>2, TypeCorrect, LeaseAlways, PTL DEF Spec

\* Duplicate deliveries and crashes alone never start a second attempt nor count the
\* case twice.
THEOREM RunsOnce == Spec => []DuplicatesRunOnce
<1>1. TypeOK /\ OnceInv => DuplicatesRunOnce
  BY DEF TypeOK, OnceInv, DuplicatesRunOnce
<1> QED
  BY <1>1, TypeCorrect, OnceAlways, PTL

\* What the extractions of a case processed once have to do with its attempt.
EvidenceInv ==
    /\ \A w \in Workers : wtodo[w] \subseteq wdocs[w]
    /\ ~preempted /\ ~reopened =>
          \A d \in Docs : extraction[d] # 0 =>
              /\ attempts # 0 /\ extraction[d] = attempts
              /\ \A w \in Holders : pc[w] # "load" /\ d \in wdocs[w]
              /\ procState = "TERMINAL" => d \in resultDocs

LEMMA EvidenceStep ==
    ASSUME TypeOK, LeaseInv, OnceInv, EvidenceInv, [Next]_vars
    PROVE  EvidenceInv'
<1> USE DEF Holders
<1>1. ASSUME NEW i \in Ingestors, CreateCase(i) \/ ResetCase(i) \/ RecordDocument(i)
      PROVE  EvidenceInv'
  <2>1. \A w \in Workers : pc'[w] = pc[w]
    BY <1>1, StepElsewhere DEF CreateCase, ResetCase, RecordDocument, Publishers
  <2>2. /\ attempts' = attempts /\ resultDocs' = resultDocs
        /\ wdocs' = wdocs /\ wtodo' = wtodo
    BY <1>1 DEF CreateCase, ResetCase, RecordDocument, caseVars, workerLocals
  <2>3. CASE CreateCase(i)
    BY <2>1, <2>2, <2>3 DEF CreateCase, EvidenceInv, docVars, historyVars
  <2>4. CASE ResetCase(i)
    BY <2>1, <2>2, <2>4 DEF ResetCase, Rewrite, EvidenceInv, docVars
  <2>5. CASE RecordDocument(i)
    BY <2>1, <2>2, <2>5 DEF RecordDocument, EvidenceInv, TypeOK, caseVars, historyVars
  <2> QED
    BY <1>1, <2>3, <2>4, <2>5
<1>2. ASSUME NEW a \in Publishers, MarkQueued(a) PROVE EvidenceInv'
  BY <1>2, StepElsewhere DEF MarkQueued, Requeue, Rewrite, EvidenceInv, docVars,
     workerLocals
<1>3. ASSUME NEW r \in Reviewers, Retry(r) PROVE EvidenceInv'
  <2>1. \A w \in Workers : pc'[w] = pc[w]
    BY <1>3, StepElsewhere DEF Retry, Publishers
  <2> QED
    BY <1>3, <2>1 DEF Retry, Requeue, Rewrite, EvidenceInv, docVars, workerLocals
<1>4. ASSUME NEW w \in Workers, NEW m \in Publishers, Acquire(w, m) PROVE EvidenceInv'
  <2>1. ~preempted /\ ~reopened => attempts = 0
    BY <1>4 DEF Acquire, Acquirable, OnceInv
  <2> QED
    BY <1>4, <2>1 DEF Acquire, EvidenceInv, docVars, historyVars
<1>5. ASSUME NEW w \in Workers, NEW d \in Docs, WriteExtraction(w, d) PROVE EvidenceInv'
  <2>1. /\ w \in Holders /\ pc[w] = "extract" /\ d \in wtodo[w]
        /\ extraction' = [extraction EXCEPT ![d] = wtok[w]]
        /\ wtodo' = [wtodo EXCEPT ![w] = @ \ {d}]
        /\ UNCHANGED <<pc, wdocs, caseVars, historyVars>>
    BY <1>5 DEF WriteExtraction
  <2>2. \A v \in Workers : wtodo'[v] \subseteq wdocs'[v]
    BY <2>1 DEF EvidenceInv, TypeOK
  <2>3. ASSUME ~preempted, ~reopened, NEW c \in Docs, extraction'[c] # 0
        PROVE  /\ attempts # 0 /\ extraction'[c] = attempts
               /\ \A v \in Holders : pc[v] # "load" /\ c \in wdocs[v]
               /\ procState = "TERMINAL" => c \in resultDocs
    <3>1. /\ wtok[w] = attempts /\ procState = "PROCESSING"
          /\ \A v \in Holders : v = w
      BY <2>1, <2>3 DEF LeaseInv
    <3>2. attempts # 0
      BY <2>1, <2>3 DEF OnceInv, Busy
    <3>3. CASE c = d
      BY <2>1, <3>1, <3>2, <3>3 DEF EvidenceInv, TypeOK
    <3>4. CASE c # d
      BY <2>1, <2>3, <3>4 DEF EvidenceInv, TypeOK
    <3> QED
      BY <3>3, <3>4
  <2> QED
    BY <2>1, <2>2, <2>3 DEF EvidenceInv, caseVars, historyVars
<1>6. ASSUME NEW w \in Workers, LoadDocuments(w) PROVE EvidenceInv'
  <2>1. /\ w \in Holders /\ pc[w] = "load" /\ Holders' = Holders
        /\ \A v \in Workers \ {w} : wdocs'[v] = wdocs[v] /\ wtodo'[v] = wtodo[v]
                                    /\ pc'[v] = pc[v]
        /\ wdocs'[w] = wtodo'[w]
    BY <1>6 DEF LoadDocuments, Step, TypeOK, Actors
  <2>2. ~preempted /\ ~reopened => \A d \in Docs : extraction[d] = 0
    BY <2>1 DEF EvidenceInv
  <2> QED
    BY <1>6, <2>1, <2>2 DEF LoadDocuments, EvidenceInv, docVars, historyVars
<1>7. ASSUME NEW w \in Workers, ReadForComplete(w) PROVE EvidenceInv'
  <2>1. Holders' = Holders /\ \A v \in Workers : pc'[v] = "load" <=> pc[v] = "load"
    BY <1>7 DEF ReadForComplete, Step, TypeOK, Actors
  <2>2. wdocs' = wdocs /\ \A v \in Workers : wtodo'[v] \subseteq wtodo[v]
    BY <1>7 DEF ReadForComplete, TypeOK
  <2> QED
    BY <1>7, <2>1, <2>2 DEF ReadForComplete, EvidenceInv, caseVars, docVars, historyVars
<1>8. ASSUME NEW w \in Workers, Complete(w) PROVE EvidenceInv'
  <2>1. w \in Holders /\ Holders' \subseteq Holders
        /\ \A v \in Holders' : pc'[v] = pc[v]
    BY <1>8 DEF Complete, Step, TypeOK, Actors
  <2> QED
    BY <1>8, <2>1 DEF Complete, EvidenceInv, docVars, workerLocals, historyVars
<1>9. ASSUME NEW w \in Workers, Tally(w) \/ Ack(w) \/ Crash(w) PROVE EvidenceInv'
  <2>1. Holders' = Holders \ {w} /\ \A v \in Holders' : pc'[v] = pc[v]
    BY <1>9 DEF Tally, Ack, Crash, Step, TypeOK, Actors
  <2>2. \A v \in Workers \ {w} : wdocs'[v] = wdocs[v] /\ wtodo'[v] = wtodo[v]
    BY <1>9 DEF Tally, Ack, Crash, ForgetWork, TypeOK, workerLocals
  <2>3. wtodo'[w] \subseteq wdocs'[w]
    BY <1>9 DEF Tally, Ack, Crash, ForgetWork, EvidenceInv, TypeOK, workerLocals
  <2> QED
    BY <1>9, <2>1, <2>2, <2>3 DEF Tally, Ack, Crash, EvidenceInv, caseVars, docVars,
       historyVars
<1>10. CASE LeaseExpires
  BY <1>10 DEF LeaseExpires, EvidenceInv, docVars, workerLocals
<1>11. CASE Quiet
  BY <1>11 DEF Quiet, WorkerView, EvidenceInv
<1> QED
  BY <1>1, <1>2, <1>3, <1>4, <1>5, <1>6, <1>7, <1>8, <1>9, <1>10, <1>11, QuietSteps

LEMMA EvidenceAlways == Spec => []EvidenceInv
<1>1. Init => EvidenceInv
  BY DEF Init, EvidenceInv
<1>2. TypeOK /\ LeaseInv /\ OnceInv /\ EvidenceInv /\ [Next]_vars => EvidenceInv'
  BY EvidenceStep
<1> QED
  BY <1>1, <1>2, TypeCorrect, LeaseAlways, OnceAlways, PTL DEF Spec

\* In a case processed once, the extractions beside the result are those of the
\* attempt the result came from.
THEOREM EvidenceMatches == Spec => []EvidenceMatchesResult
<1>1. LeaseInv /\ EvidenceInv => EvidenceMatchesResult
  BY DEF LeaseInv, EvidenceInv, EvidenceMatchesResult
<1> QED
  BY <1>1, LeaseAlways, EvidenceAlways, PTL

-----------------------------------------------------------------------------
(* Reviewers *)

\* Nobody is at work on a case that does not exist.
AbsentInv == procState = "ABSENT" => \A a \in Actors : pc[a] = "idle"

LEMMA AbsentStep ==
    ASSUME TypeOK, AbsentInv, [Next]_vars
    PROVE  AbsentInv'
<1> SUFFICES ASSUME procState' = "ABSENT" PROVE procState = "ABSENT" /\ pc' = pc
  BY DEF AbsentInv
<1> USE DEF Actors, Publishers
<1>1. ASSUME NEW i \in Ingestors, Ingest(i) PROVE FALSE
  BY <1>1 DEF Ingest, CreateCase, CaseExists, CountQueued, ReadCase, RejectAltered, AlreadyPublished,
     ListDocuments, ResetCase, UploadBlob, RecordDocument, IngestIncomplete, MarkStored,
     PublishTask, MarkQueued, AbsentInv, Step, caseVars
<1>2. ASSUME NEW s \in Submitters, Submit(s) \/ MarkQueued(s) PROVE FALSE
  BY <1>2 DEF Submit, PublishTask, MarkQueued, caseVars
<1>3. ASSUME NEW w \in Workers, Work(w) PROVE procState = "ABSENT" /\ pc' = pc
  <2>1. ASSUME NEW m \in Publishers, Acquire(w, m) PROVE FALSE
    BY <2>1 DEF Acquire
  <2>2. ASSUME NEW m \in Publishers, Refuse(w, m) PROVE procState = "ABSENT" /\ pc' = pc
    BY <2>2 DEF Refuse, caseVars
  <2>3. CASE LoadDocuments(w) \/ ReadForComplete(w) \/ Complete(w) \/ Tally(w) \/ Ack(w)
    BY <2>3 DEF LoadDocuments, ReadForComplete, Complete, Tally, Ack, Step, AbsentInv,
       caseVars
  <2>4. ASSUME NEW d \in Docs, WriteExtraction(w, d) PROVE FALSE
    BY <2>4 DEF WriteExtraction, AbsentInv, caseVars
  <2> QED
    BY <1>3, <2>1, <2>2, <2>3, <2>4 DEF Work
<1>4. ASSUME NEW r \in Reviewers, Review(r) PROVE FALSE
  BY <1>4 DEF Review, OpenCase, Decide, Conflict, Retry, RetryPublish, AbsentInv, Step,
     caseVars
<1>5. ASSUME NEW m \in Publishers, DeadLetter(m) PROVE procState = "ABSENT" /\ pc' = pc
  BY <1>5 DEF DeadLetter, caseVars
<1>6. CASE LeaseExpires
  BY <1>6 DEF LeaseExpires
<1>7. ASSUME NEW a \in Actors, Crash(a) PROVE FALSE
  BY <1>7 DEF Crash, AbsentInv, caseVars
<1>8. CASE UNCHANGED vars
  BY <1>8 DEF vars, caseVars
<1> QED
  BY <1>1, <1>2, <1>3, <1>4, <1>5, <1>6, <1>7, <1>8 DEF Next, Quiescent

\* The version a reviewer was shown is not ahead of the case, and while it is the
\* case's version, the result is still the one the reviewer was shown.
VersionInv ==
    \A r \in Reviewers : pc[r] = "viewing" =>
        rver[r] <= version /\ (rver[r] = version => rseen[r] = resultAttempt)

\* The version never goes back, and a new result comes with a new version.
Versioned ==
    /\ version' \in {version, version + 1}
    /\ version' = version => resultAttempt' = resultAttempt

\* Nobody opens the case, and whoever has it open keeps what was shown.
SameViews ==
    \A r \in Reviewers : pc'[r] = "viewing" =>
        pc[r] = "viewing" /\ rver'[r] = rver[r] /\ rseen'[r] = rseen[r]

LEMMA StepViews ==
    ASSUME TypeOK, NEW a \in Actors, NEW from, NEW to, Step(a, from, to),
           to # "viewing", UNCHANGED reviewLocals \/ ForgetReview(a)
    PROVE  SameViews
BY DEF SameViews, Step, TypeOK, ForgetReview, reviewLocals, Actors, Publishers

\* Every step but the creation and the opening of the case.
LEMMA VersionedSteps ==
    ASSUME TypeOK, [Next]_vars
    PROVE  \/ \E i \in Ingestors : CreateCase(i)
           \/ \E r \in Reviewers : OpenCase(r)
           \/ Versioned /\ SameViews
<1> USE DEF Actors, Publishers
<1>1. ASSUME NEW i \in Ingestors, Ingest(i), ~CreateCase(i) PROVE Versioned /\ SameViews
  <2>1. Versioned
    BY <1>1 DEF Ingest, CaseExists, CountQueued, ReadCase, RejectAltered, AlreadyPublished,
     ListDocuments, ResetCase, UploadBlob, RecordDocument, IngestIncomplete, MarkStored,
     PublishTask, MarkQueued, Versioned, caseVars
  <2>2. SameViews
    BY <1>1, StepViews DEF Ingest, CaseExists, CountQueued, ReadCase, RejectAltered, AlreadyPublished,
     ListDocuments, ResetCase, UploadBlob, RecordDocument, IngestIncomplete, MarkStored,
     PublishTask, MarkQueued
  <2> QED
    BY <2>1, <2>2
<1>2. ASSUME NEW s \in Submitters, Submit(s) \/ MarkQueued(s) PROVE Versioned /\ SameViews
  BY <1>2, StepViews DEF Submit, PublishTask, MarkQueued, Versioned, caseVars
<1>3. ASSUME NEW w \in Workers, Work(w) PROVE Versioned /\ SameViews
  <2>1. ASSUME NEW m \in Publishers, Acquire(w, m) PROVE Versioned /\ SameViews
    BY <2>1, StepViews DEF Acquire, Versioned
  <2>2. ASSUME NEW m \in Publishers, Refuse(w, m) PROVE Versioned /\ SameViews
    BY <2>2 DEF Refuse, Versioned, SameViews, caseVars, reviewLocals
  <2>3. CASE LoadDocuments(w) \/ ReadForComplete(w) \/ Tally(w) \/ Ack(w)
    BY <2>3, StepViews DEF LoadDocuments, ReadForComplete, Tally, Ack, Versioned, caseVars
  <2>4. CASE Complete(w)
    <3>1. SameViews
      BY <2>4, StepViews DEF Complete
    <3> QED
      BY <2>4, <3>1 DEF Complete, Versioned, TypeOK
  <2>5. ASSUME NEW d \in Docs, WriteExtraction(w, d) PROVE Versioned /\ SameViews
    BY <2>5 DEF WriteExtraction, Versioned, SameViews, caseVars, reviewLocals
  <2> QED
    BY <1>3, <2>1, <2>2, <2>3, <2>4, <2>5 DEF Work
<1>4. ASSUME NEW r \in Reviewers, Review(r), ~OpenCase(r) PROVE Versioned /\ SameViews
  <2>1. Versioned
    BY <1>4 DEF Review, Decide, Conflict, Retry, RetryPublish, Versioned, caseVars
  <2>2. SameViews
    BY <1>4, StepViews DEF Review, Decide, Conflict, Retry, RetryPublish
  <2> QED
    BY <2>1, <2>2
<1>5. ASSUME NEW m \in Publishers, DeadLetter(m) PROVE Versioned /\ SameViews
  BY <1>5 DEF DeadLetter, Versioned, SameViews, caseVars, reviewLocals
<1>6. CASE LeaseExpires
  BY <1>6 DEF LeaseExpires, Versioned, SameViews, reviewLocals
<1>7. ASSUME NEW a \in Actors, Crash(a) PROVE Versioned /\ SameViews
  BY <1>7 DEF Crash, Versioned, SameViews, TypeOK, caseVars, reviewLocals
<1>8. CASE UNCHANGED vars
  BY <1>8 DEF vars, Versioned, SameViews, caseVars, reviewLocals
<1> QED
  BY <1>1, <1>2, <1>3, <1>4, <1>5, <1>6, <1>7, <1>8 DEF Next, Quiescent

LEMMA VersionStep ==
    ASSUME TypeOK, AbsentInv, VersionInv, [Next]_vars
    PROVE  VersionInv'
<1> USE DEF Actors, Publishers
<1>1. ASSUME NEW i \in Ingestors, CreateCase(i) PROVE VersionInv'
  BY <1>1, ActorAssumption DEF CreateCase, Step, TypeOK, AbsentInv, VersionInv
<1>2. ASSUME NEW r \in Reviewers, OpenCase(r) PROVE VersionInv'
  BY <1>2 DEF OpenCase, Step, TypeOK, VersionInv, caseVars
<1>3. CASE Versioned /\ SameViews
  BY <1>3 DEF Versioned, SameViews, VersionInv, TypeOK
<1> QED
  BY <1>1, <1>2, <1>3, VersionedSteps

\* Only Decide stores a decision.
LEMMA DecidedSteps ==
    ASSUME TypeOK, [Next]_vars, decidedOn' # decidedOn
    PROVE  \E r \in Reviewers : Decide(r) \/ Retry(r)
<1>1. ASSUME NEW i \in Ingestors, Ingest(i) PROVE FALSE
  BY <1>1 DEF Ingest, CreateCase, CaseExists, CountQueued, ReadCase, RejectAltered, AlreadyPublished,
     ListDocuments, ResetCase, UploadBlob, RecordDocument, IngestIncomplete, MarkStored,
     PublishTask, MarkQueued, caseVars
<1>2. ASSUME NEW s \in Submitters, Submit(s) \/ MarkQueued(s) PROVE FALSE
  BY <1>2 DEF Submit, PublishTask, MarkQueued, caseVars
<1>3. ASSUME NEW w \in Workers, Work(w) PROVE FALSE
  BY <1>3 DEF Work, Acquire, Refuse, LoadDocuments, WriteExtraction, ReadForComplete,
     Complete, Tally, Ack, caseVars
<1>4. ASSUME NEW r \in Reviewers, Review(r) PROVE Decide(r) \/ Retry(r)
  BY <1>4 DEF Review, OpenCase, Conflict, RetryPublish, caseVars
<1>5. ~ LeaseExpires /\ ~ UNCHANGED vars
  BY DEF LeaseExpires, vars, caseVars
<1>6. /\ \A m \in Publishers : ~DeadLetter(m)
      /\ \A a \in Actors : ~Crash(a)
  BY DEF DeadLetter, Crash, caseVars
<1> QED
  BY <1>1, <1>2, <1>3, <1>4, <1>5, <1>6 DEF Next, Quiescent

LEMMA VersionAlways == Spec => []VersionInv
<1>1. Init => AbsentInv /\ VersionInv
  BY DEF Init, AbsentInv, VersionInv, Actors, Publishers
<1>2. TypeOK /\ AbsentInv /\ VersionInv /\ [Next]_vars => AbsentInv' /\ VersionInv'
  BY AbsentStep, VersionStep
<1> QED
  BY <1>1, <1>2, TypeCorrect, PTL DEF Spec

LEMMA DecideInformed ==
    ASSUME VersionInv, NEW r \in Reviewers, Decide(r)
    PROVE  decidedOn' = resultAttempt
BY DEF Decide, Step, VersionInv

\* A decision is stored only about the result its reviewer was shown, and while that
\* is the result, whatever workers, retries and other reviewers do in between.
THEOREM DecisionIsInformed == Spec => DecisionOnSeenResult
<1>1. TypeOK /\ VersionInv /\ [Next]_vars =>
         [decidedOn' # decidedOn /\ decidedOn' # NoDecision => decidedOn' = resultAttempt]_vars
  BY DecidedSteps, DecideInformed DEF Retry
<1> QED
  BY <1>1, VersionAlways, TypeCorrect, PTL DEF Spec, DecisionOnSeenResult

-----------------------------------------------------------------------------
(* The contract *)

\* An attempt has a number that was given out, and a case under way has a live lease
\* until somebody disturbs it.
TokenInv ==
    /\ \A w \in Holders : wtok[w] \in 1..attempts
    /\ ~preempted /\ procState = "PROCESSING" => lease = "live"

LEMMA TokenStep ==
    ASSUME TypeOK, TokenInv, [Next]_vars
    PROVE  TokenInv'
<1> USE DEF Holders
<1>0. attempts \in Nat /\ wtok \in [Workers -> Nat]
  BY DEF TypeOK
<1>1. ASSUME NEW i \in Ingestors, CreateCase(i) \/ ResetCase(i) \/ RecordDocument(i)
      PROVE  TokenInv'
  <2>1. \A w \in Workers : pc'[w] = pc[w]
    BY <1>1, StepElsewhere DEF CreateCase, ResetCase, RecordDocument, Publishers
  <2>2. wtok' = wtok /\ attempts' = attempts /\ lease' = lease
    BY <1>1 DEF CreateCase, ResetCase, RecordDocument, caseVars, workerLocals
  <2>3. procState' = "PROCESSING" => procState = "PROCESSING" /\ preempted' = preempted
    BY <1>1 DEF CreateCase, ResetCase, RecordDocument, caseVars, historyVars
  <2> QED
    BY <2>1, <2>2, <2>3 DEF TokenInv
<1>2. ASSUME NEW a \in Publishers, MarkQueued(a) PROVE TokenInv'
  BY <1>2, StepElsewhere DEF MarkQueued, TokenInv, workerLocals
<1>3. ASSUME NEW r \in Reviewers, Retry(r) PROVE TokenInv'
  <2>1. \A w \in Workers : pc'[w] = pc[w]
    BY <1>3, StepElsewhere DEF Retry, Publishers
  <2> QED
    BY <1>3, <2>1 DEF Retry, TokenInv, workerLocals
<1>4. ASSUME NEW w \in Workers, NEW m \in Publishers, Acquire(w, m) PROVE TokenInv'
  <2>1. \A v \in Workers \ {w} : pc'[v] = pc[v] /\ wtok'[v] = wtok[v]
    BY <1>4 DEF Acquire, Step, TypeOK, Actors
  <2>2. wtok'[w] = attempts' /\ attempts' = attempts + 1 /\ lease' = "live"
    BY <1>0, <1>4 DEF Acquire
  <2>3. \A v \in Holders' \ {w} : wtok'[v] \in 1..attempts
    BY <2>1 DEF TokenInv
  <2> QED
    BY <1>0, <2>2, <2>3 DEF TokenInv
<1>5. ASSUME NEW w \in Workers, NEW d \in Docs, WriteExtraction(w, d) PROVE TokenInv'
  BY <1>5 DEF WriteExtraction, TokenInv, caseVars, historyVars
<1>6. ASSUME NEW w \in Workers, LoadDocuments(w) \/ ReadForComplete(w) PROVE TokenInv'
  <2>1. Holders' = Holders
    BY <1>6 DEF LoadDocuments, ReadForComplete, Step, TypeOK, Actors
  <2> QED
    BY <1>6, <2>1 DEF LoadDocuments, ReadForComplete, TokenInv, caseVars, historyVars
<1>7. ASSUME NEW w \in Workers, Complete(w) PROVE TokenInv'
  <2>1. Holders' = Holders \ {w}
    BY <1>7 DEF Complete, Step, TypeOK, Actors
  <2> QED
    BY <1>7, <2>1 DEF Complete, TokenInv, workerLocals
<1>8. ASSUME NEW w \in Workers, Tally(w) \/ Ack(w) \/ Crash(w) PROVE TokenInv'
  <2>1. Holders' = Holders \ {w}
    BY <1>8 DEF Tally, Ack, Crash, Step, TypeOK, Actors
  <2>2. \A v \in Holders' : wtok'[v] = wtok[v]
    BY <1>8, <2>1 DEF Tally, Ack, Crash, ForgetWork, TypeOK, workerLocals
  <2> QED
    BY <1>8, <2>1, <2>2 DEF Tally, Ack, Crash, TokenInv, caseVars, historyVars
<1>9. CASE LeaseExpires
  BY <1>9 DEF LeaseExpires, TokenInv, workerLocals
<1>10. CASE Quiet
  BY <1>10 DEF Quiet, WorkerView, TokenInv
<1> QED
  BY <1>1, <1>2, <1>3, <1>4, <1>5, <1>6, <1>7, <1>8, <1>9, <1>10, QuietSteps

LEMMA TokenAlways == Spec => []TokenInv
<1>1. Init => TokenInv
  BY ActorAssumption DEF Init, TokenInv, Holders, Actors
<1>2. TypeOK /\ TokenInv /\ [Next]_vars => TokenInv'
  BY TokenStep
<1> QED
  BY <1>1, <1>2, TypeCorrect, PTL DEF Spec

\* Only RecordDocument adds to what is kept.
LEMMA KeptSteps ==
    ASSUME [Next]_vars, stored' # stored
    PROVE  \E i \in Ingestors : RecordDocument(i)
<1>1. ASSUME NEW i \in Ingestors, Ingest(i) PROVE RecordDocument(i)
  BY <1>1 DEF Ingest, CreateCase, CaseExists, CountQueued, ReadCase, RejectAltered, AlreadyPublished,
     ListDocuments, ResetCase, UploadBlob, IngestIncomplete, MarkStored, PublishTask, MarkQueued, docVars
<1>2. ASSUME NEW s \in Submitters, Submit(s) \/ MarkQueued(s) PROVE FALSE
  BY <1>2 DEF Submit, PublishTask, MarkQueued, docVars
<1>3. ASSUME NEW w \in Workers, Work(w) PROVE FALSE
  BY <1>3 DEF Work, Acquire, Refuse, LoadDocuments, WriteExtraction, ReadForComplete,
     Complete, Tally, Ack, docVars
<1>4. ASSUME NEW r \in Reviewers, Review(r) PROVE FALSE
  BY <1>4 DEF Review, OpenCase, Decide, Conflict, Retry, RetryPublish, docVars
<1>5. ~ LeaseExpires /\ ~ UNCHANGED vars
  BY DEF LeaseExpires, vars, docVars
<1>6. /\ \A m \in Publishers : ~DeadLetter(m)
      /\ \A a \in Actors : ~Crash(a)
  BY DEF DeadLetter, Crash, docVars
<1> QED
  BY <1>1, <1>2, <1>3, <1>4, <1>5, <1>6 DEF Next, Quiescent

\* What processing rests on.
ProcessingInv == LeaseInv /\ EvidenceInv /\ VersionInv /\ TokenInv

\* Until somebody disturbs it, the attempt under way is one worker's.
LEMMA Alone ==
    ASSUME TypeOK, ProcessingInv, ~preempted, NEW w \in Holders
    PROVE  /\ Phase = "running" /\ wtok[w] = attempts
           /\ pc[w] = "load" => Reading = {}
           /\ pc[w] # "load" => Reading = {wdocs[w]}
<1>1. procState = "PROCESSING" /\ wtok[w] = attempts /\ \A v \in Holders : v = w
  BY DEF ProcessingInv, LeaseInv
<1>2. w \in Workers /\ pc[w] \in {"load", "extract", "complete"}
  BY DEF Holders
<1>3. \A v \in Workers : pc[v] \in {"extract", "complete"} => v = w
  BY <1>1 DEF Holders
<1> QED
  BY <1>1, <1>2, <1>3 DEF Phase, Reading

LEMMA NobodyReads ==
    ASSUME ProcessingInv, ~preempted, procState # "PROCESSING"
    PROVE  Reading = {}
BY DEF ProcessingInv, LeaseInv, Holders, Reading

\* After a disturbance, what any attempt does is allowed.
LEMMA Overlapping ==
    ASSUME TypeOK, TypeOK', preempted, stored' = stored, preempted' = preempted,
           attempts' \in {attempts, attempts + 1}, decidedOn' \in {decidedOn, NoDecision},
           \/ extraction' = extraction
           \/ \E n \in 1..attempts, d \in Docs : extraction' = [extraction EXCEPT ![d] = n],
           \/ resultDocs' = resultDocs /\ resultAttempt' = resultAttempt
           \/ resultDocs' \in SUBSET Docs /\ resultAttempt' \in 1..attempts
    PROVE  Processing!Overlap
<1>1. Phase' \in {"waiting", "running", "over"}
  BY DEF Phase
<1>2. Reading' \in SUBSET SUBSET Docs
  BY DEF TypeOK, Reading
<1> QED
  BY <1>1, <1>2 DEF Processing!Overlap

LEMMA BeginContract ==
    ASSUME TypeOK, TypeOK', ProcessingInv, NEW w \in Workers, NEW m \in Publishers, Acquire(w, m)
    PROVE  Processing!Begin \/ Processing!Overlap
<1>1. UNCHANGED <<stored, extraction, resultDocs, resultAttempt, decidedOn, preempted>>
  BY DEF Acquire, docVars, historyVars
<1>2. CASE preempted
  BY <1>1, <1>2, Overlapping DEF Acquire
<1>3. CASE ~preempted
  <2>1. procState \notin {"PROCESSING", "TERMINAL"} /\ Reading = {}
    BY <1>3, NobodyReads DEF Acquire, Acquirable, ProcessingInv, TokenInv
  <2>2. \A v \in Workers : pc'[v] \in {"extract", "complete"} => pc[v] \in {"extract", "complete"}
    BY DEF Acquire, Step, TypeOK, Actors
  <2>3. Reading' = {}
    BY <2>1, <2>2 DEF Reading
  <2>4. Phase = "waiting" /\ Phase' = "running" /\ attempts' = attempts + 1
    BY <2>1 DEF Phase, Acquire
  <2> QED
    BY <1>1, <2>1, <2>3, <2>4 DEF Processing!Begin
<1> QED
  BY <1>2, <1>3

LEMMA TakeContract ==
    ASSUME TypeOK, TypeOK', ProcessingInv, NEW w \in Workers, LoadDocuments(w)
    PROVE  Processing!Take \/ Processing!Overlap
<1>1. UNCHANGED <<procState, attempts, stored, extraction, resultDocs, resultAttempt, decidedOn, preempted>>
  BY DEF LoadDocuments, caseVars, docVars, historyVars
<1>2. CASE preempted
  BY <1>1, <1>2, Overlapping
<1>3. CASE ~preempted
  <2>1. w \in Holders /\ pc[w] = "load" /\ Phase = "running" /\ Reading = {}
    BY <1>3, Alone DEF LoadDocuments, Step, Holders
  <2>2. /\ \A v \in Workers : pc'[v] \in {"extract", "complete"} <=> v = w
        /\ wdocs'[w] = stored
    <3>1. \A v \in Workers : pc[v] \notin {"extract", "complete"}
      BY <2>1 DEF Reading
    <3> QED
      BY <3>1 DEF LoadDocuments, Step, TypeOK, Actors
  <2>3. Reading' = {stored}
    BY <2>2 DEF Reading
  <2>4. Phase' = Phase
    BY <1>1 DEF Phase
  <2> QED
    BY <1>1, <2>1, <2>3, <2>4 DEF Processing!Take
<1> QED
  BY <1>2, <1>3

LEMMA FindContract ==
    ASSUME TypeOK, TypeOK', ProcessingInv, NEW w \in Workers, NEW d \in Docs, WriteExtraction(w, d)
    PROVE  Processing!Find \/ Processing!Overlap
<1>1. /\ UNCHANGED <<procState, attempts, stored, resultDocs, resultAttempt, decidedOn, preempted, pc, wdocs>>
      /\ extraction' = [extraction EXCEPT ![d] = wtok[w]]
      /\ w \in Holders /\ pc[w] = "extract" /\ d \in wdocs[w]
  BY DEF WriteExtraction, caseVars, historyVars, Holders, ProcessingInv, EvidenceInv
<1>2. CASE preempted
  BY <1>1, <1>2, Overlapping DEF ProcessingInv, TokenInv
<1>3. CASE ~preempted
  <2>1. Phase = "running" /\ Reading = {wdocs[w]} /\ wtok[w] = attempts
    BY <1>1, <1>3, Alone
  <2>2. Phase' = Phase /\ Reading' = Reading
    BY <1>1 DEF Phase, Reading
  <2> QED
    BY <1>1, <2>1, <2>2 DEF Processing!Find
<1> QED
  BY <1>2, <1>3

LEMMA FinishContract ==
    ASSUME TypeOK, TypeOK', ProcessingInv, NEW w \in Workers, Complete(w)
    PROVE  Processing!Finish \/ Processing!Overlap
<1>1. /\ UNCHANGED <<attempts, stored, extraction, decidedOn, preempted, wdocs>>
      /\ procState' = "TERMINAL" /\ resultDocs' = wdocs[w] /\ resultAttempt' = wtok[w]
      /\ w \in Holders /\ pc[w] = "complete" /\ wdocs[w] \in SUBSET Docs
  BY DEF Complete, docVars, historyVars, workerLocals, Step, Holders, TypeOK
<1>2. CASE preempted
  BY <1>1, <1>2, Overlapping DEF ProcessingInv, TokenInv
<1>3. CASE ~preempted
  <2>1. Phase = "running" /\ Reading = {wdocs[w]} /\ wtok[w] = attempts
    BY <1>1, <1>3, Alone
  <2>2. \A v \in Holders : v = w
    BY <1>1, <1>3 DEF ProcessingInv, LeaseInv
  <2>3. \A v \in Workers : pc'[v] \notin {"extract", "complete"}
    BY <2>2 DEF Complete, Step, TypeOK, Actors, Holders
  <2>4. Reading' = {} /\ Phase' = "over"
    BY <1>1, <2>3 DEF Reading, Phase
  <2> QED
    BY <1>1, <2>1, <2>4 DEF Processing!Finish
<1> QED
  BY <1>2, <1>3

\* A worker that returns or dies leaves the attempt, if it still holds it.
LEMMA LeaveContract ==
    ASSUME TypeOK, TypeOK', ProcessingInv, NEW w \in Workers,
           ReadForComplete(w) \/ Tally(w) \/ Ack(w) \/ Crash(w)
    PROVE  Processing!Abandon \/ Processing!Overlap \/ UNCHANGED Processing!vars
<1>1. UNCHANGED <<procState, attempts, stored, extraction, resultDocs, resultAttempt, decidedOn, preempted>>
  BY DEF ReadForComplete, Tally, Ack, Crash, caseVars, docVars, historyVars
<1>2. Phase' = Phase
  BY <1>1 DEF Phase
<1>3. CASE preempted
  BY <1>1, <1>3, Overlapping
<1>4. CASE ~preempted /\ Crash(w) /\ w \in Holders
  <2>1. Phase = "running" /\ \A v \in Holders : v = w
    BY <1>4, Alone DEF ProcessingInv, LeaseInv
  <2>2. \A v \in Workers : pc'[v] \notin {"extract", "complete"}
    BY <1>4, <2>1 DEF Crash, TypeOK, Actors, Holders
  <2>3. Reading' = {}
    BY <2>2 DEF Reading
  <2> QED
    BY <1>1, <1>2, <2>1, <2>3 DEF Processing!Abandon
<1>5. CASE ~ (Crash(w) /\ w \in Holders)
  <2>1. /\ \A v \in Workers : pc'[v] \in {"extract", "complete"} <=> pc[v] \in {"extract", "complete"}
        /\ \A v \in Workers : pc[v] \in {"extract", "complete"} => wdocs'[v] = wdocs[v]
    BY <1>5 DEF ReadForComplete, Tally, Ack, Crash, Step, ForgetWork, Holders, TypeOK, Actors, workerLocals
  <2>2. Reading' = Reading
    BY <2>1 DEF Reading
  <2> QED
    BY <1>1, <1>2, <2>2 DEF Processing!vars
<1> QED
  BY <1>3, <1>4, <1>5

\* Whoever queues or resets the case disturbs an attempt under way.
LEMMA RequeueContract ==
    ASSUME TypeOK, TypeOK', ProcessingInv, Rewrite, procState' \in {"QUEUED", "DRAFT"},
           decidedOn' \in {decidedOn, NoDecision}, \A w \in Workers : pc'[w] = pc[w],
           UNCHANGED <<attempts, stored, extraction, resultDocs, resultAttempt, wdocs>>
    PROVE  Processing!Requeue \/ Processing!Disturb \/ Processing!Overlap
<1>1. Phase' = "waiting" /\ Reading' = Reading
  BY DEF Phase, Reading
<1>2. CASE preempted
  BY <1>2, Overlapping DEF Rewrite, TypeOK
<1>3. CASE ~preempted /\ procState = "PROCESSING"
  BY <1>1, <1>3 DEF Rewrite, Phase, Processing!Disturb
<1>4. CASE ~preempted /\ procState # "PROCESSING"
  BY <1>1, <1>4 DEF Rewrite, Phase, Processing!Requeue, TypeOK
<1> QED
  BY <1>2, <1>3, <1>4

\* Every step of the pipeline is one of the contract, or stands still.
LEMMA ProcessingStep ==
    ASSUME TypeOK, TypeOK', ProcessingInv, [Next]_vars
    PROVE  [Processing!Next]_(Processing!vars)
<1> USE DEF Processing!Next
<1>1. ASSUME NEW i \in Ingestors, CreateCase(i) PROVE UNCHANGED Processing!vars
  <2>1. \A w \in Workers : pc'[w] = pc[w]
    BY <1>1, StepElsewhere DEF CreateCase, Publishers
  <2> QED
    BY <1>1, <2>1 DEF CreateCase, Processing!vars, Phase, Reading, docVars, workerLocals, historyVars
<1>2. ASSUME NEW i \in Ingestors, ResetCase(i) PROVE Processing!Next
  BY <1>2, RequeueContract, StepElsewhere DEF ResetCase, docVars, workerLocals, Publishers
<1>3. ASSUME NEW i \in Ingestors, RecordDocument(i) PROVE Processing!Keep
  <2>1. \A w \in Workers : pc'[w] = pc[w]
    BY <1>3, StepElsewhere DEF RecordDocument, Publishers
  <2>2. Phase' = Phase /\ Reading' = Reading
    BY <1>3, <2>1 DEF RecordDocument, Phase, Reading, caseVars, workerLocals
  <2>3. idoc[i] \in SUBSET Docs
    BY DEF TypeOK
  <2> QED
    BY <1>3, <2>2, <2>3 DEF RecordDocument, Processing!Keep, caseVars, historyVars
<1>4. ASSUME NEW a \in Publishers, MarkQueued(a) PROVE Processing!Next
  BY <1>4, RequeueContract, StepElsewhere DEF MarkQueued, Requeue, docVars, workerLocals
<1>5. ASSUME NEW r \in Reviewers, Retry(r) PROVE Processing!Next
  BY <1>5, RequeueContract, StepElsewhere DEF Retry, Requeue, docVars, workerLocals, Publishers
<1>6. ASSUME NEW r \in Reviewers, Decide(r) PROVE Processing!Decide
  <2>1. \A w \in Workers : pc'[w] = pc[w]
    BY <1>6, StepElsewhere DEF Decide, Publishers
  <2>2. Phase' = Phase /\ Reading' = Reading
    BY <1>6, <2>1 DEF Decide, Phase, Reading, workerLocals
  <2>3. decidedOn' = resultAttempt
    BY <1>6, DecideInformed DEF ProcessingInv
  <2> QED
    BY <1>6, <2>2, <2>3 DEF Decide, Processing!Decide, docVars, historyVars
<1>7. ASSUME NEW w \in Workers, NEW m \in Publishers, Acquire(w, m) PROVE Processing!Next
  BY <1>7, BeginContract
<1>8. ASSUME NEW w \in Workers, NEW d \in Docs, WriteExtraction(w, d) PROVE Processing!Next
  BY <1>8, FindContract
<1>9. ASSUME NEW w \in Workers, LoadDocuments(w) \/ Complete(w) PROVE Processing!Next
  BY <1>9, TakeContract, FinishContract
<1>10. ASSUME NEW w \in Workers, ReadForComplete(w) \/ Tally(w) \/ Ack(w) \/ Crash(w)
       PROVE  [Processing!Next]_(Processing!vars)
  BY <1>10, LeaveContract
<1>11. CASE LeaseExpires
  <2>1. /\ Phase' = Phase /\ Reading' = Reading
        /\ UNCHANGED <<attempts, stored, extraction, resultDocs, resultAttempt, decidedOn>>
        /\ preempted' = (preempted \/ procState = "PROCESSING")
    BY <1>11 DEF LeaseExpires, Phase, Reading, docVars, workerLocals
  <2>2. CASE procState = "PROCESSING"
    BY <2>1, <2>2 DEF Phase, Processing!Disturb
  <2>3. CASE procState # "PROCESSING"
    BY <2>1, <2>3 DEF Processing!vars, TypeOK
  <2> QED
    BY <2>2, <2>3
<1>12. CASE Quiet
  <2>1. Phase' = Phase /\ Reading' = Reading
    BY <1>12 DEF Quiet, WorkerView, Phase, Reading
  <2>2. ASSUME stored' = stored, decidedOn' = decidedOn PROVE UNCHANGED Processing!vars
    BY <1>12, <2>1, <2>2 DEF Quiet, WorkerView, Processing!vars
  <2>3. ASSUME stored' # stored PROVE [Processing!Next]_(Processing!vars)
    BY <1>3, <2>3, KeptSteps
  <2>4. ASSUME decidedOn' # decidedOn PROVE [Processing!Next]_(Processing!vars)
    BY <1>5, <1>6, <2>4, DecidedSteps
  <2> QED
    BY <2>2, <2>3, <2>4
<1> QED
  BY <1>1, <1>2, <1>3, <1>4, <1>5, <1>7, <1>8, <1>9, <1>10, <1>11, <1>12, QuietSteps

\* Attempts follow each other, for any number of workers, tasks, deliveries, uploads,
\* retries and crashes: the pipeline implements ProcessingContract.
THEOREM ProcessingImplemented == Spec => ImplementsProcessingContract
<1>1. Init => Processing!Init
  <2>1. ASSUME Init PROVE Phase = "waiting" /\ Reading = {}
    BY <2>1, ActorAssumption DEF Init, Phase, Reading, Actors
  <2> QED
    BY <2>1 DEF Init, Processing!Init
<1>2. TypeOK /\ TypeOK' /\ ProcessingInv /\ [Next]_vars => [Processing!Next]_(Processing!vars)
  BY ProcessingStep
<1>3. LeaseInv /\ EvidenceInv /\ VersionInv /\ TokenInv => ProcessingInv
  BY DEF ProcessingInv
<1> QED
  BY <1>1, <1>2, <1>3, TypeCorrect, LeaseAlways, EvidenceAlways, VersionAlways, TokenAlways, PTL
     DEF Spec, ImplementsProcessingContract, Processing!Spec

=============================================================================
