---------------------------- MODULE CasePipeline ----------------------------
(***************************************************************************)
(* The life of ONE case document: it is created by an ingestion handler,   *)
(* announced by a Pub/Sub task, processed by the workers under a lease,    *)
(* and decided or sent back for extraction by reviewers.                   *)
(*                                                                         *)
(* Every transaction of these handlers touches one case document (plus its *)
(* documents subcollection and the counters of its ingest run), so cases   *)
(* do not interact and one case is enough.  Each action below is one       *)
(* Firestore transaction or one call to a service: handlers interleave     *)
(* between them and may die between them.  The repository is the           *)
(* production one (FirestoreRepository), whose complete_case is three      *)
(* separate calls.                                                         *)
(*                                                                         *)
(* The e-mail sources (Gmail, the ingest API) call ingest with             *)
(* publish=True, allow_append=False; the Telegram source calls it with     *)
(* publish=False, allow_append=True and publishes from /submit.  The       *)
(* constant AllowAppend selects the source of the case.                    *)
(***************************************************************************)
EXTENDS Integers, FiniteSets

CONSTANTS
    Docs,            \* content hashes of attachments
    Payloads,        \* attachment sets a delivery of the message may carry
    Ingestors,       \* calls of CaseIngestor.ingest for this case, one each
    Submitters,      \* Telegram /submit commands, one each
    Reviewers,       \* reviewer sessions: each opens the case and acts once
    Workers,         \* concurrent executions of the doc-task endpoint
    AllowAppend,     \* TRUE: a Telegram case; FALSE: an e-mail case
    HasRun,          \* TRUE: the case belongs to an ingest run
    LeaseCanExpire,  \* whether processing may outlast processing_lease_seconds
    MaxDeliveries,   \* max-delivery-attempts of the doc-tasks subscription
    MaxCrashes       \* bound on the number of handlers that die half-way

Publishers == Ingestors \cup Submitters \cup Reviewers
Actors == Publishers \cup Workers

ASSUME PayloadAssumption == Payloads \subseteq SUBSET Docs

ASSUME ActorAssumption ==
    /\ Ingestors \cap Submitters = {} /\ Ingestors \cap Reviewers = {}
    /\ Submitters \cap Reviewers = {} /\ Publishers \cap Workers = {}

ASSUME SourceAssumption ==
    /\ AllowAppend \in BOOLEAN /\ HasRun \in BOOLEAN
    /\ LeaseCanExpire \in BOOLEAN
    /\ AllowAppend \/ Submitters = {}

ASSUME BoundAssumption == MaxDeliveries \in Nat /\ MaxCrashes \in Nat

NoDecision == -1

VARIABLES
    \* the case document
    procState,   \* processing_state, or "ABSENT" before ref.create
    ingState,    \* ingestion_state
    expected,    \* expected_document_ids
    version,     \* version
    attempts,    \* attempts
    lease,       \* lease_until: absent, in the future, or in the past
    resultDocs, resultAttempt,  \* result: the documents and the attempt it came from
    decidedOn,   \* review_decision: the attempt whose result the reviewer was shown
    \* its documents, and the bucket
    blobs, stored, extraction,
    \* counters of its ingest run
    runQueued, runTerminal,
    \* Pub/Sub: tasks published, tasks acknowledged or dead-lettered, delivery counts
    published, settled, deliveries,
    \* handlers: program counter and locals
    pc, incoming, created, iexp, iing, ihave, idoc,
    wmsg, wdocs, wtodo, wtok, wterm,
    rver, rseen,
    \* history: how many handlers died; whether a case was taken from the worker
    \* holding its lease, reopened after a result, queued with attachments missing
    crashes, preempted, reopened, unready

caseVars == <<procState, ingState, expected, version, attempts, lease,
              resultDocs, resultAttempt, decidedOn>>
docVars == <<blobs, stored, extraction>>
runVars == <<runQueued, runTerminal>>
queueVars == <<published, settled, deliveries>>
ingestLocals == <<incoming, created, iexp, iing, ihave, idoc>>
workerLocals == <<wmsg, wdocs, wtodo, wtok, wterm>>
reviewLocals == <<rver, rseen>>
historyVars == <<crashes, preempted, reopened, unready>>
vars == <<caseVars, docVars, runVars, queueVars, pc, ingestLocals,
          workerLocals, reviewLocals, historyVars>>

ProcStates == {"ABSENT", "DRAFT", "QUEUED", "PROCESSING", "TERMINAL", "DEAD_LETTER"}
IngStates == {"PENDING", "DOCUMENTS_STORED", "TASK_PUBLISHED"}

Outstanding == published \ settled

\* A local a handler will not read again returns to its initial value.
ForgetIngest(a) ==
    /\ incoming' = [i \in Ingestors |-> IF i = a THEN {} ELSE incoming[i]]
    /\ created' = [i \in Ingestors |-> i # a /\ created[i]]
    /\ iexp' = [i \in Ingestors |-> IF i = a THEN {} ELSE iexp[i]]
    /\ iing' = [i \in Ingestors |-> IF i = a THEN "PENDING" ELSE iing[i]]
    /\ ihave' = [i \in Ingestors |-> IF i = a THEN {} ELSE ihave[i]]
    /\ idoc' = [i \in Ingestors |-> IF i = a THEN {} ELSE idoc[i]]

ForgetWork(a) ==
    /\ wmsg' = [w \in Workers |-> IF w = a THEN {} ELSE wmsg[w]]
    /\ wdocs' = [w \in Workers |-> IF w = a THEN {} ELSE wdocs[w]]
    /\ wtodo' = [w \in Workers |-> IF w = a THEN {} ELSE wtodo[w]]
    /\ wtok' = [w \in Workers |-> IF w = a THEN 0 ELSE wtok[w]]
    /\ wterm' = [w \in Workers |-> w # a /\ wterm[w]]

ForgetReview(a) ==
    /\ rver' = [r \in Reviewers |-> IF r = a THEN 0 ELSE rver[r]]
    /\ rseen' = [r \in Reviewers |-> IF r = a THEN 0 ELSE rseen[r]]

Step(a, from, to) == pc[a] = from /\ pc' = [pc EXCEPT ![a] = to]

\* History of a handler outside the worker rewriting processing_state.
Rewrite ==
    /\ preempted' = (preempted \/ procState = "PROCESSING")
    /\ reopened' = (reopened \/ procState = "TERMINAL")

Requeue ==
    /\ Rewrite
    /\ unready' = (unready \/ ingState = "PENDING")

-----------------------------------------------------------------------------
Init ==
    /\ procState = "ABSENT" /\ ingState = "PENDING" /\ expected = {}
    /\ version = 0 /\ attempts = 0 /\ lease = "none"
    /\ resultDocs = {} /\ resultAttempt = 0 /\ decidedOn = NoDecision
    /\ blobs = {} /\ stored = {} /\ extraction = [d \in Docs |-> 0]
    /\ runQueued = 0 /\ runTerminal = 0
    /\ published = {} /\ settled = {} /\ deliveries = [m \in Publishers |-> 0]
    /\ pc = [a \in Actors |-> "idle"]
    /\ incoming = [i \in Ingestors |-> {}] /\ created = [i \in Ingestors |-> FALSE]
    /\ iexp = [i \in Ingestors |-> {}] /\ iing = [i \in Ingestors |-> "PENDING"]
    /\ ihave = [i \in Ingestors |-> {}] /\ idoc = [i \in Ingestors |-> {}]
    /\ wmsg = [w \in Workers |-> {}] /\ wdocs = [w \in Workers |-> {}]
    /\ wtodo = [w \in Workers |-> {}]
    /\ wtok = [w \in Workers |-> 0] /\ wterm = [w \in Workers |-> FALSE]
    /\ rver = [r \in Reviewers |-> 0] /\ rseen = [r \in Reviewers |-> 0]
    /\ crashes = 0
    /\ preempted = FALSE /\ reopened = FALSE /\ unready = FALSE

-----------------------------------------------------------------------------
(* CaseIngestor.ingest *)

\* create_case: ref.create succeeds, the case starts as DRAFT / PENDING.
CreateCase(i) ==
    /\ procState = "ABSENT"
    /\ Step(i, "idle", IF HasRun THEN "count" ELSE "read")
    /\ \E files \in Payloads :
          /\ incoming' = [incoming EXCEPT ![i] = files]
          /\ expected' = files
    /\ created' = [created EXCEPT ![i] = TRUE]
    /\ procState' = "DRAFT" /\ ingState' = "PENDING" /\ version' = 0
    /\ UNCHANGED <<attempts, lease, resultDocs, resultAttempt, decidedOn, docVars,
                   runVars, queueVars, iexp, iing, ihave, idoc,
                   workerLocals, reviewLocals, historyVars>>

\* create_case: ref.create raises AlreadyExists.
CaseExists(i) ==
    /\ procState # "ABSENT"
    /\ Step(i, "idle", "read")
    /\ \E files \in Payloads : incoming' = [incoming EXCEPT ![i] = files]
    /\ UNCHANGED <<caseVars, docVars, runVars, queueVars, created, iexp, iing,
                   ihave, idoc, workerLocals, reviewLocals, historyVars>>

\* create_case: the run's "queued" counter, a second write.
CountQueued(i) ==
    /\ Step(i, "count", "read")
    /\ runQueued' = runQueued + 1
    /\ UNCHANGED <<caseVars, docVars, runTerminal, queueVars, ingestLocals,
                   workerLocals, reviewLocals, historyVars>>

\* create_case: return ref.get().
ReadCase(i) ==
    /\ Step(i, "read", "list")
    /\ iexp' = [iexp EXCEPT ![i] = expected]
    /\ iing' = [iing EXCEPT ![i] = ingState]
    /\ UNCHANGED <<caseVars, docVars, runVars, queueVars, incoming, created,
                   ihave, idoc, workerLocals, reviewLocals, historyVars>>

\* Slip: the stored documents take precedence over the expected ids.
KnownIdsFromStored(i) == IF stored # {} THEN stored ELSE iexp[i]

\* What ingest takes for the case's attachment set: the ids it read, or, when
\* the case lists none, the documents that exist.
KnownIds(i) == IF iexp[i] # {} THEN iexp[i] ELSE stored

\* An e-mail case is immutable: other attachments are a ValueError.
RejectAltered(i) ==
    /\ ~created[i] /\ ~AllowAppend /\ KnownIds(i) # incoming[i]
    /\ Step(i, "list", "failed")
    /\ ForgetIngest(i)
    /\ UNCHANGED <<caseVars, docVars, runVars, queueVars, workerLocals, reviewLocals,
                   historyVars>>

\* Slip: a case whose documents are stored is taken for a published one.
AlreadyPublishedWhenStored(i) ==
    /\ ~created[i] /\ ~AllowAppend /\ KnownIds(i) = incoming[i]
    /\ iing[i] # "PENDING"
    /\ Step(i, "list", "done")
    /\ ForgetIngest(i)
    /\ UNCHANGED <<caseVars, docVars, runVars, queueVars, workerLocals, reviewLocals,
                   historyVars>>

\* The same delivery again after its task was published: nothing to do.
AlreadyPublished(i) ==
    /\ ~created[i] /\ ~AllowAppend /\ KnownIds(i) = incoming[i]
    /\ iing[i] = "TASK_PUBLISHED"
    /\ Step(i, "list", "done")
    /\ ForgetIngest(i)
    /\ UNCHANGED <<caseVars, docVars, runVars, queueVars, workerLocals, reviewLocals,
                   historyVars>>

\* Otherwise settle on the expected ids and go on to the uploads, by way of a
\* reset of the case when the ids differ from those it was read with.
ListDocuments(i) ==
    LET ids == IF ~created[i] /\ AllowAppend
               THEN KnownIds(i) \cup incoming[i] ELSE KnownIds(i)
    IN  /\ \/ created[i] \/ AllowAppend
           \/ KnownIds(i) = incoming[i] /\ iing[i] # "TASK_PUBLISHED"
        /\ Step(i, "list", IF ids # iexp[i] THEN "reset" ELSE "upload")
        /\ iexp' = [iexp EXCEPT ![i] = ids]
        /\ ihave' = [ihave EXCEPT ![i] = stored]
        /\ iing' = [iing EXCEPT ![i] = "PENDING"]
        /\ UNCHANGED <<caseVars, docVars, runVars, queueVars, incoming, created,
                       idoc, workerLocals, reviewLocals, historyVars>>

\* The expected ids changed: an unconditional update back to DRAFT / PENDING.
ResetCase(i) ==
    /\ Step(i, "reset", "upload")
    /\ expected' = iexp[i] /\ ingState' = "PENDING" /\ procState' = "DRAFT"
    /\ version' = version + 1
    /\ Rewrite
    /\ UNCHANGED <<attempts, lease, resultDocs, resultAttempt, decidedOn, docVars,
                   runVars, queueVars, ingestLocals, workerLocals, reviewLocals,
                   crashes, unready>>

MissingIncoming(i) == incoming[i] \cap (iexp[i] \ ihave[i])

\* blobs.upload of one missing attachment.
UploadBlob(i) ==
    /\ Step(i, "upload", "record")
    /\ \E d \in MissingIncoming(i) :
          /\ blobs' = blobs \cup {d}
          /\ idoc' = [idoc EXCEPT ![i] = {d}]
    /\ UNCHANGED <<caseVars, stored, extraction, runVars, queueVars, incoming, created,
                   iexp, iing, ihave, workerLocals, reviewLocals, historyVars>>

\* add_document of the uploaded attachment: set() replaces the whole record,
\* an extraction an earlier record carried included.
RecordDocument(i) ==
    /\ Step(i, "record", "upload")
    /\ stored' = stored \cup idoc[i]
    /\ ihave' = [ihave EXCEPT ![i] = @ \cup idoc[i]]
    /\ extraction' = [d \in Docs |-> IF d \in idoc[i] THEN 0 ELSE extraction[d]]
    /\ idoc' = [idoc EXCEPT ![i] = {}]
    /\ UNCHANGED <<caseVars, blobs, runVars, queueVars, incoming, created, iexp, iing,
                   workerLocals, reviewLocals, historyVars>>

\* Documents of another, unfinished delivery are still missing: RuntimeError.
IngestIncomplete(i) ==
    /\ MissingIncoming(i) = {} /\ ~ iexp[i] \subseteq ihave[i]
    /\ Step(i, "upload", "failed")
    /\ ForgetIngest(i)
    /\ UNCHANGED <<caseVars, docVars, runVars, queueVars, workerLocals, reviewLocals,
                   historyVars>>

\* Slip: the update sits inside the upload loop.
MarkStoredInLoop(i) ==
    /\ Step(i, "upload", IF AllowAppend THEN "done" ELSE "publish")
    /\ ingState' = "DOCUMENTS_STORED" /\ expected' = iexp[i]
    /\ version' = version + 1
    /\ ForgetIngest(i)
    /\ UNCHANGED <<procState, attempts, lease, resultDocs, resultAttempt, decidedOn,
                   docVars, runVars, queueVars, workerLocals, reviewLocals, historyVars>>

\* DOCUMENTS_STORED, with the expected ids this handler computed.
MarkStored(i) ==
    /\ MissingIncoming(i) = {} /\ iexp[i] \subseteq ihave[i]
    /\ Step(i, "upload", IF AllowAppend THEN "done" ELSE "publish")
    /\ ingState' = "DOCUMENTS_STORED" /\ expected' = iexp[i]
    /\ version' = version + 1
    /\ ForgetIngest(i)
    /\ UNCHANGED <<procState, attempts, lease, resultDocs, resultAttempt, decidedOn,
                   docVars, runVars, queueVars, workerLocals, reviewLocals, historyVars>>

\* The publish call of ingest and of the Telegram /submit command.
PublishTask(a, from) ==
    /\ Step(a, from, "mark")
    /\ published' = published \cup {a}
    /\ UNCHANGED <<caseVars, docVars, runVars, settled, deliveries, ingestLocals,
                   workerLocals, reviewLocals, historyVars>>

\* Only after the publish: TASK_PUBLISHED and QUEUED, unconditionally.
MarkQueued(a) ==
    /\ Step(a, "mark", "done")
    /\ ingState' = "TASK_PUBLISHED" /\ procState' = "QUEUED"
    /\ version' = version + 1
    /\ Requeue
    /\ UNCHANGED <<expected, attempts, lease, resultDocs, resultAttempt, decidedOn, docVars,
                   runVars, queueVars, ingestLocals, workerLocals, reviewLocals, crashes>>

\* /submit of an existing case: publish without looking at its ingestion state.
Submit(s) == procState # "ABSENT" /\ PublishTask(s, "idle")

Ingest(i) ==
    \/ CreateCase(i) \/ CaseExists(i) \/ CountQueued(i) \/ ReadCase(i)
    \/ RejectAltered(i) \/ AlreadyPublished(i) \/ ListDocuments(i) \/ ResetCase(i)
    \/ UploadBlob(i) \/ RecordDocument(i) \/ IngestIncomplete(i) \/ MarkStored(i)
    \/ PublishTask(i, "publish") \/ MarkQueued(i)

-----------------------------------------------------------------------------
(* The doc-task endpoint: CaseProcessor.process *)

\* Slip: the lease is not looked at.
AcquirableWithoutLease ==
    procState \notin {"ABSENT", "DRAFT", "TERMINAL", "DEAD_LETTER"}

\* Slip: a live lease refuses a requeued case too.
AcquirableOnlyUnleased ==
    /\ procState \notin {"ABSENT", "DRAFT", "TERMINAL", "DEAD_LETTER"}
    /\ lease # "live"

\* acquire_processing_lease: an unfinished case nobody holds a live lease on.
Acquirable ==
    /\ procState \notin {"ABSENT", "DRAFT", "TERMINAL", "DEAD_LETTER"}
    /\ ~ (procState = "PROCESSING" /\ lease = "live")

\* Pub/Sub pushes an unacknowledged task, whether or not an earlier push of it
\* is still being handled, up to the subscription's delivery limit.
Deliver(m) ==
    /\ m \in Outstanding /\ deliveries[m] < MaxDeliveries
    /\ deliveries' = [deliveries EXCEPT ![m] = @ + 1]

Acquire(w, m) ==
    /\ Acquirable
    /\ Deliver(m)
    /\ Step(w, "idle", "load")
    /\ procState' = "PROCESSING" /\ lease' = "live" /\ attempts' = attempts + 1
    /\ wtok' = [wtok EXCEPT ![w] = attempts + 1]
    /\ wmsg' = [wmsg EXCEPT ![w] = {m}]
    /\ UNCHANGED <<ingState, expected, version, resultDocs, resultAttempt, decidedOn,
                   docVars, runVars, published, settled, ingestLocals, wdocs, wtodo,
                   wterm, reviewLocals, historyVars>>

\* No lease: process returns the case as it is and the endpoint answers 200,
\* which acknowledges the task.
Refuse(w, m) ==
    /\ ~Acquirable
    /\ Deliver(m)
    /\ pc[w] = "idle"
    /\ settled' = settled \cup {m}
    /\ UNCHANGED <<caseVars, docVars, runVars, published, pc, ingestLocals,
                   workerLocals, reviewLocals, historyVars>>

\* list_documents and the downloads (a record without its blob raises).
LoadDocuments(w) ==
    /\ Step(w, "load", "extract")
    /\ stored \subseteq blobs
    /\ wdocs' = [wdocs EXCEPT ![w] = stored]
    /\ wtodo' = [wtodo EXCEPT ![w] = stored]
    /\ UNCHANGED <<caseVars, docVars, runVars, queueVars, ingestLocals, wmsg, wtok,
                   wterm, reviewLocals, historyVars>>

\* update_document with the extraction of a document the model recognised.
WriteExtraction(w, d) ==
    /\ pc[w] = "extract" /\ d \in wtodo[w]
    /\ wtodo' = [wtodo EXCEPT ![w] = @ \ {d}]
    /\ extraction' = [extraction EXCEPT ![d] = wtok[w]]
    /\ UNCHANGED <<caseVars, blobs, stored, runVars, queueVars, pc, ingestLocals,
                   wmsg, wdocs, wtok, wterm, reviewLocals, historyVars>>

\* complete_case, first call: remember whether the case is already TERMINAL.
ReadForComplete(w) ==
    /\ Step(w, "extract", "complete")
    /\ wterm' = [wterm EXCEPT ![w] = (procState = "TERMINAL")]
    /\ wtodo' = [wtodo EXCEPT ![w] = {}]
    /\ UNCHANGED <<caseVars, docVars, runVars, queueVars, ingestLocals, wmsg, wdocs,
                   wtok, reviewLocals, historyVars>>

\* Slip: the documents are listed again for the result.
CompleteWithListing(w) ==
    /\ Step(w, "complete", IF HasRun /\ ~wterm[w] THEN "tally" ELSE "ack")
    /\ procState' = "TERMINAL" /\ lease' = "none" /\ version' = version + 1
    /\ resultDocs' = stored /\ resultAttempt' = wtok[w]
    /\ UNCHANGED <<ingState, expected, attempts, decidedOn, docVars, runVars,
                   queueVars, ingestLocals, workerLocals, reviewLocals, historyVars>>

\* complete_case, second call: the unconditional update.
Complete(w) ==
    /\ Step(w, "complete", IF HasRun /\ ~wterm[w] THEN "tally" ELSE "ack")
    /\ procState' = "TERMINAL" /\ lease' = "none" /\ version' = version + 1
    /\ resultDocs' = wdocs[w] /\ resultAttempt' = wtok[w]
    /\ UNCHANGED <<ingState, expected, attempts, decidedOn, docVars, runVars,
                   queueVars, ingestLocals, workerLocals, reviewLocals, historyVars>>

\* complete_case, third call: the run's "terminal" counter.
Tally(w) ==
    /\ Step(w, "tally", "ack")
    /\ runTerminal' = runTerminal + 1
    /\ UNCHANGED <<caseVars, docVars, runQueued, queueVars, ingestLocals,
                   workerLocals, reviewLocals, historyVars>>

\* The endpoint returns 200 and Pub/Sub drops the task.
Ack(w) ==
    /\ Step(w, "ack", "idle")
    /\ settled' = settled \cup wmsg[w]
    /\ ForgetWork(w)
    /\ UNCHANGED <<caseVars, docVars, runVars, published, deliveries, ingestLocals,
                   reviewLocals, historyVars>>

Work(w) ==
    \/ \E m \in Publishers : Acquire(w, m) \/ Refuse(w, m)
    \/ LoadDocuments(w) \/ ReadForComplete(w) \/ Complete(w) \/ Tally(w) \/ Ack(w)
    \/ \E d \in Docs : WriteExtraction(w, d)

\* The delivery limit is used up and nobody is handling the task any more.
DeadLetter(m) ==
    /\ m \in Outstanding /\ deliveries[m] = MaxDeliveries
    /\ \A w \in Workers : pc[w] # "idle" => m \notin wmsg[w]
    /\ settled' = settled \cup {m}
    /\ UNCHANGED <<caseVars, docVars, runVars, published, deliveries, pc, ingestLocals,
                   workerLocals, reviewLocals, historyVars>>

-----------------------------------------------------------------------------
(* Reviewers: the case detail, the review endpoint and the retry endpoint *)

OpenCase(r) ==
    /\ procState # "ABSENT"
    /\ Step(r, "idle", "viewing")
    /\ rver' = [rver EXCEPT ![r] = version]
    /\ rseen' = [rseen EXCEPT ![r] = resultAttempt]
    /\ UNCHANGED <<caseVars, docVars, runVars, queueVars, ingestLocals,
                   workerLocals, historyVars>>

\* Slip: the decision is stored without expected_version.
DecideUnchecked(r) ==
    /\ Step(r, "viewing", "done")
    /\ decidedOn' = rseen[r] /\ version' = version + 1
    /\ ForgetReview(r)
    /\ UNCHANGED <<procState, ingState, expected, attempts, lease, resultDocs,
                   resultAttempt, docVars, runVars, queueVars, ingestLocals,
                   workerLocals, historyVars>>

\* A decision is stored only under the version the reviewer was shown.
Decide(r) ==
    /\ Step(r, "viewing", "done")
    /\ version = rver[r]
    /\ decidedOn' = rseen[r] /\ version' = version + 1
    /\ ForgetReview(r)
    /\ UNCHANGED <<procState, ingState, expected, attempts, lease, resultDocs,
                   resultAttempt, docVars, runVars, queueVars, ingestLocals,
                   workerLocals, historyVars>>

\* HTTP 409: the case changed since it was shown.
Conflict(r) ==
    /\ Step(r, "viewing", "done")
    /\ version # rver[r]
    /\ ForgetReview(r)
    /\ UNCHANGED <<caseVars, docVars, runVars, queueVars, ingestLocals,
                   workerLocals, historyVars>>

\* retry_case: requeue and clear the decision, in whatever state the case is.
\* expected_version is an optional parameter of the endpoint, so the step has no
\* version guard; the retries that carry one are among these steps.
Retry(r) ==
    /\ Step(r, "viewing", "republish")
    /\ procState' = "QUEUED" /\ decidedOn' = NoDecision /\ version' = version + 1
    /\ Requeue
    /\ ForgetReview(r)
    /\ UNCHANGED <<ingState, expected, attempts, lease, resultDocs, resultAttempt,
                   docVars, runVars, queueVars, ingestLocals, workerLocals,
                   crashes>>

\* retry_case, afterwards: publish the new task.
RetryPublish(r) ==
    /\ Step(r, "republish", "done")
    /\ published' = published \cup {r}
    /\ UNCHANGED <<caseVars, docVars, runVars, settled, deliveries, ingestLocals,
                   workerLocals, reviewLocals, historyVars>>

Review(r) == OpenCase(r) \/ Decide(r) \/ Conflict(r) \/ Retry(r) \/ RetryPublish(r)

-----------------------------------------------------------------------------
(* Time and failures *)

LeaseExpires ==
    /\ LeaseCanExpire /\ lease = "live"
    /\ lease' = "expired"
    /\ preempted' = (preempted \/ procState = "PROCESSING")
    /\ UNCHANGED <<procState, ingState, expected, version, attempts, resultDocs,
                   resultAttempt, decidedOn, docVars, runVars, queueVars, pc,
                   ingestLocals, workerLocals, reviewLocals, crashes, reopened, unready>>

\* A handler raises or its instance dies: no cleanup runs, the lease stays, the
\* answer is not 200, so the task it was pushed stays outstanding.
Crash(a) ==
    /\ crashes < MaxCrashes
    /\ pc[a] \notin {"idle", "done", "failed", "viewing"}
    /\ pc' = [pc EXCEPT ![a] = IF a \in Workers THEN "idle" ELSE "failed"]
    /\ crashes' = crashes + 1
    /\ ForgetIngest(a) /\ ForgetWork(a)
    /\ UNCHANGED <<caseVars, docVars, runVars, queueVars, reviewLocals,
                   preempted, reopened, unready>>

\* Every handler has returned and no task is left: the system may stop.
Quiescent ==
    /\ \A a \in Publishers : pc[a] \in {"done", "failed"}
    /\ \A w \in Workers : pc[w] = "idle"
    /\ Outstanding = {}
    /\ UNCHANGED vars

Next ==
    \/ \E i \in Ingestors : Ingest(i)
    \/ \E s \in Submitters : Submit(s) \/ MarkQueued(s)
    \/ \E w \in Workers : Work(w)
    \/ \E r \in Reviewers : Review(r)
    \/ \E m \in Publishers : DeadLetter(m)
    \/ LeaseExpires
    \/ \E a \in Actors : Crash(a)
    \/ Quiescent

Spec == Init /\ [][Next]_vars

\* A running handler goes on until it returns or crashes; Pub/Sub keeps pushing a
\* task that is not acknowledged; time passes.  Nobody has to open, decide or
\* retry a case, to submit it, or to deliver the message that starts an ingestion.
Fairness ==
    /\ \A i \in Ingestors : WF_vars(pc[i] # "idle" /\ Ingest(i))
    /\ \A s \in Submitters : WF_vars(MarkQueued(s))
    /\ \A r \in Reviewers : WF_vars(RetryPublish(r))
    /\ \A w \in Workers : WF_vars(pc[w] # "idle" /\ Work(w))
    /\ \A m \in Publishers : SF_vars(\E w \in Workers : Acquire(w, m) \/ Refuse(w, m))
    /\ WF_vars(LeaseExpires)

FairSpec == Spec /\ Fairness

-----------------------------------------------------------------------------
(* Properties *)

PcStates == {"idle", "count", "read", "list", "reset", "upload", "record", "publish",
             "mark", "load", "extract", "complete", "tally", "ack", "viewing",
             "republish", "done", "failed"}

\* Every variable has its type.
TypeOK ==
    /\ procState \in ProcStates /\ ingState \in IngStates /\ expected \subseteq Docs
    /\ version \in Nat /\ attempts \in Nat /\ lease \in {"none", "live", "expired"}
    /\ resultDocs \subseteq Docs /\ resultAttempt \in Nat /\ decidedOn \in Nat \cup {NoDecision}
    /\ blobs \subseteq Docs /\ stored \subseteq Docs /\ extraction \in [Docs -> Nat]
    /\ runQueued \in Nat /\ runTerminal \in Nat
    /\ published \subseteq Publishers /\ settled \subseteq Publishers
    /\ deliveries \in [Publishers -> Nat]
    /\ pc \in [Actors -> PcStates]
    /\ incoming \in [Ingestors -> SUBSET Docs] /\ created \in [Ingestors -> BOOLEAN]
    /\ iexp \in [Ingestors -> SUBSET Docs] /\ iing \in [Ingestors -> IngStates]
    /\ ihave \in [Ingestors -> SUBSET Docs] /\ idoc \in [Ingestors -> SUBSET Docs]
    /\ wmsg \in [Workers -> SUBSET Publishers] /\ wdocs \in [Workers -> SUBSET Docs]
    /\ wtodo \in [Workers -> SUBSET Docs]
    /\ wtok \in [Workers -> Nat] /\ wterm \in [Workers -> BOOLEAN]
    /\ rver \in [Reviewers -> Nat] /\ rseen \in [Reviewers -> Nat]
    /\ crashes \in Nat
    /\ preempted \in BOOLEAN /\ reopened \in BOOLEAN /\ unready \in BOOLEAN

\* The workers that hold the case: from the lease to the completing update.
Holders == {w \in Workers : pc[w] \in {"load", "extract", "complete"}}

\* While no lease runs out and no handler rewrites a case in PROCESSING, at most
\* one worker is between acquire_processing_lease and complete_case, whatever the
\* duplicate deliveries and crashes, and however often the case is retried.
LeaseExclusion ==
    ~preempted => \A v, w \in Holders : v = w

\* Duplicate deliveries and crashes alone never cause a second processing attempt,
\* nor count the case twice in its ingest run: only a lost lease or a rewrite of
\* processing_state by another handler does.
DuplicatesRunOnce ==
    ~preempted /\ ~reopened => attempts <= 1 /\ runTerminal <= 1

\* A finished case carries the result of its newest attempt: an older worker
\* cannot have overwritten it.
NewestAttemptWins ==
    ~preempted /\ procState = "TERMINAL" => resultAttempt = attempts

\* A task that ingest published announces a case whose expected documents are all
\* recorded and whose records all have their bytes in the bucket.
PublishedOnlyComplete ==
    published \cap Ingestors # {} => expected \subseteq stored /\ stored \subseteq blobs

\* Unless a retry queued the case before its documents were in, a result was
\* computed from exactly the attachment set the case was created with.
ResultFromFullSet ==
    ~unready /\ resultAttempt # 0 => resultDocs = expected

\* A stored decision is about the result the reviewer was shown, which is still
\* the result at the moment the decision is stored.
DecisionOnSeenResult ==
    [][decidedOn' # decidedOn /\ decidedOn' # NoDecision => decidedOn' = resultAttempt]_vars

\* The attachment set of an e-mail case is fixed when the case is created.
ImmutableAttachments ==
    [][procState # "ABSENT" => expected' = expected]_vars

\* In a case processed once, the extractions shown beside the result are those of
\* the attempt the result came from, and of documents that attempt had loaded.
EvidenceMatchesResult ==
    ~preempted /\ ~reopened /\ procState = "TERMINAL" =>
        \A d \in Docs : extraction[d] # 0 =>
            extraction[d] = resultAttempt /\ d \in resultDocs

\* An ingestion that reaches the case resumes what a crashed one left behind: once
\* no handler crashes any more, the case gets its task published.
ResumableIngestion ==
    (crashes = MaxCrashes /\ \E i \in Ingestors : pc[i] = "read")
        ~> (ingState = "TASK_PUBLISHED")

\* Once no handler crashes any more, a task that is outstanding for a queued case and
\* in no worker's hands is enough for the case to be finished.
QueuedTaskCompletes ==
    (/\ procState = "QUEUED" /\ crashes = MaxCrashes
     /\ \E m \in Outstanding :
           deliveries[m] < MaxDeliveries /\ \A w \in Workers : m \notin wmsg[w])
        ~> (procState = "TERMINAL")

\* The contract of an e-mail case, with the handlers' steps mapped onto it.
Contract == INSTANCE CaseContract WITH
    phase <- IF procState = "ABSENT" THEN "absent"
             ELSE IF ingState = "PENDING" THEN "collecting" ELSE "ready",
    attachments <- expected, kept <- stored, announced <- published # {},
    forced <- unready, finished <- resultAttempt # 0, outcome <- resultDocs

\* The pipeline implements the contract: no interleaving of deliveries, crashes,
\* workers and reviewers shows an announcement or an outcome the contract forbids.
ImplementsContract == Contract!Spec

\* The case as processing sees it, and what the workers holding it have loaded.
Phase ==
    IF procState = "PROCESSING" THEN "running"
    ELSE IF procState = "TERMINAL" THEN "over" ELSE "waiting"

Reading == {wdocs[w] : w \in {v \in Workers : pc[v] \in {"extract", "complete"}}}

\* What workers, tasks and leases are for: until a lease is lost or the case rewritten
\* under a worker's hands, attempts follow each other.  A result comes from the documents
\* the newest attempt loaded, all at one moment, and that attempt alone wrote the
\* extractions found meanwhile; what is decided is decided on the result there is.
Processing == INSTANCE ProcessingContract WITH
    state <- Phase, attempt <- attempts, kept <- stored, reading <- Reading,
    findings <- extraction, result <- [docs |-> resultDocs, attempt |-> resultAttempt],
    decided <- decidedOn, disturbed <- preempted

ImplementsProcessingContract == Processing!Spec

-----------------------------------------------------------------------------
(* What the documentation says, and the code does not do *)

\* README.md:30, "exactly-once execution semantics despite Pub/Sub duplicate
\* deliveries": a case whose task was published gets processed.
PublishedCaseCompletes == (ingState = "TASK_PUBLISHED") ~> (procState = "TERMINAL")

\* README.md:30, "exactly-once": a queued case with a task outstanding is finished,
\* a worker that fails while processing it notwithstanding.
QueuedCaseSurvivesFailure ==
    (procState = "QUEUED" /\ Outstanding # {}) ~> (procState = "TERMINAL")

\* README.md:18, "tasks are published to Pub/Sub only after 100% of attachments are
\* confirmed in Google Cloud Storage".
TaskOnlyWhenComplete == Outstanding # {} => expected \subseteq stored

\* README.md:19, "append-mode unions additional documents safely": a document that
\* was added to the case is one of its expected documents.
AppendKeepsUnion == stored \subseteq expected

=============================================================================
