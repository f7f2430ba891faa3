--------------------------- MODULE EmailCaseProofs ---------------------------
(***************************************************************************)
(* What CasePipeline guarantees of an e-mail case (~AllowAppend): its      *)
(* attachment set never changes, its task is published only when all of    *)
(* it is stored, and its result comes from all of it, so that the pipeline *)
(* implements CaseContract.                                                *)
(***************************************************************************)
EXTENDS CasePipelineProofs

\* A task may exist for the case: its documents are confirmed, or a retry forced it.
Ready == unready \/ ingState # "PENDING"

CaseOK ==
    /\ procState = "ABSENT" =>
          /\ expected = {} /\ stored = {} /\ blobs = {} /\ ingState = "PENDING"
          /\ published = {} /\ resultAttempt = 0 /\ ~unready
          /\ \A a \in Actors : pc[a] = "idle"
          /\ \A i \in Ingestors : ~created[i]
    /\ stored \subseteq blobs /\ stored \subseteq expected
    /\ ingState # "PENDING" => expected \subseteq stored
    /\ published \cap Ingestors # {} => ingState # "PENDING"
    /\ published # {} => Ready
    /\ procState \notin {"ABSENT", "DRAFT", "DEAD_LETTER"} => Ready
    /\ ~unready /\ resultAttempt # 0 => resultDocs = expected /\ Ready

\* What an ingestion has read still holds, and the case is never reset.
IngestorOK(i) ==
    /\ pc[i] # "reset"
    /\ created[i] => pc[i] # "idle" /\ incoming[i] = expected
    /\ pc[i] \in {"list", "upload", "record"} => iexp[i] = expected
    /\ pc[i] \in {"upload", "record"} => ihave[i] \subseteq stored
    /\ pc[i] = "record" => \E d \in expected \cap blobs : idoc[i] = {d}
    /\ pc[i] \in {"publish", "mark"} => ingState # "PENDING"

ReviewerOK(r) == pc[r] = "republish" => Ready

\* A worker holding the case works on the full set, unless the case was forced.
WorkerOK(w) ==
    /\ w \in Holders => wtok[w] # 0 /\ published # {} /\ Ready
    /\ pc[w] \in {"extract", "complete"} =>
          wdocs[w] \subseteq stored /\ (~unready => wdocs[w] = expected)

EmailInv ==
    /\ CaseOK
    /\ \A i \in Ingestors : IngestorOK(i)
    /\ \A r \in Reviewers : ReviewerOK(r)
    /\ \A w \in Workers : WorkerOK(w)

\* Once the case exists its storage only grows.
Grows ==
    /\ expected' = expected
    /\ stored \subseteq stored' /\ blobs \subseteq blobs' /\ published \subseteq published'
    /\ ingState # "PENDING" => ingState' # "PENDING"
    /\ unready => unready'

-----------------------------------------------------------------------------
LEMMA Moves ==
    ASSUME TypeOK, NEW a \in Actors, NEW from, NEW to, Step(a, from, to)
    PROVE  /\ pc[a] = from /\ pc'[a] = to
           /\ \A b \in Actors \ {a} : pc'[b] = pc[b]
BY DEF Step, TypeOK

\* A growing case leaves the handlers that do not move as they should be.
LEMMA Frame ==
    ASSUME EmailInv, Grows, NEW a,
           \A b \in Actors \ {a} : pc'[b] = pc[b],
           \A i \in Ingestors \ {a} :
              /\ incoming'[i] = incoming[i] /\ created'[i] = created[i]
              /\ iexp'[i] = iexp[i] /\ ihave'[i] = ihave[i] /\ idoc'[i] = idoc[i],
           \A w \in Workers \ {a} : wdocs'[w] = wdocs[w] /\ wtok'[w] = wtok[w]
    PROVE  /\ \A i \in Ingestors \ {a} : IngestorOK(i)'
           /\ \A r \in Reviewers \ {a} : ReviewerOK(r)'
           /\ \A w \in Workers \ {a} : WorkerOK(w)'
<1>1. ASSUME NEW i \in Ingestors \ {a} PROVE IngestorOK(i)'
  <2>1. IngestorOK(i) /\ pc'[i] = pc[i]
    BY DEF EmailInv, Actors, Publishers
  <2> QED
    BY <2>1 DEF Grows, IngestorOK
<1>2. ASSUME NEW r \in Reviewers \ {a} PROVE ReviewerOK(r)'
  <2>1. ReviewerOK(r) /\ pc'[r] = pc[r]
    BY DEF EmailInv, Actors, Publishers
  <2> QED
    BY <2>1 DEF Grows, ReviewerOK, Ready
<1>3. ASSUME NEW w \in Workers \ {a} PROVE WorkerOK(w)'
  <2>1. WorkerOK(w) /\ pc'[w] = pc[w]
    BY DEF EmailInv, Actors
  <2> QED
    BY <2>1 DEF Grows, WorkerOK, Ready, Holders
<1> QED
  BY <1>1, <1>2, <1>3

LEMMA ForgetIngestOther ==
    ASSUME TypeOK, NEW a, ForgetIngest(a)
    PROVE  \A i \in Ingestors \ {a} :
              /\ incoming'[i] = incoming[i] /\ created'[i] = created[i]
              /\ iexp'[i] = iexp[i] /\ ihave'[i] = ihave[i] /\ idoc'[i] = idoc[i]
BY DEF ForgetIngest, TypeOK

LEMMA ForgetWorkOther ==
    ASSUME TypeOK, NEW a, ForgetWork(a)
    PROVE  \A w \in Workers \ {a} : wdocs'[w] = wdocs[w] /\ wtok'[w] = wtok[w]
BY DEF ForgetWork, TypeOK

\* A step that touches neither the case nor its documents and tasks.
LEMMA SameCase ==
    ASSUME CaseOK, procState # "ABSENT", UNCHANGED <<caseVars, docVars, published, unready>>
    PROVE  CaseOK' /\ Grows
BY DEF CaseOK, Grows, Ready, caseVars, docVars

\* A handler that has started acts on an existing case.
LEMMA Exists ==
    ASSUME CaseOK, NEW a \in Actors, pc[a] # "idle"
    PROVE  procState # "ABSENT"
BY DEF CaseOK

LEMMA EmailCreate ==
    ASSUME TypeOK, EmailInv, NEW i \in Ingestors, CreateCase(i)
    PROVE  EmailInv'
<1> USE DEF Actors, Publishers
<1>1. /\ pc'[i] \in {"count", "read"}
      /\ \A a \in Actors \ {i} : pc'[a] = "idle"
  BY Moves DEF CreateCase, EmailInv, CaseOK
<1>2. CaseOK'
  BY <1>1 DEF CreateCase, EmailInv, CaseOK, Ready, docVars, queueVars, historyVars
<1>3. ASSUME NEW j \in Ingestors PROVE IngestorOK(j)'
  BY <1>1 DEF CreateCase, EmailInv, CaseOK, IngestorOK, TypeOK
<1>4. ASSUME NEW r \in Reviewers PROVE ReviewerOK(r)'
  BY <1>1, ActorAssumption DEF ReviewerOK
<1>5. ASSUME NEW w \in Workers PROVE WorkerOK(w)'
  BY <1>1, ActorAssumption DEF WorkerOK, Holders
<1> QED
  BY <1>2, <1>3, <1>4, <1>5 DEF EmailInv

\* Every other ingestion step leaves the other handlers' locals alone.
LEMMA IngestFrame ==
    ASSUME TypeOK, EmailInv, NEW i \in Ingestors, Ingest(i), ~CreateCase(i), Grows,
           CaseOK', IngestorOK(i)'
    PROVE  EmailInv'
<1> /\ i \in Actors
    /\ \A r \in Reviewers : r # i
    /\ \A w \in Workers : w # i
  BY ActorAssumption DEF Actors, Publishers
<1>1. \A b \in Actors \ {i} : pc'[b] = pc[b]
  BY Moves DEF Ingest, CaseExists, CountQueued, ReadCase, RejectAltered, AlreadyPublished,
     ListDocuments, ResetCase, UploadBlob, RecordDocument, IngestIncomplete, MarkStored,
     PublishTask, MarkQueued
<1>2. \A j \in Ingestors \ {i} :
         /\ incoming'[j] = incoming[j] /\ created'[j] = created[j]
         /\ iexp'[j] = iexp[j] /\ ihave'[j] = ihave[j] /\ idoc'[j] = idoc[j]
  <2>1. CASE ForgetIngest(i)
    BY <2>1, ForgetIngestOther
  <2>2. CASE CaseExists(i) \/ CountQueued(i) \/ ReadCase(i) \/ ListDocuments(i)
    BY <2>2 DEF CaseExists, CountQueued, ReadCase, ListDocuments, TypeOK, ingestLocals
  <2>3. CASE ResetCase(i) \/ UploadBlob(i) \/ RecordDocument(i)
    BY <2>3 DEF ResetCase, UploadBlob, RecordDocument, TypeOK, ingestLocals
  <2>4. CASE PublishTask(i, "publish") \/ MarkQueued(i)
    BY <2>4 DEF PublishTask, MarkQueued, ingestLocals
  <2> QED
    BY <2>1, <2>2, <2>3, <2>4 DEF Ingest, RejectAltered, AlreadyPublished,
       IngestIncomplete, MarkStored
<1>3. wdocs' = wdocs /\ wtok' = wtok
  BY DEF Ingest, CaseExists, CountQueued, ReadCase, RejectAltered, AlreadyPublished,
     ListDocuments, ResetCase, UploadBlob, RecordDocument, IngestIncomplete, MarkStored,
     PublishTask, MarkQueued, workerLocals
<1>4. /\ \A j \in Ingestors \ {i} : IngestorOK(j)'
      /\ \A r \in Reviewers \ {i} : ReviewerOK(r)'
      /\ \A w \in Workers \ {i} : WorkerOK(w)'
  BY <1>1, <1>2, <1>3, Frame
<1>5. ASSUME NEW j \in Ingestors PROVE IngestorOK(j)'
  BY <1>4
<1>6. ASSUME NEW r \in Reviewers PROVE ReviewerOK(r)'
  BY <1>4
<1>7. ASSUME NEW w \in Workers PROVE WorkerOK(w)'
  BY <1>4
<1> QED
  BY <1>5, <1>6, <1>7 DEF EmailInv

\* The ingestion keeps the invariant: it never finds a reason to reset the case, and
\* confirms it only with every expected document recorded.
LEMMA EmailIngest ==
    ASSUME ~AllowAppend, TypeOK, EmailInv, NEW i \in Ingestors, Ingest(i)
    PROVE  EmailInv' /\ (CreateCase(i) \/ Grows)
<1> i \in Actors
  BY DEF Actors, Publishers
<1> USE DEF EmailInv
<1>1. CASE CreateCase(i)
  BY <1>1, EmailCreate
<1> SUFFICES ASSUME ~CreateCase(i) PROVE Grows /\ CaseOK' /\ IngestorOK(i)'
  BY <1>1, IngestFrame
<1>2. procState # "ABSENT"
  BY Exists, Moves DEF Ingest, CaseExists, CountQueued, ReadCase, RejectAltered,
     AlreadyPublished, ListDocuments, ResetCase, UploadBlob, RecordDocument,
     IngestIncomplete, MarkStored, PublishTask, MarkQueued
<1>3. CASE CaseExists(i) \/ CountQueued(i) \/ ReadCase(i)
  <2>1. CaseOK' /\ Grows
    BY <1>2, <1>3, SameCase DEF CaseExists, CountQueued, ReadCase, queueVars, historyVars
  <2>2. pc'[i] \in {"read", "list"} /\ (pc'[i] = "list" => iexp'[i] = expected)
    BY <1>3, Moves DEF CaseExists, CountQueued, ReadCase, TypeOK
  <2>3. created'[i] => incoming'[i] = expected
    BY <1>3 DEF CaseExists, CountQueued, ReadCase, IngestorOK, TypeOK, ingestLocals,
       Step, CaseOK
  <2> QED
    BY <2>1, <2>2, <2>3 DEF Grows, IngestorOK
<1>4. CASE RejectAltered(i) \/ AlreadyPublished(i) \/ IngestIncomplete(i)
  <2>1. CaseOK' /\ Grows
    BY <1>2, <1>4, SameCase DEF RejectAltered, AlreadyPublished, IngestIncomplete,
       queueVars, historyVars
  <2>2. pc'[i] \in {"failed", "done"} /\ ~created'[i]
    BY <1>4, Moves DEF RejectAltered, AlreadyPublished, IngestIncomplete, ForgetIngest
  <2> QED
    BY <2>1, <2>2 DEF IngestorOK
<1>5. CASE ListDocuments(i)
  <2>1. CaseOK' /\ Grows
    BY <1>2, <1>5, SameCase DEF ListDocuments, queueVars, historyVars
  <2>2. pc[i] = "list" /\ iexp[i] = expected /\ KnownIds(i) = expected
    BY <1>5, Moves DEF ListDocuments, IngestorOK, KnownIds, CaseOK
  <2>3. pc'[i] = "upload" /\ iexp'[i] = expected /\ ihave'[i] = stored
    BY <1>5, <2>2, Moves DEF ListDocuments, TypeOK
  <2> QED
    BY <1>5, <2>1, <2>3 DEF ListDocuments, Grows, IngestorOK, docVars
<1>6. CASE ResetCase(i)
  BY <1>6, Moves DEF ResetCase, IngestorOK
<1>7. CASE UploadBlob(i)
  <2>1. PICK d \in iexp[i] : blobs' = blobs \cup {d} /\ idoc' = [idoc EXCEPT ![i] = {d}]
    BY <1>7 DEF UploadBlob, MissingIncoming
  <2>2. pc[i] = "upload" /\ pc'[i] = "record" /\ iexp[i] = expected /\ ihave[i] \subseteq stored
    BY <1>7, Moves DEF UploadBlob, IngestorOK
  <2>3. idoc'[i] = {d}
    BY <2>1 DEF TypeOK
  <2>4. CaseOK' /\ Grows
    BY <1>2, <1>7, <2>1 DEF UploadBlob, CaseOK, Grows, Ready, caseVars, queueVars,
       historyVars
  <2> QED
    BY <1>7, <2>1, <2>2, <2>3, <2>4 DEF UploadBlob, IngestorOK, caseVars
<1>8. CASE RecordDocument(i)
  <2>1. pc[i] = "record" /\ pc'[i] = "upload" /\ iexp[i] = expected /\ ihave[i] \subseteq stored
    BY <1>8, Moves DEF RecordDocument, IngestorOK
  <2>2. PICK d \in expected \cap blobs : idoc[i] = {d}
    BY <2>1 DEF IngestorOK
  <2>3. stored' = stored \cup {d} /\ ihave'[i] = ihave[i] \cup {d}
    BY <1>8, <2>2 DEF RecordDocument, TypeOK
  <2>4. CaseOK' /\ Grows
    BY <1>2, <1>8, <2>2, <2>3 DEF RecordDocument, CaseOK, Grows, Ready, caseVars, queueVars,
       historyVars
  <2> QED
    BY <1>8, <2>1, <2>3, <2>4 DEF RecordDocument, IngestorOK, caseVars
<1>9. CASE MarkStored(i)
  <2>1. iexp[i] = expected /\ expected \subseteq stored /\ pc'[i] = "publish" /\ ~created'[i]
    BY <1>9, Moves DEF MarkStored, IngestorOK, ForgetIngest
  <2>2. CaseOK' /\ Grows
    BY <1>2, <1>9, <2>1 DEF MarkStored, CaseOK, Grows, Ready, docVars, queueVars, historyVars
  <2> QED
    BY <1>9, <2>1, <2>2 DEF MarkStored, IngestorOK
<1>10. CASE PublishTask(i, "publish")
  <2>1. ingState # "PENDING" /\ pc'[i] = "mark"
    BY <1>10, Moves DEF PublishTask, IngestorOK
  <2>2. CaseOK' /\ Grows
    BY <1>2, <1>10, <2>1 DEF PublishTask, CaseOK, Grows, Ready, caseVars, docVars, historyVars
  <2> QED
    BY <1>10, <2>1, <2>2 DEF PublishTask, IngestorOK, caseVars, docVars, ingestLocals
<1>11. CASE MarkQueued(i)
  <2>1. ingState # "PENDING" /\ pc'[i] = "done"
    BY <1>11, Moves DEF MarkQueued, IngestorOK
  <2>2. CaseOK' /\ Grows
    BY <1>2, <1>11, <2>1 DEF MarkQueued, Requeue, CaseOK, Grows, Ready, docVars, queueVars
  <2> QED
    BY <1>11, <2>1, <2>2 DEF MarkQueued, IngestorOK, docVars, ingestLocals
<1> QED
  BY <1>3, <1>4, <1>5, <1>6, <1>7, <1>8, <1>9, <1>10, <1>11 DEF Ingest

\* A worker's step keeps the invariant: what it loads is the full set, unless forced.
LEMMA EmailWork ==
    ASSUME TypeOK, EmailInv, NEW w \in Workers, Work(w)
    PROVE  EmailInv' /\ Grows
<1> /\ w \in Actors
    /\ \A i \in Ingestors : i # w
    /\ \A r \in Reviewers : r # w
  BY ActorAssumption DEF Actors, Publishers
<1> USE DEF EmailInv
<1>1. ASSUME NEW m \in Publishers, Refuse(w, m) PROVE EmailInv' /\ Grows
  <2>1. CaseOK' /\ Grows
    BY <1>1 DEF Refuse, CaseOK, Grows, Ready, caseVars, docVars, ingestLocals, historyVars
  <2>2. pc' = pc /\ UNCHANGED <<ingestLocals, wdocs, wtok>>
    BY <1>1 DEF Refuse, workerLocals
  <2>3. /\ \A i \in Ingestors : IngestorOK(i)'
        /\ \A r \in Reviewers : ReviewerOK(r)'
    BY <2>1, <2>2, Frame DEF ingestLocals
  <2>4. \A v \in Workers : WorkerOK(v)'
    BY <2>1, <2>2 DEF Grows, WorkerOK, Holders, Ready
  <2> QED
    BY <2>1, <2>3, <2>4
<1> SUFFICES ASSUME \A m \in Publishers : ~Refuse(w, m)
             PROVE  EmailInv' /\ Grows
  BY <1>1
<1>2. pc[w] # "idle" \/ procState # "ABSENT"
  BY DEF Work, Acquire, Acquirable, LoadDocuments, ReadForComplete, Complete, Tally, Ack,
     WriteExtraction, Step
<1>3. procState # "ABSENT"
  BY <1>2, Exists
<1>4. /\ UNCHANGED ingestLocals
      /\ \A b \in Actors \ {w} : pc'[b] = pc[b]
      /\ \A v \in Workers \ {w} : wdocs'[v] = wdocs[v] /\ wtok'[v] = wtok[v]
  <2>1. ASSUME NEW m \in Publishers, Acquire(w, m)
        PROVE  /\ UNCHANGED ingestLocals
               /\ \A b \in Actors \ {w} : pc'[b] = pc[b]
               /\ \A v \in Workers \ {w} : wdocs'[v] = wdocs[v] /\ wtok'[v] = wtok[v]
    BY <2>1, Moves DEF Acquire, TypeOK
  <2>2. CASE LoadDocuments(w) \/ ReadForComplete(w) \/ \E d \in Docs : WriteExtraction(w, d)
    BY <2>2, Moves DEF LoadDocuments, ReadForComplete, WriteExtraction, TypeOK
  <2>3. CASE Complete(w) \/ Tally(w)
    BY <2>3, Moves DEF Complete, Tally, workerLocals
  <2>4. CASE Ack(w)
    BY <2>4, Moves, ForgetWorkOther DEF Ack
  <2> QED
    BY <2>1, <2>2, <2>3, <2>4 DEF Work
<1> SUFFICES CaseOK' /\ Grows /\ WorkerOK(w)'
  <2>1. ASSUME CaseOK', Grows, WorkerOK(w)' PROVE EmailInv'
    <3>1. /\ \A i \in Ingestors \ {w} : IngestorOK(i)'
          /\ \A r \in Reviewers \ {w} : ReviewerOK(r)'
          /\ \A v \in Workers \ {w} : WorkerOK(v)'
      BY <1>4, <2>1, Frame DEF ingestLocals
    <3>2. ASSUME NEW i \in Ingestors PROVE IngestorOK(i)'
      BY <3>1
    <3>3. ASSUME NEW r \in Reviewers PROVE ReviewerOK(r)'
      BY <3>1
    <3>4. ASSUME NEW v \in Workers PROVE WorkerOK(v)'
      BY <2>1, <3>1
    <3> QED
      BY <2>1, <3>2, <3>3, <3>4
  <2> QED
    BY <2>1
<1>5. ASSUME NEW m \in Publishers, Acquire(w, m) PROVE CaseOK' /\ Grows /\ WorkerOK(w)'
  <2>1. Ready /\ published # {} /\ pc'[w] = "load" /\ wtok'[w] # 0
    BY <1>5, <1>3, Moves DEF Acquire, Acquirable, Deliver, Outstanding, CaseOK, TypeOK
  <2>2. CaseOK' /\ Grows
    BY <1>5, <1>3, <2>1 DEF Acquire, CaseOK, Grows, Ready, docVars, historyVars
  <2> QED
    BY <1>5, <2>1, <2>2 DEF Acquire, WorkerOK, Ready, historyVars
<1>6. CASE LoadDocuments(w)
  <2>1. w \in Holders /\ pc'[w] = "extract" /\ wdocs'[w] = stored /\ wtok'[w] = wtok[w]
    BY <1>6, Moves DEF LoadDocuments, Holders, TypeOK
  <2>2. wtok[w] # 0 /\ published # {} /\ Ready /\ (~unready => stored = expected)
    BY <2>1 DEF WorkerOK, Ready, CaseOK
  <2>3. CaseOK' /\ Grows
    BY <1>3, <1>6, SameCase DEF LoadDocuments, queueVars, historyVars
  <2> QED
    BY <1>6, <2>1, <2>2, <2>3 DEF LoadDocuments, WorkerOK, Ready, caseVars, docVars,
       queueVars, historyVars
<1>7. ASSUME NEW d \in Docs, WriteExtraction(w, d) PROVE CaseOK' /\ Grows /\ WorkerOK(w)'
  BY <1>3, <1>7 DEF WriteExtraction, WorkerOK, CaseOK, Grows, Ready, Holders, caseVars,
     queueVars, historyVars
<1>8. CASE ReadForComplete(w)
  <2>1. w \in Holders /\ pc[w] = "extract" /\ pc'[w] = "complete"
    BY <1>8, Moves DEF ReadForComplete, Holders
  <2>2. CaseOK' /\ Grows
    BY <1>3, <1>8, SameCase DEF ReadForComplete, queueVars, historyVars
  <2> QED
    BY <1>8, <2>1, <2>2 DEF ReadForComplete, WorkerOK, Ready, caseVars, docVars, queueVars,
       historyVars
<1>9. CASE Complete(w)
  <2>1. w \in Holders /\ pc[w] = "complete" /\ pc'[w] \in {"tally", "ack"}
    BY <1>9, Moves DEF Complete, Holders
  <2>2. Ready /\ (~unready => wdocs[w] = expected)
    BY <2>1 DEF WorkerOK
  <2>3. CaseOK' /\ Grows
    BY <1>3, <1>9, <2>2 DEF Complete, CaseOK, Grows, Ready, docVars, queueVars, historyVars
  <2> QED
    BY <2>1, <2>3 DEF WorkerOK, Holders
<1>10. CASE Tally(w) \/ Ack(w)
  <2>1. pc'[w] \in {"idle", "ack"}
    BY <1>10, Moves DEF Tally, Ack
  <2>2. CaseOK' /\ Grows
    BY <1>3, <1>10, SameCase DEF Tally, Ack, queueVars, historyVars
  <2> QED
    BY <2>1, <2>2 DEF WorkerOK, Holders
<1> QED
  BY <1>5, <1>6, <1>7, <1>8, <1>9, <1>10 DEF Work

\* A reviewer's step keeps the invariant: a retry of an unconfirmed case is forced.
LEMMA EmailReview ==
    ASSUME TypeOK, EmailInv, NEW r \in Reviewers, Review(r)
    PROVE  EmailInv' /\ Grows
<1> /\ r \in Actors
    /\ \A i \in Ingestors : i # r
    /\ \A w \in Workers : w # r
  BY ActorAssumption DEF Actors, Publishers
<1> USE DEF EmailInv
<1>1. procState # "ABSENT"
  BY Exists DEF Review, OpenCase, Decide, Conflict, Retry, RetryPublish, Step
<1>2. /\ UNCHANGED <<ingestLocals, wdocs, wtok>>
      /\ \A b \in Actors \ {r} : pc'[b] = pc[b]
  BY Moves DEF Review, OpenCase, Decide, Conflict, Retry, RetryPublish, workerLocals
<1> SUFFICES CaseOK' /\ Grows /\ ReviewerOK(r)'
  <2>1. ASSUME CaseOK', Grows, ReviewerOK(r)' PROVE EmailInv'
    <3>1. /\ \A i \in Ingestors \ {r} : IngestorOK(i)'
          /\ \A q \in Reviewers \ {r} : ReviewerOK(q)'
          /\ \A w \in Workers \ {r} : WorkerOK(w)'
      BY <1>2, <2>1, Frame DEF ingestLocals
    <3>2. ASSUME NEW i \in Ingestors PROVE IngestorOK(i)'
      BY <3>1
    <3>3. ASSUME NEW q \in Reviewers PROVE ReviewerOK(q)'
      BY <2>1, <3>1
    <3>4. ASSUME NEW w \in Workers PROVE WorkerOK(w)'
      BY <3>1
    <3> QED
      BY <2>1, <3>2, <3>3, <3>4
  <2> QED
    BY <2>1
<1>3. CASE OpenCase(r) \/ Conflict(r)
  <2>1. pc'[r] \in {"viewing", "done"}
    BY <1>3, Moves DEF OpenCase, Conflict
  <2> QED
    BY <1>1, <1>3, <2>1, SameCase DEF OpenCase, Conflict, ReviewerOK, queueVars, historyVars
<1>4. CASE Decide(r)
  <2>1. pc'[r] = "done"
    BY <1>4, Moves DEF Decide
  <2> QED
    BY <1>1, <1>4, <2>1 DEF Decide, CaseOK, Grows, Ready, ReviewerOK, docVars, queueVars,
       historyVars
<1>5. CASE Retry(r)
  <2>1. Ready'
    BY <1>5 DEF Retry, Requeue, Ready
  <2> QED
    BY <1>1, <1>5, <2>1 DEF Retry, Requeue, CaseOK, Grows, Ready, ReviewerOK, docVars,
       queueVars
<1>6. CASE RetryPublish(r)
  <2>1. Ready /\ pc'[r] = "done"
    BY <1>6, Moves DEF RetryPublish, ReviewerOK
  <2> QED
    BY <1>1, <1>6, <2>1 DEF RetryPublish, CaseOK, Grows, Ready, ReviewerOK, caseVars,
       docVars, historyVars
<1> QED
  BY <1>3, <1>4, <1>5, <1>6 DEF Review

\* The remaining steps: no submitter exists, tasks are dropped, time passes, handlers die.
LEMMA EmailStep ==
    ASSUME ~AllowAppend, TypeOK, EmailInv, [Next]_vars
    PROVE  /\ EmailInv'
           /\ Grows \/ \E i \in Ingestors : CreateCase(i)
<1>1. ASSUME UNCHANGED <<expected, resultDocs, resultAttempt, ingState, procState, blobs,
                         stored, published, pc, ingestLocals, wdocs, wtok, unready>>
      PROVE  EmailInv' /\ Grows
  <2>1. CaseOK' /\ Grows
    BY <1>1 DEF EmailInv, CaseOK, Grows, Ready, ingestLocals
  <2>2. \A i \in Ingestors : IngestorOK(i)'
    BY <1>1 DEF EmailInv, IngestorOK, ingestLocals
  <2>3. \A r \in Reviewers : ReviewerOK(r)'
    BY <1>1 DEF EmailInv, ReviewerOK, Ready
  <2>4. \A w \in Workers : WorkerOK(w)'
    BY <1>1 DEF EmailInv, WorkerOK, Ready, Holders
  <2> QED
    BY <2>1, <2>2, <2>3, <2>4 DEF EmailInv
<1>2. ASSUME NEW m \in Publishers, DeadLetter(m) PROVE EmailInv' /\ Grows
  BY <1>1, <1>2 DEF DeadLetter, caseVars, docVars, workerLocals, historyVars
<1>3. CASE LeaseExpires
  BY <1>1, <1>3 DEF LeaseExpires, docVars, queueVars, workerLocals
<1>4. CASE UNCHANGED vars
  BY <1>1, <1>4 DEF vars, caseVars, docVars, queueVars, workerLocals, historyVars
<1>5. ASSUME NEW a \in Actors, Crash(a) PROVE EmailInv' /\ Grows
  <2>1. procState # "ABSENT"
    BY <1>5, Exists DEF Crash, EmailInv
  <2>2. CaseOK' /\ Grows
    BY <1>5, <2>1, SameCase DEF Crash, EmailInv, queueVars
  <2>3. pc'[a] \in {"idle", "failed"} /\ \A b \in Actors \ {a} : pc'[b] = pc[b]
    BY <1>5 DEF Crash, TypeOK
  <2>4. /\ \A i \in Ingestors \ {a} : IngestorOK(i)'
        /\ \A r \in Reviewers \ {a} : ReviewerOK(r)'
        /\ \A w \in Workers \ {a} : WorkerOK(w)'
    BY <1>5, <2>2, <2>3, ForgetIngestOther, ForgetWorkOther, Frame DEF Crash
  <2>5. ASSUME NEW i \in Ingestors, i = a PROVE IngestorOK(i)'
    BY <1>5, <2>3, <2>5 DEF Crash, ForgetIngest, IngestorOK
  <2>6. ASSUME NEW r \in Reviewers, r = a PROVE ReviewerOK(r)'
    BY <2>3, <2>6 DEF ReviewerOK
  <2>7. ASSUME NEW w \in Workers, w = a PROVE WorkerOK(w)'
    BY <2>3, <2>7 DEF WorkerOK, Holders
  <2>8. \A i \in Ingestors : IngestorOK(i)'
    BY <2>4, <2>5
  <2>9. \A r \in Reviewers : ReviewerOK(r)'
    BY <2>4, <2>6
  <2>10. \A w \in Workers : WorkerOK(w)'
    BY <2>4, <2>7
  <2> QED
    BY <2>2, <2>8, <2>9, <2>10 DEF EmailInv
<1> QED
  BY <1>2, <1>3, <1>4, <1>5, EmailIngest, EmailWork, EmailReview, SourceAssumption
     DEF Next, Quiescent

\* EmailInv holds in every reachable state of an e-mail case.
LEMMA EmailAlways ==
    ASSUME ~AllowAppend
    PROVE  Spec => []EmailInv
<1>1. Init => EmailInv
  BY DEF Init, EmailInv, CaseOK, IngestorOK, ReviewerOK, WorkerOK, Holders, Ready, Actors,
     Publishers
<1>2. TypeOK /\ EmailInv /\ [Next]_vars => EmailInv'
  BY EmailStep
<1> QED
  BY <1>1, <1>2, TypeCorrect, PTL DEF Spec

-----------------------------------------------------------------------------
\* A task that ingest published announces a case all of whose documents are recorded
\* and in the bucket.
THEOREM PublishedComplete ==
    ASSUME ~AllowAppend
    PROVE  Spec => []PublishedOnlyComplete
<1>1. EmailInv => PublishedOnlyComplete
  BY DEF EmailInv, CaseOK, PublishedOnlyComplete
<1> QED
  BY <1>1, EmailAlways, PTL

\* A result was computed from exactly the set the case was created with, unless a
\* retry queued the case too early.
THEOREM ResultComplete ==
    ASSUME ~AllowAppend
    PROVE  Spec => []ResultFromFullSet
<1>1. EmailInv => ResultFromFullSet
  BY DEF EmailInv, CaseOK, ResultFromFullSet
<1> QED
  BY <1>1, EmailAlways, PTL

\* The attachment set of a case that exists never changes.
THEOREM AttachmentsImmutable ==
    ASSUME ~AllowAppend
    PROVE  Spec => ImmutableAttachments
<1>1. TypeOK /\ EmailInv /\ [Next]_vars => [procState # "ABSENT" => expected' = expected]_vars
  BY EmailStep DEF Grows, CreateCase
<1> QED
  BY <1>1, TypeCorrect, EmailAlways, PTL DEF Spec, ImmutableAttachments

-----------------------------------------------------------------------------
(* The contract *)

\* What the contract sees is unchanged.
View == <<procState = "ABSENT", ingState = "PENDING", expected, stored, published = {},
          unready, resultAttempt = 0, resultDocs>>

LEMMA SameView ==
    ASSUME UNCHANGED View
    PROVE  UNCHANGED Contract!vars
BY DEF View, Contract!vars

\* Each ingestion step is the creation, the keeping, the confirmation or the
\* announcement of the contract, or invisible to it.
LEMMA IngestImplements ==
    ASSUME ~AllowAppend, TypeOK, EmailInv, NEW i \in Ingestors, Ingest(i)
    PROVE  [Contract!Next]_(Contract!vars)
<1> USE DEF EmailInv
<1> i \in Actors
  BY DEF Actors, Publishers
<1>1. CASE CreateCase(i)
  <2>1. /\ procState = "ABSENT" /\ procState' = "DRAFT" /\ ingState' = "PENDING"
        /\ expected' \in SUBSET Docs
        /\ UNCHANGED <<stored, published, unready, resultAttempt, resultDocs>>
    BY <1>1, PayloadAssumption DEF CreateCase, docVars, queueVars, historyVars
  <2>2. Contract!Accept
    BY <2>1 DEF Contract!Accept
  <2> QED
    BY <2>2 DEF Contract!Next
<1>2. CASE CaseExists(i) \/ CountQueued(i) \/ ReadCase(i) \/ ListDocuments(i)
  BY <1>2, SameView DEF CaseExists, CountQueued, ReadCase, ListDocuments, View, caseVars,
     docVars, queueVars, historyVars
<1>3. CASE RejectAltered(i) \/ AlreadyPublished(i) \/ IngestIncomplete(i)
  BY <1>3, SameView DEF RejectAltered, AlreadyPublished, IngestIncomplete, View, caseVars,
     docVars, queueVars, historyVars
<1>4. CASE ResetCase(i)
  BY <1>4, Moves DEF ResetCase, IngestorOK
<1>5. CASE UploadBlob(i)
  BY <1>5, SameView DEF UploadBlob, View, caseVars, queueVars, historyVars
<1>6. CASE RecordDocument(i)
  <2>1. procState # "ABSENT" /\ pc[i] = "record"
    BY <1>6, Moves, Exists DEF RecordDocument
  <2>2. PICK d \in expected : idoc[i] = {d}
    BY <2>1 DEF IngestorOK
  <2>3. Contract!Keep
    BY <1>6, <2>1, <2>2 DEF RecordDocument, Contract!Keep, caseVars, queueVars, historyVars
  <2> QED
    BY <2>3 DEF Contract!Next
<1>7. CASE MarkStored(i)
  <2>1. procState # "ABSENT" /\ iexp[i] = expected /\ expected = stored
    BY <1>7, Moves, Exists DEF MarkStored, IngestorOK, CaseOK
  <2>2. CASE ingState = "PENDING"
    <3>1. Contract!Confirm
      BY <1>7, <2>1, <2>2 DEF MarkStored, Contract!Confirm, docVars, queueVars, historyVars
    <3> QED
      BY <3>1 DEF Contract!Next
  <2>3. CASE ingState # "PENDING"
    BY <1>7, <2>1, <2>3, SameView DEF MarkStored, View, docVars, queueVars, historyVars
  <2> QED
    BY <2>2, <2>3
<1>8. CASE PublishTask(i, "publish")
  <2>1. procState # "ABSENT" /\ ingState # "PENDING"
    BY <1>8, Moves, Exists DEF PublishTask, IngestorOK
  <2>2. Contract!Announce
    BY <1>8, <2>1 DEF PublishTask, Contract!Announce, caseVars, docVars, historyVars
  <2> QED
    BY <2>2 DEF Contract!Next
<1>9. CASE MarkQueued(i)
  <2>1. procState # "ABSENT" /\ ingState # "PENDING"
    BY <1>9, Moves, Exists DEF MarkQueued, IngestorOK
  <2> QED
    BY <1>9, <2>1, SameView DEF MarkQueued, Requeue, View, TypeOK, docVars, queueVars
<1> QED
  BY <1>1, <1>2, <1>3, <1>4, <1>5, <1>6, <1>7, <1>8, <1>9 DEF Ingest

\* Of a worker's steps the contract sees the completing update.
LEMMA WorkImplements ==
    ASSUME TypeOK, EmailInv, NEW w \in Workers, Work(w)
    PROVE  [Contract!Next]_(Contract!vars)
<1> USE DEF EmailInv
<1> w \in Actors
  BY DEF Actors
<1>1. ASSUME NEW m \in Publishers, Acquire(w, m) PROVE UNCHANGED View
  BY <1>1 DEF Acquire, Acquirable, View, docVars, historyVars
<1>2. ASSUME NEW m \in Publishers, Refuse(w, m) PROVE UNCHANGED View
  BY <1>2 DEF Refuse, View, caseVars, docVars, historyVars
<1>3. ASSUME NEW d \in Docs, WriteExtraction(w, d) PROVE UNCHANGED View
  BY <1>3 DEF WriteExtraction, View, caseVars, queueVars, historyVars
<1>4. CASE LoadDocuments(w) \/ ReadForComplete(w) \/ Tally(w) \/ Ack(w)
  <2>1. UNCHANGED View
    BY <1>4 DEF LoadDocuments, ReadForComplete, Tally, Ack, View, caseVars, docVars,
       queueVars, historyVars
  <2> QED
    BY <2>1, SameView
<1>5. CASE Complete(w)
  <2>1. w \in Holders /\ pc[w] = "complete" /\ procState # "ABSENT"
    BY <1>5, Moves, Exists DEF Complete, Holders
  <2>2. /\ wtok[w] # 0 /\ published # {} /\ Ready /\ wdocs[w] \subseteq stored
        /\ ~unready => wdocs[w] = expected
    BY <2>1 DEF WorkerOK
  <2>3. CASE unready
    <3>1. Contract!Finish
      BY <1>5, <2>1, <2>2, <2>3 DEF Complete, Contract!Finish, docVars, queueVars, historyVars
    <3> QED
      BY <3>1 DEF Contract!Next
  <2>4. CASE ~unready
    <3>1. Contract!Finish
      BY <1>5, <2>1, <2>2, <2>4 DEF Complete, Ready, Contract!Finish, docVars, queueVars,
         historyVars
    <3> QED
      BY <3>1 DEF Contract!Next
  <2> QED
    BY <2>3, <2>4
<1> QED
  BY <1>1, <1>2, <1>3, <1>4, <1>5, SameView DEF Work

\* A retry of an unconfirmed case forces it; the retry's task announces it.
LEMMA ReviewImplements ==
    ASSUME TypeOK, EmailInv, NEW r \in Reviewers, Review(r)
    PROVE  [Contract!Next]_(Contract!vars)
<1> USE DEF EmailInv
<1> r \in Actors
  BY DEF Actors, Publishers
<1>1. CASE OpenCase(r) \/ Conflict(r) \/ Decide(r)
  BY <1>1, SameView DEF OpenCase, Conflict, Decide, View, caseVars, docVars, queueVars,
     historyVars
<1>2. CASE Retry(r)
  <2>1. procState # "ABSENT"
    BY <1>2, Moves, Exists DEF Retry
  <2>2. CASE ingState = "PENDING"
    <3>1. Contract!Force
      BY <1>2, <2>1, <2>2 DEF Retry, Requeue, Contract!Force, docVars, queueVars
    <3> QED
      BY <3>1 DEF Contract!Next
  <2>3. CASE ingState # "PENDING"
    BY <1>2, <2>1, <2>3, SameView DEF Retry, Requeue, View, TypeOK, docVars, queueVars
  <2> QED
    BY <2>2, <2>3
<1>3. CASE RetryPublish(r)
  <2>1. procState # "ABSENT" /\ Ready
    BY <1>3, Moves, Exists DEF RetryPublish, ReviewerOK
  <2>2. Contract!Announce
    BY <1>3, <2>1 DEF RetryPublish, Ready, Contract!Announce, caseVars, docVars, historyVars
  <2> QED
    BY <2>2 DEF Contract!Next
<1> QED
  BY <1>1, <1>2, <1>3 DEF Review

\* The pipeline implements the contract of an e-mail case, whatever the deliveries,
\* crashes, lost leases, retries and decisions.
THEOREM Implementation ==
    ASSUME ~AllowAppend
    PROVE  Spec => ImplementsContract
<1>1. Init => Contract!Init
  BY DEF Init, Contract!Init
<1>2. TypeOK /\ EmailInv /\ [Next]_vars => [Contract!Next]_(Contract!vars)
  <2> SUFFICES ASSUME TypeOK, EmailInv, [Next]_vars
               PROVE  [Contract!Next]_(Contract!vars)
    OBVIOUS
  <2>1. ASSUME NEW m \in Publishers, DeadLetter(m) PROVE UNCHANGED View
    BY <2>1 DEF DeadLetter, View, caseVars, docVars, historyVars
  <2>2. CASE LeaseExpires
    BY <2>2, SameView DEF LeaseExpires, View, docVars, queueVars
  <2>3. ASSUME NEW a \in Actors, Crash(a) PROVE UNCHANGED View
    BY <2>3 DEF Crash, View, caseVars, docVars, queueVars
  <2>4. CASE UNCHANGED vars
    BY <2>4, SameView DEF View, vars, caseVars, docVars, queueVars, historyVars
  <2> QED
    BY <2>1, <2>2, <2>3, <2>4, SameView, IngestImplements, WorkImplements,
       ReviewImplements, SourceAssumption DEF Next, Quiescent
<1> QED
  BY <1>1, <1>2, TypeCorrect, EmailAlways, PTL DEF Spec, ImplementsContract, Contract!Spec

=============================================================================
