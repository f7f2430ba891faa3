# ClassAll: TLA+ specification, model checking and proofs

This directory specifies the parts of ClassAll (`src/`) that keep state shared by several
handlers. It holds TLA+ modules translated from the code, TLC configurations that check them on small
instances, and theorems that TLAPS proves for every instance. `PROJECT.json` maps each
definition to the source lines it stands for and lists runs, mutants, hazards and findings.

## 1. The system

ClassAll receives shipping documents by e-mail (Gmail) and Telegram, classifies and extracts
them with language models, lets people review the result and drafts the answer.

| component | state it keeps | operations | interacts with |
| --- | --- | --- | --- |
| Ingestion (`core/ingestion.py`) | none of its own; writes the case document, its `documents` records and the bucket | `ingest` | repository, blob store, publisher |
| Repository (`core/repository.py`) | Firestore: cases, documents, ingest runs, actions, Gmail state, blocked senders, summaries | transactions on one document each | all handlers |
| Worker (`worker/main.py`, `core/processing.py`) | none; holds a lease stored in the case | doc-task, gmail-event, watch, reconcile, weekly summary | Pub/Sub pushes, scheduler, repository, Gmail, Gemini |
| API (`api/main.py`) | a small in-process cache of the case list | upload, retry, review, draft, send, confirm, categories, blocking, Telegram webhook | repository, Gmail, Telegram |
| Drafts (`core/workflows.py`) | draft fields of the case, Gmail drafts, one-time actions | create, update, send, confirm | Gmail, Telegram |
| Gmail sync (`worker/gmail_ingest.py`, `worker/main.py`) | `gmail_state`: history cursor, watch expiration, OAuth status | notification, reconcile, watch renewal, reconnection | Gmail, ingestion, Telegram |
| Category workflow (`core/category_workflows.py`) | `workflow_state` and confirmed fields of the case, generated documents, `blocked_senders` | generate, verify, approve, return, route, respond, complete, block, un-block | repository, blob store, Gmail, Telegram |
| Field review (`api/field_review.py`, `api/views.py`) | field decisions in the case | decide on a field, derive the queue, gate the approval | repository, worker |
| Triage (`core/processing.py`, `core/inference.py`, `core/validation.py`, `extraction/`) | none; the values of one attempt | routing with a fallback, reading, retries, extraction, comparison, announcement | Gemini, blob store, Telegram |
| Weekly knowledge base (`core/knowledge_publisher.py`, `worker/main.py`) | claim and record of each week, registry of assumptions | claim, publish, announce, release | scheduler, repository, Gemini, Telegram |
| Frontend (`frontend/`) | live-query state of the page | polling, selection | API |

### What is hard about it

* Handlers are HTTP requests on autoscaled instances. Each is a sequence of
  Firestore calls, bucket writes, Gmail and Telegram calls; other handlers run
  between any two of them, and an instance may die between any two of them.
* Pub/Sub delivers a task at least once, in no particular order, also while an earlier push of
  it is being handled. It stops after five attempts (`infra/deploy.sh:120-135`).
* Exclusion among workers is a lease of 600 s (`core/config.py:40`), not a lock.
* Optimistic locking (`version`) protects some writes and not others: `expected_version` is an
  optional argument of `update_case`.
* External effects (a mail that was sent, a published task) cannot be rolled back when the write that
  should record them fails.

The hazards, each at its line, are in `PROJECT.json`.

### What makes each component correct

* *Ingestion*: a case is announced only on its complete attachment set; an e-mail case never changes its
  attachments; an interrupted ingestion is finished by the next delivery.
* *Processing*: one worker at a time; a result of the newest attempt, from the full
  set, with the matching extractions; one count per case in its run; a queued case with a task is finished.
* *Review*: a decision is about the result that was shown.
* *Drafts*: what is sent is what was approved; a case is marked sent only if a mail left;
  a Telegram button works once, and approves the case only as its alert announced it.
* *Gmail sync*: no message is lost behind the cursor; every message in the inbox is handled in the end; the stored OAuth status settles on the truth.
* *Category workflow*: the stage, the document and the reply of a case belong together; a sender shown as blocked was blocked and can be
  un-blocked; a reviewer's correction is not lost to a request that overlaps; for clients that follow the offers the case goes through its stages as if requests never overlapped.
* *Field review*: a field counts as resolved on both its values; an approval is given on decided fields; no reviewer undoes another's decision.
* *Triage*: OK and MISMATCH compare the readable documents that were routed to the two roles, with a value in every field, and name exactly the fields that differ.
* *Weekly knowledge base*: a week is announced once, and only when it is published with its assumptions registered.

## 2. Modules

| module | what it is |
| --- | --- |
| `CasePipeline` | one case from ingestion to decision: ingestion handlers, `/submit`, Pub/Sub, workers, reviewers |
| `CaseContract` | the promise to the sender of an e-mail case; `CasePipeline` implements it |
| `ProcessingContract` | the promise of processing: attempts follow each other; `CasePipeline` implements it |
| `DraftDelivery` | the reply of one Gmail case: dashboard requests, Telegram buttons, Gmail drafts |
| `ReplyContract` | the promise about the answer to the sender; `DraftDelivery` implements it |
| `GmailSync` | the way of messages from the mailbox to the pipeline: pushes, watch renewal, reconciliation, OAuth status |
| `MailboxContract` | the promise of the synchronization; `GmailSync` implements it |
| `StageTables` | the tables of the category workflow: stages, actions, what is offered where |
| `StageOrder` | the promise of the category workflow to its clients; `CategoryWorkflow` implements it |
| `CategoryWorkflow` | the actions of one processed case and of the settings page: requests, generated documents, replies, filters |
| `FieldReview` | the reviews of a compared case's fields, the approval they gate, and the workers that replace the evidence |
| `ReviewContract` | the promise of the review: reviewers take turns; `FieldReview` implements it |
| `Triage` | one processing attempt: models, documents, comparison, result, alert |
| `WeeklySummary` | the weekly job and the users' publications: claims, records, registry, announcements |
| `MC...` | the instances of these modules for TLC |
| `CasePipelineProofs` | type correctness, leases, results, evidence, decisions, and the refinement of `ProcessingContract` |
| `EmailCaseProofs` | completeness of e-mail cases and the refinement of `CaseContract` |
| `DraftDeliveryProofs` | type correctness, agreement of the two copies, what is mailed and recorded, one mail for each approval, approvals by button, and the refinement of `ReplyContract` |
| `GmailSyncProofs` | type correctness, the history cursor, and the refinement of `MailboxContract` |
| `CategoryWorkflowProofs` | type correctness, stages, the order of signatures, blocking, filters, returned documents, corrections, and the refinement of `StageOrder` |
| `FieldReviewProofs` | type correctness, resolved fields, approvals, issues, and the refinement of `ReviewContract` |
| `TriageProofs`, `WeeklySummaryProofs` | type correctness and the property of each |

*How the models meet.* A step `Ingest` of `GmailSync` stands for the delivery of one message that `CasePipeline`
takes apart: the first promises that every message is delivered, perhaps several times, the second what becomes of a case however often
its message is delivered. `Triage` is what a worker of `CasePipeline` does between `LoadDocuments` and the writes of its result; there the result is only the
attempt it came from. `DraftDelivery`, `CategoryWorkflow` and `FieldReview` start from a case that `CasePipeline` has
finished. They share the case document and its version, and what one of them does is an anonymous update in the others: `OtherUpdate`, `Retry`, `ReviewApprove` and `Reprocess` in
`DraftDelivery`, `Reprocess` in `CategoryWorkflow` (a retry that keeps the category is any update), `Decline`, `Retry`, `Requeue` and `ApproveElsewhere`
in `FieldReview`. `WeeklySummary` sees of a case that it exists and whether it is approved.

*What the components promise.* Six abstract specifications say it without versions, locks, requests and retries, which is what a user or another team
relies on. Each is implemented under a mapping that only leaves things out:

| abstract | says | left out of the detailed state |
| --- | --- | --- |
| `CaseContract` | an e-mail case is announced and judged on its full set | handlers, leases, tasks, counters (`CasePipeline`, for e-mail cases) |
| `ProcessingContract` | attempts follow each other as if there were one worker; each has findings in, and a result from, the documents it took at one moment; a decision is on the result there is | workers, leases, tasks, versions, confirmation of the ingestion (`CasePipeline`, any case) |
| `ReplyContract` | a mail the program sends is worth one approval; what a case records as sent is the mail it names, with the text it shows, and is not reworded; a case is declined only with its answer recorded or confirmed as sent | requests, versions, one copy of the draft, the text in a button (`DraftDelivery`) |
| `MailboxContract` | the checkpoint moves to places behind which no message waits; what was handled stays handled | notifications, requests, tokens, OAuth status (`GmailSync`) |
| `StageOrder` | a case goes through its stages as if its requests came one by one | requests, documents, filters (`CategoryWorkflow`, for guided clients) |
| `ReviewContract` | a decision is on one side of one field and starts from what the case holds of it at that moment; an approval leaves nothing listed open | requests, versions, the edit a reviewer holds, workers (`FieldReview`) |

`CaseContract` makes one exception, `forced`, `ProcessingContract` one, `disturbed`, `ReplyContract` one, `swapped`, and `ReviewContract` one, `waived`; section 3 says what they are (`forced` is `unready`, `disturbed` is `preempted`).

### CasePipeline

*One case is enough.* Each transaction touches one case document, its documents
subcollection and counters of its run. The counters are only incremented, so what the run counts of
one case is the case's own contribution to it.

*State and code.*

| variable | code |
| --- | --- |
| `procState`, `ingState`, `expected`, `version`, `attempts`, `lease` | fields `processing_state`, `ingestion_state`, `expected_document_ids`, `version`, `attempts`, `lease_until` of the case |
| `resultDocs`, `resultAttempt` | `result`, abstracted to the documents it was computed from and the attempt that computed it |
| `decidedOn` | `review_decision`, abstracted to the attempt whose result the reviewer had on the screen |
| `blobs`, `stored`, `extraction` | objects in the bucket, records in the subcollection, their `extraction`, abstracted to the attempt that wrote it |
| `runQueued`, `runTerminal` | the `queued` and `terminal` counters of the ingest run |
| `published`, `settled`, `deliveries` | Pub/Sub: tasks (named by the handler that published them), those acknowledged or dead-lettered, the number of pushes of each |
| `pc` and the locals `i...`, `w...`, `r...` | where each handler is and the values it has read |
| `crashes`, `preempted`, `reopened`, `unready` | history variables; no guard reads the last three, and `crashes` only bounds `Crash` |

*Steps and code.* An action is one Firestore call or one call to a service, with the computation up to the next
one.

| actions | code |
| --- | --- |
| `CreateCase`, `CaseExists`, `CountQueued`, `ReadCase` | `FirestoreRepository.create_case` (361-381): `ref.create`, the counter, `ref.get` |
| `ListDocuments`, `RejectAltered`, `AlreadyPublished`, `ResetCase` | `CaseIngestor.ingest` 66-88: what to do with an existing case |
| `UploadBlob`, `RecordDocument`, `IngestIncomplete`, `MarkStored` | 90-124: the resumable upload loop and its confirmation |
| `PublishTask`, `MarkQueued` | 126-141: the task goes out first, the state is written afterwards |
| `Submit` | the Telegram `/submit` (`api/main.py:1149-1171`) |
| `Acquire`, `Refuse` | a push: `_acquire` is one transaction (repository 444-477); without a lease `process` returns and the endpoint answers 200 |
| `LoadDocuments`, `WriteExtraction`, `ReadForComplete`, `Complete`, `Tally`, `Ack` | `CaseProcessor.process` and the three calls of `complete_case` (479-497) |
| `OpenCase`, `Decide`, `Conflict`, `Retry`, `RetryPublish` | case detail, review and retry endpoints |
| `LeaseExpires`, `Crash`, `DeadLetter` | time, an instance that dies or raises, the delivery limit |

*Choices worth knowing.*

* The Firestore repository is modelled: its `create_case` and `complete_case` are several calls, where the
  in-memory one used by the tests is a single step.
* `Retry` has no version guard: `expected_version` is optional in that endpoint. The dashboard sends it
  (`frontend/src/lib/api.ts:332`); the retries it makes are among the modelled ones.
* `Decide` is the review endpoint's update of the case (`api/main.py:451-465`). A DECLINE of
  a Gmail case goes through `create_case_draft` and belongs to draft delivery.
* The classic and the hybrid extraction differ in the values of the result, not in the calls modelled here.
* A handler that raises and an instance that dies are the same step, `Crash`: no handler of this
  component cleans up. A crash of a worker at `ack` is a lost acknowledgement. Notifications between
  completion and acknowledgement change nothing that is modelled.
* A worker whose result is being stored is not stopped when its lease runs out; `LeaseExpires` may happen
  at any moment when `LeaseCanExpire`. The doc-task endpoint may run for 600 s, which is the length of the lease.

### DraftDelivery

| variable | code |
| --- | --- |
| `version`, `decision` | `version`, `review_decision` of the case |
| `draft` | `correction_draft`: state, text, mode, and the Gmail draft it names |
| `top` | the same in the older fields `draft_state`, `draft_subject`, `draft_body`, `draft_hash`, `gmail_draft_id` |
| `sentRef` | `gmail_sent_message_id`, abstracted to the draft that was sent |
| `gmail` | the drafts in the mailbox: their text, whether they are sent, and `by`, the approval on which the program sent them |
| `button` | `telegram_actions`: kind, and the version and content hash in the payload |
| `pc`, `ver`, `txt`, `seen`, `pressed` | where each request is and what it has read |
| `announced` | history: for each alert's approve button, the draft and the decision the case had when the alert went out |
| `swapped`, `raced`, `disturbances` | history variables and the bound on what comes from outside |

| actions | code |
| --- | --- |
| `Open`, `RequestPrepare`, `RequestEdit`, `RequestSend`, `RequestConfirm`, `RefuseRequest` | the case detail and the head of each draft endpoint, up to its first external call |
| `CreateLive`, `CreateCompose`, `StoreDraft`, `Offer` | `create_case_draft`: the Gmail draft or the compose link, the update, the button in the owner's chat |
| `SyncDraft`, `SyncFails`, `SaveDraft` | `update_draft`: Gmail first, then the case |
| `CheckDraft`, `DraftChanged`, `SendDraft`, `SendFails`, `RecordSent` | sending, alike in the endpoint and in `_handle_callback` |
| `ConfirmSent` | the confirmation of a composed mail |
| `Consume`, `PressApprove`, `PressDecline`, `PressSend`, `PressConfirm`, `Approve` | `_handle_callback`; `consume_action` is one transaction |
| `StaleWrite` | the `Conflict` of any version-checked write |
| `OtherUpdate`, `Retry`, `ReviewApprove` | writes of the case by others, with the decision kept, cleared (`retry_case`) or set to APPROVE whatever it was (`review`, `approve_si`, `complete_category_case`) |
| `Reprocess` | a worker completes the case, whatever was written meanwhile, and sends another alert, whose buttons bear the new version |
| `EditInGmail`, `SendInGmail`, `Crash` | the people using Gmail, failures |

*Choices worth knowing.*

* A text is a model value and stands for its hash: equal texts have equal hashes, different ones different hashes.
* The Telegram branches do not compare the version of the button when they read the case; it only guards the final update. So does the model.
* Each alert has an approve and a decline button of its own (`ApproveButtons`, `DeclineButtons`), so there are as many alerts as pairs, the first one included. A completion takes
  no `expected_version` and leaves the decision and the draft as they are. It may come at any time, without a retry before it: several retries may be one `Retry` to the rest of the case.
* Another component may approve the case at any version, after a decline too. Whether it compares versions is its own model's matter; here only the decision and the new version count.
* `expected_version` is optional in `prepare_draft` and `confirm_sent_draft`. The model takes the weaker case, in which the version read by the
  request guards the write.
* A failing Gmail call that was to create a draft may have created it (`CreateCompose`), which leaves an orphan. A failing send has
  not sent: a lost answer of `drafts.send` is a `Crash` before `RecordSent`.
* Attachments and threading headers are abstracted; `update_draft` drops them (`docs/reviews/2026-09-20-mvp-review.md`, finding 4), which no property here sees.
* The buttons block and not_spam, and `create_category_response_draft` (`core/workflows.py:216-338`), are in `CategoryWorkflow`.

### GmailSync

| variable | code |
| --- | --- |
| `now`, `place`, `horizon`, `token`, `rejected` | the mailbox: messages arrived so far, where each is, the oldest cursor still answered, whether the refresh token works, messages no ingestion accepts |
| `notes` | Pub/Sub notifications not acknowledged |
| `cursor`, `oauth` | `history_id` and `oauth_status` of `gmail_state` |
| `handled` | messages that have a case or were skipped because their sender is blocked |
| `pc`, `note`, `mark`, `todo` | requests: the notification's history id, the cursor read or to be stored, the messages left |

| actions | code |
| --- | --- |
| `StartPush`, `ListHistory`, `ListRecent`, `Advance`, `Confirm` | `process_gmail_notification` and the endpoint around it |
| `RenewWatch`, `ReconcileAll`, `StoreWatch` | the daily job |
| `StartHourly`, `EndHourly` | the hourly job, which takes the newest messages and leaves `gmail_state` alone |
| `Upcoming`, `Ingest`, `Raise` | the loop over messages and `ingest_gmail_message` |
| `PushRefreshFails`, `RenewRefreshFails`, `CronRefreshFails`, `Signal` | `RefreshError`: a push and the renewal signal it, reconciliation does not catch it |
| `Authorize`, `StoreConnected` | the OAuth callback |
| `Arrive`, `Leave`, `Expire`, `Revoke`, `Lose`, `Fail` | Gmail, Pub/Sub, failing requests |

*Choices worth knowing.*

* Message `n` is the `n`-th to arrive and `n` is its history id. `messages.list` answers newest first, which is Gmail's documented order;
  a batch from history is handled in the order of message ids, which says nothing about arrival, so the model takes any order.
* A message with an attachment larger than `max_upload_bytes` makes `ingest` raise, in every request that reaches it. `rejected` is chosen at the start from `Rejectable`.
* The list of blocked senders may change between two looks, so a message of a rejected or any other kind may be skipped.
* Pages of a listing are read in one step. A message that left the inbox does not come back.
* Each worker instance reads the newest refresh token on every call (`core/runtime.py:87-105`), so a reconnection is seen at once.
* The cursor may go back, when a slow request stores an older one; that only repeats work.

### CategoryWorkflow

| variable | code |
| --- | --- |
| `version`, `case` | the case: category, `workflow_state` (stage, `si_artifact`, `is_blocked`), the copies beside it (`copy` and `flagged` are the case's `si_artifact` and `is_blocked`), one field of `si_fields` |
| `reply` | the document attached to the prepared draft |
| `buttons` | the one-time actions of spam alerts, with the version in each |
| `blob`, `record` | the object `si-generated-<case>` in the bucket and its record among the documents |
| `sender`, `filters` | the record in `blocked_senders` with its `filter_id`, and the filters in Gmail |
| `pc`, `req`, `goal`, `ver`, `base`, `doc`, `field` | where each request is and what it has read |
| `lost`, `lifted`, `orphans` | history: a generation that stored bytes and no stage, a deleted block, filters nobody knows |

| actions | code |
| --- | --- |
| `Ask`, `AskUnblock`, `Press` | the dashboard, the settings page, `_handle_callback` |
| `StartSimple`, `StartReturn`, `StartResponse`, `StartNotSpam`, `StartGenerate`, `CreateFilter`, `StartUnblock` | the head of each function of `category_workflows.py`: the case is read and its version compared, where the code compares it |
| `Upload`, `AddDocument` | generating: the bytes, the document record |
| `Download`, `StoreReply` | the returned document and the draft it is attached to, an update of its own |
| `BlockSender`, `BlockCase`, `IsBlocked`, `ListBlocked`, `DeleteFilter`, `UnblockSender` | blocking and un-blocking |
| `Commit`, `Refuse` | the final `update_case`, a conflict |
| `Crash`, `Reprocess` | a dying instance; another classification, with the alert it sends |

*Choices worth knowing.*

* `Guided` clients ask for an action that `available_actions` offers for the case they see, with its version: the use the API's `available_actions` is made for. Others ask for anything, and may leave the version out where it is optional; the
  dashboard's mail drawer has its own conditions in places (section 5). The run has guided clients, since `ReturnedDocument` and the refinement speak of those; the proofs of the other
  properties hold for both.
* A document is the number of the request that made it, so two generations are told apart. The field stands for one of `si_fields` that the patterns may miss; `corrected` is what
  a reviewer made it with the verification, `placeholder` what a generated document prints for a missing value and the next generation reads as one.
* `api_block_sender` takes the sender of the request, or else the case's (`api/main.py:782`); the dashboard never sends another, and the model blocks the case's own.
* `Commit` writes `workflow_state` as the handler read it, with the new stage, as the code does; the version check is what keeps this right.
* Gmail and the bucket fail before they act, except that a filter may be made and the handler die.

### FieldReview

| variable | code |
| --- | --- |
| `version`, `case` | `processing_state`, `result`, `required_review_fields`, `field_reviews`, `review_decision` |
| `docs` | the extraction stored with each document, which has no version |
| `pc`, `ver`, `edit`; `work` | what a reviewer's request has read and is going to save; what a worker found |
| `waived` | history: an approval without the gate, or evidence replaced under a finished case |

| actions | code |
| --- | --- |
| `StartField`, `ReviewField`, `SaveReview` | `review_field` with `field_review_changes`: the case, then the documents, then the write |
| `StartApprove`, `PassGate`, `Approve` | the APPROVE of `review_case` and of the approve button |
| `Decline`, `Abandon` | the other decision; conflicts, refusals, clients that leave |
| `Retry`, `Requeue`, `ApproveElsewhere` | the retry endpoint, `/submit` and appended documents, `approve_si` and `complete_category_case` |
| `Acquire`, `ExtractPair`, `ExtractNone`, `StoreExtraction`, `Complete`, `WorkerDies` | the worker, as far as reviewers can see it |

*Choices worth knowing.*

* Only a request whose version is still the case's is followed. Another is refused, at the latest by its write, and changes nothing.
* Taking a lease does not raise the version, and neither does storing an extraction: this is the gap the properties are about.
* `required_review_fields` and the reviews are kept over a further extraction and cleared by a retry, which leaves the old result in place.
* The unit in the weight's name (`gross_weight` in the API, `gross_weight_kg` in a result) is modelled, because the gate compares names.

### Triage

| actions | code |
| --- | --- |
| `Answer`, `FallBack`, `RoutingFails` | `infer` and `classify` with the primary model, the fallback and the guess from words |
| `NoComparison`, `ReadPair` | `_hybrid_validate`: doubt, missing, unreadable or mistitled documents |
| `AttemptAgain`, `ServiceFails`, `InvalidData`, `Extract` | `extract_document` with its attempts; `Extract` for the SI, then for the BL |
| `ComparePair`, `CompareListed` | `validate_documents` and `_validate` with `compare_documents` |
| `Announce` | `send_review_alert` and `send_spam_alert` after completion |

`mode` is `pair` (the hybrid pipeline, used in production) or `single` (one call, which only tests construct).
A value is a mark: none, blank, `x`, `x2` which is close to `x`, or `y`; similarity and tolerance decide which marks are close and are not computed.
`ServiceFails` starts the attempt anew, as a later delivery does; which delivery comes and when is `CasePipeline`'s.

Some of what the definitions say is worth a second look by the maintainers: attachments of one name hide each other, so a name routed as SI and as BL is
compared with itself and can be OK; `is_missing("N/A")` is false in the single mode, as the text is normalised to `N A` first; a blank is a
value in pair mode and missing in single mode (section 5 has both); a case whose alert fails is not announced again.

### WeeklySummary

| variable | code |
| --- | --- |
| `created`, `approved`, `reviews` | the cases and their decisions |
| `claim`, `record` | the claim and the published record of a week |
| `registry` | the assumption entries |
| `announced`, `lost` | messages that reached the administrator, and those among them whose answer was lost |
| `pc`, `week`, `agg`, `todo`, `text` | a job or a user's publication: its week, the aggregate, assumptions left, the narrative |

| actions | code |
| --- | --- |
| `Claim`, `Publish` | the worker's weekly endpoint with `claim_weekly_summary`; the API's publication |
| `Aggregate`, `EnterAssumption`, `Narrate`, `SaveWeek` | `publish_weekly`: the cases, `save_assumption` for each, the model, the record unless an equal one is there |
| `Announce`, `AnswerLost`, `SendFails` | `send_message`, which tries once more, as plain text, after any failure |
| `Fail`, `Release`, `Crash` | a failing call, after which a job releases its claim; a dying instance, which leaves it |
| `Create`, `Review` | cases come and are decided |

Also worth a second look: a slow publication overwrites a newer record and the registry entries another week made, so an accepted assumption can turn to
proposed; after a crash the claim stays and the week is never announced; the job runs on Monday morning for the week that has just begun.
The limit of 5000 cases is left out.

## 3. Model checking

| run | question | instance |
| --- | --- | --- |
| `email_ingestion` | Is an e-mail case announced and processed only on its full, fixed set, and is the contract implemented? | 2 documents, 2 deliveries of the message (the second with both or one attachment), 1 worker, 1 retrying reviewer, 1 crash |
| `email_processing` | One worker, one attempt, one count, no older result over a newer one, matching extractions, informed decisions; is `ProcessingContract` implemented? | 2 documents, 1 delivery, 2 workers, 1 reviewer, expiring leases, 1 crash |
| `telegram_case` | Is `ProcessingContract` implemented when uploads add documents to the case and reset it while it is processed? | 2 uploads, 1 submission, 2 workers, 1 crash |
| `case_progress` | Is an interrupted ingestion resumed, and is a free task of a queued case enough? (liveness) | 1 document, 2 deliveries, 1 worker, a retry, 1 crash |
| `draft_delivery` | Is what is recorded and mailed what was approved, whoever edits or sends meanwhile, is an approval worth one mail, does a press approve what its alert announced, and is `ReplyContract` implemented? | 2 sessions and 2 presses, of which 3 act, 2 alerts, 2 texts, 1 disturbance |
| `gmail_sync` | Is a message lost behind the cursor, is `MailboxContract` implemented, is each message handled in the end, does the stored OAuth status settle on the truth? (liveness) | 2 messages, the newer perhaps too large, 1 push handler, both jobs, the OAuth callback, 1 mishap |
| `category_workflow` | Do stage, document and reply stay together, is a document signed in order, are corrections kept, are blocks and filters accounted for, and does the case follow the abstract stage machine? | a case of any category, 2 handlers, 4 requests |
| `field_review` | Does an approval stand on decided fields, whatever reviewers and a worker do meanwhile, and is it as if reviewers took turns? | 2 fields, 2 reviewers, 1 worker, 4 updates |
| `triage` | Do OK and MISMATCH compare the documents that were routed or listed, in both modes? | 6 mails, 6 routings, 15 listings, every extraction of 2 fields |
| `weekly_summary` | Is a week announced once, after it is published and its assumptions are registered? | 2 weeks, 2 cases, 2 assumptions, 2 jobs, 1 user, 1 review |
| `task_lost_at_publish`, `approved_unresolved` | What the documentation says and the code does not do (section 5) | the smallest instance that shows it |

*Bounds of `CasePipeline`.* `MaxDeliveries` bounds the pushes of one task (5 in production). With 2, the first push and one duplicate or
redelivery give every overlap of two executions, and the dead letter is reached after two. It is 1 in `email_ingestion`, where tasks
come from two deliveries and a retry, so that one worker still processes the case several times. `MaxCrashes` is 1: a second
crash leaves the case where another first crash could. Two workers are the least that can conflict, and two documents the least
of which one can be missing.

*Bounds of `DraftDelivery`.* Three of two requests and two presses act (`MaxRequests`): one handler makes a draft, another changes or sends it, a third meets the outcome. Two texts
are enough to differ. With two alerts, one is out from the start and one is sent by a later completion, at whatever version the case has by then, so that buttons of both ages are
pressed after a draft, an answer, a retry or an approval elsewhere. `MaxDisturbances` bounds, together, retries, approvals and other updates by other components, edits and sends in
Gmail and crashes; a completion is not counted among them and is bounded by the buttons.

*Bounds of `GmailSync`.* Two messages are the least of which one can overtake the other; with the newer one `Rejectable` and `HourlyLimit` 1, the
hourly job may never see the older one. One mishap is any of a failing request, a lost notification, forgotten history, a message
moved or deleted, or a revoked token. There is one push handler, but the daily job is a second writer of the cursor and the callback
and the jobs are further writers of the status; `GmailSyncProofs` has any number of pushes.

*Bounds of `CategoryWorkflow`.* Two requests at a time are the least that can disagree. Four in all reach every stage (generate, verify, approve, return),
and the last two can overlap in any way; a block, an un-block and another block leave one to interfere.

*Bounds of `FieldReview`.* One field has the name with a unit, the other may lack a value. Two reviewers are the least that can overwrite each other. Four updates
let a case be reviewed, queued, processed and approved. There is one worker: a second one, whose lease ran out and who stores its findings late, is covered by the proofs only.

*Bounds of `Triage`.* One field is counted and the other compared by likeness, which are the two kinds there are. Mails, routings and listings are enumerated in `MCTriage`:
the usual pair, untitled, mistitled and unreadable attachments, one name twice, one attachment; types named twice, one name for both types, unknown
names, none. The attempts are bounded by the code.

*Bounds of `WeeklySummary`.* Two weeks share an assumption; two jobs can meet on one week, and a user's publication can overtake either. One review is enough for an
aggregate to be stale.

The proofs remove the bounds for the safety properties.

*Views.* `draft_delivery` and `field_review` tell states apart by which handlers and buttons hold the *current* version of the case, and not by the
numbers. No step does anything with a version but compare it with the case's for equality and raise the case's by one, so a version
that is past is never current again, and which past version it is makes no difference; the properties do not mention versions at all, or
only this comparison. With the numbers `draft_delivery` has several times the states, and the same answers. That view also leaves out what nothing can depend on any more: the
payload of a used button that no press holds, what an alert announced once the case is past its version, and the locals of a handler that can only be refused.

*Type invariants* are checked in the runs `field_review` and `triage`; the other modules have theirs proved only (`TypeCorrect` of each proof module), as has `OneFieldPerSave` of `FieldReview`, which the refinement of `ReviewContract` contains.

`email_processing`, `telegram_case`, `draft_delivery`, `category_workflow`, `field_review` and `weekly_summary` use symmetry, of handlers, workers or jobs: the models treat each kind alike, and these
runs check no liveness property. Deadlock is checked in every run except `field_review`, `approved_unresolved` and `weekly_summary`, where the bound on updates or
on requests ends the behaviour. `Quiescent` and `Done` are there for states in which every handler has returned
and nothing is left to do; `GmailSync` needs none, as the jobs can always start.

*The history variables* make the conditional properties exact. `preempted`: the case left PROCESSING, or its lease ran out, other than by the worker holding it.
`reopened`: a handler requeued or reset a case that had a result. `unready`: a retry or a submission queued a case whose ingestion
was not confirmed. `raced`: the case got a new version while a handler was sending its draft. `swapped`: a draft in Gmail got another text between
its verification and its sending. `announced`, `waived`, `lost`, `lifted` and `orphans` are listed with their modules in section 2. Under each of these the property it conditions really fails: when a lease is lost, for example, the three separate
calls of `complete_case` let two attempts count the case twice. The mutants show that the rest is not vacuous.

*Fairness of `CasePipeline`* (`FairSpec`), and why the code justifies it:

* a handler that has started goes on until it returns or crashes (weak fairness; Cloud Run gives a started request
  CPU until it answers);
* Pub/Sub keeps pushing a task that is not acknowledged, up to the limit (strong fairness per task: workers may be busy in
  between);
* time passes (weak fairness of `LeaseExpires`).

Nobody has to deliver the message again, to open, decide, retry or submit a case. The two liveness properties
are therefore conditional: once no more crashes occur, an ingestion that *reaches* the case ends with the task published;
and a task that is free, with a push left, is enough for a queued case.

*Fairness of `GmailSync`*: a request that has started ends, a pushed notification is handled, and the scheduler starts the daily job (`infra/deploy.sh:174-182`).
The hourly job, a new message, a reconnection by the administrator need not happen. So `EveryMessageHandled` rests on the daily job alone:
it holds even if every notification is lost. Its exceptions are real. While the token is revoked nothing can be read. And a message too large to ingest
ends every listing at its place: `messages.list` is newest first, so older messages behind it wait until it leaves the inbox. The same message keeps
the daily job from storing its status, hence the condition of `RecoveryReported`.

The other modules have no liveness property: nobody has to act on a draft, to review a field or to publish a week, a crash may leave a request half-way
for ever, and whether a processing attempt is repeated is the fairness of `CasePipeline`.

## 4. Proofs

TLAPS checks every statement below for all constants satisfying the named
assumptions of the module it is about.

| module | theorem | states |
| --- | --- | --- |
| `CasePipelineProofs` | `TypeCorrect` | `Spec => []TypeOK` |
| | `LeaseExcludes` | `LeaseExclusion`: while no lease is lost, at most one worker holds the case |
| | `NewestResult` | `NewestAttemptWins`: then a finished case shows its newest attempt |
| | `RunsOnce` | `DuplicatesRunOnce`: duplicates and crashes alone never cause a second attempt or a second count |
| | `EvidenceMatches` | `EvidenceMatchesResult`: extractions and result come from one attempt |
| | `DecisionIsInformed` | `DecisionOnSeenResult` (an action property) |
| | `ProcessingImplemented` | `Spec => ImplementsProcessingContract`: the refinement of `ProcessingContract`, for every kind of case |
| `EmailCaseProofs` | `PublishedComplete`, `ResultComplete`, `AttachmentsImmutable` | the e-mail properties, assuming `~AllowAppend` |
| | `Implementation` | `~AllowAppend => (Spec => ImplementsContract)`: the refinement of `CaseContract` |
| `DraftDeliveryProofs` | `TypeCorrect` | `Spec => []TypeOK` |
| | `CopiesAlwaysAgree` | `CopiesAgree`: the two copies of the draft never differ |
| | `RecordedAsApproved` | `SentAsApproved` (an action property): a case is recorded as sent on the draft and text that were approved |
| | `NoStaleApproval` | `ApprovalNotStale` (an action property): a press approves the case only with the draft and the decision its alert announced |
| | `DashboardMailsRecordable` | `DashboardMailRecordable`: a mail sent from the dashboard can be recorded unless the case changed meanwhile |
| | `OneMail` | `OneMailPerApproval`: one approval sends at most one mail |
| | `MailedAsApproved` | `MailAsApproved`: a mail has the text that was approved and a case the text that was mailed, unless `swapped` |
| | `ReplyImplemented` | `Spec => ImplementsReplyContract`: the refinement of `ReplyContract` |
| `GmailSyncProofs` | `TypeCorrect` | `Spec => []TypeOK`; also nothing is ahead of the mailbox |
| | `NothingLost` | `CursorCovers`: what is behind the cursor was handled or had left the inbox |
| | `MailboxImplemented` | `Spec => ImplementsMailboxContract`: the refinement of `MailboxContract` |
| `CategoryWorkflowProofs` | `TypeCorrect` | `Spec => []TypeOK` |
| | `SignedHolds` | `StageMatchesArtifact`: the stage and both copies of the document's state agree |
| | `BlockHolds` | `BlockRecordedFirst`: a case shows a blocked sender only if the block was recorded before |
| | `FiltersHold` | `FiltersAccountedFor`: every filter is known to the record or to a request about to set it, or was lost in a known way |
| | `SignaturesHold` | `SignaturesInOrder` (an action property): a document is generated, verified and approved in this order, whichever requests overlap |
| | `OrderImplemented` | `Guided => (Spec => ImplementsStageOrder)`: the refinement of `StageOrder` |
| | `CorrectionsHold` | `CorrectionsKept` (an action property): a correction is replaced by nothing but a generation that read it |
| | `ReturnedHolds` | `ReturnedDocument`, assuming `Guided` |
| `FieldReviewProofs` | `TypeCorrect` | `Spec => []TypeOK` |
| | `ResolvedHolds` | `ResolvedHasBothValues`: a resolved field has both its values |
| | `ApprovalHolds` | `ApprovalStands`: a gated approval left no disputed field open |
| | `IssuesHold`, `OneFieldHolds` | `IssuesKept`, `OneFieldPerSave` (action properties) |
| | `ReviewImplemented` | `Spec => ImplementsReviewContract`: the refinement of `ReviewContract` |
| `TriageProofs` | `TypeCorrect`, `AlwaysComparedAsRouted` | `TypeOK`; `ComparedAsRouted`: OK and MISMATCH compare the readable documents routed to the two roles, or listed once each, and name exactly the fields that differ |
| `WeeklySummaryProofs` | `TypeCorrect`, `SummaryHolds` | `TypeOK`; `SummaryStands`: announced once, when published, with its assumptions registered |

*The arguments.* None of the properties is inductive by itself.

* `LeaseInv` adds to `LeaseExclusion` that, while the case was not preempted, a worker between lease and completion implies that the case is in PROCESSING under a live
  lease, that this worker's attempt number is the case's newest, and that a finished case has no holder.
* `OnceInv` follows the life of the only attempt of a case neither preempted nor reopened: before it no worker is busy and nothing is counted; after it began the case is in PROCESSING
  under a live lease or TERMINAL; the one worker between lease and count is alone, and has not counted yet.
* `EvidenceInv` locates each extraction of a case processed once: it bears the only attempt's number; a worker still holding the case has loaded its document;
  in a TERMINAL case the document is one of the result's. A later upload of a document replaces the record and drops the extraction, which the invariant survives.
* `VersionInv`: versions only grow and every write that changes the result raises the version, so a reviewer who holds the current version holds the current result.
* `ProcessingInv` puts these together with `TokenInv` (an attempt has a number that was given out; a case under way has a live lease until it is disturbed): undisturbed, the documents a
  worker holds are those of the only attempt, so its steps are those of the one worker of `ProcessingContract`.
* `EmailInv` has one part per kind of handler: `CaseOK` (records are expected documents with bytes; a confirmed case has all of them; a task or a state past DRAFT needs confirmation or `unready`),
  `IngestorOK` (what an ingestion has read still holds, and an e-mail case is never reset), `ReviewerOK`, `WorkerOK` (the documents a worker loaded are all, unless `unready`).

* `DraftInv` is what optimistic locking means: as long as the case still has the version a handler or a button holds, it has the draft that
  handler read, or the text the button was made for. A step that changes the draft raises the version, so only the promise of the handler that
  takes the step needs an argument.
* `AlertInv` says the same of an alert: as long as the case still has the version its buttons bear, it has the draft and the decision the alert announced, for
  both are written only with a new version, and a new alert takes buttons nobody holds. A press that approves holds the button's version, so it finds the case as announced.
* `SendersCurrent` says the version held by a dashboard session about to send, or that has sent, is the case's until `raced`.
* `MailInv` follows an approval: presses hold different, used buttons; a mail was sent on a used button or by a session that has sent it, and nobody about to send
  has. It is preserved by most steps for the same reason (`HarmlessKeeps`); only consuming, offering and sending need their own.
* `SyncInv` adds to `CursorCovers` that a cursor a push has read is covered, and that up to the cursor any handler is going to store each message is covered or
  on the handler's own list. A listing of the inbox, made after the cursor to be stored was fixed, therefore suffices after a 404.
* `BatchesReady` is what the refinement of `MailboxContract` needs besides: what a handler still has to handle has arrived, and what it is going to store is a history id.
  That nothing waits behind it is `SyncInv`.
* `EarnestInv` says that a handler edits or confirms an answer there is, has a text to write, has sent what it is going to record, and that a press keeps the button it came from. With `DraftInv` (the case still
  shows what the handler read), `MailInv` (the approval has sent nothing yet) and `TextInv` (the mail has the text that was verified) each write of the case is the step of `ReplyContract` of
  the same meaning: together they are `ReplyInv`.

* `TextInv` follows a Gmail draft: a named one exists, at most one, and nobody knows it before it is stored; a sent one never changes; what a handler read of it is still there
  unless `swapped`; and a recorded mail is not overwritten.
* `PcGoal` of `CategoryWorkflow` says where a request can be by what it was asked for. `VersionInv` and `BaseInv` are optimistic locking again: a handler at the case's version holds the
  case as it is, so its final write changes only the stage and what goes with it. `FreshInv` says that the number of a request names nothing made by another one, from
  which `FilterInv` tells apart the filters. `BlockInv` follows a block from the record to the case.
* `OfferInv` is the core of the refinement: for guided clients a request at the current version is one the case offers, so its commit is a step `Take` of
  `StageOrder`. A generation, which takes no version, maps to `Regenerate`, a press of an old alert's button to an offered step or `BlockAgain`.
* `CopyInv`, `BlobInv` and `ReturnInv` connect the returned document, the bytes and the reply: between the download and the commit no generation can have finished without raising the
  version, and one under way is excluded by the statement.
* `SignaturesHold` needs both halves: the status a commit writes is the one its goal names (`OutcomeStatus`), computed from the case as it is (`BaseInv`), and a guided goal is one the
  case's stage offers (`OfferInv`), which says what status the document has now (`OfferedSignature`, with `StageMatchesArtifact`).
* `GateInv` of `FieldReview` is about a handler that has passed the gate and still has the current version: unless `waived`, each disputed field is resolved. A worker
  that touches the documents or the result of a TERMINAL case sets `waived`, and so does the approval of a case that is not TERMINAL. `ApprovalInv` carries it over the approval. `ReviewsInv` is about
  stored and pending reviews alike; `EditInv` says that a pending save at the current version adds to what is required and changes one field's review.
* `SerialInv` says of a pending save what taking turns means: while the case has the version it was computed from, it *is* a decision `Settle` of `ReviewContract` made at once on
  the case as it stands. So the save, when it comes, is that step; and when the version has moved on, the save is refused.
* `CorrectionsHold` needs only `BaseInv`: a commit finds the case as its request read it, and of all the goals only a generation computes the field anew.
* `EvidenceInv` of `Triage` says for each place of the attempt which obstacles have been passed. The choice of a routed document is a minimum or maximum of a finite set of
  numbers, which exists because `<` on the naturals is well-founded. The assumptions are that there is a field, and that mails and routings are sequences of the records meant.
* `ClaimInv` of `WeeklySummary` says that a job between claim and release holds the week's claim alone, and `CountInv` that until it announces, and while the week is unclaimed, each announcement so far
  is one whose answer was lost; `RecordInv` and `RegistryInv` follow a publication: what is still to be entered is on its list.

`QuietSteps`, `VersionedSteps` and `AbsentInv` collect facts several proofs use. The invariants also pass TLC on instances of section 3, `CategoryWorkflow` with three requests.

*Only model-checked*: the five liveness properties (`ResumableIngestion`, `QueuedTaskCompletes`, `EveryMessageHandled`, `OutageReported`, `RecoveryReported`), which are out of
the prover's reach: it has no rules for fairness and ENABLED. The statements of section 5 are false of the code.

## 5. Where code and documentation disagree

Two are runs TLC must refute; the counterexample is the scenario.

* *"exactly-once execution semantics"* (README.md:30): a task pushed between publication
  and the QUEUED update is acknowledged and lost (`task_lost_at_publish`, `PublishedCaseCompletes`). `docs/reviews/2026-09-20-mvp-review.md` names it as finding 1.
* *"Final approval ... is blocked while required fields remain unresolved"* (README.md:101): `approve_si` and `complete_category_case` approve any case without looking at
  its fields, and the review endpoint and the approve button look at the fields but not at the processing state, so an approval may precede the result it is about
  (`approved_unresolved`, `ApprovedIsResolved`). `ApprovalStands` is what remains true, and is proved.

The following have no run of their own. Their definitions stand at the end of the modules and can be checked by naming them in a configuration of section 3.

* A redelivery that meets the live lease of a dead worker is acknowledged and lost (`QueuedCaseSurvivesFailure` of `CasePipeline`; finding 2 of the same document).
* *"tasks are published to Pub/Sub only after 100% of attachments are confirmed"* (README.md:18): `/submit` does not look (`TaskOnlyWhenComplete`). For e-mail cases the statement is
  proved (`PublishedComplete`).
* *"append-mode unions additional documents safely"* (README.md:19): two overlapping uploads lose one (`AppendKeepsUnion`).
* *"the API verifies version and content-hash checksums before sending"* (README.md:264): the Telegram send button verifies the content only
  (`VersionVerifiedBeforeSending` of `DraftDelivery`); the mail leaves, its recording meets the newer version, and the case stays READY. For the dashboard `DashboardMailRecordable` is
  proved.
* *"prevents concurrent reviewer overwrites"* (README.md:36): an edit that is refused with 409 has already overwritten the draft in Gmail
  (`GmailMatchesCase`). A later send notices, as the content is compared (`MailAsApproved`).
* *"Loss-Safe Gmail Synchronization"* (README.md:21-26): a mail without attachments for which an instruction was generated is refused by every further delivery, because
  the generated document is compared with the mail's (`RedeliveryAccepted` of `CategoryWorkflow`, with `HasAttachments = FALSE`).
* *"any missing required contract field triggers human verification"* (README.md:88): in pair mode, the one production uses, a blank is compared like any value, and two blanks agree
  (`BlankIsMissing` of `Triage`; finding 11 of the review of 2026-09-20, `docs/reviews/2026-09-20-mvp-review.md:103-109`).
* *"require one unambiguous pair"* (`docs/reviews/2026-09-20-mvp-review.md:101`, finding 10): an untitled attachment whose name is routed both as SI and as BL is compared with itself
  (`TwoDocuments` of `Triage`).

Met while modelling and stated by no property:

* The reconnect message (`worker/main.py:28`) says inbox messages "will be reconciled after reconnecting"; a newer message too large
  to ingest prevents it, which is the exception in `EveryMessageHandled`.
* The dashboard calls `/actions/generate-si` and its siblings (`frontend/src/lib/api.ts:353-376`), the API has `/actions/si/...`; it reads flags the backend never sets,
  and offers to complete a case the backend offers no completion for.
* The send button of a category reply carries the version of the draft's update. The workflow's own update comes after it, so the recording of a mail sent by that button always
  meets a newer version.
* Blocking stores the record before the version is checked, and un-blocking deletes it before: a refused request has had its effect (`lifted`). A second block replaces
  `filter_id`, and the first filter can no longer be removed (`orphans`).
* A refused generation has overwritten the bytes of an approved document (`lost`), and so has one that is still to commit; a return made then attaches them.
* A generation of a field the mail does not state prints a placeholder, and the next generation, which reads the document, takes the placeholder for a value (`Extracted`).
* Two attempts that complete one case after a lease was lost may both count it in its run, as the state is read before it is written (`core/repository.py:479-497`).
* A declined case may be approved without anybody looking at the decline: by the review endpoint (`api/main.py:451-456`), by `approve_si` and `complete_category_case`
  (`core/category_workflows.py:310,520`), and by the approve button of an alert sent after the decline, since a completion keeps the decision. `ApprovalNotStale` says what remains true of
  the button: a decline made after the alert is not overridden by it.

## 6. Not modelled, and the plan

In this order, each with an MC module, runs and mutants:

1. The case list cache of the API: its time to live against invalidation by overlapping requests.
2. Telegram intake: the hourly upload limit, linking and commands. Uploads and submissions themselves are actions of `CasePipeline`.
3. The live-query hooks of the frontend: polling, aborted requests, stale answers.
4. An abstract specification of delivery (a message ends in exactly one case) composed of `GmailSync` and `CasePipeline`.

Not planned, because they keep no state of the program's own or are not part of production: authentication, the evaluation adapter,
sample data and scripts, deployment (its subscription settings are constants here), rendering, prompts, and the in-memory repository and local stores used by tests.
