# RubezAI in TLA+

This directory holds the verification project of RubezAI: TLA+ modules that model
its services, TLC configurations that check them on small instances, and theorems
about them that TLAPS proves for every value of the constants.

Paths below are relative to the repository; "api" is `src/rubezh-api/internal`,
"worker" is `src/rubezh-worker/app`, "sanitizer" is `src/rubezh-sanitizer/app`.

## 1. The system

RubezAI is a gateway between the users of an organisation and language models.
It finds sensitive entities in a text, replaces them with pseudonyms, decides by
policy what a model may be sent, restores the pseudonyms in the answer, and keeps
an append-only audit trail of everything, with incidents for security officers.

| Component | State | Operations |
|---|---|---|
| rubezh-sanitizer (Python) | none between requests | detect entities, resolve overlaps, number pseudonyms, score the risk, optional review by a local model |
| Policy engine (`api/policy`) | none | `DefaultPolicy.Decide`: trust and risk to one of five decisions |
| Chat orchestrator (`api/chat`) | one request per goroutine; rows of `chat_messages`, `audit_events`, `token_mappings`; preview cache; throttle; background tasks | `Prepare` (sanitize, decide, Tx1), `Stream` (SSE, retrieval, model, review, Tx2), `finishBlocked`, `createAutoIncidentIfNeeded` (Tx3), `Wait` at shutdown |
| Retrieval (`api/chat/rag.go`, `api/search.go`) | `document_chunks`, `embeddings` | search under the caller's access, drop risky chunks for external models, harden the decision |
| Documents (`api/documents.go`) | `documents` rows, raw files in MinIO | upload, delete, retry |
| Document worker (`worker`) | its claim on a row; `document_chunks`, `embeddings`, `sanitization_results` | claim, clean up, parse, chunk, sanitize, embed, finish, heartbeat, re-queue |
| Incidents (`api/incidents.go`, `storage/incidents.go`) | `incidents`, `incident_notes` | automatic and manual filing, GET, PATCH under If-Match, notes |
| Preview gate (`chat/preview.go`, `chat/throttle.go`) | the preview cache and the throttle's windows, in memory | preview, consumption of a token by a chat request, report of a miss |
| Model registry (`api/models.go`, `storage/models.go`, `llm/router.go`, `main.go`) | `model_providers`, `user_provider_credentials`, the router in memory | create, patch, delete, key, hot reload; a chat request resolves and calls by name |
| LLM adapters (`api/llm`) | none | one blocking call each: OpenAI, Anthropic, an SSH bridge, a mock |
| Access and identity (`api/auth`, `oidc.go`, `ratelimit.go`) | users, token buckets | bearer tokens, OIDC log-in, roles, rate limits |
| Audit reading (`api/audit.go`, `storage/audit.go`) | reads of `audit_events`, and an event of its own per export | list by keyset cursor, detail, export |
| History, reveal | reads, and an audit event before a reveal | list of sessions, reveal of a pseudonym |
| rubezh-web (TypeScript) | the chat page | SSE client, preview gate, incident pages |

How they interact. The web client posts a chat request and reads server-sent
events. The orchestrator calls the sanitizer and the retriever over HTTP and SQL,
the model through the router, and writes its audit events in three separate
transactions: Tx1 (user message, mappings, `chat_request`) before the first SSE
event, Tx2 (assistant message and verdict) before the answer is streamed, Tx3
(incident and its audit event) in a background task.  The api and the workers
share only the database and MinIO: a document is a row that one of several worker
processes claims with `FOR UPDATE SKIP LOCKED`.

What is hard about it:

* **Interleaving.** Workers, API requests and crashes meet on a document's row
  between any two statements; officers meet on an incident's row.
* **Crashes and restarts.** A worker dies with a document in hand and with some of
  its rows written; the api is stopped with background tasks and handlers running.
* **Partial failure.** Each of Tx1, the model, the review, Tx2 and Tx3 may fail, a
  commit may be applied although its acknowledgement is lost, and the audit event
  about a failure may fail as well.
* **Clients that leave.** A gone client cancels calls and makes writes of SSE events
  fail, from where the handler returns early.
* **Order of decisions.** A decision is computed, revised after retrieval and acted
  on in different places; leak check, remasking and storing apply to different
  versions of one answer.
* **Copies.** The router is a copy of the table that every change rebuilds, in two
  steps and not serialised; a request takes its provider from the table and calls it
  through the copy. A preview is a copy of a result that only one request may use.
* **Stale reads.** An incident is read in one statement for the "from" of its audit
  events and changed in another; reviewers are sent a text chosen for another model.
* **Timeouts.** A worker that is alive may look dead for longer than the threshold;
  a preview token expires between its being shown and its being used.
* **Late commits.** An audit event carries the time its transaction began, and appears
  among older ones after a reader has paged past it.

What makes each component correct is listed with its module below. The complete
lists, with source lines, are `components` and `hazards` of `PROJECT.json`.

## 2. Modules

| Module | What it is |
|---|---|
| `DocumentQueue` | upload, delete, retry; the queue, the worker's pipeline, heartbeats, crashes |
| `DocumentLife` | what the queue promises of a document, abstractly |
| `DocumentQueue_proofs` | its inductive invariant and the refinement of `DocumentLife`, proved |
| `Policy` | pure: risk score, decision table, revision, what a decision allows |
| `PolicyCases` | the table as a state space: a step makes the request riskier |
| `PolicyCases_proofs` | its properties, proved |
| `ChatFlow` | a chat request from POST to the last SSE event, its background task, shutdown |
| `ChatAudit` | what the audit trail promises of a request, abstractly |
| `ChatFlow_proofs` | the inductive invariant of a request and the refinement of `ChatAudit`, proved |
| `Admission` | preview tokens, and the throttled reports of tokens that missed |
| `Admission_proofs` | its inductive invariant, proved |
| `ModelRegistry` | providers, keys, the hot-reloaded router, and the calls of a chat request |
| `ModelRegistry_proofs` | its inductive invariant, proved |
| `AuditReading` | pages, detail and export of an audit log that is being written |
| `AuditReading_proofs` | its inductive invariant, proved |
| `Incidents` | filing and patching incidents |
| `Incidents_proofs` | its inductive invariant, proved |
| `MCDocumentQueue`, `MCChatFlow`, `MCIncidents`, `MCAdmission`, `MCModelRegistry`, `MCAuditReading` | instances for TLC |

`ChatFlow` extends `Policy` and uses its operators for every decision; it is shown
to implement `ChatAudit`. `Incidents` takes over where `ChatFlow` ends: the
action `CreateIncident` of the one is `CreateAutoIncident` of the other. `Admission`
is what comes before `ChatFlow`: whether a request starts from a kept result or
sanitizes afresh (an input, `inp`, there). `ModelRegistry` is which model and key stand
behind a prompt that `ChatFlow` sends, and `AuditReading` is how the trail it writes is
read.

### DocumentQueue and DocumentLife

*State.* `status`, `attempts`, `started`, `phase` and `key` are columns of a
`documents` row; `object` is its file in MinIO; `chunk`, `vec` and `results` are
the rows that belong to it, each with the worker that wrote it; `api` is the upload
or delete request in flight; `pc`, `doc`, `hasKey` and `idx` are a worker's place
in `process_document` and its copy of the claimed row.

*Actions.* One database statement, transaction or MinIO call each.
`UploadObject`, `CreateDocument`, `CreateDocumentError`, `CreateDocumentLost`:
`uploadDocumentHandler`.
`DeleteRead`, `DeleteObject`, `SoftDeleteDocument`, `SoftDeleteError`:
`deleteDocumentHandler`. `RetryDocument`: the conditional UPDATE of the retry
handler. `RequeueStuck`, `Claim`, `CleanupPreviousRun`, `UpdatePhase`, `Download`,
`InsertChunk`, `InsertEmbedding`, `InsertResult`, `MarkDone`, `MarkFailed`:
`queue.py`, `storage.py` and `processor.py` in program order. `StepError` is an
exception in any of them before it takes effect; `AnswerLost`, `ClaimLost` and
`CreateDocumentLost` are statements that take effect although their caller sees an
exception. `MarkFailedError` is an exception in the failure path itself, before or
after its effect; the queue loop is dead from then on while its process lives. `Heartbeat`, `Age` (the stuck
threshold passes), `Crash` and `Restart` are time and the container runtime.

*Abstractions.* A file is the number of chunks it splits into; `processing_started_at`
is on one side of the threshold or the other; parsing, sanitizing and embedding only
succeed or fail. Terminal UPDATEs are by id alone, as in the code. The guards of
`InsertChunk` and `InsertEmbedding` are the unique and foreign key constraints.

*DocumentLife* is a document in the words of its user: `stage`, who has it (`job`), and
whether what belongs to it is `whole`. One worker has it at a time (`Take`, `Requeue` and
`Retry` ask that nobody else does), only that one changes what belongs to it and only
before it is done (`Work`), it is done only when whole (`Finish`), and then it stays so,
but for a delete or for its own worker, who may not know (`Fail`). The refinement mapping
of `ImplementsLife` reads `job` off `pc` and `doc` and `whole` off `chunk`, `vec` and
`results`. There is no assignment of a document to a worker in the database: a row says
`processing` and nothing of whom, which is why this is worth a refinement.

*Bounds.* `NumDocs`, `MaxChunks`, `Deletable`, `MaxCrashes`, `MaxFaults`, `MaxRetries`. Two
workers and two documents (one with two chunks, one with none) let a claim, a
re-queue and two finishes overlap and a second run follow a partial one; a fault
and two crashes are enough for a failure of the clean-up after a failure. `dq_settles`
has two documents without chunks, two attempts, one crash, two faults and late heartbeats:
the question there is which document the loops get to, not what its pipeline writes. Only
the earlier document may be deleted there, under its worker or while the other waits for
it; a delete of the later one settles that one and is nothing to the earlier.

### Policy and PolicyCases

`Decide` is the ordered rule list of `policy/engine.go`, `Score`, `LevelFor` and
`Risks` are `risk.py`, `Revise` is `maybeRevisePolicy`, `KeptForTrust` is
`FilterHighRiskForExternal`, and `CallsLLM`, `SendsOriginal`, `Remasks` are
`actionFor` and `finalTexts`. `PolicyCases` makes a state of every case and a step of
every way to be riskier, so that "never milder" is an action property. The state
space is finite and complete: nothing is bounded.

### ChatFlow and ChatAudit

*State.* Per request: the input `inp`, the place `pc`, the `decision`, the `chunks`
in the prompt, everything `sent` to models, how raw values `echo` in the answer, the
committed `trail`, the `stored` answer, the SSE events written, whether the client is
`online`, the background `task`, the `incident`; and the process, `proc`.

*Actions.* The stretch of a handler between two points where something outside can
matter. `Sanitize`, `SanitizeError`, `PrepareError`, `ReviewPromptFallback`,
`RecordChatRequest`, `RecordRequestError` are `Prepare`; `OpenStream`, `NoRetrieval`,
`Retrieve`, `RetrieveError`, `Announce` are `Stream` up to the decision that counts;
`Complete`, `CompleteError`, `LLMDone`, `Review`, `ReviewError`, `RecordResponse`,
`RecordResponseError`, `Deliver` are `runLLM`; `RecordBlocked`, `RecordBlockedError`,
`DoneBlocked` are `finishBlocked`; `CreateIncident`, `CreateIncidentError` are
`createAutoIncidentIfNeeded`; `Disconnect` is the client; `Shutdown` and `Exit` are
`main`.

*Failures.* `Fails` is a call that fails, for free if the client is gone and the call
carries the request's context, else out of the budget `MaxFaults`; the audit event
about it may be lost as well. `FailsApplied` is a transaction whose commit may have
been applied. `Cut` is a write of an SSE event that fails because the client left,
after any prefix of the events of that stretch.

*Abstractions.* Texts are "original" or "sanitized"; an answer repeats raw values not
at all, exactly or in another spelling (`Remask` replaces only the exact ones,
`DetectLeak` sees both); chunks are their risk levels. The review loop is one step, but
every prompt of it is in `sent` with the draft it carries: `Rounds` is any number of
rounds, as the set of the drafts found wanting and the last one, and `WithFindings` what
the primary model gets to revise them, the reviewers' findings included. The first draft
is the remasked answer; a value in another spelling is still in it, and so reaches
reviewers. `ReviewError` is the loop breaking off after any part of these prompts.

*ChatAudit* has five booleans or verdicts per request and five steps. The refinement
mapping reads them off `trail`, `sent`, `sse` and `incident`.

*Bounds.* One request: requests share nothing in this part of the system but the
database, which keeps their rows apart, and the process, which `Exit` quantifies over.
Two faults: one to fail a call and one to lose the audit event about it. Inputs are
all combinations of trust, reachable risk, origin and review, up to two symmetries of
the decision table (commercial like pii, russian_cloud like external), with three
outcomes of retrieval: none, harmless chunks, and a critical chunk (it hardens every
decision, up to a block) beside a harmless one that external models may see. A review
is asked for on fresh texts and on documents: it starts from an answer and depends on the
origin only through the map, which a document's answer lacks.
`PolicyCases` covers the decisions themselves for all values.

### Incidents

*State.* `row`, the rows of `incidents` as a function on the ids filed so far;
`trail`, the audit events each incident's transactions wrote; `clock`, the time of the
last change, whose values stand for `updated_at`; per browser tab the request in
flight `req` and the last answer `seen`.

*Actions.* `CreateAutoIncident` (Tx3, guarded by the partial unique index),
`PostIncident`, `FindManual`, `CreateManualIncident`, `CreateManualError` (the POST
handler, whose look-up for a repeated request is a statement of its own), `Grow`
(sixty seconds pass), `GetIncident`, `SendPatch`, `ReadPrevious`, `PatchIncident`,
`PatchConflict`, `PatchError` (the PATCH handler: header and body, the read for the
"from" values, then the UPDATE under `updated_at` with its audit events).

*Abstractions.* The audit events of a PATCH carry no incident id; `trail[i]` is what
the transactions on `i` wrote, known to the model and not to a reader of the table.
Two changes never have the same `updated_at` (the design accepts equal microseconds
as a limit, `docs/design/iteration-9.md`, known limits). Notes are appended and never
changed, and are left out, as is the list.

*Bounds.* Two tabs of one officer and two incidents; two committed PATCHes, so that a
history has a link between two changes; one failing call. The bodies are a closing one,
a reopening one that clears everything, and one the handler refuses.

### Admission

*State.* The clock `now`; `entries`, the `PreviewCache`; `issued`, what every preview
has answered, for whom, when and in which life of the process (kept by the model, not by
the code); `misses`, the windows of `throttleReporter`; `request`, the chat requests that
carry a token; `log`, what the throttle decided on every miss; `event`, whether the audit
event it let through was recorded or lost.

*Actions.* Each is one hold of a mutex or one insert. `Preview` is `Preview` or `PreviewFromSanitized`
from the result on: prune, then put under a new token. `Send` is `chatHandler` up to
`Prepare`, with its refusals; `Consume` is `consumePreview` (the entry goes whoever asks,
the result only to its owner and in time). After a miss `resolveSanitize` takes two steps:
`ThrottleMiss` is `throttleReporter.Allow`, which counts the event or marks the window as
told of, and `RecordMiss` the insert of the event, whose error is dropped. `Tick` and
`Restart` are the clock and the process, whose memory both structures share; a restart
between the two steps loses the event too.

*Abstractions.* A token is its number: it is 256 random bits and never guessed. A result
is a member of `Results`, since the second filter need not give the same twice.

*Bounds.* Two users, two previews, up to four requests, one restart; lifetime, limit
and window of one unit in three instants. `AtMostFive` is a constraint: requests sent,
previews answered and restarts together. Four requests after one preview are two misses
more than the limit, three after two previews bring tokens of two owners together.
Users, requests and results are symmetric. Nobody is privileged: a privileged user may
pass the preview gate without a token, and then misses nothing.

### ModelRegistry

*State.* `rows`, the table by id with the state of its key (none, decryptable or not);
`history`, the ids that messages and audit events reference; `creds`, the personal keys;
`router`, by name, with the row and key each adapter was built from; `op` and `chat`, the
administrators' and users' requests in flight; `calls`, what each chat request has
called; `version` and `installed`, which reading of the table the router is built from.
`lost` and `overtaken` remember the two ways in which a reload is not the last word.

*Actions.* Statements of `api/models.go`: `CreateModel` and then `CreateModelKey` (the
encryption needs the id), `SetEnabled` and then `SetDefaultModel`, `DeleteModel`,
`UpdateAPIKey`, each with its error; after each, `ReloadRead` (`ListModelProviders`) and
`ReloadReplace` (`buildProviders`, `Router.Replace`), or `ReloadError`, which is logged
and hidden by a successful answer. `SetCredential`, `DeleteCredential` are the personal
keys. `ResolveProvider`, `HasProvider`, `ResolveReviewer`, `HasReviewer`,
`ResolveUserKey`, `RecordRequest`, `Complete`, `CompleteReviewer`, `CompleteRevision` are
the accesses of one chat request to table and router, in program order. `Restart` may
come with another encryption key.

*Abstractions.* The default model is a payload. The adapters with a key (OpenAI,
Anthropic) are one kind. A deleted row keeps its name in the model only, so that a call
by name can be traced to it.

*Bounds.* Two administrators, two names, three rows, three changes, one chat request
with a reviewer; `OneMishap` constrains a failing statement and a restart to one of the
two. Three changes let a provider be made, deleted and made again under its name while a
request and an older reload are under way. Administrators are symmetric.

### AuditReading

*State.* The clock, `events` (each free, in an open transaction, or committed, with the
time its transaction began), and per user `reader`: the filter, the pages shown, the
cursor, the export's own event, and what had committed when the reading began.

*Actions.* `Insert`, `Commit`, `Rollback` are any other transaction with an audit event.
`List` and `ListNext` are `listAuditEventsHandler` and `ListAuditEvents`, with the
developers' narrowed scope; `ExportRecord`, `ExportRecorded`, `ExportRead` are the export
handler, which drops that scope and whose own event may fail to be written. `MayOpen` is
the detail handler.

*Abstractions.* Ids are ordered and handed out in any order, as random uuids are. A
filter is a set of users, of types and a period; the text search and the flags are more
predicates of the same kind. The export's limit of 200 is a constant.

*Bounds.* Three events at two times, so that times are equal, differ and interleave with
ids; pages of one and two, an export of two of three. `OneReader` is a constraint:
readers share nothing but the table, where others write at any time anyway.

## 3. Runs

| Run | What it checks | Result |
|---|---|---|
| `dq_pipeline` | `Exclusive`, `DoneIsComplete`, `RowAndFileAgree`, `OrphanedOnlyByFailure`, refinement of `DocumentLife`, with crashes, faults, retries, prompt restarts | holds |
| `dq_settles` | `PendingIsServed`, liveness with two workers, late heartbeats, a crash, lost answers, failing calls, restarts before or after the threshold | holds |
| `dq_deleted_final` | `DeletedIsFinal` | violated |
| `pol_cases` | `NeverMilder`, `RevisionCapped`, `ExternalNeverRaw`, `CriticalIsSecret` on the whole table | holds |
| `cf_flow` | `SentAsAllowed`, `AuditedFirst`, `VerdictAgrees`, `ShownAsRecorded`, `RawIsFlagged`, `ConcludedOrGone`, `IncidentJustified`, refinement of `ChatAudit`, and `BlockedGetsIncident` (liveness), with failing calls, lost commit answers, a leaving client, shutdown | holds |
| `cf_leak_incident` | `LeakGetsIncident` | violated |
| `cf_shutdown` | `ExitKeepsIncidents` | violated |
| `inc_flow` | `HistoryIsChain`, `ClosedIsTerminal`, `RepeatsBounded`, `NoBlindWrite` | holds |
| `adm_gate` | `SingleUse`, `MissHasReason`, `ReportsBounded`, `StormIsVisible` with several users, previews, expiry, lost events and a restart | holds |
| `reg_router` | `RouterIsCurrent`, `RightModel`, `EnvKeyNotMasking` with interleaved reloads, a failing statement or a restart | holds |
| `aud_walk` | `WalkIsComplete`, `WalkDescends`, `ExportIsNewest`, `ListedCanBeOpened` while events are written | holds |
| `aud_scope` | `ShownCanBeOpened` | violated |

The runs with passing state properties check `TypeOK` of their module too, except
`pol_cases`, whose states are the cases themselves. Deadlock checking is off where the system may stop: all documents settled, the
request answered, the bound on changes reached.

What the violated ones show:

* **`dq_deleted_final`.** "deleted = irrecoverable", but `mark_done` and `mark_failed`
  update by id alone: a document deleted while a worker holds it comes back.
* **`cf_leak_incident`.** An incident is promised for every detected leak. When the
  client leaves while the answer is streamed, the handler returns before it starts the
  background task.
* **`cf_shutdown`.** `main` waits for background tasks so that Tx3 is not cut off.
  `ListenAndServe` returns as soon as `Shutdown` begins, so `Wait` may run while a
  handler between Tx2 and its task has yet to start it.
* **`aud_scope`.** Developers see their own policy tests and nothing else
  (`audit.go:154`, `docs/design/iteration-9.md:161-169`), and are not among the roles that
  may export (`API.md:207-208`). The export handler asks `requireAuditAccess` as the list
  does, and drops the scope it returns (`audit.go:377`): a developer's export holds
  other people's events, which the detail handler would refuse to show.

Other disagreements met while modelling, visible in the models and not given a run:
documents out of attempts are said to become `failed` (`queue.py:76`, migration 000011,
`docs/design/iteration-10.md:132-134` and `:180`), but `claim_next_document` only skips
them, so that a document whose three workers crashed is `pending` for ever and refused by
the retry handler; `PendingIsServed` speaks of documents with attempts left, and says
nothing of such a one;
a worker restarted before the threshold leaves its document in `processing` until the
next start of the loop (`main.py:81`); a late `update_phase` or insert writes to a
deleted document (`queue.py:174`), whose chunks and results a soft delete keeps
anyway (`documents.go:247`); a failed removal from MinIO loses the only key to the
file (`documents.go:397`); an exception in `mark_failed` ends the queue loop while
the process stays up (`processor.py:76`); starved heartbeats give a document two
writers (`processor.py:169`); a client that leaves before `llm_done` or before a
block leaves a request without a verdict (`orchestrator.go:627`, `:544`); when the answer
of Tx2's commit is lost, `finishBlocked` returns before its background task
(`orchestrator.go:716-720`), and `chat_blocked` stands with neither an incident nor
`incident_create_failed`, which `API.md:224` promises: `BlockedGetsIncident` names that
outcome, an error event of the stage, as the third one; reviewers are said never to see a
raw value (`orchestrator_review.go:183-185`), but the draft they get was remasked for
exact spellings only, so that a value the model spelled otherwise reaches them
(`SentAsAllowed` rules out the exact ones); a reviewed draft is remasked before the leak
check (`orchestrator_review.go:45`), so that no leak is flagged when a revision has
removed the value they saw; a window with too many misses is said to be silent only once
it has been told of (`throttle.go:45-46`), but one failed insert of
`preview_token_miss_throttled` makes the whole window silent (`orchestrator.go:413-419`,
`:745`), which `StormIsVisible` names; filing an incident again within sixty seconds is
said to return the first one (`docs/design/iteration-9.md:345`), but look-up and insert
are two statements, and two tabs file it twice (`incidents.go:275`), which
`RepeatsBounded` limits to one per tab and failed call; a comment on `buildRouter`
announces that the environment's key is used when a provider's own cannot be decrypted
(`main.go:227-228`), but the code leaves such a provider out (`main.go:338-350`), which is
what `EnvKeyNotMasking` states; an
empty resolution clears that of a closed incident (`storage/incidents.go:359`); of two
concurrent changes of providers the older reload may be installed last, and a failed one
is not repeated (`main.go:104`, `models.go`), which `RouterIsCurrent` excepts; the
revision after a review is paid with the organisation's key although the answer was paid
with the user's (`orchestrator_review.go:142` passes no `APIKeyOverride`); the design says
that every export is audited (`docs/design/iteration-9.md:782`), but the export goes out
when its event cannot be written (`audit.go:400`), and it holds the newest 200 events and
does not say that there are more (`audit.go:323`).

Every property of a passing run has a mutant in `PROJECT.json`: a definition of the
model changed as a plausible bug would, named beside the original in the module (a
dropped guard, a forgotten DELETE, a rule moved up), under which TLC finds the
property violated.

## 4. Fairness

`DocumentQueue!Fairness`. The loop polls every two seconds and never pauses for good
(weak fairness of a worker's own step); the container is restarted after a crash
(of `Restart`); time passes for a row that nobody heartbeats (of `Age` on unheld
rows only); an API handler that has begun runs to its end. Nothing is assumed about
`Heartbeat`, crashes, faults, uploads or retries, and a restart may come before the stuck
threshold or after it. `PendingIsServed` names what is out of the code's hands then: a
document whose worker is gone (`Orphaned`; `RequeueStuck` runs once per start of the loop,
and a prompt restart runs it too early), one whose last attempt was taken back from a live
worker with late heartbeats (`TakenBackSpent`), and the death of all loops in
`mark_failed`.

`ChatFlow!Fairness`. A handler that has begun goes on, as each of its calls has a
timeout (of `Handler \/ Failing`: it may go on by failing), and the background task
is detached from the client and runs. Nothing is assumed about the client. No task runs
in a process that has exited, which is why `BlockedGetsIncident` stops at a shutdown, and
a second failing call may take away the record of the first.

## 5. Proofs

TLAPS proves the following for every value of the constants that satisfies the
modules' named assumptions: any number of documents, workers, incidents, users and
sessions, and any bounds.

**DocumentQueue.** `TypeCorrect`: types, and each worker's cursor, whatever happens
to heartbeats. `Invariance`: the inductive invariant `IInv`, under the assumption
`LossyHeartbeat = FALSE` (a live worker's heartbeats arrive; without it the claim is
false, two workers do meet on one document). `ExclusiveProcessing` and
`CompleteResults` follow. `Exclusive` is not inductive: that a held document is not
re-queued needs `HeldIsFresh`, that it is not claimed again needs `HeldRow`
(a held row is `processing`, or deleted under its worker, or `done` while its worker,
to whom the answer of `mark_done` was lost, is about to mark it failed), that an upload
does not reset it needs `PutIsNew`. `DoneIsComplete` needs how far the holder has come:
`HolderProgress` says for each statement of the pipeline which rows exist and that
they are the holder's. The proof groups actions by what they disturb: API requests,
the loop, writes of the pipeline, claim and finish. `DoneStaysDone` (`DoneIsKept`)
follows from the same invariant: nobody but its holder can undo a done document, and the
holder only in the third case of `HeldRow`. `NobodyForgets` (`OrphanedOnlyByFailure`) and
`RowAndFile` (`RowAndFileAgree`) need no heartbeats: the first follows from the types, who
lets go of a document and what it writes then; the second from `FileInv`, which says where
the file is at each point of an upload and a delete.

`LifeImplemented` shows that `DocumentQueue` implements `DocumentLife`, again while
heartbeats arrive. `JobHolds` and `NobodyHas` read from `IInv` what the abstract guards
ask for: a re-queued, claimed or retried row is nobody's, and a worker's row is
`processing`, `deleted`, or `done` behind its back. `HolderProgress` gives the guard of
`Finish`: before `mark_done` the document is whole. One fact more is needed, `Requested`:
a delete in flight has read a row that is still there, so that `SoftDeleteDocument`
deletes something. `LifeApi`, `LifeLoop`, `LifeClaim`, `LifePipeline` and `LifeFinish` map
each group of actions to one abstract step or to none; a statement whose answer is lost
is the abstract step of its effect (`Take` without a job, `Finish` with the job kept).
`DoneIsKept` is proved (`DoneStaysDone`) and has no run: `ImplementsLife`, which
dq_pipeline checks, lets only a document's own worker undo what is done.

**Incidents.** `Invariance` proves `IInv`; `HistoryUnbroken`, `ClosedAgrees`,
`TypeCorrect` are its parts and `PatchIsSighted` the action
property `NoBlindWrite`. `HistoryIsChain` is not inductive, since the "from" of an
event is read before the transaction that writes it: `ReadRows` says it is right
whenever the transaction can succeed. That holds because an ETag stands for one
content of a row: `SeenRows` (an answer shows the row as long as its ETag is that of
the row), `SentETags` (a PATCH carries the ETag of its session's answer) and `Clocked`
(no `updated_at` lies in the future, so a change always gets a new ETag). Rows
are written by three transactions only, so there is a lemma on rows for each
(`FileRows`, `GrowRows`, `PatchRows`), one relation `Forward` that all steps keep
(rows are never lost, and their ETag changes with anything an answer shows), one lemma
that `Forward` keeps every session that does not move (`KeepView`), and one step per
action. `RepeatsAreFew` (`RepeatsBounded`) counts: to the recent incidents of a user about
an event are added the user's tabs that are about to insert one. The sum grows only when
`FindManual` finds no incident, and then there are only tabs to count, or when that look-up
fails and the handler inserts all the same, which `faults` pays for (`FindManualFew`); an
insert moves one from the second count to the first (`ManualIncidentFew`).

**ChatFlow.** `Invariance` proves `IInv`, six statements about each request that tie its
place `pc` to everything it has left behind: `Ordered` (the decision is that of `Prepare`
or one step harder), `Recorded` (Tx1 stands between "decided" and everything later),
`Prompted` (only the calling branch has sent anything, and what a prompt holds),
`Concluded` (a verdict is that of the branch taken, and stands beside what is stored),
`Streamed` (the answer only after its verdict) and `Raised` (task and incident stand on
a reason). None of the checked invariants is inductive without `pc`: that an early return
skips no transaction is the point. `AuditedFirst`, `VerdictAgrees`, `ShownAsRecorded`,
`RawIsFlagged`, `IncidentJustified`, `SentAsAllowed` and `ConcludedOrGone` follow
(`RecordedFirst`, `VerdictIsTrue`, `ShownIsRecorded`, `LeakIsFlagged`, `IncidentStands`,
`SentIsAllowed`, `EndIsTold`), the sixth with the decision table and with what each prompt
of the review loop holds, drafts and findings included (`ReviewSends`), the last with an
invariant of its own that says where the trail has an error. All failures write to the
trail in one of four ways, so `Books(r, K)` says once what a step adds to it, the
lost events of best-effort writes aside; a step of one request leaves the others alone
(`Alone`). For `AuditImplemented`, `Moves` sorts the steps of a request into seven kinds
(asks, prompts, answers, blocks, shows, raises, and quiet ones) and `MovesAudit` maps
each kind to one step of `ChatAudit` or to none.

**Admission.** `Invariance` joins `SingleUse` and `MissHasReason` with what makes them
inductive: `Kept` (what is in the cache is what was shown, in this life,
and nobody has asked for it), `Gone` (what was shown and is not there was asked for, has
expired or was lost), `Told` (a throttled window has let its event through, no more than
a window ago), and, for `StormIsVisible`, `Signalled` (behind every silent miss stands
such an event). `SentOnce` and `MissIsJustified` are its parts; `SilenceIsAnnounced`
(`StormIsVisible`) joins it with `Announced`: what the throttle lets through is being
written until it is written or lost (`NextAnnounced`).
Nothing is assumed of lifetime, limit and window: they may be zero.

`ReportsAreBounded` (`ReportsBounded`) has an invariant of its own, `RInv`. A count over
every stretch of a window's length is not inductive, since nothing says what the present
window may still spend. `Accounted` says it: the window of a user was opened at a time from
which it has counted every report of this life, and in the stretch of one window's length
before that there are no more reports than one window allows. A new window is opened only
when the last one is over, so the last one alone reaches into that stretch. A report made
now falls in stretches that end in the present window and begin in that stretch or later:
at most two windows' worth (`ReportCounted`). Counting is that of finite sets: `log`
grows by one report at a time.

**ModelRegistry.** `Invariance` joins `RightModel` and `EnvKeyNotMasking` with `Versions`
(no router, installed or about to be, is newer than the table), `Copies` (one of the
present version is the present table's), `Owed` (a router that is behind was given up, or
an administrator is on the way), `UniqueNames`, `Stored` and `Referenced` (from Tx1 on
the answering row cannot be deleted). `RouterBecomesCurrent`, `ModelIsRight` and
`EnvKeyOnlyWithoutKey` follow.

**PolicyCases.** `DecisionIsMonotone`, `RevisionIsCapped` and `ExternalIsNeverRaw`, by
cases over decisions and levels. `OnlySecretsAreCritical` (`CriticalIsSecret`) rests on
`ScoreOfSecret`: the base of a set of classes is that of its heaviest class and at most 10
is added for density, so that the score reaches 85 exactly when a secret is among them.
The lemma holds for every number of entities, where the states stop at `MaxEntities`.

**AuditReading.** `Invariance` proves `IInv`, for any users, events, times, filters, page
sizes and writers. `Walks` is the reason for the keyset cursor: what had committed when
the list began and matches the filter has been shown or lies below the cursor; pages
descend; the cursor is the last row shown (`Lowest`). `Exports` says the same of a single
page, and that an export's own event is among what had committed before; for that
`Recording` is needed: an event being recorded is open, and is that of no other export.
What the code gets from `ORDER BY created_at DESC, id DESC LIMIT n` is proved from the
order of the rows (`Ordered`: total and irreflexive on committed rows): a finite set of
rows that is not empty has a least and a greatest one (`LastIsLeast`, `HasGreatest`, from
`HasMinimal`), there is a set of the newest n, and what it leaves out lies below it
(`NewestRows`). `HasMinimal` uses that the strict subsets of finite sets are well-founded
and so needs no induction theorem. `PageShown` is the step of the walk; `Undisturbed` says that a
committed row never changes, so that writers and the clock disturb no reader.
`WalkMissesNothing`, `WalkNeverRepeats`, `ExportKeepsNewest`, `ListAgreesWithOpen` and
`TypeCorrect` follow.

**Only model-checked.** Liveness under fairness (`PendingIsServed`,
`BlockedGetsIncident`): temporal reasoning with ENABLED is out of the prover's reach.
Every other property of a passing run is stated by a theorem. The four properties that
the code violates are refuted by TLC on their runs.

## 6. Not modelled

Cryptography, configuration, metrics, health checks, CSV layout, DTOs and presentation
are formatting or primitives. Regular expressions, recognisers, parsers and models are
data: the models take any result. Of the chat orchestrator, sessions and the reading of
history are left out, and the rounds of the review loop, with all they send, are one step. The request rate
limiter refuses by `golang.org/x/time/rate`, a library; what is its own, the set of users
already reported, can only lose or repeat an audit line at a window's edge. The remaining
parts are in the plan below. `PROJECT.json` lists each component with its reason.

Limits of the models themselves: a request whose answer to the browser is lost is not told
apart from one that was answered; requeue_stuck that commits although its answer is lost
equals one that succeeds, since the loop goes on either way; time is a few ticks, so that drifting clocks of several processes
do not appear.

## 7. Plan

Done: the document queue with its abstract specification, the decision table, the chat
flow with its abstract specification, incidents, the preview gate, the model registry and
the reading of the audit; the safety properties of all of them and both refinements are
proved. Left, in order of importance:

1. **ReviewLoop.** Rounds, reviewers, findings, revision and attachments of
   `runModelReview`, shown to implement the single step `Review` of `ChatFlow`.
2. **Sanitizer algorithms.** `resolve_overlaps` against the best non-overlapping
   subset, numbering of pseudonyms, `Remask` and `Restore` against a reference over
   small texts; lemmas on their bounds.
3. **Access.** The predicate of `SearchChunks` against `CheckDocumentAccess`, reveal
   with its audit event first.
4. **Clients.** The SSE parser under arbitrary cuts of the stream, the OIDC state
   exchange, the SSH runner's timeout.

Abstract specifications: `ChatAudit` and `DocumentLife` are done; left is the review loop
as one step.
