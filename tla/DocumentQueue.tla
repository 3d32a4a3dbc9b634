--------------------------- MODULE DocumentQueue ---------------------------
(***************************************************************************)
(* The document pipeline of rubezh-worker on its PostgreSQL queue.         *)
(*                                                                         *)
(* The API uploads a file in two calls (object to MinIO, row to the        *)
(* database), deletes it in two calls and re-queues a failed one.  Workers *)
(* claim the oldest pending row, process it one database statement at a    *)
(* time and finish it.  Between any two statements another worker, an API  *)
(* request or a crash may come in.                                         *)
(*                                                                         *)
(* One action is one database statement (or transaction), one MinIO call   *)
(* or one change of a worker process.  Document numbers follow created_at. *)
(***************************************************************************)
EXTENDS Naturals, FiniteSets

CONSTANTS
    NumDocs,         \* how many uploads are attempted
    Workers,         \* worker processes, each running one queue loop
    MaxChunks,       \* largest number of chunks of a document
    Chunks,          \* Chunks[d]: how many chunks the text of d splits into
    MaxAttempts,     \* WORKER_MAX_ATTEMPTS
    LossyHeartbeat,  \* TRUE: a live worker's heartbeats may fail for the whole stuck threshold
    PromptRestart,   \* TRUE: a worker may restart before its document counts as stuck
    Deletable,       \* the documents that DELETE /api/documents/:id may be sent for
    MaxCrashes,      \* bound on worker crashes
    MaxFaults,       \* bound on failing calls (database, MinIO, sanitizer, parser)
    MaxRetries,      \* bound on POST /api/documents/:id/retry
    None             \* "no worker"

Docs  == 1..NumDocs
Index == 1..MaxChunks

ASSUME QueueAssumption ==
    /\ NumDocs \in Nat
    /\ MaxChunks \in Nat
    /\ Chunks \in [Docs -> 0..MaxChunks]
    /\ MaxAttempts \in Nat \ {0}
    /\ LossyHeartbeat \in BOOLEAN
    /\ PromptRestart \in BOOLEAN
    /\ Deletable \subseteq Docs
    /\ MaxCrashes \in Nat
    /\ MaxFaults \in Nat
    /\ MaxRetries \in Nat
    /\ None \notin Workers

VARIABLES
    status,    \* documents.status; "none" before the row exists
    attempts,  \* documents.processing_attempts
    started,   \* documents.processing_started_at: null, or on which side of the threshold
    phase,     \* documents.phase
    key,       \* documents.storage_key is not empty
    object,    \* the raw file is in MinIO
    chunk,     \* chunk[d][i]: the worker that wrote document_chunks row (d, i), None if no row
    vec,       \* vec[d]: indexes of the chunks of d that have an embeddings row
    results,   \* results[d]: workers whose sanitization_results row of d exists
    api,       \* the upload or delete request in flight for d
    pc,        \* the next statement of worker w
    doc,       \* the document worker w has claimed, 0 when it has none
    hasKey,    \* the storage_key in w's copy of the claimed row is not empty
    idx,       \* the chunk worker w is at
    crashes, faults, retries

rowVars    == <<status, attempts, started, phase, key>>
dataVars   == <<chunk, vec, results>>
workerVars == <<pc, doc, hasKey, idx>>
budget     == <<crashes, faults, retries>>
vars == <<rowVars, object, dataVars, api, workerVars, budget>>

Statuses == {"none", "pending", "processing", "done", "failed", "deleted"}
Phases   == {"null", "parsing", "chunking", "sanitizing", "embedding"}

\* The statements of process_document, in program order, plus mark_failed.
Pipeline == {"cleanup", "parsing", "download", "chunking", "sanitizing",
             "embedding", "chunk", "vector", "result", "mark_done"}
Active   == Pipeline \cup {"mark_failed"}

Holds(w, d) == pc[w] \in Active /\ doc[w] = d
Held(d)     == \E w \in Workers : Holds(w, d)

TypeOK ==
    /\ status \in [Docs -> Statuses]
    /\ attempts \in [Docs -> 0..MaxAttempts]
    /\ started \in [Docs -> {"null", "fresh", "stale"}]
    /\ phase \in [Docs -> Phases]
    /\ key \in [Docs -> BOOLEAN]
    /\ object \in [Docs -> BOOLEAN]
    /\ chunk \in [Docs -> [Index -> Workers \cup {None}]]
    /\ vec \in [Docs -> SUBSET Index]
    /\ results \in [Docs -> SUBSET Workers]
    /\ api \in [Docs -> {"idle", "put", "delete", "removed"}]
    /\ pc \in [Workers -> Active \cup {"down", "start", "idle", "dead"}]
    /\ doc \in [Workers -> Docs \cup {0}]
    /\ hasKey \in [Workers -> BOOLEAN]
    /\ idx \in [Workers -> 1..(MaxChunks + 1)]
    /\ crashes \in 0..MaxCrashes
    /\ faults \in 0..MaxFaults
    /\ retries \in 0..MaxRetries

Init ==
    /\ status = [d \in Docs |-> "none"]
    /\ attempts = [d \in Docs |-> 0]
    /\ started = [d \in Docs |-> "null"]
    /\ phase = [d \in Docs |-> "null"]
    /\ key = [d \in Docs |-> FALSE]
    /\ object = [d \in Docs |-> FALSE]
    /\ chunk = [d \in Docs |-> [i \in Index |-> None]]
    /\ vec = [d \in Docs |-> {}]
    /\ results = [d \in Docs |-> {}]
    /\ api = [d \in Docs |-> "idle"]
    /\ pc = [w \in Workers |-> "start"]
    /\ doc = [w \in Workers |-> 0]
    /\ hasKey = [w \in Workers |-> FALSE]
    /\ idx = [w \in Workers |-> 1]
    /\ crashes = 0
    /\ faults = 0
    /\ retries = 0

\* A call that fails: at most MaxFaults of them.
Fault == faults < MaxFaults /\ faults' = faults + 1 /\ UNCHANGED <<crashes, retries>>

(***************************************************************************)
(* API requests                                                            *)
(***************************************************************************)

\* uploadDocumentHandler: minioClient.Upload succeeds.
UploadObject(d) ==
    /\ status[d] = "none" /\ api[d] = "idle" /\ ~object[d]
    /\ object' = [object EXCEPT ![d] = TRUE]
    /\ api' = [api EXCEPT ![d] = "put"]
    /\ UNCHANGED <<rowVars, dataVars, workerVars, budget>>

\* uploadDocumentHandler: store.CreateDocument succeeds.
CreateDocument(d) ==
    /\ api[d] = "put"
    /\ \A e \in Docs : e > d => status[e] = "none"
    /\ status' = [status EXCEPT ![d] = "pending"]
    /\ key' = [key EXCEPT ![d] = TRUE]
    /\ api' = [api EXCEPT ![d] = "idle"]
    /\ UNCHANGED <<attempts, started, phase, object, dataVars, workerVars, budget>>

\* uploadDocumentHandler: CreateDocument fails, the object is removed best-effort.
CreateDocumentError(d) ==
    /\ api[d] = "put"
    /\ Fault
    /\ api' = [api EXCEPT ![d] = "idle"]
    /\ \E removed \in BOOLEAN : object' = [object EXCEPT ![d] = ~removed]
    /\ UNCHANGED <<rowVars, dataVars, workerVars>>

\* uploadDocumentHandler: the row is there, but its answer is lost; the handler
\* removes the object all the same.
CreateDocumentLost(d) ==
    /\ api[d] = "put"
    /\ \A e \in Docs : e > d => status[e] = "none"
    /\ Fault
    /\ status' = [status EXCEPT ![d] = "pending"]
    /\ key' = [key EXCEPT ![d] = TRUE]
    /\ api' = [api EXCEPT ![d] = "idle"]
    /\ \E removed \in BOOLEAN : object' = [object EXCEPT ![d] = ~removed]
    /\ UNCHANGED <<attempts, started, phase, dataVars, workerVars>>

\* Mutant of DeleteRead: the row is deleted without its file.
DeleteReadRow(d) ==
    /\ d \in Deletable
    /\ status[d] \notin {"none", "deleted"} /\ api[d] = "idle"
    /\ api' = [api EXCEPT ![d] = "removed"]
    /\ UNCHANGED <<rowVars, object, dataVars, workerVars, budget>>

\* deleteDocumentHandler: GetDocument finds the row.
DeleteRead(d) ==
    /\ d \in Deletable
    /\ status[d] \notin {"none", "deleted"} /\ api[d] = "idle"
    /\ api' = [api EXCEPT ![d] = IF key[d] THEN "delete" ELSE "removed"]
    /\ UNCHANGED <<rowVars, object, dataVars, workerVars, budget>>

\* deleteDocumentHandler: minioClient.Remove, whose error is ignored.
DeleteObject(d) ==
    /\ api[d] = "delete"
    /\ api' = [api EXCEPT ![d] = "removed"]
    /\ \/ object' = [object EXCEPT ![d] = FALSE] /\ UNCHANGED budget
       \/ Fault /\ UNCHANGED object
    /\ UNCHANGED <<rowVars, dataVars, workerVars>>

\* deleteDocumentHandler: SoftDeleteDocument.
SoftDeleteDocument(d) ==
    /\ api[d] = "removed"
    /\ status[d] # "deleted"
    /\ status' = [status EXCEPT ![d] = "deleted"]
    /\ key' = [key EXCEPT ![d] = FALSE]
    /\ phase' = [phase EXCEPT ![d] = "null"]
    /\ api' = [api EXCEPT ![d] = "idle"]
    /\ UNCHANGED <<attempts, started, object, dataVars, workerVars, budget>>

\* deleteDocumentHandler: SoftDeleteDocument fails, the handler answers 500.
SoftDeleteError(d) ==
    /\ api[d] = "removed"
    /\ Fault
    /\ api' = [api EXCEPT ![d] = "idle"]
    /\ UNCHANGED <<rowVars, object, dataVars, workerVars>>

\* Mutant of RetryDocument: any final state will do.
RetryTerminal(d) ==
    /\ status[d] \in {"failed", "done"}
    /\ retries < MaxRetries
    /\ retries' = retries + 1
    /\ status' = [status EXCEPT ![d] = "pending"]
    /\ attempts' = [attempts EXCEPT ![d] = 0]
    /\ started' = [started EXCEPT ![d] = "null"]
    /\ phase' = [phase EXCEPT ![d] = "null"]
    /\ UNCHANGED <<key, object, dataVars, api, workerVars, crashes, faults>>

\* retryDocumentHandler: RetryDocument, a single UPDATE ... WHERE status = 'failed'.
RetryDocument(d) ==
    /\ status[d] = "failed"
    /\ retries < MaxRetries
    /\ retries' = retries + 1
    /\ status' = [status EXCEPT ![d] = "pending"]
    /\ attempts' = [attempts EXCEPT ![d] = 0]
    /\ started' = [started EXCEPT ![d] = "null"]
    /\ phase' = [phase EXCEPT ![d] = "null"]
    /\ UNCHANGED <<key, object, dataVars, api, workerVars, crashes, faults>>

(***************************************************************************)
(* The queue loop of a worker                                              *)
(***************************************************************************)

Processing(d) == status[d] = "processing"      \* mutant of Stuck: no threshold

Stuck(d) == status[d] = "processing" /\ started[d] = "stale"

\* requeue_stuck, once, when the loop starts.
RequeueStuck(w) ==
    /\ pc[w] = "start"
    /\ status' = [d \in Docs |-> IF Stuck(d) THEN "pending" ELSE status[d]]
    /\ started' = [d \in Docs |-> IF Stuck(d) THEN "null" ELSE started[d]]
    /\ phase' = [d \in Docs |-> IF Stuck(d) THEN "null" ELSE phase[d]]
    /\ pc' = [pc EXCEPT ![w] = "idle"]
    /\ UNCHANGED <<attempts, key, object, dataVars, api, doc, hasKey, idx, budget>>

\* requeue_stuck raises: the loop logs a warning and goes on without it.
RequeueStuckError(w) ==
    /\ pc[w] = "start"
    /\ Fault
    /\ pc' = [pc EXCEPT ![w] = "idle"]
    /\ UNCHANGED <<rowVars, object, dataVars, api, doc, hasKey, idx>>

ClaimablePending(d) == status[d] = "pending"   \* mutant of Claimable: no limit

Claimable(d) == status[d] = "pending" /\ attempts[d] < MaxAttempts

\* Mutant of Claim: documents strictly in turn, one being processed included.
ClaimInTurn(w, d) ==
    /\ pc[w] = "idle"
    /\ Claimable(d)
    /\ \A e \in Docs : status[e] \in {"pending", "processing"} => d <= e
    /\ status' = [status EXCEPT ![d] = "processing"]
    /\ started' = [started EXCEPT ![d] = "fresh"]
    /\ attempts' = [attempts EXCEPT ![d] = @ + 1]
    /\ pc' = [pc EXCEPT ![w] = "cleanup"]
    /\ doc' = [doc EXCEPT ![w] = d]
    /\ hasKey' = [hasKey EXCEPT ![w] = key[d]]
    /\ UNCHANGED <<phase, key, object, dataVars, api, idx, budget>>

\* claim_next_document: the oldest pending row with attempts left, in one UPDATE.
Claim(w, d) ==
    /\ pc[w] = "idle"
    /\ Claimable(d)
    /\ \A e \in Docs : Claimable(e) => d <= e
    /\ status' = [status EXCEPT ![d] = "processing"]
    /\ started' = [started EXCEPT ![d] = "fresh"]
    /\ attempts' = [attempts EXCEPT ![d] = @ + 1]
    /\ pc' = [pc EXCEPT ![w] = "cleanup"]
    /\ doc' = [doc EXCEPT ![w] = d]
    /\ hasKey' = [hasKey EXCEPT ![w] = key[d]]
    /\ UNCHANGED <<phase, key, object, dataVars, api, idx, budget>>

\* The claim commits, but its answer is lost: the loop polls on without the document.
ClaimLost(w, d) ==
    /\ pc[w] = "idle"
    /\ Claimable(d)
    /\ \A e \in Docs : Claimable(e) => d <= e
    /\ Fault
    /\ status' = [status EXCEPT ![d] = "processing"]
    /\ started' = [started EXCEPT ![d] = "fresh"]
    /\ attempts' = [attempts EXCEPT ![d] = @ + 1]
    /\ UNCHANGED <<phase, key, object, dataVars, api, workerVars>>

(***************************************************************************)
(* process_document                                                        *)
(***************************************************************************)

Goto(w, p) == pc' = [pc EXCEPT ![w] = p]

\* Mutant of CleanupPreviousRun: the second DELETE is forgotten.
CleanupChunksOnly(w) ==
    /\ pc[w] = "cleanup"
    /\ chunk' = [chunk EXCEPT ![doc[w]] = [i \in Index |-> None]]
    /\ vec' = [vec EXCEPT ![doc[w]] = {}]
    /\ Goto(w, "parsing")
    /\ UNCHANGED <<rowVars, object, results, api, doc, hasKey, idx, budget>>

\* cleanup_previous_run: chunks (embeddings by CASCADE) and results, one transaction.
CleanupPreviousRun(w) ==
    /\ pc[w] = "cleanup"
    /\ chunk' = [chunk EXCEPT ![doc[w]] = [i \in Index |-> None]]
    /\ vec' = [vec EXCEPT ![doc[w]] = {}]
    /\ results' = [results EXCEPT ![doc[w]] = {}]
    /\ Goto(w, "parsing")
    /\ UNCHANGED <<rowVars, object, api, doc, hasKey, idx, budget>>

\* update_phase at stage p: an UPDATE by id alone.  After "chunking" a document
\* without chunks is finished; before "embedding" the sanitizer has answered.
UpdatePhase(w, p) ==
    /\ pc[w] = p
    /\ phase' = [phase EXCEPT ![doc[w]] = p]
    /\ Goto(w, CASE p = "parsing"    -> "download"
                 [] p = "chunking"   -> IF Chunks[doc[w]] = 0 THEN "mark_done" ELSE "sanitizing"
                 [] p = "sanitizing" -> "embedding"
                 [] p = "embedding"  -> "chunk")
    /\ idx' = IF p = "embedding" THEN [idx EXCEPT ![w] = 1] ELSE idx
    /\ UNCHANGED <<status, attempts, started, key, object, dataVars, api, doc, hasKey, budget>>

\* minio.download with the storage_key of the claimed row.
Download(w) ==
    /\ pc[w] = "download"
    /\ Goto(w, IF hasKey[w] /\ object[doc[w]] THEN "chunking" ELSE "mark_failed")
    /\ UNCHANGED <<rowVars, object, dataVars, api, doc, hasKey, idx, budget>>

\* insert_chunk: UNIQUE (document_id, chunk_index) rejects a second row.
InsertChunk(w) ==
    /\ pc[w] = "chunk"
    /\ LET d == doc[w]  i == idx[w] IN
         IF chunk[d][i] = None
         THEN chunk' = [chunk EXCEPT ![d][i] = w] /\ Goto(w, "vector")
         ELSE UNCHANGED chunk /\ Goto(w, "mark_failed")
    /\ UNCHANGED <<rowVars, object, vec, results, api, doc, hasKey, idx, budget>>

\* insert_embedding: chunk_id must still reference the row this worker inserted.
InsertEmbedding(w) ==
    /\ pc[w] = "vector"
    /\ LET d == doc[w]  i == idx[w] IN
         IF chunk[d][i] = w
         THEN /\ vec' = [vec EXCEPT ![d] = @ \cup {i}]
              /\ idx' = [idx EXCEPT ![w] = i + 1]
              /\ Goto(w, IF i = Chunks[d] THEN "result" ELSE "chunk")
         ELSE UNCHANGED <<vec, idx>> /\ Goto(w, "mark_failed")
    /\ UNCHANGED <<rowVars, object, chunk, results, api, doc, hasKey, budget>>

\* insert_sanitization_result: no uniqueness on document_id.
InsertResult(w) ==
    /\ pc[w] = "result"
    /\ results' = [results EXCEPT ![doc[w]] = @ \cup {w}]
    /\ Goto(w, "mark_done")
    /\ UNCHANGED <<rowVars, object, chunk, vec, api, doc, hasKey, idx, budget>>

\* The terminal UPDATEs are by id alone, whatever the row's status is by now.
Finish(d, s) ==
    /\ status' = [status EXCEPT ![d] = s]
    /\ started' = [started EXCEPT ![d] = "null"]
    /\ phase' = [phase EXCEPT ![d] = "null"]

\* The worker forgets the document: its copies of it are dead values from here on.
Release(w, p) ==
    /\ pc' = [pc EXCEPT ![w] = p]
    /\ doc' = [doc EXCEPT ![w] = 0]
    /\ hasKey' = [hasKey EXCEPT ![w] = FALSE]
    /\ idx' = [idx EXCEPT ![w] = 1]

MarkDone(w) ==
    /\ pc[w] = "mark_done"
    /\ Finish(doc[w], "done")
    /\ Release(w, "idle")
    /\ UNCHANGED <<attempts, key, object, dataVars, api, budget>>

\* Any statement of the pipeline raises before it takes effect.
StepError(w) ==
    /\ pc[w] \in Pipeline
    /\ Fault
    /\ Goto(w, "mark_failed")
    /\ UNCHANGED <<rowVars, object, dataVars, api, doc, hasKey, idx>>

\* A statement of the pipeline takes effect, but its answer is lost and it raises.
AnswerLost(w) ==
    /\ Fault
    /\ LET d == doc[w]  i == idx[w] IN
         \/ /\ pc[w] = "cleanup"
            /\ chunk' = [chunk EXCEPT ![d] = [j \in Index |-> None]]
            /\ vec' = [vec EXCEPT ![d] = {}]
            /\ results' = [results EXCEPT ![d] = {}]
            /\ UNCHANGED rowVars
         \/ /\ pc[w] \in Phases
            /\ phase' = [phase EXCEPT ![d] = pc[w]]
            /\ UNCHANGED <<status, attempts, started, key, dataVars>>
         \/ /\ pc[w] = "chunk" /\ chunk[d][i] = None
            /\ chunk' = [chunk EXCEPT ![d][i] = w]
            /\ UNCHANGED <<rowVars, vec, results>>
         \/ /\ pc[w] = "vector" /\ chunk[d][i] = w
            /\ vec' = [vec EXCEPT ![d] = @ \cup {i}]
            /\ UNCHANGED <<rowVars, chunk, results>>
         \/ /\ pc[w] = "result"
            /\ results' = [results EXCEPT ![d] = @ \cup {w}]
            /\ UNCHANGED <<rowVars, chunk, vec>>
         \/ /\ pc[w] = "mark_done"
            /\ Finish(d, "done")
            /\ UNCHANGED <<attempts, key, dataVars>>
    /\ Goto(w, "mark_failed")
    /\ UNCHANGED <<object, api, doc, hasKey, idx>>

\* Mutant of MarkFailed: the UPDATE misses the row.
MarkFailedMiss(w) ==
    /\ pc[w] = "mark_failed"
    /\ Release(w, "idle")
    /\ UNCHANGED <<rowVars, object, dataVars, api, budget>>

MarkFailed(w) ==
    /\ pc[w] = "mark_failed"
    /\ Finish(doc[w], "failed")
    /\ Release(w, "idle")
    /\ UNCHANGED <<attempts, key, object, dataVars, api, budget>>

\* mark_failed raises, before or after its effect: process_document raises,
\* _queue_loop re-raises and its task is over; the process itself stays up.
MarkFailedError(w) ==
    /\ pc[w] = "mark_failed"
    /\ Fault
    /\ \/ UNCHANGED rowVars
       \/ Finish(doc[w], "failed") /\ UNCHANGED <<attempts, key>>
    /\ Release(w, "dead")
    /\ UNCHANGED <<object, dataVars, api>>

(***************************************************************************)
(* Time, heartbeats, crashes                                               *)
(***************************************************************************)

\* The stuck threshold passes without a heartbeat for d.
Age(d) ==
    /\ status[d] = "processing" /\ started[d] = "fresh"
    /\ LossyHeartbeat \/ ~Held(d)
    /\ started' = [started EXCEPT ![d] = "stale"]
    /\ UNCHANGED <<status, attempts, phase, key, object, dataVars, api, workerVars, budget>>

\* heartbeat: UPDATE ... WHERE id = $1 AND status = 'processing'.
Heartbeat(w) ==
    /\ pc[w] \in Active
    /\ status[doc[w]] = "processing" /\ started[doc[w]] = "stale"
    /\ started' = [started EXCEPT ![doc[w]] = "fresh"]
    /\ UNCHANGED <<status, attempts, phase, key, object, dataVars, api, workerVars, budget>>

\* Kill, OOM, or the cancellation of the task ten seconds after shutdown began.
Crash(w) ==
    /\ pc[w] # "down"
    /\ crashes < MaxCrashes
    /\ crashes' = crashes + 1
    /\ Release(w, "down")
    /\ UNCHANGED <<rowVars, object, dataVars, api, faults, retries>>

Restart(w) ==
    /\ pc[w] = "down"
    /\ \/ PromptRestart
       \/ \A d \in Docs : status[d] = "processing" /\ ~Held(d) => started[d] = "stale"
    /\ Goto(w, "start")
    /\ UNCHANGED <<rowVars, object, dataVars, api, doc, hasKey, idx, budget>>

ApiStep(d) ==
    \/ UploadObject(d) \/ CreateDocument(d) \/ CreateDocumentError(d) \/ CreateDocumentLost(d)
    \/ DeleteRead(d) \/ DeleteObject(d) \/ SoftDeleteDocument(d) \/ SoftDeleteError(d)
    \/ RetryDocument(d)

\* The steps a live worker takes by itself when nothing fails.
WorkerStep(w) ==
    \/ RequeueStuck(w)
    \/ \E d \in Docs : Claim(w, d)
    \/ CleanupPreviousRun(w)
    \/ \E p \in Phases \ {"null"} : UpdatePhase(w, p)
    \/ Download(w) \/ InsertChunk(w) \/ InsertEmbedding(w) \/ InsertResult(w)
    \/ MarkDone(w) \/ MarkFailed(w)

\* A call of a live worker fails, before its effect or after it.
WorkerError(w) ==
    \/ RequeueStuckError(w) \/ StepError(w) \/ AnswerLost(w) \/ MarkFailedError(w)
    \/ \E d \in Docs : ClaimLost(w, d)

Next ==
    \/ \E d \in Docs : ApiStep(d) \/ Age(d)
    \/ \E w \in Workers :
         WorkerStep(w) \/ Heartbeat(w) \/ Crash(w) \/ Restart(w) \/ WorkerError(w)

Spec == Init /\ [][Next]_vars

\* The loop never pauses forever (poll interval 2 s), the container is restarted
\* after a crash, time passes for a row nobody heartbeats, and an API handler
\* that has begun runs to its end.
Fairness ==
    /\ \A w \in Workers : WF_vars(WorkerStep(w)) /\ WF_vars(Restart(w))
    /\ \A d \in Docs : /\ WF_vars(Age(d) /\ ~Held(d))
                       /\ WF_vars(DeleteObject(d) \/ SoftDeleteDocument(d))

FairSpec == Spec /\ Fairness

(***************************************************************************)
(* Properties                                                              *)
(***************************************************************************)

\* Two live workers never process the same document: claim is atomic, a
\* heartbeat keeps requeue_stuck away from a document somebody still holds.
Exclusive == \A v, w \in Workers, d \in Docs : Holds(v, d) /\ Holds(w, d) => v = w

\* What search and chat with a document read: a done document has every chunk
\* with its embedding and exactly one sanitization result, whatever earlier
\* runs of it left behind when they failed or crashed.
Complete(d) ==
    /\ \A i \in 1..Chunks[d] : chunk[d][i] # None
    /\ vec[d] = 1..Chunks[d]
    /\ \A i \in Index : i > Chunks[d] => chunk[d][i] = None
    /\ IF Chunks[d] = 0 THEN results[d] = {} ELSE \E w \in Workers : results[d] = {w}

DoneIsComplete == \A d \in Docs : status[d] = "done" => Complete(d)

\* A row is left in "processing" with nobody working on it only when its worker
\* crashed, its queue loop died, or nobody learned of its claim; no ordinary outcome
\* abandons a document.
Orphaned(d) == status[d] = "processing" /\ ~Held(d)

OrphanedOnlyByFailure ==
    [][\A d \in Docs : ~Orphaned(d) /\ Orphaned(d)'
         => \/ \E w \in Workers : Holds(w, d) /\ pc'[w] \in {"down", "dead"}
            \/ status[d] = "pending" /\ faults' > faults]_vars

\* The terminal UPDATEs ask neither for the row's status nor for its worker, yet a
\* done document stays done until it is deleted: nobody claims, re-queues or retries
\* it, and no other worker's failure is written over it.  The exception is mark_done
\* itself, when its answer is lost.
DoneIsKept ==
    [][\A d \in Docs : status[d] = "done" =>
         \/ status'[d] \in {"done", "deleted"}
         \/ status'[d] = "failed" /\ faults > 0]_vars

\* Upload and delete are two calls each, to MinIO and to the database, and workers
\* write the row in between: unless a call failed, a file and the key that leads
\* to it exist together whenever no request about the document is in flight.
RowAndFileAgree ==
    \A d \in Docs : api[d] = "idle" /\ faults = 0 => (object[d] <=> key[d])

\* What DocumentLife promises, read off the rows and the workers' places: the document
\* a live worker is at, and the documents whose derived rows are whole.
Job   == [w \in Workers |-> IF pc[w] \in Active THEN doc[w] ELSE 0]
Whole == {d \in Docs : Complete(d)}

Life == INSTANCE DocumentLife WITH Nothing <- 0, stage <- status, job <- Job, whole <- Whole

\* Rows, claims, re-queues, terminal UPDATEs, crashes and lost answers together make no
\* more of a document than its life allows: one worker at a time, and done only when whole.
ImplementsLife == Life!Spec

\* A live worker's heartbeats failed for the whole threshold and its document was
\* re-queued under it, in the last attempt it had.
TakenBackSpent(d) == status[d] = "pending" /\ Held(d) /\ ~Claimable(d)

\* A document with attempts left is served, whatever becomes of the documents before it:
\* it is done, failed or deleted in the end, unless its worker crashed or died under it
\* (or nobody learned of the claim), its last attempt was taken back from a live worker,
\* or the loops of all workers are dead.  At any moment workers may restart, before the
\* stuck threshold or after it, and heartbeats may fail.  Served is not settled: after
\* the exceptions a document may be pending with its attempts spent, which claim skips
\* and nothing marks failed, although queue.py:76-77 says it becomes failed.
PendingIsServed ==
    \A d \in Docs :
        Claimable(d) ~> \/ status[d] \in {"done", "failed", "deleted"}
                        \/ Orphaned(d) \/ TakenBackSpent(d)
                        \/ \A w \in Workers : pc[w] = "dead"

(***************************************************************************)
(* The inductive invariant behind Exclusive and DoneIsComplete             *)
(***************************************************************************)

\* Where a worker stands in its own copy of the document, whoever else holds it.
Cursor ==
    \A w \in Workers : pc[w] \in Active =>
        /\ doc[w] \in Docs
        /\ pc[w] \in {"sanitizing", "embedding", "result"} => Chunks[doc[w]] >= 1
        /\ pc[w] \in {"chunk", "vector"} => idx[w] \in 1..Chunks[doc[w]]

\* The row of a held document is still its holder's, or was deleted under it, or its
\* holder has not learned that it is done.
HeldRow ==
    \A w \in Workers : pc[w] \in Active =>
        \/ status[doc[w]] \in {"processing", "deleted"}
        \/ status[doc[w]] = "done" /\ pc[w] = "mark_failed" /\ faults > 0

\* An upload in flight has no row yet.
PutIsNew == \A d \in Docs : api[d] = "put" => status[d] = "none"

\* What heartbeats give, as long as they arrive.
HeldIsFresh == \A w \in Workers : pc[w] \in Active => started[doc[w]] # "stale"

\* The first n chunks of d are w's, n or n - 1 of them embedded, and no others exist.
Written(w, d, n) ==
    /\ \A i \in Index : IF i <= n THEN chunk[d][i] = w ELSE chunk[d][i] = None
    /\ results[d] = {}

Progress(w, d) ==
    /\ pc[w] \in {"parsing", "download", "chunking", "sanitizing", "embedding"} =>
          Written(w, d, 0) /\ vec[d] = {}
    /\ pc[w] \in {"chunk", "vector"} => vec[d] = 1..(idx[w] - 1)
    /\ pc[w] = "chunk" => Written(w, d, idx[w] - 1)
    /\ pc[w] = "vector" => Written(w, d, idx[w])
    /\ pc[w] = "result" => Written(w, d, Chunks[d]) /\ vec[d] = 1..Chunks[d]
    /\ pc[w] = "mark_done" => Complete(d)

HolderProgress == \A w \in Workers : pc[w] \in Active => Progress(w, doc[w])

Safety == PutIsNew /\ HeldRow /\ HeldIsFresh /\ Exclusive /\ HolderProgress /\ DoneIsComplete

IInv == TypeOK /\ Cursor /\ Safety

(***************************************************************************)
(* What a design document says and the code does not do (a violation run)  *)
(***************************************************************************)

\* iteration-10.md: deleted is irrecoverable.
DeletedIsFinal ==
    [][\A d \in Docs : status[d] = "deleted" => status'[d] = "deleted"]_vars

=============================================================================
