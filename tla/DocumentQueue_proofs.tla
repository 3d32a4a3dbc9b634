------------------------ MODULE DocumentQueue_proofs ------------------------
(***************************************************************************)
(* Proofs about DocumentQueue: type correctness for every heartbeat        *)
(* behaviour; exclusive processing and complete results as long as a live  *)
(* worker's heartbeats arrive.                                             *)
(***************************************************************************)
EXTENDS DocumentQueue, TLAPS

\* Every worker and API step keeps the variables in their types: in particular
\* no interleaving of claims, re-queues and retries exceeds MaxAttempts.
LEMMA TypeApi ==
    ASSUME TypeOK, NEW d \in Docs, ApiStep(d) \/ Age(d)
    PROVE  TypeOK'
<1> USE QueueAssumption DEF TypeOK, Statuses, Phases, rowVars, dataVars, workerVars, budget, Fault
<1>1. CASE UploadObject(d)         BY <1>1 DEF UploadObject
<1>2. CASE CreateDocument(d)       BY <1>2 DEF CreateDocument
<1>3. CASE CreateDocumentError(d)  BY <1>3 DEF CreateDocumentError
<1>4. CASE DeleteRead(d)           BY <1>4 DEF DeleteRead
<1>5. CASE DeleteObject(d)
  <2>1. CASE UNCHANGED budget        BY <1>5, <2>1 DEF DeleteObject
  <2>2. CASE Fault                   BY <1>5, <2>2 DEF DeleteObject
  <2> QED BY <1>5, <2>1, <2>2 DEF DeleteObject
<1>6. CASE SoftDeleteDocument(d)   BY <1>6 DEF SoftDeleteDocument
<1>7. CASE SoftDeleteError(d)      BY <1>7 DEF SoftDeleteError
<1>8. CASE RetryDocument(d)        BY <1>8 DEF RetryDocument
<1>9. CASE Age(d)                  BY <1>9 DEF Age
<1>10. CASE CreateDocumentLost(d)  BY <1>10 DEF CreateDocumentLost
<1> QED BY <1>1, <1>2, <1>3, <1>4, <1>5, <1>6, <1>7, <1>8, <1>9, <1>10 DEF ApiStep

\* The step to the next phase, whichever of the four it is.
LEMMA TypeUpdatePhase ==
    ASSUME TypeOK, Cursor, NEW w \in Workers, NEW p \in Phases \ {"null"}, UpdatePhase(w, p)
    PROVE  TypeOK'
<1>1. p \in {"parsing", "chunking", "sanitizing", "embedding"} /\ pc[w] = p
  BY DEF UpdatePhase, Phases
<1>2. phase' \in [Docs -> Phases]
  <2>1. phase' = [phase EXCEPT ![doc[w]] = p] /\ phase \in [Docs -> Phases]
    BY DEF UpdatePhase, TypeOK
  <2> QED BY <2>1
<1>3. idx' \in [Workers -> 1..(MaxChunks + 1)]
  <2>1. idx \in [Workers -> 1..(MaxChunks + 1)] /\ 1 \in 1..(MaxChunks + 1)
    BY QueueAssumption DEF TypeOK
  <2>2. idx' = idx \/ idx' = [idx EXCEPT ![w] = 1]
    BY DEF UpdatePhase
  <2>3. CASE idx' = idx                     BY <2>1, <2>3
  <2>4. CASE idx' = [idx EXCEPT ![w] = 1]   BY <2>1, <2>4
  <2> QED BY <2>2, <2>3, <2>4
<1>4. pc' \in [Workers -> Active \cup {"down", "start", "idle", "dead"}]
  <2>1. \E q0 \in {"download", "mark_done", "sanitizing", "embedding", "chunk"} :
           pc' = [pc EXCEPT ![w] = q0]
    <3>1. CASE p = "parsing"     BY <3>1 DEF UpdatePhase, Goto
    <3>2. CASE p = "chunking"    BY <3>2 DEF UpdatePhase, Goto
    <3>3. CASE p = "sanitizing"  BY <3>3 DEF UpdatePhase, Goto
    <3>4. CASE p = "embedding"   BY <3>4 DEF UpdatePhase, Goto
    <3> QED BY <1>1, <3>1, <3>2, <3>3, <3>4
  <2>2. {"download", "mark_done", "sanitizing", "embedding", "chunk"}
          \subseteq Active \cup {"down", "start", "idle", "dead"}
    BY DEF Active, Pipeline
  <2>3. pc \in [Workers -> Active \cup {"down", "start", "idle", "dead"}]
    BY DEF TypeOK
  <2> QED BY <2>1, <2>2, <2>3
<1>5. UNCHANGED <<status, attempts, started, key, object, chunk, vec, results, api, doc,
                  hasKey, crashes, faults, retries>>
  BY DEF UpdatePhase, dataVars, budget
<1> QED BY <1>2, <1>3, <1>4, <1>5 DEF TypeOK

\* What InsertEmbedding writes while the chunk is the worker's own.
LEMMA EmbeddingEffect ==
    ASSUME TypeOK, NEW w \in Workers, InsertEmbedding(w), doc[w] \in Docs, idx[w] \in Index,
           chunk[doc[w]][idx[w]] = w
    PROVE  /\ vec'[doc[w]] = vec[doc[w]] \cup {idx[w]}
           /\ idx'[w] = idx[w] + 1
           /\ pc'[w] = IF idx[w] = Chunks[doc[w]] THEN "result" ELSE "chunk"
<1>1. vec \in [Docs -> SUBSET Index] /\ w \in DOMAIN idx /\ w \in DOMAIN pc
  BY DEF TypeOK
<1>2. /\ vec' = [vec EXCEPT ![doc[w]] = @ \cup {idx[w]}]
      /\ idx' = [idx EXCEPT ![w] = idx[w] + 1]
      /\ pc' = [pc EXCEPT ![w] = IF idx[w] = Chunks[doc[w]] THEN "result" ELSE "chunk"]
  BY DEF InsertEmbedding, Goto
<1> QED BY <1>1, <1>2

LEMMA TypeEmbedding ==
    ASSUME TypeOK, NEW w \in Workers, InsertEmbedding(w),
           vec' \in [Docs -> SUBSET Index], idx' \in [Workers -> 1..(MaxChunks + 1)],
           pc' \in [Workers -> Active \cup {"down", "start", "idle", "dead"}]
    PROVE  TypeOK'
<1>1. UNCHANGED <<status, attempts, started, phase, key, object, chunk, results, api, doc,
                  hasKey, crashes, faults, retries>>
  BY DEF InsertEmbedding, rowVars, budget
<1> QED BY <1>1 DEF TypeOK

\* A statement whose answer is lost writes one kind of rows, or ends the document.
LEMMA LostRows ==
    ASSUME TypeOK, Cursor, NEW w \in Workers, AnswerLost(w)
    PROVE  /\ pc[w] \in Pipeline /\ doc[w] \in Docs
           /\ chunk' \in [Docs -> [Index -> Workers \cup {None}]]
           /\ vec' \in [Docs -> SUBSET Index]
           /\ results' \in [Docs -> SUBSET Workers]
           /\ phase' \in [Docs -> Phases]
           /\ \/ UNCHANGED <<status, started>>
              \/ pc[w] = "mark_done" /\ Finish(doc[w], "done") /\ UNCHANGED dataVars
           /\ \A e \in Docs \ {doc[w]} :
                 chunk'[e] = chunk[e] /\ vec'[e] = vec[e] /\ results'[e] = results[e]
<1> USE DEF TypeOK, dataVars, rowVars
<1> DEFINE d == doc[w]
           i == idx[w]
<1>1. pc[w] \in Pipeline /\ pc[w] \in Active /\ d \in Docs
  BY DEF AnswerLost, Cursor, Active, Pipeline, Phases
<1>2. CASE /\ pc[w] = "cleanup"
           /\ chunk' = [chunk EXCEPT ![d] = [j \in Index |-> None]]
           /\ vec' = [vec EXCEPT ![d] = {}]
           /\ results' = [results EXCEPT ![d] = {}]
           /\ UNCHANGED rowVars
  BY <1>1, <1>2
<1>3. CASE /\ pc[w] \in Phases
           /\ phase' = [phase EXCEPT ![d] = pc[w]]
           /\ UNCHANGED <<status, attempts, started, key, dataVars>>
  BY <1>1, <1>3
<1>4. CASE /\ pc[w] = "chunk" /\ chunk[d][i] = None
           /\ chunk' = [chunk EXCEPT ![d][i] = w]
           /\ UNCHANGED <<rowVars, vec, results>>
  <2>1. chunk' = [chunk EXCEPT ![d] = [chunk[d] EXCEPT ![i] = w]]
    BY <1>4
  <2>2. [chunk[d] EXCEPT ![i] = w] \in [Index -> Workers \cup {None}]
    BY <1>1
  <2>3. chunk' \in [Docs -> [Index -> Workers \cup {None}]]
    BY <2>1, <2>2
  <2>4. \A e \in Docs \ {d} : chunk'[e] = chunk[e]
    BY <2>1
  <2> QED BY <1>1, <1>4, <2>3, <2>4
<1>5. CASE /\ pc[w] = "vector" /\ chunk[d][i] = w
           /\ vec' = [vec EXCEPT ![d] = @ \cup {i}]
           /\ UNCHANGED <<rowVars, chunk, results>>
  <2>1. i \in 1..Chunks[d] /\ Chunks[d] \in 0..MaxChunks
    BY <1>1, <1>5, QueueAssumption DEF Cursor
  <2>0. i \in Index
    BY <2>1, QueueAssumption DEF Index
  <2>2. vec[d] \cup {i} \in SUBSET Index
    BY <1>1, <2>0
  <2> QED BY <1>1, <1>5, <2>2
<1>6. CASE /\ pc[w] = "result"
           /\ results' = [results EXCEPT ![d] = @ \cup {w}]
           /\ UNCHANGED <<rowVars, chunk, vec>>
  BY <1>1, <1>6
<1>7. CASE /\ pc[w] = "mark_done"
           /\ Finish(d, "done")
           /\ UNCHANGED <<attempts, key, dataVars>>
  BY <1>1, <1>7 DEF Finish, Phases
<1> QED BY <1>1, <1>2, <1>3, <1>4, <1>5, <1>6, <1>7 DEF AnswerLost

LEMMA TypeLost ==
    ASSUME TypeOK, Cursor, NEW w \in Workers, AnswerLost(w)
    PROVE  TypeOK'
<1>1. /\ pc' \in [Workers -> Active \cup {"down", "start", "idle", "dead"}]
      /\ faults' \in 0..MaxFaults
      /\ UNCHANGED <<object, api, doc, hasKey, idx, crashes, retries>>
  BY QueueAssumption DEF AnswerLost, Goto, Fault, TypeOK, Active
<1>2. UNCHANGED <<attempts, key>>
  BY DEF AnswerLost, rowVars
<1>3. status' \in [Docs -> Statuses] /\ started' \in [Docs -> {"null", "fresh", "stale"}]
  <2>1. CASE UNCHANGED <<status, started>>
    BY <2>1 DEF TypeOK
  <2>2. CASE Finish(doc[w], "done")
    BY <2>2 DEF Finish, TypeOK, Statuses
  <2> QED BY <2>1, <2>2, LostRows
<1> QED BY <1>1, <1>2, <1>3, LostRows DEF TypeOK

\* Adding the next index to an initial segment.
LEMMA NextIndex ==
    ASSUME NEW n \in Nat, NEW i \in 1..n
    PROVE  (1..(i - 1)) \cup {i} = 1..i /\ (i + 1) - 1 = i
OBVIOUS

LEMMA TypeWorker ==
    ASSUME TypeOK, Cursor, NEW w \in Workers,
           WorkerStep(w) \/ Heartbeat(w) \/ Crash(w) \/ Restart(w) \/ WorkerError(w)
    PROVE  TypeOK'
<1> USE QueueAssumption
    DEF TypeOK, Cursor, Index, Statuses, Phases, Pipeline, Active, rowVars, dataVars,
        workerVars, budget, Fault, Goto, Release, Finish
<1>1. CASE RequeueStuck(w)         BY <1>1 DEF RequeueStuck
<1>2. ASSUME NEW d \in Docs, Claim(w, d)
      PROVE  TypeOK'
  BY <1>2 DEF Claim, Claimable
<1>3. CASE CleanupPreviousRun(w)   BY <1>3 DEF CleanupPreviousRun
<1>4. ASSUME NEW p \in Phases \ {"null"}, UpdatePhase(w, p)
      PROVE  TypeOK'
  BY <1>4, TypeUpdatePhase
<1>5. CASE Download(w)             BY <1>5 DEF Download
<1>6. CASE InsertChunk(w)
  <2>1. doc[w] \in Docs /\ idx[w] \in Index
    BY <1>6 DEF InsertChunk
  <2>2. CASE chunk[doc[w]][idx[w]] = None
    <3>1. chunk' = [chunk EXCEPT ![doc[w]] = [chunk[doc[w]] EXCEPT ![idx[w]] = w]]
      BY <1>6, <2>2 DEF InsertChunk
    <3>2. chunk[doc[w]] \in [Index -> Workers \cup {None}]
      BY <2>1
    <3>3. [chunk[doc[w]] EXCEPT ![idx[w]] = w] \in [Index -> Workers \cup {None}]
      BY <3>2
    <3>4. chunk' \in [Docs -> [Index -> Workers \cup {None}]]
      BY <2>1, <3>1, <3>3
    <3> QED BY <1>6, <2>1, <2>2, <3>4 DEF InsertChunk
  <2>3. CASE chunk[doc[w]][idx[w]] # None
    BY <1>6, <2>1, <2>3 DEF InsertChunk
  <2> QED BY <2>2, <2>3
<1>7. CASE InsertEmbedding(w)
  <2>1. doc[w] \in Docs /\ idx[w] \in Index
    BY <1>7 DEF InsertEmbedding
  <2>2. CASE chunk[doc[w]][idx[w]] = w
    <3>1. idx[w] + 1 \in 1..(MaxChunks + 1)
      BY <2>1
    <3>2. vec[doc[w]] \cup {idx[w]} \in SUBSET Index
      BY <2>1
    <3>3. /\ vec' = [vec EXCEPT ![doc[w]] = vec[doc[w]] \cup {idx[w]}]
          /\ idx' = [idx EXCEPT ![w] = idx[w] + 1]
      BY <1>7, <2>2 DEF InsertEmbedding
    <3>4. vec' \in [Docs -> SUBSET Index]
      BY <2>1, <3>2, <3>3
    <3>5. idx' \in [Workers -> 1..(MaxChunks + 1)]
      BY <3>1, <3>3
    <3>6. pc' \in [Workers -> Active \cup {"down", "start", "idle", "dead"}]
      <4>1. pc' = [pc EXCEPT ![w] = "result"] \/ pc' = [pc EXCEPT ![w] = "chunk"]
        BY <1>7, <2>2 DEF InsertEmbedding
      <4> QED BY <4>1
    <3> QED BY <1>7, <3>4, <3>5, <3>6, TypeEmbedding
  <2>3. CASE chunk[doc[w]][idx[w]] # w
    BY <1>7, <2>1, <2>3 DEF InsertEmbedding
  <2> QED BY <2>2, <2>3
<1>8. CASE InsertResult(w)         BY <1>8 DEF InsertResult
<1>9. CASE MarkDone(w)             BY <1>9 DEF MarkDone
<1>10. CASE MarkFailed(w)          BY <1>10 DEF MarkFailed
<1>11. CASE Heartbeat(w)           BY <1>11 DEF Heartbeat
<1>12. CASE Crash(w)               BY <1>12 DEF Crash
<1>13. CASE Restart(w)             BY <1>13 DEF Restart
<1>14. CASE RequeueStuckError(w)   BY <1>14 DEF RequeueStuckError
<1>15. CASE StepError(w)           BY <1>15 DEF StepError
<1>16. CASE MarkFailedError(w)
  <2>1. /\ status' \in [Docs -> Statuses] /\ phase' \in [Docs -> Phases]
        /\ started' \in [Docs -> {"null", "fresh", "stale"}]
        /\ UNCHANGED <<attempts, key>>
    <3>1. CASE UNCHANGED rowVars
      BY <3>1 DEF rowVars, TypeOK
    <3>2. CASE Finish(doc[w], "failed") /\ UNCHANGED <<attempts, key>>
      BY <3>2 DEF Finish, TypeOK, Statuses, Phases
    <3> QED BY <1>16, <3>1, <3>2 DEF MarkFailedError
  <2> QED BY <1>16, <2>1 DEF MarkFailedError
<1>17. CASE AnswerLost(w)          BY <1>17, TypeLost
<1>18. ASSUME NEW d \in Docs, ClaimLost(w, d)
       PROVE  TypeOK'
  BY <1>18 DEF ClaimLost, Claimable
<1> QED
  BY <1>1, <1>2, <1>3, <1>4, <1>5, <1>6, <1>7, <1>8, <1>9, <1>10, <1>11, <1>12,
     <1>13, <1>14, <1>15, <1>16, <1>17, <1>18 DEF WorkerStep, WorkerError

\* A worker's place in its own copy of a document depends on nobody else.
LEMMA CursorStep ==
    ASSUME TypeOK, Cursor, [Next]_vars
    PROVE  Cursor'
<1> USE QueueAssumption
    DEF TypeOK, Cursor, Index, Phases, Pipeline, Active, rowVars, dataVars, workerVars,
        budget, Fault, Goto, Release, Finish
<1>1. ASSUME NEW d \in Docs, ApiStep(d) \/ Age(d)
      PROVE  Cursor'
  <2>1. UNCHANGED workerVars
    BY <1>1 DEF ApiStep, UploadObject, CreateDocument, CreateDocumentError,
                CreateDocumentLost, DeleteRead,
                DeleteObject, SoftDeleteDocument, SoftDeleteError, RetryDocument, Age
  <2> QED BY <2>1
<1>2. ASSUME NEW w \in Workers, NEW d \in Docs, Claim(w, d)
      PROVE  Cursor'
  BY <1>2 DEF Claim
<1>3. ASSUME NEW w \in Workers, NEW p \in Phases \ {"null"}, UpdatePhase(w, p)
      PROVE  Cursor'
  BY <1>3 DEF UpdatePhase
<1>4. ASSUME NEW w \in Workers, InsertEmbedding(w)
      PROVE  Cursor'
  BY <1>4 DEF InsertEmbedding
<1>5. ASSUME NEW w \in Workers,
             \/ CleanupPreviousRun(w) \/ Download(w) \/ InsertChunk(w) \/ InsertResult(w)
             \/ StepError(w) \/ Heartbeat(w)
      PROVE  Cursor'
  BY <1>5 DEF CleanupPreviousRun, Download, InsertChunk, InsertResult, StepError, Heartbeat
<1>8. ASSUME NEW w \in Workers, AnswerLost(w)
      PROVE  Cursor'
  <2>1. doc[w] \in Docs
    BY <1>8, LostRows
  <2>2. /\ pc' = [pc EXCEPT ![w] = "mark_failed"]
        /\ UNCHANGED <<doc, idx>>
    BY <1>8 DEF AnswerLost
  <2> QED BY <2>1, <2>2
<1>9. ASSUME NEW w \in Workers, NEW d \in Docs, ClaimLost(w, d)
      PROVE  Cursor'
  BY <1>9 DEF ClaimLost
<1>6. ASSUME NEW w \in Workers,
             \/ RequeueStuck(w) \/ RequeueStuckError(w) \/ MarkDone(w) \/ MarkFailed(w)
             \/ MarkFailedError(w) \/ Crash(w) \/ Restart(w)
      PROVE  Cursor'
  <2>1. /\ pc' \in [Workers -> Active \cup {"down", "start", "idle", "dead"}]
        /\ pc'[w] \notin Active
        /\ \A v \in Workers \ {w} : pc'[v] = pc[v] /\ doc'[v] = doc[v] /\ idx'[v] = idx[v]
    <3>1. CASE RequeueStuck(w)       BY <3>1 DEF RequeueStuck
    <3>2. CASE RequeueStuckError(w)  BY <3>2 DEF RequeueStuckError
    <3>3. CASE MarkDone(w)           BY <3>3 DEF MarkDone
    <3>4. CASE MarkFailed(w)         BY <3>4 DEF MarkFailed
    <3>5. CASE MarkFailedError(w)    BY <3>5 DEF MarkFailedError
    <3>6. CASE Crash(w)              BY <3>6 DEF Crash
    <3>7. CASE Restart(w)            BY <3>7 DEF Restart
    <3> QED BY <1>6, <3>1, <3>2, <3>3, <3>4, <3>5, <3>6, <3>7
  <2> QED BY <2>1
<1>7. CASE UNCHANGED vars
  BY <1>7 DEF vars
<1> QED
  BY <1>1, <1>2, <1>3, <1>4, <1>5, <1>6, <1>7, <1>8, <1>9 DEF Next, WorkerStep, WorkerError

\* No interleaving, with or without heartbeats, breaks the types: no document is
\* attempted more than MaxAttempts times between two manual retries.
THEOREM TypeCorrect == Spec => [](TypeOK /\ Cursor)
<1>1. Init => TypeOK /\ Cursor
  BY QueueAssumption DEF Init, TypeOK, Cursor, Index, Statuses, Active, Pipeline, Phases
<1>2. TypeOK /\ Cursor /\ [Next]_vars => (TypeOK /\ Cursor)'
  <2> SUFFICES ASSUME TypeOK, Cursor, [Next]_vars PROVE (TypeOK /\ Cursor)'
    OBVIOUS
  <2>1. Cursor' BY CursorStep
  <2>2. CASE Next BY <2>1, <2>2, TypeApi, TypeWorker DEF Next
  <2>3. CASE UNCHANGED vars
    BY <2>1, <2>3 DEF vars, rowVars, dataVars, workerVars, budget, TypeOK
  <2> QED BY <2>2, <2>3
<1> QED BY <1>1, <1>2, PTL DEF Spec

-----------------------------------------------------------------------------

\* Completeness and a holder's progress are about one document's rows only.
LEMMA CompleteFrame ==
    ASSUME NEW d, chunk'[d] = chunk[d], vec'[d] = vec[d], results'[d] = results[d], Complete(d)
    PROVE  Complete(d)'
BY DEF Complete

LEMMA ProgressFrame ==
    ASSUME NEW v, pc'[v] = pc[v], doc'[v] = doc[v], idx'[v] = idx[v],
           chunk'[doc[v]] = chunk[doc[v]], vec'[doc[v]] = vec[doc[v]],
           results'[doc[v]] = results[doc[v]], Progress(v, doc[v])
    PROVE  Progress(v, doc[v])'
BY DEF Progress, Written, Complete

\* Failures are never forgotten.
LEMMA FaultsGrow ==
    ASSUME TypeOK, Next
    PROVE  faults > 0 => faults' > 0
<1> USE QueueAssumption DEF TypeOK, Fault, budget
<1>1. ASSUME NEW d \in Docs, ApiStep(d) \/ Age(d)
      PROVE  faults' \in {faults, faults + 1}
  BY <1>1 DEF ApiStep, UploadObject, CreateDocument, CreateDocumentError, CreateDocumentLost,
     DeleteRead, DeleteObject, SoftDeleteDocument, SoftDeleteError, RetryDocument, Age
<1>2. ASSUME NEW w \in Workers, WorkerStep(w) \/ Heartbeat(w) \/ Crash(w) \/ Restart(w)
      PROVE  faults' = faults
  <2>1. ASSUME NEW d \in Docs, Claim(w, d) PROVE faults' = faults
    BY <2>1 DEF Claim
  <2>2. ASSUME NEW p \in Phases \ {"null"}, UpdatePhase(w, p) PROVE faults' = faults
    BY <2>2 DEF UpdatePhase
  <2>3. CASE \/ RequeueStuck(w) \/ CleanupPreviousRun(w) \/ Download(w) \/ InsertChunk(w)
             \/ InsertEmbedding(w) \/ InsertResult(w) \/ MarkDone(w) \/ MarkFailed(w)
    BY <2>3 DEF RequeueStuck, CleanupPreviousRun, Download, InsertChunk, InsertEmbedding,
       InsertResult, MarkDone, MarkFailed
  <2>4. CASE Heartbeat(w) \/ Crash(w) \/ Restart(w)
    BY <2>4 DEF Heartbeat, Crash, Restart
  <2> QED BY <1>2, <2>1, <2>2, <2>3, <2>4 DEF WorkerStep
<1>3. ASSUME NEW w \in Workers, WorkerError(w)
      PROVE  faults' = faults + 1
  BY <1>3 DEF WorkerError, RequeueStuckError, StepError, AnswerLost, MarkFailedError, ClaimLost
<1>4. faults \in Nat
  OBVIOUS
<1> QED BY <1>1, <1>2, <1>3, <1>4 DEF Next

\* A worker that goes on holding its document keeps HeldRow.
LEMMA HeldRowFrame ==
    ASSUME HeldRow, faults > 0 => faults' > 0, NEW v \in Workers,
           pc[v] \in Active, pc'[v] = pc[v], doc'[v] = doc[v],
           status'[doc[v]] \in {status[doc[v]], "deleted"}
    PROVE  \/ status'[doc'[v]] \in {"processing", "deleted"}
           \/ status'[doc'[v]] = "done" /\ pc'[v] = "mark_failed" /\ faults' > 0
<1>1. \/ status[doc[v]] \in {"processing", "deleted"}
      \/ status[doc[v]] = "done" /\ pc[v] = "mark_failed" /\ faults > 0
  BY DEF HeldRow
<1> QED BY <1>1

\* Requests of the API and the passing of time never disturb a holder, because a
\* pending or failed row has none and a fresh row ages only without one.
LEMMA SafetyApi ==
    ASSUME IInv, LossyHeartbeat = FALSE, NEW d \in Docs, ApiStep(d) \/ Age(d)
    PROVE  Safety'
<1> USE DEF IInv, Safety, TypeOK, Cursor, rowVars, dataVars, workerVars, Active, Pipeline
<1>0. faults > 0 => faults' > 0
  BY FaultsGrow DEF Next
<1>1. UNCHANGED <<workerVars, dataVars>>
  BY DEF ApiStep, UploadObject, CreateDocument, CreateDocumentError, CreateDocumentLost,
         DeleteRead, DeleteObject, SoftDeleteDocument, SoftDeleteError, RetryDocument, Age
<1>2. /\ \A e \in Docs : status'[e] # status[e] =>
            /\ e = d
            /\ \/ status[d] \in {"none", "failed"} /\ status'[d] = "pending"
               \/ status'[d] = "deleted"
      /\ \A e \in Docs : api'[e] = "put" => api[e] = "put" \/ status[e] = "none"
      /\ \A e \in Docs : api'[e] = "put" => status'[e] = status[e]
      /\ \A e \in Docs : started'[e] = "stale" => started[e] = "stale" \/ ~Held(e)
  <2>1. CASE UploadObject(d)         BY <2>1 DEF UploadObject
  <2>2. CASE CreateDocument(d)       BY <2>2 DEF CreateDocument, PutIsNew
  <2>3. CASE CreateDocumentError(d)  BY <2>3 DEF CreateDocumentError
  <2>4. CASE DeleteRead(d)           BY <2>4 DEF DeleteRead
  <2>5. CASE DeleteObject(d)         BY <2>5 DEF DeleteObject
  <2>6. CASE SoftDeleteDocument(d)   BY <2>6 DEF SoftDeleteDocument
  <2>7. CASE SoftDeleteError(d)      BY <2>7 DEF SoftDeleteError
  <2>8. CASE RetryDocument(d)        BY <2>8 DEF RetryDocument, PutIsNew
  <2>9. CASE Age(d)                  BY <2>9 DEF Age
  <2>10. CASE CreateDocumentLost(d)  BY <2>10 DEF CreateDocumentLost, PutIsNew
  <2> QED BY <2>1, <2>2, <2>3, <2>4, <2>5, <2>6, <2>7, <2>8, <2>9, <2>10 DEF ApiStep
<1>3. PutIsNew'
  BY <1>2 DEF PutIsNew
<1>4. HeldRow'
  <2> SUFFICES ASSUME NEW v \in Workers, pc'[v] \in Active
               PROVE  \/ status'[doc'[v]] \in {"processing", "deleted"}
                      \/ status'[doc'[v]] = "done" /\ pc'[v] = "mark_failed" /\ faults' > 0
    BY DEF HeldRow
  <2>1. pc'[v] = pc[v] /\ doc'[v] = doc[v] /\ doc[v] \in Docs
    BY <1>1
  <2>2. status[doc[v]] \notin {"none", "failed"}
    BY <2>1 DEF HeldRow
  <2>3. status'[doc[v]] \in {status[doc[v]], "deleted"}
    BY <1>2, <2>1, <2>2
  <2> QED BY <1>0, <2>1, <2>3, HeldRowFrame
<1>5. HeldIsFresh'
  BY <1>1, <1>2 DEF HeldIsFresh, Held, Holds
<1>6. Exclusive'
  BY <1>1 DEF Exclusive, Holds
<1>7. HolderProgress'
  BY <1>1, ProgressFrame DEF HolderProgress
<1>8. DoneIsComplete'
  BY <1>1, <1>2, CompleteFrame DEF DoneIsComplete
<1> QED BY <1>3, <1>4, <1>5, <1>6, <1>7, <1>8

\* Steps of w that touch neither rows' status nor the data of a document, and at
\* most let w go: crashes, restarts, failures, a re-queue of nobody's documents.
LEMMA SafetyLoop ==
    ASSUME IInv, NEW w \in Workers,
           \/ RequeueStuck(w) \/ RequeueStuckError(w) \/ Crash(w) \/ Restart(w)
           \/ StepError(w) \/ Download(w) \/ Heartbeat(w)
    PROVE  Safety'
<1> USE DEF IInv, Safety, TypeOK, Cursor, rowVars, dataVars, workerVars, Active, Pipeline,
            Goto, Release, Fault
<1>0. faults > 0 => faults' > 0
  BY FaultsGrow DEF Next, WorkerStep, WorkerError
<1>1. /\ UNCHANGED <<dataVars, api>>
      /\ \A v \in Workers : pc'[v] \in Active =>
            /\ pc[v] \in Active /\ doc'[v] = doc[v] /\ idx'[v] = idx[v]
            /\ pc'[v] # pc[v] => pc'[v] \in {"mark_failed", "chunking"}
            /\ pc'[v] = "chunking" => pc[v] \in {"download", "chunking"}
      /\ \A e \in Docs : status'[e] # status[e] => Stuck(e) /\ status'[e] = "pending"
      /\ \A e \in Docs : started'[e] = "stale" => started[e] = "stale"
  <2>1. CASE RequeueStuck(w)       BY <2>1 DEF RequeueStuck
  <2>2. CASE RequeueStuckError(w)  BY <2>2 DEF RequeueStuckError
  <2>3. CASE Crash(w)              BY <2>3 DEF Crash
  <2>4. CASE Restart(w)            BY <2>4 DEF Restart
  <2>5. CASE StepError(w)          BY <2>5 DEF StepError
  <2>6. CASE Download(w)           BY <2>6 DEF Download
  <2>7. CASE Heartbeat(w)          BY <2>7 DEF Heartbeat
  <2> QED BY <2>1, <2>2, <2>3, <2>4, <2>5, <2>6, <2>7
<1>2. PutIsNew'
  BY <1>1 DEF PutIsNew, Stuck
<1>3. HeldRow'
  BY <1>0, <1>1 DEF HeldRow, HeldIsFresh, Stuck
<1>4. HeldIsFresh'
  BY <1>1 DEF HeldIsFresh
<1>5. Exclusive'
  BY <1>1 DEF Exclusive, Holds
<1>6. HolderProgress'
  <2> SUFFICES ASSUME NEW v \in Workers, pc'[v] \in Active
               PROVE  Progress(v, doc[v])'
    BY DEF HolderProgress
  <2>1. CASE pc'[v] = pc[v]
    BY <1>1, <2>1, ProgressFrame DEF HolderProgress
  <2>2. CASE pc'[v] # pc[v]
    BY <1>1, <2>2 DEF HolderProgress, Progress, Written, Complete
  <2> QED BY <2>1, <2>2
<1>7. DoneIsComplete'
  BY <1>1, CompleteFrame DEF DoneIsComplete, Stuck
<1> QED BY <1>2, <1>3, <1>4, <1>5, <1>6, <1>7

\* A holder that writes only its own document's chunks, vectors and results
\* disturbs nobody: every other holder has another document, and its own is not done.
LEMMA SafetyWrite ==
    ASSUME IInv, NEW w \in Workers, pc[w] \in Pipeline, pc'[w] \in Active,
           faults > 0 => faults' > 0, UNCHANGED <<status, started, api, doc>>,
           \A v \in Workers \ {w} : pc'[v] = pc[v] /\ idx'[v] = idx[v],
           \A e \in Docs \ {doc[w]} :
               chunk'[e] = chunk[e] /\ vec'[e] = vec[e] /\ results'[e] = results[e],
           Progress(w, doc[w])'
    PROVE  Safety'
<1> USE DEF IInv, Safety, Cursor
<1>0. pc[w] \in Active /\ pc[w] # "mark_failed"
  BY DEF Active, Pipeline
<1> USE <1>0
<1>1. PutIsNew' /\ HeldRow' /\ HeldIsFresh' /\ Exclusive'
  BY DEF PutIsNew, HeldRow, HeldIsFresh, Exclusive, Holds
<1>2. HolderProgress'
  <2> SUFFICES ASSUME NEW v \in Workers, pc'[v] \in Active, v # w
               PROVE  Progress(v, doc[v])'
    BY DEF HolderProgress
  <2>1. doc[v] \in Docs \ {doc[w]}
    BY DEF Exclusive, Holds
  <2> QED BY <2>1, ProgressFrame DEF HolderProgress
<1>3. DoneIsComplete'
  <2> SUFFICES ASSUME NEW e \in Docs, status[e] = "done"
               PROVE  Complete(e)'
    BY DEF DoneIsComplete
  <2>1. e # doc[w]
    BY DEF HeldRow
  <2> QED BY <2>1, CompleteFrame DEF DoneIsComplete
<1> QED BY <1>1, <1>2, <1>3

\* The pipeline leads from a clean slate to a complete document.
LEMMA SafetyPipeline ==
    ASSUME IInv, NEW w \in Workers,
           \/ CleanupPreviousRun(w)
           \/ \E p \in Phases \ {"null"} : UpdatePhase(w, p)
           \/ InsertChunk(w) \/ InsertEmbedding(w) \/ InsertResult(w)
    PROVE  Safety'
<1>0. UNCHANGED faults
  BY DEF CleanupPreviousRun, UpdatePhase, InsertChunk, InsertEmbedding, InsertResult, budget
<1> USE <1>0, QueueAssumption
    DEF IInv, TypeOK, Cursor, Active, Pipeline, Phases, Goto, rowVars, dataVars, Index
<1>1. CASE CleanupPreviousRun(w)
  <2>1. Progress(w, doc[w])'
    BY <1>1 DEF CleanupPreviousRun, Progress, Written
  <2> QED BY <1>1, <2>1, SafetyWrite DEF CleanupPreviousRun
<1>2. ASSUME NEW p \in Phases \ {"null"}, UpdatePhase(w, p)
      PROVE  Safety'
  <2>1. /\ Written(w, doc[w], 0) /\ vec[doc[w]] = {} /\ doc[w] \in Docs
        /\ UNCHANGED <<chunk, vec, results, doc>>
    BY <1>2 DEF UpdatePhase, Safety, HolderProgress, Progress
  <2>2. CASE p = "embedding"
    <3>1. pc'[w] = "chunk" /\ idx'[w] = 1
      BY <1>2, <2>2 DEF UpdatePhase
    <3>2. Written(w, doc[w], 0)' /\ vec'[doc'[w]] = {}
      BY <2>1 DEF Written
    <3>3. idx'[w] - 1 = 0 /\ 1..(idx'[w] - 1) = {}
      BY <3>1
    <3>4. Progress(w, doc[w])'
      BY <3>1, <3>2, <3>3 DEF Progress
    <3> QED BY <1>2, <3>4, SafetyWrite DEF UpdatePhase
  <2>3. CASE p = "chunking" /\ Chunks[doc[w]] = 0
    <3>1. pc'[w] = "mark_done"
      BY <1>2, <2>3 DEF UpdatePhase
    <3>2. Complete(doc[w])'
      BY <2>1, <2>3 DEF Complete, Written
    <3>3. Progress(w, doc[w])'
      BY <3>1, <3>2 DEF Progress
    <3> QED BY <1>2, <3>3, SafetyWrite DEF UpdatePhase
  <2>4. CASE p # "embedding" /\ ~(p = "chunking" /\ Chunks[doc[w]] = 0)
    <3>1. pc'[w] \in {"download", "sanitizing", "embedding"}
      <4>1. CASE p = "parsing"     BY <1>2, <4>1 DEF UpdatePhase
      <4>2. CASE p = "chunking"    BY <1>2, <2>4, <4>2 DEF UpdatePhase
      <4>3. CASE p = "sanitizing"  BY <1>2, <4>3 DEF UpdatePhase
      <4> QED BY <2>4, <4>1, <4>2, <4>3
    <3>2. Written(w, doc[w], 0)' /\ vec'[doc'[w]] = {}
      BY <2>1 DEF Written
    <3>3. Progress(w, doc[w])'
      BY <3>1, <3>2 DEF Progress
    <3> QED BY <1>2, <3>3, SafetyWrite DEF UpdatePhase
  <2> QED BY <2>2, <2>3, <2>4
<1>3. CASE InsertChunk(w)
  <2> DEFINE d == doc[w]
             i == idx[w]
  <2>1. /\ d \in Docs /\ i \in 1..Chunks[d] /\ i \in Index
        /\ Written(w, d, i - 1) /\ vec[d] = 1..(i - 1)
        /\ UNCHANGED <<doc, idx, vec, results>>
    BY <1>3 DEF InsertChunk, Safety, HolderProgress, Progress
  <2>2. chunk[d][i] = None
    BY <2>1 DEF Written
  <2>3. pc'[w] = "vector" /\ chunk' = [chunk EXCEPT ![d] = [chunk[d] EXCEPT ![i] = w]]
    BY <1>3, <2>2 DEF InsertChunk
  <2>4. chunk'[d] = [chunk[d] EXCEPT ![i] = w]
    BY <2>1, <2>3
  <2>5. Written(w, d, i)'
    BY <2>1, <2>4 DEF Written
  <2>6. Progress(w, doc[w])'
    BY <2>1, <2>3, <2>5 DEF Progress
  <2> QED BY <1>3, <2>6, SafetyWrite DEF InsertChunk
<1>4. CASE InsertEmbedding(w)
  <2> PICK d, i : d = doc[w] /\ i = idx[w]
    OBVIOUS
  <2>0. pc[w] = "vector" /\ UNCHANGED <<doc, chunk, results>>
    BY <1>4 DEF InsertEmbedding
  <2>1. /\ d \in Docs /\ i \in 1..Chunks[d] /\ i \in Index
        /\ Written(w, d, i) /\ vec[d] = 1..(i - 1)
        /\ UNCHANGED <<doc, chunk, results>>
    <3>1. pc[w] \in Active /\ Progress(w, d)
      BY <2>0 DEF Safety, HolderProgress
    <3>2. d \in Docs /\ i \in 1..Chunks[d] /\ i \in Index
      BY <2>0, <3>1 DEF Cursor
    <3> QED BY <2>0, <3>1, <3>2 DEF Progress
  <2>2. chunk[d][i] = w
    BY <2>1 DEF Written
  <2>3. /\ vec'[d] = vec[d] \cup {i}
        /\ idx'[w] = i + 1
        /\ pc'[w] = IF i = Chunks[d] THEN "result" ELSE "chunk"
    BY <1>4, <2>1, <2>2, EmbeddingEffect
  <2>4. vec'[d] = 1..i
    <3>1. Chunks[d] \in Nat
      BY <2>1
    <3>2. vec'[d] = (1..(i - 1)) \cup {i}
      BY <2>1, <2>3
    <3> QED BY <2>1, <3>1, <3>2, NextIndex
  <2>5. Written(w, d, i)'
    BY <2>1 DEF Written
  <2>6. Progress(w, doc[w])'
    <3>1. CASE i = Chunks[d]
      BY <2>1, <2>3, <2>4, <2>5, <3>1 DEF Progress
    <3>2. CASE i # Chunks[d]
      <4>1. idx'[w] - 1 = i
        BY <2>1, <2>3
      <4> QED BY <2>1, <2>3, <2>4, <2>5, <3>2, <4>1 DEF Progress
    <3> QED BY <3>1, <3>2
  <2> QED BY <1>4, <2>6, SafetyWrite DEF InsertEmbedding
<1>5. CASE InsertResult(w)
  <2> DEFINE d == doc[w]
  <2>1. /\ d \in Docs /\ Chunks[d] >= 1 /\ Chunks[d] \in Nat
        /\ Written(w, d, Chunks[d]) /\ vec[d] = 1..Chunks[d]
        /\ UNCHANGED <<doc, chunk, vec>>
    BY <1>5 DEF InsertResult, Safety, HolderProgress, Progress
  <2>2. results'[d] = {w} /\ pc'[w] = "mark_done"
    BY <1>5, <2>1 DEF InsertResult, Written
  <2>3. \A i \in Index : IF i <= Chunks[d] THEN chunk[d][i] = w ELSE chunk[d][i] = None
    BY <2>1 DEF Written
  <2>4. 1..Chunks[d] \subseteq Index
    BY <2>1
  <2>5. Complete(d)'
    BY <2>1, <2>2, <2>3, <2>4 DEF Complete
  <2>6. Progress(w, doc[w])'
    BY <2>1, <2>2, <2>5 DEF Progress
  <2> QED BY <1>5, <2>6, SafetyWrite DEF InsertResult
<1> QED BY <1>1, <1>2, <1>3, <1>4, <1>5

\* A claim takes a row nobody holds; a terminal UPDATE ends the hold that made it.
LEMMA SafetyClaimFinish ==
    ASSUME IInv, NEW w \in Workers,
           \/ \E d \in Docs : Claim(w, d) \/ ClaimLost(w, d)
           \/ MarkDone(w) \/ MarkFailed(w) \/ MarkFailedError(w) \/ AnswerLost(w)
    PROVE  Safety'
<1> USE DEF IInv, Safety, TypeOK, Cursor, Active, Pipeline, dataVars
<1>0. faults > 0 => faults' > 0
  BY FaultsGrow DEF Next, WorkerStep, WorkerError
<1>1. ASSUME NEW d \in Docs, Claim(w, d)
      PROVE  Safety'
  <2>1. /\ UNCHANGED <<chunk, vec, results, api>>
        /\ status[d] = "pending" /\ status' = [status EXCEPT ![d] = "processing"]
        /\ started' = [started EXCEPT ![d] = "fresh"]
        /\ pc'[w] = "cleanup" /\ doc'[w] = d
        /\ \A v \in Workers \ {w} : pc'[v] = pc[v] /\ doc'[v] = doc[v] /\ idx'[v] = idx[v]
    BY <1>1 DEF Claim, Claimable
  <2>2. \A v \in Workers : pc[v] \in Active => doc[v] # d
    BY <2>1 DEF HeldRow
  <2>3. PutIsNew' /\ HeldRow' /\ HeldIsFresh'
    <3>1. PutIsNew'
      BY <2>1 DEF PutIsNew
    <3>2. HeldRow'
      <4> SUFFICES ASSUME NEW v \in Workers, pc'[v] \in Active
                   PROVE  \/ status'[doc'[v]] \in {"processing", "deleted"}
                          \/ status'[doc'[v]] = "done" /\ pc'[v] = "mark_failed" /\ faults' > 0
        BY DEF HeldRow
      <4>1. CASE v = w  BY <2>1, <4>1
      <4>2. CASE v # w
        <5>1. pc'[v] = pc[v] /\ doc'[v] = doc[v] /\ pc[v] \in Active
          BY <2>1, <4>2
        <5>2. status'[doc[v]] = status[doc[v]]
          BY <2>1, <2>2, <5>1
        <5> QED BY <1>0, <5>1, <5>2, HeldRowFrame
      <4> QED BY <4>1, <4>2
    <3>3. HeldIsFresh'
      <4>1. \A e \in Docs \ {d} : started'[e] = started[e]
        BY <2>1
      <4>2. started'[d] = "fresh"
        BY <2>1
      <4>3. \A v \in Workers \ {w} : pc[v] \in Active =>
                doc[v] \in Docs \ {d} /\ started[doc[v]] # "stale"
        BY <2>2 DEF HeldIsFresh
      <4>4. ASSUME NEW v \in Workers, pc'[v] \in Active
            PROVE  started'[doc'[v]] # "stale"
        <5>1. CASE v = w  BY <2>1, <4>2, <5>1
        <5>2. CASE v # w  BY <2>1, <4>1, <4>3, <4>4, <5>2
        <5> QED BY <5>1, <5>2
      <4> QED BY <4>4 DEF HeldIsFresh
    <3> QED BY <3>1, <3>2, <3>3
  <2>4. Exclusive'
    BY <2>1, <2>2 DEF Exclusive, Holds
  <2>5. HolderProgress'
    <3> SUFFICES ASSUME NEW v \in Workers, pc'[v] \in Active
                 PROVE  Progress(v, doc[v])'
      BY DEF HolderProgress
    <3>1. CASE v = w   BY <2>1, <3>1 DEF Progress
    <3>2. CASE v # w   BY <2>1, <3>2, ProgressFrame DEF HolderProgress
    <3> QED BY <3>1, <3>2
  <2>6. DoneIsComplete'
    BY <2>1, CompleteFrame DEF DoneIsComplete
  <2> QED BY <2>3, <2>4, <2>5, <2>6
<1>2. CASE MarkDone(w) \/ MarkFailed(w) \/ MarkFailedError(w)
  <2>1. /\ UNCHANGED <<chunk, vec, results, api>>
        /\ pc[w] \in Active /\ doc[w] \in Docs
        /\ \A e \in Docs \ {doc[w]} : status'[e] = status[e] /\ started'[e] = started[e]
        /\ status'[doc[w]] \in {status[doc[w]], "done", "failed"}
        /\ status'[doc[w]] = "done" => pc[w] = "mark_done" \/ status[doc[w]] = "done"
        /\ pc'[w] \in {"idle", "dead"}
        /\ \A v \in Workers \ {w} : pc'[v] = pc[v] /\ doc'[v] = doc[v] /\ idx'[v] = idx[v]
    <3>1. CASE MarkDone(w)     BY <3>1 DEF MarkDone, Finish, Release
    <3>2. CASE MarkFailed(w)   BY <3>2 DEF MarkFailed, Finish, Release
    <3>3. CASE MarkFailedError(w)
      BY <3>3 DEF MarkFailedError, Finish, Release, rowVars
    <3> QED BY <1>2, <3>1, <3>2, <3>3
  <2>2. \A v \in Workers \ {w} : pc[v] \in Active => doc[v] \in Docs \ {doc[w]}
    BY <2>1 DEF Exclusive, Holds
  <2>3. HeldRow' /\ HeldIsFresh' /\ Exclusive'
    <3>1. HeldRow'
      <4> SUFFICES ASSUME NEW v \in Workers, pc'[v] \in Active
                   PROVE  \/ status'[doc'[v]] \in {"processing", "deleted"}
                          \/ status'[doc'[v]] = "done" /\ pc'[v] = "mark_failed" /\ faults' > 0
        BY DEF HeldRow
      <4>1. v # w /\ pc'[v] = pc[v] /\ doc'[v] = doc[v] /\ pc[v] \in Active
        BY <2>1
      <4>2. status'[doc[v]] = status[doc[v]]
        BY <2>1, <2>2, <4>1
      <4> QED BY <1>0, <4>1, <4>2, HeldRowFrame
    <3>2. HeldIsFresh'
      <4> SUFFICES ASSUME NEW v \in Workers, pc'[v] \in Active
                   PROVE  started'[doc'[v]] # "stale"
        BY DEF HeldIsFresh
      <4>1. v # w /\ doc'[v] = doc[v] /\ pc[v] \in Active
        BY <2>1
      <4>2. started'[doc[v]] = started[doc[v]]
        BY <2>1, <2>2, <4>1
      <4> QED BY <4>1, <4>2 DEF HeldIsFresh
    <3>3. Exclusive'
      <4> SUFFICES ASSUME NEW u \in Workers, NEW v \in Workers, NEW e \in Docs,
                          pc'[u] \in Active, doc'[u] = e, pc'[v] \in Active, doc'[v] = e
                   PROVE  u = v
        BY DEF Exclusive, Holds
      <4>1. /\ pc[u] \in Active /\ doc[u] = e
            /\ pc[v] \in Active /\ doc[v] = e
        BY <2>1
      <4> QED BY <4>1 DEF Exclusive, Holds
    <3> QED BY <3>1, <3>2, <3>3
  <2>4. PutIsNew'
    <3>1. api[doc[w]] # "put"
      BY <2>1 DEF PutIsNew, HeldRow
    <3> QED BY <2>1, <3>1 DEF PutIsNew
  <2>5. HolderProgress'
    BY <2>1, ProgressFrame DEF HolderProgress
  <2>6. DoneIsComplete'
    <3> SUFFICES ASSUME NEW e \in Docs, status'[e] = "done"
                 PROVE  Complete(e)'
      BY DEF DoneIsComplete
    <3>1. Complete(e)
      BY <2>1 DEF DoneIsComplete, HolderProgress, Progress
    <3> QED BY <2>1, <3>1, CompleteFrame
  <2> QED BY <2>3, <2>4, <2>5, <2>6
<1>3. ASSUME NEW d \in Docs, ClaimLost(w, d)
      PROVE  Safety'
  <2>1. /\ UNCHANGED <<chunk, vec, results, api, pc, doc, idx>>
        /\ status[d] = "pending" /\ status' = [status EXCEPT ![d] = "processing"]
        /\ started' = [started EXCEPT ![d] = "fresh"]
    BY <1>3 DEF ClaimLost, Claimable, workerVars
  <2>2. \A v \in Workers : pc[v] \in Active => doc[v] \in Docs \ {d}
    BY <2>1 DEF HeldRow
  <2>3. \A e \in Docs \ {d} : status'[e] = status[e] /\ started'[e] = started[e]
    BY <2>1
  <2>4. PutIsNew'
    BY <2>1 DEF PutIsNew
  <2>5. HeldRow' /\ HeldIsFresh'
    BY <1>0, <2>1, <2>2, <2>3 DEF HeldRow, HeldIsFresh
  <2>6. Exclusive'
    BY <2>1 DEF Exclusive, Holds
  <2>7. HolderProgress'
    BY <2>1, ProgressFrame DEF HolderProgress
  <2>8. DoneIsComplete'
    BY <2>1, CompleteFrame DEF DoneIsComplete
  <2> QED BY <2>4, <2>5, <2>6, <2>7, <2>8
<1>4. CASE AnswerLost(w)
  <2>1. /\ pc[w] \in Pipeline /\ doc[w] \in Docs
        /\ \A e \in Docs \ {doc[w]} :
              chunk'[e] = chunk[e] /\ vec'[e] = vec[e] /\ results'[e] = results[e]
    BY <1>4, LostRows
  <2>2. /\ pc' = [pc EXCEPT ![w] = "mark_failed"]
        /\ UNCHANGED <<api, doc, idx>>
        /\ faults' > 0
    BY <1>4 DEF AnswerLost, Goto, Fault
  <2>3. pc'[w] = "mark_failed" /\ \A v \in Workers \ {w} : pc'[v] = pc[v]
    BY <2>2
  <2>4. Progress(w, doc[w])'
    BY <2>3 DEF Progress
  <2>5. CASE UNCHANGED <<status, started>>
    BY <2>1, <2>2, <2>3, <2>4, <2>5, SafetyWrite
  <2>6. CASE pc[w] = "mark_done" /\ Finish(doc[w], "done") /\ UNCHANGED dataVars
    <3>1. /\ status'[doc[w]] = "done" /\ started'[doc[w]] = "null"
          /\ \A e \in Docs \ {doc[w]} : status'[e] = status[e] /\ started'[e] = started[e]
      BY <2>1, <2>6 DEF Finish
    <3>2. \A v \in Workers \ {w} : pc[v] \in Active => doc[v] \in Docs \ {doc[w]}
      BY <2>1 DEF Exclusive, Holds
    <3>3. PutIsNew'
      <4>1. api[doc[w]] # "put"
        BY <2>1 DEF PutIsNew, HeldRow
      <4> QED BY <2>1, <2>2, <3>1, <4>1 DEF PutIsNew
    <3>4. HeldRow' /\ HeldIsFresh'
      BY <2>1, <2>2, <2>3, <3>1, <3>2 DEF HeldRow, HeldIsFresh
    <3>5. Exclusive'
      BY <2>1, <2>2, <2>3 DEF Exclusive, Holds
    <3>6. HolderProgress'
      <4> SUFFICES ASSUME NEW v \in Workers, v # w, pc'[v] \in Active
                   PROVE  Progress(v, doc[v])'
        BY <2>2, <2>4 DEF HolderProgress
      <4> QED BY <2>2, <2>3, <2>6, ProgressFrame DEF HolderProgress
    <3>7. DoneIsComplete'
      <4> SUFFICES ASSUME NEW e \in Docs, status'[e] = "done"
                   PROVE  Complete(e)'
        BY DEF DoneIsComplete
      <4>1. Complete(e)
        BY <2>6, <3>1 DEF DoneIsComplete, HolderProgress, Progress
      <4> QED BY <2>6, <4>1, CompleteFrame
    <3> QED BY <3>3, <3>4, <3>5, <3>6, <3>7
  <2> QED BY <1>4, <2>5, <2>6, LostRows
<1> QED BY <1>1, <1>2, <1>3, <1>4

-----------------------------------------------------------------------------

\* While heartbeats arrive: every interleaving of workers, crashes, restarts,
\* re-queues, failures, deletes and retries preserves the inductive invariant.
THEOREM Invariance == ASSUME LossyHeartbeat = FALSE PROVE Spec => []IInv
<1>1. Init => IInv
  BY QueueAssumption
  DEF Init, IInv, Safety, TypeOK, Cursor, Index, Statuses, Active, Pipeline, Phases,
      PutIsNew, HeldRow, HeldIsFresh, Exclusive, Holds, HolderProgress, DoneIsComplete
<1>2. IInv /\ [Next]_vars => IInv'
  <2> SUFFICES ASSUME IInv, [Next]_vars PROVE IInv'
    OBVIOUS
  <2>1. TypeOK /\ Cursor
    BY DEF IInv
  <2>2. Cursor'
    BY <2>1, CursorStep
  <2>3. ASSUME NEW d \in Docs, ApiStep(d) \/ Age(d)
        PROVE  IInv'
    BY <2>1, <2>2, <2>3, TypeApi, SafetyApi DEF IInv
  <2>4. ASSUME NEW w \in Workers,
               WorkerStep(w) \/ Heartbeat(w) \/ Crash(w) \/ Restart(w) \/ WorkerError(w)
        PROVE  IInv'
    <3>1. TypeOK'
      BY <2>1, <2>4, TypeWorker
    <3>2. Safety'
      BY <2>4, SafetyLoop, SafetyPipeline, SafetyClaimFinish DEF WorkerStep, WorkerError
    <3> QED BY <2>2, <3>1, <3>2 DEF IInv
  <2>5. CASE UNCHANGED vars
    BY <2>5 DEF vars, rowVars, dataVars, workerVars, budget, IInv, Safety, TypeOK, Cursor,
                PutIsNew, HeldRow, HeldIsFresh, Exclusive, Holds, HolderProgress, Progress,
                Written, Complete, DoneIsComplete
  <2> QED BY <2>3, <2>4, <2>5 DEF Next
<1> QED BY <1>1, <1>2, PTL DEF Spec

\* Two workers never process one document, for any number of workers, documents,
\* chunks, crashes and retries, as long as live workers' heartbeats arrive.
THEOREM ExclusiveProcessing == ASSUME LossyHeartbeat = FALSE PROVE Spec => []Exclusive
<1>1. IInv => Exclusive
  BY DEF IInv, Safety
<1> QED BY <1>1, Invariance, PTL

\* ... and what a worker has finished no other one undoes, although every terminal
\* UPDATE is by id alone.
THEOREM DoneStaysDone == ASSUME LossyHeartbeat = FALSE PROVE Spec => DoneIsKept
<1> DEFINE Kept(d) == status[d] = "done" =>
             \/ status'[d] \in {"done", "deleted"}
             \/ status'[d] = "failed" /\ faults > 0
<1>1. IInv /\ [Next]_vars => \A d \in Docs : Kept(d)
  <2> SUFFICES ASSUME IInv, [Next]_vars, NEW d \in Docs, status[d] = "done"
               PROVE  \/ status'[d] \in {"done", "deleted"}
                      \/ status'[d] = "failed" /\ faults > 0
    OBVIOUS
  <2> USE DEF IInv, TypeOK, rowVars
  <2>1. ASSUME NEW e \in Docs, ApiStep(e) \/ Age(e)
        PROVE  status'[d] \in {"done", "deleted"}
    <3>1. CASE UploadObject(e)         BY <3>1 DEF UploadObject
    <3>2. CASE CreateDocument(e)       BY <3>2 DEF CreateDocument, Safety, PutIsNew
    <3>3. CASE CreateDocumentError(e)  BY <3>3 DEF CreateDocumentError
    <3>4. CASE DeleteRead(e)           BY <3>4 DEF DeleteRead
    <3>5. CASE DeleteObject(e)         BY <3>5 DEF DeleteObject
    <3>6. CASE SoftDeleteDocument(e)   BY <3>6 DEF SoftDeleteDocument
    <3>7. CASE SoftDeleteError(e)      BY <3>7 DEF SoftDeleteError
    <3>8. CASE RetryDocument(e)        BY <3>8 DEF RetryDocument
    <3>9. CASE Age(e)                  BY <3>9 DEF Age
    <3>10. CASE CreateDocumentLost(e)  BY <3>10 DEF CreateDocumentLost, Safety, PutIsNew
    <3> QED BY <2>1, <3>1, <3>2, <3>3, <3>4, <3>5, <3>6, <3>7, <3>8, <3>9, <3>10 DEF ApiStep
  <2>2. ASSUME NEW w \in Workers, RequeueStuck(w)
        PROVE  status'[d] = "done"
    BY <2>2 DEF RequeueStuck, Stuck
  <2>3. ASSUME NEW w \in Workers, NEW e \in Docs, Claim(w, e) \/ ClaimLost(w, e)
        PROVE  status'[d] = "done"
    BY <2>3 DEF Claim, ClaimLost, Claimable
  <2>4. ASSUME NEW w \in Workers, MarkDone(w)
        PROVE  status'[d] = "done"
    BY <2>4 DEF MarkDone, Finish
  <2>5. ASSUME NEW w \in Workers, MarkFailed(w) \/ MarkFailedError(w)
        PROVE  \/ status'[d] = "done"
               \/ status'[d] = "failed" /\ faults > 0
    <3>1. pc[w] = "mark_failed" /\ (Finish(doc[w], "failed") \/ status' = status)
      BY <2>5 DEF MarkFailed, MarkFailedError
    <3>2. doc[w] = d => faults > 0
      BY <3>1 DEF Safety, HeldRow, Active
    <3> QED BY <3>1, <3>2 DEF Finish
  <2>6. ASSUME NEW w \in Workers, AnswerLost(w)
        PROVE  status'[d] = "done"
    <3>1. UNCHANGED status \/ Finish(doc[w], "done")
      BY <2>6, LostRows
    <3> QED BY <3>1 DEF Finish
  <2>7. ASSUME NEW w \in Workers,
               \/ CleanupPreviousRun(w)
               \/ \E p \in Phases \ {"null"} : UpdatePhase(w, p)
               \/ Download(w) \/ InsertChunk(w) \/ InsertEmbedding(w) \/ InsertResult(w)
        PROVE  UNCHANGED status
    BY <2>7 DEF CleanupPreviousRun, UpdatePhase, Download, InsertChunk, InsertEmbedding,
       InsertResult
  <2>8. ASSUME NEW w \in Workers,
               \/ Heartbeat(w) \/ Crash(w) \/ Restart(w)
               \/ RequeueStuckError(w) \/ StepError(w)
        PROVE  UNCHANGED status
    BY <2>8 DEF Heartbeat, Crash, Restart, RequeueStuckError, StepError
  <2>9. CASE UNCHANGED vars
    BY <2>9 DEF vars
  <2> QED BY <2>1, <2>2, <2>3, <2>4, <2>5, <2>6, <2>7, <2>8, <2>9
          DEF Next, WorkerStep, WorkerError
<1>2. IInv /\ [Next]_vars => [\A d \in Docs : Kept(d)]_vars
  BY <1>1
<1> QED BY <1>2, Invariance, PTL DEF Spec, DoneIsKept

\* Under the same condition a done document is complete: all chunks, all
\* embeddings, one sanitization result, nothing left over from earlier runs.
THEOREM CompleteResults == ASSUME LossyHeartbeat = FALSE PROVE Spec => []DoneIsComplete
<1>1. IInv => DoneIsComplete
  BY DEF IInv, Safety
<1> QED BY <1>1, Invariance, PTL

\* A document is abandoned in "processing" only by a crash, by the failure of the
\* failure path, or by a claim whose answer is lost: heartbeats do not matter here.
THEOREM NobodyForgets == Spec => OrphanedOnlyByFailure
<1> DEFINE Excused(d) == \/ \E w \in Workers : Holds(w, d) /\ pc'[w] \in {"down", "dead"}
                         \/ status[d] = "pending" /\ faults' > faults
<1>1. ASSUME TypeOK, Cursor, [Next]_vars,
             NEW d \in Docs, ~Orphaned(d), Orphaned(d)'
      PROVE  Excused(d)
  <2> USE <1>1 DEF TypeOK, rowVars, workerVars
  <2>0. status'[d] = "processing" /\ \A v \in Workers : ~(pc'[v] \in Active /\ doc'[v] = d)
    BY DEF Orphaned, Held, Holds
  <2>1. ASSUME status[d] = "processing", NEW v \in Workers, Holds(v, d), ~Excused(d),
               NEW w \in Workers, \A u \in Workers \ {w} : pc'[u] = pc[u] /\ doc'[u] = doc[u]
        PROVE  v = w /\ pc[w] \in Active /\ doc[w] = d /\ pc'[w] \notin {"down", "dead"}
    BY <2>0, <2>1 DEF Holds
  <2>2. status[d] = "processing" => \E v \in Workers : Holds(v, d)
    BY DEF Orphaned, Held
  <2>3. ASSUME NEW e \in Docs, ApiStep(e) \/ Age(e)
        PROVE  FALSE
    <3>1. UNCHANGED workerVars
      BY <2>3 DEF ApiStep, UploadObject, CreateDocument, CreateDocumentError,
         CreateDocumentLost, DeleteRead, DeleteObject, SoftDeleteDocument, SoftDeleteError,
         RetryDocument, Age
    <3>2. status[d] = "processing"
      BY <2>0, <2>3 DEF ApiStep, UploadObject, CreateDocument, CreateDocumentError,
         CreateDocumentLost, DeleteRead, DeleteObject, SoftDeleteDocument, SoftDeleteError,
         RetryDocument, Age
    <3> QED BY <2>0, <2>2, <3>1, <3>2 DEF Holds
  <2>4. ASSUME NEW w \in Workers, RequeueStuck(w) \/ RequeueStuckError(w) \/ Restart(w)
        PROVE  Excused(d)
    <3>1. /\ pc[w] \notin Active /\ \A u \in Workers \ {w} : pc'[u] = pc[u] /\ doc'[u] = doc[u]
          /\ status[d] = "processing"
      BY <2>0, <2>4 DEF RequeueStuck, RequeueStuckError, Restart, Goto, Stuck, Active, Pipeline
    <3> QED BY <2>1, <2>2, <3>1
  <2>5. ASSUME NEW w \in Workers, NEW e \in Docs, Claim(w, e)
        PROVE  Excused(d)
    <3>1. /\ pc[w] \notin Active /\ \A u \in Workers \ {w} : pc'[u] = pc[u] /\ doc'[u] = doc[u]
          /\ pc'[w] \in Active /\ doc'[w] = e
          /\ e # d => status[d] = "processing"
      BY <2>0, <2>5 DEF Claim, Active, Pipeline
    <3> QED BY <2>0, <2>1, <2>2, <3>1
  <2>6. ASSUME NEW w \in Workers, NEW e \in Docs, ClaimLost(w, e)
        PROVE  Excused(d)
    <3>1. UNCHANGED workerVars /\ status[e] = "pending" /\ faults' = faults + 1 /\ faults \in Nat
      BY <2>6, QueueAssumption DEF ClaimLost, Claimable, Fault
    <3>2. e # d => status[d] = "processing"
      BY <2>0, <2>6 DEF ClaimLost
    <3>3. status[d] # "processing"
      BY <2>0, <2>2, <3>1 DEF Holds
    <3> QED BY <3>1, <3>2, <3>3
  <2>7. ASSUME NEW w \in Workers, MarkDone(w) \/ MarkFailed(w)
        PROVE  Excused(d)
    <3>1. /\ pc[w] \in Active /\ \A u \in Workers \ {w} : pc'[u] = pc[u] /\ doc'[u] = doc[u]
          /\ doc[w] # d => status[d] = "processing"
      BY <2>0, <2>7 DEF MarkDone, MarkFailed, Finish, Release, Active, Pipeline, Cursor
    <3>2. doc[w] # d
      BY <2>0, <2>7 DEF MarkDone, MarkFailed, Finish
    <3> QED BY <2>1, <2>2, <3>1, <3>2
  <2>8. ASSUME NEW w \in Workers, MarkFailedError(w) \/ Crash(w)
        PROVE  Excused(d)
    <3>1. /\ pc'[w] \in {"down", "dead"}
          /\ \A u \in Workers \ {w} : pc'[u] = pc[u] /\ doc'[u] = doc[u]
          /\ status[d] = "processing"
      BY <2>0, <2>8 DEF MarkFailedError, Crash, Finish, Release
    <3> QED BY <2>1, <2>2, <3>1
  <2>9. ASSUME NEW w \in Workers,
               \/ CleanupPreviousRun(w)
               \/ \E p \in Phases \ {"null"} : UpdatePhase(w, p)
               \/ Download(w) \/ InsertChunk(w) \/ InsertEmbedding(w) \/ InsertResult(w)
               \/ StepError(w) \/ AnswerLost(w) \/ Heartbeat(w)
        PROVE  Excused(d)
    <3>1. /\ pc'[w] \in Active /\ doc' = doc
          /\ \A u \in Workers \ {w} : pc'[u] = pc[u]
      <4> USE DEF Active, Pipeline, Phases, Goto
      <4>1. CASE CleanupPreviousRun(w)  BY <4>1 DEF CleanupPreviousRun
      <4>2. ASSUME NEW p \in Phases \ {"null"}, UpdatePhase(w, p)
            PROVE  /\ pc'[w] \in Active /\ doc' = doc
                   /\ \A u \in Workers \ {w} : pc'[u] = pc[u]
        BY <4>2 DEF UpdatePhase
      <4>3. CASE Download(w)            BY <4>3 DEF Download
      <4>4. CASE InsertChunk(w)         BY <4>4 DEF InsertChunk
      <4>5. CASE InsertEmbedding(w)     BY <4>5 DEF InsertEmbedding
      <4>6. CASE InsertResult(w)        BY <4>6 DEF InsertResult
      <4>7. CASE StepError(w)           BY <4>7 DEF StepError
      <4>8. CASE AnswerLost(w)          BY <4>8 DEF AnswerLost
      <4>9. CASE Heartbeat(w)           BY <4>9 DEF Heartbeat
      <4> QED BY <2>9, <4>1, <4>2, <4>3, <4>4, <4>5, <4>6, <4>7, <4>8, <4>9
    <3>2. status[d] = "processing"
      <4>1. CASE AnswerLost(w)
        <5>1. UNCHANGED status \/ Finish(doc[w], "done")
          BY <4>1, LostRows
        <5> QED BY <2>0, <5>1 DEF Finish
      <4>2. CASE ~AnswerLost(w)
        BY <2>0, <2>9, <4>2 DEF CleanupPreviousRun, UpdatePhase, Download, InsertChunk,
           InsertEmbedding, InsertResult, StepError, Heartbeat
      <4> QED BY <4>1, <4>2
    <3>3. PICK v \in Workers : Holds(v, d)
      BY <2>2, <3>2
    <3>4. pc'[v] \in Active /\ doc'[v] = d
      BY <3>1, <3>3 DEF Holds
    <3> QED BY <2>0, <3>4
  <2>10. CASE UNCHANGED vars
    BY <2>0, <2>2, <2>10 DEF vars, Holds
  <2> QED BY <2>3, <2>4, <2>5, <2>6, <2>7, <2>8, <2>9, <2>10
          DEF Next, WorkerStep, WorkerError
<1>2. TypeOK /\ Cursor /\ [Next]_vars
        => [\A d \in Docs : ~Orphaned(d) /\ Orphaned(d)' => Excused(d)]_vars
  BY <1>1
<1> QED BY <1>2, TypeCorrect, PTL DEF Spec, OrphanedOnlyByFailure

-----------------------------------------------------------------------------

\* Where the file of a document is at each point of its requests, as long as no call
\* has failed.
FileAt(d) ==
    /\ api[d] = "idle" => (object[d] <=> key[d])
    /\ api[d] = "put" => object[d] /\ ~key[d]
    /\ api[d] = "delete" => object[d] /\ key[d]
    /\ api[d] = "removed" => ~object[d]
    /\ status[d] = "none" => ~key[d]

FileInv == faults = 0 => \A d \in Docs : FileAt(d)

\* Unless a call failed, the file and the key that leads to it exist together whenever
\* no request about the document is in flight, whatever the workers do meanwhile.
THEOREM RowAndFile == Spec => []RowAndFileAgree
<1>1. Init => FileInv
  BY DEF Init, FileInv, FileAt
<1>2. TypeOK /\ Cursor /\ FileInv /\ [Next]_vars => FileInv'
  <2> SUFFICES ASSUME TypeOK, Cursor, FileInv, [Next]_vars, faults' = 0, NEW d \in Docs
               PROVE  FileAt(d)'
    BY DEF FileInv
  <2> USE DEF TypeOK, rowVars
  <2>0. faults = 0 /\ FileAt(d) /\ ~Fault
    <3>1. CASE Next
      BY <3>1, FaultsGrow, QueueAssumption DEF FileInv, Fault
    <3>2. CASE UNCHANGED vars
      BY <3>2 DEF vars, budget, FileInv, Fault
    <3> QED BY <3>1, <3>2
  <2>1. ASSUME NEW e \in Docs, ApiStep(e)
        PROVE  FileAt(d)'
    <3> USE <2>0 DEF FileAt
    <3>1. CASE UploadObject(e)         BY <3>1 DEF UploadObject
    <3>2. CASE CreateDocument(e)       BY <3>2 DEF CreateDocument
    <3>3. CASE CreateDocumentError(e)  BY <3>3 DEF CreateDocumentError
    <3>4. CASE CreateDocumentLost(e)   BY <3>4 DEF CreateDocumentLost
    <3>5. CASE DeleteRead(e)           BY <3>5 DEF DeleteRead
    <3>6. CASE DeleteObject(e)         BY <3>6 DEF DeleteObject
    <3>7. CASE SoftDeleteDocument(e)   BY <3>7 DEF SoftDeleteDocument
    <3>8. CASE SoftDeleteError(e)      BY <3>8 DEF SoftDeleteError
    <3>9. CASE RetryDocument(e)        BY <3>9 DEF RetryDocument
    <3> QED BY <2>1, <3>1, <3>2, <3>3, <3>4, <3>5, <3>6, <3>7, <3>8, <3>9 DEF ApiStep
  <2>2. ASSUME UNCHANGED <<object, key, api>>, status'[d] = "none" => status[d] = "none"
        PROVE  FileAt(d)'
    BY <2>0, <2>2 DEF FileAt
  <2>3. ASSUME NEW e \in Docs, Age(e)
        PROVE  FileAt(d)'
    BY <2>2, <2>3 DEF Age
  <2>4. ASSUME NEW w \in Workers, WorkerStep(w)
        PROVE  FileAt(d)'
    <3>1. UNCHANGED <<object, key, api>>
      BY <2>4 DEF WorkerStep, RequeueStuck, Claim, CleanupPreviousRun, UpdatePhase, Download,
         InsertChunk, InsertEmbedding, InsertResult, MarkDone, MarkFailed
    <3>2. status'[d] = "none" => status[d] = "none"
      <4>1. CASE RequeueStuck(w)  BY <4>1 DEF RequeueStuck
      <4>2. ASSUME NEW e \in Docs, Claim(w, e)
            PROVE  status'[d] = "none" => status[d] = "none"
        BY <4>2 DEF Claim
      <4>3. CASE MarkDone(w) \/ MarkFailed(w)
        BY <4>3 DEF MarkDone, MarkFailed, Finish
      <4>4. CASE \/ CleanupPreviousRun(w)
                 \/ \E p \in Phases \ {"null"} : UpdatePhase(w, p)
                 \/ Download(w) \/ InsertChunk(w) \/ InsertEmbedding(w) \/ InsertResult(w)
        BY <4>4 DEF CleanupPreviousRun, UpdatePhase, Download, InsertChunk, InsertEmbedding,
           InsertResult
      <4> QED BY <2>4, <4>1, <4>2, <4>3, <4>4 DEF WorkerStep
    <3> QED BY <2>2, <3>1, <3>2
  <2>5. ASSUME NEW w \in Workers, Heartbeat(w) \/ Crash(w) \/ Restart(w)
        PROVE  FileAt(d)'
    BY <2>2, <2>5 DEF Heartbeat, Crash, Restart
  <2>6. ASSUME NEW w \in Workers, WorkerError(w)
        PROVE  FALSE
    BY <2>0, <2>6 DEF WorkerError, RequeueStuckError, StepError, AnswerLost, MarkFailedError,
       ClaimLost
  <2>7. CASE UNCHANGED vars
    BY <2>2, <2>7 DEF vars
  <2> QED BY <2>1, <2>3, <2>4, <2>5, <2>6, <2>7 DEF Next
<1>3. FileInv => RowAndFileAgree
  BY DEF FileInv, FileAt, RowAndFileAgree
<1> QED BY <1>1, <1>2, <1>3, TypeCorrect, PTL DEF Spec

(***************************************************************************)
(* The life of a document                                                  *)
(***************************************************************************)

\* A row, once written, is never unwritten.
LEMMA RowsStay ==
    ASSUME TypeOK, Cursor, [Next]_vars, NEW d \in Docs
    PROVE  status'[d] = "none" => status[d] = "none"
<1> USE DEF TypeOK, rowVars
<1>1. ASSUME NEW e \in Docs, ApiStep(e) \/ Age(e)
      PROVE  status'[d] = "none" => status[d] = "none"
  BY <1>1 DEF ApiStep, UploadObject, CreateDocument, CreateDocumentError, CreateDocumentLost,
     DeleteRead, DeleteObject, SoftDeleteDocument, SoftDeleteError, RetryDocument, Age
<1>2. ASSUME NEW w \in Workers, WorkerStep(w) \/ Heartbeat(w) \/ Crash(w) \/ Restart(w)
      PROVE  status'[d] = "none" => status[d] = "none"
  <2>1. CASE RequeueStuck(w)
    BY <2>1 DEF RequeueStuck
  <2>2. ASSUME NEW e \in Docs, Claim(w, e)
        PROVE  status'[d] = "none" => status[d] = "none"
    BY <2>2 DEF Claim
  <2>3. CASE MarkDone(w) \/ MarkFailed(w)
    BY <2>3 DEF MarkDone, MarkFailed, Finish
  <2>4. CASE \/ CleanupPreviousRun(w)
             \/ \E p \in Phases \ {"null"} : UpdatePhase(w, p)
             \/ Download(w) \/ InsertChunk(w) \/ InsertEmbedding(w) \/ InsertResult(w)
    BY <2>4 DEF CleanupPreviousRun, UpdatePhase, Download, InsertChunk, InsertEmbedding,
       InsertResult
  <2>5. CASE Heartbeat(w) \/ Crash(w) \/ Restart(w)
    BY <2>5 DEF Heartbeat, Crash, Restart
  <2> QED BY <1>2, <2>1, <2>2, <2>3, <2>4, <2>5 DEF WorkerStep
<1>3. ASSUME NEW w \in Workers, WorkerError(w)
      PROVE  status'[d] = "none" => status[d] = "none"
  <2>1. CASE RequeueStuckError(w) \/ StepError(w)
    BY <2>1 DEF RequeueStuckError, StepError
  <2>2. CASE AnswerLost(w)
    <3>1. UNCHANGED status \/ Finish(doc[w], "done")
      BY <2>2, LostRows
    <3> QED BY <3>1 DEF Finish
  <2>3. CASE MarkFailedError(w)
    BY <2>3 DEF MarkFailedError, Finish
  <2>4. ASSUME NEW e \in Docs, ClaimLost(w, e)
        PROVE  status'[d] = "none" => status[d] = "none"
    BY <2>4 DEF ClaimLost
  <2> QED BY <1>3, <2>1, <2>2, <2>3, <2>4 DEF WorkerError
<1>4. CASE UNCHANGED vars
  BY <1>4 DEF vars
<1> QED BY <1>1, <1>2, <1>3, <1>4 DEF Next

\* A delete request in flight has read a row.
Requested == \A d \in Docs : api[d] \in {"delete", "removed"} => status[d] # "none"

\* ... and the row it has read stays.
LEMMA RequestedStep == TypeOK /\ Cursor /\ Requested /\ [Next]_vars => Requested'
<1> SUFFICES ASSUME TypeOK, Cursor, Requested, [Next]_vars, NEW d \in Docs,
                    api'[d] \in {"delete", "removed"}
             PROVE  status'[d] # "none"
  BY DEF Requested
<1>1. status'[d] = "none" => status[d] = "none"
  BY RowsStay
<1>2. api[d] \in {"delete", "removed"} => status[d] # "none"
  BY DEF Requested
<1> USE DEF TypeOK, rowVars
<1>3. ASSUME NEW e \in Docs, ApiStep(e) \/ Age(e)
      PROVE  api[d] \in {"delete", "removed"} \/ status[d] # "none"
  BY <1>3 DEF ApiStep, UploadObject, CreateDocument, CreateDocumentError, CreateDocumentLost,
     DeleteRead, DeleteObject, SoftDeleteDocument, SoftDeleteError, RetryDocument, Age
<1>4. ASSUME NEW w \in Workers,
             WorkerStep(w) \/ Heartbeat(w) \/ Crash(w) \/ Restart(w) \/ WorkerError(w)
      PROVE  UNCHANGED api
  BY <1>4 DEF WorkerStep, RequeueStuck, Claim, CleanupPreviousRun, UpdatePhase, Download,
     InsertChunk, InsertEmbedding, InsertResult, MarkDone, MarkFailed, Heartbeat, Crash, Restart,
     WorkerError, RequeueStuckError, StepError, AnswerLost, MarkFailedError, ClaimLost
<1>5. CASE UNCHANGED vars
  BY <1>1, <1>2, <1>5 DEF vars
<1> QED BY <1>1, <1>2, <1>3, <1>4, <1>5 DEF Next

\* Whoever has a document has its row in one of three states.
LEMMA JobHolds ==
    ASSUME IInv, NEW w \in Workers
    PROVE  /\ Job[w] # 0 => pc[w] \in Active /\ Job[w] = doc[w] /\ doc[w] \in Docs
           /\ pc[w] \in Active => Job[w] = doc[w] /\ doc[w] \in Docs /\ doc[w] # 0
           /\ pc[w] \notin Active => Job[w] = 0
           /\ Job[w] # 0 => status[doc[w]] \in {"processing", "deleted", "done"}
BY QueueAssumption DEF IInv, Safety, Cursor, HeldRow, Job, Docs

\* A row in another state is nobody's.
LEMMA NobodyHas ==
    ASSUME IInv, NEW d \in Docs, status[d] \in {"none", "pending", "failed"}
    PROVE  Life!Free(d)
BY JobHolds, QueueAssumption DEF Life!Free, Docs

\* A worker's step changes its own place only.
LEMMA JobMoves ==
    ASSUME TypeOK, NEW w \in Workers, NEW p, NEW n,
           pc' = [pc EXCEPT ![w] = p], doc' = doc \/ doc' = [doc EXCEPT ![w] = n],
           doc'[w] = n
    PROVE  Job' = [Job EXCEPT ![w] = IF p \in Active THEN n ELSE 0]
<1>1. ASSUME NEW v \in Workers
      PROVE  Job'[v] = [Job EXCEPT ![w] = IF p \in Active THEN n ELSE 0][v]
  BY <1>1 DEF TypeOK, Job
<1> QED BY <1>1 DEF Job

\* A worker that goes on at the same document, or without one, changes nothing of this.
LEMMA JobStays ==
    ASSUME TypeOK, NEW w \in Workers, NEW p,
           pc' = [pc EXCEPT ![w] = p], doc' = doc, pc[w] \in Active <=> p \in Active
    PROVE  Job' = Job
<1>1. ASSUME NEW v \in Workers PROVE Job'[v] = Job[v]
  BY <1>1 DEF TypeOK, Job
<1> QED BY <1>1 DEF Job

\* What a worker writes makes only its own document whole, or not.
LEMMA WholeOfOthers ==
    ASSUME NEW d \in Docs,
           \A e \in Docs \ {d} :
             chunk'[e] = chunk[e] /\ vec'[e] = vec[e] /\ results'[e] = results[e]
    PROVE  Whole' \in {Whole \cup {d}, Whole \ {d}}
<1>1. \A e \in Docs \ {d} : Complete(e)' <=> Complete(e)
  BY DEF Complete
<1>2. Whole' = Whole \cup {d} \/ Whole' = Whole \ {d}
  <2>1. \A e \in Docs \ {d} : e \in Whole' <=> e \in Whole
    BY <1>1 DEF Whole
  <2>2. Whole' \subseteq Docs /\ Whole \subseteq Docs
    BY DEF Whole
  <2>3. CASE d \in Whole'
    BY <2>1, <2>2, <2>3
  <2>4. CASE d \notin Whole'
    BY <2>1, <2>2, <2>4
  <2> QED BY <2>3, <2>4
<1> QED BY <1>2

\* Whether a document is whole depends on its chunks, embeddings and results alone.
LEMMA WholeStays ==
    ASSUME UNCHANGED dataVars
    PROVE  Whole' = Whole
BY DEF Whole, Complete, dataVars

\* Requests: an upload, a retry and a delete are steps of its life when they change the row.
LEMMA LifeApi ==
    ASSUME IInv, Requested, NEW d \in Docs, ApiStep(d) \/ Age(d)
    PROVE  Life!Next \/ UNCHANGED Life!vars
<1>1. UNCHANGED <<workerVars, dataVars>>
  BY DEF ApiStep, UploadObject, CreateDocument, CreateDocumentError, CreateDocumentLost,
     DeleteRead, DeleteObject, SoftDeleteDocument, SoftDeleteError, RetryDocument, Age
<1>2. Job' = Job /\ Whole' = Whole
  BY <1>1, WholeStays DEF Job, workerVars
<1>3. TypeOK /\ PutIsNew
  BY DEF IInv, Safety
<1>4. CASE UNCHANGED status
  BY <1>2, <1>4 DEF Life!vars
<1>5. CASE CreateDocument(d) \/ CreateDocumentLost(d)
  <2>1. Life!Upload(d)
    BY <1>2, <1>3, <1>5 DEF CreateDocument, CreateDocumentLost, PutIsNew, Life!Upload, Life!Move
  <2> QED BY <2>1 DEF Life!Next
<1>6. CASE SoftDeleteDocument(d)
  <2>1. Life!Delete(d)
    BY <1>2, <1>6 DEF SoftDeleteDocument, Requested, Life!Delete, Life!Move
  <2> QED BY <2>1 DEF Life!Next
<1>7. CASE RetryDocument(d)
  <2>1. status[d] = "failed" /\ status' = [status EXCEPT ![d] = "pending"]
    BY <1>7 DEF RetryDocument
  <2>2. Life!Retry(d)
    BY <1>2, <2>1, NobodyHas DEF Life!Retry, Life!Move
  <2> QED BY <2>2 DEF Life!Next
<1> QED BY <1>4, <1>5, <1>6, <1>7 DEF ApiStep, UploadObject, CreateDocumentError, DeleteRead,
        DeleteObject, SoftDeleteError, Age, rowVars

\* The loop: only rows that nobody has, stale as they are, are given to others.
LEMMA LifeLoop ==
    ASSUME IInv, NEW w \in Workers,
           RequeueStuck(w) \/ RequeueStuckError(w) \/ Heartbeat(w) \/ Crash(w) \/ Restart(w)
    PROVE  Life!Next \/ UNCHANGED Life!vars
<1>1. TypeOK /\ Cursor /\ HeldIsFresh /\ UNCHANGED dataVars
  BY DEF IInv, Safety, RequeueStuck, RequeueStuckError, Heartbeat, Crash, Restart
<1>2. Whole' = Whole
  BY <1>1, WholeStays
<1>3. \A p \in {"start", "idle", "down", "dead"} : p \notin Active
  BY DEF Active, Pipeline
<1>4. CASE RequeueStuck(w)
  <2> DEFINE S == {d \in Docs : Stuck(d)}
  <2>1. Job' = Job
    BY <1>1, <1>3, <1>4, JobStays DEF RequeueStuck
  <2>2. \A d \in S : status[d] = "processing" /\ Life!Free(d)
    BY <1>1, JobHolds, QueueAssumption DEF Stuck, HeldIsFresh, Life!Free, Docs
  <2>3. status' = [d \in Docs |-> IF d \in S THEN "pending" ELSE status[d]]
    BY <1>4 DEF RequeueStuck
  <2>4. S \in SUBSET Docs
    OBVIOUS
  <2> HIDE DEF S
  <2>5. Life!Requeue(S)
    BY <1>2, <2>1, <2>2, <2>3 DEF Life!Requeue
  <2> QED BY <2>4, <2>5 DEF Life!Next
<1>5. CASE RequeueStuckError(w)
  <2>1. Job' = Job
    BY <1>1, <1>3, <1>5, JobStays DEF RequeueStuckError, Goto
  <2> QED BY <1>2, <1>5, <2>1 DEF RequeueStuckError, Life!vars, rowVars
<1>6. CASE Heartbeat(w)
  BY <1>2, <1>6 DEF Heartbeat, Life!vars, Job, workerVars
<1>7. CASE Restart(w)
  <2>1. Job' = Job
    BY <1>1, <1>3, <1>7, JobStays DEF Restart, Goto
  <2> QED BY <1>2, <1>7, <2>1 DEF Restart, Life!vars, rowVars
<1>8. CASE Crash(w)
  <2>1. UNCHANGED status /\ pc' = [pc EXCEPT ![w] = "down"] /\ doc' = [doc EXCEPT ![w] = 0]
    BY <1>8 DEF Crash, Release, rowVars
  <2>2. Job' = [Job EXCEPT ![w] = 0]
    BY <1>1, <1>3, <2>1, JobMoves DEF TypeOK
  <2>3. CASE Job[w] = 0
    <3>1. Job' = Job
      BY <2>2, <2>3 DEF Job
    <3> QED BY <1>2, <2>1, <3>1 DEF Life!vars
  <2>4. CASE Job[w] # 0
    <3>1. Life!Abandon(w)
      BY <1>2, <2>1, <2>2, <2>4 DEF Life!Abandon
    <3> QED BY <3>1 DEF Life!Next
  <2> QED BY <2>3, <2>4
<1> QED BY <1>4, <1>5, <1>6, <1>7, <1>8

\* A pending row that is claimed was nobody's, whether or not the claimer learns of it.
LEMMA LifeClaim ==
    ASSUME IInv, NEW w \in Workers, NEW d \in Docs, Claim(w, d) \/ ClaimLost(w, d)
    PROVE  Life!Next
<1>1. TypeOK /\ Cursor
  BY DEF IInv
<1>2. /\ pc[w] = "idle" /\ status[d] = "pending" /\ UNCHANGED dataVars
      /\ status' = [status EXCEPT ![d] = "processing"]
  BY DEF Claim, ClaimLost, Claimable
<1>3. Whole' = Whole /\ Life!Free(d)
  BY <1>2, WholeStays, NobodyHas
<1>4. Job[w] = 0
  BY <1>2, JobHolds DEF Active, Pipeline
<1>5. Job' = [Job EXCEPT ![w] = d] \/ Job' = Job
  <2>1. CASE Claim(w, d)
    <3>1. "cleanup" \in Active /\ doc'[w] = d
      BY <1>1, <2>1 DEF Claim, TypeOK, Active, Pipeline
    <3> QED BY <1>1, <2>1, <3>1, JobMoves DEF Claim
  <2>2. CASE ClaimLost(w, d)
    BY <2>2 DEF ClaimLost, workerVars, Job
  <2> QED BY <2>1, <2>2
<1>6. Life!Take(w, d)
  BY <1>2, <1>3, <1>4, <1>5 DEF Life!Take, Life!Move
<1> QED BY <1>6 DEF Life!Next

\* The statements of the pipeline write rows of the worker's own document, which is
\* processing, or was deleted under it.
LEMMA LifePipeline ==
    ASSUME IInv, NEW w \in Workers,
           \/ CleanupPreviousRun(w)
           \/ \E p \in Phases \ {"null"} : UpdatePhase(w, p)
           \/ Download(w) \/ InsertChunk(w) \/ InsertEmbedding(w) \/ InsertResult(w)
           \/ StepError(w)
           \/ AnswerLost(w) /\ pc[w] # "mark_done"
    PROVE  Life!Next
<1>1. TypeOK /\ Cursor /\ HeldRow
  BY DEF IInv, Safety
<1>2. pc[w] \in Pipeline /\ pc[w] \in Active /\ pc[w] # "mark_failed" /\ doc[w] \in Docs
  <2>1. pc[w] \in Pipeline
    <3>1. CASE AnswerLost(w)
      BY <1>1, <3>1, LostRows
    <3>2. CASE ~AnswerLost(w)
      BY <3>2 DEF CleanupPreviousRun, UpdatePhase, Download, InsertChunk, InsertEmbedding,
         InsertResult, StepError, Pipeline, Phases
    <3> QED BY <3>1, <3>2
  <2> QED BY <1>1, <2>1 DEF Cursor, Active, Pipeline
<1>3. Job[w] = doc[w] /\ Job[w] # 0 /\ status[Job[w]] \in {"processing", "deleted"}
  BY <1>1, <1>2, JobHolds DEF HeldRow
<1>4. UNCHANGED <<status, doc>>
  <2>1. CASE AnswerLost(w) /\ pc[w] # "mark_done"
    BY <1>1, <2>1, LostRows DEF AnswerLost
  <2>2. CASE \/ CleanupPreviousRun(w)
             \/ \E p \in Phases \ {"null"} : UpdatePhase(w, p)
             \/ Download(w) \/ InsertChunk(w) \/ InsertEmbedding(w) \/ InsertResult(w)
             \/ StepError(w)
    BY <2>2 DEF CleanupPreviousRun, UpdatePhase, Download, InsertChunk, InsertEmbedding,
       InsertResult, StepError, rowVars
  <2> QED BY <2>1, <2>2
<1>5. \E q \in Active : pc' = [pc EXCEPT ![w] = q]
  <2>1. CASE StepError(w) \/ AnswerLost(w)
    BY <2>1 DEF StepError, AnswerLost, Goto, Active
  <2>2. ASSUME NEW p \in {"parsing", "chunking", "sanitizing", "embedding"}, UpdatePhase(w, p)
        PROVE  \E q \in Active : pc' = [pc EXCEPT ![w] = q]
    <3>1. CASE p = "parsing"     BY <2>2, <3>1 DEF UpdatePhase, Goto, Active, Pipeline
    <3>2. CASE p = "chunking"    BY <2>2, <3>2 DEF UpdatePhase, Goto, Active, Pipeline
    <3>3. CASE p = "sanitizing"  BY <2>2, <3>3 DEF UpdatePhase, Goto, Active, Pipeline
    <3>4. CASE p = "embedding"   BY <2>2, <3>4 DEF UpdatePhase, Goto, Active, Pipeline
    <3> QED BY <3>1, <3>2, <3>3, <3>4
  <2>3. CASE CleanupPreviousRun(w)  BY <2>3 DEF CleanupPreviousRun, Goto, Active, Pipeline
  <2>4. CASE Download(w)            BY <2>4 DEF Download, Goto, Active, Pipeline
  <2>5. CASE InsertChunk(w)         BY <2>5 DEF InsertChunk, Goto, Active, Pipeline
  <2>6. CASE InsertEmbedding(w)     BY <2>6 DEF InsertEmbedding, Goto, Active, Pipeline
  <2>7. CASE InsertResult(w)        BY <2>7 DEF InsertResult, Goto, Active, Pipeline
  <2>8. Phases \ {"null"} = {"parsing", "chunking", "sanitizing", "embedding"}
    BY DEF Phases
  <2> QED BY <2>1, <2>2, <2>3, <2>4, <2>5, <2>6, <2>7, <2>8
<1>6. Job' = Job
  BY <1>1, <1>2, <1>4, <1>5, JobStays
<1>7. \A e \in Docs \ {doc[w]} :
         chunk'[e] = chunk[e] /\ vec'[e] = vec[e] /\ results'[e] = results[e]
  <2>1. CASE AnswerLost(w)
    BY <1>1, <2>1, LostRows
  <2>2. CASE CleanupPreviousRun(w)
    BY <1>1, <2>2 DEF CleanupPreviousRun, TypeOK
  <2>3. CASE InsertChunk(w)
    BY <1>1, <2>3 DEF InsertChunk, TypeOK
  <2>4. CASE InsertEmbedding(w)
    BY <1>1, <2>4 DEF InsertEmbedding, TypeOK
  <2>5. CASE InsertResult(w)
    BY <1>1, <2>5 DEF InsertResult, TypeOK
  <2>6. CASE \/ \E p \in Phases \ {"null"} : UpdatePhase(w, p)
             \/ Download(w) \/ StepError(w)
    BY <2>6 DEF UpdatePhase, Download, StepError, dataVars
  <2> QED BY <2>1, <2>2, <2>3, <2>4, <2>5, <2>6
<1>8. Whole' \in {Whole \cup {Job[w]}, Whole \ {Job[w]}}
  BY <1>2, <1>3, <1>7, WholeOfOthers
<1>9. Life!Work(w)
  BY <1>3, <1>4, <1>6, <1>8 DEF Life!Work
<1> QED BY <1>9 DEF Life!Next

\* The terminal UPDATEs, the lost ones included: done only what is whole, failed only by
\* the worker that has it.
LEMMA LifeFinish ==
    ASSUME IInv, NEW w \in Workers,
           \/ MarkDone(w) \/ MarkFailed(w) \/ MarkFailedError(w)
           \/ AnswerLost(w) /\ pc[w] = "mark_done"
    PROVE  Life!Next
<1>1. TypeOK /\ Cursor /\ HeldRow /\ HolderProgress
  BY DEF IInv, Safety
<1>2. pc[w] \in Active /\ doc[w] \in Docs /\ pc[w] \in {"mark_done", "mark_failed"}
  BY <1>1 DEF MarkDone, MarkFailed, MarkFailedError, Cursor, Active, Pipeline
<1>3. /\ Job[w] = doc[w] /\ Job[w] # 0
      /\ status[Job[w]] \in {"processing", "deleted", "done"}
      /\ pc[w] = "mark_done" => status[Job[w]] \in {"processing", "deleted"}
  BY <1>1, <1>2, JobHolds DEF HeldRow
<1>4. pc[w] = "mark_done" => Job[w] \in Whole
  BY <1>1, <1>2, <1>3 DEF HolderProgress, Progress, Whole
<1>5. UNCHANGED dataVars
  <2>1. CASE AnswerLost(w) /\ pc[w] = "mark_done"
    BY <2>1 DEF AnswerLost, Phases
  <2>2. CASE MarkDone(w) \/ MarkFailed(w) \/ MarkFailedError(w)
    BY <2>2 DEF MarkDone, MarkFailed, MarkFailedError
  <2> QED BY <2>1, <2>2
<1>6. Whole' = Whole
  BY <1>5, WholeStays
<1>7. ASSUME NEW p \in {"idle", "dead"}, Release(w, p)
      PROVE  Job' = [Job EXCEPT ![w] = 0]
  <2>1. pc' = [pc EXCEPT ![w] = p] /\ doc' = [doc EXCEPT ![w] = 0] /\ doc'[w] = 0
    BY <1>1, <1>7 DEF Release, TypeOK
  <2>2. p \notin Active
    BY <1>7 DEF Active, Pipeline
  <2> QED BY <1>1, <2>1, <2>2, JobMoves
<1>8. CASE MarkDone(w)
  <2>1. Life!Finish(w)
    BY <1>3, <1>4, <1>6, <1>7, <1>8 DEF MarkDone, Finish, Life!Finish, Life!Move
  <2> QED BY <2>1 DEF Life!Next
<1>9. CASE AnswerLost(w) /\ pc[w] = "mark_done"
  <2>1. status' = [status EXCEPT ![doc[w]] = "done"]
    BY <1>9 DEF AnswerLost, Finish, Phases
  <2>2. pc' = [pc EXCEPT ![w] = "mark_failed"] /\ doc' = doc /\ "mark_failed" \in Active
    BY <1>9 DEF AnswerLost, Goto, Active
  <2>3. Job' = Job
    BY <1>1, <1>2, <2>2, JobStays
  <2>4. Life!Finish(w)
    BY <1>3, <1>4, <1>6, <1>9, <2>1, <2>3 DEF Life!Finish, Life!Move
  <2> QED BY <2>4 DEF Life!Next
<1>10. CASE MarkFailed(w) \/ MarkFailedError(w)
  <2>1. Job' = [Job EXCEPT ![w] = 0]
    BY <1>7, <1>10 DEF MarkFailed, MarkFailedError
  <2>2. UNCHANGED status \/ status' = [status EXCEPT ![doc[w]] = "failed"]
    BY <1>10 DEF MarkFailed, MarkFailedError, Finish, rowVars
  <2>3. CASE UNCHANGED status
    <3>1. Life!Abandon(w)
      BY <1>3, <1>6, <2>1, <2>3 DEF Life!Abandon
    <3> QED BY <3>1 DEF Life!Next
  <2>4. CASE status' = [status EXCEPT ![doc[w]] = "failed"]
    <3>1. Life!Fail(w)
      BY <1>3, <1>6, <2>1, <2>4 DEF Life!Fail, Life!Move
    <3> QED BY <3>1 DEF Life!Next
  <2> QED BY <2>2, <2>3, <2>4
<1> QED BY <1>8, <1>9, <1>10

\* While heartbeats arrive, whatever workers, requests, crashes and lost answers do to a
\* document is a step of its life: one worker at a time has it and alone writes what
\* belongs to it, and it is done only when that is whole.
THEOREM LifeImplemented == ASSUME LossyHeartbeat = FALSE PROVE Spec => ImplementsLife
<1>1. Init => Life!Init /\ Requested
  <2> SUFFICES ASSUME Init PROVE Life!Init /\ Requested
    OBVIOUS
  <2>1. Job = [w \in Workers |-> 0]
    BY DEF Init, Job, Active, Pipeline
  <2>2. Whole \in SUBSET Docs
    BY DEF Whole
  <2> QED BY <2>1, <2>2 DEF Init, Life!Init, Requested
<1>2. IInv /\ Requested /\ [Next]_vars => Requested'
  BY RequestedStep DEF IInv
<1>3. IInv /\ Requested /\ [Next]_vars => [Life!Next]_Life!vars
  <2> SUFFICES ASSUME IInv, Requested, [Next]_vars
               PROVE  Life!Next \/ UNCHANGED Life!vars
    OBVIOUS
  <2>1. ASSUME NEW d \in Docs, ApiStep(d) \/ Age(d)
        PROVE  Life!Next \/ UNCHANGED Life!vars
    BY <2>1, LifeApi
  <2>2. ASSUME NEW w \in Workers,
               WorkerStep(w) \/ Heartbeat(w) \/ Crash(w) \/ Restart(w) \/ WorkerError(w)
        PROVE  Life!Next \/ UNCHANGED Life!vars
    <3>1. CASE RequeueStuck(w) \/ RequeueStuckError(w) \/ Heartbeat(w) \/ Crash(w) \/ Restart(w)
      BY <3>1, LifeLoop
    <3>2. ASSUME NEW d \in Docs, Claim(w, d) \/ ClaimLost(w, d)
          PROVE  Life!Next
      BY <3>2, LifeClaim
    <3>3. CASE \/ CleanupPreviousRun(w)
               \/ \E p \in Phases \ {"null"} : UpdatePhase(w, p)
               \/ Download(w) \/ InsertChunk(w) \/ InsertEmbedding(w) \/ InsertResult(w)
               \/ StepError(w)
               \/ AnswerLost(w) /\ pc[w] # "mark_done"
      BY <3>3, LifePipeline
    <3>4. CASE \/ MarkDone(w) \/ MarkFailed(w) \/ MarkFailedError(w)
               \/ AnswerLost(w) /\ pc[w] = "mark_done"
      BY <3>4, LifeFinish
    <3> QED BY <2>2, <3>1, <3>2, <3>3, <3>4 DEF WorkerStep, WorkerError
  <2>3. CASE UNCHANGED vars
    BY <2>3 DEF vars, rowVars, dataVars, workerVars, Life!vars, Job, Whole, Complete
  <2> QED BY <2>1, <2>2, <2>3 DEF Next
<1> QED BY <1>1, <1>2, <1>3, Invariance, PTL DEF Spec, ImplementsLife, Life!Spec

=============================================================================
