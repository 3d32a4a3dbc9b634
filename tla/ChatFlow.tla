------------------------------ MODULE ChatFlow ------------------------------
(***************************************************************************)
(* POST /api/chat: Orchestrator.Prepare and Stream, the background task    *)
(* that raises an incident, and the shutdown of the process.               *)
(*                                                                         *)
(* One action is the stretch of a handler between two points where         *)
(* something outside it can matter: a call to the sanitizer, the           *)
(* retriever, a model or the database, or a run of SSE events the client   *)
(* may no longer be there to receive.  A gone client cancels the request   *)
(* context (calls fail) and makes every write to the sink fail sooner or   *)
(* later; audit writes are detached from it.                               *)
(***************************************************************************)
EXTENDS Policy

CONSTANTS
    Requests,     \* chat requests
    Inputs,       \* the requests considered
    MaxFaults,    \* bound on failing calls
    LostAcks,     \* TRUE: a commit may be applied although the call fails
    MayShutdown   \* TRUE: SIGTERM may arrive

\* What a request brings along.  source: no preview_token, one for a previewed
\* text, one for a document, one that is no longer in the cache.  hits: risk
\* levels of the chunks retrieval finds; rag and review: what the user asked for.
Sources == {"fresh", "gate", "document", "stale"}

InputType ==
    [trust : Trusts, risk : [level : Levels, classes : SUBSET Classes],
     source : Sources, rag : BOOLEAN, hits : SUBSET (Levels \cup {""}), review : BOOLEAN]

ASSUME ChatAssumption ==
    /\ Inputs \subseteq InputType
    /\ MaxFaults \in Nat
    /\ LostAcks \in BOOLEAN
    /\ MayShutdown \in BOOLEAN

VARIABLES
    inp,       \* inp[r]: the request
    pc,        \* where its handler is
    decision,  \* the policy decision, revised after retrieval
    chunks,    \* risk levels of the chunks put into the prompt
    sent,      \* prompts sent to models: [to, text, chunks, draft]
    echo,      \* how raw values stand in the answer: not, exactly, in another spelling
    trail,     \* committed audit_events of r: [type, decision, detail]
    stored,    \* text of the committed assistant message: "none", "notice", "masked", "raw"
    sse,       \* the SSE events written
    online,    \* the client is still connected
    task,      \* the background task of r: "none" or "incident"
    incident,  \* incidents row for r's terminal event exists
    proc,      \* "up", "stopping" (listener closed), "exited"
    faults

flow == <<inp, decision, chunks, sent, echo, stored>>
vars == <<inp, pc, decision, chunks, sent, echo, trail, stored, sse, online, task, incident,
          proc, faults>>

Event(t, d, x) == [type |-> t, decision |-> d, detail |-> x]

\* text: of the user's message; draft: how raw values stand in the answer the prompt
\* carries ("none" of a prompt without one).
Spellings == {"none", "exact", "variant"}

PromptType ==
    [to : {"primary", "reviewer"}, text : {"original", "sanitized"},
     chunks : SUBSET (Levels \cup {""}), draft : Spellings]

EventType ==
    [type : {"chat_request", "chat_response", "chat_blocked", "chat_error", "rag_query",
             "rag_chunk_dropped_high_risk", "policy_revised_after_rag",
             "incident_created_auto", "incident_create_failed"},
     decision : Decisions \cup {"none"},
     detail : {"", "leak", "preview_token_miss", "sanitize", "encrypt_mappings",
               "sanitize_system_prompt", "sanitize_review_system_prompt_fallback",
               "record_request", "llm", "model_review", "record_response",
               "record_blocked", "throttled", "error"}]

TypeOK ==
    /\ inp \in [Requests -> Inputs]
    /\ pc \in [Requests -> {"new", "decided", "stream", "retrieve", "announce", "call",
                            "check", "review", "record", "deliver", "block", "blocked",
                            "rejected", "closed"}]
    /\ decision \in [Requests -> Decisions]
    /\ chunks \in [Requests -> SUBSET (Levels \cup {""})]
    /\ sent \in [Requests -> SUBSET PromptType]
    /\ echo \in [Requests -> Spellings]
    /\ trail \in [Requests -> SUBSET EventType]
    /\ stored \in [Requests -> {"none", "notice", "masked", "raw"}]
    /\ sse \in [Requests -> SUBSET {"meta", "rag_hits", "meta_revised", "delta", "done", "error"}]
    /\ online \in [Requests -> BOOLEAN]
    /\ task \in [Requests -> {"none", "incident"}]
    /\ incident \in [Requests -> BOOLEAN]
    /\ proc \in {"up", "stopping", "exited"}
    /\ faults \in 0..MaxFaults

Init ==
    /\ inp \in [Requests -> Inputs]
    /\ pc = [r \in Requests |-> "new"]
    /\ decision = [r \in Requests |-> "deny"]
    /\ chunks = [r \in Requests |-> {}]
    /\ sent = [r \in Requests |-> {}]
    /\ echo = [r \in Requests |-> "none"]
    /\ trail = [r \in Requests |-> {}]
    /\ stored = [r \in Requests |-> "none"]
    /\ sse = [r \in Requests |-> {}]
    /\ online = [r \in Requests |-> TRUE]
    /\ task = [r \in Requests |-> "none"]
    /\ incident = [r \in Requests |-> FALSE]
    /\ proc = "up"
    /\ faults = 0

(***************************************************************************)
(* The pieces handlers are made of                                         *)
(***************************************************************************)

At(r, p) == pc[r] = p /\ proc # "exited"

Goto(r, p) == pc' = [pc EXCEPT ![r] = p]

Fault == faults < MaxFaults /\ faults' = faults + 1

\* The PseudonymMap is not empty: entities were found, and not by the worker,
\* whose documents come without a map.
Mapped(r) == inp[r].risk.classes # {} /\ inp[r].source # "document"

\* Committed audit events; recordAuditEvent ignores its own failure.
Commit(r, events) == trail' = [trail EXCEPT ![r] = @ \cup events]

Audit(r, events) ==
    \/ Commit(r, events) /\ UNCHANGED faults
    \/ Fault /\ \E lost \in events : Commit(r, events \ {lost})

\* A call fails, by itself or, when it carries the request's context, because the
\* client is gone; the audit event about it is best-effort again.
Fails(r, cancellable, event) ==
    \E cause \in IF cancellable /\ ~online[r] THEN 0..1 ELSE {1}, lost \in 0..1 :
        /\ faults + cause + lost <= MaxFaults
        /\ faults' = faults + cause + lost
        /\ Commit(r, IF lost = 0 THEN {event} ELSE {})

\* A transaction fails, its commit applied only if acknowledgements may be lost.
FailsApplied(r, applied, committed, event) ==
    /\ applied => LostAcks
    /\ \E lost \in 0..1 :
        /\ faults + 1 + lost <= MaxFaults
        /\ faults' = faults + 1 + lost
        /\ Commit(r, (IF applied THEN {committed} ELSE {}) \cup (IF lost = 0 THEN {event} ELSE {}))

\* A run of SSE events, all written; or the client is gone and a write fails
\* after the events of one of the given prefixes.
Emit(r, events) == sse' = [sse EXCEPT ![r] = @ \cup events]

Cut(r, prefixes) == ~online[r] /\ \E events \in prefixes : Emit(r, events)

\* chat_error and sink.Fail, after which the handler returns.
ErrorEvent(r, stage) ==
    Event("chat_error", IF stage = "sanitize" \/ stage = "encrypt_mappings"
                        THEN "none" ELSE decision[r], stage)

Fail(r) ==
    /\ Emit(r, {"error"}) \/ Cut(r, {{}})
    /\ Goto(r, "closed")

(***************************************************************************)
(* Prepare                                                                 *)
(***************************************************************************)

\* resolveSanitize: the cached result, or a fresh one; a token that missed the
\* cache is reported within the limits of the throttle.  Then policy.Decide.
Sanitize(r) ==
    /\ At(r, "new") /\ proc = "up"
    /\ decision' = [decision EXCEPT ![r] = Decide(inp[r].trust, inp[r].risk)]
    /\ Goto(r, "decided")
    /\ IF inp[r].source = "stale"
       THEN \/ Audit(r, {Event("chat_error", "none", "preview_token_miss")})
            \/ UNCHANGED <<trail, faults>>
       ELSE UNCHANGED <<trail, faults>>
    /\ UNCHANGED <<inp, chunks, sent, echo, stored, sse, online, task, incident, proc>>

\* The sanitizer or BuildPseudonymMap fails: 502 before any SSE.
SanitizeError(r) ==
    /\ At(r, "new") /\ proc = "up"
    /\ inp[r].source \in {"fresh", "stale"}
    /\ Fails(r, TRUE, ErrorEvent(r, "sanitize"))
    /\ Goto(r, "rejected")
    /\ UNCHANGED <<flow, sse, online, task, incident, proc>>

\* A mapping cannot be encrypted, or the system prompt cannot be sanitized.
PrepareError(r) ==
    /\ At(r, "decided")
    /\ \/ Mapped(r) /\ Fails(r, FALSE, ErrorEvent(r, "encrypt_mappings"))
       \/ Fails(r, TRUE, ErrorEvent(r, "sanitize_system_prompt"))
    /\ Goto(r, "rejected")
    /\ UNCHANGED <<flow, sse, online, task, incident, proc>>

\* A reviewer's prompt cannot be sanitized: the default prompt is used instead.
ReviewPromptFallback(r) ==
    /\ At(r, "decided")
    /\ inp[r].review
    /\ ErrorEvent(r, "sanitize_review_system_prompt_fallback") \notin trail[r]
    /\ Fails(r, TRUE, ErrorEvent(r, "sanitize_review_system_prompt_fallback"))
    /\ UNCHANGED <<flow, pc, sse, online, task, incident, proc>>

RequestEvent(r) == Event("chat_request", decision[r], "")

\* Tx1, detached from the client.
RecordChatRequest(r) ==
    /\ At(r, "decided")
    /\ Commit(r, {RequestEvent(r)})
    /\ Goto(r, "stream")
    /\ UNCHANGED <<flow, sse, online, task, incident, proc, faults>>

\* Mutant of RecordRequestError: fail-open, the stream is opened anyway.
RecordRequestIgnored(r) ==
    /\ At(r, "decided")
    /\ \E applied \in BOOLEAN :
         FailsApplied(r, applied, RequestEvent(r), ErrorEvent(r, "record_request"))
    /\ Goto(r, "stream")
    /\ UNCHANGED <<flow, sse, online, task, incident, proc>>

RecordRequestError(r) ==
    /\ At(r, "decided")
    /\ \E applied \in BOOLEAN :
         FailsApplied(r, applied, RequestEvent(r), ErrorEvent(r, "record_request"))
    /\ Goto(r, "rejected")
    /\ UNCHANGED <<flow, sse, online, task, incident, proc>>

(***************************************************************************)
(* Stream, up to the decision that counts                                  *)
(***************************************************************************)

\* meta, status policy_checked, and status rag_search when retrieval will run.
OpenStream(r) ==
    /\ At(r, "stream")
    /\ \/ Emit(r, {"meta"}) /\ Goto(r, "retrieve")
       \/ Cut(r, {{}, {"meta"}}) /\ Goto(r, "closed")
    /\ UNCHANGED <<flow, trail, online, task, incident, proc, faults>>

\* shouldAttemptRAG, and the same conditions at the head of runRetrieval.
AttemptsRAG(r) == inp[r].rag /\ CallsLLM(decision[r])

NoRetrieval(r) ==
    /\ At(r, "retrieve")
    /\ ~AttemptsRAG(r)
    /\ Goto(r, "announce")
    /\ UNCHANGED <<flow, trail, sse, online, task, incident, proc, faults>>

\* The retriever fails: the chat goes on without sources.
RetrieveError(r) ==
    /\ At(r, "retrieve")
    /\ AttemptsRAG(r)
    /\ Fails(r, TRUE, Event("rag_query", "none", "error"))
    /\ Goto(r, "announce")
    /\ UNCHANGED <<flow, sse, online, task, incident, proc>>

\* Mutant of Retrieve: the hits are kept although the revised decision blocks.
RetrieveKeepsHits(r) ==
    /\ At(r, "retrieve")
    /\ AttemptsRAG(r)
    /\ decision' = [decision EXCEPT ![r] = Revise(@, inp[r].risk.level, inp[r].hits)]
    /\ chunks' = [chunks EXCEPT ![r] = KeptForTrust(inp[r].hits, inp[r].trust)]
    /\ Audit(r, {Event("rag_query", "none", "")})
    /\ Goto(r, "announce")
    /\ UNCHANGED <<inp, sent, echo, stored, sse, online, task, incident, proc>>

\* runRetrieval: the decision is revised by all hits, then the hits an external
\* model may not see are dropped, then the budget may drop the rest.
Retrieve(r) ==
    /\ At(r, "retrieve")
    /\ AttemptsRAG(r)
    /\ LET revised == Revise(decision[r], inp[r].risk.level, inp[r].hits)
           kept    == KeptForTrust(inp[r].hits, inp[r].trust)
           queried == {Event("rag_query", "none", "")}
           dropped == IF kept # inp[r].hits /\ CallsLLM(revised)
                      THEN {Event("rag_chunk_dropped_high_risk", "none", "")} ELSE {}
           report  == IF revised = decision[r] THEN {{}}
                      ELSE {{}, {Event("policy_revised_after_rag", revised, "")},
                                {Event("policy_revised_after_rag", revised, "throttled")}}
       IN /\ decision' = [decision EXCEPT ![r] = revised]
          /\ \E fit \in SUBSET kept :
               chunks' = [chunks EXCEPT ![r] = IF CallsLLM(revised) THEN fit ELSE {}]
          /\ \E revision \in report : Audit(r, queried \cup dropped \cup revision)
    /\ Goto(r, "announce")
    /\ UNCHANGED <<inp, sent, echo, stored, sse, online, task, incident, proc>>

Revised(r) == RequestEvent(r) \notin trail[r]

\* Mutant of Announce: the branch follows the decision of the request.
AnnounceUnrevised(r) ==
    /\ At(r, "announce")
    /\ \E e \in trail[r] : e.type = "chat_request" /\ Goto(r, IF CallsLLM(e.decision) THEN "call" ELSE "block")
    /\ UNCHANGED <<flow, trail, sse, online, task, incident, proc, faults>>

\* status rag_done, rag_hits, the revised meta, then the status of the branch taken.
Announce(r) ==
    /\ At(r, "announce")
    /\ LET hits    == IF chunks[r] # {} THEN {"rag_hits"} ELSE {}
           revised == IF Revised(r) THEN {"meta_revised"} ELSE {}
       IN \/ /\ Emit(r, hits \cup revised)
             /\ Goto(r, IF CallsLLM(decision[r]) THEN "call" ELSE "block")
          \/ Cut(r, {{}, hits, hits \cup revised}) /\ Goto(r, "closed")
    /\ UNCHANGED <<flow, trail, online, task, incident, proc, faults>>

(***************************************************************************)
(* runLLM                                                                  *)
(***************************************************************************)

\* actionFor with originalForLLM: a document token restores nothing, so even
\* allow_raw sends the sanitized text.
SendText(r) ==
    IF SendsOriginal(decision[r]) /\ inp[r].source # "document" THEN "original" ELSE "sanitized"

Prompt(r) ==
    [to |-> "primary", text |-> SendText(r), chunks |-> chunks[r], draft |-> "none"]

\* llm.Complete answers; a model may repeat raw values, those it was given or not.
Complete(r) ==
    /\ At(r, "call")
    /\ sent' = [sent EXCEPT ![r] = @ \cup {Prompt(r)}]
    /\ \E e \in IF Mapped(r) THEN Spellings ELSE {"none"} :
         echo' = [echo EXCEPT ![r] = e]
    /\ Goto(r, "check")
    /\ UNCHANGED <<inp, decision, chunks, stored, trail, sse, online, task, incident, proc, faults>>

\* llm.Complete fails, with or without the prompt having gone out, or answers nothing.
CompleteError(r) ==
    /\ At(r, "call")
    /\ Fails(r, TRUE, ErrorEvent(r, "llm"))
    /\ \E gone \in BOOLEAN :
         sent' = [sent EXCEPT ![r] = IF gone THEN @ \cup {Prompt(r)} ELSE @]
    /\ Fail(r)
    /\ UNCHANGED <<inp, decision, chunks, echo, stored, online, task, incident, proc>>

\* status llm_done.
LLMDone(r) ==
    /\ At(r, "check")
    /\ \/ Goto(r, IF inp[r].review THEN "review" ELSE "record")
       \/ ~online[r] /\ Goto(r, "closed")
    /\ UNCHANGED <<flow, trail, sse, online, task, incident, proc, faults>>

\* Remask replaces exact occurrences only.
Remasked(e) == IF e = "exact" THEN "none" ELSE e

SameText(r) == SendText(r)   \* mutant of ReviewText: what the primary model got

\* reviewSourceText
ReviewText(r) == IF Mapped(r) THEN "sanitized" ELSE SendText(r)

\* What Remask can leave in a draft, the preview of its files, or a reviewer's findings.
Drafts(r) == IF Mapped(r) THEN {"none", "variant"} ELSE {"none"}

\* buildReviewMessages, buildRevisionMessages: the source text and a draft, no chunks.
ReviewPrompts(r, to, drafts) ==
    [to : {to}, text : {ReviewText(r)}, chunks : {{}}, draft : drafts]

\* What the primary model gets to revise these drafts: each of them, with findings that
\* may themselves repeat a value.
WithFindings(r, revised) ==
    {told \in SUBSET Drafts(r) :
       /\ told = {} <=> revised = {}
       /\ "variant" \in revised => "variant" \in told
       /\ "none" \in told => "none" \in revised}

\* The rounds of a loop, as the drafts found wanting and the last one: the first draft
\* is the answer, remasked.
Rounds(r, revised, last) ==
    IF revised = {} THEN last = Remasked(echo[r]) ELSE Remasked(echo[r]) \in revised

\* Mutant of Review: the first draft goes out as the model wrote it.
ReviewUnmasked(r) ==
    /\ At(r, "review")
    /\ sent' = [sent EXCEPT ![r] = @ \cup ReviewPrompts(r, "reviewer", {echo[r]})]
    /\ echo' = [echo EXCEPT ![r] = Remasked(@)]
    /\ Goto(r, "record")
    /\ UNCHANGED <<inp, decision, chunks, stored, trail, sse, online, task, incident, proc, faults>>

\* runModelReview: in each round reviewers see the source text and the draft, and unless
\* they accept it or it was the last round the primary model revises it.
Review(r) ==
    /\ At(r, "review")
    /\ \E revised \in SUBSET Drafts(r), last \in Drafts(r) :
         /\ Rounds(r, revised, last)
         /\ \E told \in WithFindings(r, revised) :
              sent' = [sent EXCEPT ![r] = @ \cup ReviewPrompts(r, "reviewer", revised \cup {last})
                                            \cup ReviewPrompts(r, "primary", told)]
         /\ echo' = [echo EXCEPT ![r] = last]
    /\ Goto(r, "record")
    /\ UNCHANGED <<inp, decision, chunks, stored, trail, sse, online, task, incident, proc, faults>>

\* What has gone out when the loop breaks off: up to the reviewers' or to the primary
\* model's turn in its last round.
ReviewBegun(r) ==
    \E revised \in SUBSET Drafts(r), last \in Drafts(r) :
        /\ Rounds(r, revised, last)
        /\ \E seen \in {revised, revised \cup {last}}, told \in WithFindings(r, revised) :
             sent' = [sent EXCEPT ![r] = @ \cup ReviewPrompts(r, "reviewer", seen)
                                           \cup ReviewPrompts(r, "primary", told)]

\* Mutant of ReviewError: the stage is not reported.
ReviewErrorSilent(r) ==
    /\ At(r, "review")
    /\ Fault
    /\ ReviewBegun(r)
    /\ Fail(r)
    /\ UNCHANGED <<inp, decision, chunks, echo, stored, trail, online, task, incident, proc>>

\* A reviewer or the revision fails, or a status of the loop cannot be written.
ReviewError(r) ==
    /\ At(r, "review")
    /\ Fails(r, TRUE, ErrorEvent(r, "model_review"))
    /\ ReviewBegun(r)
    /\ Fail(r)
    /\ UNCHANGED <<inp, decision, chunks, echo, stored, online, task, incident, proc>>

LeakedExactly(r) == echo[r] = "exact"   \* mutant of Leaked: no case folding

\* DetectLeak ignores case and normalization, so it sees both spellings.
Leaked(r) == echo[r] # "none"

AsAnswered(r) == echo[r]   \* mutant of FinalText: the answer as it came

\* finalTexts: what is stored is also what is streamed.
FinalText(r) ==
    IF (IF Remasks(decision[r]) THEN Remasked(echo[r]) ELSE echo[r]) = "none"
    THEN "masked" ELSE "raw"

UnflaggedEvent(r) == Event("chat_response", decision[r], "")   \* mutant of ResponseEvent

ResponseEvent(r) == Event("chat_response", decision[r], IF Leaked(r) THEN "leak" ELSE "")

\* Tx2 of an answer: the assistant's message and chat_response, detached.
RecordResponse(r) ==
    /\ At(r, "record")
    /\ stored' = [stored EXCEPT ![r] = FinalText(r)]
    /\ Commit(r, {ResponseEvent(r)})
    /\ Goto(r, "deliver")
    /\ UNCHANGED <<inp, decision, chunks, sent, echo, sse, online, task, incident, proc, faults>>

RecordResponseError(r) ==
    /\ At(r, "record")
    /\ \E applied \in BOOLEAN :
         /\ FailsApplied(r, applied, ResponseEvent(r), ErrorEvent(r, "record_response"))
         /\ stored' = IF applied THEN [stored EXCEPT ![r] = FinalText(r)] ELSE stored
    /\ Fail(r)
    /\ UNCHANGED <<inp, decision, chunks, sent, echo, online, task, incident, proc>>

SpawnAlways(r, trigger) == task' = [task EXCEPT ![r] = "incident"]   \* mutant of Spawn

\* goAsync(createAutoIncidentIfNeeded), once sink.Done has returned.
Spawn(r, trigger) == task' = [task EXCEPT ![r] = IF trigger THEN "incident" ELSE "none"]

\* status streaming_answer, the deltas, done, then the background task; a write
\* that fails before done returns without it.
Deliver(r) ==
    /\ At(r, "deliver")
    /\ \/ Emit(r, {"delta", "done"}) /\ Spawn(r, Leaked(r))
       \/ Cut(r, {{"delta"}}) /\ Spawn(r, Leaked(r))      \* done itself failed
       \/ Cut(r, {{}, {"delta"}}) /\ UNCHANGED task
    /\ Goto(r, "closed")
    /\ UNCHANGED <<flow, trail, online, incident, proc, faults>>

(***************************************************************************)
(* finishBlocked                                                           *)
(***************************************************************************)

BlockedEvent(r) == Event("chat_blocked", decision[r], "")

\* Tx2 of a blocked request: the notice and chat_blocked, detached.
RecordBlocked(r) ==
    /\ At(r, "block")
    /\ stored' = [stored EXCEPT ![r] = "notice"]
    /\ Commit(r, {BlockedEvent(r)})
    /\ Goto(r, "blocked")
    /\ UNCHANGED <<inp, decision, chunks, sent, echo, sse, online, task, incident, proc, faults>>

RecordBlockedError(r) ==
    /\ At(r, "block")
    /\ \E applied \in BOOLEAN :
         /\ FailsApplied(r, applied, BlockedEvent(r), ErrorEvent(r, "record_blocked"))
         /\ stored' = IF applied THEN [stored EXCEPT ![r] = "notice"] ELSE stored
    /\ Fail(r)
    /\ UNCHANGED <<inp, decision, chunks, sent, echo, online, task, incident, proc>>

\* Mutant of DoneBlocked: an early return when done cannot be written.
DoneBlockedEarly(r) ==
    /\ At(r, "blocked")
    /\ \/ Emit(r, {"done"}) /\ Spawn(r, TRUE)
       \/ Cut(r, {{}}) /\ UNCHANGED task
    /\ Goto(r, "closed")
    /\ UNCHANGED <<flow, trail, online, incident, proc, faults>>

\* done, then the background task, even if done could not be written.
DoneBlocked(r) ==
    /\ At(r, "blocked")
    /\ Emit(r, {"done"}) \/ Cut(r, {{}})
    /\ Spawn(r, TRUE)
    /\ Goto(r, "closed")
    /\ UNCHANGED <<flow, trail, online, incident, proc, faults>>

(***************************************************************************)
(* createAutoIncidentIfNeeded, the client, the process                     *)
(***************************************************************************)

AutoEvent == Event("incident_created_auto", "none", "")
AutoError == Event("incident_create_failed", "none", "")

\* Tx3: the incident and its audit event in one transaction.
CreateIncident(r) ==
    /\ task[r] = "incident" /\ proc # "exited"
    /\ incident' = [incident EXCEPT ![r] = TRUE]
    /\ Commit(r, {AutoEvent})
    /\ task' = [task EXCEPT ![r] = "none"]
    /\ UNCHANGED <<flow, pc, sse, online, proc, faults>>

CreateIncidentError(r) ==
    /\ task[r] = "incident" /\ proc # "exited"
    /\ \E applied \in BOOLEAN :
         /\ FailsApplied(r, applied, AutoEvent, AutoError)
         /\ incident' = IF applied THEN [incident EXCEPT ![r] = TRUE] ELSE incident
    /\ task' = [task EXCEPT ![r] = "none"]
    /\ UNCHANGED <<flow, pc, sse, online, proc>>

Disconnect(r) ==
    /\ online[r] /\ pc[r] \notin {"rejected", "closed"} /\ proc # "exited"
    /\ online' = [online EXCEPT ![r] = FALSE]
    /\ UNCHANGED <<flow, pc, trail, sse, task, incident, proc, faults>>

\* SIGTERM: Shutdown closes the listener and ListenAndServe returns at once.
Shutdown ==
    /\ MayShutdown
    /\ proc = "up"
    /\ proc' = "stopping"
    /\ UNCHANGED <<flow, pc, trail, sse, online, task, incident, faults>>

\* main leaves when Wait does: no background task runs, whatever handlers do.
Exit ==
    /\ proc = "stopping"
    /\ \A r \in Requests : task[r] = "none"
    /\ proc' = "exited"
    /\ UNCHANGED <<flow, pc, trail, sse, online, task, incident, faults>>

\* The handler's own steps.
Handler(r) ==
    \/ Sanitize(r) \/ RecordChatRequest(r)
    \/ OpenStream(r) \/ NoRetrieval(r) \/ Retrieve(r) \/ Announce(r)
    \/ Complete(r) \/ LLMDone(r) \/ Review(r) \/ RecordResponse(r) \/ Deliver(r)
    \/ RecordBlocked(r) \/ DoneBlocked(r)

Failing(r) ==
    \/ SanitizeError(r) \/ PrepareError(r) \/ ReviewPromptFallback(r) \/ RecordRequestError(r)
    \/ RetrieveError(r) \/ CompleteError(r) \/ ReviewError(r) \/ RecordResponseError(r)
    \/ RecordBlockedError(r) \/ CreateIncidentError(r)

Next ==
    \/ \E r \in Requests : Handler(r) \/ Failing(r) \/ CreateIncident(r) \/ Disconnect(r)
    \/ Shutdown \/ Exit

Spec == Init /\ [][Next]_vars

\* A handler that has begun runs on (every call has a timeout), and so does the
\* background task, which nothing cancels.
Fairness ==
    \A r \in Requests : WF_vars(Handler(r) \/ Failing(r)) /\ WF_vars(CreateIncident(r))

FairSpec == Spec /\ Fairness

(***************************************************************************)
(* Properties                                                              *)
(***************************************************************************)

Has(r, type) == \E e \in trail[r] : e.type = type

Verdicts(r) == {e \in trail[r] : e.type \in {"chat_response", "chat_blocked"}}

Sensitive(r) == inp[r].risk.classes \cap {"pii", "commercial"} # {}

\* Policy, review and RAG filters together: a model outside the perimeter and
\* every reviewer gets sanitized text of a sensitive request and no risky chunk;
\* nobody gets anything of a request with a secret or one that was blocked, nor a
\* draft with a value of the map spelled as the user did.  A value in another
\* spelling passes Remask and does reach reviewers, though a comment of
\* reviewSourceText has it that they never see raw values (orchestrator_review.go:183).
SentAsAllowed ==
    \A r \in Requests : \A m \in sent[r] :
        /\ CallsLLM(decision[r]) /\ "secret" \notin inp[r].risk.classes
        /\ Sensitive(r) /\ (m.to = "reviewer" \/ IsExternalTrust(inp[r].trust))
             => m.text = "sanitized"
        /\ IsExternalTrust(inp[r].trust) => m.chunks \cap {"high", "critical"} = {}
        /\ m.draft # "exact"

\* Prepare, Tx1 then SSE then LLM: nothing is sent to a model and nothing shown
\* to the client before the request is in the audit trail.
AuditedFirst ==
    \A r \in Requests : sent[r] # {} \/ sse[r] # {} => Has(r, "chat_request")

\* Tx2: at most one verdict; it has the decision of the request or, after
\* retrieval, one a step harder; it says "blocked" of exactly the requests that
\* reached no model.
VerdictAgrees ==
    \A r \in Requests : \A v \in Verdicts(r) :
        /\ Verdicts(r) = {v}
        /\ \E e \in trail[r] :
              /\ e.type = "chat_request"
              /\ DecisionOrder(v.decision) - DecisionOrder(e.decision) \in 0..1
        /\ v.type = "chat_blocked" <=> ~CallsLLM(v.decision)
        /\ v.type = "chat_blocked" <=> sent[r] = {}

\* Stream: an answer is shown only once it is stored, with its verdict; a blocked
\* request shows neither deltas nor the documents that made it blocked; a stream
\* ends with done or error, never both.
ShownAsRecorded ==
    \A r \in Requests :
        /\ "delta" \in sse[r] => Has(r, "chat_response") /\ stored[r] \in {"masked", "raw"}
        /\ "done" \in sse[r] => Verdicts(r) # {} /\ "error" \notin sse[r]
        /\ ~CallsLLM(decision[r]) => sse[r] \cap {"delta", "rag_hits"} = {}

\* finalTexts: an answer of a masked request that is stored and shown with a raw
\* value in it is flagged as a leak, whatever review and remasking did before.
RawIsFlagged ==
    \A r \in Requests : stored[r] = "raw" => \E v \in Verdicts(r) : v.detail = "leak"

\* Every early return of Prepare, Stream and runLLM: for a client that stays, one
\* failing call never ends a request that has neither a verdict nor its error in
\* the trail.
ConcludingStages ==
    {"sanitize", "encrypt_mappings", "sanitize_system_prompt", "record_request", "llm",
     "model_review", "record_response", "record_blocked"}

ConcludedOrGone ==
    \A r \in Requests : pc[r] \in {"rejected", "closed"} /\ online[r] /\ faults < 2 =>
        \/ Verdicts(r) # {}
        \/ \E e \in trail[r] : e.type = "chat_error" /\ e.detail \in ConcludingStages

\* Tx3: an incident stands on the verdict that triggered it, and its own audit
\* event is committed with it.
IncidentJustified ==
    \A r \in Requests :
        /\ incident[r] <=> AutoEvent \in trail[r]
        /\ incident[r] => \E v \in Verdicts(r) : v.type = "chat_blocked" \/ v.detail = "leak"

\* What ChatAudit promises, read off the trail, the prompts and the stream.
Leak(r) == \E v \in Verdicts(r) : v.type = "chat_response" /\ v.detail = "leak"

Audited == INSTANCE ChatAudit WITH
    recorded <- [r \in Requests |-> Has(r, "chat_request")],
    called   <- [r \in Requests |-> sent[r] # {}],
    verdict  <- [r \in Requests |-> IF Has(r, "chat_blocked") THEN "blocked"
                                    ELSE IF Leak(r) THEN "leaked"
                                    ELSE IF Has(r, "chat_response") THEN "answered"
                                    ELSE "none"],
    shown    <- [r \in Requests |-> sse[r] \cap {"delta", "done"} # {}],
    raised   <- incident

\* Every behaviour of the chat flow is one of ChatAudit.
ImplementsAudit == Audited!Spec

\* With one failing call at most, and unless the process is told to stop, every recorded
\* block ends in an incident, in a record that it could not be created, or in the error
\* event of a commit whose answer was lost, whether the client is there or not.  That last
\* block has neither incident nor incident_create_failed: finishBlocked has returned.
BlockedGetsIncident ==
    \A r \in Requests :
        Has(r, "chat_blocked") ~>
            \/ incident[r] \/ AutoError \in trail[r]
            \/ ErrorEvent(r, "record_blocked") \in trail[r]
            \/ faults > 1 \/ proc # "up"

(***************************************************************************)
(* What docs and comments say and the code does not do (violation runs)    *)
(***************************************************************************)

\* API.md: an incident is created for every response_leak_detected.
LeakGetsIncident ==
    \A r \in Requests :
        (\E v \in Verdicts(r) : v.detail = "leak") ~> (incident[r] \/ AutoError \in trail[r])

\* main.go: shutdown waits for the incidents of the audit trail.
ExitKeepsIncidents ==
    proc = "exited" => \A r \in Requests : Has(r, "chat_blocked") => incident[r]
=============================================================================
