----------------------------- MODULE Admission -----------------------------
(***************************************************************************)
(* The gate before a chat request: POST /api/chat/preview sanitizes a text *)
(* (or takes a document's sanitized one), keeps the result in the          *)
(* PreviewCache under a one-time token and shows it; POST /api/chat sends  *)
(* what is kept under the token, or sanitizes afresh when there is nothing *)
(* to be had for it and reports that, through a throttle, to the audit.    *)
(* Cache and throttle live in the process's memory, each under a mutex.    *)
(* What becomes of the request then is ChatFlow.                           *)
(***************************************************************************)
EXTENDS Naturals, FiniteSets

CONSTANTS
    Users,
    Privileged,    \* users whose role is admin or developer
    Requests,      \* chat requests that come with a token and are accepted
    Bodies,        \* of chat requests: [valid, overrides, foreign : BOOLEAN]
    MaxTokens,     \* previews answered
    Results,       \* what sanitizing may give: filter 2 is not deterministic
    TTL,           \* _previewTTL, 10 minutes
    Limit,         \* misses reported per user and window, 5
    Window,        \* of the reports of misses, 1 minute
    MaxTime,       \* bound on the clock
    MaxRestarts,   \* bound on restarts of the process
    None

Tokens == 1..MaxTokens
Times  == 0..MaxTime

VARIABLES
    now,        \* time.Now(), in ticks
    entries,    \* PreviewCache.entries
    issued,     \* what every preview has answered, and when
    misses,     \* throttleReporter.state
    request,    \* the chat requests
    log,        \* what Allow has decided of every miss
    event,      \* what has become of the audit event about a request's miss
    restarts

vars == <<now, entries, issued, misses, request, log, event, restarts>>

-----------------------------------------------------------------------------

EntryType  == [user : Users, result : Results, expires : 0..(MaxTime + TTL)]
IssuedType == [user : Users, result : Results, at : Times, life : 0..MaxRestarts]
WindowType == [count : 0..Limit, throttled : BOOLEAN, resetAt : 0..(MaxTime + Window)]

\* result: what the request got from the cache; asked: it came with a token that has
\* been looked for, at that time and in that life of the process.
RequestType ==
    [pc : {"idle", "prepare", "miss", "report", "done"}, user : Users \cup {None},
     token : Tokens \cup {None}, result : Results \cup {None},
     asked : BOOLEAN, at : Times, life : 0..MaxRestarts]

ReportType ==
    [request : Requests, user : Users, kind : {"miss", "throttled", "silent"},
     at : Times, life : 0..MaxRestarts]

ASSUME AdmissionAssumption ==
    /\ Privileged \subseteq Users
    /\ Bodies \subseteq [valid : BOOLEAN, overrides : BOOLEAN, foreign : BOOLEAN]
    /\ MaxTokens \in Nat /\ TTL \in Nat /\ Limit \in Nat /\ Window \in Nat
    /\ MaxTime \in Nat /\ MaxRestarts \in Nat
    /\ None \notin Tokens \cup Users \cup Results
    /\ None \notin EntryType \cup IssuedType \cup WindowType

Unsent == [pc |-> "idle", user |-> None, token |-> None, result |-> None,
           asked |-> FALSE, at |-> 0, life |-> 0]
Sent(u, token) == [Unsent EXCEPT !.pc = "prepare", !.user = u, !.token = token]
Dropped == [Unsent EXCEPT !.pc = "done"]

TypeOK ==
    /\ now \in Times
    /\ entries \in [Tokens -> EntryType \cup {None}]
    /\ issued \in [Tokens -> IssuedType \cup {None}]
    /\ misses \in [Users -> WindowType \cup {None}]
    /\ request \in [Requests -> RequestType]
    /\ log \subseteq ReportType
    /\ event \in [Requests -> {"none", "recorded", "lost"}]
    /\ restarts \in 0..MaxRestarts

Init ==
    /\ now = 0
    /\ entries = [t \in Tokens |-> None]
    /\ issued = [t \in Tokens |-> None]
    /\ misses = [u \in Users |-> None]
    /\ request = [r \in Requests |-> Unsent]
    /\ log = {}
    /\ event = [r \in Requests |-> "none"]
    /\ restarts = 0

(***************************************************************************)
(* PreviewCache                                                            *)
(***************************************************************************)

Expired(e) == now > e.expires

\* Mutant of Pruned: a whole TTL is not left to an entry.
PrunedAtOnce == [t \in Tokens |-> IF entries[t] # None /\ now >= entries[t].expires THEN None ELSE entries[t]]

\* pruneLocked
Pruned == [t \in Tokens |-> IF entries[t] # None /\ Expired(entries[t]) THEN None ELSE entries[t]]

\* Preview, or PreviewFromSanitized, once there is a result: put, under a token
\* nobody has seen; the answer carries token and result.
Preview(t, u, result) ==
    /\ issued[t] = None /\ \A s \in Tokens : s < t => issued[s] # None
    /\ entries' = [Pruned EXCEPT ![t] = [user |-> u, result |-> result, expires |-> now + TTL]]
    /\ issued' = [issued EXCEPT ![t] = [user |-> u, result |-> result, at |-> now, life |-> restarts]]
    /\ UNCHANGED <<now, misses, request, log, event, restarts>>

Available(t, u) == entries[t] # None /\ entries[t].user = u /\ ~Expired(entries[t])

\* The request that has asked, and what it has got.
Answered(q, result) ==
    [q EXCEPT !.pc = IF result = None THEN "miss" ELSE "done", !.result = result,
              !.asked = TRUE, !.at = now, !.life = restarts]

\* Mutant of Consume: what is given out stays in the cache.
ConsumeKeep(r) ==
    /\ request[r].pc = "prepare"
    /\ LET t == request[r].token IN
         IF Available(t, request[r].user)
         THEN /\ request' = [request EXCEPT ![r] = Answered(request[r], entries[t].result)]
              /\ UNCHANGED entries
         ELSE /\ request' = [request EXCEPT ![r] = Answered(request[r], None)]
              /\ entries' = [entries EXCEPT ![t] = None]
    /\ UNCHANGED <<now, issued, misses, log, event, restarts>>

\* consumePreview: the entry goes, whoever asks; the result is for its owner only,
\* and in time.  A hit is final: when Prepare fails later, nothing is given back.
Consume(r) ==
    /\ request[r].pc = "prepare"
    /\ LET t == request[r].token
           result == IF Available(t, request[r].user) THEN entries[t].result ELSE None IN
         /\ request' = [request EXCEPT ![r] = Answered(request[r], result)]
         /\ entries' = [entries EXCEPT ![t] = None]
    /\ UNCHANGED <<now, issued, misses, log, event, restarts>>

(***************************************************************************)
(* The chat request                                                        *)
(***************************************************************************)

\* Overriding the system prompt takes a role; a session that is given must be the user's.
MayOverride(u) == u \in Privileged
OwnSession(body) == ~body.foreign

\* What chatHandler checks before Prepare.
Accepts(u, body) ==
    /\ body.valid
    /\ body.overrides => MayOverride(u)
    /\ OwnSession(body)

\* POST /api/chat arrives with a token that has been shown, and is accepted; one that
\* is refused or has no token touches neither cache nor throttle.
Send(r, u, token, body) ==
    /\ request[r].pc = "idle"
    /\ issued[token] # None
    /\ Accepts(u, body)
    /\ request' = [request EXCEPT ![r] = Sent(u, token)]
    /\ UNCHANGED <<now, entries, issued, misses, log, event, restarts>>

\* The window Allow finds or opens.
WindowOf(u) ==
    IF misses[u] = None \/ now > misses[u].resetAt
    THEN [count |-> 0, throttled |-> FALSE, resetAt |-> now + Window]
    ELSE misses[u]

\* Mutant of Allow: the event is let through without being counted.
AllowUncounted(w) ==
    IF w.count < Limit THEN <<"miss", w>>
    ELSE IF w.throttled THEN <<"silent", w>>
    ELSE <<"throttled", [w EXCEPT !.throttled = TRUE]>>

\* Mutant of Allow: one event too many.
AllowOneMore(w) ==
    IF w.count <= Limit THEN <<"miss", [w EXCEPT !.count = w.count + 1]>>
    ELSE IF w.throttled THEN <<"silent", w>>
    ELSE <<"throttled", [w EXCEPT !.throttled = TRUE]>>

\* Mutant of Allow: the last event let through already counts as the announcement.
AllowToldEarly(w) ==
    IF w.count < Limit
    THEN <<"miss", [w EXCEPT !.count = w.count + 1, !.throttled = w.count + 1 = Limit]>>
    ELSE IF w.throttled THEN <<"silent", w>>
    ELSE <<"throttled", [w EXCEPT !.throttled = TRUE]>>

\* throttleReporter.Allow: what to report, and the window afterwards.
Allow(w) ==
    IF w.count < Limit THEN <<"miss", [w EXCEPT !.count = w.count + 1]>>
    ELSE IF w.throttled THEN <<"silent", w>>
    ELSE <<"throttled", [w EXCEPT !.throttled = TRUE]>>

\* resolveSanitize after a miss: the throttle decides, under its mutex, whether there
\* will be an audit event, one that says there are more, or none.
ThrottleMiss(r) ==
    /\ request[r].pc = "miss"
    /\ LET u == request[r].user
           allowed == Allow(WindowOf(u)) IN
         /\ misses' = [misses EXCEPT ![u] = allowed[2]]
         /\ log' = log \cup {[request |-> r, user |-> u, kind |-> allowed[1],
                              at |-> now, life |-> restarts]}
         /\ request' = [request EXCEPT ![r].pc = IF allowed[1] = "silent" THEN "done" ELSE "report"]
    /\ UNCHANGED <<now, entries, issued, event, restarts>>

\* recordAuditEvent: the insert succeeds, or its error is dropped.  The window counts
\* the event, or has told of the storm, either way.
RecordMiss(r) ==
    /\ request[r].pc = "report"
    /\ \E outcome \in {"recorded", "lost"} : event' = [event EXCEPT ![r] = outcome]
    /\ request' = [request EXCEPT ![r].pc = "done"]
    /\ UNCHANGED <<now, entries, issued, misses, log, restarts>>

-----------------------------------------------------------------------------

Tick ==
    /\ now < MaxTime
    /\ now' = now + 1
    /\ UNCHANGED <<entries, issued, misses, request, log, event, restarts>>

\* The process restarts: cache, throttle and requests in flight are gone, with the
\* events they were about to write.
Restart ==
    /\ restarts < MaxRestarts
    /\ restarts' = restarts + 1
    /\ entries' = [t \in Tokens |-> None]
    /\ misses' = [u \in Users |-> None]
    /\ request' = [r \in Requests |->
                     IF request[r].pc = "prepare" THEN Dropped
                     ELSE IF request[r].pc \in {"miss", "report"} THEN [request[r] EXCEPT !.pc = "done"]
                     ELSE request[r]]
    /\ event' = [r \in Requests |-> IF request[r].pc = "report" THEN "lost" ELSE event[r]]
    /\ UNCHANGED <<now, issued, log>>

RequestStep(r) ==
    \/ \E u \in Users, token \in Tokens, body \in Bodies : Send(r, u, token, body)
    \/ Consume(r)
    \/ ThrottleMiss(r)
    \/ RecordMiss(r)

Next ==
    \/ \E t \in Tokens, u \in Users, result \in Results : Preview(t, u, result)
    \/ \E r \in Requests : RequestStep(r)
    \/ Tick
    \/ Restart

Spec == Init /\ [][Next]_vars

(***************************************************************************)
(* Properties                                                              *)
(***************************************************************************)

Asked(r) == request[r].asked
Hit(r)   == request[r].asked /\ request[r].result # None

\* What was shown under a token is sent by one request at most, however often the
\* token is used, to the user it was shown to, unchanged and within its time; a
\* restart forgets it.
SingleUse ==
    \A r \in Requests : Hit(r) =>
        LET i == issued[request[r].token] IN
          /\ i # None
          /\ i.user = request[r].user
          /\ i.result = request[r].result
          /\ request[r].at <= i.at + TTL
          /\ request[r].life = i.life
          /\ \A s \in Requests : Hit(s) /\ request[s].token = request[r].token => s = r

\* A user who confirmed a text gets another one sent only for a reason: the token
\* was another user's, was asked for before, has expired, or the process restarted.
MissHasReason ==
    \A r \in Requests : Asked(r) /\ ~Hit(r) =>
        LET i == issued[request[r].token] IN
          \/ i.user # request[r].user
          \/ \E s \in Requests \ {r} : Asked(s) /\ request[s].token = request[r].token
          \/ request[r].at > i.at + TTL
          \/ request[r].life > i.life

\* A storm of misses cannot flood the audit: while the process lives, in no stretch of a
\* window's length are more reports of a user let through than two windows allow.
ReportsBounded ==
    \A u \in Users, from \in Times, life \in 0..MaxRestarts :
      LET within == {e \in log : e.user = u /\ e.life = life /\ e.at \in from..(from + Window)} IN
        /\ Cardinality({e \in within : e.kind = "miss"}) <= 2 * Limit
        /\ Cardinality({e \in within : e.kind = "throttled"}) <= 2

\* The audit event of r's miss is written or being written.
Announcing(r) == event[r] = "recorded" \/ request[r].pc = "report"

\* A storm of misses goes unseen only when the one event that announces it is lost: a
\* silent miss is one of a window whose throttled event is in the audit or on its way,
\* unless its insert failed or the process ended before it.  Nothing writes that event
\* again in the rest of the window: throttled is set before the insert, whose error is
\* dropped, so "already told" (throttle.go:45-46) means that it was tried.
StormIsVisible ==
    \A e \in log : e.kind = "silent" =>
        \E f \in log : /\ f.kind = "throttled"
                       /\ f.user = e.user /\ f.life = e.life
                       /\ f.at <= e.at /\ e.at <= f.at + Window
                       /\ Announcing(f.request) \/ event[f.request] = "lost"

=============================================================================
