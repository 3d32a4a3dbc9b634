-------------------------- MODULE Admission_proofs --------------------------
(***************************************************************************)
(* Proofs about Admission: one-time tokens of the preview gate and the     *)
(* throttle of their misses, for any number of users, requests, previews   *)
(* and restarts, any lifetimes, limit and window.                          *)
(***************************************************************************)
EXTENDS Admission, FiniteSetTheorems, TLAPS

\* A request with a token on its way has user and token, and the token was shown.
Carries(r) ==
    /\ request[r].token # None => issued[request[r].token] # None
    /\ request[r].pc \in {"prepare", "miss"} =>
         request[r].user \in Users /\ request[r].token \in Tokens
    /\ request[r].pc \in {"idle", "prepare"} => ~request[r].asked
    /\ request[r].pc = "miss" \/ request[r].asked => request[r].token \in Tokens
    /\ request[r].at <= now /\ request[r].life <= restarts
Carried == \A r \in Requests : Carries(r)

\* What is in the cache is what was shown, of this life, and nobody has asked for it.
Kept(t) ==
    entries[t] # None =>
      /\ issued[t] # None
      /\ entries[t].user = issued[t].user /\ entries[t].result = issued[t].result
      /\ entries[t].expires = issued[t].at + TTL
      /\ issued[t].life = restarts
      /\ \A r \in Requests : Asked(r) => request[r].token # t

\* What was shown and is no longer there was asked for, has expired, or was lost.
Gone(t) ==
    issued[t] # None /\ entries[t] = None =>
      \/ \E r \in Requests : Asked(r) /\ request[r].token = t
      \/ now > issued[t].at + TTL
      \/ restarts > issued[t].life
Past(t) == issued[t] # None => issued[t].life <= restarts
Cache == \A t \in Tokens : Kept(t) /\ Gone(t) /\ Past(t)

\* A window that is throttled has had its throttled report, in this life and within
\* the window.
Told(u) ==
    misses[u] # None =>
      /\ misses[u].resetAt <= now + Window
      /\ misses[u].throttled =>
           \E f \in log : /\ f.kind = "throttled" /\ f.user = u /\ f.life = restarts
                          /\ f.at <= now /\ misses[u].resetAt <= f.at + Window
Throttle == \A u \in Users : Told(u)

\* A silent miss is one of a window with a throttled report: StormIsVisible but for what
\* becomes of the report's event.
Signalled ==
    \A e \in log : e.kind = "silent" =>
        \E f \in log : /\ f.kind = "throttled"
                       /\ f.user = e.user /\ f.life = e.life
                       /\ f.at <= e.at /\ e.at <= f.at + Window

\* What Allow lets through is being written until it is written or lost.
Announced ==
    \A f \in log : f.kind # "silent" => Announcing(f.request) \/ event[f.request] = "lost"

IInv == TypeOK /\ Carried /\ Cache /\ Throttle /\ SingleUse /\ MissHasReason /\ Signalled

-----------------------------------------------------------------------------

\* At the start there is no preview, no request and no report.
LEMMA InitIInv == AdmissionAssumption /\ Init => IInv
  <1>1. SUFFICES ASSUME AdmissionAssumption, Init PROVE IInv
    OBVIOUS
  <1>2. TypeOK
    BY <1>1 DEF AdmissionAssumption, Init, TypeOK, Unsent, RequestType, Times, Tokens
  <1>3. Carried /\ Cache /\ Throttle
    BY <1>1 DEF AdmissionAssumption, Init, Carried, Carries, Cache, Kept, Gone, Past, Throttle, Told, Unsent
  <1>4. SingleUse /\ MissHasReason /\ Signalled
    BY <1>1 DEF Init, SingleUse, MissHasReason, Signalled, Hit, Asked, Unsent
  <1> QED
    BY <1>2, <1>3, <1>4 DEF IInv

(***************************************************************************)
(* Types                                                                   *)
(***************************************************************************)

\* The requests that are not sent, sent and dropped.
LEMMA Records ==
    ASSUME AdmissionAssumption
    PROVE  /\ Unsent \in RequestType /\ ~Unsent.asked /\ Unsent.pc = "idle"
           /\ Dropped \in RequestType /\ ~Dropped.asked /\ Dropped.pc = "done"
           /\ Dropped.token = None /\ Dropped.at = 0 /\ Dropped.life = 0
           /\ \A u \in Users, t \in Tokens :
                LET q == Sent(u, t) IN
                  /\ q \in RequestType /\ ~q.asked /\ q.pc = "prepare"
                  /\ q.user = u /\ q.token = t /\ q.at = 0 /\ q.life = 0
  <1>1. /\ Unsent \in RequestType /\ ~Unsent.asked /\ Unsent.pc = "idle"
        /\ Unsent.token = None /\ Unsent.at = 0 /\ Unsent.life = 0
    BY DEF AdmissionAssumption, Unsent, RequestType, Times
  <1> QED
    BY <1>1 DEF Dropped, Sent, RequestType

\* A request keeps user and token when it is answered.
LEMMA Answers ==
    ASSUME TypeOK, NEW q \in RequestType, NEW result \in Results \cup {None}
    PROVE  LET a == Answered(q, result) IN
             /\ a \in RequestType
             /\ a.user = q.user /\ a.token = q.token /\ a.result = result
             /\ a.asked /\ a.at = now /\ a.life = restarts
             /\ a.pc = IF result = None THEN "miss" ELSE "done"
  BY DEF Answered, RequestType, TypeOK

\* Pruning only takes entries that have expired.
LEMMA PrunedEntries ==
    ASSUME entries \in [Tokens -> EntryType \cup {None}]
    PROVE  /\ Pruned \in [Tokens -> EntryType \cup {None}]
           /\ \A t \in Tokens : Pruned[t] = entries[t] \/ (Pruned[t] = None /\ Expired(entries[t]))
           /\ \A t \in Tokens : Pruned[t] # None => Pruned[t] = entries[t]
  BY DEF Pruned

\* The window a miss is counted in, new or found.
LEMMA Windows ==
    ASSUME AdmissionAssumption, TypeOK, NEW u \in Users
    PROVE  /\ WindowOf(u) \in WindowType
           /\ WindowOf(u).throttled => misses[u] # None /\ WindowOf(u) = misses[u] /\ now <= misses[u].resetAt
           /\ \/ WindowOf(u).resetAt = now + Window
              \/ misses[u] # None /\ WindowOf(u) = misses[u]
  <1>1. CASE misses[u] = None \/ now > misses[u].resetAt
    BY <1>1 DEF AdmissionAssumption, TypeOK, WindowOf, WindowType, Times
  <1>2. CASE ~(misses[u] = None \/ now > misses[u].resetAt)
    <2>1. misses[u] \in WindowType /\ WindowOf(u) = misses[u]
      BY <1>2 DEF TypeOK, WindowOf
    <2> QED
      BY <1>2, <2>1 DEF AdmissionAssumption, TypeOK, WindowType, Times
  <1> QED
    BY <1>1, <1>2

\* Allow lets at most Limit through, tells of the first that is not, and then nothing.
LEMMA Allowed ==
    ASSUME AdmissionAssumption, NEW w \in WindowType
    PROVE  /\ Allow(w)[1] \in {"miss", "throttled", "silent"}
           /\ Allow(w)[2] \in WindowType
           /\ Allow(w)[2].resetAt = w.resetAt
           /\ Allow(w)[1] = "silent" => w.throttled /\ Allow(w)[2] = w
           /\ Allow(w)[1] = "throttled" => Allow(w)[2].throttled
           /\ Allow(w)[1] = "miss" => Allow(w)[2].throttled = w.throttled
  <1>1. CASE w.count < Limit
    BY <1>1 DEF Allow, WindowType, AdmissionAssumption
  <1>2. CASE ~(w.count < Limit) /\ w.throttled
    BY <1>2 DEF Allow, WindowType
  <1>3. CASE ~(w.count < Limit) /\ ~w.throttled
    BY <1>3 DEF Allow, WindowType
  <1> QED
    BY <1>1, <1>2, <1>3

\* Every step keeps the types.
LEMMA TypeStep == AdmissionAssumption /\ TypeOK /\ Carried /\ [Next]_vars => TypeOK'
  <1>1. SUFFICES ASSUME AdmissionAssumption, TypeOK, Carried, [Next]_vars PROVE TypeOK'
    OBVIOUS
  <1>2. ASSUME NEW t \in Tokens, NEW u \in Users, NEW result \in Results, Preview(t, u, result)
        PROVE TypeOK'
    <2>1. [user |-> u, result |-> result, expires |-> now + TTL] \in EntryType
      BY <1>1 DEF AdmissionAssumption, TypeOK, EntryType, Times
    <2>2. [user |-> u, result |-> result, at |-> now, life |-> restarts] \in IssuedType
      BY <1>1 DEF TypeOK, IssuedType
    <2>3. Pruned \in [Tokens -> EntryType \cup {None}]
      BY <1>1, PrunedEntries DEF TypeOK
    <2> QED
      BY <1>1, <1>2, <2>1, <2>2, <2>3 DEF Preview, TypeOK
  <1>3. ASSUME NEW r \in Requests, NEW u \in Users, NEW token \in Tokens, NEW body \in Bodies,
               Send(r, u, token, body)
        PROVE TypeOK'
    <2>1. Sent(u, token) \in RequestType
      BY <1>1, Records
    <2> QED
      BY <1>1, <1>3, <2>1 DEF Send, TypeOK
  <1>4. ASSUME NEW r \in Requests, Consume(r) PROVE TypeOK'
    <2> DEFINE t == request[r].token
               result == IF Available(t, request[r].user) THEN entries[t].result ELSE None
    <2>1. t \in Tokens
      BY <1>1, <1>4 DEF Consume, Carried, Carries
    <2>2. result \in Results \cup {None}
      BY <1>1, <2>1 DEF TypeOK, Available, EntryType
    <2>3. request' \in [Requests -> RequestType]
      <3>1. Answered(request[r], result) \in RequestType
        BY <1>1, <2>2, Answers DEF TypeOK
      <3> QED
        BY <1>1, <1>4, <3>1 DEF Consume, TypeOK
    <2> QED
      BY <1>1, <1>4, <2>3 DEF Consume, TypeOK
  <1>5. ASSUME NEW r \in Requests, ThrottleMiss(r) PROVE TypeOK'
    <2> DEFINE u == request[r].user
               allowed == Allow(WindowOf(u))
    <2>1. u \in Users
      BY <1>1, <1>5 DEF ThrottleMiss, Carried, Carries
    <2>2. allowed[1] \in {"miss", "throttled", "silent"} /\ allowed[2] \in WindowType
      BY <1>1, <2>1, Windows, Allowed
    <2>3. /\ misses' = [misses EXCEPT ![u] = allowed[2]]
          /\ log' = log \cup {[request |-> r, user |-> u, kind |-> allowed[1], at |-> now, life |-> restarts]}
          /\ request' = [request EXCEPT ![r].pc = IF allowed[1] = "silent" THEN "done" ELSE "report"]
          /\ UNCHANGED <<now, entries, issued, event, restarts>>
      BY <1>5 DEF ThrottleMiss
    <2> HIDE DEF u, allowed
    <2>4. log' \subseteq ReportType
      BY <1>1, <2>1, <2>2, <2>3 DEF TypeOK, ReportType
    <2>5. request' \in [Requests -> RequestType]
      BY <1>1, <2>3 DEF TypeOK, RequestType
    <2> QED
      BY <1>1, <2>1, <2>2, <2>3, <2>4, <2>5 DEF TypeOK
  <1>10. ASSUME NEW r \in Requests, RecordMiss(r) PROVE TypeOK'
    <2>1. [request[r] EXCEPT !.pc = "done"] \in RequestType
      BY <1>1 DEF TypeOK, RequestType
    <2> QED
      BY <1>1, <1>10, <2>1 DEF RecordMiss, TypeOK
  <1>6. CASE Tick
    BY <1>1, <1>6 DEF Tick, TypeOK, Times, AdmissionAssumption
  <1>7. CASE Restart
    <2>1. Dropped \in RequestType
      BY <1>1, Records
    <2>2. \A r \in Requests : [request[r] EXCEPT !.pc = "done"] \in RequestType
      BY <1>1 DEF TypeOK, RequestType
    <2>3. request' \in [Requests -> RequestType]
      BY <1>1, <1>7, <2>1, <2>2 DEF Restart, TypeOK
    <2> QED
      BY <1>1, <1>7, <2>3 DEF Restart, TypeOK, AdmissionAssumption
  <1>8. CASE UNCHANGED vars
    BY <1>1, <1>8 DEF vars, TypeOK
  <1>9. ASSUME NEW r \in Requests, RequestStep(r) PROVE TypeOK'
    BY <1>3, <1>4, <1>5, <1>9, <1>10 DEF RequestStep
  <1> QED
    BY <1>1, <1>2, <1>6, <1>7, <1>8, <1>9 DEF Next

(***************************************************************************)
(* Steps of the cache                                                      *)
(***************************************************************************)

\* A preview takes a token nobody has seen, so nobody has asked for it.
LEMMA PreviewStep ==
    ASSUME AdmissionAssumption, IInv, NEW t \in Tokens, NEW u \in Users, NEW result \in Results,
           Preview(t, u, result)
    PROVE  Carried' /\ Cache' /\ Throttle' /\ SingleUse' /\ MissHasReason' /\ Signalled'
  <1> DEFINE e == [user |-> u, result |-> result, expires |-> now + TTL]
             i == [user |-> u, result |-> result, at |-> now, life |-> restarts]
  <1>1. /\ issued[t] = None
        /\ entries' = [Pruned EXCEPT ![t] = e]
        /\ issued' = [issued EXCEPT ![t] = i]
        /\ UNCHANGED <<now, misses, request, log, event, restarts>>
    BY DEF Preview
  <1>2. TypeOK /\ now \in Nat /\ restarts \in Nat /\ TTL \in Nat /\ None \notin Tokens
    BY DEF IInv, TypeOK, Times, AdmissionAssumption
  <1>3. /\ Pruned \in [Tokens -> EntryType \cup {None}]
        /\ \A s \in Tokens : Pruned[s] = entries[s] \/ (Pruned[s] = None /\ Expired(entries[s]))
        /\ \A s \in Tokens : Pruned[s] # None => Pruned[s] = entries[s]
    BY <1>2, PrunedEntries DEF TypeOK
  <1>4. i # None
    <2>1. i \in IssuedType
      BY <1>2 DEF TypeOK, IssuedType
    <2> QED
      BY <2>1 DEF AdmissionAssumption
  <1>5. /\ \A r \in Requests : Asked(r) => request[r].token \in Tokens \ {t}
        /\ \A r \in Requests : request[r].token # t
    <2>1. \A r \in Requests : Carries(r)
      BY DEF IInv, Carried
    <2> QED
      BY <1>1, <1>2, <2>1 DEF Carries, Asked
  <1>6. issued'[t] = i /\ \A s \in Tokens \ {t} : issued'[s] = issued[s]
    BY <1>1, <1>2 DEF TypeOK
  <1>7. entries'[t] = e /\ \A s \in Tokens \ {t} : entries'[s] = Pruned[s]
    BY <1>1, <1>3
  <1>8. Carried'
    <2>1. SUFFICES ASSUME NEW r \in Requests PROVE Carries(r)'
      BY DEF Carried
    <2>2. Carries(r)
      BY DEF IInv, Carried
    <2>3. request[r].token # None => issued'[request[r].token] # None
      <3>1. request[r].token \in Tokens \cup {None}
        BY <1>2 DEF TypeOK, RequestType
      <3> QED
        BY <1>4, <1>6, <2>2, <3>1 DEF Carries
    <2> QED
      BY <1>1, <2>2, <2>3 DEF Carries
  <1>9. Cache'
    <2>1. SUFFICES ASSUME NEW s \in Tokens PROVE (Kept(s) /\ Gone(s) /\ Past(s))'
      BY DEF Cache
    <2>2. Kept(s) /\ Gone(s) /\ Past(s)
      BY DEF IInv, Cache
    <2>3. CASE s = t
      <3>1. e.user = i.user /\ e.result = i.result /\ e.expires = i.at + TTL /\ i.life = restarts
        OBVIOUS
      <3>2. entries'[s] = e /\ issued'[s] = i
        BY <1>6, <1>7, <2>3
      <3>3. e # None
        <4>1. e \in EntryType
          BY <1>2 DEF TypeOK, EntryType, Times, AdmissionAssumption
        <4> QED
          BY <4>1 DEF AdmissionAssumption
      <3> HIDE DEF e, i
      <3> QED
        BY <1>1, <1>2, <1>4, <1>5, <2>3, <3>1, <3>2, <3>3 DEF Kept, Gone, Past, Asked
    <2>4. CASE s # t
      <3>1. issued'[s] = issued[s] /\ entries'[s] = Pruned[s]
        BY <1>6, <1>7, <2>4
      <3>2. Kept(s)'
        BY <1>1, <1>3, <2>2, <3>1 DEF Kept, Asked
      <3>3. Gone(s)'
        BY <1>1, <1>3, <2>2, <3>1 DEF Gone, Kept, Asked, Expired
      <3> QED
        BY <1>1, <2>2, <3>1, <3>2, <3>3 DEF Past
    <2> QED
      BY <2>3, <2>4
  <1>10. Throttle' /\ Signalled'
    BY <1>1 DEF IInv, Throttle, Told, Signalled
  <1>11. SingleUse'
    BY <1>1, <1>5, <1>6 DEF IInv, SingleUse, Hit, Asked
  <1>12. MissHasReason'
    BY <1>1, <1>5, <1>6 DEF IInv, MissHasReason, Hit, Asked
  <1> QED
    BY <1>8, <1>9, <1>10, <1>11, <1>12

\* Sending only puts a token on its way.
LEMMA SendStep ==
    ASSUME AdmissionAssumption, IInv, NEW r \in Requests, NEW u \in Users, NEW token \in Tokens,
           NEW body \in Bodies, Send(r, u, token, body)
    PROVE  Carried' /\ Cache' /\ Throttle' /\ SingleUse' /\ MissHasReason' /\ Signalled'
  <1>1. /\ request[r].pc = "idle"
        /\ issued[token] # None
        /\ request' = [request EXCEPT ![r] = Sent(u, token)]
        /\ UNCHANGED <<now, entries, issued, misses, log, event, restarts>>
    BY DEF Send
  <1>2. TypeOK /\ now \in Nat /\ restarts \in Nat
    BY DEF IInv, TypeOK, Times, AdmissionAssumption
  <1>3. LET q == request'[r] IN
          /\ ~q.asked /\ q.pc = "prepare" /\ q.user = u /\ q.token = token /\ q.at = 0 /\ q.life = 0
    BY <1>1, <1>2, Records DEF TypeOK
  <1>4. \A s \in Requests \ {r} : request'[s] = request[s]
    BY <1>1, <1>2 DEF TypeOK
  <1>5. ~request[r].asked
    BY <1>1 DEF IInv, Carried, Carries
  <1>6. \A s \in Requests : (Asked(s)' <=> Asked(s)) /\ (Asked(s) => request'[s] = request[s] /\ s # r)
    BY <1>3, <1>4, <1>5 DEF Asked
  <1>7. Carried'
    <2>1. SUFFICES ASSUME NEW s \in Requests PROVE Carries(s)'
      BY DEF Carried
    <2>2. CASE s = r
      BY <1>1, <1>2, <1>3, <2>2 DEF Carries
    <2>3. CASE s # r
      BY <1>1, <1>4, <2>3 DEF IInv, Carried, Carries
    <2> QED
      BY <2>2, <2>3
  <1>8. Cache'
    <2>1. SUFFICES ASSUME NEW t \in Tokens PROVE (Kept(t) /\ Gone(t) /\ Past(t))'
      BY DEF Cache
    <2>2. Kept(t) /\ Gone(t) /\ Past(t)
      BY DEF IInv, Cache
    <2>3. Kept(t)'
      BY <1>1, <1>6, <2>2 DEF Kept
    <2>4. Gone(t)'
      BY <1>1, <1>6, <2>2 DEF Gone
    <2> QED
      BY <1>1, <2>2, <2>3, <2>4 DEF Past
  <1>9. Throttle' /\ Signalled'
    BY <1>1 DEF IInv, Throttle, Told, Signalled
  <1>10. SingleUse'
    BY <1>1, <1>6 DEF IInv, SingleUse, Hit, Asked
  <1>11. MissHasReason'
    BY <1>1, <1>6 DEF IInv, MissHasReason, Hit, Asked
  <1> QED
    BY <1>7, <1>8, <1>9, <1>10, <1>11

\* Asking: what is there for its owner in time is given out once, all else has a reason.
LEMMA ConsumeStep ==
    ASSUME AdmissionAssumption, IInv, NEW r \in Requests, Consume(r)
    PROVE  Carried' /\ Cache' /\ Throttle' /\ SingleUse' /\ MissHasReason' /\ Signalled'
  <1> DEFINE t == request[r].token
             u == request[r].user
             result == IF Available(t, u) THEN entries[t].result ELSE None
             q == Answered(request[r], result)
  <1>1. /\ request[r].pc = "prepare"
        /\ request' = [request EXCEPT ![r] = q]
        /\ entries' = [entries EXCEPT ![t] = None]
        /\ UNCHANGED <<now, issued, misses, log, restarts>>
    BY DEF Consume
  <1>2. TypeOK /\ now \in Nat /\ restarts \in Nat /\ TTL \in Nat
    BY DEF IInv, TypeOK, Times, AdmissionAssumption
  <1>3. /\ t \in Tokens /\ u \in Users /\ issued[t] # None /\ None \notin Tokens
        /\ ~request[r].asked
    BY <1>1 DEF IInv, Carried, Carries, AdmissionAssumption
  <1>4. result \in Results \cup {None}
    BY <1>2, <1>3 DEF TypeOK, Available, EntryType
  <1>5. /\ q.user = u /\ q.token = t /\ q.result = result
        /\ q.asked /\ q.at = now /\ q.life = restarts
        /\ q.pc \in {"miss", "done"}
    BY <1>2, <1>4, Answers DEF TypeOK
  <1> HIDE DEF q
  <1>6. request'[r] = q /\ \A s \in Requests \ {r} : request'[s] = request[s]
    BY <1>1, <1>2 DEF TypeOK
  <1>7. entries'[t] = None /\ \A s \in Tokens \ {t} : entries'[s] = entries[s]
    BY <1>1, <1>2, <1>3 DEF TypeOK
  <1>8. Kept(t) /\ Gone(t) /\ Past(t)
    BY <1>3 DEF IInv, Cache
  <1>9. issued[t].at \in Nat /\ issued[t].life \in Nat
    BY <1>2, <1>3 DEF TypeOK, IssuedType, Times, AdmissionAssumption
  <1>10. Carried'
    <2>1. SUFFICES ASSUME NEW s \in Requests PROVE Carries(s)'
      BY DEF Carried
    <2>2. CASE s = r
      BY <1>1, <1>2, <1>3, <1>5, <1>6, <2>2 DEF Carries
    <2>3. CASE s # r
      BY <1>1, <1>6, <2>3 DEF IInv, Carried, Carries
    <2> QED
      BY <2>2, <2>3
  <1>11. Cache'
    <2>1. SUFFICES ASSUME NEW s \in Tokens PROVE (Kept(s) /\ Gone(s) /\ Past(s))'
      BY DEF Cache
    <2>2. Kept(s) /\ Gone(s) /\ Past(s)
      BY DEF IInv, Cache
    <2>3. CASE s = t
      <3>1. Asked(r)' /\ request'[r].token = s
        BY <1>5, <1>6, <2>3 DEF Asked
      <3>2. entries'[s] = None
        BY <1>7, <2>3
      <3> QED
        BY <1>1, <2>2, <3>1, <3>2 DEF Kept, Gone, Past
    <2>4. CASE s # t
      <3>1. \A x \in Requests : Asked(x)' /\ request'[x].token = s <=> Asked(x) /\ request[x].token = s
        BY <1>3, <1>5, <1>6, <2>4 DEF Asked
      <3>2. entries'[s] = entries[s]
        BY <1>7, <2>4
      <3> QED
        BY <1>1, <2>2, <3>1, <3>2 DEF Kept, Gone, Past
    <2> QED
      BY <2>3, <2>4
  <1>12. Throttle' /\ Signalled'
    BY <1>1 DEF IInv, Throttle, Told, Signalled
  <1>13. result # None => /\ issued[t].user = u /\ issued[t].result = result
                          /\ now <= issued[t].at + TTL /\ restarts = issued[t].life
                          /\ \A s \in Requests : Asked(s) => request[s].token # t
    BY <1>2, <1>8, <1>9 DEF Available, Expired, Kept
  <1>14. result = None => \/ issued[t].user # u
                          \/ \E s \in Requests \ {r} : Asked(s) /\ request[s].token = t
                          \/ now > issued[t].at + TTL
                          \/ restarts > issued[t].life
    <2>1. CASE entries[t] = None
      BY <1>3, <1>8, <2>1 DEF Gone, Asked
    <2>2. CASE entries[t] # None
      <3>1. Available(t, u) => entries[t].result # None
        BY <1>2, <1>3, <2>2 DEF TypeOK, EntryType, AdmissionAssumption
      <3> QED
        BY <1>8, <2>2, <3>1 DEF Available, Expired, Kept
    <2> QED
      BY <2>1, <2>2
  <1> HIDE DEF result, t, u
  <1>15. SingleUse'
    <2>1. SUFFICES ASSUME NEW s \in Requests, Hit(s)'
                   PROVE  LET i == issued[request'[s].token] IN
                            /\ i # None
                            /\ i.user = request'[s].user
                            /\ i.result = request'[s].result
                            /\ request'[s].at <= i.at + TTL
                            /\ request'[s].life = i.life
                            /\ \A x \in Requests : Hit(x)' /\ request'[x].token = request'[s].token => x = s
      BY <1>1 DEF SingleUse
    <2>2. CASE s = r
      <3>1. result # None
        BY <1>5, <1>6, <2>1, <2>2 DEF Hit
      <3>2. \A x \in Requests : Hit(x)' /\ request'[x].token = t => x = r
        BY <1>6, <1>13, <3>1 DEF Hit, Asked
      <3> QED
        BY <1>3, <1>5, <1>6, <1>13, <2>2, <3>1, <3>2
    <2>3. CASE s # r
      <3>1. Hit(s) /\ request'[s] = request[s]
        BY <1>6, <2>1, <2>3 DEF Hit
      <3>2. \A x \in Requests : Hit(x)' /\ request'[x].token = request[s].token => x = s
        <4>1. SUFFICES ASSUME NEW x \in Requests, Hit(x)', request'[x].token = request[s].token
                       PROVE  x = s
          OBVIOUS
        <4>2. CASE x = r
          <5>1. result # None /\ request[s].token = t
            BY <1>5, <1>6, <4>1, <4>2 DEF Hit
          <5> QED
            BY <1>13, <3>1, <5>1 DEF Hit, Asked
        <4>3. CASE x # r
          BY <1>6, <3>1, <4>1, <4>3 DEF IInv, SingleUse, Hit
        <4> QED
          BY <4>2, <4>3
      <3> QED
        BY <3>1, <3>2 DEF IInv, SingleUse
    <2> QED
      BY <2>2, <2>3
  <1>16. MissHasReason'
    <2>1. SUFFICES ASSUME NEW s \in Requests, Asked(s)', ~Hit(s)'
                   PROVE  LET i == issued[request'[s].token] IN
                            \/ i.user # request'[s].user
                            \/ \E x \in Requests \ {s} : Asked(x)' /\ request'[x].token = request'[s].token
                            \/ request'[s].at > i.at + TTL
                            \/ request'[s].life > i.life
      BY <1>1 DEF MissHasReason
    <2>2. \A x \in Requests : Asked(x) => Asked(x)' /\ request'[x] = request[x]
      BY <1>3, <1>6 DEF Asked
    <2>3. CASE s = r
      <3>1. result = None
        BY <1>5, <1>6, <2>1, <2>3 DEF Hit
      <3> QED
        BY <1>5, <1>6, <1>14, <2>2, <2>3, <3>1
    <2>4. CASE s # r
      <3>1. Asked(s) /\ ~Hit(s) /\ request'[s] = request[s]
        BY <1>6, <2>1, <2>4 DEF Hit, Asked
      <3> QED
        BY <2>2, <3>1 DEF IInv, MissHasReason
    <2> QED
      BY <2>3, <2>4
  <1> QED
    BY <1>10, <1>11, <1>12, <1>15, <1>16

(***************************************************************************)
(* Steps of the throttle, the clock and the process                        *)
(***************************************************************************)

\* What a step that leaves questions, answers and previews alone leaves true.
LEMMA SameAnswers ==
    ASSUME IInv, UNCHANGED issued,
           \A s \in Requests : /\ Asked(s)' <=> Asked(s)
                               /\ Asked(s) => /\ request'[s].user = request[s].user
                                              /\ request'[s].token = request[s].token
                                              /\ request'[s].result = request[s].result
                                              /\ request'[s].at = request[s].at
                                              /\ request'[s].life = request[s].life
    PROVE  SingleUse' /\ MissHasReason'
  <1>1. \A s \in Requests : Hit(s)' <=> Hit(s)
    BY DEF Hit, Asked
  <1>2. SingleUse'
    BY <1>1 DEF IInv, SingleUse, Hit, Asked
  <1>3. MissHasReason'
    BY <1>1 DEF IInv, MissHasReason, Hit, Asked
  <1> QED
    BY <1>2, <1>3

\* A miss opens or finds its window; what it does not report, the window's throttled
\* event has.
LEMMA ThrottleMissStep ==
    ASSUME AdmissionAssumption, IInv, NEW r \in Requests, ThrottleMiss(r)
    PROVE  Carried' /\ Cache' /\ Throttle' /\ SingleUse' /\ MissHasReason' /\ Signalled'
  <1> DEFINE u == request[r].user
             w == WindowOf(u)
             kind == Allow(w)[1]
             after == Allow(w)[2]
             e == [request |-> r, user |-> u, kind |-> kind, at |-> now, life |-> restarts]
  <1>1. /\ request[r].pc = "miss"
        /\ misses' = [misses EXCEPT ![u] = after]
        /\ log' = log \cup {e}
        /\ request' = [request EXCEPT ![r].pc = IF kind = "silent" THEN "done" ELSE "report"]
        /\ UNCHANGED <<now, entries, issued, event, restarts>>
    BY DEF ThrottleMiss
  <1>2. TypeOK /\ now \in Nat /\ Window \in Nat
    BY DEF IInv, TypeOK, Times, AdmissionAssumption
  <1>3. u \in Users /\ request[r].token \in Tokens
    BY <1>1 DEF IInv, Carried, Carries
  <1>4. /\ w \in WindowType
        /\ w.throttled => misses[u] # None /\ w = misses[u] /\ now <= misses[u].resetAt
        /\ w.resetAt = now + Window \/ (misses[u] # None /\ w = misses[u])
    BY <1>2, <1>3, Windows
  <1>5. /\ kind \in {"miss", "throttled", "silent"}
        /\ after.resetAt = w.resetAt
        /\ kind = "silent" => w.throttled
        /\ kind \in {"miss", "silent"} => after.throttled = w.throttled
    BY <1>4, Allowed
  <1>6. e.request = r /\ e.user = u /\ e.kind = kind /\ e.at = now /\ e.life = restarts
    OBVIOUS
  <1> HIDE DEF w, kind, after, e
  <1>7. \A s \in Requests : /\ Asked(s)' <=> Asked(s)
                            /\ request'[s].user = request[s].user
                            /\ request'[s].token = request[s].token
                            /\ request'[s].result = request[s].result
                            /\ request'[s].at = request[s].at
                            /\ request'[s].life = request[s].life
                            /\ request'[s].asked = request[s].asked
                            /\ request'[s].pc = request[s].pc \/ (s = r /\ request'[s].pc \in {"report", "done"})
    <2>1. SUFFICES ASSUME NEW s \in Requests
                   PROVE  /\ request'[s].user = request[s].user
                          /\ request'[s].token = request[s].token
                          /\ request'[s].result = request[s].result
                          /\ request'[s].at = request[s].at
                          /\ request'[s].life = request[s].life
                          /\ request'[s].asked = request[s].asked
                          /\ request'[s].pc = request[s].pc \/ (s = r /\ request'[s].pc \in {"report", "done"})
      BY DEF Asked
    <2>2. request[s] \in RequestType
      BY <1>2 DEF TypeOK
    <2>3. request'[s] = IF s = r THEN [request[r] EXCEPT !.pc = IF kind = "silent" THEN "done" ELSE "report"]
                           ELSE request[s]
      BY <1>1, <1>2 DEF TypeOK
    <2> QED
      BY <2>2, <2>3 DEF RequestType
  <1>8. Carried'
    <2>1. SUFFICES ASSUME NEW s \in Requests PROVE Carries(s)'
      BY DEF Carried
    <2>2. Carries(s)
      BY DEF IInv, Carried
    <2> QED
      BY <1>1, <1>3, <1>7, <2>2 DEF Carries
  <1>9. Cache'
    <2>1. SUFFICES ASSUME NEW t \in Tokens PROVE (Kept(t) /\ Gone(t) /\ Past(t))'
      BY DEF Cache
    <2>2. Kept(t) /\ Gone(t) /\ Past(t)
      BY DEF IInv, Cache
    <2> QED
      BY <1>1, <1>7, <2>2 DEF Kept, Gone, Past
  <1>10. Told(u)
    BY <1>3 DEF IInv, Throttle
  <1> HIDE DEF u
  <1>11. misses'[u] = after /\ \A v \in Users \ {u} : misses'[v] = misses[v]
    BY <1>1, <1>2, <1>3 DEF TypeOK
  <1>12. w.throttled => \E f \in log : /\ f.kind = "throttled" /\ f.user = u /\ f.life = restarts
                                       /\ f.at <= now /\ w.resetAt <= f.at + Window
    BY <1>4, <1>10 DEF Told
  <1>13. Throttle'
    <2>1. SUFFICES ASSUME NEW v \in Users PROVE Told(v)'
      BY DEF Throttle
    <2>2. CASE v = u
      <3>1. after.resetAt <= now + Window
        <4>1. now + Window <= now + Window
          BY <1>2
        <4> QED
          BY <1>4, <1>5, <1>10, <4>1 DEF Told
      <3>2. after.throttled => \E f \in log' : /\ f.kind = "throttled" /\ f.user = u /\ f.life = restarts
                                               /\ f.at <= now /\ after.resetAt <= f.at + Window
        <4>1. CASE kind = "throttled"
          BY <1>1, <1>2, <1>6, <3>1, <4>1
        <4>2. CASE kind # "throttled"
          BY <1>1, <1>5, <1>12, <4>2
        <4> QED
          BY <4>1, <4>2
      <3> QED
        BY <1>1, <1>11, <2>2, <3>1, <3>2 DEF Told
    <2>3. CASE v # u
      <3>1. Told(v) /\ misses'[v] = misses[v]
        BY <1>11, <2>3 DEF IInv, Throttle
      <3> QED
        BY <1>1, <3>1 DEF Told
    <2> QED
      BY <2>2, <2>3
  <1>14. Signalled'
    <2>1. SUFFICES ASSUME NEW g \in log', g.kind = "silent"
                   PROVE  \E f \in log' : /\ f.kind = "throttled"
                                          /\ f.user = g.user /\ f.life = g.life
                                          /\ f.at <= g.at /\ g.at <= f.at + Window
      BY DEF Signalled
    <2>2. CASE g \in log
      BY <1>1, <2>1, <2>2 DEF IInv, Signalled
    <2>3. CASE g = e
      <3>1. w.throttled
        BY <1>5, <1>6, <2>1, <2>3
      <3>2. PICK f \in log : /\ f.kind = "throttled" /\ f.user = u /\ f.life = restarts
                             /\ f.at <= now /\ w.resetAt <= f.at + Window
        BY <1>12, <3>1
      <3>3. now <= w.resetAt
        BY <1>4, <3>1
      <3>4. f.at \in Nat /\ w.resetAt \in Nat
        BY <1>2, <1>4, <3>2 DEF TypeOK, ReportType, WindowType, Times, AdmissionAssumption
      <3>5. now <= f.at + Window
        BY <1>2, <3>2, <3>3, <3>4
      <3> QED
        BY <1>1, <1>6, <2>3, <3>2, <3>5
    <2> QED
      BY <1>1, <2>1, <2>2, <2>3
  <1> QED
    BY <1>1, <1>7, <1>8, <1>9, <1>13, <1>14, SameAnswers

\* Writing an event changes nothing but what has become of it.
LEMMA RecordMissStep ==
    ASSUME AdmissionAssumption, IInv, NEW r \in Requests, RecordMiss(r)
    PROVE  Carried' /\ Cache' /\ Throttle' /\ SingleUse' /\ MissHasReason' /\ Signalled'
  <1>1. /\ request[r].pc = "report"
        /\ request' = [request EXCEPT ![r].pc = "done"]
        /\ UNCHANGED <<now, entries, issued, misses, log, restarts>>
    BY DEF RecordMiss
  <1>2. ASSUME NEW s \in Requests
        PROVE  /\ Asked(s)' <=> Asked(s)
               /\ request'[s].user = request[s].user
               /\ request'[s].token = request[s].token
               /\ request'[s].result = request[s].result
               /\ request'[s].at = request[s].at
               /\ request'[s].life = request[s].life
               /\ request'[s].pc = request[s].pc \/ request'[s].pc = "done"
    <2>1. request[s] \in RequestType
      BY DEF IInv, TypeOK
    <2>2. request'[s] = IF s = r THEN [request[r] EXCEPT !.pc = "done"] ELSE request[s]
      BY <1>1 DEF IInv, TypeOK
    <2> QED
      BY <2>1, <2>2 DEF RequestType, Asked
  <1>3. Carried'
    <2>1. SUFFICES ASSUME NEW s \in Requests PROVE Carries(s)'
      BY DEF Carried
    <2>2. Carries(s)
      BY DEF IInv, Carried
    <2> QED
      BY <1>1, <1>2, <2>2 DEF Carries, Asked
  <1>4. Cache'
    BY <1>1, <1>2 DEF IInv, Cache, Kept, Gone, Past
  <1>5. Throttle' /\ Signalled'
    BY <1>1 DEF IInv, Throttle, Told, Signalled
  <1> QED
    BY <1>1, <1>2, <1>3, <1>4, <1>5, SameAnswers

\* Time passes: windows and lifetimes only get shorter.
LEMMA TickStep ==
    ASSUME AdmissionAssumption, IInv, Tick
    PROVE  Carried' /\ Cache' /\ Throttle' /\ SingleUse' /\ MissHasReason' /\ Signalled'
  <1>1. now' = now + 1 /\ UNCHANGED <<entries, issued, misses, request, log, restarts>>
    BY DEF Tick
  <1>2. TypeOK /\ now \in Nat /\ TTL \in Nat /\ Window \in Nat /\ MaxTime \in Nat
    BY DEF IInv, TypeOK, Times, AdmissionAssumption
  <1>3. Carried'
    <2>1. \A r \in Requests : request[r].at \in Nat
      BY <1>2 DEF TypeOK, RequestType, Times
    <2> QED
      BY <1>1, <1>2, <2>1 DEF IInv, Carried, Carries
  <1>4. Cache'
    <2>1. SUFFICES ASSUME NEW t \in Tokens PROVE (Kept(t) /\ Gone(t) /\ Past(t))'
      BY DEF Cache
    <2>2. Kept(t) /\ Gone(t) /\ Past(t)
      BY DEF IInv, Cache
    <2>3. issued[t] # None => issued[t].at \in Nat
      BY <1>2 DEF TypeOK, IssuedType, Times
    <2>4. Gone(t)'
      BY <1>1, <1>2, <2>2, <2>3 DEF Gone, Asked
    <2> QED
      BY <1>1, <2>2, <2>4 DEF Kept, Past, Asked
  <1>5. Throttle'
    <2>1. SUFFICES ASSUME NEW u \in Users PROVE Told(u)'
      BY DEF Throttle
    <2>2. Told(u) /\ (misses[u] # None => misses[u].resetAt \in Nat)
      BY <1>2 DEF IInv, Throttle, TypeOK, WindowType
    <2>3. \A f \in log : f.at \in Nat
      BY <1>2 DEF TypeOK, ReportType, Times
    <2> QED
      BY <1>1, <1>2, <2>2, <2>3 DEF Told
  <1>6. Signalled'
    BY <1>1 DEF IInv, Signalled
  <1> QED
    BY <1>1, <1>3, <1>4, <1>5, <1>6, SameAnswers DEF Asked

\* A restart forgets all previews; that is a reason.
LEMMA RestartStep ==
    ASSUME AdmissionAssumption, IInv, Restart
    PROVE  Carried' /\ Cache' /\ Throttle' /\ SingleUse' /\ MissHasReason' /\ Signalled'
  <1>1. /\ restarts' = restarts + 1
        /\ entries' = [t \in Tokens |-> None]
        /\ misses' = [u \in Users |-> None]
        /\ UNCHANGED <<now, issued, log>>
    BY DEF Restart
  <1>2. TypeOK /\ now \in Nat /\ restarts \in Nat
    BY DEF IInv, TypeOK, Times, AdmissionAssumption
  <1>3. ASSUME NEW s \in Requests
        PROVE  /\ Asked(s)' <=> Asked(s)
               /\ Asked(s) => /\ request'[s].user = request[s].user
                              /\ request'[s].token = request[s].token
                              /\ request'[s].result = request[s].result
                              /\ request'[s].at = request[s].at
                              /\ request'[s].life = request[s].life
               /\ Carries(s)'
    <2>1. Carries(s) /\ request[s] \in RequestType
      BY <1>2 DEF IInv, Carried, TypeOK
    <2>2. request[s].life \in Nat
      BY <2>1 DEF RequestType, AdmissionAssumption
    <2>3. CASE request[s].pc = "prepare"
      <3>1. request'[s] = Dropped
        BY <2>3 DEF Restart
      <3> QED
        BY <1>1, <1>2, <2>1, <2>3, <3>1, Records DEF Carries, Asked, AdmissionAssumption
    <2>4. CASE request[s].pc \in {"miss", "report"}
      <3>1. request'[s] = [request[s] EXCEPT !.pc = "done"]
        BY <2>4 DEF Restart
      <3> QED
        BY <1>1, <1>2, <2>1, <2>2, <2>4, <3>1 DEF Carries, Asked, RequestType
    <2>5. CASE request[s].pc \notin {"prepare", "miss", "report"}
      <3>1. request'[s] = request[s]
        BY <2>5 DEF Restart
      <3> QED
        BY <1>1, <1>2, <2>1, <2>2, <3>1 DEF Carries, Asked
    <2> QED
      BY <2>3, <2>4, <2>5
  <1>4. Carried'
    BY <1>3 DEF Carried
  <1>5. Cache'
    <2>1. SUFFICES ASSUME NEW t \in Tokens PROVE (Kept(t) /\ Gone(t) /\ Past(t))'
      BY DEF Cache
    <2>2. Past(t) /\ (issued[t] # None => issued[t].life \in Nat)
      BY <1>2 DEF IInv, Cache, TypeOK, IssuedType, AdmissionAssumption
    <2> QED
      BY <1>1, <1>2, <2>2 DEF Kept, Gone, Past
  <1>6. Throttle' /\ Signalled'
    BY <1>1 DEF IInv, Throttle, Told, Signalled
  <1> QED
    BY <1>1, <1>3, <1>4, <1>5, <1>6, SameAnswers

(***************************************************************************)
(* Theorems                                                                *)
(***************************************************************************)

\* Every step of previews, requests, clock and process keeps the invariant.
LEMMA NextIInv == AdmissionAssumption /\ IInv /\ [Next]_vars => IInv'
  <1>1. SUFFICES ASSUME AdmissionAssumption, IInv, [Next]_vars PROVE IInv'
    OBVIOUS
  <1>2. TypeOK'
    BY <1>1, TypeStep DEF IInv
  <1> DEFINE Rest == Carried /\ Cache /\ Throttle /\ SingleUse /\ MissHasReason /\ Signalled
  <1>3. ASSUME NEW t \in Tokens, NEW u \in Users, NEW result \in Results, Preview(t, u, result)
        PROVE  Rest'
    BY <1>1, <1>3, PreviewStep
  <1>4. ASSUME NEW r \in Requests, RequestStep(r) PROVE Rest'
    <2>1. ASSUME NEW u \in Users, NEW token \in Tokens, NEW body \in Bodies, Send(r, u, token, body)
          PROVE  Rest'
      BY <1>1, <2>1, SendStep
    <2>2. CASE Consume(r)
      BY <1>1, <2>2, ConsumeStep
    <2>3. CASE ThrottleMiss(r)
      BY <1>1, <2>3, ThrottleMissStep
    <2>4. CASE RecordMiss(r)
      BY <1>1, <2>4, RecordMissStep
    <2> HIDE DEF Rest
    <2> QED
      BY <1>4, <2>1, <2>2, <2>3, <2>4 DEF RequestStep
  <1>5. ASSUME Tick PROVE Rest'
    BY <1>1, <1>5, TickStep
  <1>6. ASSUME Restart PROVE Rest'
    BY <1>1, <1>6, RestartStep
  <1>7. ASSUME UNCHANGED vars PROVE Rest'
    BY <1>1, <1>7 DEF vars, IInv, Carried, Carries, Cache, Kept, Gone, Past, Throttle, Told,
                      SingleUse, MissHasReason, Signalled, Hit, Asked
  <1>8. Rest'
    <2> HIDE DEF Rest
    <2> QED
      BY <1>1, <1>3, <1>4, <1>5, <1>6, <1>7 DEF Next
  <1> QED
    BY <1>2, <1>8 DEF IInv

\* The invariant that ties the cache to what was shown and asked for, and every
\* throttled window to its report (chat/preview.go, chat/throttle.go).
THEOREM Invariance == Spec => []IInv
  BY AdmissionAssumption, InitIInv, NextIInv, PTL DEF Spec

\* Cache, throttle, requests and log keep their types.
THEOREM TypeCorrect == Spec => []TypeOK
  BY Invariance, PTL DEF IInv

\* What was shown under a preview token is sent at most once, to its owner,
\* unchanged, in time, however requests, previews and restarts interleave.
THEOREM SentOnce == Spec => []SingleUse
  BY Invariance, PTL DEF IInv

\* A confirmed text is sanitized afresh only when the token was another user's, was
\* asked for before, had expired, or was lost with the process.
THEOREM MissIsJustified == Spec => []MissHasReason
  BY Invariance, PTL DEF IInv

\* A report that is let through stays "being written" until RecordMiss or a restart.
LEMMA NextAnnounced ==
    AdmissionAssumption /\ IInv /\ Announced /\ [Next]_vars => Announced'
  <1>1. SUFFICES ASSUME AdmissionAssumption, IInv, Announced, [Next]_vars,
                        NEW f \in log', f.kind # "silent"
                 PROVE  (Announcing(f.request) \/ event[f.request] = "lost")'
    BY DEF Announced
  <1>2. TypeOK
    BY <1>1 DEF IInv
  <1>3. ASSUME f \in log
        PROVE  /\ f.request \in Requests
               /\ Announcing(f.request) \/ event[f.request] = "lost"
    BY <1>1, <1>2, <1>3 DEF Announced, TypeOK, ReportType
  <1>4. ASSUME UNCHANGED <<request, log, event>>
        PROVE  (Announcing(f.request) \/ event[f.request] = "lost")'
    BY <1>1, <1>3, <1>4 DEF Announcing
  <1>5. ASSUME NEW r \in Requests, RequestStep(r)
        PROVE  (Announcing(f.request) \/ event[f.request] = "lost")'
    <2>1. ASSUME UNCHANGED <<log, event>>, request[r].pc # "report",
                 \A s \in Requests \ {r} : request'[s] = request[s]
          PROVE  (Announcing(f.request) \/ event[f.request] = "lost")'
      BY <1>3, <2>1 DEF Announcing
    <2>2. ASSUME NEW u \in Users, NEW token \in Tokens, NEW body \in Bodies, Send(r, u, token, body)
          PROVE  (Announcing(f.request) \/ event[f.request] = "lost")'
      BY <1>2, <2>1, <2>2 DEF Send, TypeOK
    <2>3. CASE Consume(r)
      BY <1>2, <2>1, <2>3 DEF Consume, TypeOK
    <2>4. CASE ThrottleMiss(r)
      <3>1. PICK k : k = Allow(WindowOf(request[r].user))[1]
        OBVIOUS
      <3>2. PICK e : /\ e = [request |-> r, user |-> request[r].user, kind |-> k,
                             at |-> now, life |-> restarts]
        OBVIOUS
      <3>3. /\ request[r].pc = "miss" /\ log' = log \cup {e} /\ event' = event
            /\ request' = [request EXCEPT ![r].pc = IF k = "silent" THEN "done" ELSE "report"]
        BY <2>4, <3>1, <3>2 DEF ThrottleMiss
      <3>4. e.request = r /\ e.kind = k
        BY <3>2
      <3>5. CASE f = e
        <4>1. request'[r] = [request[r] EXCEPT !.pc = "report"]
          BY <1>1, <1>2, <3>3, <3>4, <3>5 DEF TypeOK
        <4>2. request'[r].pc = "report"
          BY <1>2, <4>1 DEF TypeOK, RequestType
        <4> QED
          BY <3>4, <3>5, <4>2 DEF Announcing
      <3>6. CASE f \in log
        <4>1. \A s \in Requests \ {r} : request'[s] = request[s]
          BY <1>2, <3>3 DEF TypeOK
        <4> QED
          BY <1>3, <3>3, <3>6, <4>1 DEF Announcing
      <3> QED
        BY <1>1, <3>3, <3>5, <3>6
    <2>5. CASE RecordMiss(r)
      <3>1. f \in log /\ \A s \in Requests \ {r} : request'[s] = request[s] /\ event'[s] = event[s]
        BY <1>1, <1>2, <2>5 DEF RecordMiss, TypeOK
      <3>2. event'[r] \in {"recorded", "lost"}
        BY <1>2, <2>5 DEF RecordMiss, TypeOK
      <3> QED
        BY <1>3, <3>1, <3>2 DEF Announcing
    <2> QED
      BY <1>5, <2>2, <2>3, <2>4, <2>5 DEF RequestStep
  <1>6. ASSUME Restart
        PROVE  (Announcing(f.request) \/ event[f.request] = "lost")'
    <2>1. f \in log /\ event' = [r \in Requests |-> IF request[r].pc = "report" THEN "lost" ELSE event[r]]
      BY <1>1, <1>6 DEF Restart
    <2> QED
      BY <1>3, <2>1 DEF Announcing
  <1>7. CASE Tick \/ UNCHANGED vars
    BY <1>4, <1>7 DEF Tick, vars
  <1>8. ASSUME NEW t \in Tokens, NEW u \in Users, NEW result \in Results, Preview(t, u, result)
        PROVE  (Announcing(f.request) \/ event[f.request] = "lost")'
    BY <1>4, <1>8 DEF Preview
  <1> QED
    BY <1>1, <1>5, <1>6, <1>7, <1>8 DEF Next

\* A silent miss has a throttled report, at most a window older, whose event is in the
\* audit, being written, or lost by a failing insert or a restart (chat/throttle.go,
\* recordAuditEvent).
THEOREM SilenceIsAnnounced == Spec => []StormIsVisible
  <1>1. Init => Announced
    BY DEF Init, Announced
  <1>2. IInv /\ Announced => StormIsVisible
    <2>1. SUFFICES ASSUME IInv, Announced, NEW e \in log, e.kind = "silent"
                   PROVE  \E f \in log : /\ f.kind = "throttled"
                                         /\ f.user = e.user /\ f.life = e.life
                                         /\ f.at <= e.at /\ e.at <= f.at + Window
                                         /\ Announcing(f.request) \/ event[f.request] = "lost"
      BY DEF StormIsVisible
    <2>2. PICK f \in log : /\ f.kind = "throttled"
                           /\ f.user = e.user /\ f.life = e.life
                           /\ f.at <= e.at /\ e.at <= f.at + Window
      BY <2>1 DEF IInv, Signalled
    <2> QED
      BY <2>1, <2>2 DEF Announced
  <1> QED
    BY AdmissionAssumption, Invariance, NextAnnounced, <1>1, <1>2, PTL DEF Spec

(***************************************************************************)
(* How many reports a user can cause                                       *)
(***************************************************************************)

\* What the throttle lets through, and the share of it a window has used.
Kinds == {"miss", "throttled"}
Cap(k) == IF k = "miss" THEN Limit ELSE 1
Used(w, k) == IF k = "miss" THEN w.count ELSE IF w.throttled THEN 1 ELSE 0

Reports(u, life, k, a, b) ==
    {e \in log : e.user = u /\ e.life = life /\ e.kind = k /\ a <= e.at /\ e.at <= b}

\* The window w, opened at a time from which w has counted every report; in the Window
\* before it, at most one earlier window has reported.
Accounts(u, w) ==
    LET s == w.resetAt - Window IN
      /\ 0 <= s /\ s <= now
      /\ \A e \in log : e.user = u /\ e.life = restarts => e.at <= w.resetAt
      /\ \A k \in Kinds :
           /\ Cardinality(Reports(u, restarts, k, s, now)) <= Used(w, k)
           /\ Cardinality(Reports(u, restarts, k, s - Window, s - 1)) <= Cap(k)

Accounted ==
    \A u \in Users :
      IF misses[u] = None
      THEN \A e \in log : e.user = u => e.life # restarts
      ELSE Accounts(u, misses[u])

Logged == IsFiniteSet(log) /\ \A e \in log : e.at <= now /\ e.life <= restarts

Bounded ==
    \A u \in Users, life \in 0..MaxRestarts, from \in Times, k \in Kinds :
      Cardinality(Reports(u, life, k, from, from + Window)) <= 2 * Cap(k)

RInv == Logged /\ Accounted /\ Bounded

\* Of a finite log every selection can be counted, and a smaller one has no more.
LEMMA Counting ==
    ASSUME IsFiniteSet(log), NEW S, NEW T, S \subseteq log, T \subseteq log
    PROVE  /\ Cardinality(S) \in Nat /\ IsFiniteSet(S)
           /\ S = {} => Cardinality(S) = 0
           /\ S \subseteq T => Cardinality(S) <= Cardinality(T)
           /\ Cardinality(S \cup T) <= Cardinality(S) + Cardinality(T)
  <1>1. IsFiniteSet(S) /\ IsFiniteSet(T)
    BY FS_Subset
  <1>2. Cardinality(S) \in Nat /\ Cardinality(T) \in Nat
    BY <1>1, FS_CardinalityType
  <1>3. S \subseteq T => Cardinality(S) <= Cardinality(T)
    BY <1>1, FS_Subset
  <1>4. Cardinality(S \cup T) = Cardinality(S) + Cardinality(T) - Cardinality(S \cap T)
    BY <1>1, FS_Union
  <1>5. Cardinality(S \cap T) \in Nat
    BY <1>1, FS_Intersection, FS_CardinalityType
  <1> QED
    BY <1>1, <1>2, <1>3, <1>4, <1>5, FS_EmptySet

\* A window never counts more than the limit, nor more than one throttled event.
LEMMA UsedAtMost ==
    ASSUME AdmissionAssumption, NEW w \in WindowType, NEW k \in Kinds
    PROVE  Used(w, k) \in Nat /\ Cap(k) \in Nat /\ Used(w, k) <= Cap(k)
  BY DEF AdmissionAssumption, WindowType, Kinds, Used, Cap

\* A report that Allow makes is charged to the window, and nothing is refunded.
LEMMA Charged ==
    ASSUME AdmissionAssumption, NEW w \in WindowType, NEW k \in Kinds
    PROVE  Used(Allow(w)[2], k) >= Used(w, k) + IF Allow(w)[1] = k THEN 1 ELSE 0
  <1>1. CASE w.count < Limit
    BY <1>1 DEF Allow, WindowType, AdmissionAssumption, Used, Kinds
  <1>2. CASE ~(w.count < Limit) /\ w.throttled
    BY <1>2 DEF Allow, WindowType, AdmissionAssumption, Used, Kinds
  <1>3. CASE ~(w.count < Limit) /\ ~w.throttled
    BY <1>3 DEF Allow, WindowType, AdmissionAssumption, Used, Kinds
  <1> QED
    BY <1>1, <1>2, <1>3

\* The window a miss finds or opens has counted what it must: a window that has ended
\* is the one earlier window of the next.
LEMMA WindowAccounts ==
    ASSUME AdmissionAssumption, TypeOK, RInv, NEW u \in Users
    PROVE  Accounts(u, WindowOf(u)) /\ WindowOf(u) \in WindowType /\ now <= WindowOf(u).resetAt
  <1> DEFINE w == WindowOf(u)
  <1>1. /\ now \in Nat /\ Window \in Nat /\ restarts \in Nat /\ Limit \in Nat
        /\ misses[u] \in WindowType \cup {None}
        /\ \A e \in log : e.at \in Nat
    BY DEF TypeOK, Times, AdmissionAssumption, ReportType
  <1>2. w \in WindowType
    BY Windows
  <1>3. /\ IsFiniteSet(log)
        /\ \A e \in log : e.at <= now
        /\ IF misses[u] = None
           THEN \A e \in log : e.user = u => e.life # restarts
           ELSE Accounts(u, misses[u])
    BY DEF RInv, Logged, Accounted
  <1>4. CASE misses[u] = None \/ now > misses[u].resetAt
    <2>1. /\ w.count = 0 /\ w.throttled = FALSE /\ w.resetAt = now + Window
          /\ w.resetAt - Window = now
      BY <1>1, <1>4 DEF WindowOf
    <2>2. ASSUME NEW e \in log, e.user = u, e.life = restarts
          PROVE  e.at < now
      <3>1. misses[u] # None /\ now > misses[u].resetAt
        BY <1>3, <1>4, <2>2
      <3>2. e.at <= misses[u].resetAt /\ misses[u].resetAt \in Nat
        BY <1>1, <1>3, <2>2, <3>1 DEF Accounts, WindowType, AdmissionAssumption
      <3> QED
        BY <1>1, <3>1, <3>2
    <2>3. ASSUME NEW k \in Kinds
          PROVE  /\ Cardinality(Reports(u, restarts, k, now, now)) <= Used(w, k)
                 /\ Cardinality(Reports(u, restarts, k, now - Window, now - 1)) <= Cap(k)
      <3>1. Reports(u, restarts, k, now, now) = {}
        BY <1>1, <2>2 DEF Reports
      <3>2. Cardinality(Reports(u, restarts, k, now, now)) <= Used(w, k)
        BY <1>1, <2>1, <3>1, FS_EmptySet DEF Used
      <3>3. CASE misses[u] = None
        <4>1. Reports(u, restarts, k, now - Window, now - 1) = {}
          BY <1>3, <3>3 DEF Reports
        <4> QED
          BY <1>1, <3>2, <4>1, FS_EmptySet DEF Cap
      <3>4. CASE misses[u] # None
        <4> DEFINE s == misses[u].resetAt - Window
        <4>1. misses[u] \in WindowType /\ Accounts(u, misses[u]) /\ now > misses[u].resetAt
          BY <1>1, <1>3, <1>4, <3>4
        <4>2. misses[u].resetAt \in Nat
          BY <4>1 DEF WindowType, AdmissionAssumption
        <4>3. now - Window > s
          BY <1>1, <4>1, <4>2
        <4>4. Reports(u, restarts, k, now - Window, now - 1) \subseteq Reports(u, restarts, k, s, now)
          BY <1>1, <4>2, <4>3 DEF Reports
        <4>5. Cardinality(Reports(u, restarts, k, s, now)) <= Used(misses[u], k)
          BY <4>1 DEF Accounts
        <4>6. Used(misses[u], k) \in Nat /\ Cap(k) \in Nat /\ Used(misses[u], k) <= Cap(k)
          BY <4>1, UsedAtMost
        <4>7. /\ Cardinality(Reports(u, restarts, k, now - Window, now - 1))
                   <= Cardinality(Reports(u, restarts, k, s, now))
              /\ Cardinality(Reports(u, restarts, k, now - Window, now - 1)) \in Nat
              /\ Cardinality(Reports(u, restarts, k, s, now)) \in Nat
          <5> DEFINE S == Reports(u, restarts, k, now - Window, now - 1)
                     T == Reports(u, restarts, k, s, now)
          <5>1. S \subseteq log /\ T \subseteq log
            BY DEF Reports
          <5> HIDE DEF S, T
          <5> QED
            BY <1>3, <4>4, <5>1, Counting DEF S, T
        <4> QED
          BY <3>2, <4>5, <4>6, <4>7
      <3> QED
        BY <3>3, <3>4
    <2>4. \A e \in log : e.user = u /\ e.life = restarts => e.at <= w.resetAt
      BY <1>1, <1>3, <2>1
    <2> HIDE DEF w
    <2>5. Accounts(u, w)
      BY <1>1, <2>1, <2>3, <2>4 DEF Accounts
    <2> QED
      BY <1>1, <1>2, <2>1, <2>5 DEF w
  <1>5. CASE ~(misses[u] = None \/ now > misses[u].resetAt)
    <2>1. w = misses[u]
      BY <1>5 DEF WindowOf
    <2> QED
      BY <1>1, <1>2, <1>3, <1>5, <2>1 DEF WindowType, AdmissionAssumption
  <1> QED
    BY <1>4, <1>5

\* One more report of a user at time t in life n, charged to a window that accounts for
\* the others and was opened at s.
LEMMA ReportCounted ==
    ASSUME AdmissionAssumption, TypeOK, RInv,
           NEW u \in Users, NEW w \in WindowType, NEW after \in WindowType, NEW kind, NEW e,
           NEW s \in Int, NEW t \in Nat, NEW n \in Nat,
           t = now, n = restarts, s = w.resetAt - Window,
           Accounts(u, w), t <= w.resetAt, after.resetAt = w.resetAt,
           \A k \in Kinds : Used(after, k) >= Used(w, k) + IF kind = k THEN 1 ELSE 0,
           e.user = u, e.kind = kind, e.at = t, e.life = n,
           misses' = [misses EXCEPT ![u] = after], log' = log \cup {e},
           UNCHANGED <<now, restarts>>
    PROVE  RInv'
  <1>2. /\ Window \in Nat /\ Limit \in Nat /\ MaxTime \in Nat /\ now' = t /\ restarts' = n
        /\ \A g \in log : g.at \in Nat /\ g.life \in Nat /\ g.at <= t /\ g.life <= n
        /\ None \notin WindowType /\ w.resetAt \in Nat
        /\ IsFiniteSet(log)
    BY DEF TypeOK, Times, AdmissionAssumption, ReportType, WindowType, RInv, Logged
  <1>3. /\ 0 <= s /\ s <= t /\ t <= s + Window
        /\ \A g \in log : g.user = u /\ g.life = n => g.at <= w.resetAt
        /\ \A k \in Kinds : /\ Cardinality(Reports(u, n, k, s, t)) <= Used(w, k)
                             /\ Cardinality(Reports(u, n, k, s - Window, s - 1)) <= Cap(k)
    <2>1. /\ 0 <= s /\ s <= t
          /\ \A g \in log : g.user = u /\ g.life = n => g.at <= w.resetAt
          /\ \A k \in Kinds : /\ Cardinality(Reports(u, n, k, s, t)) <= Used(w, k)
                               /\ Cardinality(Reports(u, n, k, s - Window, s - 1)) <= Cap(k)
      BY DEF Accounts
    <2> QED
      BY <1>2, <2>1
  <1>8. IsFiniteSet(log') /\ Logged'
    <2>1. IsFiniteSet(log \cup {e})
      BY <1>2, FS_AddElement
    <2>2. \A g \in log' : g.at <= t /\ g.life <= n
      BY <1>2
    <2> QED
      BY <1>2, <2>1, <2>2 DEF Logged
  <1>9. \A k \in Kinds : /\ Used(w, k) \in Nat /\ Used(after, k) \in Nat /\ Cap(k) \in Nat
                         /\ Used(after, k) <= Cap(k)
    BY UsedAtMost
  <1>10. misses'[u] = after /\ \A v \in Users \ {u} : misses'[v] = misses[v]
    BY DEF TypeOK
  <1>11. ASSUME NEW v, NEW life, NEW k, NEW a, NEW b,
                \/ v # u \/ life # n \/ k # kind \/ ~(a <= t /\ t <= b)
         PROVE  Reports(v, life, k, a, b)' = Reports(v, life, k, a, b)
    BY <1>11 DEF Reports
  <1>12. ASSUME NEW k \in Kinds
         PROVE  Cardinality(Reports(u, n, k, s, t)') <= Used(after, k)
    <2>1. PICK S : S = Reports(u, n, k, s, t)
      OBVIOUS
    <2>2. S \subseteq log /\ Cardinality(S) <= Used(w, k)
      BY <1>3, <2>1 DEF Reports
    <2>3. Cardinality(S) \in Nat /\ IsFiniteSet(S)
      BY <1>2, <2>2, FS_Subset, FS_CardinalityType
    <2>4. CASE k = kind
      <3>1. Reports(u, n, k, s, t)' = S \cup {e} \/ Reports(u, n, k, s, t)' = S
        BY <2>1 DEF Reports
      <3>2. Cardinality(S \cup {e}) <= Cardinality(S) + 1 /\ Cardinality(S \cup {e}) \in Nat
        <4>1. Cardinality(S \cup {e}) = Cardinality(S) \/ Cardinality(S \cup {e}) = Cardinality(S) + 1
          BY <2>3, FS_AddElement
        <4> QED
          BY <2>3, <4>1
      <3>3. Used(after, k) >= Used(w, k) + 1
        BY <2>4
      <3>4. Used(w, k) \in Nat /\ Used(after, k) \in Nat
        BY <1>9
      <3>5. Cardinality(S) <= Used(after, k) /\ Cardinality(S \cup {e}) <= Used(after, k)
        BY <2>2, <2>3, <3>2, <3>3, <3>4
      <3> QED
        BY <3>1, <3>5
    <2>5. CASE k # kind
      <3>1. Reports(u, n, k, s, t)' = S
        BY <1>11, <2>1, <2>5
      <3>2. Used(after, k) >= Used(w, k)
        BY <1>9, <2>5
      <3> QED
        BY <1>9, <2>2, <2>3, <3>1, <3>2
    <2> QED
      BY <2>4, <2>5
  <1>13. ASSUME NEW k \in Kinds
         PROVE  Cardinality(Reports(u, n, k, s - Window, s - 1)') <= Cap(k)
    <2>1. Reports(u, n, k, s - Window, s - 1)' = Reports(u, n, k, s - Window, s - 1)
      <3>1. ~(t <= s - 1)
        BY <1>3
      <3> QED
        BY <1>11, <3>1
    <2> QED
      BY <1>3, <2>1
  <1>14. Accounted'
    <2>1. SUFFICES ASSUME NEW v \in Users
                   PROVE  IF misses'[v] = None
                          THEN \A g \in log' : g.user = v => g.life # n
                          ELSE Accounts(v, misses[v])'
      BY <1>2 DEF Accounted
    <2>2. CASE v = u
      <3>1. misses'[v] # None /\ misses'[v] = after /\ after.resetAt - Window = s
        BY <1>2, <1>10, <2>2
      <3>2. \A g \in log' : g.user = u /\ g.life = n => g.at <= after.resetAt
        BY <1>3
      <3>3. Accounts(v, misses[v])'
        BY <1>2, <1>3, <1>12, <1>13, <2>2, <3>1, <3>2 DEF Accounts
      <3> QED
        BY <3>1, <3>3
    <2>3. CASE v # u
      <3>1. misses'[v] = misses[v]
        BY <1>10, <2>3
      <3>2. IF misses[v] = None
            THEN \A g \in log : g.user = v => g.life # n
            ELSE Accounts(v, misses[v])
        BY DEF RInv, Accounted
      <3>3. \A g \in log' : g.user = v => g \in log
        BY <2>3
      <3>4. CASE misses[v] = None
        BY <3>1, <3>2, <3>3, <3>4
      <3>5. CASE misses[v] # None
        <4>1. \A k, a, b : Reports(v, n, k, a, b)' = Reports(v, n, k, a, b)
          BY <1>11, <2>3
        <4>2. Accounts(v, misses[v])
          BY <3>2, <3>5
        <4>3. Accounts(v, misses[v])'
          BY <1>2, <3>1, <3>3, <4>1, <4>2 DEF Accounts
        <4> QED
          BY <3>1, <3>5, <4>3
      <3> QED
        BY <3>4, <3>5
    <2> QED
      BY <2>2, <2>3
  <1>15. Bounded'
    <2>1. SUFFICES ASSUME NEW v \in Users, NEW life \in 0..MaxRestarts, NEW from \in Times, NEW k \in Kinds
                   PROVE  Cardinality(Reports(v, life, k, from, from + Window)') <= 2 * Cap(k)
      BY DEF Bounded
    <2>2. from \in Nat
      BY <1>2 DEF Times
    <2>3. CASE v # u \/ life # n \/ ~(from <= t /\ t <= from + Window)
      <3>1. Reports(v, life, k, from, from + Window)' = Reports(v, life, k, from, from + Window)
        BY <1>11, <2>3
      <3> QED
        BY <3>1 DEF RInv, Bounded
    <2>4. CASE v = u /\ life = n /\ from <= t /\ t <= from + Window
      <3>1. PICK R, S, T : /\ R = Reports(u, n, k, from, from + Window)'
                           /\ S = Reports(u, n, k, s - Window, s - 1)'
                           /\ T = Reports(u, n, k, s, t)'
        OBVIOUS
      <3>2. R \subseteq log' /\ S \subseteq log' /\ T \subseteq log'
        BY <3>1 DEF Reports
      <3>3. R \subseteq S \cup T
        <4>1. SUFFICES ASSUME NEW g \in R PROVE g \in S \/ g \in T
          OBVIOUS
        <4>2. /\ g \in log' /\ g.user = u /\ g.life = n /\ g.kind = k
              /\ from <= g.at /\ g.at \in Nat /\ g.at <= t
          BY <1>2, <3>1 DEF Reports
        <4>3. CASE s <= g.at
          BY <3>1, <4>2, <4>3 DEF Reports
        <4>4. CASE ~(s <= g.at)
          <5>1. s - Window <= g.at /\ g.at <= s - 1
            BY <1>2, <1>3, <2>2, <2>4, <4>2, <4>4
          <5> QED
            BY <3>1, <4>2, <5>1 DEF Reports
        <4> QED
          BY <4>3, <4>4
      <3>4. PICK c : c = Cap(k)
        OBVIOUS
      <3>5. Cardinality(S) <= c /\ Cardinality(T) <= Used(after, k)
            /\ Used(after, k) <= c /\ Used(after, k) \in Nat /\ c \in Nat
        BY <1>9, <1>12, <1>13, <3>1, <3>4
      <3>6. IsFiniteSet(R) /\ IsFiniteSet(S) /\ IsFiniteSet(T)
        BY <1>8, <3>2, FS_Subset
      <3>7. /\ IsFiniteSet(S \cup T)
            /\ Cardinality(S \cup T) = Cardinality(S) + Cardinality(T) - Cardinality(S \cap T)
        BY <3>6, FS_Union
      <3>8. Cardinality(R) <= Cardinality(S \cup T)
        BY <3>3, <3>7, FS_Subset
      <3>9. /\ Cardinality(R) \in Nat /\ Cardinality(S) \in Nat /\ Cardinality(T) \in Nat
            /\ Cardinality(S \cap T) \in Nat /\ Cardinality(S \cup T) \in Nat
        BY <3>6, <3>7, FS_CardinalityType, FS_Intersection
      <3>10. Cardinality(R) <= c + c
        BY <3>5, <3>7, <3>8, <3>9
      <3> QED
        BY <2>4, <3>1, <3>4, <3>5, <3>10
    <2> QED
      BY <2>3, <2>4
  <1> QED
    BY <1>8, <1>14, <1>15 DEF RInv

\* Every step keeps the account of reports; only ThrottleMiss adds to it, and a
\* restart opens a new life.
LEMMA NextRInv ==
    AdmissionAssumption /\ IInv /\ IInv' /\ RInv /\ [Next]_vars => RInv'
  <1>1. SUFFICES ASSUME AdmissionAssumption, IInv, IInv', RInv, [Next]_vars PROVE RInv'
    OBVIOUS
  <1>2. TypeOK /\ TypeOK' /\ now \in Nat /\ restarts \in Nat
    BY <1>1 DEF IInv, TypeOK, Times, AdmissionAssumption
  <1>3. /\ \A e \in log : e.at \in Nat /\ e.at <= now /\ e.life <= restarts /\ e.life \in Nat
        /\ IsFiniteSet(log)
    BY <1>1, <1>2 DEF RInv, Logged, TypeOK, ReportType, Times
  <1>4. ASSUME UNCHANGED <<now, misses, log, restarts>> PROVE RInv'
    <2>1. \A u, life, k, a, b : Reports(u, life, k, a, b)' = Reports(u, life, k, a, b)
      BY <1>4 DEF Reports
    <2>2. Logged'
      BY <1>1, <1>4 DEF RInv, Logged
    <2>3. \A u, w : Accounts(u, w) => Accounts(u, w)'
      BY <1>4, <2>1 DEF Accounts
    <2>4. Accounted'
      BY <1>1, <1>4, <2>3 DEF RInv, Accounted
    <2>5. Bounded'
      BY <1>1, <2>1 DEF RInv, Bounded
    <2> QED
      BY <2>2, <2>4, <2>5 DEF RInv
  <1>5. ASSUME NEW t \in Tokens, NEW u \in Users, NEW result \in Results, Preview(t, u, result)
        PROVE  RInv'
    BY <1>4, <1>5 DEF Preview
  <1>6. ASSUME NEW r \in Requests, RequestStep(r) PROVE RInv'
    <2>1. ASSUME NEW u \in Users, NEW token \in Tokens, NEW body \in Bodies, Send(r, u, token, body)
          PROVE  RInv'
      BY <1>4, <2>1 DEF Send
    <2>2. CASE Consume(r)
      BY <1>4, <2>2 DEF Consume
    <2>3. CASE ThrottleMiss(r)
      <3>1. PICK u \in Users : u = request[r].user
        BY <1>1, <2>3 DEF IInv, Carried, Carries, ThrottleMiss
      <3>2. PICK w : w = WindowOf(u)
        OBVIOUS
      <3>3. w \in WindowType /\ Accounts(u, w) /\ now <= w.resetAt
        BY <1>1, <1>2, <3>2, WindowAccounts
      <3>4. PICK after : after = Allow(w)[2]
        OBVIOUS
      <3>5. PICK kind : kind = Allow(w)[1]
        OBVIOUS
      <3>6. after \in WindowType /\ after.resetAt = w.resetAt
        BY <1>1, <3>3, <3>4, Allowed
      <3>7. \A k \in Kinds : Used(after, k) >= Used(w, k) + IF kind = k THEN 1 ELSE 0
        BY <1>1, <3>3, <3>4, <3>5, Charged
      <3>8. PICK e : e = [request |-> r, user |-> u, kind |-> kind, at |-> now, life |-> restarts]
        OBVIOUS
      <3>9. e.user = u /\ e.kind = kind /\ e.at = now /\ e.life = restarts
        BY <3>8
      <3>10. /\ misses' = [misses EXCEPT ![u] = after]
             /\ log' = log \cup {e}
             /\ UNCHANGED <<now, restarts>>
        BY <2>3, <3>1, <3>2, <3>4, <3>5, <3>8 DEF ThrottleMiss
      <3>11. w.resetAt - Window \in Int
        BY <1>1, <3>3 DEF WindowType, AdmissionAssumption
      <3> QED
        BY <1>1, <1>2, <3>3, <3>6, <3>7, <3>9, <3>10, <3>11, ReportCounted
    <2>4. CASE RecordMiss(r)
      BY <1>4, <2>4 DEF RecordMiss
    <2> QED
      BY <1>6, <2>1, <2>2, <2>3, <2>4 DEF RequestStep
  <1>7. ASSUME Tick PROVE RInv'
    <2>1. now' = now + 1 /\ UNCHANGED <<misses, log, restarts>>
      BY <1>7 DEF Tick
    <2>2. Logged'
      BY <1>2, <1>3, <2>1 DEF Logged
    <2>3. \A u, life, k, a, b : Reports(u, life, k, a, b)' = Reports(u, life, k, a, b)
      BY <2>1 DEF Reports
    <2>4. Bounded'
      BY <1>1, <2>3 DEF RInv, Bounded
    <2>5. \A u, k, a : Reports(u, restarts, k, a, now + 1) = Reports(u, restarts, k, a, now)
      BY <1>2, <1>3 DEF Reports
    <2>6. ASSUME NEW u, NEW w \in WindowType, Accounts(u, w) PROVE Accounts(u, w)'
      <3>1. w.resetAt \in Nat /\ Window \in Nat
        BY <1>1 DEF WindowType, AdmissionAssumption
      <3>2. /\ 0 <= w.resetAt - Window /\ w.resetAt - Window <= now + 1
            /\ \A e \in log : e.user = u /\ e.life = restarts => e.at <= w.resetAt
        BY <1>2, <2>6, <3>1 DEF Accounts
      <3>3. ASSUME NEW k \in Kinds
            PROVE  /\ Cardinality(Reports(u, restarts, k, w.resetAt - Window, now + 1)) <= Used(w, k)
                   /\ Cardinality(Reports(u, restarts, k, w.resetAt - Window - Window,
                                          w.resetAt - Window - 1)) <= Cap(k)
        BY <2>5, <2>6 DEF Accounts
      <3> QED
        BY <2>1, <2>3, <3>2, <3>3 DEF Accounts
    <2>7. Accounted'
      BY <1>1, <1>2, <2>1, <2>6 DEF RInv, Accounted, TypeOK
    <2> QED
      BY <2>2, <2>4, <2>7 DEF RInv
  <1>8. ASSUME Restart PROVE RInv'
    <2>1. restarts' = restarts + 1 /\ misses' = [u \in Users |-> None] /\ UNCHANGED <<now, log>>
      BY <1>8 DEF Restart
    <2>2. Logged'
      BY <1>2, <1>3, <2>1 DEF Logged
    <2>3. Bounded'
      BY <1>1, <2>1 DEF RInv, Bounded, Reports
    <2>4. Accounted'
      BY <1>2, <1>3, <2>1 DEF Accounted
    <2> QED
      BY <2>2, <2>3, <2>4 DEF RInv
  <1>9. ASSUME UNCHANGED vars PROVE RInv'
    BY <1>4, <1>9 DEF vars
  <1> QED
    BY <1>1, <1>5, <1>6, <1>7, <1>8, <1>9 DEF Next

\* A storm of misses cannot flood the audit: any stretch of a window's length meets at
\* most two windows, and each lets Limit reports and one throttled event through.
THEOREM ReportsAreBounded == Spec => []ReportsBounded
  <1>1. AdmissionAssumption /\ Init => RInv
    <2>1. SUFFICES ASSUME AdmissionAssumption, Init PROVE RInv
      OBVIOUS
    <2>2. \A u, life, k, a, b : Reports(u, life, k, a, b) = {}
      BY <2>1 DEF Init, Reports
    <2>3. Cardinality({}) = 0 /\ IsFiniteSet({})
      BY FS_EmptySet
    <2>4. Logged /\ Accounted
      BY <2>1, <2>3 DEF Init, Logged, Accounted
    <2>5. \A k \in Kinds : 0 <= 2 * Cap(k)
      BY <2>1 DEF Kinds, Cap, AdmissionAssumption
    <2>6. Bounded
      BY <2>2, <2>3, <2>5 DEF Bounded
    <2> QED
      BY <2>4, <2>6 DEF RInv
  <1>2. AdmissionAssumption /\ TypeOK /\ RInv => ReportsBounded
    <2>1. SUFFICES ASSUME AdmissionAssumption, TypeOK, RInv,
                          NEW u \in Users, NEW from \in Times, NEW life \in 0..MaxRestarts
                   PROVE  LET within == {e \in log : e.user = u /\ e.life = life
                                                     /\ e.at \in from..(from + Window)} IN
                            /\ Cardinality({e \in within : e.kind = "miss"}) <= 2 * Limit
                            /\ Cardinality({e \in within : e.kind = "throttled"}) <= 2
      BY DEF ReportsBounded
    <2> DEFINE within == {e \in log : e.user = u /\ e.life = life /\ e.at \in from..(from + Window)}
    <2>2. from \in Nat /\ Window \in Nat /\ \A e \in log : e.at \in Nat
      BY <2>1 DEF TypeOK, Times, AdmissionAssumption, ReportType
    <2>3. \A k \in Kinds : {e \in within : e.kind = k} = Reports(u, life, k, from, from + Window)
      BY <2>2 DEF Reports
    <2>4. \A k \in Kinds : Cardinality({e \in within : e.kind = k}) <= 2 * Cap(k)
      BY <2>1, <2>3 DEF RInv, Bounded
    <2> HIDE DEF within
    <2>5. /\ Cardinality({e \in within : e.kind = "miss"}) <= 2 * Limit
          /\ Cardinality({e \in within : e.kind = "throttled"}) <= 2 * 1
      BY <2>4 DEF Kinds, Cap
    <2> QED
      BY <2>5 DEF within
  <1>3. IInv => TypeOK
    BY DEF IInv
  <1> QED
    BY AdmissionAssumption, Invariance, NextRInv, <1>1, <1>2, <1>3, PTL DEF Spec

=============================================================================
