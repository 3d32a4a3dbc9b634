--------------------------- MODULE ChatFlow_proofs ---------------------------
(***************************************************************************)
(* Proofs about the chat flow: an inductive invariant of one request, its  *)
(* consequences for what is sent, shown and recorded, and the refinement   *)
(* of ChatAudit.                                                           *)
(***************************************************************************)
EXTENDS ChatFlow, TLAPS

(***************************************************************************)
(* The invariant, for one request                                          *)
(***************************************************************************)

\* The decision of Prepare, before any revision.
Base(r) == Decide(inp[r].trust, inp[r].risk)

\* The chat_request events of r.
Asked(r) == {e \in trail[r] : e.type = "chat_request"}

\* Retrieval hardens the decision of Prepare by one step at most.
Ordered(r) ==
    /\ pc[r] \notin {"new", "rejected"} =>
          DecisionOrder(decision[r]) - DecisionOrder(Base(r)) \in 0..1
    /\ pc[r] \in {"decided", "stream", "retrieve"} => decision[r] = Base(r)

\* Tx1 stands between "decided" and everything later.
Recorded(r) ==
    /\ pc[r] \in {"new", "decided"} => Asked(r) = {}
    /\ pc[r] \notin {"new", "decided", "rejected"} =>
          Asked(r) = {Event("chat_request", Base(r), "")}

\* What is in the prompts, and where a request that has sent one can be.
Prompted(r) ==
    /\ sent[r] # {} =>
          pc[r] \in {"check", "review", "record", "deliver", "closed"} /\ CallsLLM(decision[r])
    /\ pc[r] \in {"check", "review", "record", "deliver"} => sent[r] # {}
    /\ pc[r] = "call" => CallsLLM(decision[r])
    /\ pc[r] \in {"block", "blocked"} => ~CallsLLM(decision[r])
    /\ chunks[r] \subseteq KeptForTrust(inp[r].hits, inp[r].trust)
    /\ pc[r] = "new" \/ ~CallsLLM(decision[r]) => chunks[r] = {}
    /\ \A m \in sent[r] :
          /\ m.text = "sanitized" \/ m.text = SendText(r)
          /\ m.to = "reviewer" => m.text = ReviewText(r)
          /\ m.chunks \subseteq KeptForTrust(inp[r].hits, inp[r].trust)
          /\ m.draft # "exact"

\* A verdict is that of the branch taken, and stands beside what is stored.
Concluded(r) ==
    /\ \A v \in Verdicts(r) :
          \/ /\ v = ResponseEvent(r) /\ stored[r] = FinalText(r)
             /\ sent[r] # {}
          \/ /\ v = BlockedEvent(r) /\ stored[r] = "notice"
             /\ ~CallsLLM(decision[r])
    /\ Verdicts(r) # {} => pc[r] \in {"deliver", "blocked", "closed"}
    /\ pc[r] = "deliver" => ResponseEvent(r) \in Verdicts(r)
    /\ pc[r] = "blocked" => BlockedEvent(r) \in Verdicts(r)
    /\ stored[r] # "none" => Verdicts(r) # {}

\* What the client has seen.
Streamed(r) ==
    /\ sse[r] # {} => pc[r] \notin {"new", "decided", "rejected", "stream"}
    /\ sse[r] \cap {"delta", "done", "error"} # {} => pc[r] = "closed"
    /\ "delta" \in sse[r] => ResponseEvent(r) \in Verdicts(r)
    /\ "done" \in sse[r] => Verdicts(r) # {} /\ "error" \notin sse[r]
    /\ "rag_hits" \in sse[r] =>
          CallsLLM(decision[r]) /\ pc[r] \notin {"retrieve", "announce"}

Reason(r) == \E v \in Verdicts(r) : v.type = "chat_blocked" \/ v.detail = "leak"

\* The background task and what it leaves.
Raised(r) ==
    /\ task[r] = "incident" => pc[r] = "closed" /\ Reason(r) /\ ~incident[r]
    /\ incident[r] => Reason(r) /\ pc[r] = "closed"
    /\ incident[r] <=> AutoEvent \in trail[r]

Fine(r) ==
    /\ Ordered(r) /\ Recorded(r) /\ Prompted(r)
    /\ Concluded(r) /\ Streamed(r) /\ Raised(r)

IInv == TypeOK /\ \A r \in Requests : Fine(r)

(***************************************************************************)
(* The decision table                                                      *)
(***************************************************************************)

\* Decide answers one of the five decisions.
LEMMA DecideType ==
    ASSUME NEW t \in Trusts, NEW k \in [level : Levels, classes : SUBSET Classes]
    PROVE  Decide(t, k) \in Decisions
  BY DEF Decide, Decisions

\* A secret is denied, and outside the perimeter a sensitive text is never sent raw.
LEMMA DecideStrict ==
    ASSUME NEW t \in Trusts, NEW k \in [level : Levels, classes : SUBSET Classes]
    PROVE  /\ "secret" \in k.classes => Decide(t, k) = "deny"
           /\ IsExternalTrust(t) /\ k.classes \cap {"pii", "commercial"} # {}
                => Decide(t, k) # "allow_raw"
  BY DEF Decide, IsSensitive

\* Revision stays within the decisions and takes at most one step.
LEMMA ReviseStep ==
    ASSUME NEW d \in Decisions, NEW l, NEW h
    PROVE  /\ Revise(d, l, h) \in Decisions
           /\ DecisionOrder(Revise(d, l, h)) - DecisionOrder(d) \in 0..1
  BY DEF Revise, DecisionByOrder, DecisionOrder, AtMost, Decisions

(***************************************************************************)
(* What a step writes to the trail                                         *)
(***************************************************************************)

\* Events that neither open nor conclude a request.
Aside ==
    {"chat_error", "rag_query", "rag_chunk_dropped_high_risk",
     "policy_revised_after_rag", "incident_create_failed"}

\* The step adds the key events of the set K to r's trail, and others only aside.
Books(r, K) ==
    /\ trail[r] \subseteq trail'[r]
    /\ Asked(r)' = Asked(r) \cup {e \in K : e.type = "chat_request"}
    /\ Verdicts(r)' = Verdicts(r) \cup {e \in K : e.type \in {"chat_response", "chat_blocked"}}
    /\ AutoEvent \in trail'[r] <=> (AutoEvent \in trail[r] \/ AutoEvent \in K)

\* Adding K and a set of events aside.
LEMMA BooksAre ==
    ASSUME NEW r \in Requests, NEW K, NEW S, \A e \in S : e.type \in Aside,
           trail'[r] = trail[r] \cup K \cup S
    PROVE  Books(r, K)
  <1>1. \A e \in S : e.type \notin {"chat_request", "chat_response", "chat_blocked"}
    BY DEF Aside
  <1>2. AutoEvent \notin S
    <2>1. AutoEvent.type = "incident_created_auto"
      BY DEF AutoEvent, Event
    <2>. QED
      BY <2>1 DEF Aside
  <1>3. Asked(r)' = Asked(r) \cup {e \in K : e.type = "chat_request"}
    BY <1>1 DEF Asked
  <1>4. Verdicts(r)' = Verdicts(r) \cup {e \in K : e.type \in {"chat_response", "chat_blocked"}}
    BY <1>1 DEF Verdicts
  <1>. QED
    BY <1>2, <1>3, <1>4 DEF Books

LEMMA BooksCommit ==
    ASSUME NEW r \in Requests, TypeOK, NEW K, Commit(r, K)
    PROVE  Books(r, K)
  <1>1. trail'[r] = trail[r] \cup K \cup {}
    BY DEF Commit, TypeOK
  <1>. QED
    BY <1>1, BooksAre

LEMMA BooksSame ==
    ASSUME NEW r \in Requests, trail'[r] = trail[r]
    PROVE  Books(r, {})
  <1>1. trail'[r] = trail[r] \cup {} \cup {}
    OBVIOUS
  <1>. QED
    BY <1>1, BooksAre

LEMMA BooksAudit ==
    ASSUME NEW r \in Requests, TypeOK, NEW S, \A e \in S : e.type \in Aside, Audit(r, S)
    PROVE  Books(r, {})
  <1>1. PICK T \in SUBSET S : Commit(r, T)
    BY DEF Audit
  <1>2. trail'[r] = trail[r] \cup {} \cup T
    BY <1>1 DEF Commit, TypeOK
  <1>. QED
    BY <1>1, <1>2, BooksAre

LEMMA BooksFails ==
    ASSUME NEW r \in Requests, TypeOK, NEW c, NEW e, e.type \in Aside, Fails(r, c, e)
    PROVE  Books(r, {})
  <1>1. PICK T \in SUBSET {e} : Commit(r, T)
    BY DEF Fails
  <1>2. trail'[r] = trail[r] \cup {} \cup T
    BY <1>1 DEF Commit, TypeOK
  <1>. QED
    BY <1>1, <1>2, BooksAre

LEMMA BooksApplied ==
    ASSUME NEW r \in Requests, TypeOK, NEW a \in BOOLEAN, NEW k, NEW e, e.type \in Aside,
           FailsApplied(r, a, k, e)
    PROVE  IF a THEN Books(r, {k}) ELSE Books(r, {})
  <1>1. PICK T \in SUBSET {e} : Commit(r, (IF a THEN {k} ELSE {}) \cup T)
    BY DEF FailsApplied
  <1>2. trail'[r] = trail[r] \cup (IF a THEN {k} ELSE {}) \cup T
    BY <1>1 DEF Commit, TypeOK
  <1>. QED
    BY <1>1, <1>2, BooksAre

LEMMA ErrorsAside ==
    ASSUME NEW r \in Requests, NEW s
    PROVE  ErrorEvent(r, s).type \in Aside
  BY DEF ErrorEvent, Event, Aside

(***************************************************************************)
(* What a step leaves alone                                                *)
(***************************************************************************)

\* Nothing of q has changed.
Same(q) ==
    /\ inp'[q] = inp[q] /\ pc'[q] = pc[q] /\ decision'[q] = decision[q]
    /\ chunks'[q] = chunks[q] /\ sent'[q] = sent[q] /\ echo'[q] = echo[q]
    /\ trail'[q] = trail[q] /\ stored'[q] = stored[q] /\ sse'[q] = sse[q]
    /\ online'[q] = online[q] /\ task'[q] = task[q] /\ (incident'[q] <=> incident[q])

\* An assignment at r is what r then has.
LEMMA Puts ==
    ASSUME NEW r \in Requests, TypeOK
    PROVE  /\ \A p : Goto(r, p) => pc'[r] = p
           /\ \A S : Emit(r, S) => sse'[r] = sse[r] \cup S
           /\ \A x : [decision EXCEPT ![r] = x][r] = x
           /\ \A x : [chunks EXCEPT ![r] = x][r] = x
           /\ \A x : [sent EXCEPT ![r] = x][r] = x
           /\ \A x : [echo EXCEPT ![r] = x][r] = x
           /\ \A x : [stored EXCEPT ![r] = x][r] = x
           /\ \A x : [task EXCEPT ![r] = x][r] = x
           /\ \A x : [incident EXCEPT ![r] = x][r] = x
  <1>1. \A p : Goto(r, p) => pc'[r] = p
    BY DEF TypeOK, Goto
  <1>2. \A S : Emit(r, S) => sse'[r] = sse[r] \cup S
    BY DEF TypeOK, Emit
  <1>3. \A x : [decision EXCEPT ![r] = x][r] = x /\ [chunks EXCEPT ![r] = x][r] = x
    BY DEF TypeOK
  <1>4. \A x : [sent EXCEPT ![r] = x][r] = x /\ [echo EXCEPT ![r] = x][r] = x
    BY DEF TypeOK
  <1>5. \A x : [stored EXCEPT ![r] = x][r] = x /\ [task EXCEPT ![r] = x][r] = x
    BY DEF TypeOK
  <1>6. \A x : [incident EXCEPT ![r] = x][r] = x
    BY DEF TypeOK
  <1>. QED
    BY <1>1, <1>2, <1>3, <1>4, <1>5, <1>6

\* What is read off the request, the decision and the answer stays with them.
LEMMA SteadyText ==
    ASSUME NEW r, inp'[r] = inp[r], decision'[r] = decision[r]
    PROVE  /\ Base(r)' = Base(r)
           /\ SendText(r)' = SendText(r) /\ ReviewText(r)' = ReviewText(r)
           /\ BlockedEvent(r)' = BlockedEvent(r)
  <1>1. Base(r)' = Base(r)
    BY DEF Base
  <1>2. SendText(r)' = SendText(r) /\ ReviewText(r)' = ReviewText(r)
    BY DEF SendText, ReviewText, Mapped
  <1>3. BlockedEvent(r)' = BlockedEvent(r)
    BY DEF BlockedEvent
  <1>. QED
    BY <1>1, <1>2, <1>3

LEMMA Steady ==
    ASSUME NEW r, inp'[r] = inp[r], decision'[r] = decision[r], echo'[r] = echo[r]
    PROVE  /\ Base(r)' = Base(r)
           /\ SendText(r)' = SendText(r) /\ ReviewText(r)' = ReviewText(r)
           /\ ResponseEvent(r)' = ResponseEvent(r) /\ FinalText(r)' = FinalText(r)
           /\ BlockedEvent(r)' = BlockedEvent(r)
  <1>1. ResponseEvent(r)' = ResponseEvent(r) /\ FinalText(r)' = FinalText(r)
    BY DEF ResponseEvent, FinalText, Leaked
  <1>. QED
    BY <1>1, SteadyText

LEMMA SameBooks ==
    ASSUME NEW r, Books(r, {})
    PROVE  /\ Asked(r)' = Asked(r) /\ Verdicts(r)' = Verdicts(r)
           /\ AutoEvent \in trail'[r] <=> AutoEvent \in trail[r]
           /\ Reason(r)' <=> Reason(r)
  <1>1. Asked(r)' = Asked(r) /\ Verdicts(r)' = Verdicts(r)
    BY DEF Books
  <1>2. Reason(r)' <=> Reason(r)
    BY <1>1 DEF Reason
  <1>. QED
    BY <1>1, <1>2 DEF Books

\* A request that no step touches keeps its invariant.
LEMMA Untouched ==
    ASSUME NEW q \in Requests, Fine(q), Same(q)
    PROVE  Fine(q)'
  <1>1. /\ Asked(q)' = Asked(q) /\ Verdicts(q)' = Verdicts(q) /\ (Reason(q)' <=> Reason(q))
        /\ AutoEvent \in trail'[q] <=> AutoEvent \in trail[q]
    BY BooksSame, SameBooks DEF Same
  <1>. USE <1>1, Steady DEF Same, Fine
  <1>2. Ordered(q)' /\ Recorded(q)'
    BY DEF Ordered, Recorded
  <1>3. Prompted(q)'
    BY DEF Prompted
  <1>4. Concluded(q)' /\ Streamed(q)'
    BY DEF Concluded, Streamed
  <1>5. Raised(q)'
    BY DEF Raised
  <1>. QED
    BY <1>2, <1>3, <1>4, <1>5

(***************************************************************************)
(* Steps of a handler                                                      *)
(***************************************************************************)

\* A step that only moves r's handler on, records aside and stops early.
LEMMA MovesOn ==
    ASSUME NEW r \in Requests, TypeOK, Fine(r), Books(r, {}),
           inp'[r] = inp[r], decision'[r] = decision[r], chunks'[r] = chunks[r],
           sent'[r] = sent[r], echo'[r] = echo[r], stored'[r] = stored[r],
           sse'[r] = sse[r], task'[r] = task[r], incident'[r] <=> incident[r],
           \/ pc'[r] = pc[r]
           \/ pc[r] \in {"new", "decided"} /\ pc'[r] = "rejected"
           \/ pc[r] = "retrieve" /\ pc'[r] = "announce"
           \/ pc[r] = "check" /\ pc'[r] \in {"review", "record", "closed"}
    PROVE  Fine(r)'
  <1>1. /\ Asked(r)' = Asked(r) /\ Verdicts(r)' = Verdicts(r) /\ (Reason(r)' <=> Reason(r))
        /\ AutoEvent \in trail'[r] <=> AutoEvent \in trail[r]
    BY SameBooks
  <1>2. Base(r)' = Base(r)
    BY Steady
  <1>. USE <1>1, Steady DEF Fine
  <1>3. Ordered(r)' /\ Recorded(r)'
    BY DEF Ordered, Recorded
  <1>4. Prompted(r)'
    BY DEF Prompted
  <1>5. Concluded(r)' /\ Streamed(r)'
    BY DEF Concluded, Streamed
  <1>6. Raised(r)'
    BY DEF Raised
  <1>. QED
    BY <1>3, <1>4, <1>5, <1>6

\* Sanitize decides a request of which nothing has been recorded or sent.
LEMMA SanitizeFine ==
    ASSUME NEW r \in Requests, TypeOK, Fine(r), Sanitize(r)
    PROVE  Fine(r)'
  <1>1. /\ pc[r] = "new" /\ pc'[r] = "decided"
        /\ decision'[r] = Base(r) /\ inp'[r] = inp[r] /\ chunks'[r] = chunks[r]
        /\ sent'[r] = sent[r] /\ stored'[r] = stored[r]
        /\ sse'[r] = sse[r] /\ task'[r] = task[r] /\ (incident'[r] <=> incident[r])
    BY Puts DEF Sanitize, At, Base
  <1>2. Books(r, {})
    <2>1. CASE Audit(r, {Event("chat_error", "none", "preview_token_miss")})
      <3>1. \A e \in {Event("chat_error", "none", "preview_token_miss")} : e.type \in Aside
        BY DEF Event, Aside
      <3>. QED
        BY <2>1, <3>1, BooksAudit
    <2>2. CASE UNCHANGED trail
      BY <2>2, BooksSame
    <2>. QED
      BY <2>1, <2>2 DEF Sanitize
  <1>3. /\ Asked(r)' = Asked(r) /\ Verdicts(r)' = Verdicts(r) /\ (Reason(r)' <=> Reason(r))
        /\ AutoEvent \in trail'[r] <=> AutoEvent \in trail[r]
    BY <1>2, SameBooks
  <1>4. Base(r)' = Base(r)
    BY <1>1 DEF Base
  <1>. USE <1>1, <1>3, <1>4 DEF Fine
  <1>5. Ordered(r)' /\ Recorded(r)'
    BY DEF Ordered, Recorded, DecisionOrder
  <1>6. Prompted(r)'
    BY DEF Prompted
  <1>7. Concluded(r)' /\ Streamed(r)'
    BY DEF Concluded, Streamed
  <1>8. Raised(r)'
    BY DEF Raised
  <1>. QED
    BY <1>5, <1>6, <1>7, <1>8

\* Tx1 commits, with or without its acknowledgement.
LEMMA RequestFine ==
    ASSUME NEW r \in Requests, TypeOK, Fine(r),
           pc[r] = "decided", pc'[r] \in {"stream", "rejected"}, Books(r, {RequestEvent(r)}),
           UNCHANGED flow, sse'[r] = sse[r], task'[r] = task[r], incident'[r] <=> incident[r]
    PROVE  Fine(r)'
  <1>1. /\ inp' = inp /\ decision' = decision /\ chunks' = chunks /\ sent' = sent
        /\ echo' = echo /\ stored' = stored
    BY DEF flow
  <1>2. /\ RequestEvent(r) = Event("chat_request", decision[r], "")
        /\ RequestEvent(r).type = "chat_request" /\ RequestEvent(r) # AutoEvent
    BY DEF RequestEvent, Event, AutoEvent
  <1>3. /\ Asked(r)' = Asked(r) \cup {RequestEvent(r)} /\ Verdicts(r)' = Verdicts(r)
        /\ AutoEvent \in trail'[r] <=> AutoEvent \in trail[r]
    BY <1>2 DEF Books
  <1>4. Reason(r)' <=> Reason(r)
    BY <1>3 DEF Reason
  <1>. USE <1>1, <1>3, <1>4, Steady DEF Fine
  <1>5. Ordered(r)' /\ Recorded(r)'
    BY <1>2 DEF Ordered, Recorded
  <1>6. Prompted(r)'
    BY DEF Prompted
  <1>7. Concluded(r)' /\ Streamed(r)'
    BY DEF Concluded, Streamed
  <1>8. Raised(r)'
    BY DEF Raised
  <1>. QED
    BY <1>5, <1>6, <1>7, <1>8

\* meta, or nothing, and the stream goes on to retrieval or ends.
LEMMA OpenStreamFine ==
    ASSUME NEW r \in Requests, TypeOK, Fine(r), OpenStream(r)
    PROVE  Fine(r)'
  <1>1. /\ pc[r] = "stream" /\ pc'[r] \in {"retrieve", "closed"}
        /\ sse'[r] \ sse[r] \subseteq {"meta"}
        /\ inp' = inp /\ decision' = decision /\ chunks' = chunks /\ sent' = sent
        /\ echo' = echo /\ stored' = stored /\ trail' = trail /\ task' = task
        /\ incident' = incident
    BY Puts DEF OpenStream, At, Cut, flow
  <1>2. /\ Asked(r)' = Asked(r) /\ Verdicts(r)' = Verdicts(r) /\ (Reason(r)' <=> Reason(r))
        /\ AutoEvent \in trail'[r] <=> AutoEvent \in trail[r]
    BY <1>1, BooksSame, SameBooks
  <1>. USE <1>1, <1>2, Steady DEF Fine
  <1>3. Ordered(r)' /\ Recorded(r)'
    BY DEF Ordered, Recorded
  <1>4. Prompted(r)'
    BY DEF Prompted
  <1>5. Concluded(r)'
    BY DEF Concluded
  <1>6. Streamed(r)'
    BY DEF Streamed
  <1>7. Raised(r)'
    BY DEF Raised
  <1>. QED
    BY <1>3, <1>4, <1>5, <1>6, <1>7

\* Retrieval records what it did, aside.
LEMMA RetrieveBooks ==
    ASSUME NEW r \in Requests, TypeOK, Retrieve(r)
    PROVE  Books(r, {})
  <1>. DEFINE revised == Revise(decision[r], inp[r].risk.level, inp[r].hits)
  <1>. DEFINE X == {Event("rag_query", "none", ""),
                    Event("rag_chunk_dropped_high_risk", "none", ""),
                    Event("policy_revised_after_rag", revised, ""),
                    Event("policy_revised_after_rag", revised, "throttled")}
  <1>1. PICK S \in SUBSET X : Audit(r, S)
    BY DEF Retrieve
  <1>2. \A e \in X : e.type \in Aside
    <2>1. ASSUME NEW e \in X PROVE e.type \in Aside
      <3>1. CASE e = Event("rag_query", "none", "")
        BY <3>1 DEF Event, Aside
      <3>2. CASE e = Event("rag_chunk_dropped_high_risk", "none", "")
        BY <3>2 DEF Event, Aside
      <3>3. CASE e = Event("policy_revised_after_rag", revised, "")
        BY <3>3 DEF Event, Aside
      <3>4. CASE e = Event("policy_revised_after_rag", revised, "throttled")
        BY <3>4 DEF Event, Aside
      <3>. QED
        BY <3>1, <3>2, <3>3, <3>4
    <2>. QED
      BY <2>1
  <1>. QED
    BY <1>1, <1>2, BooksAudit

\* The decision is revised, by one step at most, and the prompt filled.
LEMMA RetrieveFine ==
    ASSUME NEW r \in Requests, TypeOK, Fine(r), Retrieve(r)
    PROVE  Fine(r)'
  <1>. DEFINE revised == Revise(decision[r], inp[r].risk.level, inp[r].hits)
              kept    == KeptForTrust(inp[r].hits, inp[r].trust)
  <1>1. /\ pc[r] = "retrieve" /\ pc'[r] = "announce" /\ decision'[r] = revised
        /\ inp' = inp /\ sent' = sent /\ echo' = echo /\ stored' = stored /\ sse' = sse
        /\ task' = task /\ incident' = incident
    BY Puts DEF Retrieve, At
  <1>2. chunks'[r] \subseteq kept /\ (~CallsLLM(revised) => chunks'[r] = {})
    <2>1. PICK fit \in SUBSET kept :
               chunks' = [chunks EXCEPT ![r] = IF CallsLLM(revised) THEN fit ELSE {}]
      BY DEF Retrieve
    <2>2. chunks'[r] = IF CallsLLM(revised) THEN fit ELSE {}
      BY <2>1, Puts
    <2>. QED
      BY <2>2
  <1>3. Books(r, {})
    BY RetrieveBooks
  <1>4. /\ Asked(r)' = Asked(r) /\ Verdicts(r)' = Verdicts(r) /\ (Reason(r)' <=> Reason(r))
        /\ AutoEvent \in trail'[r] <=> AutoEvent \in trail[r]
    BY <1>3, SameBooks
  <1>5. Base(r)' = Base(r)
    BY <1>1 DEF Base
  <1>6. DecisionOrder(revised) - DecisionOrder(decision[r]) \in 0..1
    BY ReviseStep DEF TypeOK
  <1>. HIDE DEF revised, kept
  <1>. USE <1>1, <1>4, <1>5 DEF Fine
  <1>7. Ordered(r)' /\ Recorded(r)'
    BY <1>6 DEF Ordered, Recorded
  <1>8. sent[r] = {}
    BY DEF Prompted
  <1>9. Prompted(r)'
    BY <1>2, <1>8 DEF Prompted, kept
  <1>10. Concluded(r)' /\ Streamed(r)'
    BY DEF Concluded, Streamed
  <1>11. Raised(r)'
    BY DEF Raised
  <1>. QED
    BY <1>7, <1>9, <1>10, <1>11

\* The branch follows the revised decision.
LEMMA AnnounceFine ==
    ASSUME NEW r \in Requests, TypeOK, Fine(r), Announce(r)
    PROVE  Fine(r)'
  <1>1. /\ pc[r] = "announce"
        /\ inp' = inp /\ decision' = decision /\ chunks' = chunks /\ sent' = sent
        /\ echo' = echo /\ stored' = stored /\ trail' = trail /\ task' = task
        /\ incident' = incident
    BY DEF Announce, At, flow
  <1>. DEFINE hits    == IF chunks[r] # {} THEN {"rag_hits"} ELSE {}
              revised == IF Revised(r) THEN {"meta_revised"} ELSE {}
  <1>2. PICK seen \in {{}, hits, hits \cup revised} : Emit(r, seen)
    BY DEF Announce, Cut
  <1>3. sse'[r] = sse[r] \cup seen
    BY <1>2, Puts
  <1>4. pc'[r] \in {IF CallsLLM(decision[r]) THEN "call" ELSE "block", "closed"}
    BY Puts DEF Announce
  <1>5. /\ sse'[r] \ sse[r] \subseteq {"rag_hits", "meta_revised"}
        /\ "rag_hits" \in sse'[r] \ sse[r] => chunks[r] # {}
    BY <1>3
  <1>6. /\ Asked(r)' = Asked(r) /\ Verdicts(r)' = Verdicts(r) /\ (Reason(r)' <=> Reason(r))
        /\ AutoEvent \in trail'[r] <=> AutoEvent \in trail[r]
    BY <1>1, BooksSame, SameBooks
  <1>. USE <1>1, <1>5, <1>4, <1>6, Steady DEF Fine
  <1>7. Ordered(r)' /\ Recorded(r)'
    BY DEF Ordered, Recorded
  <1>8. Prompted(r)'
    BY DEF Prompted
  <1>9. Concluded(r)'
    BY DEF Concluded
  <1>10. Streamed(r)'
    BY DEF Streamed, Prompted
  <1>11. Raised(r)'
    BY DEF Raised
  <1>. QED
    BY <1>7, <1>8, <1>9, <1>10, <1>11

\* Prompts go out, or none do; the handler goes on, or reports an error and ends.
LEMMA PromptsFine ==
    ASSUME NEW r \in Requests, TypeOK, Fine(r), Books(r, {}),
           \/ pc[r] = "call" /\ pc'[r] \in {"check", "closed"}
           \/ pc[r] = "review" /\ pc'[r] \in {"record", "closed"}
           \/ pc[r] \in {"record", "block"} /\ pc'[r] = "closed" /\ sent'[r] = sent[r],
           sent[r] \subseteq sent'[r], sent'[r] # {} \/ pc'[r] = "closed",
           \A m \in sent'[r] \ sent[r] :
              /\ m.text = "sanitized" \/ m.text = SendText(r)
              /\ m.to = "reviewer" => m.text = ReviewText(r)
              /\ m.chunks \subseteq KeptForTrust(inp[r].hits, inp[r].trust)
              /\ m.draft # "exact",
           \/ sse'[r] = sse[r]
           \/ sse'[r] = sse[r] \cup {"error"} /\ pc'[r] = "closed",
           inp' = inp, decision' = decision, chunks' = chunks, stored' = stored,
           task' = task, incident' = incident
    PROVE  Fine(r)'
  <1>1. /\ Asked(r)' = Asked(r) /\ Verdicts(r)' = Verdicts(r) /\ (Reason(r)' <=> Reason(r))
        /\ AutoEvent \in trail'[r] <=> AutoEvent \in trail[r]
    BY SameBooks
  <1>2. Verdicts(r) = {} /\ stored[r] = "none" /\ sse[r] \cap {"delta", "done", "error"} = {}
    BY DEF Fine, Concluded, Streamed
  <1>3. CallsLLM(decision[r]) \/ pc[r] \in {"record", "block"}
    BY DEF Fine, Prompted
  <1>. USE <1>1, SteadyText DEF Fine
  <1>4. Ordered(r)' /\ Recorded(r)'
    BY DEF Ordered, Recorded
  <1>5. Prompted(r)'
    <2>1. \A m \in sent'[r] :
              /\ m.text = "sanitized" \/ m.text = SendText(r)
              /\ m.to = "reviewer" => m.text = ReviewText(r)
              /\ m.chunks \subseteq KeptForTrust(inp[r].hits, inp[r].trust)
              /\ m.draft # "exact"
      BY DEF Prompted
    <2>. QED
      BY <1>3, <2>1 DEF Prompted
  <1>6. Concluded(r)'
    BY <1>2 DEF Concluded
  <1>7. Streamed(r)'
    BY <1>2 DEF Streamed
  <1>8. Raised(r)'
    BY DEF Raised
  <1>. QED
    BY <1>4, <1>5, <1>6, <1>7, <1>8

\* A handler that fails has written error, or nothing, and ends.
LEMMA Ends ==
    ASSUME NEW r \in Requests, TypeOK, Fail(r)
    PROVE  /\ pc'[r] = "closed"
           /\ sse'[r] = sse[r] \/ sse'[r] = sse[r] \cup {"error"}
  <1>1. Emit(r, {"error"}) \/ Emit(r, {})
    BY DEF Fail, Cut
  <1>2. Goto(r, "closed")
    BY DEF Fail
  <1>3. sse'[r] = sse[r] \cup {"error"} \/ sse'[r] = sse[r] \cup {}
    BY <1>1, Puts
  <1>. QED
    BY <1>2, <1>3, Puts

\* Tx2 of an answer commits.
LEMMA ResponseFine ==
    ASSUME NEW r \in Requests, TypeOK, Fine(r), Books(r, {ResponseEvent(r)}),
           pc[r] = "record", pc'[r] \in {"deliver", "closed"},
           stored'[r] = FinalText(r),
           \/ sse'[r] = sse[r]
           \/ sse'[r] = sse[r] \cup {"error"} /\ pc'[r] = "closed",
           inp' = inp, decision' = decision, chunks' = chunks, sent' = sent, echo' = echo,
           task' = task, incident' = incident
    PROVE  Fine(r)'
  <1>1. /\ ResponseEvent(r).type = "chat_response" /\ ResponseEvent(r) # AutoEvent
    BY DEF ResponseEvent, Event, AutoEvent
  <1>2. /\ Asked(r)' = Asked(r) /\ Verdicts(r)' = Verdicts(r) \cup {ResponseEvent(r)}
        /\ AutoEvent \in trail'[r] <=> AutoEvent \in trail[r]
    BY <1>1 DEF Books
  <1>3. /\ Verdicts(r) = {} /\ sse[r] \cap {"delta", "done", "error"} = {}
        /\ sent[r] # {} /\ CallsLLM(decision[r]) /\ task[r] # "incident" /\ ~incident[r]
    BY DEF Fine, Concluded, Streamed, Prompted, Raised
  <1>. USE <1>2, Steady DEF Fine
  <1>4. Ordered(r)' /\ Recorded(r)'
    BY DEF Ordered, Recorded
  <1>5. Prompted(r)'
    BY DEF Prompted
  <1>6. Concluded(r)'
    BY <1>3 DEF Concluded
  <1>7. Streamed(r)'
    BY <1>3 DEF Streamed
  <1>8. Raised(r)'
    BY <1>3 DEF Raised
  <1>. QED
    BY <1>4, <1>5, <1>6, <1>7, <1>8

\* Tx2 of a blocked request commits.
LEMMA BlockedFine ==
    ASSUME NEW r \in Requests, TypeOK, Fine(r), Books(r, {BlockedEvent(r)}),
           pc[r] = "block", pc'[r] \in {"blocked", "closed"},
           stored'[r] = "notice",
           \/ sse'[r] = sse[r]
           \/ sse'[r] = sse[r] \cup {"error"} /\ pc'[r] = "closed",
           inp' = inp, decision' = decision, chunks' = chunks, sent' = sent, echo' = echo,
           task' = task, incident' = incident
    PROVE  Fine(r)'
  <1>1. /\ BlockedEvent(r).type = "chat_blocked" /\ BlockedEvent(r) # AutoEvent
    BY DEF BlockedEvent, Event, AutoEvent
  <1>2. /\ Asked(r)' = Asked(r) /\ Verdicts(r)' = Verdicts(r) \cup {BlockedEvent(r)}
        /\ AutoEvent \in trail'[r] <=> AutoEvent \in trail[r]
    BY <1>1 DEF Books
  <1>3. /\ Verdicts(r) = {} /\ sse[r] \cap {"delta", "done", "error"} = {}
        /\ ~CallsLLM(decision[r]) /\ task[r] # "incident" /\ ~incident[r]
    BY DEF Fine, Concluded, Streamed, Prompted, Raised
  <1>. USE <1>2, Steady DEF Fine
  <1>4. Ordered(r)' /\ Recorded(r)'
    BY DEF Ordered, Recorded
  <1>5. Prompted(r)'
    BY DEF Prompted
  <1>6. Concluded(r)'
    BY <1>3 DEF Concluded
  <1>7. Streamed(r)'
    BY <1>3 DEF Streamed
  <1>8. Raised(r)'
    BY <1>3 DEF Raised
  <1>. QED
    BY <1>4, <1>5, <1>6, <1>7, <1>8

\* The last events go out, and the background task is started for a reason only.
LEMMA LastFine ==
    ASSUME NEW r \in Requests, TypeOK, Fine(r), UNCHANGED <<flow, trail>>,
           pc[r] \in {"deliver", "blocked"}, pc'[r] = "closed",
           sse[r] \subseteq sse'[r],
           sse'[r] \ sse[r] \subseteq IF pc[r] = "deliver" THEN {"delta", "done"} ELSE {"done"},
           task'[r] = "incident" => task[r] = "incident" \/ pc[r] = "blocked" \/ Leaked(r),
           incident' = incident
    PROVE  Fine(r)'
  <1>1. /\ inp' = inp /\ decision' = decision /\ chunks' = chunks /\ sent' = sent
        /\ echo' = echo /\ stored' = stored
    BY DEF flow
  <1>2. /\ Asked(r)' = Asked(r) /\ Verdicts(r)' = Verdicts(r) /\ (Reason(r)' <=> Reason(r))
        /\ AutoEvent \in trail'[r] <=> AutoEvent \in trail[r]
    BY BooksSame, SameBooks
  <1>3. /\ pc[r] = "deliver" => ResponseEvent(r) \in Verdicts(r)
        /\ pc[r] = "blocked" => BlockedEvent(r) \in Verdicts(r)
        /\ sse[r] \cap {"delta", "done", "error"} = {} /\ task[r] # "incident" /\ ~incident[r]
    BY DEF Fine, Concluded, Streamed, Raised
  <1>4. task'[r] = "incident" => Reason(r)
    <2>1. BlockedEvent(r).type = "chat_blocked" /\ (Leaked(r) => ResponseEvent(r).detail = "leak")
      BY DEF BlockedEvent, ResponseEvent, Event
    <2>. QED
      BY <1>3, <2>1 DEF Reason
  <1>. USE <1>1, <1>2, Steady DEF Fine
  <1>5. Ordered(r)' /\ Recorded(r)'
    BY DEF Ordered, Recorded
  <1>6. Prompted(r)'
    BY DEF Prompted
  <1>7. Concluded(r)'
    BY DEF Concluded
  <1>8. Streamed(r)'
    BY <1>3 DEF Streamed
  <1>9. Raised(r)'
    BY <1>3, <1>4 DEF Raised
  <1>. QED
    BY <1>5, <1>6, <1>7, <1>8, <1>9

\* Tx3, which the task attempts once.
LEMMA TaskFine ==
    ASSUME NEW r \in Requests, TypeOK, Fine(r), UNCHANGED <<flow, pc, sse>>,
           task[r] = "incident", task'[r] = "none",
           \/ Books(r, {AutoEvent}) /\ incident'[r]
           \/ Books(r, {}) /\ (incident'[r] <=> incident[r])
    PROVE  Fine(r)'
  <1>1. /\ inp' = inp /\ decision' = decision /\ chunks' = chunks /\ sent' = sent
        /\ echo' = echo /\ stored' = stored
    BY DEF flow
  <1>2. AutoEvent.type \notin {"chat_request", "chat_response", "chat_blocked"}
    BY DEF AutoEvent, Event
  <1>3. Asked(r)' = Asked(r) /\ Verdicts(r)' = Verdicts(r)
    BY <1>2 DEF Books
  <1>4. /\ incident'[r] => incident[r] \/ AutoEvent \in trail'[r]
        /\ AutoEvent \in trail'[r] <=> (AutoEvent \in trail[r] \/ (incident'[r] /\ ~incident[r]))
        /\ incident[r] => incident'[r]
    BY DEF Books, Fine, Raised
  <1>5. Reason(r)' <=> Reason(r)
    BY <1>3 DEF Reason
  <1>. USE <1>1, <1>3, <1>5, Steady DEF Fine
  <1>6. Ordered(r)' /\ Recorded(r)'
    BY DEF Ordered, Recorded
  <1>7. Prompted(r)'
    BY DEF Prompted
  <1>8. Concluded(r)' /\ Streamed(r)'
    BY DEF Concluded, Streamed
  <1>9. Raised(r)'
    BY <1>4 DEF Raised
  <1>. QED
    BY <1>6, <1>7, <1>8, <1>9

\* Every prompt a review could send.
ReviewCan(r) ==
    ReviewPrompts(r, "reviewer", Drafts(r)) \cup ReviewPrompts(r, "primary", Drafts(r))

\* However many rounds a review has, finished or not, it sends some of these, and at
\* least the first draft to a reviewer if it gets to its end.
LEMMA ReviewSends ==
    ASSUME NEW r \in Requests, TypeOK
    PROVE  /\ Review(r) \/ ReviewBegun(r) =>
                \E new \in SUBSET ReviewCan(r) : sent' = [sent EXCEPT ![r] = @ \cup new]
           /\ Review(r) =>
                \E new \in SUBSET ReviewCan(r) :
                   new # {} /\ sent' = [sent EXCEPT ![r] = @ \cup new]
           /\ Review(r) => \E last \in Drafts(r) : echo' = [echo EXCEPT ![r] = last]
  <1>1. ASSUME NEW seen \in SUBSET Drafts(r), NEW told \in SUBSET Drafts(r),
               sent' = [sent EXCEPT ![r] = @ \cup ReviewPrompts(r, "reviewer", seen)
                                             \cup ReviewPrompts(r, "primary", told)]
        PROVE  \E new \in SUBSET ReviewCan(r) :
                  /\ sent' = [sent EXCEPT ![r] = @ \cup new]
                  /\ seen # {} => new # {}
    <2>. DEFINE new == ReviewPrompts(r, "reviewer", seen) \cup ReviewPrompts(r, "primary", told)
    <2>1. new \subseteq ReviewCan(r)
      BY DEF ReviewCan, ReviewPrompts
    <2>2. seen # {} => new # {}
      <3>1. ASSUME NEW d \in seen
            PROVE  [to |-> "reviewer", text |-> ReviewText(r), chunks |-> {}, draft |-> d] \in new
        BY DEF ReviewPrompts
      <3>. QED
        BY <3>1
    <2>3. sent[r] \cup ReviewPrompts(r, "reviewer", seen) \cup ReviewPrompts(r, "primary", told)
            = sent[r] \cup new
      OBVIOUS
    <2>4. sent' = [sent EXCEPT ![r] = sent[r] \cup new]
      BY <1>1, <2>3
    <2>. QED
      BY <2>1, <2>2, <2>4
  <1>2. ASSUME Review(r)
        PROVE  \E new \in SUBSET ReviewCan(r) :
                  new # {} /\ sent' = [sent EXCEPT ![r] = @ \cup new]
    <2>1. PICK revised \in SUBSET Drafts(r), last \in Drafts(r) :
             \E told \in WithFindings(r, revised) :
                sent' = [sent EXCEPT ![r] = @ \cup ReviewPrompts(r, "reviewer", revised \cup {last})
                                              \cup ReviewPrompts(r, "primary", told)]
      BY <1>2 DEF Review
    <2>2. PICK told \in SUBSET Drafts(r) :
             sent' = [sent EXCEPT ![r] = @ \cup ReviewPrompts(r, "reviewer", revised \cup {last})
                                           \cup ReviewPrompts(r, "primary", told)]
      BY <2>1 DEF WithFindings
    <2>3. revised \cup {last} \in SUBSET Drafts(r) /\ revised \cup {last} # {}
      OBVIOUS
    <2>. QED
      BY <1>1, <2>2, <2>3
  <1>3. ASSUME ReviewBegun(r)
        PROVE  \E new \in SUBSET ReviewCan(r) : sent' = [sent EXCEPT ![r] = @ \cup new]
    <2>1. PICK revised \in SUBSET Drafts(r), last \in Drafts(r) :
             \E seen \in {revised, revised \cup {last}}, told \in WithFindings(r, revised) :
                sent' = [sent EXCEPT ![r] = @ \cup ReviewPrompts(r, "reviewer", seen)
                                              \cup ReviewPrompts(r, "primary", told)]
      BY <1>3 DEF ReviewBegun
    <2>2. PICK seen \in SUBSET Drafts(r), told \in SUBSET Drafts(r) :
             sent' = [sent EXCEPT ![r] = @ \cup ReviewPrompts(r, "reviewer", seen)
                                           \cup ReviewPrompts(r, "primary", told)]
      BY <2>1 DEF WithFindings
    <2>. QED
      BY <1>1, <2>2
  <1>4. Review(r) => \E last \in Drafts(r) : echo' = [echo EXCEPT ![r] = last]
    BY DEF Review
  <1>. QED
    BY <1>2, <1>3, <1>4

\* Whoever is asked in a review, the prompt carries the review text, no chunks, and a
\* draft that Remask has gone over.
LEMMA ReviewPromptsAllowed ==
    ASSUME NEW r \in Requests
    PROVE  \A m \in ReviewCan(r) :
              /\ m.text = "sanitized" \/ m.text = SendText(r)
              /\ m.to = "reviewer" => m.text = ReviewText(r)
              /\ m.chunks \subseteq KeptForTrust(inp[r].hits, inp[r].trust)
              /\ m.draft # "exact"
  <1>1. \A m \in ReviewCan(r) : m.text = ReviewText(r) /\ m.chunks = {} /\ m.draft \in Drafts(r)
    BY DEF ReviewCan, ReviewPrompts
  <1>2. ReviewText(r) = "sanitized" \/ ReviewText(r) = SendText(r)
    BY DEF ReviewText
  <1>3. "exact" \notin Drafts(r)
    BY DEF Drafts
  <1>. QED
    BY <1>1, <1>2, <1>3

\* The handler's own steps.
LEMMA HandlerFine ==
    ASSUME NEW r \in Requests, TypeOK, Fine(r), Handler(r)
    PROVE  Fine(r)'
  <1>1. CASE RecordChatRequest(r)
    <2>1. pc[r] = "decided" /\ pc'[r] = "stream" /\ Books(r, {RequestEvent(r)})
      BY <1>1, Puts, BooksCommit DEF RecordChatRequest, At
    <2>. QED
      BY <1>1, <2>1, RequestFine DEF RecordChatRequest
  <1>2. CASE NoRetrieval(r)
    <2>1. pc[r] = "retrieve" /\ pc'[r] = "announce"
      BY <1>2, Puts DEF NoRetrieval, At
    <2>. QED
      BY <1>2, <2>1, MovesOn, BooksSame DEF NoRetrieval, flow
  <1>3. CASE Complete(r)
    <2>1. pc[r] = "call" /\ pc'[r] = "check" /\ sent'[r] = sent[r] \cup {Prompt(r)}
      BY <1>3, Puts DEF Complete, At
    <2>2. /\ Prompt(r).to = "primary" /\ Prompt(r).text = SendText(r)
          /\ Prompt(r).chunks = chunks[r] /\ Prompt(r).draft = "none"
      BY DEF Prompt
    <2>3. chunks[r] \subseteq KeptForTrust(inp[r].hits, inp[r].trust)
      BY DEF Fine, Prompted
    <2>4. UNCHANGED <<inp, decision, chunks, stored, trail, sse, task, incident>>
      BY <1>3 DEF Complete
    <2>5. Books(r, {})
      BY <2>4, BooksSame
    <2>. QED
      BY <2>1, <2>2, <2>3, <2>4, <2>5, PromptsFine
  <1>4. CASE LLMDone(r)
    <2>1. pc[r] = "check" /\ pc'[r] \in {"review", "record", "closed"}
      BY <1>4, Puts DEF LLMDone, At
    <2>. QED
      BY <1>4, <2>1, MovesOn, BooksSame DEF LLMDone, flow
  <1>5. CASE Review(r)
    <2>1. PICK new \in SUBSET ReviewCan(r) :
             new # {} /\ sent' = [sent EXCEPT ![r] = @ \cup new]
      BY <1>5, ReviewSends
    <2>2. pc[r] = "review" /\ pc'[r] = "record" /\ sent'[r] = sent[r] \cup new
      BY <1>5, <2>1, Puts DEF Review, At
    <2>3. new # {}
      BY <2>1
    <2>4. UNCHANGED <<inp, decision, chunks, stored, trail, sse, task, incident>>
      BY <1>5 DEF Review
    <2>5. Books(r, {})
      BY <2>4, BooksSame
    <2>. QED
      BY <2>2, <2>3, <2>4, <2>5, ReviewPromptsAllowed, PromptsFine
  <1>6. CASE RecordResponse(r)
    <2>1. /\ pc[r] = "record" /\ pc'[r] = "deliver" /\ Books(r, {ResponseEvent(r)})
          /\ stored'[r] = FinalText(r)
      BY <1>6, Puts, BooksCommit DEF RecordResponse, At
    <2>. QED
      BY <1>6, <2>1, ResponseFine DEF RecordResponse
  <1>7. CASE Deliver(r)
    <2>1. pc[r] = "deliver" /\ pc'[r] = "closed"
      BY <1>7, Puts DEF Deliver, At
    <2>2. PICK seen \in SUBSET {"delta", "done"} : Emit(r, seen)
      BY <1>7 DEF Deliver, Cut
    <2>3. sse'[r] = sse[r] \cup seen
      BY <2>2, Puts
    <2>4. task'[r] = "incident" => task[r] = "incident" \/ Leaked(r)
      BY <1>7, Puts DEF Deliver, Spawn
    <2>. QED
      BY <1>7, <2>1, <2>3, <2>4, LastFine DEF Deliver
  <1>8. CASE RecordBlocked(r)
    <2>1. /\ pc[r] = "block" /\ pc'[r] = "blocked" /\ Books(r, {BlockedEvent(r)})
          /\ stored'[r] = "notice"
      BY <1>8, Puts, BooksCommit DEF RecordBlocked, At
    <2>. QED
      BY <1>8, <2>1, BlockedFine DEF RecordBlocked
  <1>9. CASE DoneBlocked(r)
    <2>1. pc[r] = "blocked" /\ pc'[r] = "closed"
      BY <1>9, Puts DEF DoneBlocked, At
    <2>2. PICK seen \in SUBSET {"done"} : Emit(r, seen)
      BY <1>9 DEF DoneBlocked, Cut
    <2>3. sse'[r] = sse[r] \cup seen
      BY <2>2, Puts
    <2>. QED
      BY <1>9, <2>1, <2>3, LastFine DEF DoneBlocked
  <1>. QED
    BY <1>1, <1>2, <1>3, <1>4, <1>5, <1>6, <1>7, <1>8, <1>9,
       SanitizeFine, OpenStreamFine, RetrieveFine, AnnounceFine
    DEF Handler

\* Its failures.
LEMMA FailingFine ==
    ASSUME NEW r \in Requests, TypeOK, Fine(r), Failing(r)
    PROVE  Fine(r)'
  <1>1. CASE SanitizeError(r)
    <2>1. pc[r] = "new" /\ pc'[r] = "rejected" /\ Books(r, {})
      BY <1>1, Puts, BooksFails, ErrorsAside DEF SanitizeError, At
    <2>. QED
      BY <1>1, <2>1, MovesOn DEF SanitizeError, flow
  <1>2. CASE PrepareError(r)
    <2>1. pc[r] = "decided" /\ pc'[r] = "rejected" /\ Books(r, {})
      BY <1>2, Puts, BooksFails, ErrorsAside DEF PrepareError, At
    <2>. QED
      BY <1>2, <2>1, MovesOn DEF PrepareError, flow
  <1>3. CASE ReviewPromptFallback(r)
    <2>1. Books(r, {})
      BY <1>3, BooksFails, ErrorsAside DEF ReviewPromptFallback
    <2>. QED
      BY <1>3, <2>1, MovesOn DEF ReviewPromptFallback, flow
  <1>4. CASE RecordRequestError(r)
    <2>1. Books(r, {}) \/ Books(r, {RequestEvent(r)})
      BY <1>4, BooksApplied, ErrorsAside DEF RecordRequestError
    <2>2. pc[r] = "decided" /\ pc'[r] = "rejected"
      BY <1>4, Puts DEF RecordRequestError, At
    <2>3. CASE Books(r, {})
      BY <1>4, <2>2, <2>3, MovesOn DEF RecordRequestError, flow
    <2>4. CASE Books(r, {RequestEvent(r)})
      BY <1>4, <2>2, <2>4, RequestFine DEF RecordRequestError
    <2>. QED
      BY <2>1, <2>3, <2>4
  <1>5. CASE RetrieveError(r)
    <2>1. Event("rag_query", "none", "error").type \in Aside
      BY DEF Event, Aside
    <2>2. pc[r] = "retrieve" /\ pc'[r] = "announce" /\ Books(r, {})
      BY <1>5, <2>1, Puts, BooksFails DEF RetrieveError, At
    <2>. QED
      BY <1>5, <2>2, MovesOn DEF RetrieveError, flow
  <1>6. CASE CompleteError(r)
    <2>1. pc[r] = "call" /\ Books(r, {})
      BY <1>6, BooksFails, ErrorsAside DEF CompleteError, At
    <2>2. Fail(r) /\ UNCHANGED <<inp, decision, chunks, stored, task, incident>>
      BY <1>6 DEF CompleteError
    <2>3. PICK gone \in BOOLEAN :
               sent' = [sent EXCEPT ![r] = IF gone THEN @ \cup {Prompt(r)} ELSE @]
      BY <1>6 DEF CompleteError
    <2>4. sent'[r] = sent[r] \/ sent'[r] = sent[r] \cup {Prompt(r)}
      BY <2>3, Puts
    <2>5. /\ Prompt(r).to = "primary" /\ Prompt(r).text = SendText(r)
          /\ Prompt(r).chunks = chunks[r] /\ Prompt(r).draft = "none"
      BY DEF Prompt
    <2>6. chunks[r] \subseteq KeptForTrust(inp[r].hits, inp[r].trust)
      BY DEF Fine, Prompted
    <2>. QED
      BY <2>1, <2>2, <2>4, <2>5, <2>6, Ends, PromptsFine
  <1>7. CASE ReviewError(r)
    <2>1. pc[r] = "review" /\ Books(r, {})
      BY <1>7, BooksFails, ErrorsAside DEF ReviewError, At
    <2>2. Fail(r) /\ UNCHANGED <<inp, decision, chunks, stored, task, incident>>
      BY <1>7 DEF ReviewError
    <2>3. PICK new \in SUBSET ReviewCan(r) : sent' = [sent EXCEPT ![r] = @ \cup new]
      BY <1>7, ReviewSends DEF ReviewError
    <2>4. sent'[r] = sent[r] \cup new
      BY <2>3, Puts
    <2>. QED
      BY <2>1, <2>2, <2>4, ReviewPromptsAllowed, Ends, PromptsFine
  <1>8. CASE RecordResponseError(r)
    <2>1. PICK applied \in BOOLEAN :
             /\ FailsApplied(r, applied, ResponseEvent(r), ErrorEvent(r, "record_response"))
             /\ stored' = IF applied THEN [stored EXCEPT ![r] = FinalText(r)] ELSE stored
      BY <1>8 DEF RecordResponseError
    <2>2. IF applied THEN Books(r, {ResponseEvent(r)}) ELSE Books(r, {})
      BY <2>1, BooksApplied, ErrorsAside
    <2>3. /\ pc[r] = "record" /\ Fail(r)
          /\ UNCHANGED <<inp, decision, chunks, sent, echo, task, incident>>
      BY <1>8 DEF RecordResponseError, At
    <2>4. /\ pc'[r] = "closed"
          /\ sse'[r] = sse[r] \/ sse'[r] = sse[r] \cup {"error"}
      BY <2>3, Ends
    <2>5. CASE applied
      <3>1. stored'[r] = FinalText(r)
        BY <2>1, <2>5, Puts
      <3>. QED
        BY <2>2, <2>3, <2>4, <2>5, <3>1, ResponseFine
    <2>6. CASE ~applied
      BY <2>1, <2>2, <2>3, <2>4, <2>6, PromptsFine
    <2>. QED
      BY <2>5, <2>6
  <1>9. CASE RecordBlockedError(r)
    <2>1. PICK applied \in BOOLEAN :
             /\ FailsApplied(r, applied, BlockedEvent(r), ErrorEvent(r, "record_blocked"))
             /\ stored' = IF applied THEN [stored EXCEPT ![r] = "notice"] ELSE stored
      BY <1>9 DEF RecordBlockedError
    <2>2. IF applied THEN Books(r, {BlockedEvent(r)}) ELSE Books(r, {})
      BY <2>1, BooksApplied, ErrorsAside
    <2>3. /\ pc[r] = "block" /\ Fail(r)
          /\ UNCHANGED <<inp, decision, chunks, sent, echo, task, incident>>
      BY <1>9 DEF RecordBlockedError, At
    <2>4. /\ pc'[r] = "closed"
          /\ sse'[r] = sse[r] \/ sse'[r] = sse[r] \cup {"error"}
      BY <2>3, Ends
    <2>5. CASE applied
      <3>1. stored'[r] = "notice"
        BY <2>1, <2>5, Puts
      <3>. QED
        BY <2>2, <2>3, <2>4, <2>5, <3>1, BlockedFine
    <2>6. CASE ~applied
      BY <2>1, <2>2, <2>3, <2>4, <2>6, PromptsFine
    <2>. QED
      BY <2>5, <2>6
  <1>10. CASE CreateIncidentError(r)
    <2>1. PICK applied \in BOOLEAN :
             /\ FailsApplied(r, applied, AutoEvent, AutoError)
             /\ incident' = IF applied THEN [incident EXCEPT ![r] = TRUE] ELSE incident
      BY <1>10 DEF CreateIncidentError
    <2>2. AutoError.type \in Aside
      BY DEF AutoError, Event, Aside
    <2>3. IF applied THEN Books(r, {AutoEvent}) ELSE Books(r, {})
      BY <2>1, <2>2, BooksApplied
    <2>4. IF applied THEN incident'[r] ELSE incident' = incident
      BY <2>1, Puts
    <2>5. task[r] = "incident" /\ task'[r] = "none" /\ UNCHANGED <<flow, pc, sse>>
      BY <1>10, Puts DEF CreateIncidentError
    <2>. QED
      BY <2>3, <2>4, <2>5, TaskFine
  <1>. QED
    BY <1>1, <1>2, <1>3, <1>4, <1>5, <1>6, <1>7, <1>8, <1>9, <1>10 DEF Failing

\* The background task and the client.
LEMMA OutsideFine ==
    ASSUME NEW r \in Requests, TypeOK, Fine(r), CreateIncident(r) \/ Disconnect(r)
    PROVE  Fine(r)'
  <1>1. CASE CreateIncident(r)
    <2>1. Books(r, {AutoEvent})
      BY <1>1, BooksCommit DEF CreateIncident
    <2>2. /\ task[r] = "incident" /\ task'[r] = "none" /\ incident'[r]
          /\ UNCHANGED <<flow, pc, sse>>
      BY <1>1, Puts DEF CreateIncident
    <2>. QED
      BY <2>1, <2>2, TaskFine
  <1>2. CASE Disconnect(r)
    BY <1>2, MovesOn, BooksSame DEF Disconnect, flow
  <1>. QED
    BY <1>1, <1>2

(***************************************************************************)
(* Types                                                                   *)
(***************************************************************************)

Stages ==
    {"new", "decided", "stream", "retrieve", "announce", "call", "check", "review",
     "record", "deliver", "block", "blocked", "rejected", "closed"}

Shown == {"meta", "rag_hits", "meta_revised", "delta", "done", "error"}

\* An update at r with a value of the right kind keeps a variable's type.
LEMMA Updates ==
    ASSUME NEW r \in Requests, TypeOK
    PROVE  /\ \A p \in Stages : Goto(r, p) => pc' \in [Requests -> Stages]
           /\ \A S \in SUBSET Shown : Emit(r, S) => sse' \in [Requests -> SUBSET Shown]
           /\ \A S \in SUBSET EventType :
                 Commit(r, S) => trail' \in [Requests -> SUBSET EventType]
  <1>1. pc \in [Requests -> Stages] /\ sse \in [Requests -> SUBSET Shown]
    BY DEF TypeOK, Stages, Shown
  <1>2. trail \in [Requests -> SUBSET EventType]
    BY DEF TypeOK
  <1>3. \A p \in Stages : Goto(r, p) => pc' \in [Requests -> Stages]
    BY <1>1 DEF Goto
  <1>4. \A S \in SUBSET Shown : Emit(r, S) => sse' \in [Requests -> SUBSET Shown]
    BY <1>1 DEF Emit
  <1>5. \A S \in SUBSET EventType : Commit(r, S) => trail' \in [Requests -> SUBSET EventType]
    BY <1>2 DEF Commit
  <1>. QED
    BY <1>3, <1>4, <1>5

\* The two variables that every failure may change.
Logged == trail' \in [Requests -> SUBSET EventType] /\ faults' \in 0..MaxFaults

LEMMA FaultType ==
    ASSUME TypeOK
    PROVE  faults \in Nat /\ faults <= MaxFaults /\ MaxFaults \in Nat
  <1>1. faults \in 0..MaxFaults
    BY DEF TypeOK
  <1>. QED
    BY <1>1, ChatAssumption

LEMMA LoggedSame ==
    ASSUME TypeOK, UNCHANGED <<trail, faults>>
    PROVE  Logged
  BY DEF Logged, TypeOK

LEMMA LoggedCommit ==
    ASSUME NEW r \in Requests, TypeOK, NEW S \in SUBSET EventType, Commit(r, S),
           UNCHANGED faults
    PROVE  Logged
  <1>1. faults' \in 0..MaxFaults
    BY DEF TypeOK
  <1>. QED
    BY <1>1, Updates DEF Logged

LEMMA LoggedAudit ==
    ASSUME NEW r \in Requests, TypeOK, NEW S \in SUBSET EventType, Audit(r, S)
    PROVE  Logged
  <1>1. PICK T \in SUBSET EventType : Commit(r, T)
    BY DEF Audit
  <1>2. faults' \in 0..MaxFaults
    BY FaultType DEF Audit, Fault
  <1>. QED
    BY <1>1, <1>2, Updates DEF Logged

LEMMA LoggedFails ==
    ASSUME NEW r \in Requests, TypeOK, NEW c, NEW e \in EventType, Fails(r, c, e)
    PROVE  Logged
  <1>1. PICK T \in SUBSET EventType : Commit(r, T)
    BY DEF Fails
  <1>2. PICK cause \in 0..1, lost \in 0..1 :
             faults + cause + lost <= MaxFaults /\ faults' = faults + cause + lost
    BY DEF Fails
  <1>3. faults' \in 0..MaxFaults
    BY <1>2, FaultType
  <1>. QED
    BY <1>1, <1>3, Updates DEF Logged

LEMMA LoggedApplied ==
    ASSUME NEW r \in Requests, TypeOK, NEW a \in BOOLEAN, NEW k \in EventType,
           NEW e \in EventType, FailsApplied(r, a, k, e)
    PROVE  Logged
  <1>1. PICK T \in SUBSET EventType : Commit(r, T)
    BY DEF FailsApplied
  <1>2. PICK lost \in 0..1 :
             faults + 1 + lost <= MaxFaults /\ faults' = faults + 1 + lost
    BY DEF FailsApplied
  <1>3. faults' \in 0..MaxFaults
    BY <1>2, FaultType
  <1>. QED
    BY <1>1, <1>3, Updates DEF Logged

LEMMA EndsType ==
    ASSUME NEW r \in Requests, TypeOK, Fail(r)
    PROVE  pc' \in [Requests -> Stages] /\ sse' \in [Requests -> SUBSET Shown]
  <1>1. PICK S \in SUBSET Shown : Emit(r, S)
    BY DEF Fail, Cut, Shown
  <1>2. "closed" \in Stages
    BY DEF Stages
  <1>. QED
    BY <1>1, <1>2, Updates DEF Fail

\* The events of the chat flow are audit events.
Steps ==
    {"sanitize", "encrypt_mappings", "sanitize_system_prompt",
     "sanitize_review_system_prompt_fallback", "record_request", "llm", "model_review",
     "record_response", "record_blocked"}

LEMMA EventTypes ==
    ASSUME NEW r \in Requests, TypeOK
    PROVE  /\ \A s \in Steps : ErrorEvent(r, s) \in EventType
           /\ RequestEvent(r) \in EventType /\ ResponseEvent(r) \in EventType
           /\ BlockedEvent(r) \in EventType /\ AutoEvent \in EventType
           /\ AutoError \in EventType
           /\ Event("rag_query", "none", "error") \in EventType
           /\ Event("chat_error", "none", "preview_token_miss") \in EventType
  <1>1. decision[r] \in Decisions
    BY DEF TypeOK
  <1>2. \A s \in Steps : ErrorEvent(r, s) \in EventType
    BY <1>1 DEF ErrorEvent, Event, EventType, Steps
  <1>3. RequestEvent(r) \in EventType /\ BlockedEvent(r) \in EventType
    BY <1>1 DEF RequestEvent, BlockedEvent, Event, EventType
  <1>4. ResponseEvent(r) \in EventType
    BY <1>1 DEF ResponseEvent, Event, EventType
  <1>5. AutoEvent \in EventType /\ AutoError \in EventType
    BY DEF AutoEvent, AutoError, Event, EventType
  <1>6. /\ Event("rag_query", "none", "error") \in EventType
        /\ Event("chat_error", "none", "preview_token_miss") \in EventType
    BY DEF Event, EventType
  <1>. QED
    BY <1>2, <1>3, <1>4, <1>5, <1>6

\* What is known of an input.
LEMMA InputTypes ==
    ASSUME NEW r \in Requests, TypeOK
    PROVE  /\ inp[r].trust \in Trusts
           /\ inp[r].risk \in [level : Levels, classes : SUBSET Classes]
           /\ inp[r].hits \subseteq Levels \cup {""}
           /\ KeptForTrust(inp[r].hits, inp[r].trust) \subseteq Levels \cup {""}
  <1>1. inp[r] \in InputType
    BY ChatAssumption DEF TypeOK
  <1>2. /\ inp[r].trust \in Trusts
        /\ inp[r].risk \in [level : Levels, classes : SUBSET Classes]
        /\ inp[r].hits \subseteq Levels \cup {""}
    BY <1>1 DEF InputType
  <1>. QED
    BY <1>2 DEF KeptForTrust

LEMMA PromptTypes ==
    ASSUME NEW r \in Requests, TypeOK
    PROVE  /\ Prompt(r) \in PromptType
           /\ ReviewCan(r) \subseteq PromptType
           /\ Drafts(r) \subseteq Spellings
  <1>1. chunks[r] \subseteq Levels \cup {""}
    BY DEF TypeOK
  <1>2. SendText(r) \in {"original", "sanitized"} /\ ReviewText(r) \in {"original", "sanitized"}
    BY DEF SendText, ReviewText
  <1>3. Drafts(r) \subseteq Spellings
    BY DEF Drafts, Spellings
  <1>4. Prompt(r) \in PromptType
    BY <1>1, <1>2 DEF Prompt, PromptType, Spellings
  <1>5. ReviewCan(r) \subseteq PromptType
    BY <1>2, <1>3 DEF ReviewCan, ReviewPrompts, PromptType
  <1>. QED
    BY <1>3, <1>4, <1>5

\* The parts of TypeOK that steps disturb together.
FlowTyped ==
    /\ inp \in [Requests -> Inputs]
    /\ decision \in [Requests -> Decisions]
    /\ chunks \in [Requests -> SUBSET (Levels \cup {""})]
    /\ sent \in [Requests -> SUBSET PromptType]
    /\ echo \in [Requests -> Spellings]
    /\ stored \in [Requests -> {"none", "notice", "masked", "raw"}]

Placed == pc \in [Requests -> Stages] /\ sse \in [Requests -> SUBSET Shown]

Others ==
    /\ online \in [Requests -> BOOLEAN]
    /\ task \in [Requests -> {"none", "incident"}]
    /\ incident \in [Requests -> BOOLEAN]
    /\ proc \in {"up", "stopping", "exited"}

LEMMA TypeParts ==
    /\ TypeOK => FlowTyped /\ Placed /\ Others
    /\ FlowTyped' /\ Placed' /\ Others' /\ Logged => TypeOK'
  BY DEF TypeOK, FlowTyped, Placed, Others, Logged, Stages, Shown, PromptType

LEMMA FlowKept ==
    ASSUME FlowTyped, UNCHANGED flow
    PROVE  FlowTyped'
  BY DEF FlowTyped, flow

LEMMA OthersKept ==
    ASSUME Others, UNCHANGED <<online, task, incident, proc>>
    PROVE  Others'
  BY DEF Others

LEMMA PlacedKept ==
    ASSUME Placed, UNCHANGED <<pc, sse>>
    PROVE  Placed'
  BY DEF Placed

LEMMA PlacedAt ==
    ASSUME NEW r \in Requests, TypeOK, NEW p \in Stages, Goto(r, p),
           (\E S \in SUBSET Shown : Emit(r, S)) \/ UNCHANGED sse
    PROVE  Placed'
  <1>1. pc' \in [Requests -> Stages]
    BY Updates
  <1>2. sse' \in [Requests -> SUBSET Shown]
    BY Updates, TypeParts DEF Placed
  <1>. QED
    BY <1>1, <1>2 DEF Placed

LEMMA FinalTextType ==
    ASSUME NEW r
    PROVE  FinalText(r) \in {"masked", "raw"}
  BY DEF FinalText

LEMMA HandlerType ==
    ASSUME NEW r \in Requests, TypeOK, Handler(r)
    PROVE  TypeOK'
  <1>1. FlowTyped /\ Placed /\ Others
    BY TypeParts
  <1>2. CASE Sanitize(r)
    <2>1. Decide(inp[r].trust, inp[r].risk) \in Decisions
      BY InputTypes, DecideType
    <2>2. FlowTyped'
      BY <1>1, <1>2, <2>1 DEF FlowTyped, Sanitize
    <2>3. Placed' /\ Others'
      BY <1>1, <1>2, PlacedAt, OthersKept DEF Sanitize, Stages
    <2>4. Logged
      BY <1>2, LoggedSame, LoggedAudit, EventTypes DEF Sanitize
    <2>. QED
      BY <2>2, <2>3, <2>4, TypeParts
  <1>3. CASE RecordChatRequest(r)
    <2>1. FlowTyped' /\ Placed' /\ Others'
      BY <1>1, <1>3, FlowKept, PlacedAt, OthersKept DEF RecordChatRequest, Stages
    <2>2. Logged
      BY <1>3, LoggedCommit, EventTypes DEF RecordChatRequest
    <2>. QED
      BY <2>1, <2>2, TypeParts
  <1>4. CASE OpenStream(r)
    <2>1. FlowTyped' /\ Others' /\ Logged
      BY <1>1, <1>4, FlowKept, OthersKept, LoggedSame DEF OpenStream
    <2>2. Placed'
      BY <1>4, PlacedAt DEF OpenStream, Cut, Stages, Shown
    <2>. QED
      BY <2>1, <2>2, TypeParts
  <1>5. CASE NoRetrieval(r)
    <2>1. FlowTyped' /\ Placed' /\ Others' /\ Logged
      BY <1>1, <1>5, FlowKept, PlacedAt, OthersKept, LoggedSame DEF NoRetrieval, Stages
    <2>. QED
      BY <2>1, TypeParts
  <1>6. CASE Retrieve(r)
    <2>. DEFINE revised == Revise(decision[r], inp[r].risk.level, inp[r].hits)
                kept    == KeptForTrust(inp[r].hits, inp[r].trust)
                X       == {Event("rag_query", "none", ""),
                            Event("rag_chunk_dropped_high_risk", "none", ""),
                            Event("policy_revised_after_rag", revised, ""),
                            Event("policy_revised_after_rag", revised, "throttled")}
    <2>1. revised \in Decisions /\ kept \subseteq Levels \cup {""}
      BY <1>1, ReviseStep, InputTypes DEF FlowTyped
    <2>2. X \subseteq EventType
      <3>1. /\ Event("rag_query", "none", "") \in EventType
            /\ Event("rag_chunk_dropped_high_risk", "none", "") \in EventType
        BY DEF Event, EventType
      <3>2. Event("policy_revised_after_rag", revised, "") \in EventType
        BY <2>1 DEF Event, EventType
      <3>3. Event("policy_revised_after_rag", revised, "throttled") \in EventType
        BY <2>1 DEF Event, EventType
      <3>. QED
        BY <3>1, <3>2, <3>3
    <2>3. PICK S \in SUBSET X : Audit(r, S)
      BY <1>6 DEF Retrieve
    <2>4. Logged
      BY <2>2, <2>3, LoggedAudit
    <2>5. PICK fit \in SUBSET kept :
               chunks' = [chunks EXCEPT ![r] = IF CallsLLM(revised) THEN fit ELSE {}]
      BY <1>6 DEF Retrieve
    <2>6. decision' = [decision EXCEPT ![r] = revised] /\ UNCHANGED <<inp, sent, echo, stored>>
      BY <1>6 DEF Retrieve
    <2>7. FlowTyped'
      BY <1>1, <2>1, <2>5, <2>6 DEF FlowTyped
    <2>8. Placed' /\ Others'
      BY <1>1, <1>6, PlacedAt, OthersKept DEF Retrieve, Stages
    <2>. QED
      BY <2>4, <2>7, <2>8, TypeParts
  <1>7. CASE Announce(r)
    <2>1. FlowTyped' /\ Others' /\ Logged
      BY <1>1, <1>7, FlowKept, OthersKept, LoggedSame DEF Announce
    <2>2. \E p \in {"call", "block", "closed"}, S \in SUBSET {"rag_hits", "meta_revised"} :
             Goto(r, p) /\ Emit(r, S)
      BY <1>7 DEF Announce, Cut
    <2>3. Placed'
      BY <2>2, PlacedAt DEF Stages, Shown
    <2>. QED
      BY <2>1, <2>3, TypeParts
  <1>8. CASE Complete(r)
    <2>1. Placed' /\ Others' /\ Logged
      BY <1>1, <1>8, PlacedAt, OthersKept, LoggedSame DEF Complete, Stages
    <2>2. FlowTyped'
      BY <1>1, <1>8, PromptTypes DEF FlowTyped, Complete, Spellings
    <2>. QED
      BY <2>1, <2>2, TypeParts
  <1>9. CASE LLMDone(r)
    <2>1. FlowTyped' /\ Others' /\ Logged
      BY <1>1, <1>9, FlowKept, OthersKept, LoggedSame DEF LLMDone
    <2>2. Placed'
      BY <1>9, PlacedAt DEF LLMDone, Stages
    <2>. QED
      BY <2>1, <2>2, TypeParts
  <1>10. CASE Review(r)
    <2>1. Placed' /\ Others' /\ Logged
      BY <1>1, <1>10, PlacedAt, OthersKept, LoggedSame DEF Review, Stages
    <2>2. PICK new \in SUBSET ReviewCan(r) : sent' = [sent EXCEPT ![r] = @ \cup new]
      BY <1>10, ReviewSends
    <2>3. PICK last \in Drafts(r) : echo' = [echo EXCEPT ![r] = last]
      BY <1>10, ReviewSends
    <2>4. last \in Spellings
      BY PromptTypes
    <2>5. UNCHANGED <<inp, decision, chunks, stored>>
      BY <1>10 DEF Review
    <2>6. FlowTyped'
      BY <1>1, <2>2, <2>3, <2>4, <2>5, PromptTypes DEF FlowTyped
    <2>. QED
      BY <2>1, <2>6, TypeParts
  <1>11. CASE RecordResponse(r)
    <2>1. FlowTyped'
      BY <1>1, <1>11, FinalTextType DEF FlowTyped, RecordResponse
    <2>2. Placed' /\ Others'
      BY <1>1, <1>11, PlacedAt, OthersKept DEF RecordResponse, Stages
    <2>3. Logged
      BY <1>11, LoggedCommit, EventTypes DEF RecordResponse
    <2>. QED
      BY <2>1, <2>2, <2>3, TypeParts
  <1>12. CASE Deliver(r)
    <2>1. FlowTyped' /\ Logged
      BY <1>1, <1>12, FlowKept, LoggedSame DEF Deliver
    <2>2. Placed'
      BY <1>12, PlacedAt DEF Deliver, Cut, Stages, Shown
    <2>3. Others'
      BY <1>1, <1>12 DEF Others, Deliver, Spawn
    <2>. QED
      BY <2>1, <2>2, <2>3, TypeParts
  <1>13. CASE RecordBlocked(r)
    <2>1. FlowTyped'
      BY <1>1, <1>13 DEF FlowTyped, RecordBlocked
    <2>2. Placed' /\ Others'
      BY <1>1, <1>13, PlacedAt, OthersKept DEF RecordBlocked, Stages
    <2>3. Logged
      BY <1>13, LoggedCommit, EventTypes DEF RecordBlocked
    <2>. QED
      BY <2>1, <2>2, <2>3, TypeParts
  <1>14. CASE DoneBlocked(r)
    <2>1. FlowTyped' /\ Logged
      BY <1>1, <1>14, FlowKept, LoggedSame DEF DoneBlocked
    <2>2. Placed'
      BY <1>14, PlacedAt DEF DoneBlocked, Cut, Stages, Shown
    <2>3. Others'
      BY <1>1, <1>14 DEF Others, DoneBlocked, Spawn
    <2>. QED
      BY <2>1, <2>2, <2>3, TypeParts
  <1>. QED
    BY <1>2, <1>3, <1>4, <1>5, <1>6, <1>7, <1>8, <1>9, <1>10, <1>11, <1>12, <1>13, <1>14
    DEF Handler

LEMMA FailingType ==
    ASSUME NEW r \in Requests, TypeOK, Failing(r)
    PROVE  TypeOK'
  <1>1. FlowTyped /\ Placed /\ Others
    BY TypeParts
  <1>2. \A s \in Steps : ErrorEvent(r, s) \in EventType
    BY EventTypes
  <1>3. CASE SanitizeError(r)
    <2>1. FlowTyped' /\ Placed' /\ Others'
      BY <1>1, <1>3, FlowKept, PlacedAt, OthersKept DEF SanitizeError, Stages
    <2>2. Logged
      BY <1>2, <1>3, LoggedFails DEF SanitizeError, Steps
    <2>. QED
      BY <2>1, <2>2, TypeParts
  <1>4. CASE PrepareError(r)
    <2>1. FlowTyped' /\ Placed' /\ Others'
      BY <1>1, <1>4, FlowKept, PlacedAt, OthersKept DEF PrepareError, Stages
    <2>2. Logged
      BY <1>2, <1>4, LoggedFails DEF PrepareError, Steps
    <2>. QED
      BY <2>1, <2>2, TypeParts
  <1>5. CASE ReviewPromptFallback(r)
    <2>1. FlowTyped' /\ Placed' /\ Others'
      BY <1>1, <1>5, FlowKept, PlacedKept, OthersKept DEF ReviewPromptFallback
    <2>2. Logged
      BY <1>2, <1>5, LoggedFails DEF ReviewPromptFallback, Steps
    <2>. QED
      BY <2>1, <2>2, TypeParts
  <1>6. CASE RecordRequestError(r)
    <2>1. FlowTyped' /\ Placed' /\ Others'
      BY <1>1, <1>6, FlowKept, PlacedAt, OthersKept DEF RecordRequestError, Stages
    <2>2. Logged
      BY <1>2, <1>6, LoggedApplied, EventTypes DEF RecordRequestError, Steps
    <2>. QED
      BY <2>1, <2>2, TypeParts
  <1>7. CASE RetrieveError(r)
    <2>1. FlowTyped' /\ Placed' /\ Others'
      BY <1>1, <1>7, FlowKept, PlacedAt, OthersKept DEF RetrieveError, Stages
    <2>2. Logged
      BY <1>7, LoggedFails, EventTypes DEF RetrieveError
    <2>. QED
      BY <2>1, <2>2, TypeParts
  <1>8. CASE CompleteError(r)
    <2>1. FlowTyped'
      <3>1. PICK gone \in BOOLEAN :
                 sent' = [sent EXCEPT ![r] = IF gone THEN @ \cup {Prompt(r)} ELSE @]
        BY <1>8 DEF CompleteError
      <3>2. UNCHANGED <<inp, decision, chunks, echo, stored>>
        BY <1>8 DEF CompleteError
      <3>. QED
        BY <1>1, <3>1, <3>2, PromptTypes DEF FlowTyped
    <2>2. Placed' /\ Others'
      BY <1>1, <1>8, EndsType, OthersKept DEF CompleteError, Placed
    <2>3. Logged
      BY <1>2, <1>8, LoggedFails DEF CompleteError, Steps
    <2>. QED
      BY <2>1, <2>2, <2>3, TypeParts
  <1>9. CASE ReviewError(r)
    <2>1. PICK new \in SUBSET ReviewCan(r) : sent' = [sent EXCEPT ![r] = @ \cup new]
      BY <1>9, ReviewSends DEF ReviewError
    <2>2. FlowTyped'
      BY <1>1, <1>9, <2>1, PromptTypes DEF FlowTyped, ReviewError
    <2>3. Placed' /\ Others'
      BY <1>1, <1>9, EndsType, OthersKept DEF ReviewError, Placed
    <2>4. Logged
      BY <1>2, <1>9, LoggedFails DEF ReviewError, Steps
    <2>. QED
      BY <2>2, <2>3, <2>4, TypeParts
  <1>10. CASE RecordResponseError(r)
    <2>1. FlowTyped'
      BY <1>1, <1>10, FinalTextType DEF FlowTyped, RecordResponseError
    <2>2. Placed' /\ Others'
      BY <1>1, <1>10, EndsType, OthersKept DEF RecordResponseError, Placed
    <2>3. Logged
      BY <1>2, <1>10, LoggedApplied, EventTypes DEF RecordResponseError, Steps
    <2>. QED
      BY <2>1, <2>2, <2>3, TypeParts
  <1>11. CASE RecordBlockedError(r)
    <2>1. FlowTyped'
      BY <1>1, <1>11 DEF FlowTyped, RecordBlockedError
    <2>2. Placed' /\ Others'
      BY <1>1, <1>11, EndsType, OthersKept DEF RecordBlockedError, Placed
    <2>3. Logged
      BY <1>2, <1>11, LoggedApplied, EventTypes DEF RecordBlockedError, Steps
    <2>. QED
      BY <2>1, <2>2, <2>3, TypeParts
  <1>12. CASE CreateIncidentError(r)
    <2>1. FlowTyped' /\ Placed'
      BY <1>1, <1>12, FlowKept, PlacedKept DEF CreateIncidentError
    <2>2. Others'
      BY <1>1, <1>12 DEF Others, CreateIncidentError
    <2>3. Logged
      BY <1>12, LoggedApplied, EventTypes DEF CreateIncidentError
    <2>. QED
      BY <2>1, <2>2, <2>3, TypeParts
  <1>. QED
    BY <1>3, <1>4, <1>5, <1>6, <1>7, <1>8, <1>9, <1>10, <1>11, <1>12 DEF Failing

LEMMA OutsideType ==
    ASSUME NEW r \in Requests, TypeOK, CreateIncident(r) \/ Disconnect(r)
    PROVE  TypeOK'
  <1>1. FlowTyped /\ Placed /\ Others
    BY TypeParts
  <1>2. FlowTyped' /\ Placed'
    BY <1>1, FlowKept, PlacedKept DEF CreateIncident, Disconnect
  <1>3. Others'
    BY <1>1 DEF Others, CreateIncident, Disconnect
  <1>4. Logged
    BY LoggedCommit, LoggedSame, EventTypes DEF CreateIncident, Disconnect
  <1>. QED
    BY <1>2, <1>3, <1>4, TypeParts

LEMMA ProcessType ==
    ASSUME TypeOK, Shutdown \/ Exit
    PROVE  TypeOK'
  <1>1. FlowTyped /\ Placed /\ Others
    BY TypeParts
  <1>2. FlowTyped' /\ Placed'
    BY <1>1, FlowKept, PlacedKept DEF Shutdown, Exit
  <1>3. Others'
    BY <1>1 DEF Others, Shutdown, Exit
  <1>4. Logged
    BY LoggedSame DEF Shutdown, Exit
  <1>. QED
    BY <1>2, <1>3, <1>4, TypeParts

(***************************************************************************)
(* Other requests                                                          *)
(***************************************************************************)

LEMMA AloneCommit ==
    ASSUME NEW r \in Requests, NEW q \in Requests \ {r}, TypeOK,
           \/ \E S : Commit(r, S)
           \/ \E S : Audit(r, S)
           \/ \E c, e : Fails(r, c, e)
           \/ \E a, k, e : FailsApplied(r, a, k, e)
    PROVE  trail'[q] = trail[q]
  <1>1. \E S : Commit(r, S)
    BY DEF Audit, Fails, FailsApplied
  <1>. QED
    BY <1>1 DEF Commit, TypeOK

\* A step of r's handler, task or client touches no other request.
LEMMA Alone ==
    ASSUME NEW r \in Requests, NEW q \in Requests \ {r}, TypeOK,
           Handler(r) \/ Failing(r) \/ CreateIncident(r) \/ Disconnect(r)
    PROVE  Same(q)
  <1>1. /\ \A p : Goto(r, p) => pc'[q] = pc[q]
        /\ \A S : Emit(r, S) => sse'[q] = sse[q]
    BY DEF Goto, Emit, TypeOK
  <1>2. /\ \A x : [decision EXCEPT ![r] = x][q] = decision[q]
        /\ \A x : [chunks EXCEPT ![r] = x][q] = chunks[q]
        /\ \A x : [sent EXCEPT ![r] = x][q] = sent[q]
    BY DEF TypeOK
  <1>3. /\ \A x : [echo EXCEPT ![r] = x][q] = echo[q]
        /\ \A x : [stored EXCEPT ![r] = x][q] = stored[q]
        /\ \A x : [online EXCEPT ![r] = x][q] = online[q]
    BY DEF TypeOK
  <1>4. /\ \A x : [task EXCEPT ![r] = x][q] = task[q]
        /\ \A x : [incident EXCEPT ![r] = x][q] = incident[q]
    BY DEF TypeOK
  <1>5. Fail(r) => pc'[q] = pc[q] /\ sse'[q] = sse[q]
    BY <1>1 DEF Fail, Cut
  <1>51. \A b : Spawn(r, b) => task'[q] = task[q]
    BY <1>4 DEF Spawn
  <1>6. CASE Handler(r)
    <2>. USE <1>1, <1>2, <1>3, <1>4, AloneCommit DEF Same, flow
    <2>1. CASE Sanitize(r)
      BY <2>1 DEF Sanitize
    <2>2. CASE RecordChatRequest(r)
      BY <2>2 DEF RecordChatRequest
    <2>3. CASE OpenStream(r)
      BY <2>3 DEF OpenStream, Cut
    <2>4. CASE NoRetrieval(r)
      BY <2>4 DEF NoRetrieval
    <2>5. CASE Retrieve(r)
      <3>1. decision'[q] = decision[q] /\ chunks'[q] = chunks[q]
        <4>1. \E x : decision' = [decision EXCEPT ![r] = x]
          BY <2>5 DEF Retrieve
        <4>2. \E x : chunks' = [chunks EXCEPT ![r] = x]
          BY <2>5 DEF Retrieve
        <4>. QED
          BY <4>1, <4>2
      <3>2. \E S : Audit(r, S)
        BY <2>5 DEF Retrieve
      <3>3. trail'[q] = trail[q]
        BY <3>2, AloneCommit
      <3>. QED
        BY <2>5, <3>1, <3>3 DEF Retrieve
    <2>6. CASE Announce(r)
      BY <2>6 DEF Announce, Cut
    <2>7. CASE Complete(r)
      BY <2>7 DEF Complete
    <2>8. CASE LLMDone(r)
      BY <2>8 DEF LLMDone
    <2>9. CASE Review(r)
      <3>1. sent'[q] = sent[q] /\ echo'[q] = echo[q]
        BY <2>9 DEF Review
      <3>. QED
        BY <2>9, <3>1 DEF Review
    <2>10. CASE RecordResponse(r)
      BY <2>10 DEF RecordResponse
    <2>11. CASE Deliver(r)
      <3>1. pc'[q] = pc[q] /\ sse'[q] = sse[q]
        BY <2>11 DEF Deliver, Cut
      <3>2. task'[q] = task[q]
        BY <2>11, <1>51 DEF Deliver
      <3>. QED
        BY <2>11, <3>1, <3>2 DEF Deliver
    <2>12. CASE RecordBlocked(r)
      BY <2>12 DEF RecordBlocked
    <2>13. CASE DoneBlocked(r)
      BY <2>13 DEF DoneBlocked, Cut, Spawn
    <2>. QED
      BY <1>6, <2>1, <2>2, <2>3, <2>4, <2>5, <2>6, <2>7, <2>8, <2>9, <2>10, <2>11, <2>12,
         <2>13 DEF Handler
  <1>7. CASE Failing(r)
    <2>. USE <1>1, <1>2, <1>3, <1>4, <1>5, AloneCommit DEF Same, flow
    <2>1. CASE SanitizeError(r)
      BY <2>1 DEF SanitizeError
    <2>2. CASE PrepareError(r)
      BY <2>2 DEF PrepareError
    <2>3. CASE ReviewPromptFallback(r)
      BY <2>3 DEF ReviewPromptFallback
    <2>4. CASE RecordRequestError(r)
      BY <2>4 DEF RecordRequestError
    <2>5. CASE RetrieveError(r)
      BY <2>5 DEF RetrieveError
    <2>6. CASE CompleteError(r)
      <3>1. sent'[q] = sent[q]
        BY <2>6 DEF CompleteError
      <3>2. trail'[q] = trail[q]
        BY <2>6 DEF CompleteError
      <3>. QED
        BY <2>6, <3>1, <3>2 DEF CompleteError
    <2>7. CASE ReviewError(r)
      <3>1. sent'[q] = sent[q]
        BY <2>7 DEF ReviewError, ReviewBegun
      <3>2. trail'[q] = trail[q]
        BY <2>7 DEF ReviewError
      <3>. QED
        BY <2>7, <3>1, <3>2 DEF ReviewError
    <2>8. CASE RecordResponseError(r)
      BY <2>8 DEF RecordResponseError
    <2>9. CASE RecordBlockedError(r)
      BY <2>9 DEF RecordBlockedError
    <2>10. CASE CreateIncidentError(r)
      BY <2>10 DEF CreateIncidentError
    <2>. QED
      BY <1>7, <2>1, <2>2, <2>3, <2>4, <2>5, <2>6, <2>7, <2>8, <2>9, <2>10 DEF Failing
  <1>8. CASE CreateIncident(r)
    BY <1>2, <1>3, <1>4, <1>8, AloneCommit DEF CreateIncident, Same, flow
  <1>9. CASE Disconnect(r)
    BY <1>3, <1>9 DEF Disconnect, Same, flow
  <1>. QED
    BY <1>6, <1>7, <1>8, <1>9

(***************************************************************************)
(* The invariant                                                           *)
(***************************************************************************)

LEMMA InitInv == Init => IInv
  <1>. SUFFICES ASSUME Init PROVE IInv
    OBVIOUS
  <1>1. TypeOK
    <2>1. faults \in 0..MaxFaults
      BY ChatAssumption DEF Init
    <2>. QED
      BY <2>1 DEF Init, TypeOK, Decisions, Spellings
  <1>2. ASSUME NEW r \in Requests PROVE Fine(r)
    <2>1. /\ pc[r] = "new" /\ chunks[r] = {} /\ sent[r] = {} /\ stored[r] = "none"
          /\ sse[r] = {} /\ task[r] = "none" /\ ~incident[r] /\ trail[r] = {}
      BY DEF Init
    <2>2. Asked(r) = {} /\ Verdicts(r) = {} /\ AutoEvent \notin trail[r]
      BY <2>1 DEF Asked, Verdicts
    <2>. USE <2>1, <2>2
    <2>3. Ordered(r) /\ Recorded(r) /\ Prompted(r)
      BY DEF Ordered, Recorded, Prompted
    <2>4. Concluded(r) /\ Streamed(r) /\ Raised(r)
      BY DEF Concluded, Streamed, Raised
    <2>. QED
      BY <2>3, <2>4 DEF Fine
  <1>. QED
    BY <1>1, <1>2 DEF IInv

LEMMA NextInv == IInv /\ [Next]_vars => IInv'
  <1>. SUFFICES ASSUME IInv, [Next]_vars PROVE IInv'
    OBVIOUS
  <1>1. TypeOK /\ \A q \in Requests : Fine(q)
    BY DEF IInv
  <1>2. ASSUME NEW r \in Requests,
               Handler(r) \/ Failing(r) \/ CreateIncident(r) \/ Disconnect(r)
        PROVE  IInv'
    <2>1. TypeOK'
      BY <1>1, <1>2, HandlerType, FailingType, OutsideType
    <2>2. Fine(r)'
      BY <1>1, <1>2, HandlerFine, FailingFine, OutsideFine
    <2>3. \A q \in Requests \ {r} : Fine(q)'
      BY <1>1, <1>2, Alone, Untouched
    <2>. QED
      BY <2>1, <2>2, <2>3 DEF IInv
  <1>3. ASSUME Shutdown \/ Exit \/ UNCHANGED vars PROVE IInv'
    <2>1. TypeOK'
      <3>1. CASE UNCHANGED vars
        BY <1>1, <3>1 DEF TypeOK, vars
      <3>. QED
        BY <1>1, <1>3, <3>1, ProcessType
    <2>2. \A q \in Requests : Same(q)
      BY <1>3 DEF Same, Shutdown, Exit, vars, flow
    <2>. QED
      BY <1>1, <2>1, <2>2, Untouched DEF IInv
  <1>. QED
    BY <1>2, <1>3 DEF Next

\* In every reachable state the invariant holds of every request.
THEOREM Invariance == Spec => []IInv
  <1>1. Init => IInv
    BY InitInv
  <1>2. IInv /\ [Next]_vars => IInv'
    BY NextInv
  <1>. QED
    BY <1>1, <1>2, PTL DEF Spec

(***************************************************************************)
(* What it says of prompts, trail and stream                               *)
(***************************************************************************)

\* The variables keep their types, whatever fails.
THEOREM TypeCorrect == Spec => []TypeOK
  <1>1. IInv => TypeOK
    BY DEF IInv
  <1>. QED
    BY <1>1, Invariance, PTL

\* Tx1 comes first: nothing sent and nothing shown before the request is recorded.
THEOREM RecordedFirst == Spec => []AuditedFirst
  <1>1. IInv => AuditedFirst
    <2>1. SUFFICES ASSUME IInv, NEW r \in Requests, sent[r] # {} \/ sse[r] # {}
                   PROVE  Has(r, "chat_request")
      BY DEF AuditedFirst
    <2>2. Fine(r)
      BY <2>1 DEF IInv
    <2>3. pc[r] \notin {"new", "decided", "rejected"}
      BY <2>1, <2>2 DEF Fine, Prompted, Streamed
    <2>4. Asked(r) = {Event("chat_request", Base(r), "")}
      BY <2>2, <2>3 DEF Fine, Recorded
    <2>. QED
      BY <2>4 DEF Asked, Has
  <1>. QED
    BY <1>1, Invariance, PTL

\* What the verdicts of a request are.
LEMMA VerdictCases ==
    ASSUME NEW r \in Requests, Fine(r), NEW v \in Verdicts(r)
    PROVE  /\ Verdicts(r) = {v} /\ v.decision = decision[r]
           /\ \/ /\ v = ResponseEvent(r) /\ v.type = "chat_response"
                 /\ sent[r] # {} /\ CallsLLM(decision[r])
                 /\ stored[r] = FinalText(r) /\ v.detail = (IF Leaked(r) THEN "leak" ELSE "")
              \/ /\ v = BlockedEvent(r) /\ v.type = "chat_blocked"
                 /\ sent[r] = {} /\ ~CallsLLM(decision[r])
                 /\ stored[r] = "notice" /\ v.detail = ""
  <1>1. /\ ResponseEvent(r).type = "chat_response" /\ ResponseEvent(r).decision = decision[r]
        /\ ResponseEvent(r).detail = (IF Leaked(r) THEN "leak" ELSE "")
    BY DEF ResponseEvent, Event
  <1>2. /\ BlockedEvent(r).type = "chat_blocked" /\ BlockedEvent(r).decision = decision[r]
        /\ BlockedEvent(r).detail = ""
    BY DEF BlockedEvent, Event
  <1>3. \A w \in Verdicts(r) :
           \/ w = ResponseEvent(r) /\ sent[r] # {} /\ stored[r] = FinalText(r)
           \/ w = BlockedEvent(r) /\ stored[r] = "notice" /\ ~CallsLLM(decision[r])
    BY DEF Fine, Concluded
  <1>4. sent[r] # {} => CallsLLM(decision[r])
    BY DEF Fine, Prompted
  <1>5. CASE v = ResponseEvent(r)
    <2>1. sent[r] # {} /\ CallsLLM(decision[r]) /\ stored[r] = FinalText(r)
      BY <1>1, <1>2, <1>3, <1>4, <1>5
    <2>2. Verdicts(r) = {v}
      BY <1>3, <1>5, <2>1
    <2>. QED
      BY <1>1, <1>5, <2>1, <2>2
  <1>6. CASE v = BlockedEvent(r)
    <2>1. sent[r] = {} /\ ~CallsLLM(decision[r]) /\ stored[r] = "notice"
      BY <1>1, <1>2, <1>3, <1>4, <1>6
    <2>2. Verdicts(r) = {v}
      BY <1>3, <1>6, <2>1
    <2>. QED
      BY <1>2, <1>6, <2>1, <2>2
  <1>. QED
    BY <1>3, <1>5, <1>6

\* Tx2: one verdict, of the branch taken, with the decision of Tx1 or one a step harder.
THEOREM VerdictIsTrue == Spec => []VerdictAgrees
  <1>1. IInv => VerdictAgrees
    <2>1. SUFFICES ASSUME IInv, NEW r \in Requests, NEW v \in Verdicts(r)
                   PROVE  /\ Verdicts(r) = {v}
                          /\ \E e \in trail[r] :
                                /\ e.type = "chat_request"
                                /\ DecisionOrder(v.decision) - DecisionOrder(e.decision) \in 0..1
                          /\ v.type = "chat_blocked" <=> ~CallsLLM(v.decision)
                          /\ v.type = "chat_blocked" <=> sent[r] = {}
      BY DEF VerdictAgrees
    <2>2. Fine(r)
      BY <2>1 DEF IInv
    <2>3. pc[r] \in {"deliver", "blocked", "closed"}
      BY <2>2 DEF Fine, Concluded
    <2>4. Asked(r) = {Event("chat_request", Base(r), "")}
      BY <2>2, <2>3 DEF Fine, Recorded
    <2>5. PICK e \in trail[r] : e.type = "chat_request" /\ e.decision = Base(r)
      <3>1. Event("chat_request", Base(r), "") \in trail[r]
        BY <2>4 DEF Asked
      <3>2. /\ Event("chat_request", Base(r), "").type = "chat_request"
            /\ Event("chat_request", Base(r), "").decision = Base(r)
        BY DEF Event
      <3>. QED
        BY <3>1, <3>2
    <2>6. DecisionOrder(decision[r]) - DecisionOrder(Base(r)) \in 0..1
      BY <2>2, <2>3 DEF Fine, Ordered
    <2>. QED
      BY <2>2, <2>5, <2>6, VerdictCases
  <1>. QED
    BY <1>1, Invariance, PTL

\* Stream shows only what Tx2 has stored, and of a blocked request nothing.
THEOREM ShownIsRecorded == Spec => []ShownAsRecorded
  <1>1. IInv => ShownAsRecorded
    <2>1. SUFFICES ASSUME IInv, NEW r \in Requests
                   PROVE  /\ "delta" \in sse[r] =>
                                Has(r, "chat_response") /\ stored[r] \in {"masked", "raw"}
                          /\ "done" \in sse[r] => Verdicts(r) # {} /\ "error" \notin sse[r]
                          /\ ~CallsLLM(decision[r]) => sse[r] \cap {"delta", "rag_hits"} = {}
      BY DEF ShownAsRecorded
    <2>2. Fine(r)
      BY <2>1 DEF IInv
    <2>3. ASSUME "delta" \in sse[r]
          PROVE  /\ Has(r, "chat_response") /\ stored[r] \in {"masked", "raw"}
                 /\ CallsLLM(decision[r])
      <3>1. ResponseEvent(r) \in Verdicts(r)
        BY <2>2, <2>3 DEF Fine, Streamed
      <3>2. ResponseEvent(r).type = "chat_response"
        BY DEF ResponseEvent, Event
      <3>3. stored[r] = FinalText(r) /\ CallsLLM(decision[r])
        BY <2>2, <3>1, <3>2, VerdictCases
      <3>4. FinalText(r) \in {"masked", "raw"}
        BY FinalTextType
      <3>5. Has(r, "chat_response")
        BY <3>1, <3>2 DEF Has, Verdicts
      <3>. QED
        BY <3>3, <3>4, <3>5
    <2>4. "done" \in sse[r] => Verdicts(r) # {} /\ "error" \notin sse[r]
      BY <2>2 DEF Fine, Streamed
    <2>5. "rag_hits" \in sse[r] => CallsLLM(decision[r])
      BY <2>2 DEF Fine, Streamed
    <2>. QED
      BY <2>3, <2>4, <2>5
  <1>. QED
    BY <1>1, Invariance, PTL

\* finalTexts: a raw value that is stored and shown is flagged as a leak.
THEOREM LeakIsFlagged == Spec => []RawIsFlagged
  <1>1. IInv => RawIsFlagged
    <2>1. SUFFICES ASSUME IInv, NEW r \in Requests, stored[r] = "raw"
                   PROVE  \E v \in Verdicts(r) : v.detail = "leak"
      BY DEF RawIsFlagged
    <2>2. Fine(r)
      BY <2>1 DEF IInv
    <2>3. PICK v \in Verdicts(r) : TRUE
      BY <2>1, <2>2 DEF Fine, Concluded
    <2>4. FinalText(r) = "raw" /\ v.detail = (IF Leaked(r) THEN "leak" ELSE "")
      BY <2>1, <2>2, <2>3, VerdictCases
    <2>5. Leaked(r)
      BY <2>4 DEF FinalText, Remasked, Leaked
    <2>. QED
      BY <2>4, <2>5
  <1>. QED
    BY <1>1, Invariance, PTL

\* Tx3: an incident stands on a verdict, and its audit event with it.
THEOREM IncidentStands == Spec => []IncidentJustified
  <1>1. IInv => IncidentJustified
    BY DEF IInv, Fine, Raised, Reason, IncidentJustified
  <1>. QED
    BY <1>1, Invariance, PTL

\* Decision, revision and action compose: no original of a sensitive request leaves
\* the perimeter or reaches a reviewer, no risky chunk an external model, and nothing
\* of a secret anyone; through all rounds of a review the drafts sent on, to reviewers
\* and to the primary model, are remasked (runModelReview).
THEOREM SentIsAllowed == Spec => []SentAsAllowed
  <1>1. IInv => SentAsAllowed
    <2>1. SUFFICES ASSUME IInv, NEW r \in Requests, NEW m \in sent[r]
                   PROVE  /\ CallsLLM(decision[r]) /\ "secret" \notin inp[r].risk.classes
                          /\ Sensitive(r) /\ (m.to = "reviewer" \/ IsExternalTrust(inp[r].trust))
                                => m.text = "sanitized"
                          /\ IsExternalTrust(inp[r].trust) =>
                                m.chunks \cap {"high", "critical"} = {}
                          /\ m.draft # "exact"
      BY DEF SentAsAllowed
    <2>2. Fine(r) /\ TypeOK
      BY <2>1 DEF IInv
    <2>3. /\ pc[r] \in {"check", "review", "record", "deliver", "closed"}
          /\ CallsLLM(decision[r])
      BY <2>2 DEF Fine, Prompted
    <2>4. DecisionOrder(decision[r]) - DecisionOrder(Base(r)) \in 0..1
      BY <2>2, <2>3 DEF Fine, Ordered
    <2>5. Base(r) # "deny"
      BY <2>3, <2>4 DEF CallsLLM, DecisionOrder
    <2>6. "secret" \notin inp[r].risk.classes
      BY <2>2, <2>5, InputTypes, DecideStrict DEF Base
    <2>7. ASSUME Sensitive(r), IsExternalTrust(inp[r].trust) PROVE SendText(r) = "sanitized"
      <3>1. Base(r) # "allow_raw" /\ Base(r) \in Decisions
        BY <2>2, <2>7, InputTypes, DecideStrict, DecideType DEF Base, Sensitive
      <3>2. decision[r] # "allow_raw"
        BY <2>4, <3>1 DEF DecisionOrder, Decisions
      <3>. QED
        BY <3>2 DEF SendText, SendsOriginal
    <2>8. ASSUME Sensitive(r) PROVE ReviewText(r) = "sanitized"
      BY <2>8 DEF Sensitive, ReviewText, Mapped, SendText
    <2>9. /\ m.text = "sanitized" \/ m.text = SendText(r)
          /\ m.to = "reviewer" => m.text = ReviewText(r)
          /\ m.chunks \subseteq KeptForTrust(inp[r].hits, inp[r].trust)
          /\ m.draft # "exact"
      BY <2>2 DEF Fine, Prompted
    <2>. QED
      BY <2>3, <2>6, <2>7, <2>8, <2>9 DEF KeptForTrust
  <1>. QED
    BY <1>1, Invariance, PTL

(***************************************************************************)
(* How requests end                                                        *)
(***************************************************************************)

\* A verdict, or the error that ended the request, is in the trail.
Told(r) ==
    \/ Verdicts(r) # {}
    \/ \E e \in trail[r] : e.type = "chat_error" /\ e.detail \in ConcludingStages

\* Every way a step writes to r's trail.
Writes(r) ==
    \/ \E S : Commit(r, S) /\ UNCHANGED faults
    \/ \E S : Audit(r, S)
    \/ \E c, e : Fails(r, c, e)
    \/ \E a, k, e : FailsApplied(r, a, k, e)
    \/ UNCHANGED <<trail, faults>>

LEMMA StepWrites ==
    ASSUME NEW r \in Requests,
           Handler(r) \/ Failing(r) \/ CreateIncident(r) \/ Disconnect(r)
    PROVE  Writes(r)
  <1>1. CASE Sanitize(r) \/ RecordChatRequest(r) \/ OpenStream(r) \/ NoRetrieval(r)
    BY <1>1 DEF Writes, Sanitize, RecordChatRequest, OpenStream, NoRetrieval
  <1>2. CASE Retrieve(r)
    BY <1>2 DEF Writes, Retrieve
  <1>3. CASE Announce(r) \/ Complete(r) \/ LLMDone(r) \/ Review(r)
    BY <1>3 DEF Writes, Announce, Complete, LLMDone, Review
  <1>4. CASE RecordResponse(r) \/ Deliver(r) \/ RecordBlocked(r) \/ DoneBlocked(r)
    BY <1>4 DEF Writes, RecordResponse, Deliver, RecordBlocked, DoneBlocked
  <1>5. CASE SanitizeError(r) \/ PrepareError(r) \/ ReviewPromptFallback(r) \/ RecordRequestError(r)
    BY <1>5 DEF Writes, SanitizeError, PrepareError, ReviewPromptFallback, RecordRequestError
  <1>6. CASE RetrieveError(r) \/ CompleteError(r) \/ ReviewError(r)
    BY <1>6 DEF Writes, RetrieveError, CompleteError, ReviewError
  <1>7. CASE RecordResponseError(r) \/ RecordBlockedError(r) \/ CreateIncidentError(r)
    BY <1>7 DEF Writes, RecordResponseError, RecordBlockedError, CreateIncidentError
  <1>8. CASE CreateIncident(r) \/ Disconnect(r)
    BY <1>8 DEF Writes, CreateIncident, Disconnect
  <1>. QED
    BY <1>1, <1>2, <1>3, <1>4, <1>5, <1>6, <1>7, <1>8 DEF Handler, Failing

\* The trail is append-only, and faults are counted.
LEMMA StepGrows ==
    ASSUME NEW r \in Requests, TypeOK, Writes(r)
    PROVE  trail[r] \subseteq trail'[r] /\ faults' \in Nat /\ faults <= faults'
  <1>1. (\E S : Commit(r, S)) \/ UNCHANGED trail
    BY DEF Writes, Audit, Fails, FailsApplied
  <1>2. trail[r] \subseteq trail'[r]
    <2>1. CASE \E S : Commit(r, S)
      <3>1. PICK S : Commit(r, S)
        BY <2>1
      <3>. QED
        BY <3>1 DEF Commit, TypeOK
    <2>. QED
      BY <1>1, <2>1
  <1>3. faults' \in Nat /\ faults <= faults'
    <2>1. CASE \E c, e : Fails(r, c, e)
      <3>1. PICK cause \in 0..1, lost \in 0..1 : faults' = faults + cause + lost
        BY <2>1 DEF Fails
      <3>. QED
        BY <3>1, FaultType
    <2>2. CASE \E a, k, e : FailsApplied(r, a, k, e)
      <3>1. PICK lost \in 0..1 : faults' = faults + 1 + lost
        BY <2>2 DEF FailsApplied
      <3>. QED
        BY <3>1, FaultType
    <2>3. CASE UNCHANGED faults \/ Fault
      BY <2>3, FaultType DEF Fault
    <2>. QED
      BY <2>1, <2>2, <2>3 DEF Writes, Audit
  <1>. QED
    BY <1>2, <1>3

\* With one fault at most, a failing call of a client that stays is in the trail.
LEMMA ErrorTold ==
    ASSUME NEW r \in Requests, TypeOK, faults' < 2, NEW s \in ConcludingStages,
           \/ online[r] /\ \E c : Fails(r, c, ErrorEvent(r, s))
           \/ \E a, k : FailsApplied(r, a, k, ErrorEvent(r, s))
    PROVE  Told(r)'
  <1>1. ErrorEvent(r, s) \in trail'[r]
    <2>1. CASE online[r] /\ \E c : Fails(r, c, ErrorEvent(r, s))
      <3>1. PICK lost \in 0..1 :
               /\ faults' = faults + 1 + lost
               /\ Commit(r, IF lost = 0 THEN {ErrorEvent(r, s)} ELSE {})
        BY <2>1 DEF Fails
      <3>2. lost = 0
        BY <3>1, FaultType
      <3>. QED
        BY <3>1, <3>2 DEF Commit, TypeOK
    <2>2. CASE \E a, k : FailsApplied(r, a, k, ErrorEvent(r, s))
      <3>1. PICK a, k : FailsApplied(r, a, k, ErrorEvent(r, s))
        BY <2>2
      <3>. DEFINE K == IF a THEN {k} ELSE {}
                  E == ErrorEvent(r, s)
      <3>2. PICK lost \in 0..1 :
               faults' = faults + 1 + lost /\ Commit(r, K \cup (IF lost = 0 THEN {E} ELSE {}))
        BY <3>1 DEF FailsApplied
      <3>3. lost = 0
        BY <3>2, FaultType
      <3>. HIDE DEF K, E
      <3>4. Commit(r, K \cup {E})
        BY <3>2, <3>3
      <3>5. trail'[r] = trail[r] \cup K \cup {E}
        BY <3>4 DEF Commit, TypeOK
      <3>. QED
        BY <3>5 DEF E
    <2>. QED
      BY <2>1, <2>2
  <1>2. ErrorEvent(r, s).type = "chat_error" /\ ErrorEvent(r, s).detail = s
    BY DEF ErrorEvent, Event
  <1>. QED
    BY <1>1, <1>2 DEF Told

\* Every return of the handlers, for a client that stays.
LEMMA ReturnTold ==
    ASSUME NEW r \in Requests, TypeOK, Fine(r), Handler(r) \/ Failing(r),
           pc[r] \notin {"rejected", "closed"}, pc'[r] \in {"rejected", "closed"},
           online[r], faults' < 2
    PROVE  Told(r)'
  <1>1. trail[r] \subseteq trail'[r]
    BY StepWrites, StepGrows
  <1>2. CASE Deliver(r)
    <2>1. ResponseEvent(r) \in Verdicts(r)
      BY <1>2 DEF Deliver, At, Fine, Concluded
    <2>. QED
      BY <1>1, <2>1 DEF Told, Verdicts
  <1>3. CASE DoneBlocked(r)
    <2>1. BlockedEvent(r) \in Verdicts(r)
      BY <1>3 DEF DoneBlocked, At, Fine, Concluded
    <2>. QED
      BY <1>1, <2>1 DEF Told, Verdicts
  <1>4. ASSUME Handler(r), ~Deliver(r), ~DoneBlocked(r) PROVE FALSE
    <2>1. ~OpenStream(r) /\ ~Announce(r) /\ ~LLMDone(r)
      <3>1. ~OpenStream(r)
        BY Puts DEF OpenStream, Cut
      <3>2. ~Announce(r)
        BY Puts DEF Announce, Cut
      <3>3. ~LLMDone(r)
        BY Puts DEF LLMDone
      <3>. QED
        BY <3>1, <3>2, <3>3
    <2>2. ~Sanitize(r) /\ ~RecordChatRequest(r) /\ ~NoRetrieval(r) /\ ~Retrieve(r)
      BY Puts DEF Sanitize, RecordChatRequest, NoRetrieval, Retrieve
    <2>3. ~Complete(r) /\ ~Review(r) /\ ~RecordResponse(r) /\ ~RecordBlocked(r)
      BY Puts DEF Complete, Review, RecordResponse, RecordBlocked
    <2>. QED
      BY <1>4, <2>1, <2>2, <2>3 DEF Handler
  <1>5. CASE Failing(r)
    <2>1. CASE SanitizeError(r)
      BY <2>1, ErrorTold DEF SanitizeError, ConcludingStages
    <2>2. CASE PrepareError(r)
      BY <2>2, ErrorTold DEF PrepareError, ConcludingStages
    <2>3. CASE RecordRequestError(r)
      BY <2>3, ErrorTold DEF RecordRequestError, ConcludingStages
    <2>4. CASE CompleteError(r)
      BY <2>4, ErrorTold DEF CompleteError, ConcludingStages
    <2>5. CASE ReviewError(r)
      BY <2>5, ErrorTold DEF ReviewError, ConcludingStages
    <2>6. CASE RecordResponseError(r)
      BY <2>6, ErrorTold DEF RecordResponseError, ConcludingStages
    <2>7. CASE RecordBlockedError(r)
      BY <2>7, ErrorTold DEF RecordBlockedError, ConcludingStages
    <2>8. ~RetrieveError(r)
      BY Puts DEF RetrieveError
    <2>9. ~ReviewPromptFallback(r) /\ ~CreateIncidentError(r)
      BY DEF ReviewPromptFallback, CreateIncidentError
    <2>. QED
      BY <1>5, <2>1, <2>2, <2>3, <2>4, <2>5, <2>6, <2>7, <2>8, <2>9 DEF Failing
  <1>. QED
    BY <1>2, <1>3, <1>4, <1>5

\* Nobody comes back online.
LEMMA StaysGone ==
    ASSUME NEW r \in Requests, NEW q \in Requests, TypeOK,
           Handler(r) \/ Failing(r) \/ CreateIncident(r) \/ Disconnect(r)
    PROVE  online'[q] => online[q]
  <1>1. CASE Handler(r)
    BY <1>1 DEF Handler, Sanitize, RecordChatRequest, OpenStream, NoRetrieval, Retrieve,
       Announce, Complete, LLMDone, Review, RecordResponse, Deliver, RecordBlocked, DoneBlocked
  <1>2. CASE Failing(r)
    BY <1>2 DEF Failing, SanitizeError, PrepareError, ReviewPromptFallback, RecordRequestError,
       RetrieveError, CompleteError, ReviewError, RecordResponseError, RecordBlockedError,
       CreateIncidentError
  <1>3. CASE CreateIncident(r)
    BY <1>3 DEF CreateIncident
  <1>4. CASE Disconnect(r)
    BY <1>4 DEF Disconnect, TypeOK
  <1>. QED
    BY <1>1, <1>2, <1>3, <1>4

LEMMA ToldKept ==
    ASSUME NEW q, Told(q), trail[q] \subseteq trail'[q]
    PROVE  Told(q)'
  BY DEF Told, Verdicts

\* Every early return: for a client that stays, one failing call never ends a request
\* without its verdict or its error in the trail.
THEOREM EndIsTold == Spec => []ConcludedOrGone
  <1>1. Init => ConcludedOrGone
    BY DEF Init, ConcludedOrGone
  <1>2. IInv /\ ConcludedOrGone /\ [Next]_vars => ConcludedOrGone'
    <2>1. SUFFICES ASSUME IInv, ConcludedOrGone, [Next]_vars, NEW q \in Requests,
                          pc'[q] \in {"rejected", "closed"}, online'[q], faults' < 2
                   PROVE  Told(q)'
      BY DEF ConcludedOrGone, Told
    <2>2. TypeOK /\ Fine(q) /\ (pc[q] \in {"rejected", "closed"} /\ online[q] /\ faults < 2 => Told(q))
      BY <2>1 DEF IInv, ConcludedOrGone, Told
    <2>3. CASE Shutdown \/ Exit \/ UNCHANGED vars
      <3>1. UNCHANGED <<pc, online, faults, trail>>
        BY <2>3 DEF Shutdown, Exit, vars
      <3>. QED
        BY <2>1, <2>2, <3>1, ToldKept
    <2>4. ASSUME NEW r \in Requests,
                 Handler(r) \/ Failing(r) \/ CreateIncident(r) \/ Disconnect(r)
          PROVE  Told(q)'
      <3>1. online[q] /\ faults < 2
        BY <2>1, <2>2, <2>4, StaysGone, StepWrites, StepGrows, FaultType
      <3>2. CASE q # r
        <4>1. pc'[q] = pc[q] /\ trail'[q] = trail[q]
          BY <2>2, <2>4, <3>2, Alone DEF Same
        <4>. QED
          BY <2>1, <2>2, <3>1, <4>1, ToldKept
      <3>3. CASE q = r /\ pc[q] \in {"rejected", "closed"}
        <4>1. trail[q] \subseteq trail'[q]
          BY <2>2, <2>4, <3>3, StepWrites, StepGrows
        <4>. QED
          BY <2>2, <3>1, <3>3, <4>1, ToldKept
      <3>4. CASE q = r /\ pc[q] \notin {"rejected", "closed"}
        <4>1. ~CreateIncident(r) /\ ~Disconnect(r)
          BY <2>1, <3>4 DEF CreateIncident, Disconnect
        <4>. QED
          BY <2>1, <2>2, <2>4, <3>1, <3>4, <4>1, ReturnTold
      <3>. QED
        BY <3>2, <3>3, <3>4
    <2>. QED
      BY <2>1, <2>3, <2>4 DEF Next
  <1>. QED
    BY <1>1, <1>2, Invariance, PTL DEF Spec

(***************************************************************************)
(* The refinement of ChatAudit                                             *)
(***************************************************************************)

\* Deltas or done have been shown.
Seen(r) == sse[r] \cap {"delta", "done"} # {}

\* What a step does to the part of r that ChatAudit sees.
Quiet(r) ==
    /\ Books(r, {}) /\ sent'[r] = sent[r] /\ (Seen(r)' <=> Seen(r))
    /\ incident'[r] <=> incident[r]

Asks(r) ==
    /\ pc[r] = "decided" /\ Books(r, {RequestEvent(r)})
    /\ sent'[r] = sent[r] /\ (Seen(r)' <=> Seen(r)) /\ (incident'[r] <=> incident[r])

Prompts(r) ==
    /\ pc[r] \in {"call", "review"} /\ Books(r, {}) /\ sent[r] \subseteq sent'[r]
    /\ Seen(r)' <=> Seen(r)
    /\ incident'[r] <=> incident[r]

Answers(r) ==
    /\ pc[r] = "record" /\ Books(r, {ResponseEvent(r)})
    /\ sent'[r] = sent[r] /\ (Seen(r)' <=> Seen(r)) /\ (incident'[r] <=> incident[r])

Blocks(r) ==
    /\ pc[r] = "block" /\ Books(r, {BlockedEvent(r)})
    /\ sent'[r] = sent[r] /\ (Seen(r)' <=> Seen(r)) /\ (incident'[r] <=> incident[r])

Shows(r) ==
    /\ pc[r] \in {"deliver", "blocked"} /\ Books(r, {}) /\ sent'[r] = sent[r]
    /\ incident'[r] <=> incident[r]

Raises(r) ==
    /\ task[r] = "incident" /\ Books(r, {AutoEvent}) /\ incident'[r]
    /\ sent'[r] = sent[r] /\ (Seen(r)' <=> Seen(r))

Moves(r) ==
    Quiet(r) \/ Asks(r) \/ Prompts(r) \/ Answers(r) \/ Blocks(r) \/ Shows(r) \/ Raises(r)

\* Events that show nothing of the answer.
LEMMA Unseen ==
    ASSUME NEW r \in Requests, TypeOK,
           sse'[r] = sse[r] \/ \E S : sse'[r] = sse[r] \cup S /\ S \cap {"delta", "done"} = {}
    PROVE  Seen(r)' <=> Seen(r)
  BY DEF Seen

LEMMA HandlerMoves ==
    ASSUME NEW r \in Requests, TypeOK, Handler(r)
    PROVE  Moves(r)
  <1>. USE Unseen, Puts DEF Moves, flow
  <1>1. CASE Sanitize(r)
    <2>1. Books(r, {})
      <3>1. Event("chat_error", "none", "preview_token_miss").type \in Aside
        BY DEF Event, Aside
      <3>. QED
        BY <1>1, <3>1, BooksAudit, BooksSame DEF Sanitize
    <2>. QED
      BY <1>1, <2>1 DEF Sanitize, Quiet
  <1>2. CASE RecordChatRequest(r)
    BY <1>2, BooksCommit DEF RecordChatRequest, At, Asks
  <1>3. CASE OpenStream(r) \/ Announce(r)
    <2>1. \E S : Emit(r, S) /\ S \cap {"delta", "done"} = {}
      BY <1>3 DEF OpenStream, Announce, Cut
    <2>2. Seen(r)' <=> Seen(r)
      BY <2>1
    <2>3. UNCHANGED <<trail, sent, incident>>
      BY <1>3 DEF OpenStream, Announce
    <2>. QED
      BY <2>2, <2>3, BooksSame DEF Quiet
  <1>4. CASE NoRetrieval(r) \/ LLMDone(r)
    BY <1>4, BooksSame DEF NoRetrieval, LLMDone, Quiet
  <1>5. CASE Retrieve(r)
    <2>1. Books(r, {})
      BY <1>5, RetrieveBooks
    <2>. QED
      BY <1>5, <2>1 DEF Retrieve, Quiet
  <1>6. CASE Complete(r)
    <2>1. sent'[r] = sent[r] \cup {Prompt(r)} /\ pc[r] = "call"
      BY <1>6 DEF Complete, At
    <2>. QED
      BY <1>6, <2>1, BooksSame DEF Complete, Prompts
  <1>7. CASE Review(r)
    <2>1. PICK new : sent' = [sent EXCEPT ![r] = @ \cup new]
      BY <1>7, ReviewSends
    <2>2. sent'[r] = sent[r] \cup new /\ pc[r] = "review"
      BY <1>7, <2>1 DEF Review, At
    <2>. QED
      BY <1>7, <2>2, BooksSame DEF Review, Prompts
  <1>8. CASE RecordResponse(r)
    BY <1>8, BooksCommit DEF RecordResponse, At, Answers
  <1>9. CASE RecordBlocked(r)
    BY <1>9, BooksCommit DEF RecordBlocked, At, Blocks
  <1>10. CASE Deliver(r) \/ DoneBlocked(r)
    BY <1>10, BooksSame DEF Deliver, DoneBlocked, At, Shows
  <1>. QED
    BY <1>1, <1>2, <1>3, <1>4, <1>5, <1>6, <1>7, <1>8, <1>9, <1>10 DEF Handler

LEMMA FailingMoves ==
    ASSUME NEW r \in Requests, TypeOK, Failing(r)
    PROVE  Moves(r)
  <1>. USE Unseen, Puts DEF Moves, flow
  <1>1. \A s : ErrorEvent(r, s).type \in Aside
    BY ErrorsAside
  <1>2. Fail(r) => (Seen(r)' <=> Seen(r))
    <2>1. ASSUME Fail(r) PROVE \E S : sse'[r] = sse[r] \cup S /\ S \cap {"delta", "done"} = {}
      BY <2>1 DEF Fail, Cut
    <2>. QED
      BY <2>1
  <1>3. CASE SanitizeError(r) \/ PrepareError(r) \/ ReviewPromptFallback(r)
    <2>1. Books(r, {})
      BY <1>1, <1>3, BooksFails DEF SanitizeError, PrepareError, ReviewPromptFallback
    <2>. QED
      BY <1>3, <2>1 DEF SanitizeError, PrepareError, ReviewPromptFallback, Quiet
  <1>4. CASE RecordRequestError(r)
    <2>1. Books(r, {}) \/ Books(r, {RequestEvent(r)})
      BY <1>1, <1>4, BooksApplied DEF RecordRequestError
    <2>. QED
      BY <1>4, <2>1 DEF RecordRequestError, At, Quiet, Asks
  <1>5. CASE RetrieveError(r)
    <2>1. Event("rag_query", "none", "error").type \in Aside
      BY DEF Event, Aside
    <2>2. Books(r, {})
      BY <1>5, <2>1, BooksFails DEF RetrieveError
    <2>. QED
      BY <1>5, <2>2 DEF RetrieveError, Quiet
  <1>6. CASE CompleteError(r)
    <2>1. PICK gone \in BOOLEAN :
               sent' = [sent EXCEPT ![r] = IF gone THEN @ \cup {Prompt(r)} ELSE @]
      BY <1>6 DEF CompleteError
    <2>2. sent[r] \subseteq sent'[r]
      BY <2>1
    <2>3. Books(r, {}) /\ pc[r] = "call" /\ Fail(r) /\ UNCHANGED incident
      BY <1>1, <1>6, BooksFails DEF CompleteError, At
    <2>. QED
      BY <1>2, <2>2, <2>3 DEF Prompts
  <1>7. CASE ReviewError(r)
    <2>1. PICK new : sent' = [sent EXCEPT ![r] = @ \cup new]
      BY <1>7, ReviewSends DEF ReviewError
    <2>2. sent[r] \subseteq sent'[r]
      BY <2>1
    <2>3. Books(r, {}) /\ pc[r] = "review" /\ Fail(r) /\ UNCHANGED incident
      BY <1>1, <1>7, BooksFails DEF ReviewError, At
    <2>. QED
      BY <1>2, <2>2, <2>3 DEF Prompts
  <1>8. CASE RecordResponseError(r)
    <2>1. Books(r, {}) \/ Books(r, {ResponseEvent(r)})
      BY <1>1, <1>8, BooksApplied DEF RecordResponseError
    <2>2. pc[r] = "record" /\ Fail(r) /\ UNCHANGED <<sent, incident>>
      BY <1>8 DEF RecordResponseError, At
    <2>. QED
      BY <1>2, <2>1, <2>2 DEF Quiet, Answers
  <1>9. CASE RecordBlockedError(r)
    <2>1. Books(r, {}) \/ Books(r, {BlockedEvent(r)})
      BY <1>1, <1>9, BooksApplied DEF RecordBlockedError
    <2>2. pc[r] = "block" /\ Fail(r) /\ UNCHANGED <<sent, incident>>
      BY <1>9 DEF RecordBlockedError, At
    <2>. QED
      BY <1>2, <2>1, <2>2 DEF Quiet, Blocks
  <1>10. CASE CreateIncidentError(r)
    <2>1. PICK applied \in BOOLEAN :
             /\ FailsApplied(r, applied, AutoEvent, AutoError)
             /\ incident' = IF applied THEN [incident EXCEPT ![r] = TRUE] ELSE incident
      BY <1>10 DEF CreateIncidentError
    <2>2. AutoError.type \in Aside
      BY DEF AutoError, Event, Aside
    <2>3. IF applied THEN Books(r, {AutoEvent}) ELSE Books(r, {})
      BY <2>1, <2>2, BooksApplied
    <2>4. IF applied THEN incident'[r] ELSE incident' = incident
      BY <2>1
    <2>5. task[r] = "incident" /\ UNCHANGED <<sent, sse>>
      BY <1>10 DEF CreateIncidentError
    <2>. QED
      BY <2>3, <2>4, <2>5 DEF Quiet, Raises
  <1>. QED
    BY <1>3, <1>4, <1>5, <1>6, <1>7, <1>8, <1>9, <1>10 DEF Failing

LEMMA OutsideMoves ==
    ASSUME NEW r \in Requests, TypeOK, CreateIncident(r) \/ Disconnect(r)
    PROVE  Moves(r)
  <1>1. CASE CreateIncident(r)
    BY <1>1, Puts, Unseen, BooksCommit DEF CreateIncident, Moves, Raises, flow
  <1>2. CASE Disconnect(r)
    BY <1>2, Unseen, BooksSame DEF Disconnect, Moves, Quiet, flow
  <1>. QED
    BY <1>1, <1>2

\* What ChatAudit sees of r.
Verdict(r) ==
    IF Has(r, "chat_blocked") THEN "blocked"
    ELSE IF Leak(r) THEN "leaked"
    ELSE IF Has(r, "chat_response") THEN "answered"
    ELSE "none"

\* Read off the request and the verdicts.
LEMMA Readings ==
    ASSUME NEW r
    PROVE  /\ Has(r, "chat_request") <=> Asked(r) # {}
           /\ Has(r, "chat_blocked") <=> \E v \in Verdicts(r) : v.type = "chat_blocked"
           /\ Has(r, "chat_response") <=> \E v \in Verdicts(r) : v.type = "chat_response"
  BY DEF Has, Asked, Verdicts

LEMMA VerdictNone ==
    ASSUME NEW r
    PROVE  Verdict(r) = "none" <=> Verdicts(r) = {}
  <1>1. \A v \in Verdicts(r) : v.type \in {"chat_blocked", "chat_response"}
    BY DEF Verdicts
  <1>2. CASE Verdicts(r) = {}
    BY <1>2, Readings DEF Verdict, Leak
  <1>3. CASE Verdicts(r) # {}
    <2>1. Has(r, "chat_blocked") \/ Has(r, "chat_response")
      BY <1>1, <1>3, Readings
    <2>. QED
      BY <1>3, <2>1 DEF Verdict
  <1>. QED
    BY <1>2, <1>3

LEMMA VerdictKept ==
    ASSUME NEW r, Asked(r)' = Asked(r), Verdicts(r)' = Verdicts(r)
    PROVE  (Has(r, "chat_request")' <=> Has(r, "chat_request")) /\ Verdict(r)' = Verdict(r)
  <1>1. /\ Has(r, "chat_request")' <=> Asked(r)' # {}
        /\ Has(r, "chat_blocked")' <=> \E v \in Verdicts(r)' : v.type = "chat_blocked"
        /\ Has(r, "chat_response")' <=> \E v \in Verdicts(r)' : v.type = "chat_response"
    BY DEF Has, Asked, Verdicts
  <1>2. Leak(r)' <=> Leak(r)
    BY DEF Leak
  <1>. QED
    BY <1>1, <1>2, Readings DEF Verdict

\* The five steps of ChatAudit, at r.
ReadRecorded == [q \in Requests |-> Has(q, "chat_request")]
ReadCalled   == [q \in Requests |-> sent[q] # {}]
ReadVerdict  == [q \in Requests |-> Verdict(q)]
ReadShown    == [q \in Requests |-> Seen(q)]

LEMMA Abstractly ==
    /\ Audited!vars = <<ReadRecorded, ReadCalled, ReadVerdict, ReadShown, incident>>
    /\ \A r \in Requests :
         /\ Audited!Record(r) <=>
               /\ ~ReadRecorded[r]
               /\ ReadRecorded' = [ReadRecorded EXCEPT ![r] = TRUE]
               /\ UNCHANGED <<ReadCalled, ReadVerdict, ReadShown, incident>>
         /\ Audited!Call(r) <=>
               /\ ReadRecorded[r] /\ ReadVerdict[r] = "none"
               /\ ReadCalled' = [ReadCalled EXCEPT ![r] = TRUE]
               /\ UNCHANGED <<ReadRecorded, ReadVerdict, ReadShown, incident>>
         /\ Audited!Conclude(r) <=>
               /\ ReadRecorded[r] /\ ReadVerdict[r] = "none"
               /\ \E v \in IF ReadCalled[r] THEN {"answered", "leaked"} ELSE {"blocked"} :
                    ReadVerdict' = [ReadVerdict EXCEPT ![r] = v]
               /\ UNCHANGED <<ReadRecorded, ReadCalled, ReadShown, incident>>
         /\ Audited!Show(r) <=>
               /\ ReadVerdict[r] # "none"
               /\ ReadShown' = [ReadShown EXCEPT ![r] = TRUE]
               /\ UNCHANGED <<ReadRecorded, ReadCalled, ReadVerdict, incident>>
         /\ Audited!Raise(r) <=>
               /\ ReadVerdict[r] \in {"leaked", "blocked"} /\ ~incident[r]
               /\ incident' = [incident EXCEPT ![r] = TRUE]
               /\ UNCHANGED <<ReadRecorded, ReadCalled, ReadVerdict, ReadShown>>
  <1>. USE DEF ReadRecorded, ReadCalled, ReadVerdict, ReadShown, Seen, Verdict
  <1>1. Audited!vars = <<ReadRecorded, ReadCalled, ReadVerdict, ReadShown, incident>>
    BY DEF Audited!vars
  <1>2. ASSUME NEW r \in Requests
        PROVE  /\ Audited!Record(r) <=>
                    /\ ~ReadRecorded[r]
                    /\ ReadRecorded' = [ReadRecorded EXCEPT ![r] = TRUE]
                    /\ UNCHANGED <<ReadCalled, ReadVerdict, ReadShown, incident>>
               /\ Audited!Call(r) <=>
                    /\ ReadRecorded[r] /\ ReadVerdict[r] = "none"
                    /\ ReadCalled' = [ReadCalled EXCEPT ![r] = TRUE]
                    /\ UNCHANGED <<ReadRecorded, ReadVerdict, ReadShown, incident>>
    BY DEF Audited!Record, Audited!Call
  <1>. QED
    BY <1>1, <1>2 DEF Audited!Conclude, Audited!Show, Audited!Raise

\* A step of r changes what ChatAudit sees of r only.
LEMMA ReadAt ==
    ASSUME NEW r \in Requests, \A q \in Requests \ {r} : Same(q), TypeOK, TypeOK'
    PROVE  /\ ReadRecorded' = [ReadRecorded EXCEPT ![r] = Has(r, "chat_request")']
           /\ ReadCalled' = [ReadCalled EXCEPT ![r] = (sent[r] # {})']
           /\ ReadVerdict' = [ReadVerdict EXCEPT ![r] = Verdict(r)']
           /\ ReadShown' = [ReadShown EXCEPT ![r] = Seen(r)']
           /\ incident' = [incident EXCEPT ![r] = incident'[r]]
  <1>1. ASSUME NEW q \in Requests \ {r}
        PROVE  /\ Has(q, "chat_request")' <=> Has(q, "chat_request")
               /\ Verdict(q)' = Verdict(q)
               /\ (sent[q] # {})' <=> (sent[q] # {})
               /\ Seen(q)' <=> Seen(q)
               /\ incident'[q] <=> incident[q]
    <2>1. Same(q)
      OBVIOUS
    <2>2. Asked(q)' = Asked(q) /\ Verdicts(q)' = Verdicts(q)
      BY <2>1, BooksSame, SameBooks DEF Same
    <2>. QED
      BY <2>1, <2>2, VerdictKept DEF Same, Seen
  <1>2. incident \in [Requests -> BOOLEAN] /\ incident' \in [Requests -> BOOLEAN]
    BY DEF TypeOK
  <1>3. ReadRecorded' = [ReadRecorded EXCEPT ![r] = Has(r, "chat_request")']
    BY <1>1 DEF ReadRecorded, Has
  <1>4. ReadCalled' = [ReadCalled EXCEPT ![r] = (sent[r] # {})']
    BY <1>1 DEF ReadCalled
  <1>5. ReadVerdict' = [ReadVerdict EXCEPT ![r] = Verdict(r)']
    BY <1>1 DEF ReadVerdict
  <1>6. ReadShown' = [ReadShown EXCEPT ![r] = Seen(r)']
    BY <1>1 DEF ReadShown, Seen
  <1>7. incident' = [incident EXCEPT ![r] = incident'[r]]
    BY <1>1, <1>2
  <1>. QED
    BY <1>3, <1>4, <1>5, <1>6, <1>7

\* Each part kept is a function kept.
LEMMA ReadKept ==
    ASSUME NEW r \in Requests, \A q \in Requests \ {r} : Same(q), TypeOK, TypeOK'
    PROVE  /\ (Has(r, "chat_request")' <=> Has(r, "chat_request")) => UNCHANGED ReadRecorded
           /\ ((sent[r] # {})' <=> (sent[r] # {})) => UNCHANGED ReadCalled
           /\ Verdict(r)' = Verdict(r) => UNCHANGED ReadVerdict
           /\ (Seen(r)' <=> Seen(r)) => UNCHANGED ReadShown
           /\ (incident'[r] <=> incident[r]) => UNCHANGED incident
           /\ Seen(r)' => ReadShown' = [ReadShown EXCEPT ![r] = TRUE]
           /\ Has(r, "chat_request")' => ReadRecorded' = [ReadRecorded EXCEPT ![r] = TRUE]
           /\ (sent[r] # {})' => ReadCalled' = [ReadCalled EXCEPT ![r] = TRUE]
           /\ incident'[r] => incident' = [incident EXCEPT ![r] = TRUE]
  <1>1. /\ (Has(r, "chat_request")' <=> Has(r, "chat_request")) => UNCHANGED ReadRecorded
        /\ Has(r, "chat_request")' => ReadRecorded' = [ReadRecorded EXCEPT ![r] = TRUE]
    BY ReadAt DEF ReadRecorded, Has
  <1>2. /\ ((sent[r] # {})' <=> (sent[r] # {})) => UNCHANGED ReadCalled
        /\ (sent[r] # {})' => ReadCalled' = [ReadCalled EXCEPT ![r] = TRUE]
    BY ReadAt DEF ReadCalled
  <1>3. Verdict(r)' = Verdict(r) => UNCHANGED ReadVerdict
    BY ReadAt DEF ReadVerdict
  <1>4. /\ (Seen(r)' <=> Seen(r)) => UNCHANGED ReadShown
        /\ Seen(r)' => ReadShown' = [ReadShown EXCEPT ![r] = TRUE]
    BY ReadAt DEF ReadShown, Seen
  <1>5. /\ (incident'[r] <=> incident[r]) => UNCHANGED incident
        /\ incident'[r] => incident' = [incident EXCEPT ![r] = TRUE]
    <2>1. incident' = [incident EXCEPT ![r] = incident'[r]]
      BY ReadAt
    <2>2. incident \in [Requests -> BOOLEAN] /\ incident' \in [Requests -> BOOLEAN]
      BY DEF TypeOK
    <2>. QED
      BY <2>1, <2>2
  <1>. QED
    BY <1>1, <1>2, <1>3, <1>4, <1>5

\* The reading stands still when each of its parts does.
LEMMA Still ==
    ASSUME UNCHANGED ReadRecorded, UNCHANGED ReadCalled, UNCHANGED ReadVerdict,
           UNCHANGED ReadShown, UNCHANGED incident
    PROVE  UNCHANGED Audited!vars
  BY DEF Audited!vars, ReadRecorded, ReadCalled, ReadVerdict, ReadShown, Seen, Verdict

\* Where nothing has been sent, shown or concluded yet, and where a verdict stands.
LEMMA MovesAudit ==
    ASSUME NEW r \in Requests, \A q \in Requests \ {r} : Same(q), TypeOK, TypeOK', Fine(r),
           Fine(r)', Moves(r)
    PROVE  \/ UNCHANGED Audited!vars
           \/ \/ Audited!Record(r) \/ Audited!Call(r) \/ Audited!Conclude(r)
              \/ Audited!Show(r) \/ Audited!Raise(r)
  <1>1. /\ ReadRecorded[r] <=> Has(r, "chat_request")
        /\ ReadCalled[r] <=> sent[r] # {}
        /\ ReadVerdict[r] = Verdict(r)
    BY DEF ReadRecorded, ReadCalled, ReadVerdict
  <1>2. Asked(r)' = Asked(r) /\ Verdicts(r)' = Verdicts(r)
        => /\ UNCHANGED <<ReadRecorded, ReadVerdict>>
    BY VerdictKept, ReadKept
  <1>3. Books(r, {}) => UNCHANGED <<ReadRecorded, ReadVerdict>>
    BY <1>2, SameBooks
  <1>4. sent'[r] = sent[r] => UNCHANGED ReadCalled
    BY ReadKept
  <1>5. CASE Quiet(r)
    <2>1. UNCHANGED ReadRecorded /\ UNCHANGED ReadVerdict /\ UNCHANGED ReadCalled
      BY <1>3, <1>4, <1>5 DEF Quiet
    <2>2. UNCHANGED ReadShown
      <3>1. Seen(r)' <=> Seen(r)
        BY <1>5 DEF Quiet, Seen
      <3>. QED
        BY <3>1, ReadKept
    <2>3. UNCHANGED incident
      <3>1. incident'[r] <=> incident[r]
        BY <1>5 DEF Quiet
      <3>. QED
        BY <3>1, ReadKept
    <2>. QED
      BY <2>1, <2>2, <2>3, Still
  <1>6. CASE Asks(r)
    <2>1. /\ RequestEvent(r).type = "chat_request" /\ Asked(r) = {}
      BY <1>6 DEF Asks, RequestEvent, Event, Fine, Recorded
    <2>2. Asked(r)' = {RequestEvent(r)} /\ Verdicts(r)' = Verdicts(r)
      BY <1>6, <2>1 DEF Asks, Books
    <2>3. ~Has(r, "chat_request") /\ Has(r, "chat_request")'
      BY <2>1, <2>2 DEF Has, Asked
    <2>4. Verdict(r)' = Verdict(r)
      <3>1. /\ Has(r, "chat_blocked")' <=> \E v \in Verdicts(r)' : v.type = "chat_blocked"
            /\ Has(r, "chat_response")' <=> \E v \in Verdicts(r)' : v.type = "chat_response"
            /\ Leak(r)' <=> Leak(r)
        BY <2>2 DEF Has, Verdicts, Leak
      <3>. QED
        BY <2>2, <3>1, Readings DEF Verdict
    <2>. QED
      BY <1>1, <1>4, <1>6, <2>3, <2>4, ReadKept, Abstractly DEF Asks
  <1>7. CASE Prompts(r)
    <2>1. Verdicts(r) = {}
      BY <1>7 DEF Prompts, Fine, Concluded
    <2>2. Asked(r) # {}
      BY <1>7 DEF Prompts, Fine, Recorded
    <2>3. Has(r, "chat_request") /\ Verdict(r) = "none"
      BY <2>1, <2>2, Readings, VerdictNone
    <2>4. CASE sent'[r] = {}
      <3>1. sent'[r] = sent[r]
        BY <1>7, <2>4 DEF Prompts
      <3>2. UNCHANGED ReadRecorded /\ UNCHANGED ReadVerdict /\ UNCHANGED ReadCalled
        BY <1>3, <1>4, <1>7, <3>1 DEF Prompts
      <3>3. (Seen(r)' <=> Seen(r)) /\ (incident'[r] <=> incident[r])
        BY <1>7 DEF Prompts, Seen
      <3>4. UNCHANGED ReadShown /\ UNCHANGED incident
        BY <3>3, ReadKept
      <3>. QED
        BY <3>2, <3>4, Still
    <2>5. CASE sent'[r] # {}
      BY <1>1, <1>3, <1>7, <2>3, <2>5, ReadKept, Abstractly DEF Prompts
    <2>. QED
      BY <2>4, <2>5
  <1>8. CASE Answers(r)
    <2>1. Verdicts(r) = {} /\ Asked(r) # {} /\ sent[r] # {}
      BY <1>8 DEF Answers, Fine, Concluded, Recorded, Prompted
    <2>2. Has(r, "chat_request") /\ Verdict(r) = "none"
      BY <2>1, Readings, VerdictNone
    <2>3. ResponseEvent(r).type = "chat_response"
      BY DEF ResponseEvent, Event
    <2>4. Asked(r)' = Asked(r) /\ Verdicts(r)' = {ResponseEvent(r)}
      BY <1>8, <2>1, <2>3 DEF Answers, Books
    <2>5. UNCHANGED ReadRecorded
      <3>1. Has(r, "chat_request")' <=> Has(r, "chat_request")
        BY <2>4 DEF Has, Asked
      <3>. QED
        BY <3>1, ReadKept
    <2>6. Verdict(r)' \in {"answered", "leaked"}
      <3>1. Has(r, "chat_response")' /\ ~Has(r, "chat_blocked")'
        BY <2>3, <2>4 DEF Has, Verdicts
      <3>. QED
        BY <3>1 DEF Verdict
    <2>7. ReadVerdict' = [ReadVerdict EXCEPT ![r] = Verdict(r)']
      BY ReadAt
    <2>. QED
      BY <1>1, <1>4, <1>8, <2>1, <2>2, <2>5, <2>6, <2>7, ReadKept, Abstractly DEF Answers
  <1>9. CASE Blocks(r)
    <2>1. Verdicts(r) = {} /\ Asked(r) # {} /\ sent[r] = {}
      BY <1>9 DEF Blocks, Fine, Concluded, Recorded, Prompted
    <2>2. Has(r, "chat_request") /\ Verdict(r) = "none"
      BY <2>1, Readings, VerdictNone
    <2>3. BlockedEvent(r).type = "chat_blocked"
      BY DEF BlockedEvent, Event
    <2>4. Asked(r)' = Asked(r) /\ Verdicts(r)' = {BlockedEvent(r)}
      BY <1>9, <2>1, <2>3 DEF Blocks, Books
    <2>5. UNCHANGED ReadRecorded
      <3>1. Has(r, "chat_request")' <=> Has(r, "chat_request")
        BY <2>4 DEF Has, Asked
      <3>. QED
        BY <3>1, ReadKept
    <2>6. Verdict(r)' = "blocked"
      <3>1. Has(r, "chat_blocked")'
        BY <2>3, <2>4 DEF Has, Verdicts
      <3>. QED
        BY <3>1 DEF Verdict
    <2>7. ReadVerdict' = [ReadVerdict EXCEPT ![r] = Verdict(r)']
      BY ReadAt
    <2>. QED
      BY <1>1, <1>4, <1>9, <2>1, <2>2, <2>5, <2>6, <2>7, ReadKept, Abstractly DEF Blocks
  <1>10. CASE Shows(r)
    <2>1. Verdicts(r) # {}
      BY <1>10 DEF Shows, Fine, Concluded
    <2>2. Verdict(r) # "none"
      BY <2>1, VerdictNone
    <2>3. ~Seen(r)
      BY <1>10 DEF Shows, Fine, Streamed, Seen
    <2>4. CASE Seen(r)'
      BY <1>1, <1>3, <1>4, <1>10, <2>2, <2>4, ReadKept, Abstractly DEF Shows
    <2>5. CASE ~Seen(r)'
      <3>1. UNCHANGED ReadRecorded /\ UNCHANGED ReadVerdict /\ UNCHANGED ReadCalled
        BY <1>3, <1>4, <1>10 DEF Shows
      <3>2. (Seen(r)' <=> Seen(r)) /\ (incident'[r] <=> incident[r])
        BY <1>10, <2>3, <2>5 DEF Shows
      <3>3. UNCHANGED ReadShown /\ UNCHANGED incident
        BY <3>2, ReadKept
      <3>. QED
        BY <3>1, <3>3, Still
    <2>. QED
      BY <2>4, <2>5
  <1>11. CASE Raises(r)
    <2>1. Reason(r) /\ ~incident[r]
      BY <1>11 DEF Raises, Fine, Raised
    <2>2. Verdict(r) \in {"leaked", "blocked"}
      <3>1. PICK v \in Verdicts(r) : v.type = "chat_blocked" \/ v.detail = "leak"
        BY <2>1 DEF Reason
      <3>2. v.type \in {"chat_blocked", "chat_response"}
        BY DEF Verdicts
      <3>. QED
        BY <3>1, <3>2, Readings DEF Verdict, Leak
    <2>3. AutoEvent.type = "incident_created_auto"
      BY DEF AutoEvent, Event
    <2>4. Asked(r)' = Asked(r) /\ Verdicts(r)' = Verdicts(r)
      BY <1>11, <2>3 DEF Raises, Books
    <2>. QED
      BY <1>1, <1>2, <1>4, <1>11, <2>1, <2>2, <2>4, ReadKept, Abstractly DEF Raises
  <1>. QED
    BY <1>5, <1>6, <1>7, <1>8, <1>9, <1>10, <1>11 DEF Moves

\* Every behaviour of the chat flow, with all its failures and early returns, is one
\* of ChatAudit.
THEOREM AuditImplemented == Spec => ImplementsAudit
  <1>1. Init => Audited!Init
    <2>1. SUFFICES ASSUME Init PROVE Audited!Init
      OBVIOUS
    <2>2. \A r \in Requests : trail[r] = {} /\ sent[r] = {} /\ sse[r] = {}
      BY <2>1 DEF Init
    <2>3. incident = [r \in Requests |-> FALSE]
      BY <2>1 DEF Init
    <2>. QED
      BY <2>2, <2>3 DEF Audited!Init, Has, Leak, Verdicts
  <1>2. IInv /\ IInv' /\ [Next]_vars => [Audited!Next]_Audited!vars
    <2>1. SUFFICES ASSUME IInv, IInv', [Next]_vars
                   PROVE  Audited!Next \/ UNCHANGED Audited!vars
      OBVIOUS
    <2>2. TypeOK /\ TypeOK' /\ \A q \in Requests : Fine(q) /\ Fine(q)'
      BY <2>1 DEF IInv
    <2>3. CASE Shutdown \/ Exit \/ UNCHANGED vars
      <3>1. UNCHANGED <<sent, trail, sse, incident>>
        BY <2>3 DEF Shutdown, Exit, vars, flow
      <3>. QED
        BY <3>1 DEF Audited!vars, Has, Leak, Verdicts
    <2>4. ASSUME NEW r \in Requests,
                 Handler(r) \/ Failing(r) \/ CreateIncident(r) \/ Disconnect(r)
          PROVE  Audited!Next \/ UNCHANGED Audited!vars
      <3>1. Moves(r)
        BY <2>2, <2>4, HandlerMoves, FailingMoves, OutsideMoves
      <3>2. \A q \in Requests \ {r} : Same(q)
        BY <2>2, <2>4, Alone
      <3>3. \/ UNCHANGED Audited!vars
            \/ \/ Audited!Record(r) \/ Audited!Call(r) \/ Audited!Conclude(r)
               \/ Audited!Show(r) \/ Audited!Raise(r)
        BY <2>2, <3>1, <3>2, MovesAudit
      <3>. QED
        BY <3>3 DEF Audited!Next
    <2>. QED
      BY <2>1, <2>3, <2>4 DEF Next
  <1>. QED
    BY <1>1, <1>2, Invariance, PTL DEF Spec, ImplementsAudit, Audited!Spec
=============================================================================
