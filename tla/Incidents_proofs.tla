--------------------------- MODULE Incidents_proofs ---------------------------
(***************************************************************************)
(* The invariant of Incidents, proved for any number of incidents, users,  *)
(* sessions, changes and failing calls.                                    *)
(*                                                                         *)
(* The rows and their audit events are only written by three transactions  *)
(* (filing, patching, growing older); what sessions remember of them is    *)
(* compared by ETag.  So the proof has a lemma per transaction about the   *)
(* rows, and then one step per action about the sessions.                  *)
(***************************************************************************)
EXTENDS Incidents, FiniteSetTheorems, TLAPS

RowTypes ==
    /\ Filed \in SUBSET Ids
    /\ row \in [Filed -> RowType]
    /\ trail \in [Ids -> TrailType]
    /\ clock \in 0..MaxChanges

SessionTypes ==
    /\ req \in [Sessions -> Ops]
    /\ seen \in [Sessions -> [id : Ids, row : RowType] \cup {None}]
    /\ faults \in 0..MaxFaults

\* What is said of rows and audit events alone.
Rows == RowTypes /\ Clocked /\ HistoryIsChain /\ ClosedIsTerminal

\* What is said of sessions.
Views == SessionTypes /\ SeenRows /\ SentETags /\ ReadRows

LEMMA Parts == IInv <=> Rows /\ Views
BY DEF IInv, Rows, Views, TypeOK, RowTypes, SessionTypes

(***************************************************************************)
(* Requests by their place in the handler                                  *)
(***************************************************************************)

ReadOps == [op : {"read"}, id : Ids, patch : Patches, etag : 0..MaxChanges]
CommitOps ==
    [op : {"commit"}, id : Ids, patch : Patches, etag : 0..MaxChanges,
     status : Statuses, severity : Severities]
FileOps == [op : {"find", "insert"}, event : Events, severity : Severities]

LEMMA OpShapes ==
    ASSUME NEW x \in Ops
    PROVE  /\ x.op = "read" => x \in ReadOps
           /\ x.op = "commit" => x \in CommitOps
           /\ x.op \in {"find", "insert"} => x \in FileOps
BY DEF Ops, Idle, ReadOps, CommitOps, FileOps

(***************************************************************************)
(* The three transactions on rows                                          *)
(***************************************************************************)

\* Filing adds a row with a trail of its own and leaves the others alone.
LEMMA FileRows ==
    ASSUME Rows, NEW e \in Events, NEW u \in Users \cup {None}, NEW v \in Severities,
           File(e, u, v)
    PROVE  /\ Rows'
           /\ \A i \in Filed : i \in Filed' /\ row'[i] = row[i]
<1> PICK i \in Ids \ Filed :
      /\ row' = [j \in Filed \cup {i} |->
                   IF j # i THEN row[j]
                   ELSE [event |-> e, reporter |-> u, status |-> "open", severity |-> v,
                         assignee |-> None, resolution |-> "null", closed |-> FALSE,
                         version |-> clock, recent |-> TRUE]]
      /\ trail' = [trail EXCEPT ![i].created = TRUE]
      /\ clock' = clock
  BY DEF File
<1> DEFINE new == [event |-> e, reporter |-> u, status |-> "open", severity |-> v,
                   assignee |-> None, resolution |-> "null", closed |-> FALSE,
                   version |-> clock, recent |-> TRUE]
<1>1. Filed' = Filed \cup {i}
  BY DEF Filed
<1>2. \A j \in Filed : row'[j] = row[j]
  OBVIOUS
<1>3. row'[i] = new
  OBVIOUS
<1>4. new \in RowType
  BY DEF Rows, RowTypes, RowType, Statuses, Texts
<1>5. trail[i] = NoTrail
  BY DEF Rows, HistoryIsChain
<1>6. /\ trail'[i] = [NoTrail EXCEPT !.created = TRUE]
      /\ \A j \in Ids : j # i => trail'[j] = trail[j]
  BY <1>5 DEF Rows, RowTypes
<1>7. RowTypes'
  <2>1. row' \in [Filed' -> RowType]
    BY <1>1, <1>2, <1>3, <1>4 DEF Rows, RowTypes, Filed
  <2>2. trail' \in [Ids -> TrailType]
    BY <1>5 DEF Rows, RowTypes, TrailType
  <2> QED BY <1>1, <2>1, <2>2 DEF Rows, RowTypes
<1>8. Clocked'
  BY <1>1, <1>2, <1>3 DEF Rows, RowTypes, Clocked
<1>9. HistoryIsChain'
  <2>1. trail'[i].created /\ Chain(trail'[i].status, "open", row'[i].status)
    BY <1>3, <1>6 DEF NoTrail, Chain
  <2>2. ASSUME NEW j \in Filed
        PROVE  trail'[j].created /\ Chain(trail'[j].status, "open", row'[j].status)
    BY <1>2, <1>6 DEF Rows, RowTypes, HistoryIsChain
  <2>3. ASSUME NEW j \in Ids \ Filed'
        PROVE  trail'[j] = NoTrail
    BY <1>1, <1>6 DEF Rows, HistoryIsChain
  <2> QED BY <1>1, <2>1, <2>2, <2>3 DEF HistoryIsChain
<1>10. ClosedIsTerminal'
  <2>1. ASSUME NEW j \in Filed
        PROVE  /\ row'[j].closed <=> row'[j].status \in Terminal
               /\ LET h == trail'[j].status IN
                    h # <<>> => (h[Len(h)].resolved <=> row'[j].closed)
    BY <1>2, <1>6 DEF Rows, RowTypes, ClosedIsTerminal
  <2>2. /\ row'[i].closed <=> row'[i].status \in Terminal
        /\ trail'[i].status = <<>>
    BY <1>3, <1>6 DEF NoTrail, Terminal
  <2> QED BY <1>1, <2>1, <2>2 DEF ClosedIsTerminal
<1> QED BY <1>1, <1>2, <1>7, <1>8, <1>9, <1>10 DEF Rows

\* An older row differs in its age only.
LEMMA Aged ==
    ASSUME NEW r \in RowType, NEW s \in {r, [r EXCEPT !.recent = FALSE]}
    PROVE  /\ s \in RowType
           /\ s.version = r.version /\ s.status = r.status /\ s.closed = r.closed
           /\ s.event = r.event /\ s.reporter = r.reporter
           /\ [s EXCEPT !.recent = FALSE] = [r EXCEPT !.recent = FALSE]
<1>1. CASE s = r
  BY <1>1
<1>2. CASE s = [r EXCEPT !.recent = FALSE]
  <2>1. s \in RowType /\ [s EXCEPT !.recent = FALSE] = s
    BY <1>2 DEF RowType
  <2>2. /\ s.version = r.version /\ s.status = r.status /\ s.closed = r.closed
        /\ s.event = r.event /\ s.reporter = r.reporter
    BY <1>2 DEF RowType
  <2> QED BY <1>2, <2>1, <2>2
<1> QED BY <1>1, <1>2

\* Growing older changes nothing an answer shows.
LEMMA GrowRows ==
    ASSUME Rows, NEW k \in Filed, Grow(k)
    PROVE  /\ Rows'
           /\ Filed' = Filed
           /\ \A i \in Filed : /\ row'[i].version = row[i].version
                               /\ row'[i].status = row[i].status
                               /\ [row'[i] EXCEPT !.recent = FALSE] = [row[i] EXCEPT !.recent = FALSE]
<1>1. Filed' = Filed
  BY DEF Grow, Filed
<1>2. ASSUME NEW i \in Filed
      PROVE  row[i] \in RowType /\ row'[i] \in {row[i], [row[i] EXCEPT !.recent = FALSE]}
  BY DEF Grow, Rows, RowTypes
<1>3. ASSUME NEW i \in Filed
      PROVE  /\ row'[i] \in RowType
             /\ row'[i].version = row[i].version /\ row'[i].status = row[i].status
             /\ row'[i].closed = row[i].closed /\ row'[i].event = row[i].event
             /\ row'[i].reporter = row[i].reporter
             /\ [row'[i] EXCEPT !.recent = FALSE] = [row[i] EXCEPT !.recent = FALSE]
  <2> PICK r, s : r = row[i] /\ s = row'[i]
    OBVIOUS
  <2>1. r \in RowType /\ s \in {r, [r EXCEPT !.recent = FALSE]}
    BY <1>2
  <2>2. /\ s \in RowType
        /\ s.version = r.version /\ s.status = r.status /\ s.closed = r.closed
        /\ s.event = r.event /\ s.reporter = r.reporter
        /\ [s EXCEPT !.recent = FALSE] = [r EXCEPT !.recent = FALSE]
    BY <2>1, Aged
  <2> QED BY <2>2
<1>4. trail' = trail /\ clock' = clock
  BY DEF Grow
<1>5. RowTypes'
  <2>1. Filed' \in SUBSET Ids /\ trail' \in [Ids -> TrailType] /\ clock' \in 0..MaxChanges
    BY <1>1, <1>4 DEF Rows, RowTypes
  <2>2. row' = [i \in Filed |-> row'[i]]
    <3>1. row = [i \in Filed |-> row[i]]
      BY DEF Rows, RowTypes
    <3>2. row' = [row EXCEPT ![k].recent = FALSE]
      BY DEF Grow
    <3> QED BY <3>1, <3>2
  <2>3. row' \in [Filed -> RowType]
    <3>1. \A i \in Filed : row'[i] \in RowType
      BY <1>3
    <3> QED BY <2>2, <3>1
  <2> QED BY <1>1, <2>1, <2>3 DEF RowTypes
<1>6. Clocked'
  BY <1>1, <1>3, <1>4 DEF Rows, Clocked
<1>7. HistoryIsChain' /\ ClosedIsTerminal'
  BY <1>1, <1>3, <1>4 DEF Rows, HistoryIsChain, ClosedIsTerminal
<1> QED BY <1>1, <1>3, <1>5, <1>6, <1>7 DEF Rows

\* A chain grows at its end.
LEMMA ChainAppend ==
    ASSUME NEW h \in Seq([from : Statuses, to : Statuses, resolved : BOOLEAN]),
           NEW first, NEW e \in [from : Statuses, to : Statuses, resolved : BOOLEAN],
           Chain(h, first, e.from)
    PROVE  /\ Chain(Append(h, e), first, e.to)
           /\ Append(h, e)[Len(Append(h, e))] = e
<1> DEFINE g == Append(h, e)
<1>1. /\ g \in Seq([from : Statuses, to : Statuses, resolved : BOOLEAN])
      /\ Len(g) = Len(h) + 1 /\ g[Len(g)] = e /\ g # <<>>
      /\ \A k \in 1..Len(h) : g[k] = h[k]
  OBVIOUS
<1>2. ASSUME NEW k \in 1..Len(g)
      PROVE  g[k].from = IF k = 1 THEN first ELSE g[k - 1].to
  <2>1. CASE k \in 1..Len(h)
    BY <1>1, <2>1 DEF Chain
  <2>2. CASE k = Len(h) + 1
    <3>1. g[k].from = e.from
      BY <1>1, <2>2
    <3>2. e.from = IF h = <<>> THEN first ELSE h[Len(h)].to
      BY DEF Chain
    <3>3. CASE h = <<>>
      BY <2>2, <3>1, <3>2, <3>3
    <3>4. CASE h # <<>>
      BY <1>1, <2>2, <3>1, <3>2, <3>4
    <3> QED BY <3>3, <3>4
  <2> QED BY <1>1, <2>1, <2>2
<1> HIDE DEF g
<1>3. Chain(g, first, e.to)
  BY <1>1, <1>2 DEF Chain
<1> QED BY <1>1, <1>3 DEF g

\* What UPDATE incidents SET ... does to one row.
LEMMA PatchedRow ==
    ASSUME NEW r \in RowType, NEW p \in PatchType, clock + 1 \in 0..MaxChanges,
           New(p.status, r.status) \in Statuses
    PROVE  /\ Patched(r, p) \in RowType
           /\ Patched(r, p).status = New(p.status, r.status)
           /\ Patched(r, p).closed = Closed(r, New(p.status, r.status))
           /\ Patched(r, p).version = clock + 1
           /\ Patched(r, p).event = r.event /\ Patched(r, p).reporter = r.reporter
<1> DEFINE st == New(p.status, r.status)
<1>1. /\ New(p.severity, r.severity) \in Severities
      /\ New(p.assignee, r.assignee) \in Users \cup {None}
      /\ New(p.resolution, r.resolution) \in Texts
  BY DEF New, PatchType, RowType, Texts
<1>2. Closed(r, st) \in BOOLEAN
  <2>1. r.closed \in BOOLEAN
    BY DEF RowType
  <2>2. CASE (st \in Terminal) # (r.status \in Terminal)
    <3>1. Closed(r, st) = (st \in Terminal)
      BY <2>2 DEF Closed
    <3> QED BY <3>1
  <2>3. CASE ~((st \in Terminal) # (r.status \in Terminal))
    <3>1. Closed(r, st) = r.closed
      BY <2>3 DEF Closed
    <3> QED BY <2>1, <3>1
  <2> QED BY <2>2, <2>3
<1> QED BY <1>1, <1>2 DEF Patched, RowType

\* What is inserted beside it.
LEMMA AuditedTrail ==
    ASSUME NEW t \in TrailType, NEW p \in PatchType, NEW st \in Statuses, NEW sv \in Severities
    PROVE  /\ Audited(t, p, st, sv) \in TrailType
           /\ Audited(t, p, st, sv).created = t.created
           /\ Audited(t, p, st, sv).status =
                 IF p.status = "keep" THEN t.status
                 ELSE Append(t.status, [from |-> st, to |-> p.status,
                                        resolved |-> p.status \in Terminal])
<1> DEFINE a == IF p.status = "keep" THEN t.status
                ELSE Append(t.status, [from |-> st, to |-> p.status,
                                       resolved |-> p.status \in Terminal])
           b == IF p.severity = "keep" THEN t.severity
                ELSE Append(t.severity, [from |-> sv, to |-> p.severity])
<1>1. a \in Seq([from : Statuses, to : Statuses, resolved : BOOLEAN])
  <2>1. t.status \in Seq([from : Statuses, to : Statuses, resolved : BOOLEAN])
    BY DEF TrailType
  <2>2. CASE p.status = "keep"
    BY <2>1, <2>2
  <2>3. CASE p.status # "keep"
    <3>1. p.status \in Statuses /\ (p.status \in Terminal) \in BOOLEAN
      BY <2>3 DEF PatchType
    <3>2. [from |-> st, to |-> p.status, resolved |-> p.status \in Terminal]
            \in [from : Statuses, to : Statuses, resolved : BOOLEAN]
      BY <3>1, Zenon
    <3> QED BY <2>1, <2>3, <3>2
  <2> QED BY <2>2, <2>3
<1>2. b \in Seq([from : Severities, to : Severities])
  <2>1. t.severity \in Seq([from : Severities, to : Severities])
    BY DEF TrailType
  <2>2. CASE p.severity = "keep"
    BY <2>1, <2>2
  <2>3. CASE p.severity # "keep"
    <3>1. [from |-> sv, to |-> p.severity] \in [from : Severities, to : Severities]
      BY <2>3 DEF PatchType
    <3> QED BY <2>1, <2>3, <3>1
  <2> QED BY <2>2, <2>3
<1> QED BY <1>1, <1>2 DEF Audited, TrailType

\* A transaction of PATCH writes one row and its audit events; with the right
\* "from" the history goes on without a gap.
LEMMA PatchRows ==
    ASSUME Rows, NEW s \in Sessions, req[s] \in CommitOps, req[s].id \in Filed,
           req[s].status = row[req[s].id].status, Apply(s)
    PROVE  /\ Rows'
           /\ Filed' = Filed
           /\ row'[req[s].id].version = clock + 1
           /\ \A i \in Filed : i # req[s].id => row'[i] = row[i]
<1> DEFINE k == req[s].id
           p == req[s].patch
           r == row[k]
           st == New(p.status, r.status)
           h == trail[k].status
<1>1. /\ p \in PatchType /\ r \in RowType /\ k \in Ids
      /\ req[s].severity \in Severities /\ trail[k] \in TrailType
      /\ h \in Seq([from : Statuses, to : Statuses, resolved : BOOLEAN])
      /\ clock \in 0..MaxChanges /\ clock + 1 \in 0..MaxChanges
  <2>1. p \in PatchType /\ req[s].severity \in Severities
    BY IncidentAssumption DEF CommitOps
  <2>2. r \in RowType /\ k \in Ids /\ trail[k] \in TrailType
    BY DEF Rows, RowTypes, CommitOps
  <2>3. h \in Seq([from : Statuses, to : Statuses, resolved : BOOLEAN])
    BY <2>2 DEF TrailType
  <2>4. clock \in 0..MaxChanges /\ clock + 1 \in 0..MaxChanges
    BY IncidentAssumption DEF Rows, RowTypes, Apply
  <2> QED BY <2>1, <2>2, <2>3, <2>4
<1>2. /\ Filed' = Filed
      /\ \A i \in Filed : i # k => row'[i] = row[i]
      /\ row'[k] = Patched(r, p)
      /\ clock' = clock + 1
  BY DEF Apply, Filed
<1>3. /\ \A i \in Ids : i # k => trail'[i] = trail[i]
      /\ trail'[k] = Audited(trail[k], p, req[s].status, req[s].severity)
  BY <1>1 DEF Apply, Rows, RowTypes
<1>4. st \in Statuses
  BY <1>1 DEF New, PatchType, RowType
<1>5. /\ row'[k] \in RowType
      /\ row'[k].status = st
      /\ row'[k].closed = Closed(r, st)
      /\ row'[k].version = clock + 1
      /\ row'[k].event = r.event /\ row'[k].reporter = r.reporter
  BY <1>1, <1>2, <1>4, PatchedRow
<1>6. Closed(r, st) <=> st \in Terminal
  BY DEF Rows, ClosedIsTerminal, Closed
<1>7. /\ trail'[k] \in TrailType
      /\ trail'[k].created
      /\ trail'[k].status = IF p.status = "keep" THEN h
                            ELSE Append(h, [from |-> r.status, to |-> p.status,
                                            resolved |-> p.status \in Terminal])
  <2>1. trail[k].created
    BY DEF Rows, HistoryIsChain
  <2> QED BY <1>1, <1>3, <2>1, AuditedTrail DEF RowType
<1>8. Chain(h, "open", r.status)
  BY DEF Rows, HistoryIsChain
<1>9. /\ Chain(trail'[k].status, "open", st)
      /\ LET g == trail'[k].status IN g # <<>> => (g[Len(g)].resolved <=> st \in Terminal)
  <2>1. CASE p.status = "keep"
    <3>1. st = r.status /\ trail'[k].status = h
      BY <1>7, <2>1 DEF New
    <3>2. h # <<>> => (h[Len(h)].resolved <=> r.status \in Terminal)
      BY DEF Rows, ClosedIsTerminal
    <3> QED BY <1>8, <3>1, <3>2
  <2>2. CASE p.status # "keep"
    <3> DEFINE e == [from |-> r.status, to |-> p.status, resolved |-> p.status \in Terminal]
    <3>1. st = p.status /\ trail'[k].status = Append(h, e)
      BY <1>7, <2>2 DEF New
    <3>2. e \in [from : Statuses, to : Statuses, resolved : BOOLEAN]
      <4>1. r.status \in Statuses /\ p.status \in Statuses
        BY <1>1, <1>4, <3>1 DEF RowType
      <4>2. (p.status \in Terminal) \in BOOLEAN
        OBVIOUS
      <4> QED BY <4>1, <4>2, Zenon
    <3>3. e.from = r.status /\ e.to = p.status /\ (e.resolved <=> p.status \in Terminal)
      OBVIOUS
    <3> HIDE DEF e, h
    <3>4. Chain(h, "open", e.from)
      BY <1>8, <3>3
    <3>5. Chain(Append(h, e), "open", e.to) /\ Append(h, e)[Len(Append(h, e))] = e
      BY <1>1, <3>2, <3>4, ChainAppend
    <3> QED BY <3>1, <3>3, <3>5
  <2> QED BY <2>1, <2>2
<1>10. RowTypes'
  <2>1. row' \in [Filed' -> RowType]
    BY <1>2, <1>5 DEF Apply, Rows, RowTypes, Filed
  <2>2. trail' \in [Ids -> TrailType]
    BY <1>3, <1>7 DEF Apply, Rows, RowTypes
  <2> QED BY <1>1, <1>2, <2>1, <2>2 DEF Rows, RowTypes
<1>11. Clocked'
  <2>1. ASSUME NEW i \in Filed
        PROVE  row'[i].version <= clock'
    <3>1. CASE i = k
      BY <1>1, <1>2, <1>5, <3>1
    <3>2. CASE i # k
      <4>1. row[i].version <= clock /\ row[i].version \in Nat
        BY DEF Rows, Clocked, RowTypes, RowType
      <4> QED BY <1>1, <1>2, <3>2, <4>1
    <3> QED BY <3>1, <3>2
  <2> QED BY <1>2, <2>1 DEF Clocked
<1>12. HistoryIsChain'
  <2>1. ASSUME NEW i \in Filed
        PROVE  trail'[i].created /\ Chain(trail'[i].status, "open", row'[i].status)
    <3>1. CASE i = k
      BY <1>5, <1>7, <1>9, <3>1
    <3>2. CASE i # k
      BY <1>2, <1>3, <3>2 DEF Rows, RowTypes, HistoryIsChain
    <3> QED BY <3>1, <3>2
  <2>2. ASSUME NEW i \in Ids \ Filed
        PROVE  trail'[i] = NoTrail
    BY <1>3 DEF Rows, HistoryIsChain
  <2> QED BY <1>2, <2>1, <2>2 DEF HistoryIsChain
<1>13. ClosedIsTerminal'
  <2>1. ASSUME NEW i \in Filed
        PROVE  /\ row'[i].closed <=> row'[i].status \in Terminal
               /\ LET g == trail'[i].status IN
                    g # <<>> => (g[Len(g)].resolved <=> row'[i].closed)
    <3>1. CASE i = k
      BY <1>5, <1>6, <1>9, <3>1
    <3>2. CASE i # k
      BY <1>2, <1>3, <3>2 DEF Rows, RowTypes, ClosedIsTerminal
    <3> QED BY <3>1, <3>2
  <2> QED BY <1>2, <2>1 DEF ClosedIsTerminal
<1> QED BY <1>2, <1>5, <1>10, <1>11, <1>12, <1>13 DEF Rows

(***************************************************************************)
(* What sessions remember                                                  *)
(***************************************************************************)

\* Rows are never lost, and their ETag changes with anything an answer shows.
Forward ==
    \A i \in Filed :
        /\ i \in Filed'
        /\ row[i].version <= row'[i].version
        /\ row'[i].version = row[i].version =>
             /\ row'[i].status = row[i].status
             /\ [row'[i] EXCEPT !.recent = FALSE] = [row[i] EXCEPT !.recent = FALSE]

\* The three parts of Views that are about one session.
View(s) ==
    /\ seen[s] # None =>
         /\ seen[s].id \in Filed
         /\ seen[s].row.version <= row[seen[s].id].version
         /\ seen[s].row.version = row[seen[s].id].version =>
               seen[s].row = [row[seen[s].id] EXCEPT !.recent = FALSE]
    /\ req[s].op \in {"read", "commit"} =>
         seen[s] # None /\ req[s].id = seen[s].id /\ req[s].etag = seen[s].row.version
    /\ req[s].op = "commit" /\ Matches(s) => req[s].status = row[req[s].id].status

LEMMA ViewBySession == Views <=> SessionTypes /\ \A s \in Sessions : View(s)
BY DEF Views, SeenRows, SentETags, ReadRows, View

LEMMA SameRows ==
    ASSUME Rows, UNCHANGED <<row, trail, clock>>
    PROVE  Rows' /\ Forward /\ Filed' = Filed
<1>1. Filed' = Filed
  BY DEF Filed
<1>2. Rows'
  BY <1>1 DEF Rows, RowTypes, Clocked, HistoryIsChain, ClosedIsTerminal
<1>3. Forward
  BY <1>1 DEF Forward, Rows, RowTypes, RowType
<1> QED BY <1>1, <1>2, <1>3

\* A session whose answer stays, and whose PATCH stays or is over, is still right.
LEMMA KeepView ==
    ASSUME Rows, Rows', Views, Forward, NEW s \in Sessions,
           seen'[s] = seen[s],
           req'[s] = req[s] \/ req'[s].op \notin {"read", "commit"}
    PROVE  View(s)'
<1>1. View(s)
  BY ViewBySession
<1>2. CASE seen[s] = None
  BY <1>1, <1>2 DEF View
<1>3. CASE seen[s] # None
  <2> DEFINE i == seen[s].id
             v == seen[s].row.version
  <2>1. /\ i \in Filed /\ i \in Filed'
        /\ row[i].version \in Nat /\ row'[i].version \in Nat /\ v \in Nat
    <3>1. i \in Filed /\ i \in Filed'
      BY <1>1, <1>3 DEF View, Forward
    <3>2. row[i] \in RowType /\ row'[i] \in RowType
      BY <3>1 DEF Rows, RowTypes
    <3>3. seen[s].row \in RowType
      BY <1>3 DEF Views, SessionTypes
    <3> QED BY <3>1, <3>2, <3>3 DEF RowType
  <2>2. v <= row[i].version /\ row[i].version <= row'[i].version
    BY <1>1, <1>3, <2>1 DEF View, Forward
  <2>3. v = row'[i].version =>
          /\ v = row[i].version
          /\ row'[i].status = row[i].status
          /\ [row'[i] EXCEPT !.recent = FALSE] = [row[i] EXCEPT !.recent = FALSE]
    <3>1. v = row'[i].version => v = row[i].version
      BY <2>1, <2>2
    <3> QED BY <2>1, <3>1 DEF Forward
  <2>4. v <= row'[i].version
    BY <2>1, <2>2
  <2>5. v = row'[i].version => seen[s].row = [row'[i] EXCEPT !.recent = FALSE]
    BY <1>1, <1>3, <2>3 DEF View
  <2>6. req'[s].op \in {"read", "commit"} =>
          req'[s] = req[s] /\ req[s].id = i /\ req[s].etag = v
    BY <1>1 DEF View
  <2>7. req'[s].op = "commit" /\ Matches(s)' => req'[s].status = row'[req'[s].id].status
    BY <1>1, <2>3, <2>6 DEF View, Matches
  <2> QED BY <1>3, <2>1, <2>4, <2>5, <2>6, <2>7 DEF View
<1> QED BY <1>2, <1>3

LEMMA KeepViews ==
    ASSUME Rows, Rows', Views, Forward, SessionTypes',
           seen' = seen, \A s \in Sessions : \/ req'[s] = req[s]
                                             \/ req'[s].op \notin {"read", "commit"}
    PROVE  Views'
<1>1. ASSUME NEW s \in Sessions PROVE View(s)'
  BY <1>1, KeepView
<1> QED BY <1>1 DEF Views, SeenRows, SentETags, ReadRows, View

(***************************************************************************)
(* The actions                                                             *)
(***************************************************************************)

LEMMA FileForward ==
    ASSUME Rows, Rows', \A i \in Filed : i \in Filed' /\ row'[i] = row[i]
    PROVE  Forward
<1>1. ASSUME NEW i \in Filed PROVE row[i].version \in Nat
  BY DEF Rows, RowTypes, RowType
<1>2. ASSUME NEW i \in Filed PROVE row[i].version <= row'[i].version
  BY <1>1
<1> QED BY <1>2, Zenon DEF Forward

LEMMA GrowForward ==
    ASSUME Rows, NEW k \in Filed, Grow(k)
    PROVE  Rows' /\ Forward
<1>1. ASSUME NEW i \in Filed PROVE row[i].version \in Nat
  BY DEF Rows, RowTypes, RowType
<1> QED BY <1>1, GrowRows DEF Forward

\* A PATCH whose If-Match holds read the right "from", and moves the ETag on.
LEMMA PatchForward ==
    ASSUME Rows, Views, NEW s \in Sessions, req[s].op = "commit", Matches(s), Apply(s)
    PROVE  /\ Rows' /\ Forward
           /\ Filed' = Filed /\ req[s].id \in Filed
           /\ \A i \in Filed : i # req[s].id => row'[i] = row[i]
           /\ seen[s].id = req[s].id
           /\ seen[s].row = [row[req[s].id] EXCEPT !.recent = FALSE]
<1>1. req[s] \in CommitOps
  BY OpShapes DEF Views, SessionTypes
<1>2. /\ req[s].id \in Filed /\ req[s].status = row[req[s].id].status
      /\ seen[s].id = req[s].id
      /\ seen[s].row = [row[req[s].id] EXCEPT !.recent = FALSE]
  BY ViewBySession DEF View, Matches
<1>3. /\ Rows' /\ Filed' = Filed
      /\ row'[req[s].id].version = clock + 1
      /\ \A i \in Filed : i # req[s].id => row'[i] = row[i]
  BY <1>1, <1>2, PatchRows
<1>4. ASSUME NEW i \in Filed
      PROVE  row[i].version \in Nat /\ row[i].version <= clock /\ clock \in Nat
  BY DEF Rows, RowTypes, RowType, Clocked
<1>5. ASSUME NEW i \in Filed
      PROVE  /\ row[i].version <= row'[i].version
             /\ row'[i].version = row[i].version => row'[i] = row[i]
  <2>1. CASE i = req[s].id
    BY <1>3, <1>4, <2>1
  <2>2. CASE i # req[s].id
    BY <1>3, <1>4, <2>2
  <2> QED BY <2>1, <2>2
<1>6. Forward
  BY <1>3, <1>5, Zenon DEF Forward
<1> QED BY <1>2, <1>3, <1>6

\* What sessions remember after an action that leaves answers alone.
LEMMA OneRequest ==
    ASSUME Views, NEW s \in Sessions, NEW o \in Ops,
           req' = [req EXCEPT ![s] = o], o.op \notin {"read", "commit"},
           faults' \in 0..MaxFaults, seen' = seen,
           Rows, Rows', Forward
    PROVE  Views'
<1>1. SessionTypes'
  BY DEF Views, SessionTypes
<1>2. ASSUME NEW t \in Sessions
      PROVE  req'[t] = req[t] \/ req'[t].op \notin {"read", "commit"}
  BY DEF Views, SessionTypes
<1> QED BY <1>1, <1>2, KeepViews

LEMMA IdleOp == Idle \in Ops /\ Idle.op = "idle"
BY DEF Ops, Idle

LEMMA FaultBound ==
    ASSUME Views, Fault \/ UNCHANGED faults
    PROVE  faults' \in 0..MaxFaults
BY IncidentAssumption DEF Views, SessionTypes, Fault

LEMMA AutoIncidentStep ==
    ASSUME Rows, Views, NEW e \in Events, NEW v \in Severities, CreateAutoIncident(e, v)
    PROVE  Rows' /\ Forward /\ Views'
<1>1. Rows' /\ Forward
  <2>1. File(e, None, v)
    BY DEF CreateAutoIncident
  <2>2. Rows' /\ \A i \in Filed : i \in Filed' /\ row'[i] = row[i]
    BY <2>1, FileRows
  <2> QED BY <2>2, FileForward
<1>2. SessionTypes' /\ seen' = seen /\ req' = req
  BY DEF CreateAutoIncident, Views, SessionTypes
<1> QED BY <1>1, <1>2, KeepViews

LEMMA PostIncidentStep ==
    ASSUME Rows, Views, NEW s \in Sessions, NEW e \in Events, NEW v \in Severities,
           PostIncident(s, e, v)
    PROVE  Rows' /\ Forward /\ Views'
<1> DEFINE o == [op |-> "find", event |-> e, severity |-> v]
<1>1. Rows' /\ Forward
  BY SameRows DEF PostIncident
<1>2. o \in Ops /\ o.op = "find"
  BY DEF Ops
<1>3. req' = [req EXCEPT ![s] = o] /\ seen' = seen /\ faults' \in 0..MaxFaults
  BY FaultBound DEF PostIncident
<1> HIDE DEF o
<1> QED BY <1>1, <1>2, <1>3, OneRequest

LEMMA FindManualStep ==
    ASSUME Rows, Views, NEW s \in Sessions, FindManual(s)
    PROVE  Rows' /\ Forward /\ Views'
<1> DEFINE o == [req[s] EXCEPT !.op = "insert"]
<1>1. Rows' /\ Forward
  BY SameRows DEF FindManual
<1>2. seen' = seen /\ faults' \in 0..MaxFaults
  BY FaultBound DEF FindManual
<1>3. CASE req' = [req EXCEPT ![s] = Idle]
  BY <1>1, <1>2, <1>3, IdleOp, OneRequest
<1>4. CASE req' = [req EXCEPT ![s].op = "insert"]
  <2>1. req[s] \in FileOps
    BY OpShapes DEF FindManual, Views, SessionTypes
  <2>2. o \in Ops /\ o.op = "insert"
    BY <2>1 DEF FileOps, Ops
  <2>3. req' = [req EXCEPT ![s] = o]
    BY <1>4 DEF Views, SessionTypes
  <2> HIDE DEF o
  <2> QED BY <1>1, <1>2, <2>2, <2>3, OneRequest
<1> QED BY <1>3, <1>4 DEF FindManual

\* Inserting a manual incident, whether its session learns of it or not.
LEMMA FileManual ==
    ASSUME Rows, Views, NEW s \in Sessions, req[s].op = "insert",
           File(req[s].event, UserOf[s], req[s].severity)
    PROVE  Rows' /\ Forward
<1>1. req[s] \in FileOps
  BY OpShapes DEF Views, SessionTypes
<1>2. req[s].event \in Events /\ req[s].severity \in Severities
  BY <1>1 DEF FileOps
<1>3. UserOf[s] \in Users \cup {None} /\ UserOf[s] # None
  BY IncidentAssumption
<1>4. Rows' /\ \A i \in Filed : i \in Filed' /\ row'[i] = row[i]
  BY <1>2, <1>3, FileRows
<1> QED BY <1>4, FileForward

LEMMA ManualIncidentStep ==
    ASSUME Rows, Views, NEW s \in Sessions, CreateManualIncident(s) \/ CreateManualError(s)
    PROVE  Rows' /\ Forward /\ Views'
<1>1. Rows' /\ Forward
  <2>1. CASE File(req[s].event, UserOf[s], req[s].severity)
    BY <2>1, FileManual DEF CreateManualIncident, CreateManualError
  <2>2. CASE UNCHANGED <<row, trail, clock>>
    BY <2>2, SameRows
  <2> QED BY <2>1, <2>2 DEF CreateManualIncident, CreateManualError
<1>2. req' = [req EXCEPT ![s] = Idle] /\ seen' = seen /\ faults' \in 0..MaxFaults
  BY FaultBound DEF CreateManualIncident, CreateManualError
<1> QED BY <1>1, <1>2, IdleOp, OneRequest

LEMMA GrowStep ==
    ASSUME Rows, Views, NEW i \in Filed, Grow(i)
    PROVE  Rows' /\ Forward /\ Views'
<1>1. Rows' /\ Forward
  BY GrowForward
<1>2. SessionTypes' /\ seen' = seen /\ req' = req
  BY DEF Grow, Views, SessionTypes
<1> QED BY <1>1, <1>2, KeepViews

\* An answer that has just been read or written is right.
LEMMA FreshView ==
    ASSUME Rows', NEW s \in Sessions, NEW i \in Filed',
           seen'[s] = [id |-> i, row |-> [row'[i] EXCEPT !.recent = FALSE]],
           req'[s].op \notin {"read", "commit"}
    PROVE  View(s)'
<1>1. row'[i] \in RowType
  BY DEF Rows, RowTypes
<1>2. /\ seen'[s].id = i
      /\ seen'[s].row = [row'[i] EXCEPT !.recent = FALSE]
  OBVIOUS
<1>3. seen'[s].row.version = row'[i].version
  BY <1>1, <1>2, Aged
<1>4. row'[i].version <= row'[i].version
  BY <1>1 DEF RowType
<1> QED BY <1>2, <1>3, <1>4, Zenon DEF View

LEMMA GetIncidentStep ==
    ASSUME Rows, Views, NEW s \in Sessions, NEW i \in Filed, GetIncident(s, i)
    PROVE  Rows' /\ Forward /\ Views'
<1> DEFINE answer == [id |-> i, row |-> [row[i] EXCEPT !.recent = FALSE]]
<1>1. Rows' /\ Forward /\ Filed' = Filed
  BY SameRows DEF GetIncident
<1>2. row' = row /\ req' = req /\ req[s].op = "idle"
  BY DEF GetIncident, Idle
<1>3. seen' = [seen EXCEPT ![s] = answer]
  BY DEF GetIncident, Answer
<1>4. row[i] \in RowType /\ i \in Ids
  BY DEF Rows, RowTypes
<1>5. answer \in [id : Ids, row : RowType]
  BY <1>4, Aged
<1>6. SessionTypes'
  BY <1>2, <1>3, <1>5 DEF GetIncident, Views, SessionTypes
<1>7. seen'[s] = answer
  BY <1>3 DEF Views, SessionTypes
<1>8. ASSUME NEW t \in Sessions PROVE View(t)'
  <2>1. CASE t = s
    <3>1. req'[s].op \notin {"read", "commit"} /\ i \in Filed'
      BY <1>1, <1>2
    <3> QED BY <1>1, <1>2, <1>7, <2>1, <3>1, FreshView
  <2>2. CASE t # s
    <3>1. seen'[t] = seen[t] /\ req'[t] = req[t]
      BY <1>2, <1>3, <2>2 DEF Views, SessionTypes
    <3> QED BY <1>1, <3>1, KeepView
  <2> QED BY <2>1, <2>2
<1> QED BY <1>1, <1>6, <1>8 DEF Views, SeenRows, SentETags, ReadRows, View

LEMMA SendPatchStep ==
    ASSUME Rows, Views, NEW s \in Sessions, NEW p \in Patches, SendPatch(s, p)
    PROVE  Rows' /\ Forward /\ Views'
<1> DEFINE o == [op |-> "read", id |-> seen[s].id, patch |-> p, etag |-> seen[s].row.version]
<1>1. Rows' /\ Forward /\ Filed' = Filed
  BY SameRows DEF SendPatch
<1>2. seen[s] # None /\ seen[s].id \in Ids /\ seen[s].row.version \in 0..MaxChanges
  BY DEF SendPatch, Views, SessionTypes, RowType
<1>3. o \in Ops
  BY <1>2 DEF Ops
<1>4. req' = [req EXCEPT ![s] = o] /\ seen' = seen /\ row' = row /\ faults' = faults
  BY DEF SendPatch
<1>5. SessionTypes' /\ req'[s] = o
  BY <1>3, <1>4 DEF Views, SessionTypes
<1>6. ASSUME NEW t \in Sessions PROVE View(t)'
  <2>1. CASE t = s
    <3>1. View(s)
      BY ViewBySession
    <3>2. req'[s].op = "read" /\ req'[s].id = seen[s].id /\ req'[s].etag = seen[s].row.version
      BY <1>5
    <3> QED BY <1>1, <1>2, <1>4, <2>1, <3>1, <3>2 DEF View
  <2>2. CASE t # s
    <3>1. seen'[t] = seen[t] /\ req'[t] = req[t]
      BY <1>4, <2>2 DEF Views, SessionTypes
    <3> QED BY <1>1, <3>1, KeepView
  <2> QED BY <2>1, <2>2
<1> QED BY <1>1, <1>5, <1>6 DEF Views, SeenRows, SentETags, ReadRows, View

LEMMA ReadPreviousStep ==
    ASSUME Rows, Views, NEW s \in Sessions, ReadPrevious(s)
    PROVE  Rows' /\ Forward /\ Views'
<1> DEFINE i == req[s].id
           o == [op |-> "commit", id |-> i, patch |-> req[s].patch, etag |-> req[s].etag,
                 status |-> row[i].status, severity |-> row[i].severity]
<1>1. Rows' /\ Forward /\ Filed' = Filed
  BY SameRows DEF ReadPrevious
<1>2. View(s) /\ req[s].op = "read" /\ req[s] \in ReadOps
  BY ViewBySession, OpShapes DEF ReadPrevious, Views, SessionTypes
<1>3. i \in Filed /\ row[i] \in RowType
  BY <1>2 DEF View, Rows, RowTypes
<1>4. o \in Ops
  BY <1>2, <1>3 DEF ReadOps, RowType, Ops
<1>5. req' = [req EXCEPT ![s] = o] /\ seen' = seen /\ row' = row /\ faults' = faults
  BY DEF ReadPrevious
<1>6. SessionTypes' /\ req'[s] = o
  BY <1>4, <1>5 DEF Views, SessionTypes
<1>7. ASSUME NEW t \in Sessions PROVE View(t)'
  <2>1. CASE t = s
    <3>1. /\ req'[s].op = "commit" /\ req'[s].id = req[s].id /\ req'[s].etag = req[s].etag
          /\ req'[s].status = row[req[s].id].status
      BY <1>6
    <3> QED BY <1>1, <1>2, <1>5, <2>1, <3>1 DEF View
  <2>2. CASE t # s
    <3>1. seen'[t] = seen[t] /\ req'[t] = req[t]
      BY <1>5, <2>2 DEF Views, SessionTypes
    <3> QED BY <1>1, <3>1, KeepView
  <2> QED BY <2>1, <2>2
<1> QED BY <1>1, <1>6, <1>7 DEF Views, SeenRows, SentETags, ReadRows, View

LEMMA PatchIncidentStep ==
    ASSUME Rows, Views, NEW s \in Sessions, PatchIncident(s)
    PROVE  Rows' /\ Forward /\ Views'
<1> DEFINE i == req[s].id
           answer == [id |-> i, row |-> [row'[i] EXCEPT !.recent = FALSE]]
<1>1. Rows' /\ Forward /\ Filed' = Filed /\ i \in Filed'
  BY PatchForward DEF PatchIncident
<1>2. /\ req' = [req EXCEPT ![s] = Idle] /\ faults' = faults
      /\ seen' = [seen EXCEPT ![s] = answer]
  BY DEF PatchIncident, Answer
<1>3. row'[i] \in RowType /\ i \in Ids
  BY <1>1 DEF Rows, RowTypes
<1>4. answer \in [id : Ids, row : RowType]
  BY <1>3, Aged
<1>5. SessionTypes'
  BY <1>2, <1>4, IdleOp DEF Views, SessionTypes
<1>6. ASSUME NEW t \in Sessions PROVE View(t)'
  <2>1. CASE t = s
    <3>1. seen'[s] = answer /\ req'[s].op \notin {"read", "commit"}
      BY <1>2, IdleOp DEF Views, SessionTypes
    <3> QED BY <1>1, <2>1, <3>1, FreshView
  <2>2. CASE t # s
    <3>1. seen'[t] = seen[t] /\ req'[t] = req[t]
      BY <1>2, <2>2 DEF Views, SessionTypes
    <3> QED BY <1>1, <3>1, KeepView
  <2> QED BY <2>1, <2>2
<1> QED BY <1>1, <1>5, <1>6 DEF Views, SeenRows, SentETags, ReadRows, View

LEMMA NoPatchStep ==
    ASSUME Rows, Views, NEW s \in Sessions, PatchConflict(s) \/ PatchError(s)
    PROVE  Rows' /\ Forward /\ Views'
<1>1. Rows' /\ Forward
  <2>1. CASE UNCHANGED <<row, trail, clock>>
    BY <2>1, SameRows
  <2>2. CASE req[s].op = "commit" /\ Matches(s) /\ Apply(s)
    BY <2>2, PatchForward
  <2> QED BY <2>1, <2>2 DEF PatchConflict, PatchError
<1>2. req' = [req EXCEPT ![s] = Idle] /\ seen' = seen /\ faults' \in 0..MaxFaults
  BY FaultBound DEF PatchConflict, PatchError
<1> QED BY <1>1, <1>2, IdleOp, OneRequest

(***************************************************************************)
(* Theorems                                                                *)
(***************************************************************************)

LEMMA InitParts == Init => Rows /\ Views
<1> SUFFICES ASSUME Init PROVE Rows /\ Views
  OBVIOUS
<1>1. Filed = {} /\ row = [i \in {} |-> None]
  BY DEF Init, Filed
<1>2. NoTrail \in TrailType
  BY DEF NoTrail, TrailType
<1>3. RowTypes
  BY <1>1, <1>2, IncidentAssumption DEF Init, RowTypes
<1>4. Rows
  BY <1>1, <1>3 DEF Init, Rows, Clocked, HistoryIsChain, ClosedIsTerminal
<1>5. SessionTypes
  BY IncidentAssumption, IdleOp DEF Init, SessionTypes
<1>6. ASSUME NEW s \in Sessions PROVE View(s)
  BY IdleOp DEF Init, View
<1> QED BY <1>4, <1>5, <1>6, ViewBySession

LEMMA NextParts == Rows /\ Views /\ Next => Rows' /\ Forward /\ Views'
<1> SUFFICES ASSUME Rows, Views, Next PROVE Rows' /\ Forward /\ Views'
  OBVIOUS
<1>1. ASSUME NEW e \in Events, NEW v \in Severities, CreateAutoIncident(e, v)
      PROVE  Rows' /\ Forward /\ Views'
  BY <1>1, AutoIncidentStep
<1>2. ASSUME NEW e \in Events, NEW v \in Severities, NEW s \in Sessions, PostIncident(s, e, v)
      PROVE  Rows' /\ Forward /\ Views'
  BY <1>2, PostIncidentStep
<1>3. ASSUME NEW s \in Sessions, FindManual(s)
      PROVE  Rows' /\ Forward /\ Views'
  BY <1>3, FindManualStep
<1>4. ASSUME NEW s \in Sessions, CreateManualIncident(s) \/ CreateManualError(s)
      PROVE  Rows' /\ Forward /\ Views'
  BY <1>4, ManualIncidentStep
<1>5. ASSUME NEW s \in Sessions, NEW i \in Filed, GetIncident(s, i)
      PROVE  Rows' /\ Forward /\ Views'
  BY <1>5, GetIncidentStep
<1>6. ASSUME NEW s \in Sessions, NEW p \in Patches, SendPatch(s, p)
      PROVE  Rows' /\ Forward /\ Views'
  BY <1>6, SendPatchStep
<1>7. ASSUME NEW s \in Sessions, ReadPrevious(s)
      PROVE  Rows' /\ Forward /\ Views'
  BY <1>7, ReadPreviousStep
<1>8. ASSUME NEW s \in Sessions, PatchIncident(s)
      PROVE  Rows' /\ Forward /\ Views'
  BY <1>8, PatchIncidentStep
<1>9. ASSUME NEW s \in Sessions, PatchConflict(s) \/ PatchError(s)
      PROVE  Rows' /\ Forward /\ Views'
  BY <1>9, NoPatchStep
<1>10. ASSUME NEW i \in Filed, Grow(i)
       PROVE  Rows' /\ Forward /\ Views'
  BY <1>10, GrowStep
<1> QED
  BY <1>1, <1>2, <1>3, <1>4, <1>5, <1>6, <1>7, <1>8, <1>9, <1>10 DEF Next

LEMMA StutterParts == Rows /\ Views /\ UNCHANGED vars => Rows' /\ Views'
<1> SUFFICES ASSUME Rows, Views, UNCHANGED vars PROVE Rows' /\ Views'
  OBVIOUS
<1>1. Rows' /\ Forward
  BY SameRows DEF vars
<1>2. SessionTypes' /\ seen' = seen /\ req' = req
  BY DEF vars, Views, SessionTypes
<1> QED BY <1>1, <1>2, KeepViews

\* The inductive invariant: rows, audit events and what sessions remember agree.
THEOREM Invariance == Spec => []IInv
<1>1. Init => Rows /\ Views
  BY InitParts
<1>2. (Rows /\ Views) /\ [Next]_vars => (Rows /\ Views)'
  BY NextParts, StutterParts
<1>3. Rows /\ Views => IInv
  BY Parts
<1> QED BY <1>1, <1>2, <1>3, PTL DEF Spec

\* Rows, audit events, requests and answers keep their types.
THEOREM TypeCorrect == Spec => []TypeOK
<1>1. IInv => TypeOK
  BY DEF IInv
<1> QED BY <1>1, Invariance, PTL

\* However PATCHes, stale reads and failures interleave, the audit events of an
\* incident are an unbroken history that ends in its status (executeIncidentPatch,
\* PatchIncident).
THEOREM HistoryUnbroken == Spec => []HistoryIsChain
<1>1. IInv => HistoryIsChain
  BY DEF IInv
<1> QED BY <1>1, Invariance, PTL

\* closed_at, the status and incident_resolved agree (incidents_set_closed_at).
THEOREM ClosedAgrees == Spec => []ClosedIsTerminal
<1>1. IInv => ClosedIsTerminal
  BY DEF IInv
<1> QED BY <1>1, Invariance, PTL

(***************************************************************************)
(* Nobody changes what they have not seen                                  *)
(***************************************************************************)

Sighted ==
    \A i \in Filed : row'[i].version # row[i].version =>
        \E s \in Sessions :
            /\ req[s].op = "commit" /\ req[s].id = i
            /\ seen[s].id = i
            /\ seen[s].row = [row[i] EXCEPT !.recent = FALSE]

LEMMA FileIsSighted ==
    ASSUME NEW e, NEW u, NEW v, File(e, u, v)
    PROVE  Sighted
BY DEF File, Filed, Sighted

LEMMA ApplyIsSighted ==
    ASSUME Rows, Views, NEW s \in Sessions, req[s].op = "commit", Matches(s), Apply(s)
    PROVE  Sighted
<1>1. ASSUME NEW i \in Filed, row'[i].version # row[i].version
      PROVE  i = req[s].id
  BY <1>1, PatchForward
<1>2. /\ seen[s].id = req[s].id
      /\ seen[s].row = [row[req[s].id] EXCEPT !.recent = FALSE]
  BY PatchForward
<1> QED BY <1>1, <1>2 DEF Sighted

\* If-Match, all the way from the answer a session saw to the committed UPDATE
\* (parsePatchIfMatch, PatchIncident).
THEOREM PatchIsSighted == Spec => NoBlindWrite
<1>1. IInv /\ [Next]_vars => Sighted
  <2> SUFFICES ASSUME Rows, Views, [Next]_vars PROVE Sighted
    BY Parts
  <2>1. CASE UNCHANGED row
    BY <2>1 DEF Sighted
  <2>2. ASSUME NEW e, NEW u, NEW v, File(e, u, v) PROVE Sighted
    BY <2>2, FileIsSighted
  <2>3. ASSUME NEW s \in Sessions, req[s].op = "commit", Matches(s), Apply(s) PROVE Sighted
    BY <2>3, ApplyIsSighted
  <2>4. ASSUME NEW k \in Filed, Grow(k) PROVE Sighted
    BY <2>4, GrowRows DEF Sighted
  <2> QED
    BY <2>1, <2>2, <2>3, <2>4
    DEF Next, vars, CreateAutoIncident, PostIncident, FindManual, CreateManualIncident,
        CreateManualError, GetIncident, SendPatch, ReadPrevious, PatchIncident,
        PatchConflict, PatchError
<1>2. IInv /\ [Next]_vars =>
        [\A i \in Filed : row'[i].version # row[i].version =>
           \E s \in Sessions :
             /\ req[s].op = "commit" /\ req[s].id = i
             /\ seen[s].id = i
             /\ seen[s].row = [row[i] EXCEPT !.recent = FALSE]]_vars
  BY <1>1 DEF Sighted
<1> QED BY <1>2, Invariance, PTL DEF Spec, NoBlindWrite

(***************************************************************************)
(* How often one incident is filed                                         *)
(***************************************************************************)

Tabs(u) == {s \in Sessions : UserOf[s] = u}

\* RepeatsBounded of one user and event.
Few(u, e) ==
    Cardinality(Recent(u, e)) + Cardinality(Filing(u, e)) <= Cardinality(Tabs(u)) + faults

LEMMA Finite ==
    ASSUME Rows, NEW u, NEW e
    PROVE  /\ IsFiniteSet(Recent(u, e)) /\ Cardinality(Recent(u, e)) \in Nat
           /\ IsFiniteSet(Filing(u, e)) /\ Cardinality(Filing(u, e)) \in Nat
           /\ IsFiniteSet(Tabs(u)) /\ Cardinality(Tabs(u)) \in Nat
<1>1. IsFiniteSet(Ids)
  BY IncidentAssumption, FS_Interval DEF Ids
<1>2. Recent(u, e) \subseteq Ids
  BY DEF Recent, Rows, RowTypes
<1>3. IsFiniteSet(Sessions) /\ Filing(u, e) \subseteq Sessions /\ Tabs(u) \subseteq Sessions
  BY IncidentAssumption DEF Filing, Tabs
<1>4. IsFiniteSet(Recent(u, e)) /\ IsFiniteSet(Filing(u, e)) /\ IsFiniteSet(Tabs(u))
  BY <1>1, <1>2, <1>3, FS_Subset
<1> QED BY <1>4, FS_CardinalityType

\* Nothing is added to either set, or one member while a call fails.
LEMMA FewStays ==
    ASSUME Rows, Views, Rows', Views', NEW u, NEW e, Few(u, e),
           NEW i, NEW s,
           \/ /\ Recent(u, e)' \subseteq Recent(u, e)
              /\ Filing(u, e)' \subseteq Filing(u, e)
              /\ faults' = faults \/ faults' = faults + 1
           \/ /\ Recent(u, e)' \subseteq Recent(u, e) \cup {i}
              /\ Filing(u, e)' \subseteq Filing(u, e)
              /\ faults' = faults + 1
           \/ /\ Recent(u, e)' \subseteq Recent(u, e)
              /\ Filing(u, e)' \subseteq Filing(u, e) \cup {s}
              /\ faults' = faults + 1
    PROVE  Few(u, e)'
<1> PICK r, f, n, q, g : /\ r = Recent(u, e) /\ f = Filing(u, e) /\ n = Cardinality(Tabs(u))
                         /\ q = Recent(u, e)' /\ g = Filing(u, e)'
  OBVIOUS
<1>1. /\ IsFiniteSet(r) /\ IsFiniteSet(f) /\ Cardinality(r) \in Nat /\ Cardinality(f) \in Nat
      /\ n \in Nat
  BY Finite
<1>2. IsFiniteSet(q) /\ IsFiniteSet(g) /\ Cardinality(q) \in Nat /\ Cardinality(g) \in Nat
  <2>1. IsFiniteSet(Ids)
    BY IncidentAssumption, FS_Interval DEF Ids
  <2>2. q \subseteq Ids
    BY DEF Recent, Rows, RowTypes
  <2>3. IsFiniteSet(Sessions) /\ g \subseteq Sessions
    BY IncidentAssumption DEF Filing
  <2>4. IsFiniteSet(q) /\ IsFiniteSet(g)
    BY <2>1, <2>2, <2>3, FS_Subset
  <2> QED BY <2>4, FS_CardinalityType
<1>3. /\ IsFiniteSet(r \cup {i}) /\ Cardinality(r \cup {i}) \in {Cardinality(r), Cardinality(r) + 1}
      /\ IsFiniteSet(f \cup {s}) /\ Cardinality(f \cup {s}) \in {Cardinality(f), Cardinality(f) + 1}
  BY <1>1, FS_AddElement
<1>4. /\ q \subseteq r => Cardinality(q) <= Cardinality(r)
      /\ g \subseteq f => Cardinality(g) <= Cardinality(f)
      /\ q \subseteq r \cup {i} => Cardinality(q) <= Cardinality(r) + 1
      /\ g \subseteq f \cup {s} => Cardinality(g) <= Cardinality(f) + 1
  <2>1. /\ q \subseteq r => Cardinality(q) <= Cardinality(r)
        /\ g \subseteq f => Cardinality(g) <= Cardinality(f)
    BY <1>1, FS_Subset
  <2>2. /\ q \subseteq r \cup {i} => Cardinality(q) <= Cardinality(r \cup {i})
        /\ g \subseteq f \cup {s} => Cardinality(g) <= Cardinality(f \cup {s})
    BY <1>3, FS_Subset
  <2> QED BY <1>1, <1>2, <1>3, <2>1, <2>2
<1>5. faults \in Nat
  BY IncidentAssumption DEF Views, SessionTypes
<1>6. Cardinality(r) + Cardinality(f) <= n + faults
  BY DEF Few
<1>7. Cardinality(q) + Cardinality(g) <= n + faults'
  <2>1. CASE q \subseteq r /\ g \subseteq f /\ (faults' = faults \/ faults' = faults + 1)
    BY <1>1, <1>2, <1>4, <1>5, <1>6, <2>1
  <2>2. CASE q \subseteq r \cup {i} /\ g \subseteq f /\ faults' = faults + 1
    BY <1>1, <1>2, <1>4, <1>5, <1>6, <2>2
  <2>3. CASE q \subseteq r /\ g \subseteq f \cup {s} /\ faults' = faults + 1
    BY <1>1, <1>2, <1>4, <1>5, <1>6, <2>3
  <2> QED BY <2>1, <2>2, <2>3
<1>8. Tabs(u)' = Tabs(u)
  BY DEF Tabs
<1> QED BY <1>7, <1>8 DEF Few

\* A new row is one more recent incident of its reporter about its event.
LEMMA FileRecent ==
    ASSUME NEW e \in Events, NEW u, NEW v, File(e, u, v),
           NEW who, NEW what
    PROVE  \E i : /\ Recent(who, what)' \subseteq Recent(who, what) \cup {i}
                  /\ u # who \/ e # what => Recent(who, what)' \subseteq Recent(who, what)
<1> PICK i \in Ids \ Filed :
      row' = [j \in Filed \cup {i} |->
                   IF j # i THEN row[j]
                   ELSE [event |-> e, reporter |-> u, status |-> "open", severity |-> v,
                         assignee |-> None, resolution |-> "null", closed |-> FALSE,
                         version |-> clock, recent |-> TRUE]]
  BY DEF File
<1>1. Filed' = Filed \cup {i}
  BY DEF Filed
<1>2. /\ \A j \in Filed : row'[j] = row[j]
      /\ row'[i].event = e /\ row'[i].reporter = u
  OBVIOUS
<1> QED BY <1>1, <1>2 DEF Recent

\* A PATCH changes nothing that filing looks at.
LEMMA ApplyRecent ==
    ASSUME Rows, NEW s, Apply(s), NEW u, NEW e
    PROVE  Recent(u, e)' = Recent(u, e)
<1>1. row' = [row EXCEPT ![req[s].id] = Patched(@, req[s].patch)] /\ Filed' = Filed
  BY DEF Apply, Filed
<1>2. ASSUME NEW i \in Filed
      PROVE  /\ row'[i].event = row[i].event /\ row'[i].reporter = row[i].reporter
             /\ row'[i].recent = row[i].recent
  <2>1. row[i] \in RowType
    BY DEF Rows, RowTypes
  <2>2. row'[i] = row[i] \/ row'[i] = Patched(row[i], req[s].patch)
    BY <1>1 DEF Rows, RowTypes
  <2> QED BY <2>1, <2>2 DEF Patched, RowType
<1> QED BY <1>1, <1>2 DEF Recent

\* A session that moves to another request than an insert files nothing.
LEMMA FilingShrinks ==
    ASSUME Views, NEW s \in Sessions, NEW x, x.op # "insert", req' = [req EXCEPT ![s] = x],
           NEW u, NEW e
    PROVE  Filing(u, e)' \subseteq Filing(u, e)
<1>1. req'[s] = x /\ \A t \in Sessions \ {s} : req'[t] = req[t]
  BY DEF Views, SessionTypes
<1> QED BY <1>1 DEF Filing

\* One incident more, one tab less about to file it.
LEMMA FewFiled ==
    ASSUME Rows, Views, Rows', Views', NEW u, NEW e, Few(u, e), faults' = faults,
           NEW i, NEW s \in Filing(u, e),
           Recent(u, e)' \subseteq Recent(u, e) \cup {i},
           Filing(u, e)' \subseteq Filing(u, e) \ {s}
    PROVE  Few(u, e)'
<1> PICK r, f, n, q, g : /\ r = Recent(u, e) /\ f = Filing(u, e) /\ n = Cardinality(Tabs(u))
                         /\ q = Recent(u, e)' /\ g = Filing(u, e)'
  OBVIOUS
<1>1. /\ IsFiniteSet(r) /\ IsFiniteSet(f) /\ Cardinality(r) \in Nat /\ Cardinality(f) \in Nat
      /\ n \in Nat
  BY Finite
<1>2. /\ IsFiniteSet(r \cup {i}) /\ Cardinality(r \cup {i}) \in {Cardinality(r), Cardinality(r) + 1}
      /\ IsFiniteSet(f \ {s}) /\ Cardinality(f \ {s}) = Cardinality(f) - 1
  BY <1>1, FS_AddElement, FS_RemoveElement
<1>3. /\ IsFiniteSet(q) /\ Cardinality(q) <= Cardinality(r \cup {i})
      /\ IsFiniteSet(g) /\ Cardinality(g) <= Cardinality(f \ {s})
  BY <1>2, FS_Subset
<1>4. Cardinality(q) \in Nat /\ Cardinality(g) \in Nat
  BY <1>3, FS_CardinalityType
<1>5. faults \in Nat
  BY IncidentAssumption DEF Views, SessionTypes
<1>6. Cardinality(r) + Cardinality(f) <= n + faults
  BY DEF Few
<1>7. Cardinality(q) + Cardinality(g) <= n + faults'
  BY <1>1, <1>2, <1>3, <1>4, <1>5, <1>6
<1>8. Tabs(u)' = Tabs(u)
  BY DEF Tabs
<1> QED BY <1>7, <1>8 DEF Few

\* Who found nothing may file next to all other tabs, and has filed nothing yet.
LEMMA FewFound ==
    ASSUME Rows, Views, Rows', Views', NEW u, NEW e, faults' = faults, Recent(u, e)' = {}
    PROVE  Few(u, e)'
<1> PICK n, g : n = Tabs(u) /\ g = Filing(u, e)'
  OBVIOUS
<1>1. IsFiniteSet(n) /\ Cardinality(n) \in Nat
  BY Finite
<1>2. g \subseteq n
  BY DEF Filing, Tabs
<1>3. IsFiniteSet(g) /\ Cardinality(g) \in Nat /\ Cardinality(g) <= Cardinality(n)
  BY <1>1, <1>2, FS_Subset, FS_CardinalityType
<1>4. faults \in Nat
  BY IncidentAssumption DEF Views, SessionTypes
<1>5. Cardinality(Recent(u, e)') = 0
  BY FS_EmptySet
<1>6. Tabs(u)' = Tabs(u)
  BY DEF Tabs
<1> QED BY <1>1, <1>3, <1>4, <1>5, <1>6 DEF Few

LEMMA FindManualFew ==
    ASSUME Rows, Views, Rows', Views', NEW s \in Sessions, FindManual(s),
           NEW u \in Users, NEW e \in Events, Few(u, e)
    PROVE  Few(u, e)'
<1>1. Recent(u, e)' = Recent(u, e)
  BY DEF FindManual, Recent, Filed
<1>2. CASE req' = [req EXCEPT ![s] = Idle] /\ faults' = faults
  <2>1. Filing(u, e)' \subseteq Filing(u, e)
    BY <1>2, IdleOp, FilingShrinks
  <2> QED BY <1>1, <1>2, <2>1, FewStays
<1>3. CASE req' = [req EXCEPT ![s].op = "insert"]
  <2>1. \A t \in Sessions \ {s} : req'[t] = req[t]
    BY <1>3 DEF Views, SessionTypes
  <2>2. req'[s].event = req[s].event
    <3>1. req[s] \in FileOps
      BY OpShapes DEF FindManual, Views, SessionTypes
    <3> QED BY <1>3, <3>1 DEF FileOps, Views, SessionTypes
  <2>3. CASE faults' = faults + 1
    <3>1. Filing(u, e)' \subseteq Filing(u, e) \cup {s}
      BY <2>1 DEF Filing
    <3> QED BY <1>1, <2>3, <3>1, FewStays
  <2>4. CASE (\A i \in Filed : ~Mine(s, i)) /\ faults' = faults
    <3>1. CASE UserOf[s] = u /\ req[s].event = e
      <4>1. Recent(u, e) = {}
        BY <2>4, <3>1 DEF Mine, Recent
      <4> QED BY <1>1, <2>4, <4>1, FewFound
    <3>2. CASE ~(UserOf[s] = u /\ req[s].event = e)
      <4>1. Filing(u, e)' \subseteq Filing(u, e)
        BY <2>1, <2>2, <3>2 DEF Filing
      <4> QED BY <1>1, <2>4, <4>1, FewStays
    <3> QED BY <3>1, <3>2
  <2>5. CASE req' = [req EXCEPT ![s] = Idle]
    <3>1. Filing(u, e)' \subseteq Filing(u, e)
      BY <2>5, IdleOp, FilingShrinks
    <3>2. faults' = faults \/ faults' = faults + 1
      BY DEF FindManual, Fault
    <3> QED BY <1>1, <3>1, <3>2, FewStays
  <2> QED BY <1>3, <2>3, <2>4, <2>5 DEF FindManual, Fault
<1> QED BY <1>2, <1>3 DEF FindManual

LEMMA ManualIncidentFew ==
    ASSUME Rows, Views, Rows', Views', NEW s \in Sessions,
           CreateManualIncident(s) \/ CreateManualError(s),
           NEW u \in Users, NEW e \in Events, Few(u, e)
    PROVE  Few(u, e)'
<1>1. req[s].op = "insert" /\ req' = [req EXCEPT ![s] = Idle]
  BY DEF CreateManualIncident, CreateManualError
<1>2. Filing(u, e)' \subseteq Filing(u, e)
  BY <1>1, IdleOp, FilingShrinks
<1>3. req[s].event \in Events
  <2>1. req[s] \in FileOps
    BY <1>1, OpShapes DEF Views, SessionTypes
  <2> QED BY <2>1 DEF FileOps
<1>4. CASE UNCHANGED row /\ (faults' = faults \/ faults' = faults + 1)
  <2>1. Recent(u, e)' = Recent(u, e)
    BY <1>4 DEF Recent, Filed
  <2> QED BY <1>2, <1>4, <2>1, FewStays
<1>5. CASE File(req[s].event, UserOf[s], req[s].severity)
  <2>1. PICK i :
          /\ Recent(u, e)' \subseteq Recent(u, e) \cup {i}
          /\ UserOf[s] # u \/ req[s].event # e => Recent(u, e)' \subseteq Recent(u, e)
    BY <1>3, <1>5, FileRecent
  <2>2. CASE faults' = faults + 1
    BY <1>2, <2>1, <2>2, FewStays
  <2>3. CASE faults' = faults
    <3>1. CASE UserOf[s] = u /\ req[s].event = e
      <4>1. s \in Filing(u, e)
        BY <1>1, <3>1 DEF Filing
      <4>2. Filing(u, e)' \subseteq Filing(u, e) \ {s}
        <5>1. req'[s].op # "insert"
          BY <1>1, IdleOp DEF Views, SessionTypes
        <5> QED BY <1>2, <5>1 DEF Filing
      <4> QED BY <2>1, <2>3, <4>1, <4>2, FewFiled
    <3>2. CASE UserOf[s] # u \/ req[s].event # e
      BY <1>2, <2>1, <2>3, <3>2, FewStays
    <3> QED BY <3>1, <3>2
  <2> QED BY <2>2, <2>3 DEF CreateManualIncident, CreateManualError, Fault
<1> QED BY <1>4, <1>5 DEF CreateManualIncident, CreateManualError, Fault

LEMMA StillFew ==
    ASSUME Rows, Views, Rows', Views', [Next]_vars,
           NEW u \in Users, NEW e \in Events, Few(u, e)
    PROVE  Few(u, e)'
<1>1. CASE /\ UNCHANGED <<row, req>> /\ (faults' = faults \/ faults' = faults + 1)
  <2>1. Recent(u, e)' = Recent(u, e) /\ Filing(u, e)' = Filing(u, e)
    BY <1>1 DEF Recent, Filing, Filed
  <2> QED BY <1>1, <2>1, FewStays
<1>2. ASSUME NEW f \in Events, NEW v \in Severities, CreateAutoIncident(f, v)
      PROVE  Few(u, e)'
  <2>1. None # u
    BY IncidentAssumption
  <2>2. Recent(u, e)' \subseteq Recent(u, e)
    BY <1>2, <2>1, FileRecent DEF CreateAutoIncident
  <2>3. Filing(u, e)' = Filing(u, e) /\ faults' = faults
    BY <1>2 DEF CreateAutoIncident, Filing
  <2> QED BY <2>2, <2>3, FewStays
<1>3. ASSUME NEW s \in Sessions, NEW x, x.op # "insert", req' = [req EXCEPT ![s] = x],
             Recent(u, e)' = Recent(u, e), faults' = faults \/ faults' = faults + 1
      PROVE  Few(u, e)'
  BY <1>3, FilingShrinks, FewStays
<1>4. ASSUME NEW f \in Events, NEW v \in Severities, NEW s \in Sessions, PostIncident(s, f, v)
      PROVE  Few(u, e)'
  <2>1. Recent(u, e)' = Recent(u, e)
    BY <1>4 DEF PostIncident, Recent, Filed
  <2> QED BY <1>3, <1>4, <2>1 DEF PostIncident
<1>5. ASSUME NEW s \in Sessions, NEW p \in Patches, SendPatch(s, p)
      PROVE  Few(u, e)'
  <2>1. Recent(u, e)' = Recent(u, e)
    BY <1>5 DEF SendPatch, Recent, Filed
  <2> QED BY <1>3, <1>5, <2>1 DEF SendPatch
<1>6. ASSUME NEW s \in Sessions, ReadPrevious(s)
      PROVE  Few(u, e)'
  <2>1. Recent(u, e)' = Recent(u, e)
    BY <1>6 DEF ReadPrevious, Recent, Filed
  <2> QED BY <1>3, <1>6, <2>1 DEF ReadPrevious
<1>7. ASSUME NEW s \in Sessions, PatchIncident(s) \/ PatchConflict(s) \/ PatchError(s)
      PROVE  Few(u, e)'
  <2>1. Recent(u, e)' = Recent(u, e)
    <3>1. CASE Apply(s)
      BY <3>1, ApplyRecent
    <3>2. CASE UNCHANGED row
      BY <3>2 DEF Recent, Filed
    <3> QED BY <1>7, <3>1, <3>2 DEF PatchIncident, PatchConflict, PatchError
  <2>2. /\ req' = [req EXCEPT ![s] = Idle]
        /\ faults' = faults \/ faults' = faults + 1
    BY <1>7 DEF PatchIncident, PatchConflict, PatchError, Fault
  <2> QED BY <1>3, <2>1, <2>2, IdleOp
<1>8. ASSUME NEW i \in Filed, Grow(i)
      PROVE  Few(u, e)'
  <2>1. Filing(u, e)' = Filing(u, e) /\ faults' = faults
    BY <1>8 DEF Grow, Filing
  <2>2. Recent(u, e)' \subseteq Recent(u, e)
    <3>1. Filed' = Filed /\ row' = [row EXCEPT ![i].recent = FALSE]
      BY <1>8 DEF Grow, Filed
    <3>2. ASSUME NEW k \in Filed, row'[k].recent
          PROVE  row'[k] = row[k]
      BY <3>1, <3>2 DEF Rows, RowTypes, RowType
    <3> QED BY <3>1, <3>2 DEF Recent, Rows, RowTypes, RowType
  <2> QED BY <2>1, <2>2, FewStays
<1> QED
  BY <1>1, <1>2, <1>4, <1>5, <1>6, <1>7, <1>8, FindManualFew, ManualIncidentFew
  DEF Next, vars, GetIncident

\* However often a security officer files the same incident, and however look-ups,
\* insertions and failures of the tabs interleave, at most one recent incident per tab
\* and one per failed call results (createIncidentHandler,
\* FindManualIncidentForReporter, CreateManualIncident).
THEOREM RepeatsAreFew == Spec => []RepeatsBounded
<1> DEFINE Calm == \A u \in Users, e \in Events : Few(u, e)
<1>1. RepeatsBounded <=> Calm
  BY DEF RepeatsBounded, Few, Tabs
<1>2. Init => Calm
  <2> SUFFICES ASSUME Init, NEW u \in Users, NEW e \in Events PROVE Few(u, e)
    OBVIOUS
  <2>1. Rows /\ Views
    BY InitParts
  <2>2. Recent(u, e) = {} /\ Filing(u, e) = {}
    BY IdleOp DEF Init, Recent, Filing, Filed
  <2>3. Cardinality(Tabs(u)) \in Nat
    BY <2>1, Finite
  <2> QED BY <2>2, <2>3, FS_EmptySet DEF Few, Init
<1>3. (Rows /\ Views) /\ Calm /\ [Next]_vars => Calm'
  <2> SUFFICES ASSUME Rows, Views, Calm, [Next]_vars, NEW u \in Users, NEW e \in Events
               PROVE  Few(u, e)'
    OBVIOUS
  <2>1. Rows' /\ Views'
    BY NextParts, StutterParts
  <2>2. Few(u, e)
    OBVIOUS
  <2> QED BY <2>1, <2>2, StillFew
<1>4. IInv => Rows /\ Views
  BY Parts
<1> HIDE DEF Calm
<1> QED BY <1>1, <1>2, <1>3, <1>4, Invariance, PTL DEF Spec

=============================================================================
