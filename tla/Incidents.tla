------------------------------ MODULE Incidents ------------------------------
(***************************************************************************)
(* Incidents: filed by the chat (auto) or by a security officer (manual),  *)
(* changed with PATCH under If-Match.                                      *)
(*                                                                         *)
(* A session is a browser tab with at most one request in flight.  One     *)
(* action is one database statement or transaction; between two of them    *)
(* any other session may act.                                              *)
(***************************************************************************)
EXTENDS Naturals, Sequences, FiniteSets

CONSTANTS
    MaxIncidents,  \* bound on incidents
    MaxChanges,    \* bound on committed PATCHes
    MaxFaults,     \* bound on failing calls
    Events,        \* audit events incidents are about
    Users,
    Readers,       \* users with a role of incidentReadRoles
    Officers,      \* users with a role of incidentWriteRoles
    Sessions,
    UserOf,        \* UserOf[s]: whose session it is
    Severities,
    Patches,       \* bodies of PATCH that are tried
    None           \* NULL

Ids      == 1..MaxIncidents
Statuses == {"open", "investigating", "resolved", "false_positive"}
Terminal == {"resolved", "false_positive"}
Texts    == {"null", "empty", "text"}

\* incidentPatchDTO: "keep" is an absent field, None is assignee_unset.
PatchType ==
    [status : Statuses \cup {"keep"}, severity : Severities \cup {"keep"},
     assignee : Users \cup {"keep", None}, resolution : {"keep", "empty", "text"}]

ASSUME IncidentAssumption ==
    /\ MaxIncidents \in Nat /\ MaxChanges \in Nat /\ MaxFaults \in Nat
    /\ Officers \subseteq Readers /\ Readers \subseteq Users
    /\ IsFiniteSet(Sessions)
    /\ UserOf \in [Sessions -> Users]
    /\ Patches \subseteq PatchType
    /\ "keep" \notin Severities \cup Users \cup {None}
    /\ None \notin Users

VARIABLES
    row,     \* the rows of incidents: row[i] for every id i that exists
    trail,   \* the audit events of each incident, committed with its changes
    clock,   \* now(): the number of changes so far
    req,     \* the request of a session, and where its handler is
    seen,    \* the last answer of a session: an incident and its row at that time
    faults

vars == <<row, trail, clock, req, seen, faults>>

\* closed: closed_at is set; version: updated_at; recent: created less than 60 s ago.
RowType ==
    [event : Events, reporter : Users \cup {None}, status : Statuses, severity : Severities,
     assignee : Users \cup {None}, resolution : Texts, closed : BOOLEAN,
     version : 0..MaxChanges, recent : BOOLEAN]

\* incident_created_auto or _manual; incident_status_changed, each with whether
\* incident_resolved stands beside it; incident_severity_changed; incident_assigned.
TrailType ==
    [created : BOOLEAN,
     status : Seq([from : Statuses, to : Statuses, resolved : BOOLEAN]),
     severity : Seq([from : Severities, to : Severities]),
     assigned : BOOLEAN]

Idle == [op |-> "idle"]

Ops ==
    {Idle}
    \cup [op : {"find", "insert"}, event : Events, severity : Severities]
    \cup [op : {"read"}, id : Ids, patch : Patches, etag : 0..MaxChanges]
    \cup [op : {"commit"}, id : Ids, patch : Patches, etag : 0..MaxChanges,
          status : Statuses, severity : Severities]

Filed == DOMAIN row

TypeOK ==
    /\ Filed \in SUBSET Ids
    /\ row \in [Filed -> RowType]
    /\ trail \in [Ids -> TrailType]
    /\ clock \in 0..MaxChanges
    /\ req \in [Sessions -> Ops]
    /\ seen \in [Sessions -> [id : Ids, row : RowType] \cup {None}]
    /\ faults \in 0..MaxFaults

NoTrail == [created |-> FALSE, status |-> <<>>, severity |-> <<>>, assigned |-> FALSE]

Init ==
    /\ row = [i \in {} |-> None]
    /\ trail = [i \in Ids |-> NoTrail]
    /\ clock = 0
    /\ req = [s \in Sessions |-> Idle]
    /\ seen = [s \in Sessions |-> None]
    /\ faults = 0

Fault == faults < MaxFaults /\ faults' = faults + 1

\* The answer to s shows the row; its age in seconds is nobody's concern.
Answer(s, i) ==
    seen' = [seen EXCEPT ![s] = [id |-> i, row |-> [row'[i] EXCEPT !.recent = FALSE]]]

(***************************************************************************)
(* Filing                                                                  *)
(***************************************************************************)

\* insertIncident and its audit event, one transaction.
File(e, u, v) ==
    \E i \in Ids \ Filed :
        /\ \A j \in Ids \ Filed : i <= j
        /\ row' = [j \in Filed \cup {i} |->
                     IF j # i THEN row[j]
                     ELSE [event |-> e, reporter |-> u, status |-> "open", severity |-> v,
                           assignee |-> None, resolution |-> "null", closed |-> FALSE,
                           version |-> clock, recent |-> TRUE]]
        /\ trail' = [trail EXCEPT ![i].created = TRUE]
        /\ UNCHANGED clock

\* Tx3 of a chat request; idx_incidents_one_auto_per_event lets one through per event,
\* a second one is ErrIncidentAutoDuplicate.
CreateAutoIncident(e, v) ==
    /\ \A i \in Filed : row[i].event = e => row[i].reporter # None
    /\ File(e, None, v)
    /\ UNCHANGED <<req, seen, faults>>

\* POST /api/incidents, up to the idempotency check.
PostIncident(s, e, v) ==
    /\ req[s] = Idle
    /\ UserOf[s] \in Officers
    /\ req' = [req EXCEPT ![s] = [op |-> "find", event |-> e, severity |-> v]]
    /\ UNCHANGED <<row, trail, clock, seen, faults>>

Mine(s, i) == row[i].event = req[s].event /\ row[i].reporter = UserOf[s] /\ row[i].recent

\* Mutant of FindManual: what is found is not looked at.
FindManualIgnored(s) ==
    /\ req[s].op = "find"
    /\ req' = [req EXCEPT ![s].op = "insert"]
    /\ UNCHANGED <<row, trail, clock, seen, faults>>

\* FindManualIncidentForReporter: found, it is the answer; not found, or the query
\* failed, the handler goes on to create one.
FindManual(s) ==
    /\ req[s].op = "find"
    /\ \/ /\ \E i \in Filed : Mine(s, i)
          /\ req' = [req EXCEPT ![s] = Idle]
          /\ UNCHANGED faults
       \/ /\ \/ (\A i \in Filed : ~Mine(s, i)) /\ UNCHANGED faults
             \/ Fault
          /\ req' = [req EXCEPT ![s].op = "insert"]
    /\ UNCHANGED <<row, trail, clock, seen>>

\* CreateManualIncident.
CreateManualIncident(s) ==
    /\ req[s].op = "insert"
    /\ File(req[s].event, UserOf[s], req[s].severity)
    /\ req' = [req EXCEPT ![s] = Idle]
    /\ UNCHANGED <<seen, faults>>

\* CreateManualIncident fails, and may have been applied.
CreateManualError(s) ==
    /\ req[s].op = "insert"
    /\ Fault
    /\ File(req[s].event, UserOf[s], req[s].severity) \/ UNCHANGED <<row, trail, clock>>
    /\ req' = [req EXCEPT ![s] = Idle]
    /\ UNCHANGED <<seen>>

\* Sixty seconds have passed since the incident was filed.
Grow(i) ==
    /\ row[i].recent
    /\ row' = [row EXCEPT ![i].recent = FALSE]
    /\ UNCHANGED <<trail, clock, req, seen, faults>>

(***************************************************************************)
(* PATCH                                                                   *)
(***************************************************************************)

\* GET of an incident or of the list: the row with its ETag.
GetIncident(s, i) ==
    /\ req[s] = Idle
    /\ UserOf[s] \in Readers
    /\ UNCHANGED <<row, trail, clock, req, faults>>
    /\ Answer(s, i)

\* buildIncidentPatch refuses to close without a resolution.
Valid(p) == p.status \in Terminal => p.resolution = "text"

\* PATCH /api/incidents/:id with the ETag of the last answer as If-Match.
SendPatch(s, p) ==
    /\ req[s] = Idle
    /\ UserOf[s] \in Officers
    /\ seen[s] # None
    /\ Valid(p)
    /\ req' = [req EXCEPT ![s] = [op |-> "read", id |-> seen[s].id, patch |-> p,
                                  etag |-> seen[s].row.version]]
    /\ UNCHANGED <<row, trail, clock, seen, faults>>

\* Mutant of ReadPrevious: If-Match is replaced by what was just read.
ReadPreviousETag(s) ==
    /\ req[s].op = "read"
    /\ LET i == req[s].id IN
       req' = [req EXCEPT ![s] = [op |-> "commit", id |-> i, patch |-> req[s].patch,
                                  etag |-> row[i].version,
                                  status |-> row[i].status, severity |-> row[i].severity]]
    /\ UNCHANGED <<row, trail, clock, seen, faults>>

\* executeIncidentPatch: GetIncident, for the "from" of the audit events.
ReadPrevious(s) ==
    /\ req[s].op = "read"
    /\ LET i == req[s].id IN
       req' = [req EXCEPT ![s] = [op |-> "commit", id |-> i, patch |-> req[s].patch,
                                  etag |-> req[s].etag,
                                  status |-> row[i].status, severity |-> row[i].severity]]
    /\ UNCHANGED <<row, trail, clock, seen, faults>>

NewAlways(field, old) == field   \* mutant of New: absent fields are written too

New(field, old) == IF field = "keep" THEN old ELSE field

\* Mutant of Closed: a reopened incident keeps closed_at.
ClosedOnce(r, s) == r.closed \/ s \in Terminal

\* Trigger incidents_set_closed_at, on the old row and the new status.
Closed(r, s) ==
    IF (s \in Terminal) # (r.status \in Terminal) THEN s \in Terminal ELSE r.closed

\* The row after UPDATE incidents SET ..., and the events written beside it.
Patched(r, p) ==
    LET s == New(p.status, r.status) IN
    [r EXCEPT !.status = s, !.severity = New(p.severity, r.severity),
              !.assignee = New(p.assignee, r.assignee),
              !.resolution = New(p.resolution, r.resolution),
              !.closed = Closed(r, s), !.version = clock + 1]

Audited(t, p, status, severity) ==
    [t EXCEPT
       !.status = IF p.status = "keep" THEN @
                  ELSE Append(@, [from |-> status, to |-> p.status,
                                  resolved |-> p.status \in Terminal]),
       !.severity = IF p.severity = "keep" THEN @
                    ELSE Append(@, [from |-> severity, to |-> p.severity]),
       !.assigned = @ \/ p.assignee # "keep"]

Apply(s) ==
    LET i == req[s].id IN
    /\ clock < MaxChanges
    /\ clock' = clock + 1
    /\ row' = [row EXCEPT ![i] = Patched(@, req[s].patch)]
    /\ trail' = [trail EXCEPT ![i] = Audited(@, req[s].patch, req[s].status, req[s].severity)]

\* Mutant of PatchIncident: the UPDATE is by id alone.
PatchAlways(s) ==
    /\ req[s].op = "commit"
    /\ Apply(s)
    /\ Answer(s, req[s].id)
    /\ req' = [req EXCEPT ![s] = Idle]
    /\ UNCHANGED <<faults>>

Matches(s) == row[req[s].id].version = req[s].etag

\* PatchIncident: UPDATE ... WHERE updated_at = $2 and the events, one transaction.
PatchIncident(s) ==
    /\ req[s].op = "commit"
    /\ Matches(s)
    /\ Apply(s)
    /\ Answer(s, req[s].id)
    /\ req' = [req EXCEPT ![s] = Idle]
    /\ UNCHANGED <<faults>>

\* 412: no row has this updated_at any more.
PatchConflict(s) ==
    /\ req[s].op = "commit"
    /\ ~Matches(s)
    /\ req' = [req EXCEPT ![s] = Idle]
    /\ UNCHANGED <<row, trail, clock, seen, faults>>

\* The transaction fails, and may have been applied.
PatchError(s) ==
    /\ req[s].op = "commit"
    /\ Fault
    /\ (Matches(s) /\ Apply(s)) \/ UNCHANGED <<row, trail, clock>>
    /\ req' = [req EXCEPT ![s] = Idle]
    /\ UNCHANGED <<seen>>

Next ==
    \/ \E e \in Events, v \in Severities :
         CreateAutoIncident(e, v) \/ \E s \in Sessions : PostIncident(s, e, v)
    \/ \E s \in Sessions :
         \/ FindManual(s) \/ CreateManualIncident(s) \/ CreateManualError(s)
         \/ \E i \in Filed : GetIncident(s, i)
         \/ \E p \in Patches : SendPatch(s, p)
         \/ ReadPrevious(s) \/ PatchIncident(s) \/ PatchConflict(s) \/ PatchError(s)
    \/ \E i \in Filed : Grow(i)

Spec == Init /\ [][Next]_vars

(***************************************************************************)
(* Properties                                                              *)
(***************************************************************************)

\* A history of changes that starts at first and ends at now without a gap.
Chain(h, first, now) ==
    /\ \A k \in 1..Len(h) : h[k].from = IF k = 1 THEN first ELSE h[k - 1].to
    /\ now = IF h = <<>> THEN first ELSE h[Len(h)].to

\* The audit events of an incident tell its story: it was filed, every status
\* change starts where the one before it ended, the last one is what the row says.
\* The "from" of an event is read before the transaction that writes it.
HistoryIsChain ==
    /\ \A i \in Filed : trail[i].created /\ Chain(trail[i].status, "open", row[i].status)
    /\ \A i \in Ids \ Filed : trail[i] = NoTrail

\* If-Match: nobody changes a row they have not seen as it is.
NoBlindWrite ==
    [][\A i \in Filed : row'[i].version # row[i].version =>
         \E s \in Sessions :
            /\ req[s].op = "commit" /\ req[s].id = i
            /\ seen[s].id = i
            /\ seen[s].row = [row[i] EXCEPT !.recent = FALSE]]_vars

\* Triggers and audit agree: closed_at is set exactly while the status is
\* terminal, and the last status change says incident_resolved exactly then.
ClosedIsTerminal ==
    \A i \in Filed :
        /\ row[i].closed <=> row[i].status \in Terminal
        /\ LET h == trail[i].status IN
             h # <<>> => (h[Len(h)].resolved <=> row[i].closed)

\* The recent incidents u has filed about e, and the tabs of u about to file another.
Recent(u, e) == {i \in Filed : row[i].event = e /\ row[i].reporter = u /\ row[i].recent}
Filing(u, e) == {s \in Sessions : UserOf[s] = u /\ req[s].op = "insert" /\ req[s].event = e}

\* Filing the same incident again within sixty seconds is meant to give the first one
\* back.  Look-up and insert are two statements, so as many tabs as the user has may
\* file it side by side, and each call that fails may add one more; but repetition alone
\* adds none, whatever the tabs do one after another.
RepeatsBounded ==
    \A u \in Users, e \in Events :
        Cardinality(Recent(u, e)) + Cardinality(Filing(u, e))
          <= Cardinality({s \in Sessions : UserOf[s] = u}) + faults

(***************************************************************************)
(* The inductive invariant behind them                                     *)
(***************************************************************************)

\* updated_at never lies in the future, so a change always gets a new ETag.
Clocked == \A i \in Filed : row[i].version <= clock

\* What an answer showed is still the row as long as its ETag is.
SeenRows ==
    \A s \in Sessions : seen[s] # None =>
        /\ seen[s].id \in Filed
        /\ seen[s].row.version <= row[seen[s].id].version
        /\ seen[s].row.version = row[seen[s].id].version =>
              seen[s].row = [row[seen[s].id] EXCEPT !.recent = FALSE]

\* A PATCH in flight carries the ETag of its session's last answer.
SentETags ==
    \A s \in Sessions : req[s].op \in {"read", "commit"} =>
        seen[s] # None /\ req[s].id = seen[s].id /\ req[s].etag = seen[s].row.version

\* What executeIncidentPatch read before the transaction is right if that succeeds.
ReadRows ==
    \A s \in Sessions :
        req[s].op = "commit" /\ Matches(s) => req[s].status = row[req[s].id].status

IInv ==
    /\ TypeOK /\ Clocked /\ SeenRows /\ SentETags /\ ReadRows
    /\ HistoryIsChain /\ ClosedIsTerminal
=============================================================================
