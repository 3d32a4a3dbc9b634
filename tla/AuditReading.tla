---------------------------- MODULE AuditReading ----------------------------
(***************************************************************************)
(* Reading the audit log: GET /api/audit-events in pages under a keyset    *)
(* cursor, GET of one event, and the export, which writes an event of its  *)
(* own first.  The table audit_events is append-only; an event is stamped  *)
(* with the time its transaction began and is seen when it has committed,  *)
(* which another transaction that began later may have done before.        *)
(***************************************************************************)
EXTENDS Naturals, Sequences, FiniteSets

CONSTANTS
    Users,
    Officers,       \* users whose role reads the whole audit
    Developers,     \* users whose role is developer
    Types,          \* event types, "policy_tested" and "audit_exported" among them
    Filters,        \* query parameters: [users, types : sets, from, to : times]
    Sizes,          \* the limits asked for, of 1..200
    ExportLimit,    \* 200
    MaxEvents,      \* bound on audit events
    MaxTime,        \* bound on the clock
    None

\* Random uuids: an event may get any free one, and they are ordered.
Ids   == 1..MaxEvents
Times == 0..MaxTime

ASSUME AuditAssumption ==
    /\ Officers \subseteq Users /\ Developers \subseteq Users \ Officers
    /\ {"policy_tested", "audit_exported"} \subseteq Types
    /\ Filters \subseteq [users : SUBSET Users, types : SUBSET Types, from : Times, to : Times]
    /\ Sizes \subseteq Nat \ {0} /\ ExportLimit \in Nat \ {0}
    /\ MaxEvents \in Nat /\ MaxTime \in Nat
    /\ None \notin Ids

VARIABLES
    now,
    events,     \* audit_events with the rows of open transactions
    reader      \* what every user is reading

vars == <<now, events, reader>>

RowType == [state : {"open", "committed"}, at : Times, user : Users, type : Types]
Free    == [state |-> "free", at |-> 0, user |-> None, type |-> None]

\* A user lists, or exports, once.  pages: what has been shown, a set of ids each;
\* cursor: next_cursor; record: the export's own event; before: what was committed
\* when the list began, or the export had written its event.
Idle == [pc |-> "idle", filter |-> None, size |-> None, pages |-> <<>>, cursor |-> None,
         record |-> None, before |-> {}]

Pcs == {"idle", "list", "listed", "recording", "export", "exported"}

TypeOK ==
    /\ now \in Times
    /\ events \in [Ids -> RowType \cup {Free}]
    /\ \A u \in Users :
         /\ reader[u].pc \in Pcs
         /\ reader[u].filter \in [users : SUBSET Users, types : SUBSET Types, from : Times, to : Times] \cup {None}
         /\ \A k \in 1..Len(reader[u].pages) :
              /\ reader[u].pages[k] \subseteq Ids
              /\ Cardinality(reader[u].pages[k]) <= reader[u].size
         /\ reader[u].cursor \in Ids \cup {None}
         /\ reader[u].record \in Ids \cup {None}
         /\ reader[u].before \subseteq Ids

Init ==
    /\ now = 0
    /\ events = [e \in Ids |-> Free]
    /\ reader = [u \in Users |-> Idle]

Committed == {e \in Ids : events[e].state = "committed"}

-----------------------------------------------------------------------------
(* Writing.                                                                *)

\* A transaction begins that will insert the event; created_at is its start.
Begin(e, u, type) ==
    /\ events[e].state = "free"
    /\ events' = [events EXCEPT ![e] = [state |-> "open", at |-> now, user |-> u, type |-> type]]

\* insertAuditEvent within a transaction of the chat, the incidents, the policies.
Insert(e, u, type) == type # "audit_exported" /\ Begin(e, u, type) /\ UNCHANGED <<now, reader>>

Commit(e) ==
    /\ events[e].state = "open" /\ \A u \in Users : reader[u].record # e
    /\ events' = [events EXCEPT ![e].state = "committed"]
    /\ UNCHANGED <<now, reader>>

Rollback(e) ==
    /\ events[e].state = "open" /\ \A u \in Users : reader[u].record # e
    /\ events' = [events EXCEPT ![e] = Free]
    /\ UNCHANGED <<now, reader>>

-----------------------------------------------------------------------------
(* ListAuditEvents.                                                        *)

\* The row comparison (created_at, id) < (created_at, id).
Below(e, c) == events[e].at < events[c].at \/ (events[e].at = events[c].at /\ e < c)

Matches(e, f) ==
    /\ events[e].user \in f.users
    /\ events[e].type \in f.types
    /\ events[e].at \in f.from..f.to

\* Mutant of Newest: one row too many.
NewestAndOne(S, limit) == {e \in S : Cardinality({d \in S : Below(e, d)}) <= limit}

\* ORDER BY created_at DESC, id DESC LIMIT limit
Newest(S, limit) == {e \in S : Cardinality({d \in S : Below(e, d)}) < limit}

\* Mutant of AfterCursor: only the first column is compared.
AfterCursorTime(e, c) == c = None \/ events[e].at < events[c].at

AfterCursor(e, c) == c = None \/ Below(e, c)

Rows(f, cursor, limit) ==
    Newest({e \in Committed : Matches(e, f) /\ AfterCursor(e, cursor)}, limit)

Last(page) == CHOOSE e \in page : \A d \in page \ {e} : Below(e, d)

\* assembleAuditList: a full page may not be the last.
NextCursor(page, limit) == IF Cardinality(page) >= limit /\ page # {} THEN Last(page) ELSE None

\* Mutant of Scope: the developer's event types stay those of the query.
ScopeOfUser(u, f) == IF u \in Developers THEN [f EXCEPT !.users = {u}] ELSE f

\* listAuditEventsHandler: a developer gets their own policy tests, whatever they ask for.
Scope(u, f) ==
    IF u \in Developers THEN [f EXCEPT !.users = {u}, !.types = {"policy_tested"}] ELSE f

HasAccess(u) == u \in Officers \cup Developers

Show(u, f, cursor, size) ==
    LET r == reader[u]
        page == Rows(f, cursor, size)
        next == NextCursor(page, size) IN
      reader' = [reader EXCEPT
                   ![u] = [r EXCEPT !.pc = IF next = None THEN "listed" ELSE "list",
                                    !.filter = f, !.size = size,
                                    !.pages = Append(r.pages, page), !.cursor = next,
                                    !.before = IF cursor = None THEN Committed ELSE r.before]]

\* GET /api/audit-events, the first page.
List(u, f, size) ==
    /\ reader[u].pc = "idle" /\ HasAccess(u)
    /\ Show(u, Scope(u, f), None, size)
    /\ UNCHANGED <<now, events>>

\* Mutant of ListNext: the cursor is not applied.
ListNextFirst(u) ==
    /\ reader[u].pc = "list"
    /\ Show(u, reader[u].filter, None, reader[u].size)
    /\ UNCHANGED <<now, events>>

\* ... and the next, with the same filter and the cursor given.
ListNext(u) ==
    /\ reader[u].pc = "list"
    /\ Show(u, reader[u].filter, reader[u].cursor, reader[u].size)
    /\ UNCHANGED <<now, events>>

\* GET /api/audit-events/{id}: the event is shown, or 404.
MayOpen(u, e) ==
    /\ HasAccess(u)
    /\ e \in Committed
    /\ u \in Developers => events[e].user = u /\ events[e].type = "policy_tested"

-----------------------------------------------------------------------------
(* The export.                                                             *)

\* InsertAuditEvent of audit_exported begins.
ExportRecord(u, f, e) ==
    /\ reader[u].pc = "idle" /\ HasAccess(u)
    /\ Begin(e, u, "audit_exported")
    /\ reader' = [reader EXCEPT ![u] = [@ EXCEPT !.pc = "recording", !.filter = f,
                                                 !.size = ExportLimit, !.record = e]]
    /\ UNCHANGED now

\* It has been inserted, or could not be; its error is dropped.
ExportRecorded(u) ==
    /\ reader[u].pc = "recording"
    /\ \/ /\ events' = [events EXCEPT ![reader[u].record].state = "committed"]
          /\ reader' = [reader EXCEPT ![u] = [@ EXCEPT !.pc = "export", !.before = Committed']]
       \/ /\ events' = [events EXCEPT ![reader[u].record] = Free]
          /\ reader' = [reader EXCEPT ![u] = [@ EXCEPT !.pc = "export", !.before = Committed,
                                                       !.record = None]]
    /\ UNCHANGED now

\* Mutant of ExportRead: read in the order of writing, not of reading.
ExportReadOldest(u) ==
    /\ reader[u].pc = "export"
    /\ LET S == {e \in Committed : Matches(e, reader[u].filter)} IN
         reader' = [reader EXCEPT
                      ![u] = [@ EXCEPT !.pc = "exported",
                                       !.pages = <<{e \in S : Cardinality({d \in S : Below(d, e)}) < ExportLimit}>>]]
    /\ UNCHANGED <<now, events>>

\* ListAuditEvents without a cursor, and the file is sent: one page, however much there is.
ExportRead(u) ==
    /\ reader[u].pc = "export"
    /\ reader' = [reader EXCEPT
                    ![u] = [@ EXCEPT !.pc = "exported",
                                     !.pages = <<Rows(reader[u].filter, None, ExportLimit)>>]]
    /\ UNCHANGED <<now, events>>

-----------------------------------------------------------------------------

Tick == now < MaxTime /\ now' = now + 1 /\ UNCHANGED <<events, reader>>

Write(e) ==
    \/ \E u \in Users, type \in Types : Insert(e, u, type)
    \/ Commit(e)
    \/ Rollback(e)

Read(u) ==
    \/ \E f \in Filters, size \in Sizes : List(u, f, size)
    \/ ListNext(u)
    \/ \E f \in Filters, e \in Ids : ExportRecord(u, f, e)
    \/ ExportRecorded(u)
    \/ ExportRead(u)

Next ==
    \/ \E e \in Ids : Write(e)
    \/ \E u \in Users : Read(u)
    \/ Tick

Spec == Init /\ [][Next]_vars

(***************************************************************************)
(* Properties                                                              *)
(***************************************************************************)

Shown(u) == UNION {reader[u].pages[k] : k \in 1..Len(reader[u].pages)}

\* Walking the pages to the end misses nothing that had committed before the first,
\* however many events share a time and whatever is inserted or committed late.
WalkIsComplete ==
    \A u \in Users : reader[u].pc = "listed" =>
        \A e \in reader[u].before : Matches(e, reader[u].filter) => e \in Shown(u)

\* ... and shows nothing twice: every page is below those before it.
WalkDescends ==
    \A u \in Users : \A j, k \in 1..Len(reader[u].pages) : j < k =>
        \A d \in reader[u].pages[j], e \in reader[u].pages[k] : Below(e, d)

\* The export of a user who reads the whole audit leaves out what had committed, its
\* own event included, only when it is full, and then only what is older than all it
\* holds.  What the export of a developer should hold is ShownCanBeOpened.
ExportIsNewest ==
    \A u \in Officers : reader[u].pc = "exported" =>
        /\ reader[u].record # None => reader[u].record \in reader[u].before
        /\ \A e \in reader[u].before \ Shown(u) : Matches(e, reader[u].filter) =>
             /\ Cardinality(Shown(u)) = ExportLimit
             /\ \A d \in Shown(u) : Below(e, d)

\* What a list shows can be opened, and what can be opened is found by a list that
\* asks for everything: two handlers state the developers' scope separately.  The
\* third that should, the export, does not (ShownCanBeOpened).
ListedCanBeOpened ==
    LET everything == [users |-> Users, types |-> Types, from |-> 0, to |-> MaxTime] IN
    \A u \in Officers \cup Developers :
        /\ reader[u].pc \in {"list", "listed"} => \A e \in Shown(u) : MayOpen(u, e)
        /\ \A e \in Committed : MayOpen(u, e) <=> Matches(e, Scope(u, everything))

(***************************************************************************)
(* What docs and comments say and the code does not do (violation run)     *)
(***************************************************************************)

\* Nobody is shown, by a list or in an export, an event they could not open: a
\* developer reads their own policy tests and only them (iteration-9.md:161-169), but
\* exportAuditEventsHandler drops the scope that requireAuditAccess returns.
ShownCanBeOpened == \A u \in Users : \A e \in Shown(u) : MayOpen(u, e)

=============================================================================
