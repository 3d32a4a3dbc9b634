------------------------ MODULE AuditReading_proofs ------------------------
(***************************************************************************)
(* Proofs about AuditReading: walking the audit log under the keyset       *)
(* cursor and exporting it, for any users, events, filters, page sizes and *)
(* interleaving of writers with readers.                                   *)
(***************************************************************************)
EXTENDS AuditReading, FiniteSetTheorems, TLAPS

FilterType == [users : SUBSET Users, types : SUBSET Types, from : Times, to : Times]

ReaderType ==
    [pc : Pcs, filter : FilterType \cup {None}, size : Nat \cup {None},
     pages : Seq(SUBSET Ids), cursor : Ids \cup {None}, record : Ids \cup {None},
     before : SUBSET Ids]

Typed ==
    /\ now \in Times
    /\ events \in [Ids -> RowType \cup {Free}]
    /\ reader \in [Users -> ReaderType]

\* What r has shown.
Holds(r, e) == \E k \in 1..Len(r.pages) : e \in r.pages[k]

\* What holds of every page, of a list under filter f and of size n.
Pages(r, f, n) ==
    /\ \A k \in 1..Len(r.pages) :
         /\ r.pages[k] \subseteq Committed
         /\ Cardinality(r.pages[k]) <= n
         /\ \A e \in r.pages[k] : Matches(e, f)
    /\ \A j, k \in 1..Len(r.pages) : j < k =>
         \A d \in r.pages[j], e \in r.pages[k] : Below(e, d)

\* The cursor c is the last row shown.
Lowest(r, c) == c \in Committed /\ \A d \in Ids : Holds(r, d) => d = c \/ Below(c, d)

Scoped(u, f) == u \in Developers => f.users = {u} /\ f.types = {"policy_tested"}

\* A list has shown, of what had committed before it, all that is not below its cursor.
Walks(u, r) ==
    r.pc \in {"list", "listed"} =>
        /\ HasAccess(u) /\ r.filter \in FilterType /\ Scoped(u, r.filter) /\ r.size \in Nat \ {0}
        /\ r.before \subseteq Committed
        /\ Pages(r, r.filter, r.size)
        /\ r.pc = "list" => Lowest(r, r.cursor)
        /\ \A e \in r.before : Matches(e, r.filter) =>
             Holds(r, e) \/ (r.pc = "list" /\ Below(e, r.cursor))

\* An export has shown nothing before it is done, and then one page.
Exports(r) ==
    /\ r.pc \in {"idle", "recording", "export"} => r.pages = <<>>
    /\ r.pc \in {"recording", "export", "exported"} => r.filter \in FilterType /\ r.size = ExportLimit
    /\ r.pc \in {"export", "exported"} =>
         /\ r.before \subseteq Committed
         /\ r.record # None => r.record \in r.before
    /\ r.pc = "exported" =>
         /\ Len(r.pages) = 1 /\ r.pages[1] \subseteq Committed
         /\ Cardinality(r.pages[1]) <= ExportLimit
         /\ \A e \in r.before \ r.pages[1] : Matches(e, r.filter) =>
              /\ Cardinality(r.pages[1]) = ExportLimit
              /\ \A d \in r.pages[1] : Below(e, d)

\* An export's event, while it is being recorded, is an open row of no other export.
Recording ==
    \A u \in Users : reader[u].pc = "recording" =>
        /\ reader[u].record \in Ids /\ events[reader[u].record].state = "open"
        /\ \A v \in Users \ {u} : reader[v].pc = "recording" => reader[v].record # reader[u].record

IInv ==
    /\ Typed
    /\ \A u \in Users : Walks(u, reader[u]) /\ Exports(reader[u])
    /\ Recording

-----------------------------------------------------------------------------
(***************************************************************************)
(* Rows in order                                                           *)
(***************************************************************************)

\* A finite set that is not empty has an element below which, under an irreflexive and
\* transitive relation, there is none.  The sets of what is below an element are finite,
\* and among finite sets there is no infinite descent.
LEMMA HasMinimal ==
    ASSUME NEW X, IsFiniteSet(X), X # {}, NEW R,
           \A x \in X : <<x, x>> \notin R,
           \A x, y, z \in X : <<x, y>> \in R /\ <<y, z>> \in R => <<x, z>> \in R
    PROVE  \E m \in X : \A y \in X : <<y, m>> \notin R
<1> DEFINE below(x) == {y \in X : <<y, x>> \in R}
           T == {below(x) : x \in X}
<1>1. T \subseteq FiniteSubsetsOf(X) /\ T # {}
  <2>1. \A x \in X : below(x) \in SUBSET X /\ IsFiniteSet(below(x))
    BY FS_Subset
  <2> HIDE DEF below
  <2> QED
    BY <2>1 DEF FiniteSubsetsOf
<1>2. PICK b \in T : \A c \in T : <<c, b>> \notin StrictSubsetOrdering(X)
  <2> HIDE DEF T
  <2> QED
    BY <1>1, FS_StrictSubsetOrderingWellFounded, WFMin
<1>3. PICK m \in X : b = below(m)
  OBVIOUS
<1>4. ASSUME NEW y \in X, <<y, m>> \in R PROVE FALSE
  <2>1. below(y) \subseteq below(m) /\ y \in below(m) /\ y \notin below(y)
    BY <1>4
  <2>2. below(y) \in T /\ below(y) \in SUBSET X /\ below(m) \in SUBSET X
    OBVIOUS
  <2> HIDE DEF below, T
  <2>3. <<below(y), below(m)>> \in (SUBSET X) \X (SUBSET X)
    BY <2>2
  <2>4. <<below(y), below(m)>> \in StrictSubsetOrdering(X)
    BY <2>1, <2>3 DEF StrictSubsetOrdering
  <2> QED
    BY <1>2, <1>3, <2>2, <2>4
<1> QED
  BY <1>4

\* There are finitely many rows, so every set of them can be counted.
LEMMA FiniteIds == ASSUME AuditAssumption, NEW S, S \subseteq Ids PROVE IsFiniteSet(S)
<1>1. IsFiniteSet(Ids)
  BY FS_Interval DEF Ids, AuditAssumption
<1> QED
  BY <1>1, FS_Subset

\* A committed row has a time, an owner and a type.
LEMMA RowTyped ==
    ASSUME Typed, NEW e \in Committed
    PROVE  e \in Ids /\ events[e] \in RowType
BY DEF Typed, Committed, Free

\* The order of the rows is strict and total.
LEMMA Ordered ==
    ASSUME AuditAssumption, Typed
    PROVE  /\ \A e \in Committed : ~Below(e, e)
           /\ \A c, d, e \in Committed : Below(c, d) /\ Below(d, e) => Below(c, e)
           /\ \A d, e \in Committed : d = e \/ Below(d, e) \/ Below(e, d)
<1>1. \A e \in Committed : e \in Nat /\ events[e].at \in Nat
  <2>1. SUFFICES ASSUME NEW e \in Committed PROVE e \in Nat /\ events[e].at \in Nat
    OBVIOUS
  <2>2. e \in Ids /\ events[e] \in RowType
    BY RowTyped
  <2> QED
    BY <2>2 DEF Ids, RowType, Times, AuditAssumption
<1> QED
  BY <1>1 DEF Below

\* A page that is not empty has a least row, and Last is it.
LEMMA LastIsLeast ==
    ASSUME AuditAssumption, Typed, NEW page, page \subseteq Committed, page # {}
    PROVE  Last(page) \in page /\ \A d \in page : d = Last(page) \/ Below(Last(page), d)
<1>1. page \subseteq Ids /\ IsFiniteSet(page)
  BY FiniteIds DEF Committed
<1> DEFINE R == {p \in page \X page : Below(p[1], p[2])}
<1>2. \A x, y \in page : <<x, y>> \in R <=> Below(x, y)
  OBVIOUS
<1> HIDE DEF R
<1>3. \E m \in page : \A y \in page : <<y, m>> \notin R
  <2>1. \A x \in page : <<x, x>> \notin R
    BY <1>2, Ordered
  <2>2. \A x, y, z \in page : <<x, y>> \in R /\ <<y, z>> \in R => <<x, z>> \in R
    BY <1>2, Ordered
  <2> QED
    BY <1>1, <2>1, <2>2, HasMinimal
<1>4. \E m \in page : \A d \in page \ {m} : Below(m, d)
  BY <1>2, <1>3, Ordered
<1> QED
  BY <1>4 DEF Last

\* ... and a greatest.
LEMMA HasGreatest ==
    ASSUME AuditAssumption, Typed, NEW S, S \subseteq Committed, S # {}
    PROVE  \E m \in S : \A d \in S : ~Below(m, d)
<1>1. S \subseteq Ids /\ IsFiniteSet(S)
  BY FiniteIds DEF Committed
<1> DEFINE R == {p \in S \X S : Below(p[2], p[1])}
<1>2. \A x, y \in S : <<x, y>> \in R <=> Below(y, x)
  OBVIOUS
<1> HIDE DEF R
<1>3. \E m \in S : \A y \in S : <<y, m>> \notin R
  <2>1. \A x \in S : <<x, x>> \notin R
    BY <1>2, Ordered
  <2>2. \A x, y, z \in S : <<x, y>> \in R /\ <<y, z>> \in R => <<x, z>> \in R
    BY <1>2, Ordered
  <2> QED
    BY <1>1, <2>1, <2>2, HasMinimal
<1> QED
  BY <1>2, <1>3

\* ORDER BY ... DESC LIMIT gives the highest rows, as many as are asked for, or all.
LEMMA NewestRows ==
    ASSUME AuditAssumption, Typed, NEW S, S \subseteq Committed, NEW limit \in Nat
    PROVE  /\ Newest(S, limit) \subseteq S
           /\ \A e \in S \ Newest(S, limit), d \in Newest(S, limit) : Below(e, d)
           /\ Cardinality(Newest(S, limit)) <= limit
           /\ Cardinality(Newest(S, limit)) < limit => Newest(S, limit) = S
<1> DEFINE N == Newest(S, limit)
           above(e) == {d \in S : Below(e, d)}
<1>1. N = {e \in S : Cardinality(above(e)) < limit} /\ N \subseteq S
  BY DEF Newest
<1>2. IsFiniteSet(S) /\ IsFiniteSet(N) /\ Cardinality(N) \in Nat
  BY <1>1, FiniteIds, FS_Subset, FS_CardinalityType DEF Committed
<1>3. \A e \in S : IsFiniteSet(above(e)) /\ Cardinality(above(e)) \in Nat
  BY <1>2, FS_Subset, FS_CardinalityType
<1>4. ASSUME NEW e \in S \ N, NEW d \in N PROVE Below(e, d)
  <2>1. SUFFICES ASSUME ~Below(e, d) PROVE FALSE
    OBVIOUS
  <2>2. d \in S /\ e \in S /\ Below(d, e)
    BY <1>1, <1>4, <2>1, Ordered
  <2>3. above(e) \subseteq above(d)
    BY <2>2, Ordered
  <2>4. Cardinality(above(e)) <= Cardinality(above(d))
    <3>1. IsFiniteSet(above(d))
      BY <1>3, <2>2
    <3> HIDE DEF above
    <3> QED
      BY <2>3, <3>1, FS_Subset
  <2>5. Cardinality(above(d)) < limit
    BY <1>1
  <2>6. Cardinality(above(e)) \in Nat /\ Cardinality(above(d)) \in Nat
    BY <1>3, <2>2
  <2>7. Cardinality(above(e)) < limit
    BY <2>4, <2>5, <2>6
  <2> QED
    BY <1>1, <2>2, <2>7
<1>5. Cardinality(N) <= limit
  <2>1. CASE N = {}
    BY <1>2, <2>1, FS_EmptySet
  <2>2. CASE N # {}
    <3>1. PICK m \in N : \A d \in N : d = m \/ Below(m, d)
      BY <1>1, <2>2, LastIsLeast
    <3>2. N \ {m} \subseteq above(m) /\ m \in S /\ Cardinality(above(m)) < limit
      BY <1>1, <3>1
    <3>3. IsFiniteSet(above(m)) /\ Cardinality(above(m)) \in Nat
      BY <1>3, <3>2
    <3> HIDE DEF N, above
    <3>4. Cardinality(N \ {m}) <= Cardinality(above(m))
      BY <3>2, <3>3, FS_Subset
    <3>5. Cardinality(N \ {m}) = Cardinality(N) - 1
      BY <1>2, FS_RemoveElement
    <3> QED
      BY <1>2, <3>2, <3>3, <3>4, <3>5
  <2> QED
    BY <2>1, <2>2
<1>6. ASSUME Cardinality(N) < limit PROVE N = S
  <2>1. SUFFICES ASSUME S \ N # {} PROVE FALSE
    BY <1>1
  <2>2. PICK m \in S \ N : \A d \in S \ N : ~Below(m, d)
    BY <2>1, HasGreatest
  <2>3. above(m) \subseteq N
    BY <2>2
  <2>4. Cardinality(above(m)) <= Cardinality(N)
    <3> HIDE DEF N, above
    <3> QED
      BY <1>2, <2>3, FS_Subset
  <2>5. Cardinality(above(m)) \in Nat
    BY <1>3
  <2>6. Cardinality(above(m)) < limit
    BY <1>2, <1>6, <2>4, <2>5
  <2> QED
    BY <1>1, <2>2, <2>6
<1> QED
  BY <1>1, <1>4, <1>5, <1>6

(***************************************************************************)
(* Readers                                                                 *)
(***************************************************************************)

\* While committed rows stay as they are, whatever else is written, a reader's pages stay
\* what they were.
LEMMA Undisturbed ==
    ASSUME \A e \in Committed : events'[e] = events[e], NEW u, NEW r,
           Walks(u, r), Exports(r), r.pc = "list" => r.cursor \in Ids
    PROVE  Walks(u, r)' /\ Exports(r)'
<1>1. Committed \subseteq Committed'
  BY DEF Committed
<1>2. \A d, e \in Committed : Below(d, e)' <=> Below(d, e)
  BY DEF Below
<1>3. \A e \in Committed : \A f : Matches(e, f)' <=> Matches(e, f)
  BY DEF Matches
<1>4. Exports(r)'
  BY <1>1, <1>2, <1>3 DEF Exports
<1>5. Walks(u, r)'
  <2>1. SUFFICES ASSUME r.pc \in {"list", "listed"} PROVE Walks(u, r)'
    BY DEF Walks
  <2>2. /\ HasAccess(u) /\ r.filter \in FilterType /\ Scoped(u, r.filter) /\ r.size \in Nat \ {0}
        /\ r.before \subseteq Committed
        /\ Pages(r, r.filter, r.size)
        /\ r.pc = "list" => Lowest(r, r.cursor)
        /\ \A e \in r.before : Matches(e, r.filter) =>
             Holds(r, e) \/ (r.pc = "list" /\ Below(e, r.cursor))
    BY <2>1 DEF Walks
  <2>3. Pages(r, r.filter, r.size)'
    <3>1. ASSUME NEW k \in 1..Len(r.pages)
          PROVE  /\ r.pages[k] \subseteq Committed'
                 /\ Cardinality(r.pages[k]) <= r.size
                 /\ \A e \in r.pages[k] : Matches(e, r.filter)'
      BY <1>1, <1>3, <2>2 DEF Pages
    <3>2. ASSUME NEW j \in 1..Len(r.pages), NEW k \in 1..Len(r.pages), j < k,
                 NEW d \in r.pages[j], NEW e \in r.pages[k]
          PROVE  Below(e, d)'
      BY <1>2, <2>2, <3>2 DEF Pages
    <3> QED
      BY <3>1, <3>2 DEF Pages
  <2>4. \A d : Holds(r, d) => d \in Committed
    BY <2>2 DEF Pages, Holds
  <2>5. ASSUME r.pc = "list" PROVE Lowest(r, r.cursor)'
    <3>1. Lowest(r, r.cursor)
      BY <2>2, <2>5
    <3>2. r.cursor \in Committed'
      BY <1>1, <3>1 DEF Lowest
    <3>3. ASSUME NEW d \in Ids, Holds(r, d) PROVE d = r.cursor \/ Below(r.cursor, d)'
      BY <1>2, <2>4, <3>1, <3>3 DEF Lowest
    <3> QED
      BY <3>2, <3>3 DEF Lowest, Holds
  <2>6. ASSUME NEW e \in r.before, Matches(e, r.filter)'
        PROVE  Holds(r, e) \/ (r.pc = "list" /\ Below(e, r.cursor)')
    <3>1. e \in Committed /\ Matches(e, r.filter)
      BY <1>3, <2>2, <2>6
    <3> QED
      BY <1>2, <2>2, <3>1 DEF Lowest
  <2> QED
    BY <1>1, <2>2, <2>3, <2>5, <2>6 DEF Walks, HasAccess, Scoped, Holds, FilterType, Times
<1> QED
  BY <1>4, <1>5

\* One more page, read under filter f from cursor c on, of size n.
LEMMA PageShown ==
    ASSUME AuditAssumption, Typed, NEW u, HasAccess(u), NEW r \in ReaderType, NEW q,
           NEW f \in FilterType, Scoped(u, f), NEW n \in Nat \ {0},
           NEW c \in Ids \cup {None}, NEW before \in SUBSET Committed,
           NEW page, NEW next, page = Rows(f, c, n), next = NextCursor(page, n),
           q = [r EXCEPT !.pc = IF next = None THEN "listed" ELSE "list",
                         !.filter = f, !.size = n, !.pages = Append(@, page),
                         !.cursor = next, !.before = before],
           c = None => r.pages = <<>>,
           c # None => Lowest(r, c),
           Pages(r, f, n),
           \A e \in before : Matches(e, f) => Holds(r, e) \/ AfterCursor(e, c)
    PROVE  q \in ReaderType /\ Walks(u, q) /\ Exports(q)
<1> DEFINE S == {e \in Committed : Matches(e, f) /\ AfterCursor(e, c)}
<1>1. /\ page \subseteq S /\ S \subseteq Committed /\ Committed \subseteq Ids
      /\ \A e \in S \ page, d \in page : Below(e, d)
      /\ Cardinality(page) <= n
      /\ Cardinality(page) < n => page = S
  <2>1. S \subseteq Committed /\ Committed \subseteq Ids /\ page = Newest(S, n) /\ n \in Nat
    BY DEF Rows, Committed
  <2> HIDE DEF S
  <2> QED
    BY <2>1, NewestRows
<1> HIDE DEF S
<1>2. page \in SUBSET Ids /\ IsFiniteSet(page) /\ Cardinality(page) \in Nat
  BY <1>1, FiniteIds, FS_CardinalityType
<1>3. None \notin Ids
  BY DEF AuditAssumption
<1>4. next = None => page = S
  <2>1. SUFFICES ASSUME next = None PROVE page = S
    OBVIOUS
  <2>2. page # {} => Last(page) \in Ids
    BY <1>1, LastIsLeast
  <2>3. ~(Cardinality(page) >= n) \/ page = {}
    BY <1>3, <2>1, <2>2 DEF NextCursor
  <2>4. Cardinality(page) < n
    BY <1>2, <2>3, FS_EmptySet
  <2> QED
    BY <1>1, <2>4
<1>5. next # None => next \in page /\ \A d \in page : d = next \/ Below(next, d)
  BY <1>1, LastIsLeast DEF NextCursor
<1>6. next \in Ids \cup {None}
  BY <1>1, <1>5
<1>7. /\ q.pages = Append(r.pages, page) /\ q.filter = f /\ q.size = n /\ q.before = before
      /\ q.cursor = next /\ q.pc = IF next = None THEN "listed" ELSE "list"
  BY DEF ReaderType
<1>8. q \in ReaderType
  <2>1. Append(r.pages, page) \in Seq(SUBSET Ids)
    BY <1>2 DEF ReaderType
  <2>2. before \in SUBSET Ids
    BY <1>1
  <2> QED
    BY <1>6, <2>1, <2>2 DEF ReaderType, Pcs
<1>9. /\ Len(q.pages) = Len(r.pages) + 1 /\ Len(r.pages) \in Nat
      /\ \A k \in 1..Len(r.pages) : q.pages[k] = r.pages[k]
      /\ q.pages[Len(r.pages) + 1] = page
  BY <1>2, <1>7 DEF ReaderType
<1>10. \A e : Holds(q, e) <=> Holds(r, e) \/ e \in page
  BY <1>9 DEF Holds
<1>11. \A d : Holds(r, d) => d \in Committed
  BY DEF Pages, Holds
<1>12. ASSUME NEW d, Holds(r, d), NEW e \in page PROVE Below(e, d)
  <2>1. c # None
    BY <1>12 DEF Holds
  <2>2. e \in Committed /\ d \in Committed /\ c \in Committed /\ Below(e, c)
    BY <1>1, <1>11, <1>12, <2>1 DEF S, AfterCursor, Lowest
  <2>3. d = c \/ Below(c, d)
    BY <1>1, <1>12, <2>1, <2>2 DEF Lowest
  <2> QED
    BY <2>2, <2>3, Ordered
<1>13. Pages(q, f, n)
  <2>1. ASSUME NEW k \in 1..Len(q.pages)
        PROVE  /\ q.pages[k] \subseteq Committed
               /\ Cardinality(q.pages[k]) <= n
               /\ \A e \in q.pages[k] : Matches(e, f)
    <3>1. CASE k = Len(r.pages) + 1
      BY <1>1, <1>9, <3>1 DEF S
    <3>2. CASE k \in 1..Len(r.pages)
      BY <1>9, <3>2 DEF Pages
    <3> QED
      BY <1>9, <3>1, <3>2
  <2>2. ASSUME NEW j \in 1..Len(q.pages), NEW k \in 1..Len(q.pages), j < k,
               NEW d \in q.pages[j], NEW e \in q.pages[k]
        PROVE  Below(e, d)
    <3>1. j \in 1..Len(r.pages) /\ d \in r.pages[j]
      BY <1>9, <2>2
    <3>2. CASE k = Len(r.pages) + 1
      BY <1>9, <1>12, <3>1, <3>2 DEF Holds
    <3>3. CASE k \in 1..Len(r.pages)
      BY <1>9, <2>2, <3>1, <3>3 DEF Pages
    <3> QED
      BY <1>9, <3>2, <3>3
  <2> QED
    BY <2>1, <2>2 DEF Pages
<1>14. next # None => Lowest(q, next)
  <2>1. SUFFICES ASSUME next # None, NEW d \in Ids, Holds(q, d)
                 PROVE  next \in Committed /\ (d = next \/ Below(next, d))
    BY <1>1, <1>5 DEF Lowest
  <2> QED
    BY <1>1, <1>5, <1>10, <1>12, <2>1
<1>15. ASSUME NEW e \in before, Matches(e, f)
       PROVE  Holds(q, e) \/ (next # None /\ Below(e, next))
  <2>1. SUFFICES ASSUME ~Holds(r, e), e \notin page PROVE next # None /\ Below(e, next)
    BY <1>10
  <2>2. e \in S
    BY <1>15, <2>1 DEF S
  <2> QED
    BY <1>1, <1>4, <1>5, <2>1, <2>2
<1>16. q.pc \in {"list", "listed"} /\ (q.pc = "list" <=> next # None)
  BY <1>7
<1>17. Exports(q)
  BY <1>16 DEF Exports
<1>18. Walks(u, q)
  <2>1. \A e \in before : Matches(e, f) => Holds(q, e) \/ (q.pc = "list" /\ Below(e, next))
    BY <1>15, <1>16
  <2> QED
    BY <1>7, <1>13, <1>14, <1>16, <2>1 DEF Walks
<1> QED
  BY <1>8, <1>17, <1>18

(***************************************************************************)
(* The steps                                                               *)
(***************************************************************************)

\* A step that leaves committed rows and the rows being recorded as they are, and what
\* everybody reads.
LEMMA OthersWrite ==
    ASSUME IInv, Typed', UNCHANGED reader,
           \A e \in Committed : events'[e] = events[e],
           \A u \in Users : reader[u].pc = "recording" =>
             events'[reader[u].record] = events[reader[u].record]
    PROVE  IInv'
<1>1. ASSUME NEW u \in Users PROVE Walks(u, reader[u])' /\ Exports(reader[u])'
  <2>1. PICK r : r = reader[u]
    OBVIOUS
  <2>2. Walks(u, r) /\ Exports(r) /\ (r.pc = "list" => r.cursor \in Ids)
    BY <2>1 DEF IInv, Walks, Lowest, Committed
  <2>3. Walks(u, r)' /\ Exports(r)'
    BY <2>2, Undisturbed
  <2> QED
    BY <2>1, <2>3
<1>2. Recording'
  BY DEF IInv, Recording
<1> QED
  BY <1>1, <1>2 DEF IInv

\* A step of one user, who then reads r, that leaves committed rows as they are.
LEMMA OneReads ==
    ASSUME IInv, Typed', NEW u \in Users, NEW q,
           reader' = [reader EXCEPT ![u] = q],
           \A e \in Committed : events'[e] = events[e],
           Walks(u, q)', Exports(q)', Recording'
    PROVE  IInv'
<1>1. ASSUME NEW v \in Users PROVE Walks(v, reader[v])' /\ Exports(reader[v])'
  <2>1. CASE v = u
    <3>1. reader'[v] = q
      BY <2>1 DEF IInv, Typed
    <3> QED
      BY <2>1, <3>1
  <2>2. CASE v # u
    <3>1. PICK r : r = reader[v]
      OBVIOUS
    <3>2. Walks(v, r) /\ Exports(r) /\ (r.pc = "list" => r.cursor \in Ids)
      BY <3>1 DEF IInv, Walks, Lowest, Committed
    <3>3. reader'[v] = r
      BY <2>2, <3>1 DEF IInv, Typed
    <3>4. Walks(v, r)' /\ Exports(r)'
      BY <3>2, Undisturbed
    <3> QED
      BY <3>3, <3>4
  <2> QED
    BY <2>1, <2>2
<1> QED
  BY <1>1 DEF IInv

\* A transaction begins with a free row.
LEMMA BeginKeeps ==
    ASSUME Typed, NEW e \in Ids, NEW u \in Users, NEW type \in Types, Begin(e, u, type)
    PROVE  /\ events' \in [Ids -> RowType \cup {Free}]
           /\ events[e].state = "free" /\ events'[e].state = "open"
           /\ \A d \in Ids \ {e} : events'[d] = events[d]
           /\ \A d \in Committed : events'[d] = events[d]
<1>1. /\ events \in [Ids -> RowType \cup {Free}]
      /\ events[e].state = "free"
      /\ events' = [events EXCEPT ![e] = [state |-> "open", at |-> now, user |-> u, type |-> type]]
  BY DEF Typed, Begin
<1>2. [state |-> "open", at |-> now, user |-> u, type |-> type] \in RowType
  BY DEF Typed, RowType
<1> QED
  BY <1>1, <1>2 DEF Committed

\* An open row is committed, or rolled back.
LEMMA OpenEnds ==
    ASSUME Typed, NEW e \in Ids, events[e].state = "open",
           \/ events' = [events EXCEPT ![e].state = "committed"]
           \/ events' = [events EXCEPT ![e] = Free]
    PROVE  /\ events' \in [Ids -> RowType \cup {Free}]
           /\ \A d \in Ids \ {e} : events'[d] = events[d]
           /\ \A d \in Committed : events'[d] = events[d]
<1>1. events \in [Ids -> RowType \cup {Free}]
  BY DEF Typed
<1>2. events[e] \in RowType
  BY <1>1 DEF Free
<1>3. [events[e] EXCEPT !.state = "committed"] \in RowType
  BY <1>2 DEF RowType
<1> QED
  BY <1>1, <1>3 DEF Committed

\* An insert, a commit or a rollback of others disturbs no reader.
LEMMA WriteIInv ==
    ASSUME AuditAssumption, IInv, NEW e \in Ids, Write(e)
    PROVE  IInv'
<1>1. Typed /\ Recording
  BY DEF IInv
<1>2. ASSUME NEW u \in Users, NEW type \in Types, Insert(e, u, type) PROVE IInv'
  <2>1. Begin(e, u, type) /\ UNCHANGED <<now, reader>>
    BY <1>2 DEF Insert
  <2>2. /\ events' \in [Ids -> RowType \cup {Free}]
        /\ events[e].state = "free"
        /\ \A d \in Ids \ {e} : events'[d] = events[d]
        /\ \A d \in Committed : events'[d] = events[d]
    BY <1>1, <2>1, BeginKeeps
  <2>3. Typed'
    BY <1>1, <2>1, <2>2 DEF Typed
  <2>4. \A v \in Users : reader[v].pc = "recording" => events'[reader[v].record] = events[reader[v].record]
    BY <1>1, <2>2 DEF Recording
  <2> QED
    BY <2>1, <2>2, <2>3, <2>4, OthersWrite
<1>3. ASSUME Commit(e) \/ Rollback(e) PROVE IInv'
  <2>1. /\ events[e].state = "open" /\ \A u \in Users : reader[u].record # e
        /\ \/ events' = [events EXCEPT ![e].state = "committed"]
           \/ events' = [events EXCEPT ![e] = Free]
        /\ UNCHANGED <<now, reader>>
    BY <1>3 DEF Commit, Rollback
  <2>2. /\ events' \in [Ids -> RowType \cup {Free}]
        /\ \A d \in Ids \ {e} : events'[d] = events[d]
        /\ \A d \in Committed : events'[d] = events[d]
    BY <1>1, <2>1, OpenEnds
  <2>3. Typed'
    BY <1>1, <2>1, <2>2 DEF Typed
  <2>4. \A v \in Users : reader[v].pc = "recording" => events'[reader[v].record] = events[reader[v].record]
    BY <1>1, <2>1, <2>2 DEF Recording
  <2> QED
    BY <2>1, <2>2, <2>3, <2>4, OthersWrite
<1> QED
  BY <1>2, <1>3 DEF Write

\* What a developer asks for is narrowed to what they may read.
LEMMA ScopeScoped ==
    ASSUME AuditAssumption, NEW u \in Users, NEW f \in FilterType
    PROVE  Scope(u, f) \in FilterType /\ Scoped(u, Scope(u, f))
BY DEF AuditAssumption, FilterType, Scope, Scoped

\* Filters that a request may name are filters.
LEMMA FiltersTyped == AuditAssumption => Filters \subseteq FilterType
BY DEF AuditAssumption, FilterType

\* A list is begun, or goes on where it stopped.
LEMMA ShowIInv ==
    ASSUME AuditAssumption, IInv, NEW u \in Users, HasAccess(u),
           NEW f \in FilterType, Scoped(u, f), NEW n \in Nat \ {0}, NEW c \in Ids \cup {None},
           Show(u, f, c, n), UNCHANGED <<now, events>>,
           \/ c = None /\ reader[u].pages = <<>>
           \/ /\ c # None /\ Lowest(reader[u], c) /\ reader[u].before \subseteq Committed
              /\ Pages(reader[u], f, n)
              /\ \A e \in reader[u].before : Matches(e, f) => Holds(reader[u], e) \/ Below(e, c)
    PROVE  IInv'
<1>1. PICK r : r = reader[u]
  OBVIOUS
<1>2. r \in ReaderType /\ Typed /\ Recording
  BY <1>1 DEF IInv, Typed
<1>3. PICK page : page = Rows(f, c, n)
  OBVIOUS
<1>4. PICK next : next = NextCursor(page, n)
  OBVIOUS
<1>5. PICK before : before = IF c = None THEN Committed ELSE r.before
  OBVIOUS
<1>6. PICK q : q = [r EXCEPT !.pc = IF next = None THEN "listed" ELSE "list",
                             !.filter = f, !.size = n, !.pages = Append(@, page),
                             !.cursor = next, !.before = before]
  OBVIOUS
<1>7. reader' = [reader EXCEPT ![u] = q]
  BY <1>1, <1>3, <1>4, <1>5, <1>6 DEF Show
<1>8. before \in SUBSET Committed /\ (c = None => r.pages = <<>>) /\ (c # None => Lowest(r, c))
  BY <1>1, <1>5
<1>9. Pages(r, f, n)
  BY <1>1 DEF Pages
<1>10. \A e \in before : Matches(e, f) => Holds(r, e) \/ AfterCursor(e, c)
  BY <1>1, <1>5 DEF AfterCursor
<1>11. q \in ReaderType /\ Walks(u, q) /\ Exports(q)
  BY <1>2, <1>3, <1>4, <1>6, <1>8, <1>9, <1>10, PageShown
<1>12. q.pc # "recording"
  BY <1>2, <1>6 DEF ReaderType
<1>13. Typed'
  BY <1>2, <1>7, <1>11 DEF Typed
<1>14. Recording'
  BY <1>2, <1>7, <1>12 DEF Recording, Typed
<1>15. Walks(u, q)' /\ Exports(q)'
  <2>1. q.pc = "list" => q.cursor \in Ids
    BY <1>11 DEF Walks, Lowest, Committed
  <2> QED
    BY <1>11, <2>1, Undisturbed
<1> QED
  BY <1>7, <1>13, <1>14, <1>15, OneReads

\* The first page of a list.
LEMMA ListIInv ==
    ASSUME AuditAssumption, IInv, NEW u \in Users, NEW f \in Filters, NEW n \in Sizes, List(u, f, n)
    PROVE  IInv'
<1>1. /\ HasAccess(u) /\ Show(u, Scope(u, f), None, n) /\ UNCHANGED <<now, events>>
      /\ reader[u].pages = <<>>
  BY DEF List, IInv, Exports
<1>2. PICK g : g = Scope(u, f)
  OBVIOUS
<1>3. g \in FilterType /\ Scoped(u, g) /\ n \in Nat \ {0}
  BY <1>2, FiltersTyped, ScopeScoped DEF AuditAssumption
<1> QED
  BY <1>1, <1>2, <1>3, ShowIInv

\* A further page under the cursor of the one before.
LEMMA ListNextIInv ==
    ASSUME AuditAssumption, IInv, NEW u \in Users, ListNext(u)
    PROVE  IInv'
<1>1. /\ reader[u].pc = "list" /\ UNCHANGED <<now, events>>
      /\ Show(u, reader[u].filter, reader[u].cursor, reader[u].size)
  BY DEF ListNext
<1>2. PICK f, n, c : f = reader[u].filter /\ n = reader[u].size /\ c = reader[u].cursor
  OBVIOUS
<1>3. /\ HasAccess(u) /\ f \in FilterType /\ Scoped(u, f) /\ n \in Nat \ {0}
      /\ reader[u].before \subseteq Committed
      /\ Pages(reader[u], f, n) /\ Lowest(reader[u], c)
      /\ \A e \in reader[u].before : Matches(e, f) => Holds(reader[u], e) \/ Below(e, c)
  BY <1>1, <1>2 DEF IInv, Walks
<1>4. c \in Ids /\ c # None
  BY <1>3 DEF Lowest, Committed, AuditAssumption
<1> QED
  BY <1>1, <1>2, <1>3, <1>4, ShowIInv

\* The export's event begins in a row that was free, so no other export is recording it.
LEMMA ExportRecordIInv ==
    ASSUME AuditAssumption, IInv, NEW u \in Users, NEW f \in Filters, NEW e \in Ids,
           ExportRecord(u, f, e)
    PROVE  IInv'
<1>1. Typed /\ Recording /\ "audit_exported" \in Types /\ f \in FilterType
  BY FiltersTyped DEF IInv, AuditAssumption
<1>2. PICK r : r = reader[u]
  OBVIOUS
<1>3. PICK q : q = [r EXCEPT !.pc = "recording", !.filter = f, !.size = ExportLimit, !.record = e]
  OBVIOUS
<1>4. /\ Begin(e, u, "audit_exported") /\ now' = now
      /\ r.pc = "idle" /\ r.pages = <<>> /\ r \in ReaderType
      /\ reader' = [reader EXCEPT ![u] = q]
  BY <1>1, <1>2, <1>3 DEF ExportRecord, IInv, Exports, Typed
<1>5. /\ events' \in [Ids -> RowType \cup {Free}]
      /\ events[e].state = "free" /\ events'[e].state = "open"
      /\ \A d \in Ids \ {e} : events'[d] = events[d]
      /\ \A d \in Committed : events'[d] = events[d]
  BY <1>1, <1>4, BeginKeeps
<1>6. /\ q \in ReaderType /\ q.pc = "recording" /\ q.pages = <<>> /\ q.filter = f
      /\ q.size = ExportLimit /\ q.record = e
  BY <1>1, <1>3, <1>4 DEF ReaderType, Pcs, AuditAssumption
<1>7. Typed'
  BY <1>1, <1>4, <1>5, <1>6 DEF Typed
<1>8. Walks(u, q)' /\ Exports(q)'
  <2>1. Walks(u, q)'
    BY <1>6 DEF Walks
  <2>2. q.filter \in FilterType'
    BY <1>1, <1>6 DEF FilterType, Times
  <2>3. Exports(q)'
    BY <1>6, <2>2 DEF Exports
  <2> QED
    BY <2>1, <2>3
<1>9. Recording'
  <2>1. reader'[u] = q /\ \A v \in Users \ {u} : reader'[v] = reader[v]
    BY <1>1, <1>4 DEF Typed
  <2>2. ASSUME NEW v \in Users \ {u}, reader[v].pc = "recording"
        PROVE  /\ reader[v].record \in Ids \ {e}
               /\ events'[reader[v].record].state = "open"
    BY <1>1, <1>5, <2>2 DEF Recording
  <2> QED
    BY <1>1, <1>5, <1>6, <2>1, <2>2 DEF Recording
<1> QED
  BY <1>4, <1>5, <1>7, <1>8, <1>9, OneReads

\* The export's event is committed, or rolled back; no other export is recording it.
LEMMA ExportRecordedIInv ==
    ASSUME AuditAssumption, IInv, NEW u \in Users, ExportRecorded(u)
    PROVE  IInv'
<1>1. Typed /\ Recording /\ reader[u].pc = "recording" /\ now' = now
  BY DEF IInv, ExportRecorded
<1>2. PICK r, e : r = reader[u] /\ e = r.record
  OBVIOUS
<1>3. /\ e \in Ids /\ events[e].state = "open" /\ r \in ReaderType /\ r.pc = "recording"
      /\ r.pages = <<>> /\ r.filter \in FilterType /\ r.size = ExportLimit
      /\ \A v \in Users \ {u} : reader[v].pc = "recording" => reader[v].record # e
  BY <1>1, <1>2 DEF Recording, IInv, Exports, Typed
<1>4. PICK q : /\ reader' = [reader EXCEPT ![u] = q]
               /\ \/ /\ events' = [events EXCEPT ![e].state = "committed"]
                     /\ q = [r EXCEPT !.pc = "export", !.before = Committed']
                  \/ /\ events' = [events EXCEPT ![e] = Free]
                     /\ q = [r EXCEPT !.pc = "export", !.before = Committed, !.record = None]
  BY <1>2 DEF ExportRecorded
<1>5. /\ events' \in [Ids -> RowType \cup {Free}]
      /\ \A d \in Ids \ {e} : events'[d] = events[d]
      /\ \A d \in Committed : events'[d] = events[d]
  BY <1>1, <1>3, <1>4, OpenEnds
<1>6. /\ q \in ReaderType /\ q.pc = "export" /\ q.pages = <<>> /\ q.filter \in FilterType
      /\ q.size = ExportLimit /\ q.before \subseteq Committed'
      /\ q.record # None => q.record \in q.before
  <2>1. Committed' \subseteq Ids /\ Committed \subseteq Ids /\ Committed \subseteq Committed'
    BY <1>5 DEF Committed
  <2>2. CASE /\ events' = [events EXCEPT ![e].state = "committed"]
             /\ q = [r EXCEPT !.pc = "export", !.before = Committed']
    <3>1. e \in Committed'
      BY <1>1, <1>3, <2>2 DEF Committed, Typed, RowType, Free
    <3> QED
      BY <1>2, <1>3, <2>1, <2>2, <3>1 DEF ReaderType, Pcs
  <2>3. CASE q = [r EXCEPT !.pc = "export", !.before = Committed, !.record = None]
    BY <1>3, <2>1, <2>3 DEF ReaderType, Pcs
  <2> QED
    BY <1>4, <2>2, <2>3
<1>7. Typed'
  BY <1>1, <1>4, <1>5, <1>6 DEF Typed
<1>8. Walks(u, q)' /\ Exports(q)'
  <2>1. Walks(u, q)'
    BY <1>6 DEF Walks
  <2>2. q.filter \in FilterType'
    BY <1>6 DEF FilterType, Times
  <2>3. Exports(q)'
    BY <1>6, <2>2 DEF Exports
  <2> QED
    BY <2>1, <2>3
<1>9. Recording'
  <2>1. reader'[u] = q /\ \A v \in Users \ {u} : reader'[v] = reader[v]
    BY <1>1, <1>4 DEF Typed
  <2>2. ASSUME NEW v \in Users \ {u}, reader[v].pc = "recording"
        PROVE  /\ reader[v].record \in Ids
               /\ events'[reader[v].record].state = "open"
    BY <1>1, <1>3, <1>5, <2>2 DEF Recording
  <2> QED
    BY <1>1, <1>6, <2>1, <2>2 DEF Recording
<1> QED
  BY <1>4, <1>5, <1>7, <1>8, <1>9, OneReads

\* The file is the first page there is, of all that has committed by then.
LEMMA ExportReadIInv ==
    ASSUME AuditAssumption, IInv, NEW u \in Users, ExportRead(u)
    PROVE  IInv'
<1>1. Typed /\ Recording /\ UNCHANGED <<now, events>> /\ ExportLimit \in Nat \ {0}
  BY DEF IInv, ExportRead, AuditAssumption
<1>2. PICK r : r = reader[u]
  OBVIOUS
<1>3. PICK page : page = Rows(r.filter, None, ExportLimit)
  OBVIOUS
<1>4. PICK q : q = [r EXCEPT !.pc = "exported", !.pages = <<page>>]
  OBVIOUS
<1>5. /\ r.pc = "export" /\ r \in ReaderType /\ r.filter \in FilterType /\ r.size = ExportLimit
      /\ r.before \subseteq Committed /\ (r.record # None => r.record \in r.before)
      /\ reader' = [reader EXCEPT ![u] = q]
  BY <1>1, <1>2, <1>3, <1>4 DEF ExportRead, IInv, Exports, Typed
<1> DEFINE S == {e \in Committed : Matches(e, r.filter) /\ AfterCursor(e, None)}
<1>6. /\ page \subseteq S /\ S \subseteq Committed
      /\ \A e \in S \ page, d \in page : Below(e, d)
      /\ Cardinality(page) <= ExportLimit
      /\ Cardinality(page) < ExportLimit => page = S
  <2>1. S \subseteq Committed /\ page = Newest(S, ExportLimit)
    BY <1>3 DEF Rows
  <2> HIDE DEF S
  <2> QED
    BY <1>1, <2>1, NewestRows
<1>7. page \in SUBSET Ids /\ Cardinality(page) \in Nat
  <2>1. page \subseteq Ids
    BY <1>6 DEF Committed
  <2> QED
    BY <2>1, FiniteIds, FS_CardinalityType
<1>8. ASSUME NEW e \in r.before \ page, Matches(e, r.filter)
      PROVE  Cardinality(page) = ExportLimit /\ \A d \in page : Below(e, d)
  <2>1. e \in S
    BY <1>5, <1>8 DEF AfterCursor
  <2> HIDE DEF S
  <2>2. \A d \in page : Below(e, d)
    BY <1>6, <1>8, <2>1
  <2>3. ~(Cardinality(page) < ExportLimit)
    BY <1>6, <1>8, <2>1
  <2> QED
    BY <1>1, <1>6, <1>7, <2>2, <2>3
<1>9. /\ q \in ReaderType /\ q.pc = "exported" /\ q.pages = <<page>> /\ q.filter = r.filter
      /\ q.size = ExportLimit /\ q.before = r.before /\ q.record = r.record
  <2>1. <<page>> \in Seq(SUBSET Ids)
    BY <1>7
  <2> QED
    BY <1>4, <1>5, <2>1 DEF ReaderType, Pcs
<1>10. Len(q.pages) = 1 /\ q.pages[1] = page
  BY <1>9
<1>11. Typed'
  BY <1>1, <1>5, <1>9 DEF Typed
<1>12. Walks(u, q)' /\ Exports(q)'
  <2>1. Walks(u, q)'
    BY <1>9 DEF Walks
  <2>2. q.filter \in FilterType'
    BY <1>5, <1>9 DEF FilterType, Times
  <2>3. page \subseteq Committed' /\ q.before \subseteq Committed'
    BY <1>1, <1>5, <1>6, <1>9 DEF Committed
  <2>4. \A e \in q.before \ page : Matches(e, q.filter)' =>
           Cardinality(page) = ExportLimit /\ \A d \in page : Below(e, d)'
    BY <1>1, <1>8, <1>9 DEF Matches, Below
  <2>5. Exports(q)'
    BY <1>5, <1>6, <1>9, <1>10, <2>2, <2>3, <2>4 DEF Exports
  <2> QED
    BY <2>1, <2>5
<1>13. Recording'
  BY <1>1, <1>5, <1>9 DEF Recording, Typed
<1> QED
  BY <1>1, <1>5, <1>11, <1>12, <1>13, OneReads

\* Nothing has been read when the log is empty.
LEMMA InitIInv == AuditAssumption /\ Init => IInv
<1>1. SUFFICES ASSUME AuditAssumption, Init PROVE IInv
  OBVIOUS
<1>2. Idle \in ReaderType /\ Idle.pc = "idle" /\ Idle.pages = <<>>
  <2>1. <<>> \in Seq(SUBSET Ids)
    OBVIOUS
  <2> QED
    BY <2>1 DEF Idle, ReaderType, Pcs
<1>3. Typed
  BY <1>1, <1>2 DEF Init, Typed, Times, AuditAssumption
<1>4. \A u \in Users : reader[u] = Idle
  BY <1>1 DEF Init
<1>5. Recording
  BY <1>2, <1>4 DEF Recording
<1>6. \A u \in Users : Walks(u, reader[u]) /\ Exports(reader[u])
  BY <1>2, <1>4 DEF Walks, Exports
<1> QED
  BY <1>3, <1>5, <1>6 DEF IInv

\* Writers, readers and the clock keep the invariant.
LEMMA NextIInv == AuditAssumption /\ IInv /\ [Next]_vars => IInv'
<1>1. SUFFICES ASSUME AuditAssumption, IInv, [Next]_vars PROVE IInv'
  OBVIOUS
<1>2. ASSUME NEW e \in Ids, Write(e) PROVE IInv'
  BY <1>1, <1>2, WriteIInv
<1>3. ASSUME NEW u \in Users, Read(u) PROVE IInv'
  <2>1. ASSUME NEW f \in Filters, NEW n \in Sizes, List(u, f, n) PROVE IInv'
    BY <1>1, <2>1, ListIInv
  <2>2. CASE ListNext(u)
    BY <1>1, <2>2, ListNextIInv
  <2>3. ASSUME NEW f \in Filters, NEW e \in Ids, ExportRecord(u, f, e) PROVE IInv'
    BY <1>1, <2>3, ExportRecordIInv
  <2>4. CASE ExportRecorded(u)
    BY <1>1, <2>4, ExportRecordedIInv
  <2>5. CASE ExportRead(u)
    BY <1>1, <2>5, ExportReadIInv
  <2> QED
    BY <1>3, <2>1, <2>2, <2>3, <2>4, <2>5 DEF Read
<1>4. ASSUME Tick \/ UNCHANGED vars PROVE IInv'
  <2>1. UNCHANGED <<events, reader>> /\ now' \in Times
    BY <1>1, <1>4 DEF Tick, vars, IInv, Typed, Times, AuditAssumption
  <2>2. Typed'
    BY <1>1, <2>1 DEF IInv, Typed
  <2> QED
    BY <1>1, <2>1, <2>2, OthersWrite
<1> QED
  BY <1>1, <1>2, <1>3, <1>4 DEF Next

\* What a walk or an export has shown, and what it has left to show, at every moment of
\* its reading, whatever is inserted, committed late or rolled back meanwhile.
THEOREM Invariance == Spec => []IInv
BY AuditAssumption, InitIInv, NextIInv, PTL DEF Spec

(***************************************************************************)
(* What follows                                                            *)
(***************************************************************************)

\* Clock, rows and readers keep their types, and no page is longer than was asked for.
THEOREM TypeCorrect == Spec => []TypeOK
<1>1. AuditAssumption /\ IInv => TypeOK
  <2>1. SUFFICES ASSUME AuditAssumption, IInv, NEW u \in Users
                 PROVE  /\ reader[u] \in ReaderType
                        /\ \A k \in 1..Len(reader[u].pages) :
                             Cardinality(reader[u].pages[k]) <= reader[u].size
    BY DEF IInv, Typed, TypeOK, ReaderType, FilterType
  <2>2. reader[u] \in ReaderType /\ Walks(u, reader[u]) /\ Exports(reader[u])
    BY <2>1 DEF IInv, Typed
  <2>3. CASE reader[u].pc \in {"list", "listed"}
    BY <2>2, <2>3 DEF Walks, Pages
  <2>4. CASE reader[u].pc = "exported"
    BY <2>2, <2>4 DEF Exports
  <2>5. CASE reader[u].pc \in {"idle", "recording", "export"}
    BY <2>2, <2>5 DEF Exports
  <2> QED
    BY <2>2, <2>3, <2>4, <2>5 DEF ReaderType, Pcs
<1> QED
  BY AuditAssumption, Invariance, <1>1, PTL

\* Walking the pages under the cursor to the end shows every matching event that had
\* committed before the first page, whatever commits in between.
THEOREM WalkMissesNothing == Spec => []WalkIsComplete
<1>1. IInv => WalkIsComplete
  BY DEF IInv, Walks, WalkIsComplete, Shown, Holds
<1> QED
  BY Invariance, <1>1, PTL

\* No event is shown twice: every page is below those before it.
THEOREM WalkNeverRepeats == Spec => []WalkDescends
<1>1. IInv => WalkDescends
  <2>1. SUFFICES ASSUME IInv, NEW u \in Users, NEW j \in 1..Len(reader[u].pages),
                        NEW k \in 1..Len(reader[u].pages), j < k,
                        NEW d \in reader[u].pages[j], NEW e \in reader[u].pages[k]
                 PROVE  Below(e, d)
    BY DEF WalkDescends
  <2>2. reader[u] \in ReaderType /\ Walks(u, reader[u]) /\ Exports(reader[u])
    BY <2>1 DEF IInv, Typed
  <2>3. CASE reader[u].pc \in {"list", "listed"}
    BY <2>1, <2>2, <2>3 DEF Walks, Pages
  <2>4. CASE reader[u].pc = "exported"
    BY <2>1, <2>2, <2>4 DEF Exports
  <2>5. CASE reader[u].pc \in {"idle", "recording", "export"}
    BY <2>1, <2>2, <2>5 DEF Exports
  <2> QED
    BY <2>2, <2>3, <2>4, <2>5 DEF ReaderType, Pcs
<1> QED
  BY Invariance, <1>1, PTL

\* The export of who reads the whole audit misses its own event, or one that had
\* committed, only when it is full and only below all it holds
\* (exportAuditEventsHandler, ListAuditEvents).
THEOREM ExportKeepsNewest == Spec => []ExportIsNewest
<1>1. AuditAssumption /\ IInv => ExportIsNewest
  <2>1. SUFFICES ASSUME AuditAssumption, IInv, NEW u \in Officers, reader[u].pc = "exported"
                 PROVE  /\ reader[u].record # None => reader[u].record \in reader[u].before
                        /\ \A e \in reader[u].before \ Shown(u) : Matches(e, reader[u].filter) =>
                             /\ Cardinality(Shown(u)) = ExportLimit
                             /\ \A d \in Shown(u) : Below(e, d)
    BY DEF ExportIsNewest
  <2>2. Exports(reader[u])
    BY <2>1 DEF IInv, AuditAssumption
  <2>3. Shown(u) = reader[u].pages[1]
    BY <2>1, <2>2 DEF Exports, Shown
  <2> QED
    BY <2>1, <2>2, <2>3 DEF Exports
<1> QED
  BY AuditAssumption, Invariance, <1>1, PTL

\* The list and the single event apply the same scope: what one shows the other opens,
\* and what can be opened a list that asks for everything finds.
THEOREM ListAgreesWithOpen == Spec => []ListedCanBeOpened
<1>1. AuditAssumption /\ IInv => ListedCanBeOpened
  <2> DEFINE everything == [users |-> Users, types |-> Types, from |-> 0, to |-> MaxTime]
  <2>1. SUFFICES ASSUME AuditAssumption, IInv, NEW u \in Officers \cup Developers
                 PROVE  /\ reader[u].pc \in {"list", "listed"} => \A e \in Shown(u) : MayOpen(u, e)
                        /\ \A e \in Committed : MayOpen(u, e) <=> Matches(e, Scope(u, everything))
    BY DEF ListedCanBeOpened
  <2>2. u \in Users /\ HasAccess(u) /\ (u \in Developers => u \notin Officers)
    BY <2>1 DEF AuditAssumption, HasAccess
  <2>3. ASSUME reader[u].pc \in {"list", "listed"}, NEW e \in Shown(u) PROVE MayOpen(u, e)
    <3>1. Walks(u, reader[u])
      BY <2>1, <2>2 DEF IInv
    <3>2. e \in Committed /\ Matches(e, reader[u].filter) /\ Scoped(u, reader[u].filter)
      BY <2>3, <3>1 DEF Walks, Pages, Shown
    <3> QED
      BY <2>2, <3>2 DEF MayOpen, Matches, Scoped
  <2>4. ASSUME NEW e \in Committed PROVE MayOpen(u, e) <=> Matches(e, Scope(u, everything))
    <3>1. events[e] \in RowType
      BY <2>1, RowTyped DEF IInv
    <3>2. events[e].user \in Users /\ events[e].type \in Types /\ events[e].at \in 0..MaxTime
      BY <3>1 DEF RowType, Times
    <3>3. CASE u \in Developers
      <4>1. PICK f : f = Scope(u, everything)
        OBVIOUS
      <4>2. f.users = {u} /\ f.types = {"policy_tested"} /\ f.from = 0 /\ f.to = MaxTime
        BY <3>3, <4>1 DEF Scope
      <4> QED
        BY <2>2, <3>2, <3>3, <4>1, <4>2 DEF MayOpen, Matches
    <3>4. CASE u \notin Developers
      BY <2>2, <3>2, <3>4 DEF MayOpen, Matches, Scope
    <3> QED
      BY <3>3, <3>4
  <2> QED
    BY <2>3, <2>4
<1> QED
  BY AuditAssumption, Invariance, <1>1, PTL
=============================================================================
