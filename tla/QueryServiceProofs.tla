------------------------- MODULE QueryServiceProofs -------------------------
(***************************************************************************)
(* Proofs about QueryService, for any number of readers and entries, any   *)
(* page sizes and any filters.                                             *)
(***************************************************************************)
EXTENDS QueryService, AuditEntryProofs

-----------------------------------------------------------------------------
(* A page.                                                                 *)

\* It holds the first candidates, and the cursor is the last of them, or there
\* are no others.
right_page(page, rows) ==
  /\ page.items \subseteq rows
  /\ \A u \in page.items, s \in rows : s <= u => s \in page.items
  /\ IF page.next_cursor = None
     THEN page.items = rows
     ELSE /\ page.next_cursor \in page.items
          /\ \A s \in page.items : s <= page.next_cursor

\* The row that is fetched beyond the page tells whether it is the last one.
LEMMA ListEvents ==
  ASSUME NEW t, NEW n \in Nat, DOMAIN t = 1 .. n, NEW after,
         NEW limit \in Nat \ {0}, NEW filter
  PROVE  right_page(list_events(t, after, limit, filter), candidates(t, after, filter))
<1> DEFINE rows    == candidates(t, after, filter)
           fetched == least(rows, limit + 1)
           items   == least(fetched, limit)
           page    == list_events(t, after, limit, filter)
<1>1. rows \subseteq 1 .. n
  BY DEF candidates
<1>2. page = IF Cardinality(fetched) > limit
             THEN [items |-> items, next_cursor |-> Max(items)]
             ELSE [items |-> fetched, next_cursor |-> None]
  BY DEF list_events
<1>3. fetched = first(rows, limit + 1) /\ items = first(fetched, limit)
  BY DEF least, first
<1>4. limit + 1 \in Nat \ {0}
  OBVIOUS
<1> HIDE DEF rows, fetched, items, page
<1>5. /\ fetched \subseteq rows
      /\ \A u \in fetched, s \in rows : s <= u => s \in fetched
      /\ Cardinality(fetched) \in Nat
      /\ Cardinality(fetched) < limit + 1 => fetched = rows
  BY <1>1, <1>3, <1>4, FirstNumbers
<1>6. fetched \subseteq 1 .. n
  BY <1>1, <1>5
<1>7. /\ items \subseteq fetched
      /\ \A u \in items, s \in fetched : s <= u => s \in items
      /\ items = {} => fetched = {}
  BY <1>3, <1>6, FirstNumbers
<1>8. CASE Cardinality(fetched) > limit
  <2>1. fetched # {}
    <3>1. Cardinality({}) = 0
      BY FS_EmptySet
    <3> QED
      BY <1>8, <3>1
  <2>2. items # {} /\ items \subseteq Nat /\ \A s \in items : s <= n
    <3>1. items \subseteq 1 .. n
      BY <1>6, <1>7
    <3>2. \A s \in 1 .. n : s \in Nat /\ s <= n
      OBVIOUS
    <3>3. items # {}
      BY <1>7, <2>1
    <3> QED
      BY <3>1, <3>2, <3>3
  <2>3. Max(items) \in items /\ \A s \in items : s <= Max(items)
    BY <2>2, GreatestNumber
  <2>4. Max(items) # None
    BY <2>2, <2>3, NoneAssumption
  <2>5. page.items = items /\ page.next_cursor = Max(items)
    BY <1>2, <1>8
  <2> QED
    BY <1>5, <1>7, <2>3, <2>4, <2>5 DEF right_page, rows, page
<1>9. CASE ~ (Cardinality(fetched) > limit)
  <2>1. fetched = rows
    BY <1>5, <1>9
  <2>2. page.items = fetched /\ page.next_cursor = None
    BY <1>2, <1>9
  <2> QED
    BY <2>1, <2>2 DEF right_page, rows, page
<1> QED
  BY <1>8, <1>9

-----------------------------------------------------------------------------
(* The steps of a scan.                                                    *)

\* A scan that begins.
LEMMA StartRight ==
  ASSUME NEW t, NEW n \in Nat, DOMAIN t = 1 .. n,
         NEW limit \in Limit, NEW filter \in Filter
  PROVE  ScanRight(t, scanning([limit |-> limit, filter |-> filter,
                                seen |-> Cardinality(DOMAIN t)],
                               "reading", None, << >>))
<1> DEFINE r == scanning([limit |-> limit, filter |-> filter,
                          seen |-> Cardinality(DOMAIN t)], "reading", None, << >>)
<1>1. /\ r.at = "reading" /\ r.limit = limit /\ r.filter = filter
      /\ r.seen = Cardinality(DOMAIN t) /\ r.cursor = None /\ r.pages = << >>
  BY DEF scanning
<1> HIDE DEF r
<1>2. Cardinality(DOMAIN t) \in Nat
  BY FS_Interval, FS_CardinalityType
<1>3. IsSeq(r.pages)
  <2>1. \A S : << >> \in Seq(S)
    OBVIOUS
  <2> QED
    BY <1>1, <2>1 DEF IsSeq
<1>4. received(r) = {}
  BY <1>1 DEF received
<1>5. ScanRight(t, r)
  BY <1>1, <1>2, <1>3, <1>4 DEF ScanRight
<1> QED
  BY <1>5 DEF r

\* Another page.
LEMMA NextPageRight ==
  ASSUME NEW t, NEW n \in Nat, DOMAIN t = 1 .. n, NEW q, ScanRight(t, q),
         q.at = "reading", NEW page,
         right_page(page, candidates(t, q.cursor, q.filter))
  PROVE  ScanRight(t, scanning(q, IF page.next_cursor = None THEN "done" ELSE "reading",
                               page.next_cursor, Append(q.pages, page.items)))
<1> DEFINE at   == IF page.next_cursor = None THEN "done" ELSE "reading"
           new  == Append(q.pages, page.items)
           r    == scanning(q, at, page.next_cursor, new)
           rows == candidates(t, q.cursor, q.filter)
           k    == Len(q.pages)
<1>1. /\ r.at = at /\ r.limit = q.limit /\ r.filter = q.filter
      /\ r.seen = q.seen /\ r.cursor = page.next_cursor /\ r.pages = new
  BY DEF scanning
<1>2. /\ IsSeq(new)
      /\ k \in Nat
      /\ DOMAIN q.pages = 1 .. k
      /\ DOMAIN new = 1 .. (k + 1)
      /\ \A i \in DOMAIN q.pages : new[i] = q.pages[i]
      /\ new[k + 1] = page.items
  BY AppendPages DEF ScanRight
<1>3. /\ at \in {"reading", "done"}
      /\ at = "done" <=> page.next_cursor = None
  OBVIOUS
<1> HIDE DEF r, new, k, at
<1>4. received(r) = received(q) \cup page.items
  <2>1. DOMAIN new = DOMAIN q.pages \cup {k + 1}
    BY <1>2
  <2> QED
    BY <1>1, <1>2, <2>1 DEF received
<1>5. /\ \A s \in received(q) : s \in DOMAIN t /\ matches(t[s], q.filter)
      /\ q.cursor = None => received(q) = {}
      /\ q.cursor # None => /\ q.cursor \in received(q)
                            /\ \A s \in received(q) : s <= q.cursor
  BY DEF ScanRight
<1>6. q.cursor # None => q.cursor \in 1 .. n
  BY <1>5
<1>7. rows = {s \in DOMAIN t : (q.cursor # None => s > q.cursor) /\ matches(t[s], q.filter)}
  BY DEF candidates
<1>8. /\ page.items \subseteq rows
      /\ \A u \in page.items, s \in rows : s <= u => s \in page.items
      /\ page.next_cursor = None => page.items = rows
      /\ page.next_cursor # None => /\ page.next_cursor \in page.items
                                    /\ \A s \in page.items : s <= page.next_cursor
  BY DEF right_page
<1> HIDE DEF rows
<1>9. \A s \in page.items : s \in DOMAIN t /\ matches(t[s], q.filter)
  BY <1>7, <1>8
<1>10. ASSUME NEW s \in received(q), NEW u \in page.items
       PROVE  s < u
  <2>1. q.cursor # None /\ s <= q.cursor
    BY <1>5, <1>10
  <2>2. u > q.cursor
    BY <1>7, <1>8, <1>10, <2>1
  <2>3. s \in 1 .. n /\ u \in 1 .. n
    BY <1>5, <1>9, <1>10
  <2> QED
    BY <1>6, <2>1, <2>2, <2>3
<1>11. ASSUME NEW s \in DOMAIN t, matches(t[s], q.filter), s \notin rows
       PROVE  s \in received(q)
  <2>1. q.cursor # None /\ ~ (s > q.cursor)
    BY <1>7, <1>11
  <2>2. s < q.cursor \/ s = q.cursor
    BY <1>6, <2>1
  <2> QED
    BY <1>5, <1>11, <2>1, <2>2 DEF ScanRight
<1>12. \A s \in received(r) : s \in DOMAIN t /\ matches(t[s], q.filter)
  BY <1>4, <1>5, <1>9
<1>13. ASSUME page.next_cursor = None, NEW s \in DOMAIN t, matches(t[s], q.filter)
       PROVE  s \in received(r)
  BY <1>4, <1>8, <1>11, <1>13
<1>14. q.seen \in 0 .. n
  <2>1. Cardinality(DOMAIN t) = n
    BY FS_Interval
  <2> QED
    BY <2>1 DEF ScanRight
<1>15. page.next_cursor # None =>
         /\ page.next_cursor \in received(r)
         /\ \A s \in received(r) : s <= page.next_cursor
  <2>1. \A s \in received(r) : s \in 1 .. n
    BY <1>12
  <2> QED
    BY <1>4, <1>8, <1>10, <2>1
<1>16. ASSUME NEW last \in received(r), NEW s \in DOMAIN t, s < last,
              matches(t[s], q.filter)
       PROVE  s \in received(r)
  <2>1. CASE last \in received(q)
    BY <1>4, <1>16, <2>1 DEF ScanRight
  <2>2. CASE last \in page.items /\ s \in rows
    <3>1. s <= last
      BY <1>9, <1>16, <2>2
    <3> QED
      BY <1>4, <1>8, <2>2, <3>1
  <2>3. CASE s \notin rows
    BY <1>4, <1>11, <1>16, <2>3
  <2> QED
    BY <1>4, <1>16, <2>1, <2>2, <2>3
<1>17. ASSUME NEW i \in DOMAIN new, NEW j \in DOMAIN new, i < j,
              NEW s \in new[i], NEW u \in new[j]
       PROVE  s < u
  <2>1. i \in DOMAIN q.pages /\ new[i] = q.pages[i]
    BY <1>2, <1>17
  <2>2. s \in received(q)
    BY <1>17, <2>1 DEF received
  <2>3. CASE j = k + 1
    BY <1>2, <1>10, <1>17, <2>2, <2>3
  <2>4. CASE j # k + 1
    <3>1. j \in DOMAIN q.pages /\ new[j] = q.pages[j]
      BY <1>2, <2>4
    <3> QED
      BY <1>17, <2>1, <3>1 DEF ScanRight
  <2> QED
    BY <2>3, <2>4
<1>18. ScanRight(t, r)
  <2>1. /\ r.at \in {"reading", "done"} /\ r.limit \in Limit /\ r.filter \in Filter
        /\ r.seen \in 0 .. Cardinality(DOMAIN t) /\ IsSeq(r.pages)
    BY <1>1, <1>2, <1>3 DEF ScanRight
  <2>2. \A s \in received(r) : s \in DOMAIN t /\ matches(t[s], r.filter)
    BY <1>1, <1>12
  <2>3. IF r.cursor = None
        THEN /\ r.at = "reading" => received(r) = {}
             /\ r.at = "done" => \A s \in 1 .. r.seen :
                  matches(t[s], r.filter) => s \in received(r)
        ELSE /\ r.at = "reading"
             /\ r.cursor \in received(r)
             /\ \A s \in received(r) : s <= r.cursor
    <3>1. CASE r.cursor = None
      <4>1. r.at = "done"
        BY <1>1, <1>3, <3>1
      <4>2. \A s \in 1 .. r.seen : s \in DOMAIN t
        BY <1>1, <1>14
      <4> QED
        BY <1>1, <1>13, <3>1, <4>1, <4>2
    <3>2. CASE r.cursor # None
      BY <1>1, <1>3, <1>15, <3>2
    <3> QED
      BY <3>1, <3>2
  <2>4. \A last \in received(r), s \in DOMAIN t :
          s < last /\ matches(t[s], r.filter) => s \in received(r)
    BY <1>1, <1>16
  <2>5. \A i, j \in DOMAIN r.pages : i < j =>
          \A s \in r.pages[i], u \in r.pages[j] : s < u
    BY <1>1, <1>17
  <2> QED
    BY <2>1, <2>2, <2>3, <2>4, <2>5 DEF ScanRight
<1> QED
  BY <1>18 DEF r, new, at

\* A row that is appended meanwhile comes after all that a scan has received.
LEMMA ScanKept ==
  ASSUME NEW t, NEW u, NEW x, extends_by(u, t, x), NEW q, ScanRight(t, q)
  PROVE  ScanRight(u, q)
<1>1. PICK n \in Nat : DOMAIN t = 1 .. n /\ DOMAIN u = 1 .. (n + 1)
  BY DEF extends_by
<1>2. \A s \in DOMAIN t : s \in DOMAIN u /\ u[s] = t[s]
  BY DEF extends_by
<1>3. Cardinality(DOMAIN t) = n /\ Cardinality(DOMAIN u) = n + 1
  BY <1>1, FS_Interval
<1>4. q.seen \in 0 .. n
  BY <1>3 DEF ScanRight
<1>5. \A s \in received(q) : s \in DOMAIN u /\ matches(u[s], q.filter)
  BY <1>2 DEF ScanRight
<1>6. \A s \in 1 .. q.seen : s \in DOMAIN t
  BY <1>1, <1>4
<1>7. q.at = "done" /\ q.cursor = None =>
        \A s \in 1 .. q.seen : matches(u[s], q.filter) => s \in received(q)
  BY <1>2, <1>6 DEF ScanRight
<1>8. ASSUME NEW last \in received(q), NEW s \in DOMAIN u, s < last,
             matches(u[s], q.filter)
      PROVE  s \in received(q)
  <2>1. last \in DOMAIN t
    BY <1>8 DEF ScanRight
  <2>2. s \in DOMAIN t
    BY <1>1, <1>8, <2>1
  <2> QED
    BY <1>2, <1>8, <2>1, <2>2 DEF ScanRight
<1>9. q.seen \in 0 .. Cardinality(DOMAIN u)
  BY <1>3, <1>4
<1> QED
  BY <1>5, <1>7, <1>8, <1>9 DEF ScanRight

-----------------------------------------------------------------------------
(* The inductive invariant and what follows from it.                       *)

\* A step of a reader that leaves its own scan right.
LEMMA ReaderStep ==
  ASSUME ScanIInv, UNCHANGED table, NEW r \in Reader, NEW q,
         scan' = [scan EXCEPT ![r] = q], q = Idle \/ ScanRight(table, q)
  PROVE  ScanIInv'
<1>1. DOMAIN scan' = Reader
  BY DEF ScanIInv
<1>2. ASSUME NEW o \in Reader
      PROVE  scan'[o] = Idle \/ ScanRight(table, scan'[o])
  <2>1. CASE o = r
    BY <2>1 DEF ScanIInv
  <2>2. CASE o # r
    BY <2>2 DEF ScanIInv
  <2> QED
    BY <2>1, <2>2
<1> QED
  BY <1>1, <1>2 DEF ScanIInv

\* No scan runs at first, over no rows.
LEMMA ScanInit == Init => ScanIInv
<1> SUFFICES ASSUME Init
             PROVE  ScanIInv
  OBVIOUS
<1>1. DOMAIN table = {}
  BY DEF Init, StoreInit
<1>2. chained(table, Event, Time)
  BY <1>1 DEF chained
<1> QED
  BY <1>2 DEF Init, ScanIInv

\* Every step preserves the invariant.
LEMMA ScanNext == ScanIInv /\ [Next]_vars => ScanIInv'
<1> SUFFICES ASSUME ScanIInv, [Next]_vars
             PROVE  ScanIInv'
  OBVIOUS
<1>1. PICK n \in Nat : DOMAIN table = 1 .. n
  BY ChainedLength DEF ScanIInv
<1>2. ASSUME NEW e \in Event, AppendEvent(e), UNCHANGED scan
      PROVE  ScanIInv'
  <2>1. PICK i \in Time :
          table' = inserted(table, new_entry(next_sequence_number(table),
                                             tail_hash(table), e, utc(i)))
    BY <1>2 DEF AppendEvent
  <2> DEFINE x == new_entry(next_sequence_number(table), tail_hash(table), e, utc(i))
  <2>2. chained(table', Event, Time) /\ extends_by(table', table, x)
    BY <2>1, InsertedIsChained DEF ScanIInv
  <2> HIDE DEF x
  <2>3. \A q : ScanRight(table, q) => ScanRight(table', q)
    BY <2>2, ScanKept
  <2> QED
    BY <1>2, <2>2, <2>3 DEF ScanIInv
<1>3. ASSUME NEW r \in Reader, NEW limit \in Limit, NEW filter \in Filter,
             Start(r, limit, filter)
      PROVE  ScanIInv'
  <2> DEFINE q == scanning([limit |-> limit, filter |-> filter,
                            seen |-> Cardinality(DOMAIN table)],
                           "reading", None, << >>)
  <2>1. scan' = [scan EXCEPT ![r] = q] /\ UNCHANGED table
    BY <1>3 DEF Start, storeVars
  <2>2. ScanRight(table, q)
    BY <1>1, StartRight
  <2> HIDE DEF q
  <2> QED
    BY <2>1, <2>2, ReaderStep
<1>4. ASSUME NEW r \in Reader, Page(r)
      PROVE  ScanIInv'
  <2> DEFINE q    == scan[r]
             page == list_events(table, q.cursor, q.limit, q.filter)
             s    == scanning(q, IF page.next_cursor = None THEN "done" ELSE "reading",
                              page.next_cursor, Append(q.pages, page.items))
  <2>1. scan' = [scan EXCEPT ![r] = s] /\ UNCHANGED table /\ q.at = "reading"
    BY <1>4 DEF Page, storeVars
  <2>2. ScanRight(table, q)
    BY <2>1 DEF ScanIInv, Idle
  <2>3. q.limit \in Nat \ {0}
    BY <2>2, LimitAssumption DEF ScanRight
  <2>4. right_page(page, candidates(table, q.cursor, q.filter))
    BY <1>1, <2>3, ListEvents
  <2> HIDE DEF page
  <2>5. ScanRight(table, s)
    BY <1>1, <2>1, <2>2, <2>4, NextPageRight
  <2> HIDE DEF s
  <2> QED
    BY <2>1, <2>5, ReaderStep
<1>5. ASSUME NEW r \in Reader, Leave(r)
      PROVE  ScanIInv'
  <2>1. scan' = [scan EXCEPT ![r] = Idle] /\ UNCHANGED table
    BY <1>5 DEF Leave, storeVars
  <2> QED
    BY <2>1, ReaderStep
<1>6. CASE UNCHANGED vars
  BY <1>6 DEF vars, ScanIInv
<1> QED
  BY <1>2, <1>3, <1>4, <1>5, <1>6 DEF Next

\* What a reader has received is right in every state.
THEOREM ScanInvariance == Spec => []ScanIInv
BY ScanInit, ScanNext, PTL DEF Spec

\* A scan holds rows of the table that pass its filter, and its cursor is the
\* last of them, for any page size and filter.
THEOREM ScanTyped == Spec => []TypeOK
<1>1. ASSUME ScanIInv, NEW r \in Reader, scan[r] # Idle
      PROVE  /\ scan[r].at \in {"reading", "done"}
             /\ scan[r].limit \in Limit /\ scan[r].filter \in Filter
             /\ scan[r].seen \in 0 .. Cardinality(DOMAIN table)
             /\ \A s \in Received(r) : s \in DOMAIN table /\ matches(table[s], scan[r].filter)
             /\ scan[r].cursor # None => /\ scan[r].at = "reading"
                                         /\ scan[r].cursor = Max(Received(r))
  <2>1. ScanRight(table, scan[r])
    BY <1>1 DEF ScanIInv
  <2>2. PICK n \in Nat : DOMAIN table = 1 .. n
    BY <1>1, ChainedLength DEF ScanIInv
  <2>3. ASSUME scan[r].cursor # None
        PROVE  scan[r].cursor = Max(Received(r))
    <3> DEFINE S == Received(r)
               c == scan[r].cursor
    <3>1. c \in S /\ \A s \in S : s <= c
      BY <2>1, <2>3 DEF ScanRight, Received
    <3>2. S \subseteq 1 .. n
      BY <2>1, <2>2 DEF ScanRight, Received
    <3> HIDE DEF S, c
    <3>3. S \subseteq Nat /\ S # {} /\ \A s \in S : s <= n
      BY <3>1, <3>2
    <3>4. Max(S) \in S /\ \A s \in S : s <= Max(S)
      BY <3>3, GreatestNumber
    <3>5. c <= Max(S) /\ Max(S) <= c /\ c \in Nat /\ Max(S) \in Nat
      BY <3>1, <3>3, <3>4
    <3> QED
      BY <3>5 DEF S, c
  <2> QED
    BY <2>1, <2>3 DEF ScanRight, Received
<1>2. ScanIInv => TypeOK
  BY <1>1 DEF TypeOK
<1> QED
  BY ScanInvariance, <1>2, PTL

\* No row that the filter lets through is left out among those received,
\* however the log grows between two pages.
THEOREM ScansSkipNothing == Spec => []NothingSkipped
<1>1. ScanIInv => NothingSkipped
  BY DEF ScanIInv, ScanRight, NothingSkipped, Received, Idle
<1> QED
  BY ScanInvariance, <1>1, PTL

\* A reader that was given no further cursor has every matching row that was
\* there when it began.
THEOREM ScansComplete == Spec => []ScanComplete
<1>1. ASSUME ScanIInv, NEW r \in Reader, scan[r].at = "done",
             NEW s \in DOMAIN table, s <= scan[r].seen,
             matches(table[s], scan[r].filter)
      PROVE  s \in Received(r)
  <2>1. ScanRight(table, scan[r])
    BY <1>1 DEF ScanIInv, Idle
  <2>2. PICK n \in Nat : DOMAIN table = 1 .. n
    BY <1>1, ChainedLength DEF ScanIInv
  <2>3. scan[r].seen \in Nat
    <3>1. Cardinality(DOMAIN table) = n
      BY <2>2, FS_Interval
    <3> QED
      BY <2>1, <3>1 DEF ScanRight
  <2>4. s \in 1 .. scan[r].seen
    BY <1>1, <2>2, <2>3
  <2>5. scan[r].cursor = None
    BY <1>1, <2>1 DEF ScanRight
  <2> QED
    BY <1>1, <2>1, <2>4, <2>5 DEF ScanRight, Received
<1>2. ScanIInv => ScanComplete
  BY <1>1 DEF ScanComplete
<1> QED
  BY ScanInvariance, <1>2, PTL

\* No row is on two pages, and pages come in the order of the chain.
THEOREM ScansAscend == Spec => []PagesAscend
<1>1. ScanIInv => PagesAscend
  BY DEF ScanIInv, ScanRight, PagesAscend, Idle
<1> QED
  BY ScanInvariance, <1>1, PTL

=============================================================================
