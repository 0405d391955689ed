---------------------------- MODULE QueryService ----------------------------
(***************************************************************************)
(* GET /audit/events (app/services/query_service.py, app/api/routes/       *)
(* events.py): readers that follow next_cursor from page to page while the *)
(* log grows.  A page is one SELECT, so it is one step here; the service   *)
(* keeps nothing between two pages.                                        *)
(***************************************************************************)
EXTENDS EntryStore, Sequences

CONSTANTS
  Reader,
  Limit,    \* page sizes readers ask for
  Filter    \* records [cores, from, to]: what a reader wants to see

ASSUME LimitAssumption == Limit \subseteq Nat \ {0}

VARIABLE scan   \* each reader's scan: the pages it has received so far

vars == <<table, tx, scan>>

\* The content filters; None is a bound that was not given.
matches(row, filter) ==
  /\ row.core \in filter.cores
  /\ filter.from # None => row.created_at.at >= filter.from
  /\ filter.to # None => row.created_at.at <= filter.to

\* Fault: the cursor's row is on the next page again.
candidates_Inclusive(t, after, filter) ==
  {s \in DOMAIN t : (after # None => s >= after) /\ matches(t[s], filter)}
candidates(t, after, filter) ==
  {s \in DOMAIN t : (after # None => s > after) /\ matches(t[s], filter)}

\* Faults: no row is fetched beyond the page; the cursor is that row.
list_events_NoExtra(t, after, limit, filter) ==
  [items       |-> least(candidates(t, after, filter), limit),
   next_cursor |-> None]
list_events_CursorOfExtra(t, after, limit, filter) ==
  LET fetched == least(candidates(t, after, filter), limit + 1)
  IN  IF Cardinality(fetched) > limit
      THEN [items |-> least(fetched, limit), next_cursor |-> Max(fetched)]
      ELSE [items |-> fetched, next_cursor |-> None]
\* A page, as the set of its sequence numbers, and the cursor of the next one.
list_events(t, after, limit, filter) ==
  LET fetched == least(candidates(t, after, filter), limit + 1)
      items   == least(fetched, limit)
  IN  IF Cardinality(fetched) > limit
      THEN [items |-> items, next_cursor |-> Max(items)]
      ELSE [items |-> fetched, next_cursor |-> None]

-----------------------------------------------------------------------------
Idle == [at |-> "idle"]

\* A scan that goes on from q; `seen' is how long the log was when it began.
scanning(q, at, cursor, pages) ==
  [at |-> at, limit |-> q.limit, filter |-> q.filter, seen |-> q.seen,
   cursor |-> cursor, pages |-> pages]

Init ==
  /\ StoreInit
  /\ scan = [r \in Reader |-> Idle]

\* A reader starts over, without after_sequence.
Start(r, limit, filter) ==
  /\ scan[r].at = "idle"
  /\ scan' = [scan EXCEPT ![r] =
       scanning([limit |-> limit, filter |-> filter, seen |-> Cardinality(DOMAIN table)],
                "reading", None, << >>)]
  /\ UNCHANGED storeVars

Page(r) ==
  /\ scan[r].at = "reading"
  /\ LET q    == scan[r]
         page == list_events(table, q.cursor, q.limit, q.filter)
     IN  scan' = [scan EXCEPT ![r] =
           scanning(q, IF page.next_cursor = None THEN "done" ELSE "reading",
                    page.next_cursor, Append(q.pages, page.items))]
  /\ UNCHANGED storeVars

Leave(r) ==
  /\ scan[r].at # "idle"
  /\ scan' = [scan EXCEPT ![r] = Idle]
  /\ UNCHANGED storeVars

Next ==
  \/ \E e \in Event : AppendEvent(e) /\ UNCHANGED scan
  \/ \E r \in Reader :
       \/ \E limit \in Limit, filter \in Filter : Start(r, limit, filter)
       \/ Page(r)
       \/ Leave(r)

Spec == Init /\ [][Next]_vars

-----------------------------------------------------------------------------
received(q) == UNION {q.pages[i] : i \in DOMAIN q.pages}

Received(r) == received(scan[r])

\* A scan holds rows of the table that pass its filter, and its cursor is the
\* last of them.
TypeOK ==
  \A r \in Reader :
    \/ scan[r] = Idle
    \/ /\ scan[r].at \in {"reading", "done"}
       /\ scan[r].limit \in Limit /\ scan[r].filter \in Filter
       /\ scan[r].seen \in 0 .. Cardinality(DOMAIN table)
       /\ \A s \in Received(r) : s \in DOMAIN table /\ matches(table[s], scan[r].filter)
       /\ scan[r].cursor # None => /\ scan[r].at = "reading"
                                   /\ scan[r].cursor = Max(Received(r))

\* However the log grows between two pages, no row the filter lets through is
\* left out among those a reader has received.
NothingSkipped ==
  \A r \in Reader : scan[r].at # "idle" =>
    \A s \in DOMAIN table : \A last \in Received(r) :
      s < last /\ matches(table[s], scan[r].filter) => s \in Received(r)

\* A reader that was given no further cursor has every matching row that was
\* there when it began.
ScanComplete ==
  \A r \in Reader : scan[r].at = "done" =>
    \A s \in DOMAIN table :
      s <= scan[r].seen /\ matches(table[s], scan[r].filter) => s \in Received(r)

\* No row is on two pages, and pages come in the order of the chain.
PagesAscend ==
  \A r \in Reader : scan[r].at # "idle" =>
    \A i, j \in DOMAIN scan[r].pages : i < j =>
      \A s \in scan[r].pages[i], t \in scan[r].pages[j] : s < t

-----------------------------------------------------------------------------
(* The inductive invariant.                                                *)

\* The rows received are the matching ones up to the cursor, or all there were
\* when the last page was read, and they came in order.
ScanRight(t, q) ==
  /\ q.at \in {"reading", "done"} /\ q.limit \in Limit /\ q.filter \in Filter
  /\ q.seen \in 0 .. Cardinality(DOMAIN t)
  /\ IsSeq(q.pages)
  /\ \A s \in received(q) : s \in DOMAIN t /\ matches(t[s], q.filter)
  /\ IF q.cursor = None
     THEN /\ q.at = "reading" => received(q) = {}
          /\ q.at = "done" => \A s \in 1 .. q.seen :
               matches(t[s], q.filter) => s \in received(q)
     ELSE /\ q.at = "reading"
          /\ q.cursor \in received(q)
          /\ \A s \in received(q) : s <= q.cursor
  /\ \A last \in received(q), s \in DOMAIN t :
       s < last /\ matches(t[s], q.filter) => s \in received(q)
  /\ \A i, j \in DOMAIN q.pages : i < j =>
       \A s \in q.pages[i], u \in q.pages[j] : s < u

ScanIInv ==
  /\ chained(table, Event, Time)
  /\ DOMAIN scan = Reader
  /\ \A r \in Reader : scan[r] = Idle \/ ScanRight(table, scan[r])

=============================================================================
