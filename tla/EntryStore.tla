----------------------------- MODULE EntryStore -----------------------------
(***************************************************************************)
(* Table audit_entries as concurrent sessions see it (app/db/session.py    *)
(* over PostgreSQL at its default isolation, READ COMMITTED): a SELECT     *)
(* reads what is committed when it runs, an UPDATE locks its row until the *)
(* transaction ends and sets the columns the ORM found changed.            *)
(*                                                                         *)
(* Appends are atomic here: ChainService refines them to one step each.    *)
(***************************************************************************)
EXTENDS AuditEntry

CONSTANTS
  Session,     \* the sessions of the requests that update rows
  Core,        \* the descriptive columns of an event
  Payload,     \* functions from field names to values, None among them
  Time,        \* what the clock may read; it need not advance
  MaxEntries   \* bound: entries appended

ASSUME MaxEntriesAssumption == MaxEntries \in Nat

VARIABLES
  table,   \* audit_entries, as committed
  tx       \* each session's flushed UPDATE that is not committed, or None

storeVars == <<table, tx>>

Event == [core : Core, payload : Payload]

StoreInit ==
  /\ table = << >>
  /\ tx = [s \in Session |-> None]

AppendEvent(e) ==
  /\ Cardinality(DOMAIN table) < MaxEntries
  /\ \E now \in Time :
       table' = inserted(table, new_entry(next_sequence_number(table),
                                          tail_hash(table), e, utc(now)))
  /\ UNCHANGED tx

\* Fault: the order is descending.
least_Descending(rows, n) == {s \in rows : Cardinality({r \in rows : r > s}) < n}
\* ORDER BY sequence_number ASC LIMIT n
least(rows, n) == {s \in rows : Cardinality({r \in rows : r < s}) < n}

\* The row after an UPDATE that sets the columns in DOMAIN changes.
updated(row, changes) ==
  [column \in DOMAIN row |->
     IF column \in DOMAIN changes THEN changes[column] ELSE row[column]]

\* No other transaction has updated the row of that number.
unlocked(s, number) ==
  \A other \in Session \ {s} : tx[other] # None => tx[other].number # number

\* session.flush(): the UPDATE, after the wait for the row's lock.
Flush(s, number, changes) ==
  /\ unlocked(s, number)
  /\ tx' = [tx EXCEPT ![s] = [number |-> number, changes |-> changes]]
  /\ UNCHANGED table

\* session.commit(), of a transaction that may have updated nothing.
Commit(s) ==
  /\ table' = IF tx[s] = None THEN table
              ELSE [table EXCEPT ![tx[s].number] = updated(@, tx[s].changes)]
  /\ tx' = [tx EXCEPT ![s] = None]

\* Fault: an error leaves the transaction open.
Rollback_Forgotten(s) == UNCHANGED <<table, tx>>
\* get_db's rollback and close, or the server ending a lost connection.
Rollback(s) ==
  /\ tx' = [tx EXCEPT ![s] = None]
  /\ UNCHANGED table

=============================================================================
