----------------------------- MODULE AuditEntry -----------------------------
(***************************************************************************)
(* The rows of table audit_entries (app/models/audit_entry.py), how append *)
(* builds one and how verify_chain walks them (chain_service.py).          *)
(*                                                                         *)
(* A table is a function from sequence_number, a UNIQUE column, to the row *)
(* that has it.  A datetime is a record of an instant and of whether it    *)
(* carries a time zone.                                                    *)
(***************************************************************************)
EXTENDS Naturals, FiniteSets, FiniteSetsExt, Hashing

CONSTANTS
  Dialect,  \* the database behind DATABASE_URL
  None      \* Python's None, SQL's NULL

ASSUME DialectAssumption == Dialect \in {"postgresql", "sqlite"}
ASSUME NoneAssumption == None \notin Nat

utc(instant)   == [at |-> instant, tz |-> "utc"]
naive(instant) == [at |-> instant, tz |-> "naive"]

\* What a DateTime(timezone=True) column gives back for an aware datetime:
\* PostgreSQL keeps the zone, SQLite loses it.
stored(dt) == IF Dialect = "postgresql" THEN dt ELSE naive(dt.at)

\* Fault: a naive datetime is hashed as it is.
to_utc_Identity(dt) == dt
\* chain_service._to_utc
to_utc(dt) == utc(dt.at)

\* The columns; the id is identified with sequence_number.
EntryField ==
  {"sequence_number", "core", "payload", "payload_hash", "entry_hash",
   "chain_hash", "created_at", "redacted_fields", "is_archived", "archived_at"}

-----------------------------------------------------------------------------
(* append: the row for an event, given the tail it was read against.       *)

\* Faults: numbering starts at zero; a number is skipped.
next_sequence_number_FromZero(t) ==
  IF DOMAIN t = {} THEN 0 ELSE Max(DOMAIN t) + 1
next_sequence_number_Skips(t) ==
  IF DOMAIN t = {} THEN 1 ELSE Max(DOMAIN t) + 2
next_sequence_number(t) == IF DOMAIN t = {} THEN 1 ELSE Max(DOMAIN t) + 1

\* Fault: a row is linked to its predecessor's entry_hash.
tail_hash_OfEntry(t) ==
  IF DOMAIN t = {} THEN GENESIS_HASH ELSE t[Max(DOMAIN t)].entry_hash
tail_hash(t) ==
  IF DOMAIN t = {} THEN GENESIS_HASH ELSE t[Max(DOMAIN t)].chain_hash

\* redacted_fields is the map of redacted fields; NULL is the empty map,
\* which the code never stores otherwise.
new_entry(sequence_number, previous_hash, event, now) ==
  LET payload_hash == hash_payload(event.payload)
      entry_hash   == compute_entry_hash(sequence_number, event.core,
                                         payload_hash, now)
  IN  [sequence_number |-> sequence_number,
       core            |-> event.core,
       payload         |-> event.payload,
       payload_hash    |-> payload_hash,
       entry_hash      |-> entry_hash,
       chain_hash      |-> compute_chain_hash(entry_hash, previous_hash),
       created_at      |-> now,
       redacted_fields |-> << >>,
       is_archived     |-> FALSE,
       archived_at     |-> None]

\* The UNIQUE constraints on sequence_number and chain_hash.
unique(t, entry) ==
  /\ entry.sequence_number \notin DOMAIN t
  /\ \A s \in DOMAIN t : t[s].chain_hash # entry.chain_hash

\* The row the database keeps of an entry.
as_stored(entry) == [entry EXCEPT !.created_at = stored(@)]

\* The table after the INSERT of entry commits.
inserted(t, entry) ==
  [s \in DOMAIN t \cup {entry.sequence_number} |->
     IF s = entry.sequence_number THEN as_stored(entry) ELSE t[s]]

-----------------------------------------------------------------------------
(* verify_chain: each row against itself and against the row before it in  *)
(* ascending order.  The loop stops at the first row that fails, having    *)
(* compared every row with the stored chain_hash of its predecessor, so    *)
(* it reports the least failing sequence_number.                           *)

entry_hash_matches(entry) ==
  entry.entry_hash = compute_entry_hash(entry.sequence_number, entry.core,
                                        entry.payload_hash,
                                        to_utc(entry.created_at))

previous_hash(t, s) ==
  LET earlier == {r \in DOMAIN t : r < s}
  IN  IF earlier = {} THEN GENESIS_HASH ELSE t[Max(earlier)].chain_hash

chain_hash_matches(t, s) ==
  t[s].chain_hash = compute_chain_hash(t[s].entry_hash, previous_hash(t, s))

broken(t) ==
  {s \in DOMAIN t : ~ (entry_hash_matches(t[s]) /\ chain_hash_matches(t, s))}

verify_chain(t) ==
  [valid                 |-> broken(t) = {},
   total_entries         |-> Cardinality(DOMAIN t),
   first_broken_sequence |-> IF broken(t) = {} THEN None ELSE Min(broken(t))]

-----------------------------------------------------------------------------
(* What a table is when nothing but append has written the columns that    *)
(* the hashes cover.                                                       *)

\* The columns that are never written again.
fixed(row) ==
  [sequence_number |-> row.sequence_number,
   core            |-> row.core,
   payload_hash    |-> row.payload_hash,
   entry_hash      |-> row.entry_hash,
   chain_hash      |-> row.chain_hash,
   created_at      |-> row.created_at]

\* Row s is the one append writes for event after row s - 1.
written(t, s, event, instant) ==
  LET previous == IF s = 1 THEN GENESIS_HASH ELSE t[s - 1].chain_hash
      row      == new_entry(s, previous, event, utc(instant))
  IN  fixed(t[s]) = fixed(as_stored(row))

\* The table is what appends, one after the other, leave behind.
chained(t, events, instants) ==
  /\ DOMAIN t = {} \/ \E n \in DOMAIN t : DOMAIN t = 1 .. n
  /\ \A s \in DOMAIN t :
       \E e \in events, i \in instants : written(t, s, e, i)

IsSeq(s) == s \in Seq({s[i] : i \in DOMAIN s})

\* The table as a log: what of each row tells its event and its time.
recorded(row) ==
  [core         |-> row.core,
   payload_hash |-> row.payload_hash,
   created_at   |-> row.created_at]

recorded_log(t) == [s \in DOMAIN t |-> recorded(t[s])]

recorded_items(events, instants) ==
  {recorded(as_stored(new_entry(1, GENESIS_HASH, e, utc(i)))) :
     e \in events, i \in instants}

=============================================================================
