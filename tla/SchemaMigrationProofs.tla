----------------------- MODULE SchemaMigrationProofs -----------------------
(***************************************************************************)
(* Proofs about SchemaMigration, for any number of entries, redactors and  *)
(* archivers, also for ones that overlap.                                  *)
(***************************************************************************)
EXTENDS SchemaMigration, EntryLifecycleProofs

-----------------------------------------------------------------------------
(* The schema.                                                             *)

\* The columns of each revision, written out.
LEMMA ColumnsAt ==
  /\ columns_at(0) = {}
  /\ columns_at(1) = introduced(1)
  /\ columns_at(2) = introduced(1) \cup introduced(2)
  /\ columns_at(3) = introduced(1) \cup introduced(2) \cup introduced(3)
<1>1. 1 .. 0 = {} /\ 1 .. 1 = {1} /\ 1 .. 2 = {1, 2} /\ 1 .. 3 = {1, 2, 3}
  OBVIOUS
<1> QED
  BY <1>1 DEF columns_at

\* No column is brought by two revisions, and together they bring them all.
LEMMA Introduced ==
  /\ introduced(1) \cup introduced(2) \cup introduced(3) = EntryField
  /\ introduced(1) # {}
  /\ introduced(1) \cap introduced(2) = {}
  /\ introduced(1) \cap introduced(3) = {}
  /\ introduced(2) \cap introduced(3) = {}
<1>1. /\ introduced(1) = EntryField \ {"redacted_fields", "is_archived", "archived_at"}
      /\ introduced(2) = {"redacted_fields"}
      /\ introduced(3) = {"is_archived", "archived_at"}
  BY DEF introduced
<1> QED
  BY <1>1 DEF EntryField

\* The schema is that of a revision, or create_all's.
Schema(c, v) ==
  /\ v \in 0 .. 3
  /\ c = columns_at(v) \/ (v = 0 /\ c = EntryField)

\* An upgrade and a downgrade lead from the columns of one revision to those of
\* another, and create_all makes all columns where there is none.
LEMMA SchemaKept ==
  ASSUME NEW c, NEW v, Schema(c, v)
  PROVE  /\ Schema(IF c = {} THEN EntryField ELSE c, v)
         /\ v < 3 /\ (\A r \in v + 1 .. 3 : applicable(r)) /\ c = columns =>
              Schema(c \cup UNION {introduced(r) : r \in v + 1 .. 3}, 3)
         /\ v > 0 => Schema(c \ introduced(v), v - 1)
<1>1. v \in {0, 1, 2, 3}
  BY DEF Schema
<1>2. 0 + 1 .. 3 = {1, 2, 3} /\ 1 + 1 .. 3 = {2, 3} /\ 2 + 1 .. 3 = {3}
  OBVIOUS
<1>3. c = columns_at(v) \/ (v = 0 /\ c = EntryField)
  BY DEF Schema
<1>4. EntryField # {}
  BY Introduced
<1>5. Schema(IF c = {} THEN EntryField ELSE c, v)
  <2>1. CASE c = {}
    <3>1. v = 0
      BY <1>1, <1>3, <1>4, <2>1, ColumnsAt, Introduced
    <3> QED
      BY <2>1, <3>1 DEF Schema
  <2> QED
    BY <2>1
<1>6. ASSUME v < 3, \A r \in v + 1 .. 3 : applicable(r), c = columns
      PROVE  Schema(c \cup UNION {introduced(r) : r \in v + 1 .. 3}, 3)
  <2>1. c = columns_at(v)
    <3>1. CASE v = 0
      <4>1. applicable(1)
        BY <1>2, <1>6, <3>1
      <4>2. c = {}
        BY <1>6, <4>1 DEF applicable
      <4> QED
        BY <3>1, <4>2, ColumnsAt
    <3> QED
      BY <1>3, <3>1
  <2>2. c \cup UNION {introduced(r) : r \in v + 1 .. 3} = columns_at(3)
    <3>1. CASE v = 0
      BY <1>2, <2>1, <3>1, ColumnsAt
    <3>2. CASE v = 1
      BY <1>2, <2>1, <3>2, ColumnsAt
    <3>3. CASE v = 2
      BY <1>2, <2>1, <3>3, ColumnsAt
    <3> QED
      BY <1>1, <1>6, <3>1, <3>2, <3>3
  <2> QED
    BY <2>2 DEF Schema
<1>7. ASSUME v > 0
      PROVE  Schema(c \ introduced(v), v - 1)
  <2>1. c = columns_at(v)
    BY <1>3, <1>7
  <2>2. c \ introduced(v) = columns_at(v - 1) /\ v - 1 \in 0 .. 3
    <3>1. CASE v = 1
      BY <2>1, <3>1, ColumnsAt
    <3>2. CASE v = 2
      BY <2>1, <3>2, ColumnsAt, Introduced
    <3>3. CASE v = 3
      BY <2>1, <3>3, ColumnsAt, Introduced
    <3> QED
      BY <1>1, <1>7, <3>1, <3>2, <3>3
  <2> QED
    BY <2>2 DEF Schema
<1> QED
  BY <1>5, <1>6, <1>7

-----------------------------------------------------------------------------
(* What redactions account for.                                            *)

\* A field whose proof was dropped is null, so it is not redactable; otherwise
\* a redaction adds a null and its proof.
LEMMA RedactionAccountsBut ==
  ASSUME NEW row, NEW from, NEW fields, fields \subseteq Field, NEW dropped,
         accounts_but(row.payload, row.redacted_fields, from, dropped)
  PROVE  LET fs == Redactable(row, fields)
         IN  accounts_but(redacted_payload(row, fs), redacted_map(row, fs), from, dropped)
<1> DEFINE fs == Redactable(row, fields)
           p  == redacted_payload(row, fs)
           m  == redacted_map(row, fs)
<1>1. /\ DOMAIN row.payload = DOMAIN from
      /\ DOMAIN row.redacted_fields \subseteq DOMAIN from \cap Field
      /\ \A f \in DOMAIN from :
           IF f \in DOMAIN row.redacted_fields \cup dropped
           THEN /\ row.payload[f] = None
                /\ from[f] # None
                /\ f \in DOMAIN row.redacted_fields =>
                     row.redacted_fields[f] = hash_field_value(f, from[f])
           ELSE row.payload[f] = from[f]
  BY DEF accounts_but
<1>2. /\ fs \subseteq DOMAIN from \cap Field
      /\ \A f \in fs : row.payload[f] # None
  BY <1>1 DEF Redactable
<1>3. /\ DOMAIN p = DOMAIN from
      /\ \A f \in DOMAIN from : p[f] = IF f \in fs THEN None ELSE row.payload[f]
  BY <1>1 DEF redacted_payload
<1>4. /\ DOMAIN m = DOMAIN row.redacted_fields \cup fs
      /\ \A f \in DOMAIN m :
           m[f] = IF f \in fs THEN hash_field_value(f, row.payload[f])
                  ELSE row.redacted_fields[f]
  BY DEF redacted_map
<1> HIDE DEF fs, p, m
<1>5. ASSUME NEW f \in DOMAIN from
      PROVE  IF f \in DOMAIN m \cup dropped
             THEN /\ p[f] = None
                  /\ from[f] # None
                  /\ f \in DOMAIN m => m[f] = hash_field_value(f, from[f])
             ELSE p[f] = from[f]
  <2>1. CASE f \in fs
    BY <1>1, <1>2, <1>3, <1>4, <2>1
  <2>2. CASE f \notin fs
    BY <1>1, <1>3, <1>4, <2>2
  <2> QED
    BY <2>1, <2>2
<1>6. accounts_but(p, m, from, dropped)
  BY <1>1, <1>2, <1>3, <1>4, <1>5 DEF accounts_but
<1> QED
  BY <1>6 DEF fs, p, m

\* A row as append writes it.
LEMMA NewRowAccounted ==
  ASSUME NEW n, NEW h, NEW e \in Event, NEW now
  PROVE  row_accounted(as_stored(new_entry(n, h, e, now)), {})
<1> DEFINE row == as_stored(new_entry(n, h, e, now))
<1>1. /\ DOMAIN row = EntryField
      /\ row.payload = e.payload
      /\ row.redacted_fields = << >>
      /\ row.payload_hash = hash_payload(e.payload)
  BY DEF new_entry, as_stored, EntryField
<1>2. original(row.payload_hash) = e.payload
  BY <1>1, OriginalOfHash DEF Event
<1>3. accounts_but(e.payload, << >>, e.payload, {})
  BY DEF accounts_but
<1> HIDE DEF row
<1>4. row_accounted(row, {})
  BY <1>1, <1>2, <1>3 DEF row_accounted
<1> QED
  BY <1>4 DEF row

\* The UPDATEs of a redaction and of an archival.
LEMMA UpdatedAccounted ==
  ASSUME NEW t, NEW n, NEW changes, NEW dropped,
         pending_redaction(t, n, changes, dropped) \/ pending_archival(t, n, changes),
         row_accounted(t[n], dropped)
  PROVE  /\ row_accounted(updated(t[n], changes), dropped)
         /\ fixed(updated(t[n], changes)) = fixed(t[n])
<1> DEFINE row == updated(t[n], changes)
<1>1. DOMAIN t[n] = EntryField
  BY DEF row_accounted
<1>2. fixed(row) = fixed(t[n])
  BY <1>1, UpdatedKeepsFixed DEF pending_redaction, pending_archival
<1>3. CASE pending_redaction(t, n, changes, dropped)
  <2>1. DOMAIN changes = {"payload", "redacted_fields"}
    BY <1>3 DEF pending_redaction
  <2>2. /\ DOMAIN row = EntryField
        /\ row.payload_hash = t[n].payload_hash
        /\ row.payload = changes.payload
        /\ row.redacted_fields = changes.redacted_fields
    BY <1>1, <2>1 DEF updated, EntryField
  <2> HIDE DEF row
  <2>3. row_accounted(row, dropped)
    BY <1>3, <2>2 DEF row_accounted, pending_redaction
  <2> QED
    BY <1>2, <2>3 DEF row
<1>4. CASE pending_archival(t, n, changes)
  <2>1. DOMAIN changes = {"is_archived", "archived_at"}
    BY <1>4 DEF pending_archival
  <2>2. /\ DOMAIN row = EntryField
        /\ row.payload_hash = t[n].payload_hash
        /\ row.payload = t[n].payload
        /\ row.redacted_fields = t[n].redacted_fields
    BY <1>1, <2>1 DEF updated, EntryField
  <2> HIDE DEF row
  <2>3. row_accounted(row, dropped)
    BY <2>2 DEF row_accounted
  <2> QED
    BY <1>2, <2>3 DEF row
<1> QED
  BY <1>3, <1>4

-----------------------------------------------------------------------------
(* The inductive invariant: the service.                                   *)

\* What it says of the rows, and what no step of the service undoes.
RowsAccounted ==
  /\ chained(table, Event, Time)
  /\ \A s \in DOMAIN table : row_accounted(table[s], lost(s))

later(t, u) ==
  /\ DOMAIN t \subseteq DOMAIN u
  /\ \A s \in DOMAIN t : fixed(u[s]) = fixed(t[s])

\* What is pending stays right.
LEMMA PendingLater ==
  ASSUME NEW t, NEW u, later(t, u), NEW n, NEW changes, NEW dropped
  PROVE  /\ pending_redaction(t, n, changes, dropped) =>
              pending_redaction(u, n, changes, dropped)
         /\ pending_archival(t, n, changes) => pending_archival(u, n, changes)
<1>1. n \in DOMAIN t => n \in DOMAIN u /\ u[n].payload_hash = t[n].payload_hash
  BY DEF later, fixed
<1> QED
  BY <1>1 DEF pending_redaction, pending_archival

\* The invariant from its parts, where the schema and the dropped proofs are as
\* they were.
LEMMA ServiceParts ==
  ASSUME MigrationIInv, UNCHANGED <<columns, version, forgotten>>,
         later(table, table'), RowsAccounted', RequestsAccounted'
  PROVE  MigrationIInv'
<1>1. SchemaTypeOK'
  BY DEF MigrationIInv, SchemaTypeOK, columns_at, introduced, head, later
<1> QED
  BY <1>1 DEF MigrationIInv, RowsAccounted

\* An append brings a row of which no proof was dropped.
LEMMA AppendAccounted ==
  ASSUME MigrationIInv, AppendRequest, UNCHANGED <<columns, version, forgotten>>
  PROVE  MigrationIInv'
<1>1. PICK e \in Event : AppendEvent(e) /\ UNCHANGED <<redaction, archival>>
  BY DEF AppendRequest
<1>2. PICK i \in Time :
        table' = inserted(table, new_entry(next_sequence_number(table),
                                           tail_hash(table), e, utc(i)))
  BY <1>1 DEF AppendEvent
<1> DEFINE x == new_entry(next_sequence_number(table), tail_hash(table), e, utc(i))
<1>3. chained(table', Event, Time) /\ extends_by(table', table, x)
  BY <1>2, InsertedIsChained DEF MigrationIInv
<1>4. row_accounted(as_stored(x), {})
  BY NewRowAccounted
<1> HIDE DEF x
<1>5. /\ DOMAIN table' = DOMAIN table \cup {x.sequence_number}
      /\ \A s \in DOMAIN table : table'[s] = table[s]
      /\ table'[x.sequence_number] = as_stored(x)
      /\ x.sequence_number \notin DOMAIN table
  <2>1. PICK n \in Nat : DOMAIN table = 1 .. n /\ DOMAIN table' = 1 .. (n + 1)
    BY <1>3 DEF extends_by
  <2>2. /\ DOMAIN table' = DOMAIN table \cup {x.sequence_number}
        /\ \A s \in DOMAIN table : table'[s] = table[s]
        /\ table'[x.sequence_number] = as_stored(x)
    BY <1>3 DEF extends_by
  <2>3. n + 1 \in DOMAIN table' /\ n + 1 \notin DOMAIN table
    BY <2>1
  <2> QED
    BY <2>2, <2>3
<1>6. lost(x.sequence_number) = {}
  BY <1>5 DEF lost, MigrationIInv, SchemaTypeOK
<1>7. later(table, table')
  BY <1>5 DEF later
<1>8. \A s \in DOMAIN table' : row_accounted(table'[s], lost(s))
  BY <1>4, <1>5, <1>6 DEF MigrationIInv
<1>9. RowsAccounted'
  BY <1>3, <1>8 DEF RowsAccounted, lost
<1>10. UNCHANGED <<tx, redaction, archival>>
  BY <1>1 DEF AppendEvent
<1>11. \A n : lost(n)' = lost(n)
  BY DEF lost
<1>12. RequestsAccounted
  BY DEF MigrationIInv
<1>13. RequestsAccounted'
  BY <1>7, <1>10, <1>11, <1>12, PendingLater DEF RequestsAccounted
<1> QED
  BY <1>7, <1>9, <1>13, ServiceParts

\* A commit keeps the rows accounted for, whatever was flushed.
LEMMA CommitAccounted ==
  ASSUME MigrationIInv, NEW s \in Session, Commit(s), UNCHANGED forgotten
  PROVE  RowsAccounted' /\ later(table, table')
<1>1. CASE tx[s] = None
  <2>1. table' = table
    BY <1>1 DEF Commit
  <2> QED
    BY <2>1 DEF MigrationIInv, RowsAccounted, later, lost
<1>2. CASE tx[s] # None
  <2> DEFINE n   == tx[s].number
             row == updated(table[n], tx[s].changes)
  <2>1. table' = [table EXCEPT ![n] = row]
    BY <1>2 DEF Commit
  <2>2. \/ pending_redaction(table, n, tx[s].changes, lost(n))
        \/ pending_archival(table, n, tx[s].changes)
    BY <1>2, SessionAssumption DEF MigrationIInv, RequestsAccounted
  <2>3. n \in DOMAIN table
    BY <2>2 DEF pending_redaction, pending_archival
  <2>4. row_accounted(row, lost(n)) /\ fixed(row) = fixed(table[n])
    BY <2>2, <2>3, UpdatedAccounted DEF MigrationIInv
  <2> HIDE DEF n, row
  <2>5. /\ DOMAIN table' = DOMAIN table
        /\ \A k \in DOMAIN table : table'[k] = IF k = n THEN row ELSE table[k]
    BY <2>1
  <2>6. \A k \in DOMAIN table : fixed(table'[k]) = fixed(table[k])
    BY <2>4, <2>5
  <2>7. chained(table', Event, Time)
    BY <2>5, <2>6, FixedKeepsChained DEF MigrationIInv
  <2>8. \A k \in DOMAIN table' : row_accounted(table'[k], lost(k))
    BY <2>4, <2>5 DEF MigrationIInv
  <2>9. RowsAccounted'
    BY <2>7, <2>8 DEF RowsAccounted, lost
  <2> QED
    BY <2>5, <2>6, <2>9 DEF later
<1> QED
  BY <1>1, <1>2

\* A step that leaves the table and the UPDATEs alone, and whose requests at
\* "flush" were there before or are right.
LEMMA RequestAccounted ==
  ASSUME MigrationIInv, UNCHANGED <<columns, version, forgotten>>, UNCHANGED storeVars,
         DOMAIN redaction' = Redactor, DOMAIN archival' = Archiver,
         \A r \in Redactor : redaction'[r] = redaction[r] \/
           LET q == redaction'[r] IN
             /\ tx[r] = None
             /\ q.at = "select" => q.fields \subseteq Field
             /\ q.at = "flush" =>
                  pending_redaction(table, q.number, q.changes, lost(q.number)),
         \A a \in Archiver : archival'[a] = archival[a] \/
           LET q == archival'[a] IN
             /\ tx[a] = None
             /\ q.at = "flush" => pending_archival(table, q.number, q.changes)
  PROVE  MigrationIInv'
<1>1. table' = table /\ tx' = tx
  BY DEF storeVars
<1>2. \A n : lost(n)' = lost(n)
  BY DEF lost
<1>3. RequestsAccounted'
  BY <1>1, <1>2 DEF MigrationIInv, RequestsAccounted
<1>4. RowsAccounted' /\ later(table, table')
  BY <1>1, <1>2 DEF MigrationIInv, RowsAccounted, later
<1> QED
  BY <1>3, <1>4, ServiceParts

\* Every step of a redactor.
LEMMA RedactorAccounted ==
  ASSUME MigrationIInv, NEW r \in Redactor,
         UNCHANGED <<columns, version, forgotten, archival>>,
         \/ \E number \in Number, fields \in SUBSET Field \ {{}} :
              Redact(r, number, fields)
         \/ RedactStep(r)
         \/ RedactFail(r)
  PROVE  MigrationIInv'
<1>1. RequestsAccounted
  BY DEF MigrationIInv
<1>2. r \in Session /\ r \notin Archiver
  BY SessionAssumption
<1>3. \A n : lost(n)' = lost(n)
  BY DEF lost
<1>4. DOMAIN tx = Session /\ DOMAIN redaction = Redactor /\ DOMAIN archival = Archiver
  BY <1>1 DEF RequestsAccounted
<1>5. redaction[r].at # "commit" => tx[r] = None
  BY <1>1 DEF RequestsAccounted
<1>6. ASSUME NEW number \in Number, NEW fields \in SUBSET Field \ {{}},
             Redact(r, number, fields)
      PROVE  MigrationIInv'
  <2>1. /\ UNCHANGED storeVars
        /\ redaction[r].at = "idle"
        /\ redaction' = [redaction EXCEPT ![r] =
             [at |-> "select", number |-> number, fields |-> fields]]
    BY <1>6 DEF Redact
  <2> QED
    BY <1>4, <1>5, <2>1, RequestAccounted
<1>7. ASSUME RedactNotFound(r) \/ RedactRefused(r)
      PROVE  MigrationIInv'
  <2>1. /\ UNCHANGED storeVars
        /\ redaction[r].at = "select"
        /\ redaction' = [redaction EXCEPT ![r] = [at |-> "idle"]]
    BY <1>7 DEF RedactNotFound, RedactRefused, Ended
  <2> QED
    BY <1>4, <1>5, <2>1, RequestAccounted
<1>8. ASSUME RedactSelect(r)
      PROVE  MigrationIInv'
  <2> DEFINE n       == redaction[r].number
             fs      == Redactable(table[n], redaction[r].fields)
             changes == redaction_changes(table[n], fs)
             from    == original(table[n].payload_hash)
  <2>1. /\ UNCHANGED storeVars
        /\ redaction[r].at = "select"
        /\ n \in DOMAIN table
        /\ redaction' = [redaction EXCEPT ![r] =
             IF fs = {} THEN [at |-> "commit"]
             ELSE [at |-> "flush", number |-> n, changes |-> changes]]
    BY <1>8 DEF RedactSelect
  <2>2. redaction[r].fields \subseteq Field
    BY <1>1, <2>1 DEF RequestsAccounted
  <2>3. accounts_but(table[n].payload, table[n].redacted_fields, from, lost(n))
    BY <2>1 DEF MigrationIInv, row_accounted
  <2>4. accounts_but(redacted_payload(table[n], fs), redacted_map(table[n], fs),
                     from, lost(n))
    BY <2>2, <2>3, RedactionAccountsBut
  <2>5. pending_redaction(table, n, changes, lost(n))
    <3>1. /\ DOMAIN changes = {"payload", "redacted_fields"}
          /\ changes.payload = redacted_payload(table[n], fs)
          /\ changes.redacted_fields = redacted_map(table[n], fs)
      BY DEF redaction_changes
    <3> HIDE DEF changes, fs
    <3> QED
      BY <2>1, <2>4, <3>1 DEF pending_redaction
  <2> HIDE DEF n, fs, changes
  <2> QED
    BY <1>4, <1>5, <2>1, <2>5, RequestAccounted
<1>9. ASSUME RedactFlush(r)
      PROVE  MigrationIInv'
  <2>1. /\ redaction[r].at = "flush"
        /\ tx' = [tx EXCEPT ![r] = [number  |-> redaction[r].number,
                                    changes |-> redaction[r].changes]]
        /\ redaction' = [redaction EXCEPT ![r] = [at |-> "commit"]]
        /\ table' = table
    BY <1>9 DEF RedactFlush, Flush
  <2>2. RequestsAccounted'
    BY <1>1, <1>2, <1>3, <1>4, <2>1, SessionAssumption DEF RequestsAccounted
  <2>3. RowsAccounted' /\ later(table, table')
    BY <1>3, <2>1 DEF MigrationIInv, RowsAccounted, later
  <2> QED
    BY <2>2, <2>3, ServiceParts
<1>10. ASSUME RedactCommit(r)
       PROVE  MigrationIInv'
  <2>1. /\ Commit(r)
        /\ tx' = [tx EXCEPT ![r] = None]
        /\ redaction' = [redaction EXCEPT ![r] = [at |-> "idle"]]
    BY <1>10 DEF RedactCommit, Commit, Ended
  <2>2. RowsAccounted' /\ later(table, table')
    BY <1>2, <2>1, CommitAccounted
  <2>3. RequestsAccounted'
    BY <1>1, <1>2, <1>3, <1>4, <2>1, <2>2, PendingLater, SessionAssumption
       DEF RequestsAccounted
  <2> QED
    BY <2>2, <2>3, ServiceParts
<1>11. ASSUME RedactFail(r)
       PROVE  MigrationIInv'
  <2>1. /\ table' = table
        /\ tx' = [tx EXCEPT ![r] = None]
        /\ redaction' = [redaction EXCEPT ![r] = [at |-> "idle"]]
    BY <1>11 DEF RedactFail, Rollback, Ended
  <2>2. RequestsAccounted'
    BY <1>1, <1>2, <1>3, <1>4, <2>1, SessionAssumption DEF RequestsAccounted
  <2>3. RowsAccounted' /\ later(table, table')
    BY <1>3, <2>1 DEF MigrationIInv, RowsAccounted, later
  <2> QED
    BY <2>2, <2>3, ServiceParts
<1> QED
  BY <1>6, <1>7, <1>8, <1>9, <1>10, <1>11 DEF RedactStep

\* Every step of an archiver.
LEMMA ArchiverAccounted ==
  ASSUME MigrationIInv, NEW a \in Archiver,
         UNCHANGED <<columns, version, forgotten, redaction>>,
         \/ \E number \in Number : Archive(a, number)
         \/ ArchiveStep(a)
         \/ ArchiveFail(a)
  PROVE  MigrationIInv'
<1>1. RequestsAccounted
  BY DEF MigrationIInv
<1>2. a \in Session /\ a \notin Redactor
  BY SessionAssumption
<1>3. \A n : lost(n)' = lost(n)
  BY DEF lost
<1>4. DOMAIN tx = Session /\ DOMAIN redaction = Redactor /\ DOMAIN archival = Archiver
  BY <1>1 DEF RequestsAccounted
<1>5. archival[a].at # "commit" => tx[a] = None
  BY <1>1 DEF RequestsAccounted
<1>6. ASSUME NEW number \in Number, Archive(a, number)
      PROVE  MigrationIInv'
  <2>1. /\ UNCHANGED storeVars
        /\ archival[a].at = "idle"
        /\ archival' = [archival EXCEPT ![a] = [at |-> "select", number |-> number]]
    BY <1>6 DEF Archive
  <2> QED
    BY <1>4, <1>5, <2>1, RequestAccounted
<1>7. ASSUME ArchiveNotFound(a) \/ ArchiveUnchanged(a)
      PROVE  MigrationIInv'
  <2>1. /\ UNCHANGED storeVars
        /\ archival[a].at = "select"
        /\ \/ archival' = [archival EXCEPT ![a] = [at |-> "idle"]]
           \/ archival' = [archival EXCEPT ![a] = [at |-> "commit"]]
    BY <1>7 DEF ArchiveNotFound, ArchiveUnchanged, Finished
  <2> QED
    BY <1>4, <1>5, <2>1, RequestAccounted
<1>8. ASSUME ArchiveSelect(a)
      PROVE  MigrationIInv'
  <2>1. PICK now \in Time :
          /\ UNCHANGED storeVars
          /\ archival[a].at = "select"
          /\ archival[a].number \in DOMAIN table
          /\ archival' = [archival EXCEPT ![a] =
               [at |-> "flush", number |-> archival[a].number,
                changes |-> archive_changes(now)]]
    BY <1>8 DEF ArchiveSelect
  <2>2. pending_archival(table, archival[a].number, archive_changes(now))
    BY <2>1 DEF pending_archival, archive_changes
  <2> QED
    BY <1>4, <1>5, <2>1, <2>2, RequestAccounted
<1>9. ASSUME ArchiveFlush(a)
      PROVE  MigrationIInv'
  <2>1. /\ archival[a].at = "flush"
        /\ tx' = [tx EXCEPT ![a] = [number  |-> archival[a].number,
                                    changes |-> archival[a].changes]]
        /\ archival' = [archival EXCEPT ![a] = [at |-> "commit"]]
        /\ table' = table
    BY <1>9 DEF ArchiveFlush, Flush
  <2>2. RequestsAccounted'
    BY <1>1, <1>2, <1>3, <1>4, <2>1, SessionAssumption DEF RequestsAccounted
  <2>3. RowsAccounted' /\ later(table, table')
    BY <1>3, <2>1 DEF MigrationIInv, RowsAccounted, later
  <2> QED
    BY <2>2, <2>3, ServiceParts
<1>10. ASSUME ArchiveCommit(a)
       PROVE  MigrationIInv'
  <2>1. /\ Commit(a)
        /\ tx' = [tx EXCEPT ![a] = None]
        /\ archival' = [archival EXCEPT ![a] = [at |-> "idle"]]
    BY <1>10 DEF ArchiveCommit, Commit, Finished
  <2>2. RowsAccounted' /\ later(table, table')
    BY <1>2, <2>1, CommitAccounted
  <2>3. RequestsAccounted'
    BY <1>1, <1>2, <1>3, <1>4, <2>1, <2>2, PendingLater, SessionAssumption
       DEF RequestsAccounted
  <2> QED
    BY <2>2, <2>3, ServiceParts
<1>11. ASSUME ArchiveFail(a)
       PROVE  MigrationIInv'
  <2>1. /\ table' = table
        /\ tx' = [tx EXCEPT ![a] = None]
        /\ archival' = [archival EXCEPT ![a] = [at |-> "idle"]]
    BY <1>11 DEF ArchiveFail, Rollback, Finished
  <2>2. RequestsAccounted'
    BY <1>1, <1>2, <1>3, <1>4, <2>1, SessionAssumption DEF RequestsAccounted
  <2>3. RowsAccounted' /\ later(table, table')
    BY <1>3, <2>1 DEF MigrationIInv, RowsAccounted, later
  <2> QED
    BY <2>2, <2>3, ServiceParts
<1> QED
  BY <1>6, <1>7, <1>8, <1>9, <1>10, <1>11 DEF ArchiveStep

-----------------------------------------------------------------------------
(* The inductive invariant: migrations and starts.                         *)

\* A migration runs when no request has computed or flushed anything, so it
\* only has to leave the rows right.
LEMMA MigrationAccounted ==
  ASSUME MigrationIInv, Quiet, UNCHANGED <<tx, redaction, archival>>,
         SchemaTypeOK', RowsAccounted'
  PROVE  MigrationIInv'
<1>1. RequestsAccounted
  BY DEF MigrationIInv
<1>2. /\ \A r \in Redactor : redaction[r].at # "flush" /\ redaction[r].at # "commit"
      /\ \A a \in Archiver : archival[a].at # "flush" /\ archival[a].at # "commit"
  BY DEF Quiet
<1>3. RequestsAccounted'
  BY <1>1, <1>2 DEF RequestsAccounted
<1> QED
  BY <1>3 DEF MigrationIInv, RowsAccounted

\* The type invariant by way of Schema.
LEMMA SchemaParts ==
  SchemaTypeOK <=> Schema(columns, version) /\ forgotten \subseteq (DOMAIN table) \X Field
  BY DEF SchemaTypeOK, Schema, head

LEMMA UpgradeAccounted ==
  ASSUME MigrationIInv, UpgradeHead
  PROVE  MigrationIInv'
<1>1. /\ Schema(columns, version)
      /\ forgotten \subseteq (DOMAIN table) \X Field
  BY SchemaParts DEF MigrationIInv
<1>2. /\ Quiet
      /\ version < 3
      /\ \A revision \in version + 1 .. 3 : applicable(revision)
      /\ columns' = columns \cup UNION {introduced(r) : r \in version + 1 .. 3}
      /\ version' = 3
      /\ UNCHANGED <<tx, redaction, archival, forgotten>>
  BY DEF UpgradeHead, head
<1>3. table' = [s \in DOMAIN table |-> table[s]]
  BY DEF UpgradeHead, upgraded
<1>4. DOMAIN table' = DOMAIN table /\ \A s \in DOMAIN table : table'[s] = table[s]
  BY <1>3
<1>5. Schema(columns', version')
  BY <1>1, <1>2, SchemaKept
<1>6. SchemaTypeOK'
  BY <1>1, <1>2, <1>4, <1>5
     DEF SchemaTypeOK, Schema, head, columns_at, introduced
<1>7. chained(table', Event, Time)
  <2>1. \A s \in DOMAIN table : fixed(table'[s]) = fixed(table[s])
    BY <1>4
  <2> QED
    BY <1>4, <2>1, FixedKeepsChained DEF MigrationIInv
<1>8. RowsAccounted'
  BY <1>2, <1>4, <1>7 DEF MigrationIInv, RowsAccounted, lost
<1> QED
  BY <1>2, <1>6, <1>8, MigrationAccounted

\* A row keeps its fixed columns through every downgrade that leaves it, and is
\* accounted for by the proofs it has left.
LEMMA WithoutAccounted ==
  ASSUME NEW row, NEW dropped, row_accounted(row, dropped), NEW v \in {2, 3}, NEW more,
         more = IF v = 2 THEN dropped \cup (Field \cap DOMAIN row.redacted_fields)
                ELSE dropped
  PROVE  /\ fixed(without(row, introduced(v))) = fixed(row)
         /\ row_accounted(without(row, introduced(v)), more)
<1> DEFINE new == without(row, introduced(v))
<1>1. /\ introduced(2) = {"redacted_fields"}
      /\ introduced(3) = {"is_archived", "archived_at"}
  BY DEF introduced
<1>2. /\ DOMAIN row = EntryField
      /\ accounts_but(row.payload, row.redacted_fields, original(row.payload_hash),
                      dropped)
  BY DEF row_accounted
<1>3. /\ DOMAIN new = EntryField
      /\ \A column \in EntryField :
           column \notin introduced(v) => new[column] = row[column]
  BY <1>2 DEF without
<1>4. v = 2 => new.redacted_fields = << >>
  BY <1>1, <1>2 DEF without, EntryField
<1> HIDE DEF new
<1>5. fixed(new) = fixed(row)
  BY <1>1, <1>3 DEF fixed, EntryField
<1>6. /\ new.payload = row.payload
      /\ new.payload_hash = row.payload_hash
      /\ v = 3 => new.redacted_fields = row.redacted_fields
  BY <1>1, <1>3 DEF EntryField
<1>7. CASE v = 3
  BY <1>2, <1>3, <1>5, <1>6, <1>7 DEF row_accounted, new
<1>8. CASE v = 2
  <2>1. accounts_but(row.payload, << >>, original(row.payload_hash), more)
    BY <1>2, <1>8 DEF accounts_but
  <2>2. row_accounted(new, more)
    BY <1>3, <1>4, <1>6, <1>8, <2>1 DEF row_accounted
  <2> QED
    BY <1>5, <2>2 DEF new
<1> QED
  BY <1>7, <1>8

LEMMA DowngradeAccounted ==
  ASSUME MigrationIInv, Downgrade
  PROVE  MigrationIInv'
<1>1. /\ Schema(columns, version)
      /\ forgotten \subseteq (DOMAIN table) \X Field
  BY SchemaParts DEF MigrationIInv
<1>2. /\ Quiet
      /\ version > 0
      /\ columns' = columns \ introduced(version)
      /\ version' = version - 1
      /\ UNCHANGED <<tx, redaction, archival>>
  BY DEF Downgrade
<1>3. version \in {1, 2, 3}
  BY <1>1, <1>2 DEF Schema
<1>4. Schema(columns', version')
  BY <1>1, <1>2, SchemaKept
<1>5. forgotten' \subseteq (DOMAIN table') \X Field => SchemaTypeOK'
  BY <1>4 DEF SchemaTypeOK, Schema, head, columns_at, introduced
<1>6. CASE version = 1
  <2>1. table' = << >> /\ forgotten' = {} /\ DOMAIN table' = {}
    BY <1>6 DEF Downgrade
  <2>2. chained(table', Event, Time)
    <3>1. DOMAIN table' = 1 .. 0
      BY <2>1
    <3> QED
      BY <2>1, <3>1 DEF chained
  <2>3. RowsAccounted'
    BY <2>1, <2>2 DEF RowsAccounted
  <2> QED
    BY <1>2, <1>5, <2>1, <2>3, MigrationAccounted
<1>7. CASE version # 1
  <2>1. /\ table' = [s \in DOMAIN table |-> without(table[s], introduced(version))]
        /\ forgotten' = IF version = 2 THEN forgotten \cup proofs ELSE forgotten
    BY <1>7 DEF Downgrade
  <2>2. /\ DOMAIN table' = DOMAIN table
        /\ \A s \in DOMAIN table : table'[s] = without(table[s], introduced(version))
    BY <2>1
  <2>3. proofs \subseteq (DOMAIN table) \X Field
    BY DEF proofs
  <2>4. SchemaTypeOK'
    BY <1>1, <1>5, <2>1, <2>2, <2>3
  <2>5. ASSUME NEW s \in DOMAIN table
        PROVE  lost(s)' = IF version = 2
                          THEN lost(s) \cup (Field \cap DOMAIN table[s].redacted_fields)
                          ELSE lost(s)
    <3>1. \A f \in Field : <<s, f>> \in proofs <=> f \in DOMAIN table[s].redacted_fields
      BY DEF proofs
    <3> QED
      BY <2>1, <3>1 DEF lost
  <2>6. \A s \in DOMAIN table :
          fixed(table'[s]) = fixed(table[s]) /\ row_accounted(table'[s], lost(s)')
    BY <1>3, <1>7, <2>2, <2>5, WithoutAccounted DEF MigrationIInv
  <2>7. chained(table', Event, Time)
    BY <2>2, <2>6, FixedKeepsChained DEF MigrationIInv
  <2>8. RowsAccounted'
    BY <2>2, <2>6, <2>7 DEF RowsAccounted, lost
  <2> QED
    BY <1>2, <2>4, <2>8, MigrationAccounted
<1> QED
  BY <1>6, <1>7

LEMMA StartAccounted ==
  ASSUME MigrationIInv, Startup
  PROVE  MigrationIInv'
<1>1. /\ Schema(columns, version)
      /\ forgotten \subseteq (DOMAIN table) \X Field
  BY SchemaParts DEF MigrationIInv
<1>2. /\ columns' = IF columns = {} THEN EntryField ELSE columns
      /\ UNCHANGED <<table, tx, redaction, archival, version, forgotten>>
  BY DEF Startup, created_all
<1>3. Schema(columns', version')
  BY <1>1, <1>2, SchemaKept
<1>4. SchemaTypeOK'
  BY <1>1, <1>2, <1>3 DEF SchemaTypeOK, Schema, head, columns_at, introduced
<1>5. RequestsAccounted'
  BY <1>2 DEF MigrationIInv, RequestsAccounted, lost
<1> QED
  BY <1>2, <1>4, <1>5 DEF MigrationIInv, lost

LEMMA MigrationInitIInv == MigrationInit => MigrationIInv
<1> SUFFICES ASSUME MigrationInit PROVE MigrationIInv
  OBVIOUS
<1>1. table = << >> /\ DOMAIN table = {} /\ columns = {} /\ version = 0 /\ forgotten = {}
  BY DEF MigrationInit, Init, StoreInit
<1>2. SchemaTypeOK
  BY <1>1, ColumnsAt, SchemaParts DEF Schema
<1>3. chained(table, Event, Time)
  <2>1. DOMAIN table = 1 .. 0
    BY <1>1
  <2> QED
    BY <1>1, <2>1 DEF chained
<1>4. RequestsAccounted
  <2>1. /\ tx = [s \in Session |-> None]
        /\ redaction = [r \in Redactor |-> [at |-> "idle"]]
        /\ archival = [a \in Archiver |-> [at |-> "idle"]]
    BY DEF MigrationInit, Init, StoreInit, RedactionInit, RetentionInit
  <2>2. \A r \in Redactor : tx[r] = None /\ redaction[r].at = "idle"
    BY <2>1, SessionAssumption
  <2>3. \A a \in Archiver : tx[a] = None /\ archival[a].at = "idle"
    BY <2>1, SessionAssumption
  <2> QED
    BY <2>1, <2>2, <2>3 DEF RequestsAccounted
<1> QED
  BY <1>1, <1>2, <1>3, <1>4 DEF MigrationIInv

LEMMA MigrationNextIInv == MigrationIInv /\ [MigrationNext]_migrationVars => MigrationIInv'
<1> SUFFICES ASSUME MigrationIInv, [MigrationNext]_migrationVars PROVE MigrationIInv'
  OBVIOUS
<1>1. CASE Request /\ UNCHANGED <<columns, version, forgotten>>
  BY <1>1, RedactorAccounted, ArchiverAccounted DEF Request
<1>2. CASE AppendRequest /\ UNCHANGED <<columns, version, forgotten>>
  BY <1>2, AppendAccounted
<1>3. CASE Startup
  BY <1>3, StartAccounted
<1>4. CASE UpgradeHead
  BY <1>4, UpgradeAccounted
<1>5. CASE Downgrade
  BY <1>5, DowngradeAccounted
<1>6. CASE UNCHANGED migrationVars
  <2>1. SchemaTypeOK'
    BY <1>6 DEF MigrationIInv, SchemaTypeOK, columns_at, introduced, head, migrationVars
  <2>2. RequestsAccounted'
    BY <1>6 DEF MigrationIInv, RequestsAccounted, lost, migrationVars
  <2> QED
    BY <1>6, <2>1, <2>2 DEF MigrationIInv, lost, migrationVars
<1> QED
  BY <1>1, <1>2, <1>3, <1>4, <1>5, <1>6 DEF MigrationNext

-----------------------------------------------------------------------------
(* The theorems.                                                           *)

\* The inductive invariant holds, whatever order upgrades, downgrades, starts
\* and requests come in.
THEOREM MigrationInvariance == MigrationSpec => []MigrationIInv
  BY MigrationInitIInv, MigrationNextIInv, PTL DEF MigrationSpec

\* The migrations of alembic/versions and create_all leave no schema but that
\* of the revision, or the whole one where Alembic knows of none.
THEOREM SchemaTyped == MigrationSpec => []SchemaTypeOK
<1>1. MigrationIInv => SchemaTypeOK
  BY DEF MigrationIInv
<1> QED
  BY <1>1, MigrationInvariance, PTL

\* GET /audit/verify accepts the chain after any migrations, the ones that drop
\* columns included, and among any requests.
THEOREM VerifiableAcross == MigrationSpec => []StillVerifies
<1>1. MigrationIInv => StillVerifies
  BY ChainedVerifies DEF MigrationIInv, StillVerifies
<1> QED
  BY <1>1, MigrationInvariance, PTL

\* A field differs from what was posted exactly where its proof is, or where a
\* downgrade of migration 002 dropped the proof.
THEOREM EvidenceAcross == MigrationSpec => []EvidenceAccounted
<1>1. ASSUME MigrationIInv
      PROVE  EvidenceAccounted
  <2> SUFFICES ASSUME NEW s \in DOMAIN table,
                      NEW f \in DOMAIN original(table[s].payload_hash)
               PROVE  LET row  == table[s]
                          from == original(row.payload_hash)
                      IN  /\ f \in DOMAIN row.redacted_fields =>
                               row.redacted_fields[f] = hash_field_value(f, from[f])
                          /\ row.payload[f] # from[f] <=>
                               f \in DOMAIN row.redacted_fields \/ <<s, f>> \in forgotten
    BY DEF EvidenceAccounted
  <2>1. accounts_but(table[s].payload, table[s].redacted_fields,
                     original(table[s].payload_hash), lost(s))
    BY <1>1 DEF MigrationIInv, row_accounted
  <2>2. <<s, f>> \in forgotten <=> f \in lost(s)
    BY <1>1 DEF MigrationIInv, SchemaTypeOK, lost
  <2> QED
    BY <2>1, <2>2 DEF accounts_but
<1> QED
  BY <1>1, MigrationInvariance, PTL

-----------------------------------------------------------------------------
(* One request at a time.  What a redactor or an archiver read is then     *)
(* still so when it commits, and what the races undo stays.                *)

\* The row is not archived, and the changes keep what is redacted.
fresh_redaction(t, number, changes) ==
  /\ ~ t[number].is_archived
  /\ \A f \in DOMAIN t[number].redacted_fields :
       f \in DOMAIN changes.redacted_fields /\ changes.payload[f] = None

Fresh ==
  /\ \A r \in Redactor :
       /\ redaction[r].at = "flush" =>
            fresh_redaction(table, redaction[r].number, redaction[r].changes)
       /\ tx[r] # None => fresh_redaction(table, tx[r].number, tx[r].changes)
  /\ \A a \in Archiver :
       /\ archival[a].at = "flush" => ~ table[archival[a].number].is_archived
       /\ tx[a] # None => ~ table[tx[a].number].is_archived

Alone == \A s, t \in InFlight : s = t

\* A request is admitted when no other is under way.
LEMMA AdmittedAlone ==
  ASSUME MaxInFlight = 1, Alone, Admitted
  PROVE  InFlight = {}
<1> SUFFICES ASSUME InFlight # {} PROVE FALSE
  OBVIOUS
<1>1. PICK s : s \in InFlight
  OBVIOUS
<1>2. InFlight = {s}
  BY <1>1 DEF Alone
<1> HIDE DEF InFlight
<1>3. Cardinality(InFlight) = 1
  BY <1>2, FS_Singleton
<1> QED
  BY <1>3 DEF Admitted

\* What is in flight after a step of one redactor or archiver.
LEMMA InFlightAfter ==
  ASSUME NEW s \in Session,
         DOMAIN redaction' = Redactor, DOMAIN archival' = Archiver,
         \A r \in Redactor \ {s} : redaction'[r] = redaction[r],
         \A a \in Archiver \ {s} : archival'[a] = archival[a]
  PROVE  InFlight' \subseteq InFlight \cup {s}
BY DEF InFlight

\* The other requests are idle, and have no UPDATE flushed.
LEMMA OthersIdle ==
  ASSUME MigrationIInv, Alone, NEW s \in InFlight
  PROVE  /\ \A r \in Redactor \ {s} : redaction[r].at = "idle" /\ tx[r] = None
         /\ \A a \in Archiver \ {s} : archival[a].at = "idle" /\ tx[a] = None
<1>1. /\ \A r \in Redactor \ {s} : redaction[r].at = "idle"
      /\ \A a \in Archiver \ {s} : archival[a].at = "idle"
  BY DEF Alone, InFlight
<1> QED
  BY <1>1 DEF MigrationIInv, RequestsAccounted

\* What a step may do to the rows when requests do not overlap.
rows_kept ==
  \A s \in DOMAIN table :
    /\ table[s].is_archived => table'[s] = table[s]
    /\ \A f \in DOMAIN table[s].redacted_fields :
         f \in DOMAIN table'[s].redacted_fields /\ table'[s].payload[f] = None

\* The value of a field is null where its proof is.
LEMMA ProvedIsNull ==
  ASSUME MigrationIInv, NEW s \in DOMAIN table, NEW f \in DOMAIN table[s].redacted_fields
  PROVE  table[s].payload[f] = None
<1>1. accounts_but(table[s].payload, table[s].redacted_fields,
                   original(table[s].payload_hash), lost(s))
  BY DEF MigrationIInv, row_accounted
<1> QED
  BY <1>1 DEF accounts_but

\* A step that leaves the rows there are.
LEMMA SameRowsKept ==
  ASSUME MigrationIInv, \A s \in DOMAIN table : table'[s] = table[s]
  PROVE  rows_kept
BY ProvedIsNull DEF rows_kept

\* A commit changes a row that is not archived, and keeps what is redacted.
LEMMA CommitKeeps ==
  ASSUME MigrationIInv, Fresh, NEW s \in Session, Commit(s)
  PROVE  rows_kept
<1>1. CASE tx[s] = None
  BY <1>1, SameRowsKept DEF Commit
<1>2. CASE tx[s] # None
  <2> DEFINE n   == tx[s].number
             row == updated(table[n], tx[s].changes)
  <2>1. table' = [table EXCEPT ![n] = row]
    BY <1>2 DEF Commit
  <2>2. \/ s \in Redactor /\ pending_redaction(table, n, tx[s].changes, lost(n))
        \/ s \in Archiver /\ pending_archival(table, n, tx[s].changes)
    BY <1>2, SessionAssumption DEF MigrationIInv, RequestsAccounted
  <2>3. n \in DOMAIN table /\ DOMAIN table[n] = EntryField
    BY <2>2 DEF pending_redaction, pending_archival, MigrationIInv, row_accounted
  <2>4. ~ table[n].is_archived
    BY <1>2, <2>2 DEF Fresh, fresh_redaction
  <2>5. ASSUME NEW f \in DOMAIN table[n].redacted_fields
        PROVE  f \in DOMAIN row.redacted_fields /\ row.payload[f] = None
    <3>1. CASE s \in Redactor /\ pending_redaction(table, n, tx[s].changes, lost(n))
      <4>1. row.redacted_fields = tx[s].changes.redacted_fields
            /\ row.payload = tx[s].changes.payload
        BY <2>3, <3>1 DEF updated, pending_redaction, EntryField
      <4>2. fresh_redaction(table, n, tx[s].changes)
        BY <1>2, <3>1 DEF Fresh
      <4> HIDE DEF n, row
      <4> QED
        BY <4>1, <4>2 DEF fresh_redaction
    <3>2. CASE s \in Archiver /\ pending_archival(table, n, tx[s].changes)
      <4>1. row.redacted_fields = table[n].redacted_fields
            /\ row.payload = table[n].payload
        BY <2>3, <3>2 DEF updated, pending_archival, EntryField
      <4> HIDE DEF n, row
      <4> QED
        BY <2>3, <4>1, ProvedIsNull
    <3> QED
      BY <2>2, <3>1, <3>2
  <2> HIDE DEF n, row
  <2>6. \A k \in DOMAIN table : table'[k] = IF k = n THEN row ELSE table[k]
    BY <2>1
  <2> QED
    BY <2>4, <2>5, <2>6, ProvedIsNull DEF rows_kept
<1> QED
  BY <1>1, <1>2

\* Requests that have done nothing yet, or have ended.
LEMMA FreshAfterEnd ==
  ASSUME MigrationIInv, Alone, NEW s \in InFlight, s \in Session,
         DOMAIN redaction' = Redactor, DOMAIN archival' = Archiver,
         \A r \in Redactor \ {s} : redaction'[r] = redaction[r] /\ tx'[r] = tx[r],
         \A a \in Archiver \ {s} : archival'[a] = archival[a] /\ tx'[a] = tx[a],
         tx'[s] = None,
         s \in Redactor => redaction'[s].at # "flush",
         s \in Archiver => archival'[s].at # "flush"
  PROVE  Fresh' /\ Alone'
<1>1. Fresh'
  BY OthersIdle DEF Fresh
<1>2. InFlight' \subseteq InFlight
  BY DEF InFlight
<1> QED
  BY <1>1, <1>2 DEF Alone

LEMMA RedactorAlone ==
  ASSUME MaxInFlight = 1, MigrationIInv, Fresh, Alone, NEW r \in Redactor,
         UNCHANGED archival,
         \/ \E number \in Number, fields \in SUBSET Field \ {{}} :
              Admitted /\ Redact(r, number, fields)
         \/ RedactStep(r)
         \/ RedactFail(r)
  PROVE  Fresh' /\ Alone' /\ rows_kept
<1>1. RequestsAccounted
  BY DEF MigrationIInv
<1>2. r \in Session /\ r \notin Archiver
  BY SessionAssumption
<1>3. /\ DOMAIN tx = Session /\ DOMAIN redaction = Redactor /\ DOMAIN archival = Archiver
      /\ Redactor \subseteq Session /\ Archiver \subseteq Session
  BY <1>1, SessionAssumption DEF RequestsAccounted
<1>4. redaction[r].at # "idle" => r \in InFlight
  BY DEF InFlight
<1>5. redaction[r].at # "commit" => tx[r] = None
  BY <1>1 DEF RequestsAccounted
<1>6. ASSUME NEW number \in Number, NEW fields \in SUBSET Field \ {{}},
             Admitted, Redact(r, number, fields)
      PROVE  Fresh' /\ Alone' /\ rows_kept
  <2>1. /\ table' = table /\ tx' = tx
        /\ redaction' = [redaction EXCEPT ![r] =
             [at |-> "select", number |-> number, fields |-> fields]]
    BY <1>6 DEF Redact, storeVars
  <2>2. InFlight = {}
    BY <1>6, AdmittedAlone
  <2>3. InFlight' \subseteq {r}
    BY <1>2, <1>3, <2>1, <2>2, InFlightAfter
  <2>4. Alone'
    BY <2>3 DEF Alone
  <2>5. Fresh'
    BY <1>3, <2>1 DEF Fresh
  <2> QED
    BY <2>1, <2>4, <2>5, SameRowsKept
<1>7. ASSUME RedactNotFound(r) \/ RedactRefused(r)
      PROVE  Fresh' /\ Alone' /\ rows_kept
  <2>1. /\ table' = table /\ tx' = tx
        /\ redaction[r].at = "select"
        /\ redaction' = [redaction EXCEPT ![r] = [at |-> "idle"]]
    BY <1>7 DEF RedactNotFound, RedactRefused, Ended, storeVars
  <2>2. Fresh' /\ Alone'
    BY <1>2, <1>3, <1>4, <1>5, <2>1, FreshAfterEnd
  <2> QED
    BY <2>1, <2>2, SameRowsKept
<1>8. ASSUME RedactSelect(r)
      PROVE  Fresh' /\ Alone' /\ rows_kept
  <2> DEFINE n       == redaction[r].number
             fs      == Redactable(table[n], redaction[r].fields)
             changes == redaction_changes(table[n], fs)
  <2>1. /\ table' = table /\ tx' = tx
        /\ redaction[r].at = "select"
        /\ n \in DOMAIN table
        /\ ~ table[n].is_archived
        /\ redaction' = [redaction EXCEPT ![r] =
             IF fs = {} THEN [at |-> "commit"]
             ELSE [at |-> "flush", number |-> n, changes |-> changes]]
    BY <1>8 DEF RedactSelect, storeVars, refused
  <2>2. fresh_redaction(table, n, changes)
    <3>1. /\ changes.payload = redacted_payload(table[n], fs)
          /\ changes.redacted_fields = redacted_map(table[n], fs)
      BY DEF redaction_changes
    <3>2. ASSUME NEW f \in DOMAIN table[n].redacted_fields
          PROVE  /\ f \in DOMAIN redacted_map(table[n], fs)
                 /\ redacted_payload(table[n], fs)[f] = None
      <4>1. table[n].payload[f] = None
        BY <2>1, ProvedIsNull
      <4>2. f \in DOMAIN table[n].payload
        BY <2>1 DEF MigrationIInv, row_accounted, accounts_but
      <4> QED
        BY <4>1, <4>2 DEF redacted_map, redacted_payload
    <3> HIDE DEF n, changes, fs
    <3> QED
      BY <2>1, <3>1, <3>2 DEF fresh_redaction
  <2> HIDE DEF n, fs, changes
  <2>3. InFlight' \subseteq InFlight \cup {r}
    BY <1>2, <1>3, <2>1, InFlightAfter
  <2>4. Alone'
    BY <1>4, <2>1, <2>3 DEF Alone
  <2>5. Fresh'
    BY <1>3, <1>5, <2>1, <2>2 DEF Fresh
  <2> QED
    BY <2>1, <2>4, <2>5, SameRowsKept
<1>9. ASSUME RedactFlush(r)
      PROVE  Fresh' /\ Alone' /\ rows_kept
  <2>1. /\ redaction[r].at = "flush"
        /\ tx' = [tx EXCEPT ![r] = [number  |-> redaction[r].number,
                                    changes |-> redaction[r].changes]]
        /\ redaction' = [redaction EXCEPT ![r] = [at |-> "commit"]]
        /\ table' = table
    BY <1>9 DEF RedactFlush, Flush
  <2>2. InFlight' \subseteq InFlight \cup {r}
    BY <1>2, <1>3, <2>1, InFlightAfter
  <2>3. Alone'
    BY <1>4, <2>1, <2>2 DEF Alone
  <2>4. Fresh'
    BY <1>2, <1>3, <2>1 DEF Fresh
  <2> QED
    BY <2>1, <2>3, <2>4, SameRowsKept
<1>10. ASSUME RedactCommit(r)
       PROVE  Fresh' /\ Alone' /\ rows_kept
  <2>1. /\ Commit(r)
        /\ redaction[r].at = "commit"
        /\ tx' = [tx EXCEPT ![r] = None]
        /\ redaction' = [redaction EXCEPT ![r] = [at |-> "idle"]]
    BY <1>10 DEF RedactCommit, Commit, Ended
  <2>2. Fresh' /\ Alone'
    BY <1>2, <1>3, <1>4, <2>1, FreshAfterEnd
  <2> QED
    BY <1>2, <2>1, <2>2, CommitKeeps
<1>11. ASSUME RedactFail(r)
       PROVE  Fresh' /\ Alone' /\ rows_kept
  <2>1. /\ table' = table
        /\ redaction[r].at # "idle"
        /\ tx' = [tx EXCEPT ![r] = None]
        /\ redaction' = [redaction EXCEPT ![r] = [at |-> "idle"]]
    BY <1>11 DEF RedactFail, Rollback, Ended
  <2>2. Fresh' /\ Alone'
    BY <1>2, <1>3, <1>4, <2>1, FreshAfterEnd
  <2> QED
    BY <2>1, <2>2, SameRowsKept
<1> QED
  BY <1>6, <1>7, <1>8, <1>9, <1>10, <1>11 DEF RedactStep

LEMMA ArchiverAlone ==
  ASSUME MaxInFlight = 1, MigrationIInv, Fresh, Alone, NEW a \in Archiver,
         UNCHANGED redaction,
         \/ \E number \in Number : Admitted /\ Archive(a, number)
         \/ ArchiveStep(a)
         \/ ArchiveFail(a)
  PROVE  Fresh' /\ Alone' /\ rows_kept
<1>1. RequestsAccounted
  BY DEF MigrationIInv
<1>2. a \in Session /\ a \notin Redactor
  BY SessionAssumption
<1>3. /\ DOMAIN tx = Session /\ DOMAIN redaction = Redactor /\ DOMAIN archival = Archiver
      /\ Redactor \subseteq Session /\ Archiver \subseteq Session
  BY <1>1, SessionAssumption DEF RequestsAccounted
<1>4. archival[a].at # "idle" => a \in InFlight
  BY DEF InFlight
<1>5. archival[a].at # "commit" => tx[a] = None
  BY <1>1 DEF RequestsAccounted
<1>6. ASSUME NEW number \in Number, Admitted, Archive(a, number)
      PROVE  Fresh' /\ Alone' /\ rows_kept
  <2>1. /\ table' = table /\ tx' = tx
        /\ archival' = [archival EXCEPT ![a] = [at |-> "select", number |-> number]]
    BY <1>6 DEF Archive, storeVars
  <2>2. InFlight = {}
    BY <1>6, AdmittedAlone
  <2>3. InFlight' \subseteq {a}
    BY <1>2, <1>3, <2>1, <2>2, InFlightAfter
  <2>4. Alone'
    BY <2>3 DEF Alone
  <2>5. Fresh'
    BY <1>3, <2>1 DEF Fresh
  <2> QED
    BY <2>1, <2>4, <2>5, SameRowsKept
<1>7. ASSUME ArchiveNotFound(a) \/ ArchiveUnchanged(a)
      PROVE  Fresh' /\ Alone' /\ rows_kept
  <2>1. /\ table' = table /\ tx' = tx
        /\ archival[a].at = "select"
        /\ \/ archival' = [archival EXCEPT ![a] = [at |-> "idle"]]
           \/ archival' = [archival EXCEPT ![a] = [at |-> "commit"]]
    BY <1>7 DEF ArchiveNotFound, ArchiveUnchanged, Finished, storeVars
  <2>2. Fresh' /\ Alone'
    BY <1>2, <1>3, <1>4, <1>5, <2>1, FreshAfterEnd
  <2> QED
    BY <2>1, <2>2, SameRowsKept
<1>8. ASSUME ArchiveSelect(a)
      PROVE  Fresh' /\ Alone' /\ rows_kept
  <2>1. PICK now \in Time :
          /\ table' = table /\ tx' = tx
          /\ archival[a].at = "select"
          /\ ~ table[archival[a].number].is_archived
          /\ archival' = [archival EXCEPT ![a] =
               [at |-> "flush", number |-> archival[a].number,
                changes |-> archive_changes(now)]]
    BY <1>8 DEF ArchiveSelect, storeVars, already_archived
  <2>2. InFlight' \subseteq InFlight \cup {a}
    BY <1>2, <1>3, <2>1, InFlightAfter
  <2>3. Alone'
    BY <1>4, <2>1, <2>2 DEF Alone
  <2>4. Fresh'
    BY <1>3, <1>5, <2>1 DEF Fresh
  <2> QED
    BY <2>1, <2>3, <2>4, SameRowsKept
<1>9. ASSUME ArchiveFlush(a)
      PROVE  Fresh' /\ Alone' /\ rows_kept
  <2>1. /\ archival[a].at = "flush"
        /\ tx' = [tx EXCEPT ![a] = [number  |-> archival[a].number,
                                    changes |-> archival[a].changes]]
        /\ archival' = [archival EXCEPT ![a] = [at |-> "commit"]]
        /\ table' = table
    BY <1>9 DEF ArchiveFlush, Flush
  <2>2. InFlight' \subseteq InFlight \cup {a}
    BY <1>2, <1>3, <2>1, InFlightAfter
  <2>3. Alone'
    BY <1>4, <2>1, <2>2 DEF Alone
  <2>4. Fresh'
    BY <1>2, <1>3, <2>1 DEF Fresh
  <2> QED
    BY <2>1, <2>3, <2>4, SameRowsKept
<1>10. ASSUME ArchiveCommit(a)
       PROVE  Fresh' /\ Alone' /\ rows_kept
  <2>1. /\ Commit(a)
        /\ archival[a].at = "commit"
        /\ tx' = [tx EXCEPT ![a] = None]
        /\ archival' = [archival EXCEPT ![a] = [at |-> "idle"]]
    BY <1>10 DEF ArchiveCommit, Commit, Finished
  <2>2. Fresh' /\ Alone'
    BY <1>2, <1>3, <1>4, <2>1, FreshAfterEnd
  <2> QED
    BY <1>2, <2>1, <2>2, CommitKeeps
<1>11. ASSUME ArchiveFail(a)
       PROVE  Fresh' /\ Alone' /\ rows_kept
  <2>1. /\ table' = table
        /\ archival[a].at # "idle"
        /\ tx' = [tx EXCEPT ![a] = None]
        /\ archival' = [archival EXCEPT ![a] = [at |-> "idle"]]
    BY <1>11 DEF ArchiveFail, Rollback, Finished
  <2>2. Fresh' /\ Alone'
    BY <1>2, <1>3, <1>4, <2>1, FreshAfterEnd
  <2> QED
    BY <2>1, <2>2, SameRowsKept
<1> QED
  BY <1>6, <1>7, <1>8, <1>9, <1>10, <1>11 DEF ArchiveStep

\* Every step, where requests do not overlap.
LEMMA StepAlone ==
  ASSUME MaxInFlight = 1, MigrationIInv, Fresh, Alone, MigrationNext
  PROVE  Fresh' /\ Alone' /\ (version' < version \/ rows_kept)
<1>1. CASE Request
  BY <1>1, RedactorAlone, ArchiverAlone DEF Request
<1>2. CASE AppendRequest
  <2>1. PICK e \in Event : AppendEvent(e) /\ UNCHANGED <<redaction, archival>>
    BY <1>2 DEF AppendRequest
  <2>2. PICK i \in Time :
          table' = inserted(table, new_entry(next_sequence_number(table),
                                             tail_hash(table), e, utc(i)))
    BY <2>1 DEF AppendEvent
  <2>3. \A s \in DOMAIN table : table'[s] = table[s]
    <3> DEFINE x == new_entry(next_sequence_number(table), tail_hash(table), e, utc(i))
    <3>1. chained(table, Event, Time)
      BY DEF MigrationIInv
    <3>2. table' = inserted(table, x)
      BY <2>2
    <3>3. extends_by(table', table, x)
      BY <3>1, <3>2, InsertedIsChained
    <3> HIDE DEF x
    <3> QED
      BY <3>3 DEF extends_by
  <2>4. /\ \A r \in Redactor : redaction[r].at = "flush" => redaction[r].number \in DOMAIN table
        /\ \A r \in Redactor : tx[r] # None => tx[r].number \in DOMAIN table
        /\ \A a \in Archiver : archival[a].at = "flush" => archival[a].number \in DOMAIN table
        /\ \A a \in Archiver : tx[a] # None => tx[a].number \in DOMAIN table
    BY DEF MigrationIInv, RequestsAccounted, pending_redaction, pending_archival
  <2>5. UNCHANGED <<tx, redaction, archival>>
    BY <2>1 DEF AppendEvent
  <2>6. Fresh'
    BY <2>3, <2>4, <2>5 DEF Fresh, fresh_redaction
  <2>7. Alone'
    BY <2>5 DEF Alone, InFlight
  <2> QED
    BY <2>3, <2>6, <2>7, SameRowsKept
<1>3. CASE Startup
  <2>1. UNCHANGED <<table, tx, redaction, archival>>
    BY <1>3 DEF Startup
  <2>2. Fresh' /\ Alone'
    BY <2>1 DEF Fresh, Alone, InFlight
  <2> QED
    BY <2>1, <2>2, SameRowsKept
<1>4. CASE UpgradeHead \/ Downgrade
  <2>1. Quiet /\ UNCHANGED <<tx, redaction, archival>>
    BY <1>4 DEF UpgradeHead, Downgrade
  <2>2. /\ \A r \in Redactor : redaction[r].at # "flush" /\ tx[r] = None
        /\ \A a \in Archiver : archival[a].at # "flush" /\ tx[a] = None
    BY <2>1 DEF Quiet, MigrationIInv, RequestsAccounted
  <2>3. Fresh' /\ Alone'
    BY <2>1, <2>2 DEF Fresh, Alone, InFlight
  <2>4. CASE UpgradeHead
    <3>1. \A s \in DOMAIN table : table'[s] = table[s]
      BY <2>4 DEF UpgradeHead, upgraded
    <3> QED
      BY <2>3, <3>1, SameRowsKept
  <2>5. CASE Downgrade
    <3>1. version \in 0 .. 3 /\ version' = version - 1
      BY <2>5 DEF Downgrade, MigrationIInv, SchemaTypeOK, head
    <3>2. version' < version
      BY <3>1
    <3> QED
      BY <2>3, <3>2
  <2> QED
    BY <1>4, <2>4, <2>5
<1> QED
  BY <1>1, <1>2, <1>3, <1>4 DEF MigrationNext

LEMMA InitAlone == MigrationInit => Fresh /\ Alone
<1> SUFFICES ASSUME MigrationInit PROVE Fresh /\ Alone
  OBVIOUS
<1>1. /\ tx = [s \in Session |-> None]
      /\ redaction = [r \in Redactor |-> [at |-> "idle"]]
      /\ archival = [a \in Archiver |-> [at |-> "idle"]]
  BY DEF MigrationInit, Init, StoreInit, RedactionInit, RetentionInit
<1>2. /\ \A r \in Redactor : tx[r] = None /\ redaction[r].at = "idle"
      /\ \A a \in Archiver : tx[a] = None /\ archival[a].at = "idle"
  BY <1>1, SessionAssumption
<1> QED
  BY <1>2 DEF Fresh, Alone, InFlight

\* One request at a time keeps all the promises that the races break, whatever
\* migrations there are, but for what a downgrade drops.
LEMMA KeptAlone ==
  ASSUME MaxInFlight = 1
  PROVE  MigrationSpec => RedactionsSurvive /\ ArchivedStaysFrozen /\ ArchivedAtSurvives
<1>1. Fresh /\ Alone /\ MigrationIInv /\ [MigrationNext]_migrationVars => Fresh' /\ Alone'
  <2>1. ASSUME Fresh, Alone, UNCHANGED migrationVars
        PROVE  Fresh' /\ Alone'
    BY <2>1 DEF migrationVars, Fresh, Alone, InFlight
  <2> QED
    BY <2>1, StepAlone
<1>2. Fresh /\ Alone /\ MigrationIInv /\ [MigrationNext]_migrationVars =>
        /\ [version' < version \/ redactions_stick]_migrationVars
        /\ [version' < version \/ archived_frozen]_migrationVars
        /\ [version' < version \/ archived_at_kept]_migrationVars
  <2>1. rows_kept => redactions_stick /\ archived_frozen /\ archived_at_kept
    BY DEF rows_kept, redactions_stick, archived_frozen, archived_at_kept
  <2> QED
    BY <2>1, StepAlone
<1> QED
  BY <1>1, <1>2, InitAlone, MigrationInvariance, PTL
     DEF MigrationSpec, RedactionsSurvive, ArchivedStaysFrozen,
         ArchivedAtSurvives

\* A redaction that was answered is never undone by another request, where
\* redactions and archivals do not overlap (redaction_service.py:40-117).
THEOREM RedactionsKeptAlone ==
  ASSUME MaxInFlight = 1
  PROVE  MigrationSpec => RedactionsSurvive
BY KeptAlone

\* An archived entry is not redacted any more, where redactions and archivals do
\* not overlap (redaction_service.py:47, retention_service.py:50-53).
THEOREM ArchivedFrozenAlone ==
  ASSUME MaxInFlight = 1
  PROVE  MigrationSpec => ArchivedStaysFrozen
BY KeptAlone

\* archived_at keeps its first value, where redactions and archivals do not
\* overlap (retention_service.py:47-53).
THEOREM ArchivedAtKeptAlone ==
  ASSUME MaxInFlight = 1
  PROVE  MigrationSpec => ArchivedAtSurvives
BY KeptAlone

=============================================================================
