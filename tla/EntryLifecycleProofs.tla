------------------------ MODULE EntryLifecycleProofs ------------------------
(***************************************************************************)
(* Proofs about EntryLifecycle, for any number of redactors, archivers and *)
(* entries, any payloads and any clock, on both databases.                 *)
(***************************************************************************)
EXTENDS EntryLifecycle, AuditEntryProofs

-----------------------------------------------------------------------------
(* What a redaction does to the evidence.                                  *)

\* The payload that was hashed is the one its hash names.
LEMMA OriginalOfHash ==
  ASSUME NEW p \in Payload
  PROVE  original(hash_payload(p)) = p
<1>1. \A q : hash_payload(q) = hash_payload(p) => q = p
  BY DEF hash_payload
<1>2. hash_payload(original(hash_payload(p))) = hash_payload(p)
  BY DEF original
<1> QED
  BY <1>1, <1>2

\* The new payload and map account for what the old ones accounted for: a
\* redactable field has a value, so it has no proof yet and that value is the
\* one that was posted.
LEMMA RedactionAccounts ==
  ASSUME NEW row, NEW from, NEW fields,
         accounts_for(row.payload, row.redacted_fields, from)
  PROVE  LET fs == Redactable(row, fields)
         IN  accounts_for(redacted_payload(row, fs), redacted_map(row, fs), from)
<1> DEFINE fs == Redactable(row, fields)
           p  == redacted_payload(row, fs)
           m  == redacted_map(row, fs)
<1>1. /\ DOMAIN row.payload = DOMAIN from
      /\ DOMAIN row.redacted_fields \subseteq DOMAIN from
      /\ \A f \in DOMAIN from :
           IF f \in DOMAIN row.redacted_fields
           THEN /\ row.payload[f] = None
                /\ from[f] # None
                /\ row.redacted_fields[f] = hash_field_value(f, from[f])
           ELSE row.payload[f] = from[f]
  BY DEF accounts_for
<1>2. /\ fs \subseteq DOMAIN from
      /\ \A f \in fs : row.payload[f] # None
  BY <1>1 DEF Redactable
<1>3. /\ DOMAIN p = DOMAIN from
      /\ \A f \in DOMAIN from : p[f] = IF f \in fs THEN None ELSE row.payload[f]
  BY <1>1 DEF redacted_payload
<1>4. /\ DOMAIN m = DOMAIN row.redacted_fields \cup fs
      /\ \A f \in DOMAIN m :
           m[f] = IF f \in fs THEN hash_field_value(f, row.payload[f])
                  ELSE row.redacted_fields[f]
  BY DEF redacted_map
<1> HIDE DEF fs, p, m
<1>5. ASSUME NEW f \in DOMAIN from
      PROVE  IF f \in DOMAIN m
             THEN /\ p[f] = None
                  /\ from[f] # None
                  /\ m[f] = hash_field_value(f, from[f])
             ELSE p[f] = from[f]
  <2>1. CASE f \in fs
    BY <1>1, <1>2, <1>3, <1>4, <2>1
  <2>2. CASE f \notin fs
    BY <1>1, <1>3, <1>4, <2>2
  <2> QED
    BY <2>1, <2>2
<1>6. accounts_for(p, m, from)
  BY <1>1, <1>2, <1>3, <1>4, <1>5 DEF accounts_for
<1> QED
  BY <1>6 DEF fs, p, m

-----------------------------------------------------------------------------
(* What a row is after an INSERT and after an UPDATE.                      *)

\* An UPDATE of other columns keeps the fixed ones.
LEMMA UpdatedKeepsFixed ==
  ASSUME NEW row, DOMAIN row = EntryField, NEW changes,
         DOMAIN changes \subseteq
           {"payload", "redacted_fields", "is_archived", "archived_at"}
  PROVE  fixed(updated(row, changes)) = fixed(row)
BY DEF updated, fixed, EntryField

\* A row as append writes it is well formed and has nothing to account for.
LEMMA NewRow ==
  ASSUME NEW n, NEW h, NEW e \in Event, NEW now
  PROVE  LET row == as_stored(new_entry(n, h, e, now))
         IN  RowOK(row) /\ evident(row)
<1> DEFINE row == as_stored(new_entry(n, h, e, now))
<1>1. /\ DOMAIN row = EntryField
      /\ row.is_archived = FALSE
      /\ row.archived_at = None
      /\ row.payload = e.payload
      /\ row.redacted_fields = << >>
      /\ row.payload_hash = hash_payload(e.payload)
  BY DEF new_entry, as_stored, EntryField
<1>2. original(row.payload_hash) = e.payload
  BY <1>1, OriginalOfHash DEF Event
<1>3. accounts_for(e.payload, << >>, e.payload)
  BY DEF accounts_for
<1> QED
  BY <1>1, <1>2, <1>3 DEF RowOK, evident

\* The UPDATE of a redaction.
LEMMA RedactedRow ==
  ASSUME NEW t, NEW n, NEW changes, PendingRedaction(t, n, changes),
         RowOK(t[n])
  PROVE  LET row == updated(t[n], changes)
         IN  /\ RowOK(row)
             /\ evident(row)
             /\ fixed(row) = fixed(t[n])
             /\ row.is_archived = t[n].is_archived
<1> DEFINE row == updated(t[n], changes)
<1>1. DOMAIN changes = {"payload", "redacted_fields"} /\ DOMAIN t[n] = EntryField
  BY DEF PendingRedaction, RowOK
<1>2. /\ DOMAIN row = EntryField
      /\ row.is_archived = t[n].is_archived
      /\ row.archived_at = t[n].archived_at
      /\ row.payload_hash = t[n].payload_hash
      /\ row.payload = changes.payload
      /\ row.redacted_fields = changes.redacted_fields
  BY <1>1 DEF updated, EntryField
<1>3. fixed(row) = fixed(t[n])
  BY <1>1, UpdatedKeepsFixed
<1>4. RowOK(row)
  BY <1>2 DEF RowOK
<1>5. evident(row)
  BY <1>2 DEF evident, PendingRedaction
<1> QED
  BY <1>2, <1>3, <1>4, <1>5

\* The UPDATE of an archival.
LEMMA ArchivedRow ==
  ASSUME NEW t, NEW n, NEW changes, PendingArchival(t, n, changes),
         RowOK(t[n]), evident(t[n])
  PROVE  LET row == updated(t[n], changes)
         IN  /\ RowOK(row)
             /\ evident(row)
             /\ fixed(row) = fixed(t[n])
             /\ row.is_archived
<1> DEFINE row == updated(t[n], changes)
<1>1. DOMAIN changes = {"is_archived", "archived_at"} /\ DOMAIN t[n] = EntryField
  BY DEF PendingArchival, RowOK
<1>2. /\ DOMAIN row = EntryField
      /\ row.is_archived = changes.is_archived
      /\ row.archived_at = changes.archived_at
      /\ row.payload_hash = t[n].payload_hash
      /\ row.payload = t[n].payload
      /\ row.redacted_fields = t[n].redacted_fields
  BY <1>1 DEF updated, EntryField
<1>3. fixed(row) = fixed(t[n])
  BY <1>1, UpdatedKeepsFixed
<1>4. RowOK(row) /\ row.is_archived
  BY <1>2 DEF RowOK, PendingArchival
<1>5. evident(row)
  BY <1>2 DEF evident
<1> QED
  BY <1>3, <1>4, <1>5

\* What a redactor computes from the row it selects.
LEMMA SelectedRedaction ==
  ASSUME NEW t, NEW n \in DOMAIN t, evident(t[n]), NEW fields
  PROVE  PendingRedaction(t, n,
           redaction_changes(t[n], Redactable(t[n], fields)))
<1> DEFINE changes == redaction_changes(t[n], Redactable(t[n], fields))
<1>1. /\ DOMAIN changes = {"payload", "redacted_fields"}
      /\ changes.payload = redacted_payload(t[n], Redactable(t[n], fields))
      /\ changes.redacted_fields = redacted_map(t[n], Redactable(t[n], fields))
  BY DEF redaction_changes
<1>2. accounts_for(changes.payload, changes.redacted_fields,
                   original(t[n].payload_hash))
  BY <1>1, RedactionAccounts DEF evident
<1> HIDE DEF changes
<1>3. PendingRedaction(t, n, changes)
  BY <1>1, <1>2 DEF PendingRedaction, changes
<1> QED
  BY <1>3 DEF changes

\* What an archiver computes.
LEMMA SelectedArchival ==
  ASSUME NEW t, NEW n \in DOMAIN t, NEW now \in Time
  PROVE  PendingArchival(t, n, archive_changes(now))
BY DEF PendingArchival, archive_changes, ArchivedTime

\* What is computed but not committed stays right while the table grows and
\* other columns than the fixed ones change.
LEMMA PendingKept ==
  ASSUME NEW t, NEW u, DOMAIN t \subseteq DOMAIN u,
         \A s \in DOMAIN t : fixed(u[s]) = fixed(t[s]),
         NEW n, NEW changes
  PROVE  /\ PendingRedaction(t, n, changes) => PendingRedaction(u, n, changes)
         /\ PendingArchival(t, n, changes) => PendingArchival(u, n, changes)
<1>1. n \in DOMAIN t => n \in DOMAIN u /\ u[n].payload_hash = t[n].payload_hash
  BY DEF fixed
<1> QED
  BY <1>1 DEF PendingRedaction, PendingArchival

-----------------------------------------------------------------------------
(* The inductive invariant.                                                *)

\* What the invariant says of the table alone, and what each step does to it.
good(t) ==
  /\ chained(t, Event, Time)
  /\ \A s \in DOMAIN t : RowOK(t[s]) /\ evident(t[s])

keeps(t, u) ==
  /\ DOMAIN t \subseteq DOMAIN u
  /\ \A s \in DOMAIN t : fixed(u[s]) = fixed(t[s])
  /\ \A s \in DOMAIN t : t[s].is_archived => u[s].is_archived

\* What it says of the requests alone.
Requests ==
  /\ DOMAIN tx = Session
  /\ DOMAIN redaction = Redactor
  /\ \A r \in Redactor : redaction[r].at \in {"idle", "select", "flush", "commit"}
  /\ DOMAIN archival = Archiver
  /\ \A a \in Archiver : archival[a].at \in {"idle", "select", "flush", "commit"}

\* The invariant is these two and what is pending.
LEMMA Parts == IInv <=> good(table) /\ Requests /\ Pending
BY DEF IInv, TypeOK, RedactionEvidence, good, Requests

\* An append keeps the table good.
LEMMA AppendKeepsGood ==
  ASSUME NEW t, good(t), NEW e \in Event, NEW i \in Time
  PROVE  LET u == inserted(t, new_entry(next_sequence_number(t),
                                        tail_hash(t), e, utc(i)))
         IN  good(u) /\ keeps(t, u)
<1> DEFINE x == new_entry(next_sequence_number(t), tail_hash(t), e, utc(i))
           u == inserted(t, x)
<1>1. chained(t, Event, Time) /\ \A s \in DOMAIN t : RowOK(t[s]) /\ evident(t[s])
  BY DEF good
<1>2. chained(u, Event, Time) /\ extends_by(u, t, x)
  BY <1>1, InsertedIsChained
<1>3. RowOK(as_stored(x)) /\ evident(as_stored(x))
  BY NewRow
<1> HIDE DEF u, x
<1>4. /\ DOMAIN u = DOMAIN t \cup {x.sequence_number}
      /\ \A s \in DOMAIN t : u[s] = t[s]
      /\ u[x.sequence_number] = as_stored(x)
  BY <1>2 DEF extends_by
<1>5. good(u)
  BY <1>1, <1>2, <1>3, <1>4 DEF good
<1>6. keeps(t, u)
  BY <1>4 DEF keeps
<1> QED
  BY <1>5, <1>6 DEF u, x

\* So does a row that is replaced by a good one with the same fixed columns.
LEMMA ReplaceKeepsGood ==
  ASSUME NEW t, good(t), NEW n \in DOMAIN t, NEW row,
         RowOK(row), evident(row), fixed(row) = fixed(t[n]),
         t[n].is_archived => row.is_archived
  PROVE  LET u == [t EXCEPT ![n] = row]
         IN  good(u) /\ keeps(t, u) /\ DOMAIN u = DOMAIN t
<1> DEFINE u == [t EXCEPT ![n] = row]
<1>1. /\ DOMAIN u = DOMAIN t
      /\ \A s \in DOMAIN t : u[s] = IF s = n THEN row ELSE t[s]
  OBVIOUS
<1> HIDE DEF u
<1>2. \A s \in DOMAIN t : fixed(u[s]) = fixed(t[s])
  BY <1>1
<1>3. chained(u, Event, Time)
  BY <1>1, <1>2, FixedKeepsChained DEF good
<1>4. good(u)
  BY <1>1, <1>3 DEF good
<1>5. keeps(t, u)
  BY <1>1, <1>2 DEF keeps
<1> QED
  BY <1>1, <1>4, <1>5 DEF u

\* A commit keeps the table good, whatever was flushed.
LEMMA CommitKeepsGood ==
  ASSUME IInv, NEW s \in Session, Commit(s)
  PROVE  good(table') /\ keeps(table, table') /\ DOMAIN table' = DOMAIN table
<1>1. good(table) /\ Pending
  BY Parts
<1>2. CASE tx[s] = None
  <2>1. table' = table
    BY <1>2 DEF Commit
  <2> QED
    BY <1>1, <2>1 DEF keeps
<1>3. CASE tx[s] # None
  <2> DEFINE n == tx[s].number
             row == updated(table[n], tx[s].changes)
  <2>1. table' = [table EXCEPT ![n] = row]
    BY <1>3 DEF Commit
  <2>2. /\ n \in DOMAIN table
        /\ RowOK(row) /\ evident(row) /\ fixed(row) = fixed(table[n])
        /\ table[n].is_archived => row.is_archived
    <3>1. CASE s \in Redactor
      <4>1. PendingRedaction(table, n, tx[s].changes)
        BY <1>1, <1>3, <3>1 DEF Pending
      <4>2. n \in DOMAIN table /\ RowOK(table[n])
        BY <1>1, <4>1 DEF PendingRedaction, good
      <4> QED
        BY <4>1, <4>2, RedactedRow
    <3>2. CASE s \in Archiver
      <4>1. PendingArchival(table, n, tx[s].changes)
        BY <1>1, <1>3, <3>2 DEF Pending
      <4>2. n \in DOMAIN table /\ RowOK(table[n]) /\ evident(table[n])
        BY <1>1, <4>1 DEF PendingArchival, good
      <4> QED
        BY <4>1, <4>2, ArchivedRow
    <3> QED
      BY <3>1, <3>2, SessionAssumption
  <2> HIDE DEF n, row
  <2> QED
    BY <1>1, <2>1, <2>2, ReplaceKeepsGood
<1> QED
  BY <1>2, <1>3

\* While only other columns than the fixed ones change, what is pending stays
\* right.
LEMMA PendingStays ==
  ASSUME Pending, keeps(table, table')
  PROVE  /\ \A r \in Redactor :
              /\ redaction[r].at = "flush" =>
                   PendingRedaction(table', redaction[r].number, redaction[r].changes)
              /\ tx[r] # None => PendingRedaction(table', tx[r].number, tx[r].changes)
         /\ \A a \in Archiver :
              /\ archival[a].at = "flush" =>
                   PendingArchival(table', archival[a].number, archival[a].changes)
              /\ tx[a] # None => PendingArchival(table', tx[a].number, tx[a].changes)
<1>1. /\ DOMAIN table \subseteq DOMAIN table'
      /\ \A s \in DOMAIN table : fixed(table'[s]) = fixed(table[s])
  BY DEF keeps
<1> QED
  BY <1>1, PendingKept DEF Pending

\* The invariant holds of the empty table with no request under way.
LEMMA InitIInv == Init => IInv
<1> SUFFICES ASSUME Init
             PROVE  IInv
  OBVIOUS
<1> USE DEF Init, StoreInit, RedactionInit, RetentionInit
<1>1. good(table)
  BY DEF good, chained
<1>2. Requests
  BY DEF Requests
<1>3. Pending
  BY RedactorAssumption, ArchiverAssumption DEF Pending
<1> QED
  BY <1>1, <1>2, <1>3, Parts

\* The invariant again after a step, from its parts.
LEMMA PartsPrimed == good(table') /\ Requests' /\ Pending' => IInv'
BY DEF IInv, TypeOK, RedactionEvidence, good, Requests

\* An append preserves the invariant and every row.
LEMMA AppendIInv ==
  ASSUME IInv, NEW e \in Event, AppendEvent(e), UNCHANGED <<redaction, archival>>
  PROVE  IInv' /\ keeps(table, table')
<1>1. good(table) /\ Requests /\ Pending
  BY Parts
<1>2. good(table') /\ keeps(table, table')
  <2>1. PICK i \in Time :
          table' = inserted(table, new_entry(next_sequence_number(table),
                                             tail_hash(table), e, utc(i)))
    BY DEF AppendEvent
  <2> QED
    BY <1>1, <2>1, AppendKeepsGood
<1>3. UNCHANGED <<tx, redaction, archival>>
  BY DEF AppendEvent
<1>4. Requests'
  BY <1>1, <1>3 DEF Requests
<1>5. Pending'
  BY <1>1, <1>2, <1>3, PendingStays DEF Pending
<1> QED
  BY <1>2, <1>4, <1>5, PartsPrimed

\* A step that leaves the table and the UPDATEs alone, and whose requests at
\* "flush" were there before or are right.
LEMMA RequestStep ==
  ASSUME IInv, UNCHANGED storeVars, Requests',
         \A r \in Redactor : redaction'[r].at = "flush" =>
           \/ redaction'[r] = redaction[r]
           \/ PendingRedaction(table, redaction'[r].number, redaction'[r].changes),
         \A a \in Archiver : archival'[a].at = "flush" =>
           \/ archival'[a] = archival[a]
           \/ PendingArchival(table, archival'[a].number, archival'[a].changes)
  PROVE  IInv'
<1>1. good(table) /\ Pending
  BY Parts
<1>2. table' = table /\ tx' = tx
  BY DEF storeVars
<1>3. Pending'
  BY <1>1, <1>2 DEF Pending
<1> QED
  BY <1>1, <1>2, <1>3, PartsPrimed

\* Every step of a redactor preserves the invariant and the fixed columns.
LEMMA RedactorIInv ==
  ASSUME IInv, NEW r \in Redactor, UNCHANGED archival,
         \/ \E number \in Number, fields \in SUBSET Field \ {{}} :
              Redact(r, number, fields)
         \/ RedactStep(r)
         \/ RedactFail(r)
  PROVE  IInv' /\ keeps(table, table')
<1>1. good(table) /\ Requests /\ Pending
  BY Parts
<1>2. r \in Session /\ r \notin Archiver
  BY SessionAssumption
<1>3. ASSUME UNCHANGED table
      PROVE  keeps(table, table')
  BY <1>3 DEF keeps
<1>4. ASSUME NEW number \in Number, NEW fields \in SUBSET Field \ {{}},
             Redact(r, number, fields)
      PROVE  IInv' /\ keeps(table, table')
  <2> USE <1>4 DEF Redact
  <2>1. Requests'
    BY <1>1 DEF Requests, storeVars
  <2> QED
    BY <1>1, <1>3, <2>1, RequestStep DEF Requests, storeVars
<1>5. ASSUME RedactNotFound(r) \/ RedactRefused(r)
      PROVE  IInv' /\ keeps(table, table')
  <2>1. UNCHANGED storeVars /\ redaction' = [redaction EXCEPT ![r] = [at |-> "idle"]]
    BY <1>5 DEF RedactNotFound, RedactRefused, Ended
  <2>2. Requests'
    BY <1>1, <2>1 DEF Requests, storeVars
  <2> QED
    BY <1>1, <1>3, <2>1, <2>2, RequestStep DEF Requests, storeVars
<1>6. ASSUME RedactSelect(r)
      PROVE  IInv' /\ keeps(table, table')
  <2> DEFINE n  == redaction[r].number
             fs == Redactable(table[n], redaction[r].fields)
  <2>1. /\ UNCHANGED storeVars
        /\ n \in DOMAIN table
        /\ redaction' = [redaction EXCEPT ![r] =
             IF fs = {} THEN [at |-> "commit"]
             ELSE [at |-> "flush", number |-> n,
                   changes |-> redaction_changes(table[n], fs)]]
    BY <1>6 DEF RedactSelect
  <2>2. PendingRedaction(table, n, redaction_changes(table[n], fs))
    BY <1>1, <2>1, SelectedRedaction DEF good
  <2> HIDE DEF n, fs
  <2>3. Requests'
    BY <1>1, <2>1 DEF Requests, storeVars
  <2> QED
    BY <1>1, <1>3, <2>1, <2>2, <2>3, RequestStep DEF Requests, storeVars
<1>7. ASSUME RedactFlush(r)
      PROVE  IInv' /\ keeps(table, table')
  <2>1. /\ redaction[r].at = "flush"
        /\ tx' = [tx EXCEPT ![r] = [number  |-> redaction[r].number,
                                    changes |-> redaction[r].changes]]
        /\ redaction' = [redaction EXCEPT ![r] = [at |-> "commit"]]
        /\ UNCHANGED table
    BY <1>7 DEF RedactFlush, Flush
  <2>2. Requests'
    BY <1>1, <2>1 DEF Requests
  <2>3. Pending'
    BY <1>1, <1>2, <2>1, SessionAssumption DEF Pending, Requests
  <2> QED
    BY <1>1, <1>3, <2>1, <2>2, <2>3, PartsPrimed
<1>8. ASSUME RedactCommit(r)
      PROVE  IInv' /\ keeps(table, table')
  <2>1. /\ Commit(r)
        /\ tx' = [tx EXCEPT ![r] = None]
        /\ redaction' = [redaction EXCEPT ![r] = [at |-> "idle"]]
    BY <1>8 DEF RedactCommit, Commit, Ended
  <2>2. good(table') /\ keeps(table, table')
    BY <1>2, <2>1, CommitKeepsGood
  <2>3. Requests'
    BY <1>1, <2>1 DEF Requests
  <2>4. Pending'
    BY <1>1, <1>2, <2>1, <2>2, PendingStays, SessionAssumption DEF Pending, Requests
  <2> QED
    BY <2>2, <2>3, <2>4, PartsPrimed
<1>9. ASSUME RedactFail(r)
      PROVE  IInv' /\ keeps(table, table')
  <2>1. /\ UNCHANGED table
        /\ tx' = [tx EXCEPT ![r] = None]
        /\ redaction' = [redaction EXCEPT ![r] = [at |-> "idle"]]
    BY <1>9 DEF RedactFail, Rollback, Ended
  <2>2. Requests'
    BY <1>1, <2>1 DEF Requests
  <2>3. Pending'
    BY <1>1, <1>2, <2>1, SessionAssumption DEF Pending, Requests
  <2> QED
    BY <1>1, <1>3, <2>1, <2>2, <2>3, PartsPrimed
<1> QED
  BY <1>4, <1>5, <1>6, <1>7, <1>8, <1>9 DEF RedactStep

\* Every step of an archiver preserves the invariant and the fixed columns.
LEMMA ArchiverIInv ==
  ASSUME IInv, NEW a \in Archiver, UNCHANGED redaction,
         \/ \E number \in Number : Archive(a, number)
         \/ ArchiveStep(a)
         \/ ArchiveFail(a)
  PROVE  IInv' /\ keeps(table, table')
<1>1. good(table) /\ Requests /\ Pending
  BY Parts
<1>2. a \in Session /\ a \notin Redactor
  BY SessionAssumption
<1>3. ASSUME UNCHANGED table
      PROVE  keeps(table, table')
  BY <1>3 DEF keeps
<1>4. ASSUME NEW number \in Number, Archive(a, number)
      PROVE  IInv' /\ keeps(table, table')
  <2> USE <1>4 DEF Archive
  <2>1. Requests'
    BY <1>1 DEF Requests, storeVars
  <2> QED
    BY <1>1, <1>3, <2>1, RequestStep DEF Requests, storeVars
<1>5. ASSUME ArchiveNotFound(a) \/ ArchiveUnchanged(a)
      PROVE  IInv' /\ keeps(table, table')
  <2>1. /\ UNCHANGED storeVars
        /\ \/ archival' = [archival EXCEPT ![a] = [at |-> "idle"]]
           \/ archival' = [archival EXCEPT ![a] = [at |-> "commit"]]
    BY <1>5 DEF ArchiveNotFound, ArchiveUnchanged, Finished
  <2>2. Requests'
    BY <1>1, <2>1 DEF Requests, storeVars
  <2> QED
    BY <1>1, <1>3, <2>1, <2>2, RequestStep DEF Requests, storeVars
<1>6. ASSUME ArchiveSelect(a)
      PROVE  IInv' /\ keeps(table, table')
  <2> DEFINE n == archival[a].number
  <2>1. PICK now \in Time :
          archival' = [archival EXCEPT ![a] =
            [at |-> "flush", number |-> n, changes |-> archive_changes(now)]]
    BY <1>6 DEF ArchiveSelect
  <2>2. UNCHANGED storeVars /\ n \in DOMAIN table
    BY <1>6 DEF ArchiveSelect
  <2>3. PendingArchival(table, n, archive_changes(now))
    BY <2>2, SelectedArchival
  <2> HIDE DEF n
  <2>4. Requests'
    BY <1>1, <2>1, <2>2 DEF Requests, storeVars
  <2> QED
    BY <1>1, <1>3, <2>1, <2>2, <2>3, <2>4, RequestStep DEF Requests, storeVars
<1>7. ASSUME ArchiveFlush(a)
      PROVE  IInv' /\ keeps(table, table')
  <2>1. /\ archival[a].at = "flush"
        /\ tx' = [tx EXCEPT ![a] = [number  |-> archival[a].number,
                                    changes |-> archival[a].changes]]
        /\ archival' = [archival EXCEPT ![a] = [at |-> "commit"]]
        /\ UNCHANGED table
    BY <1>7 DEF ArchiveFlush, Flush
  <2>2. Requests'
    BY <1>1, <2>1 DEF Requests
  <2>3. Pending'
    BY <1>1, <1>2, <2>1, SessionAssumption DEF Pending, Requests
  <2> QED
    BY <1>1, <1>3, <2>1, <2>2, <2>3, PartsPrimed
<1>8. ASSUME ArchiveCommit(a)
      PROVE  IInv' /\ keeps(table, table')
  <2>1. /\ Commit(a)
        /\ tx' = [tx EXCEPT ![a] = None]
        /\ archival' = [archival EXCEPT ![a] = [at |-> "idle"]]
    BY <1>8 DEF ArchiveCommit, Commit, Finished
  <2>2. good(table') /\ keeps(table, table')
    BY <1>2, <2>1, CommitKeepsGood
  <2>3. Requests'
    BY <1>1, <2>1 DEF Requests
  <2>4. Pending'
    BY <1>1, <1>2, <2>1, <2>2, PendingStays, SessionAssumption DEF Pending, Requests
  <2> QED
    BY <2>2, <2>3, <2>4, PartsPrimed
<1>9. ASSUME ArchiveFail(a)
      PROVE  IInv' /\ keeps(table, table')
  <2>1. /\ UNCHANGED table
        /\ tx' = [tx EXCEPT ![a] = None]
        /\ archival' = [archival EXCEPT ![a] = [at |-> "idle"]]
    BY <1>9 DEF ArchiveFail, Rollback, Finished
  <2>2. Requests'
    BY <1>1, <2>1 DEF Requests
  <2>3. Pending'
    BY <1>1, <1>2, <2>1, SessionAssumption DEF Pending, Requests
  <2> QED
    BY <1>1, <1>3, <2>1, <2>2, <2>3, PartsPrimed
<1> QED
  BY <1>4, <1>5, <1>6, <1>7, <1>8, <1>9 DEF ArchiveStep

\* Every step keeps the invariant, the fixed columns and the archive flags.
LEMMA NextIInv ==
  ASSUME IInv, [Next]_vars
  PROVE  IInv' /\ keeps(table, table')
<1>1. CASE \E e \in Event : AppendEvent(e) /\ UNCHANGED <<redaction, archival>>
  BY <1>1, AppendIInv
<1>2. CASE UNCHANGED vars
  <2>1. IInv'
    BY <1>2 DEF vars, IInv, TypeOK, RedactionEvidence, Pending
  <2>2. keeps(table, table')
    BY <1>2 DEF vars, keeps
  <2> QED
    BY <2>1, <2>2
<1> QED
  BY <1>1, <1>2, RedactorIInv, ArchiverIInv DEF Next

-----------------------------------------------------------------------------
\* The invariant holds in every state of every behaviour, on both databases.
THEOREM Invariance == Spec => []IInv
<1>1. IInv /\ [Next]_vars => IInv'
  BY NextIInv
<1> QED
  BY InitIInv, <1>1, PTL DEF Spec

\* The state keeps its shape; a row has an archived_at exactly when archived.
THEOREM TypeCorrect == Spec => []TypeOK
<1>1. IInv => TypeOK
  BY DEF IInv
<1> QED
  BY Invariance, <1>1, PTL

\* However redactions overlap, a null in place of a value always has its proof
\* and nothing else of a payload differs from what was posted.
THEOREM EvidenceKept == Spec => []RedactionEvidence
<1>1. IInv => RedactionEvidence
  BY DEF IInv
<1> QED
  BY Invariance, <1>1, PTL

\* Redactions and archivals, overlapping or not, never break the chain.
THEOREM Verifiable == Spec => []StillVerifies
<1>1. IInv => StillVerifies
  BY ChainedVerifies DEF IInv, StillVerifies
<1> QED
  BY Invariance, <1>1, PTL

\* No step of anybody makes an archived row an active one.
THEOREM ArchivedForGood == Spec => ArchiveSticks
<1>1. IInv /\ [Next]_vars =>
        [\A s \in DOMAIN table : table[s].is_archived => table'[s].is_archived]_table
  BY NextIInv DEF keeps
<1> QED
  BY Invariance, <1>1, PTL DEF Spec, ArchiveSticks

\* A step that inserts no row leaves the log as it is.
LEMMA RewriteKeepsLog ==
  ASSUME NEW t, NEW u, keeps(t, u), DOMAIN u = DOMAIN t
  PROVE  recorded_log(u) = recorded_log(t)
BY FixedKeepsLog DEF keeps

\* An append adds an item to the log.
LEMMA AppendRecords ==
  ASSUME IInv, NEW e \in Event, AppendEvent(e)
  PROVE  \E item \in recorded_items(Event, Time) : Chain!Record(item)
<1>1. PICK i \in Time :
        table' = inserted(table, new_entry(next_sequence_number(table),
                                           tail_hash(table), e, utc(i)))
  BY DEF AppendEvent
<1> DEFINE x == new_entry(next_sequence_number(table), tail_hash(table), e, utc(i))
<1>2. chained(table, Event, Time)
  BY DEF IInv
<1>3. chained(inserted(table, x), Event, Time)
        /\ extends_by(inserted(table, x), table, x)
  BY <1>2, InsertedIsChained
<1>4. chained(table', Event, Time) /\ extends_by(table', table, x)
  BY <1>1, <1>3
<1>5. PICK item \in recorded_items(Event, Time) :
        recorded_log(table') = Append(recorded_log(table), item)
  BY <1>2, <1>4, InsertAppends DEF extends_by
<1> QED
  BY <1>5 DEF Chain!Record

\* To the log of ChainLog an append is a record and any other step a stutter.
THEOREM LogKept == Spec => LogUndisturbed
<1>1. Init => Chain!LogInit
  BY DEF Init, StoreInit, recorded_log, Chain!LogInit
<1>2. IInv /\ [Next]_vars => [Chain!LogNext]_(Chain!logVars)
  <2> SUFFICES ASSUME IInv, [Next]_vars
               PROVE  Chain!LogNext \/ recorded_log(table') = recorded_log(table)
    BY DEF Chain!logVars
  <2>1. CASE \E e \in Event : AppendEvent(e)
    BY <2>1, AppendRecords DEF Chain!LogNext
  <2>2. CASE DOMAIN table' = DOMAIN table
    BY <2>2, NextIInv, RewriteKeepsLog
  <2>3. ASSUME NEW s \in Session, Commit(s)
        PROVE  DOMAIN table' = DOMAIN table
    BY <2>3, CommitKeepsGood
  <2> QED
    BY <2>1, <2>2, <2>3, SessionAssumption
    DEF Next, vars, storeVars, Redact, RedactStep, RedactNotFound, RedactRefused,
        RedactSelect, RedactFlush, RedactCommit, RedactFail, Archive, ArchiveStep,
        ArchiveNotFound, ArchiveUnchanged, ArchiveSelect, ArchiveFlush,
        ArchiveCommit, ArchiveFail, Flush, Rollback
<1> QED
  BY Invariance, <1>1, <1>2, PTL DEF Spec, LogUndisturbed, Chain!LogSpec

-----------------------------------------------------------------------------
(* Where the races are.  Two redactors, or two archivers, are needed to    *)
(* undo each other; a redactor and an archiver set different columns.      *)

\* What a commit makes of each row: it sets the two columns of its service in
\* the row that was flushed.
LEMMA CommittedColumns ==
  ASSUME IInv, NEW s \in Session, Commit(s), NEW k \in DOMAIN table
  PROVE  \/ table'[k] = table[k]
         \/ /\ s \in Redactor /\ tx[s] # None /\ tx[s].number = k
            /\ table'[k].payload = tx[s].changes.payload
            /\ table'[k].redacted_fields = tx[s].changes.redacted_fields
            /\ table'[k].is_archived = table[k].is_archived
            /\ table'[k].archived_at = table[k].archived_at
         \/ /\ s \in Archiver /\ tx[s] # None /\ tx[s].number = k
            /\ table'[k].payload = table[k].payload
            /\ table'[k].redacted_fields = table[k].redacted_fields
<1> DEFINE row == updated(table[k], tx[s].changes)
<1>1. \/ table'[k] = table[k]
      \/ tx[s] # None /\ tx[s].number = k /\ table'[k] = row
  BY DEF Commit
<1>2. DOMAIN table[k] = EntryField
  BY DEF IInv, TypeOK, RowOK
<1>3. s \in Redactor \/ s \in Archiver
  BY SessionAssumption
<1>4. CASE s \in Redactor /\ tx[s] # None /\ tx[s].number = k /\ table'[k] = row
  <2>1. DOMAIN tx[s].changes = {"payload", "redacted_fields"}
    BY <1>4 DEF IInv, Pending, PendingRedaction
  <2>2. /\ row.payload = tx[s].changes.payload
        /\ row.redacted_fields = tx[s].changes.redacted_fields
        /\ row.is_archived = table[k].is_archived
        /\ row.archived_at = table[k].archived_at
    BY <1>2, <2>1 DEF updated, EntryField
  <2> HIDE DEF row
  <2> QED
    BY <1>4, <2>2
<1>5. CASE s \in Archiver /\ tx[s] # None /\ tx[s].number = k /\ table'[k] = row
  <2>1. DOMAIN tx[s].changes = {"is_archived", "archived_at"}
    BY <1>5 DEF IInv, Pending, PendingArchival
  <2>2. /\ row.payload = table[k].payload
        /\ row.redacted_fields = table[k].redacted_fields
    BY <1>2, <2>1 DEF updated, EntryField
  <2> HIDE DEF row
  <2> QED
    BY <1>5, <2>2
<1> HIDE DEF row
<1> QED
  BY <1>1, <1>3, <1>4, <1>5

\* A redacted field is null, in the table and in what a redactor would write.
LEMMA ProofMeansNull ==
  ASSUME NEW payload, NEW redacted_fields, NEW from,
         accounts_for(payload, redacted_fields, from), NEW f \in DOMAIN redacted_fields
  PROVE  payload[f] = None
BY DEF accounts_for

\* An append leaves the rows and the UPDATEs as they are.
LEMMA AppendLeaves ==
  ASSUME IInv, NEW e \in Event, AppendEvent(e)
  PROVE  /\ tx' = tx
         /\ DOMAIN table \subseteq DOMAIN table'
         /\ \A s \in DOMAIN table : table'[s] = table[s]
<1>1. PICK i \in Time :
        table' = inserted(table, new_entry(next_sequence_number(table),
                                           tail_hash(table), e, utc(i)))
  BY DEF AppendEvent
<1>2. chained(table, Event, Time) /\ tx' = tx
  BY DEF IInv, AppendEvent
<1> DEFINE x == new_entry(next_sequence_number(table), tail_hash(table), e, utc(i))
<1>3. extends_by(inserted(table, x), table, x)
  BY <1>2, InsertedIsChained
<1> QED
  BY <1>1, <1>2, <1>3 DEF extends_by

\* A step of a redactor leaves the UPDATEs of others alone, and only its commit
\* changes the table.
LEMMA RedactorLeaves ==
  ASSUME IInv, NEW r \in Redactor, UNCHANGED archival,
         \/ \E number \in Number, fields \in SUBSET Field \ {{}} :
              Redact(r, number, fields)
         \/ RedactStep(r)
         \/ RedactFail(r)
  PROVE  /\ \A s \in Session \ {r} : tx'[s] = tx[s]
         /\ \/ table' = table
            \/ Commit(r) /\ DOMAIN table' = DOMAIN table
         /\ Requests'
<1>1. r \in Session /\ Requests
  BY SessionAssumption, Parts
<1>2. IInv'
  BY RedactorIInv
<1>3. Requests'
  BY <1>2 DEF IInv, TypeOK, Requests
<1>4. \A s \in Session \ {r} : tx'[s] = tx[s]
  BY <1>1
  DEF Requests, Redact, RedactStep, RedactNotFound, RedactRefused, RedactSelect,
      RedactFlush, RedactCommit, RedactFail, Flush, Commit, Rollback, storeVars
<1>5. table' = table \/ Commit(r)
  BY DEF Redact, RedactStep, RedactNotFound, RedactRefused, RedactSelect,
         RedactFlush, RedactCommit, RedactFail, Flush, Rollback, storeVars
<1> QED
  BY <1>1, <1>3, <1>4, <1>5, CommitKeepsGood

\* So does a step of an archiver.
LEMMA ArchiverLeaves ==
  ASSUME IInv, NEW a \in Archiver, UNCHANGED redaction,
         \/ \E number \in Number : Archive(a, number)
         \/ ArchiveStep(a)
         \/ ArchiveFail(a)
  PROVE  /\ \A s \in Session \ {a} : tx'[s] = tx[s]
         /\ \/ table' = table
            \/ Commit(a) /\ DOMAIN table' = DOMAIN table
         /\ Requests'
<1>1. a \in Session /\ Requests
  BY SessionAssumption, Parts
<1>2. IInv'
  BY ArchiverIInv
<1>3. Requests'
  BY <1>2 DEF IInv, TypeOK, Requests
<1>4. \A s \in Session \ {a} : tx'[s] = tx[s]
  BY <1>1
  DEF Requests, Archive, ArchiveStep, ArchiveNotFound, ArchiveUnchanged,
      ArchiveSelect, ArchiveFlush, ArchiveCommit, ArchiveFail, Flush, Commit,
      Rollback, storeVars
<1>5. table' = table \/ Commit(a)
  BY DEF Archive, ArchiveStep, ArchiveNotFound, ArchiveUnchanged, ArchiveSelect,
         ArchiveFlush, ArchiveCommit, ArchiveFail, Flush, Rollback, storeVars
<1> QED
  BY <1>1, <1>3, <1>4, <1>5, CommitKeepsGood

\* A step in which no redactor commits leaves every proof and its null.
LEMMA RowsKeepProofs ==
  ASSUME IInv,
         \A s \in DOMAIN table :
           /\ table'[s].payload = table[s].payload
           /\ table'[s].redacted_fields = table[s].redacted_fields
  PROVE  redactions_stick
<1>1. \A s \in DOMAIN table : \A f \in DOMAIN table[s].redacted_fields :
        table[s].payload[f] = None
  BY ProofMeansNull DEF IInv, RedactionEvidence, evident
<1> QED
  BY <1>1 DEF redactions_stick

\* What redactors hold stays complete while their rows keep their maps.
LEMMA UpToDateKept ==
  ASSUME IInv, UpToDate,
         \A s \in DOMAIN table : table'[s].redacted_fields = table[s].redacted_fields,
         \A r \in Redactor :
           /\ redaction'[r].at = "flush" => redaction'[r] = redaction[r]
           /\ tx'[r] # None =>
                \/ tx'[r] = tx[r]
                \/ /\ redaction[r].at = "flush"
                   /\ tx'[r] = [number  |-> redaction[r].number,
                                changes |-> redaction[r].changes]
  PROVE  UpToDate'
<1> DEFINE has_all(t, number, changes) ==
             DOMAIN t[number].redacted_fields \subseteq DOMAIN changes.redacted_fields
<1>1. \A r \in Redactor :
        /\ redaction[r].at = "flush" => redaction[r].number \in DOMAIN table
        /\ tx[r] # None => tx[r].number \in DOMAIN table
  BY DEF IInv, Pending, PendingRedaction
<1>2. \A n \in DOMAIN table : \A changes :
        has_all(table, n, changes) => has_all(table', n, changes)
  OBVIOUS
<1>3. \A r \in Redactor :
        /\ redaction[r].at = "flush" =>
             has_all(table, redaction[r].number, redaction[r].changes)
        /\ tx[r] # None => has_all(table, tx[r].number, tx[r].changes)
  BY DEF UpToDate
<1> HIDE DEF has_all
<1>4. ASSUME NEW r \in Redactor
      PROVE  /\ redaction'[r].at = "flush" =>
                  has_all(table', redaction'[r].number, redaction'[r].changes)
             /\ tx'[r] # None => has_all(table', tx'[r].number, tx'[r].changes)
  <2>1. CASE tx'[r] = tx[r] \/ tx'[r] = None
    BY <1>1, <1>2, <1>3, <2>1
  <2>2. CASE tx'[r] # tx[r] /\ tx'[r] # None
    <3>1. /\ redaction[r].at = "flush"
          /\ tx'[r] = [number |-> redaction[r].number, changes |-> redaction[r].changes]
      BY <2>2, Zenon
    <3>2. redaction'[r].at = "flush" => redaction'[r] = redaction[r]
      BY Zenon
    <3>3. tx'[r].number = redaction[r].number /\ tx'[r].changes = redaction[r].changes
      BY <3>1
    <3> QED
      BY <1>1, <1>2, <1>3, <3>1, <3>2, <3>3
  <2> QED
    BY <2>1, <2>2
<1> QED
  BY <1>4 DEF UpToDate, has_all

\* A step of the only redactor: what it writes has the proofs that are there,
\* since nobody adds one between its read and its commit.
LEMMA OnlyRedactorStep ==
  ASSUME IInv, UpToDate, NEW r \in Redactor, \A q \in Redactor : q = r,
         UNCHANGED archival,
         \/ \E number \in Number, fields \in SUBSET Field \ {{}} :
              Redact(r, number, fields)
         \/ RedactStep(r)
         \/ RedactFail(r)
  PROVE  UpToDate' /\ redactions_stick
<1>1. Requests /\ r \in Session
  BY Parts, SessionAssumption
<1>2. ASSUME table' = table
      PROVE  redactions_stick
  BY <1>2, RowsKeepProofs
<1>3. ASSUME NEW number \in Number, NEW fields \in SUBSET Field \ {{}},
             Redact(r, number, fields)
      PROVE  UpToDate' /\ redactions_stick
  <2>1. /\ UNCHANGED storeVars
        /\ redaction' = [redaction EXCEPT ![r] =
             [at |-> "select", number |-> number, fields |-> fields]]
    BY <1>3 DEF Redact
  <2>2. redaction'[r].at # "flush" /\ table' = table /\ tx' = tx
    BY <1>1, <2>1 DEF Requests, storeVars
  <2> QED
    BY <1>2, <2>2, UpToDateKept
<1>4. ASSUME RedactNotFound(r) \/ RedactRefused(r) \/ RedactFail(r)
      PROVE  UpToDate' /\ redactions_stick
  <2>1. /\ table' = table
        /\ tx' = tx \/ tx' = [tx EXCEPT ![r] = None]
        /\ redaction' = [redaction EXCEPT ![r] = [at |-> "idle"]]
    BY <1>4 DEF RedactNotFound, RedactRefused, RedactFail, Rollback, Ended, storeVars
  <2>2. redaction'[r].at # "flush" /\ (tx'[r] = tx[r] \/ tx'[r] = None)
    BY <1>1, <2>1 DEF Requests
  <2> QED
    BY <1>2, <2>1, <2>2, UpToDateKept
<1>5. ASSUME RedactSelect(r)
      PROVE  UpToDate' /\ redactions_stick
  <2> DEFINE n       == redaction[r].number
             fs      == Redactable(table[n], redaction[r].fields)
             changes == redaction_changes(table[n], fs)
  <2>1. /\ table' = table /\ tx' = tx
        /\ redaction' = [redaction EXCEPT ![r] =
             IF fs = {} THEN [at |-> "commit"]
             ELSE [at |-> "flush", number |-> n, changes |-> changes]]
    BY <1>5 DEF RedactSelect, storeVars
  <2>2. DOMAIN table[n].redacted_fields \subseteq DOMAIN changes.redacted_fields
    BY DEF redaction_changes, redacted_map
  <2> HIDE DEF n, fs, changes
  <2>3. redaction'[r].at = "flush" =>
          redaction'[r].number = n /\ redaction'[r].changes = changes
    BY <1>1, <2>1 DEF Requests
  <2>4. UpToDate'
    BY <2>1, <2>2, <2>3 DEF UpToDate
  <2> QED
    BY <1>2, <2>1, <2>4
<1>6. ASSUME RedactFlush(r)
      PROVE  UpToDate' /\ redactions_stick
  <2>1. /\ redaction[r].at = "flush" /\ table' = table
        /\ tx' = [tx EXCEPT ![r] = [number  |-> redaction[r].number,
                                    changes |-> redaction[r].changes]]
        /\ redaction' = [redaction EXCEPT ![r] = [at |-> "commit"]]
    BY <1>6 DEF RedactFlush, Flush
  <2>2. /\ redaction'[r].at # "flush"
        /\ tx'[r] = [number |-> redaction[r].number, changes |-> redaction[r].changes]
    BY <1>1, <2>1 DEF Requests
  <2> QED
    BY <1>2, <2>1, <2>2, UpToDateKept
<1>7. ASSUME RedactCommit(r)
      PROVE  UpToDate' /\ redactions_stick
  <2>1. /\ Commit(r)
        /\ tx' = [tx EXCEPT ![r] = None]
        /\ redaction' = [redaction EXCEPT ![r] = [at |-> "idle"]]
    BY <1>7 DEF RedactCommit, Commit, Ended
  <2>2. UpToDate'
    BY <1>1, <2>1 DEF Requests, UpToDate
  <2>3. ASSUME NEW s \in DOMAIN table, NEW f \in DOMAIN table[s].redacted_fields
        PROVE  f \in DOMAIN table'[s].redacted_fields /\ table'[s].payload[f] = None
    <3>1. r \notin Archiver
      BY SessionAssumption
    <3>2. CASE table'[s] = table[s]
      BY <2>3, <3>2, ProofMeansNull DEF IInv, RedactionEvidence, evident
    <3>3. CASE /\ tx[r] # None /\ tx[r].number = s
               /\ table'[s].payload = tx[r].changes.payload
               /\ table'[s].redacted_fields = tx[r].changes.redacted_fields
      <4>1. f \in DOMAIN tx[r].changes.redacted_fields
        BY <2>3, <3>3 DEF UpToDate
      <4>2. accounts_for(tx[r].changes.payload, tx[r].changes.redacted_fields,
                         original(table[s].payload_hash))
        BY <3>3 DEF IInv, Pending, PendingRedaction
      <4> QED
        BY <3>3, <4>1, <4>2, ProofMeansNull
    <3> QED
      BY <1>1, <2>1, <3>1, <3>2, <3>3, CommittedColumns
  <2> QED
    BY <2>2, <2>3 DEF redactions_stick
<1> QED
  BY <1>3, <1>4, <1>5, <1>6, <1>7 DEF RedactStep

\* What any step does where there is one redactor, or none.
LEMMA OneRedactorStep ==
  ASSUME \A q, r \in Redactor : q = r,
         IInv, UpToDate, [Next]_vars
  PROVE  UpToDate' /\ redactions_stick
<1>1. ASSUME /\ \A s \in DOMAIN table :
                  /\ table'[s].payload = table[s].payload
                  /\ table'[s].redacted_fields = table[s].redacted_fields
             /\ redaction' = redaction
             /\ \A r \in Redactor : tx'[r] = tx[r]
      PROVE  UpToDate' /\ redactions_stick
  BY <1>1, UpToDateKept, RowsKeepProofs
<1>2. CASE \E e \in Event : AppendEvent(e) /\ UNCHANGED <<redaction, archival>>
  BY <1>1, <1>2, AppendLeaves
<1>3. ASSUME NEW a \in Archiver, UNCHANGED redaction,
             \/ \E number \in Number : Archive(a, number)
             \/ ArchiveStep(a)
             \/ ArchiveFail(a)
      PROVE  UpToDate' /\ redactions_stick
  <2>1. a \in Session /\ a \notin Redactor /\ Redactor \subseteq Session
    BY SessionAssumption
  <2>2. /\ \A s \in Session \ {a} : tx'[s] = tx[s]
        /\ table' = table \/ Commit(a)
    BY <1>3, ArchiverLeaves
  <2>3. \A s \in DOMAIN table :
          /\ table'[s].payload = table[s].payload
          /\ table'[s].redacted_fields = table[s].redacted_fields
    BY <2>1, <2>2, CommittedColumns
  <2> QED
    BY <1>1, <1>3, <2>1, <2>2, <2>3
<1>4. CASE UNCHANGED vars
  BY <1>1, <1>4 DEF vars
<1>5. ASSUME NEW r \in Redactor, UNCHANGED archival,
             \/ \E number \in Number, fields \in SUBSET Field \ {{}} :
                  Redact(r, number, fields)
             \/ RedactStep(r)
             \/ RedactFail(r)
      PROVE  UpToDate' /\ redactions_stick
  BY <1>5, OnlyRedactorStep
<1> QED
  BY <1>2, <1>3, <1>4, <1>5 DEF Next

\* With one redactor no redaction is undone, however many archivers and
\* appends there are beside it: the lost updates take two redactors.
THEOREM RedactionsKept ==
  ASSUME \A q, r \in Redactor : q = r
  PROVE  Spec => RedactionSticks
<1>1. Init => UpToDate
  BY RedactorAssumption DEF Init, StoreInit, RedactionInit, UpToDate
<1>2. IInv /\ UpToDate /\ [Next]_vars => UpToDate'
  BY OneRedactorStep
<1>3. IInv /\ UpToDate /\ [Next]_vars => [redactions_stick]_table
  BY OneRedactorStep
<1> QED
  BY Invariance, <1>1, <1>2, <1>3, PTL DEF Spec, RedactionSticks

\* A step of the only archiver: the row it archives is still active when it
\* commits, since nobody else archives.
LEMMA OnlyArchiverStep ==
  ASSUME IInv, FirstArchivals, NEW a \in Archiver, \A b \in Archiver : b = a,
         UNCHANGED redaction,
         \/ \E number \in Number : Archive(a, number)
         \/ ArchiveStep(a)
         \/ ArchiveFail(a)
  PROVE  FirstArchivals' /\ archived_at_kept
<1>1. Requests /\ a \in Session /\ a \notin Redactor
  BY Parts, SessionAssumption
<1>2. ASSUME table' = table
      PROVE  archived_at_kept
  BY <1>2 DEF archived_at_kept
<1>3. ASSUME NEW number \in Number, Archive(a, number)
      PROVE  FirstArchivals' /\ archived_at_kept
  <2>1. /\ table' = table /\ tx' = tx
        /\ archival' = [archival EXCEPT ![a] = [at |-> "select", number |-> number]]
    BY <1>3 DEF Archive, storeVars
  <2>2. archival'[a].at # "flush"
    BY <1>1, <2>1 DEF Requests
  <2> QED
    BY <1>2, <2>1, <2>2 DEF FirstArchivals
<1>4. ASSUME ArchiveNotFound(a) \/ ArchiveUnchanged(a) \/ ArchiveFail(a)
      PROVE  FirstArchivals' /\ archived_at_kept
  <2>1. /\ table' = table
        /\ tx' = tx \/ tx' = [tx EXCEPT ![a] = None]
        /\ \/ archival' = [archival EXCEPT ![a] = [at |-> "idle"]]
           \/ archival' = [archival EXCEPT ![a] = [at |-> "commit"]]
    BY <1>4 DEF ArchiveNotFound, ArchiveUnchanged, ArchiveFail, Rollback, Finished, storeVars
  <2>2. archival'[a].at # "flush" /\ (tx'[a] = tx[a] \/ tx'[a] = None)
    BY <1>1, <2>1 DEF Requests
  <2> QED
    BY <1>2, <2>1, <2>2 DEF FirstArchivals
<1>5. ASSUME ArchiveSelect(a)
      PROVE  FirstArchivals' /\ archived_at_kept
  <2> DEFINE n == archival[a].number
  <2>1. PICK now \in Time :
          archival' = [archival EXCEPT ![a] =
            [at |-> "flush", number |-> n, changes |-> archive_changes(now)]]
    BY <1>5 DEF ArchiveSelect
  <2>2. table' = table /\ tx' = tx /\ ~ table[n].is_archived
    BY <1>5 DEF ArchiveSelect, already_archived, storeVars
  <2> HIDE DEF n
  <2>3. archival'[a].number = n
    BY <1>1, <2>1 DEF Requests
  <2> QED
    BY <1>2, <2>2, <2>3 DEF FirstArchivals
<1>6. ASSUME ArchiveFlush(a)
      PROVE  FirstArchivals' /\ archived_at_kept
  <2>1. /\ archival[a].at = "flush" /\ table' = table
        /\ tx' = [tx EXCEPT ![a] = [number  |-> archival[a].number,
                                    changes |-> archival[a].changes]]
        /\ archival' = [archival EXCEPT ![a] = [at |-> "commit"]]
    BY <1>6 DEF ArchiveFlush, Flush
  <2>2. archival'[a].at # "flush" /\ tx'[a].number = archival[a].number
    BY <1>1, <2>1 DEF Requests
  <2> QED
    BY <1>2, <2>1, <2>2 DEF FirstArchivals
<1>7. ASSUME ArchiveCommit(a)
      PROVE  FirstArchivals' /\ archived_at_kept
  <2>1. /\ Commit(a)
        /\ tx' = [tx EXCEPT ![a] = None]
        /\ archival' = [archival EXCEPT ![a] = [at |-> "idle"]]
    BY <1>7 DEF ArchiveCommit, Commit, Finished
  <2>2. FirstArchivals'
    BY <1>1, <2>1 DEF Requests, FirstArchivals
  <2>3. ASSUME NEW s \in DOMAIN table, table[s].is_archived
        PROVE  table'[s].archived_at = table[s].archived_at
    <3>1. ~ (tx[a] # None /\ tx[a].number = s)
      BY <2>3 DEF FirstArchivals
    <3> QED
      BY <1>1, <2>1, <3>1, CommittedColumns
  <2> QED
    BY <2>2, <2>3 DEF archived_at_kept
<1> QED
  BY <1>3, <1>4, <1>5, <1>6, <1>7 DEF ArchiveStep

\* What any step does where there is one archiver, or none.
LEMMA OneArchiverStep ==
  ASSUME \A a, b \in Archiver : a = b,
         IInv, FirstArchivals, [Next]_vars
  PROVE  FirstArchivals' /\ archived_at_kept
<1>1. \A a \in Archiver :
        /\ archival[a].at = "flush" => archival[a].number \in DOMAIN table
        /\ tx[a] # None => tx[a].number \in DOMAIN table
  BY DEF IInv, Pending, PendingArchival
<1>2. ASSUME /\ \A s \in DOMAIN table :
                  /\ table'[s].is_archived = table[s].is_archived
                  /\ table'[s].archived_at = table[s].archived_at
             /\ archival' = archival
             /\ \A a \in Archiver : tx'[a] = tx[a]
      PROVE  FirstArchivals' /\ archived_at_kept
  BY <1>1, <1>2 DEF FirstArchivals, archived_at_kept
<1>3. CASE \E e \in Event : AppendEvent(e) /\ UNCHANGED <<redaction, archival>>
  BY <1>2, <1>3, AppendLeaves, SessionAssumption
<1>4. ASSUME NEW r \in Redactor, UNCHANGED archival,
             \/ \E number \in Number, fields \in SUBSET Field \ {{}} :
                  Redact(r, number, fields)
             \/ RedactStep(r)
             \/ RedactFail(r)
      PROVE  FirstArchivals' /\ archived_at_kept
  <2>1. r \in Session /\ r \notin Archiver /\ Archiver \subseteq Session
    BY SessionAssumption
  <2>2. /\ \A s \in Session \ {r} : tx'[s] = tx[s]
        /\ table' = table \/ Commit(r)
    BY <1>4, RedactorLeaves
  <2>3. \A s \in DOMAIN table :
          /\ table'[s].is_archived = table[s].is_archived
          /\ table'[s].archived_at = table[s].archived_at
    BY <2>1, <2>2, CommittedColumns
  <2> QED
    BY <1>2, <1>4, <2>1, <2>2, <2>3
<1>5. CASE UNCHANGED vars
  BY <1>2, <1>5 DEF vars
<1>6. ASSUME NEW a \in Archiver, UNCHANGED redaction,
             \/ \E number \in Number : Archive(a, number)
             \/ ArchiveStep(a)
             \/ ArchiveFail(a)
      PROVE  FirstArchivals' /\ archived_at_kept
  BY <1>6, OnlyArchiverStep
<1> QED
  BY <1>3, <1>4, <1>5, <1>6 DEF Next

\* With one archiver an archived row keeps its archived_at, however many
\* redactors there are beside it: the race for it takes two archivers.
THEOREM ArchivedOnce ==
  ASSUME \A a, b \in Archiver : a = b
  PROVE  Spec => ArchivedAtKept
<1>1. Init => FirstArchivals
  BY ArchiverAssumption DEF Init, StoreInit, RetentionInit, FirstArchivals
<1>2. IInv /\ FirstArchivals /\ [Next]_vars => FirstArchivals'
  BY OneArchiverStep
<1>3. IInv /\ FirstArchivals /\ [Next]_vars => [archived_at_kept]_table
  BY OneArchiverStep
<1> QED
  BY Invariance, <1>1, <1>2, <1>3, PTL DEF Spec, ArchivedAtKept

=============================================================================
