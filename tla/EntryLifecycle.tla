--------------------------- MODULE EntryLifecycle ---------------------------
(***************************************************************************)
(* The life of an entry after it is appended: redactors and archivers at   *)
(* work on the same rows while the log grows.                              *)
(***************************************************************************)
EXTENDS RedactionService, RetentionService

CONSTANT MaxInFlight   \* requests under way at once, at most

ASSUME MaxInFlightAssumption == MaxInFlight \in Nat \ {0}
ASSUME SessionAssumption ==
  Redactor \cap Archiver = {} /\ Session = Redactor \cup Archiver

vars == <<table, tx, redaction, archival>>

InFlight == {r \in Redactor : redaction[r].at # "idle"}
              \cup {a \in Archiver : archival[a].at # "idle"}

Admitted == Cardinality(InFlight) < MaxInFlight

\* A request may name a row that does not exist (yet).
Number == 1 .. MaxEntries

Init == StoreInit /\ RedactionInit /\ RetentionInit

Next ==
  \/ \E e \in Event : AppendEvent(e) /\ UNCHANGED <<redaction, archival>>
  \/ \E r \in Redactor :
       /\ \/ \E number \in Number, fields \in SUBSET Field \ {{}} :
               Admitted /\ Redact(r, number, fields)
          \/ RedactStep(r)
          \/ RedactFail(r)
       /\ UNCHANGED archival
  \/ \E a \in Archiver :
       /\ \/ \E number \in Number : Admitted /\ Archive(a, number)
          \/ ArchiveStep(a)
          \/ ArchiveFail(a)
       /\ UNCHANGED redaction

Spec == Init /\ [][Next]_vars

\* Statements return, and a row's lock is granted in the order of asking.
Fairness ==
  /\ \A r \in Redactor : SF_vars(RedactStep(r) /\ UNCHANGED archival)
  /\ \A a \in Archiver : SF_vars(ArchiveStep(a) /\ UNCHANGED redaction)

FairSpec == Spec /\ Fairness

-----------------------------------------------------------------------------
\* SHA-256 being ideal here, the payload that was hashed at the append.
original(payload_hash) == CHOOSE p \in Payload : hash_payload(p) = payload_hash

\* A payload and a map of redacted fields that account for each other: a field
\* of the original payload is null in place of a value where the map proves
\* that value, and as it was posted everywhere else.
accounts_for(payload, redacted_fields, from) ==
  /\ DOMAIN payload = DOMAIN from
  /\ DOMAIN redacted_fields \subseteq DOMAIN from
  /\ \A f \in DOMAIN from :
       IF f \in DOMAIN redacted_fields
       THEN /\ payload[f] = None
            /\ from[f] # None
            /\ redacted_fields[f] = hash_field_value(f, from[f])
       ELSE payload[f] = from[f]

evident(row) ==
  accounts_for(row.payload, row.redacted_fields, original(row.payload_hash))

ArchivedTime == {stored(utc(t)) : t \in Time}

RowOK(row) ==
  /\ DOMAIN row = EntryField
  /\ row.is_archived \in BOOLEAN
  /\ IF row.is_archived THEN row.archived_at \in ArchivedTime
                        ELSE row.archived_at = None

\* The shape of the state: in particular a row has an archived_at exactly when
\* it is archived.
TypeOK ==
  /\ \A s \in DOMAIN table : RowOK(table[s])
  /\ DOMAIN tx = Session
  /\ DOMAIN redaction = Redactor
  /\ \A r \in Redactor : redaction[r].at \in {"idle", "select", "flush", "commit"}
  /\ DOMAIN archival = Archiver
  /\ \A a \in Archiver : archival[a].at \in {"idle", "select", "flush", "commit"}

\* A field is null in place of a value exactly when redacted_fields proves that
\* value, and any other field is as it was posted, also when UPDATEs computed
\* from the same stale row overwrite each other.
RedactionEvidence == \A s \in DOMAIN table : evident(table[s])

\* Redaction and archival, in any order and interleaving, leave a chain that
\* GET /audit/verify accepts.
StillVerifies == verify_chain(table).valid

\* No redaction computed before an archival takes the archival back.
ArchiveSticks ==
  [][\A s \in DOMAIN table : table[s].is_archived =>
       table'[s].is_archived]_table

\* Every request ends: nobody waits forever for a row that another session
\* updated.
Responsive ==
  /\ \A r \in Redactor : redaction[r].at # "idle" ~> redaction[r].at = "idle"
  /\ \A a \in Archiver : archival[a].at # "idle" ~> archival[a].at = "idle"

\* What a step makes of the rows that are redacted or archived.
redactions_stick ==
  \A s \in DOMAIN table : \A f \in DOMAIN table[s].redacted_fields :
    /\ f \in DOMAIN table'[s].redacted_fields
    /\ table'[s].payload[f] = None

archived_frozen ==
  \A s \in DOMAIN table : table[s].is_archived =>
    /\ table'[s].payload = table[s].payload
    /\ table'[s].redacted_fields = table[s].redacted_fields

archived_at_kept ==
  \A s \in DOMAIN table : table[s].is_archived =>
    table'[s].archived_at = table[s].archived_at

\* redacted_fields holds a proof "for every payload field that has been
\* redacted": a committed redaction is not undone by a later one.
RedactionSticks == [][redactions_stick]_table

\* "Archived rows are immutable": their payload is not redacted any more.
ArchivedFrozen == [][archived_frozen]_table

\* Archiving an archived entry "preserves the original archived_at".
ArchivedAtKept == [][archived_at_kept]_table

-----------------------------------------------------------------------------
(* The table is still the log of ChainLog.  Acknowledgements of appends    *)
(* are the business of ChainService.                                       *)

Chain == INSTANCE ChainLog WITH
  Item  <- recorded_items(Event, Time),
  log   <- recorded_log(table),
  acked <- {}

\* To the log, a redaction or an archival is nothing at all.
LogUndisturbed == Chain!LogSpec

-----------------------------------------------------------------------------
(* The inductive invariant.  What a request computed from a row it read,   *)
(* and maybe has flushed, stays right whatever others commit meanwhile,    *)
(* since it is right by the columns that never change.                     *)

PendingRedaction(t, number, changes) ==
  /\ number \in DOMAIN t
  /\ DOMAIN changes = {"payload", "redacted_fields"}
  /\ accounts_for(changes.payload, changes.redacted_fields,
                  original(t[number].payload_hash))

PendingArchival(t, number, changes) ==
  /\ number \in DOMAIN t
  /\ DOMAIN changes = {"is_archived", "archived_at"}
  /\ changes.is_archived = TRUE
  /\ changes.archived_at \in ArchivedTime

Pending ==
  /\ \A r \in Redactor :
       /\ redaction[r].at = "flush" =>
            PendingRedaction(table, redaction[r].number, redaction[r].changes)
       /\ tx[r] # None => PendingRedaction(table, tx[r].number, tx[r].changes)
  /\ \A a \in Archiver :
       /\ archival[a].at = "flush" =>
            PendingArchival(table, archival[a].number, archival[a].changes)
       /\ tx[a] # None => PendingArchival(table, tx[a].number, tx[a].changes)

IInv ==
  /\ TypeOK
  /\ chained(table, Event, Time)
  /\ RedactionEvidence
  /\ Pending

\* Where redactors do not overlap, what one has computed or flushed still has
\* every proof that its row has.
UpToDate ==
  LET has_all(number, changes) ==
        DOMAIN table[number].redacted_fields \subseteq DOMAIN changes.redacted_fields
  IN  \A r \in Redactor :
        /\ redaction[r].at = "flush" => has_all(redaction[r].number, redaction[r].changes)
        /\ tx[r] # None => has_all(tx[r].number, tx[r].changes)

\* Where archivers do not overlap, the row one is about to archive is active.
FirstArchivals ==
  \A a \in Archiver :
    /\ archival[a].at = "flush" => ~ table[archival[a].number].is_archived
    /\ tx[a] # None => ~ table[tx[a].number].is_archived

=============================================================================
