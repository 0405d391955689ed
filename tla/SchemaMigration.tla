--------------------------- MODULE SchemaMigration ---------------------------
(***************************************************************************)
(* The schema under the service: the migrations of alembic/versions, run   *)
(* by alembic/env.py in one transaction, the create_all of app/main.py,    *)
(* and requests that need every column of the model in each statement.     *)
(*                                                                         *)
(* Rows keep their shape: a column that is dropped has the value in them   *)
(* that the migration which adds it again gives it.                        *)
(***************************************************************************)
EXTENDS EntryLifecycle

VARIABLES
  columns,    \* the columns of audit_entries; {} where there is no such table
  version,    \* the revision in alembic_version; 0 where there is none
  forgotten   \* history: the redacted fields whose proofs were dropped

migrationVars == <<table, tx, redaction, archival, columns, version, forgotten>>

\* The latest revision.
head == 3

\* The columns that each revision brings.
introduced(revision) ==
  CASE revision = 1 -> EntryField \ {"redacted_fields", "is_archived", "archived_at"}
    [] revision = 2 -> {"redacted_fields"}
    [] revision = 3 -> {"is_archived", "archived_at"}

columns_at(revision) == UNION {introduced(r) : r \in 1 .. revision}

\* A change of the table waits for the transactions that have read it.
Quiet ==
  /\ \A r \in Redactor : redaction[r].at \in {"idle", "select"}
  /\ \A a \in Archiver : archival[a].at \in {"idle", "select"}

MigrationInit == Init /\ columns = {} /\ version = 0 /\ forgotten = {}

-----------------------------------------------------------------------------
\* Fault: create_all adds the columns that a table lacks.
created_all_Missing == EntryField
\* create_all makes what is missing as a whole, and adds no column to a table.
created_all == IF columns = {} THEN EntryField ELSE columns

\* lifespan, before the service takes requests; other workers may be running.
Startup ==
  /\ columns' = created_all
  /\ UNCHANGED <<table, tx, redaction, archival, version, forgotten>>

\* create_table finds no table of that name, add_column no such column.
applicable(revision) ==
  IF revision = 1 THEN columns = {} ELSE columns \cap introduced(revision) = {}

\* Fault: payload_hash is computed from the payload as it is.
upgraded_Backfilled(row) == [row EXCEPT !.payload_hash = hash_payload(row.payload)]
\* A row after the upgrade: the new columns have their defaults, which they have
\* already.
upgraded(row) == row

\* alembic upgrade head
UpgradeHead ==
  /\ Quiet
  /\ version < head
  /\ \A revision \in version + 1 .. head : applicable(revision)
  /\ columns' = columns \cup UNION {introduced(r) : r \in version + 1 .. head}
  /\ version' = head
  /\ table' = [s \in DOMAIN table |-> upgraded(table[s])]
  /\ UNCHANGED <<tx, redaction, archival, forgotten>>

without(row, dropped) ==
  [column \in DOMAIN row |->
     IF column \notin dropped THEN row[column]
     ELSE CASE column = "redacted_fields" -> << >>
            [] column = "is_archived"     -> FALSE
            [] column = "archived_at"     -> None]

\* The numbers and fields whose proofs go with redacted_fields.
proofs ==
  UNION {{s} \X (Field \cap DOMAIN table[s].redacted_fields) : s \in DOMAIN table}

\* alembic downgrade -1
Downgrade ==
  /\ Quiet
  /\ version > 0
  /\ columns' = columns \ introduced(version)
  /\ version' = version - 1
  /\ IF version = 1
     THEN table' = << >> /\ forgotten' = {}
     ELSE /\ table' = [s \in DOMAIN table |-> without(table[s], introduced(version))]
          /\ forgotten' = IF version = 2 THEN forgotten \cup proofs ELSE forgotten
  /\ UNCHANGED <<tx, redaction, archival>>

-----------------------------------------------------------------------------
\* Every statement of the service names all columns of the model; where one is
\* missing the request fails.
Served == columns = EntryField

Request ==
  \/ \E r \in Redactor :
       /\ \/ \E number \in Number, fields \in SUBSET Field \ {{}} :
               Admitted /\ Redact(r, number, fields)
          \/ Served /\ RedactStep(r)
          \/ RedactFail(r)
       /\ UNCHANGED archival
  \/ \E a \in Archiver :
       /\ \/ \E number \in Number : Admitted /\ Archive(a, number)
          \/ Served /\ ArchiveStep(a)
          \/ ArchiveFail(a)
       /\ UNCHANGED redaction

AppendRequest == \E e \in Event : Served /\ AppendEvent(e) /\ UNCHANGED <<redaction, archival>>

MigrationNext ==
  \/ (Request \/ AppendRequest) /\ UNCHANGED <<columns, version, forgotten>>
  \/ Startup
  \/ UpgradeHead
  \/ Downgrade

MigrationSpec == MigrationInit /\ [][MigrationNext]_migrationVars

-----------------------------------------------------------------------------
\* The schema is that of the revision, or it is create_all's and Alembic knows
\* of none: no order of upgrades, downgrades and starts leaves another one.
SchemaTypeOK ==
  /\ version \in 0 .. head
  /\ \/ columns = columns_at(version)
     \/ version = 0 /\ columns = EntryField
  /\ forgotten \subseteq (DOMAIN table) \X Field

\* A field differs from what was posted exactly when its proof is there and
\* right, or a downgrade dropped it; upgrading again does not bring it back,
\* nor does redacting again.
EvidenceAccounted ==
  \A s \in DOMAIN table :
    LET row  == table[s]
        from == original(row.payload_hash)
    IN  \A f \in DOMAIN from :
          /\ f \in DOMAIN row.redacted_fields =>
               row.redacted_fields[f] = hash_field_value(f, from[f])
          /\ row.payload[f] # from[f] <=>
               f \in DOMAIN row.redacted_fields \/ <<s, f>> \in forgotten

\* Nothing but a downgrade takes a redaction back or forgets it, where requests
\* do not overlap: overlapping ones break it, see RedactionSticks.
RedactionsSurvive == [][version' < version \/ redactions_stick]_migrationVars

\* Nothing but a downgrade lets the payload of an archived row change, where
\* requests do not overlap: overlapping ones break it, see ArchivedFrozen.
ArchivedStaysFrozen == [][version' < version \/ archived_frozen]_migrationVars

\* Nothing but a downgrade takes away when a row was archived, where requests
\* do not overlap: overlapping ones break it, see ArchivedAtKept.
ArchivedAtSurvives == [][version' < version \/ archived_at_kept]_migrationVars

-----------------------------------------------------------------------------
(* The inductive invariant.                                                *)

\* The fields of row s whose proofs were dropped.
lost(s) == {f \in Field : <<s, f>> \in forgotten}

\* accounts_for, where some of the proofs were dropped.
accounts_but(payload, redacted_fields, from, dropped) ==
  /\ DOMAIN payload = DOMAIN from
  /\ DOMAIN redacted_fields \subseteq DOMAIN from \cap Field
  /\ \A f \in DOMAIN from :
       IF f \in DOMAIN redacted_fields \cup dropped
       THEN /\ payload[f] = None
            /\ from[f] # None
            /\ f \in DOMAIN redacted_fields =>
                 redacted_fields[f] = hash_field_value(f, from[f])
       ELSE payload[f] = from[f]

row_accounted(row, dropped) ==
  /\ DOMAIN row = EntryField
  /\ accounts_but(row.payload, row.redacted_fields, original(row.payload_hash), dropped)

pending_redaction(t, number, changes, dropped) ==
  /\ number \in DOMAIN t
  /\ DOMAIN changes = {"payload", "redacted_fields"}
  /\ accounts_but(changes.payload, changes.redacted_fields,
                  original(t[number].payload_hash), dropped)

pending_archival(t, number, changes) ==
  /\ number \in DOMAIN t
  /\ DOMAIN changes = {"is_archived", "archived_at"}

\* What a request has computed, it has computed since the last migration.
RequestsAccounted ==
  /\ DOMAIN tx = Session /\ DOMAIN redaction = Redactor /\ DOMAIN archival = Archiver
  /\ \A r \in Redactor : LET q == redaction[r] IN
       /\ q.at = "select" => q.fields \subseteq Field
       /\ q.at = "flush" => pending_redaction(table, q.number, q.changes, lost(q.number))
       /\ tx[r] # None =>
            /\ q.at = "commit"
            /\ pending_redaction(table, tx[r].number, tx[r].changes, lost(tx[r].number))
  /\ \A a \in Archiver : LET q == archival[a] IN
       /\ q.at = "flush" => pending_archival(table, q.number, q.changes)
       /\ tx[a] # None =>
            /\ q.at = "commit"
            /\ pending_archival(table, tx[a].number, tx[a].changes)

MigrationIInv ==
  /\ SchemaTypeOK
  /\ chained(table, Event, Time)
  /\ \A s \in DOMAIN table : row_accounted(table[s], lost(s))
  /\ RequestsAccounted

=============================================================================
