# AuditLogService in TLA+

AuditLogService is a FastAPI service that keeps a tamper-evident audit log in
one table, `audit_entries`. Every entry carries a hash of itself and a hash that
chains it to its predecessor. Clients append events, page through them, redact
payload fields, archive entries, export the log and ask whether the chain still
verifies. This directory models the service, checks the models with TLC and
proves the central results with TLAPS.

Line numbers below refer to the repository at the modelled commit;
`PROJECT.json` maps every definition to its lines.

## 1. The system

| Component | Source | State it keeps | Operations | Here |
|---|---|---|---|---|
| Hashing | `app/core/hashing.py` | none | payload, entry, chain and field hashes | `Hashing`, `AuditEntryProofs` |
| Audit entry table | `app/models/audit_entry.py` | the rows | two UNIQUE constraints | `AuditEntry`, `AuditEntryProofs`, `EntryStore` |
| Chain service, POST route | `app/services/chain_service.py`, `app/api/routes/events.py` | advisory lock, session of each request | `append` | `ChainService`, `ChainServiceProofs`, `ChainLog` |
| Chain service, verify route | same, `app/api/routes/verify.py` | none | `verify_chain` | `AuditEntry!verify_chain`, `VerifyChain`, `VerifyChainProofs` |
| Redaction service and route | `app/services/redaction_service.py`, `app/api/routes/redaction.py` | session of each request | `redact_fields` | `RedactionService`, `EntryLifecycle`, `EntryLifecycleProofs` |
| Retention service and route | `app/services/retention_service.py`, same route file | session of each request | `archive_entry` | `RetentionService`, `EntryLifecycle`, `EntryLifecycleProofs` |
| Query service and routes | `app/services/query_service.py`, `app/api/routes/events.py` | none (the reader has a cursor) | `list_events`, `get_event_by_id` | `QueryService`, `QueryServiceProofs` |
| Export service and route | `app/services/export_service.py`, `app/api/routes/export.py` | cursor and session of each stream | `export_json`, `export_csv` | `ExportService`, `AuditExport`, `AuditExportProofs` |
| Sessions and pool | `app/db/session.py` | engine with a pool, one session per request | `get_db` | `SessionPool`, `SessionPoolProofs` (and in `ChainService`, `EntryStore`) |
| Migrations, `create_all` | `alembic/versions/*`, `alembic/env.py`, `app/main.py` | the table's columns, the revision | upgrade, downgrade, start | `SchemaMigration`, `SchemaMigrationProofs` |
| Schemas | `app/schemas/event.py` | none | validation | inputs and answers of the models |
| Start, configuration | `app/main.py`, `app/core/config.py` | none | wiring | only `create_all` |

**How they interact.** All requests share the table and the connection pool and
nothing else; there is no in-process shared state. A request runs in one asyncio
task with a session of its own and gives up control at every `await`, and several
processes may serve one database, so requests interleave between any two
statements. Appenders are serialised by `pg_advisory_xact_lock(1)`; an UPDATE
locks its row until its transaction ends; everything else is READ COMMITTED.
Redaction and archival never take the advisory lock, so they interleave freely
with appends and with each other. An export streams after its handler has
returned, that is after `get_db` has closed its session (FastAPI 0.115): the
first SELECT of the stream opens the session again. Migrations run from a process
of their own, `create_all` at every start of a worker.

**What is hard.** The read of the tail and the insert that depends on it
(`chain_service.py:102`, `:150`); a lock that lives exactly as long as the
transaction; a refresh after the commit that needs a second connection (`:151`);
waiting for the lock with a connection in hand (`:98`); read-modify-write without
a row lock in redaction and archival (`redaction_service.py:40`,
`retention_service.py:43`); a timestamp that loses its zone on SQLite; pages and
exports of a log that grows meanwhile; exports that are abandoned with a
connection; a loop that carries a hash from row to row (`chain_service.py:230`);
migrations that drop what redaction and archival left. The complete list, each at
its line and with the properties aimed at it, is under `hazards` in
`PROJECT.json`.

**What makes each part correct.** Appending: one linear, gap-free chain that
verifies, and a 201 only for what is stored. Verification: "valid" for whatever
the service wrote, and otherwise an answer that points at the change, as far as a
`chain_hash` that was kept can vouch for the rows before it. Redaction: a null in place of
a value exactly where `redacted_fields` proves that value; never undone; never on
an archived entry. Archival: once, for good, with one time. Both: the hashes of
the append stay. Paging and exports: every matching row, once, in order; an
exported record verifies without the rest. Sessions: a connection is back when
the response is complete, and everybody gets one; a stream ends once the log
stops growing. Migrations: a known schema, and
the chain untouched.

## 2. The modules

```
Hashing <- AuditEntry <- ChainService ------------- (INSTANCE) -> ChainLog, EntryStore
              ^              ^------ ChainServiceProofs (also under SessionPoolProofs)
              |              +------ SessionPool <- SessionPoolProofs
              |              +------ VerifyChain <- VerifyChainProofs
              |                                     (with ChainServiceProofs)
              |
              +--- AuditEntryProofs (under all other proofs)
              |
              +--- EntryStore <- RedactionService, RetentionService
                        ^              ^---- EntryLifecycle (INSTANCE ChainLog)
                        |                       ^---- EntryLifecycleProofs
                        |                       +---- SchemaMigration <- SchemaMigrationProofs
                        +--- QueryService <- QueryServiceProofs
                        +--- ExportService <--- AuditExport (with EntryLifecycle)
                                                 ^---- AuditExportProofs
```

`MCChainService`, `MCEntryLifecycle`, `MCQueryService`, `MCAuditExport`,
`MCVerifyChain`, `MCSessionPool` and `MCSchemaMigration` give the constants that a
`.cfg` cannot write; `MCCores` has the events for most of them.

**Hashing.** The digests as injective constructors: SHA-256 is taken to be ideal,
and canonical JSON is abstracted with it. The four descriptive columns of an event
are texts, sequences of characters, and `joined` puts them together with the
separator as `compute_entry_hash` does, so that a separator inside a column is a
state of the model. The parts around them (a number in front, a hex digest and an
ISO 8601 time behind) have no separator in them and stay apart.

**AuditEntry.** `table` is a function from `sequence_number` to a row with the
columns of the ORM model; the four descriptive columns are one record, `core`, and
the UUID is identified with the number. It holds what `append` computes
(`next_sequence_number`, `tail_hash`, `new_entry`), what a database does to an
aware datetime (`stored`: SQLite drops the zone), `_to_utc`, and `verify_chain`.
`chained` says that a table is what appends leave behind, in the columns that no
UPDATE touches (`fixed`); `recorded_log` reads a table as a log.

**ChainService.** `POST /audit/events`, one action per await. The session that
FastAPI opens is lazy: `Connect` takes a connection from the pool at the first
statement, `AcquireLock` is the grant of `pg_advisory_xact_lock`, `ReadTail` the
SELECT of the last row with the computation that follows it, `Insert` the flush
and commit, which makes the row visible and ends the lock and the use of the
connection in one step, `Refresh` the SELECT after the commit on a connection
again, `Respond` the 201. `Fail` is an exception, a timeout or the end of the
process anywhere. On SQLite there is no lock and one appender at a time, as in
the unit tests.

**ChainLog.** What the endpoint promises without any of this: items are appended,
and acknowledgements name an item at its position. The other abstraction of these
handlers is `EntryStore!AppendEvent`, the atomic append that all modules with
redactions, archivals, scans and exports use: `AppendsAtOnce` says that, to the
table, interleaved and failing appenders are nothing but such appends.

**SessionPool.** The appenders of `ChainService`, requests that make do with one
transaction (`Other`) and exports, on one pool. `room` takes the place of the pool
of `ChainService`. An export asks for its connection in its stream, keeps it over
all pages and gives it back with its own commit (`export_service.py:202`, `:271`),
before the last chunk. A client that leaves earlier, or a statement that raises,
leaves the session open: nothing in the generators closes it, and the connection
comes back when the interpreter drops the generator (`Collect`).

**VerifyChain.** `GET /audit/verify` as the loop it is: one SELECT, then one
iteration per step, with `previous_hash` carried along, over a table that an
appender extends meanwhile and that somebody writes to past the service
(`Outside`). The hashes have no key, so such a write is not limited to making
them wrong: a column is overwritten with another value, with no digest or with the
digest of any appended row (`Overwrite`), the hashes of a row are computed anew
(`Rehash`), a row is deleted (`Lose`), given any free number, also one that was
given before (`Renumber`), or added so that it agrees with its predecessor (`Add`).
Only the UNIQUE constraints hold for these writes. `appended` is the table as it was
before the first of them.

**EntryStore.** The table under READ COMMITTED for requests that update rows:
`Flush` waits for the row's lock and holds the changed columns, `Commit` sets
exactly those columns, `Rollback` drops them. An append is one step here, as `AppendsAtOnce` of
`ChainService` justifies.

**RedactionService, RetentionService.** The two handlers: SELECT, the early
exits (404, 409, nothing to do, archived already), the computation from the row
that was read, flush with the refresh on the locked row, the route's commit, and
failure. They differ in what they write: redaction the columns `payload` and
`redacted_fields`, archival `is_archived` and `archived_at`.

**EntryLifecycle.** Any redactors and archivers on the rows of a growing log.

**SchemaMigration.** The requests of `EntryLifecycle` over a schema that changes:
`Startup` (the lifespan's `create_all`), `UpgradeHead` (`alembic upgrade head`, all
revisions in one transaction, as `env.py` runs them) and `Downgrade` (`alembic
downgrade -1`). The ORM names every column in every statement, so a request fails
unless the schema is complete (`Served`). A migration waits for the transactions
that use the table (`Quiet`). A dropped column has, from then on, the value with
which the migration that adds it would fill it; `forgotten` remembers the proofs of
redactions that were dropped.

**QueryService.** Readers that follow `next_cursor`; a page is one SELECT.

**ExportService, AuditExport.** A page of an export is two SELECTs, rows and then
their predecessors' hashes, with everything else in between.

Some definitions have variants named `<definition>_<Fault>` beside them: plausible
bugs, each of which the property named in `PROJECT.json` under `mutants` catches.

## 3. What is checked

| Run | Instance | Shows |
|---|---|---|
| `chain_pg` | 3 clients, 2 connections, 4 entries, 2 clock values | chain verifies, no gap, no UNIQUE violation, 201 only for stored entries, implements `ChainLog`, each append as if atomic, `IInv` |
| `session_pool` | 2 appenders, 1 other request, 2 exports, 2 connections, 2 entries, pages of 1 | every POST and other request ends, and every stream once the log stops growing; connections are back with the response; the lock's holder never waits |
| `lifecycle_concurrent` | 2 redactors, 1 archiver, 2 entries, 2 fields | evidence of redactions, archive flag, chain and log; `IInv`; every request ends |
| `schema_migration` | 1 redactor, 1 archiver, one request at a time, 2 entries, 2 fields, a null among the payloads | the schema is a known one, the chain verifies, only a downgrade loses anything where requests do not overlap; no deadlock |
| `redact_race` | 2 redactors, 1 entry | **violated:** a redaction is undone |
| `archive_during_redact` | 1 redactor, 1 archiver | **violated:** an archived row is redacted |
| `archive_race` | 2 archivers | **violated:** `archived_at` is overwritten |
| `pagination` | 1 reader, 4 entries, pages of 1 and 2, 3 filters | every matching row, once, in order; `ScanIInv` |
| `export_pages` | 1 exporter, 1 redactor and 1 archiver (one request at a time), 3 entries, pages of 2, 3 filters | the same for exports; records verify offline; a committed redaction or archival shows; an unfiltered export can be walked; `SweepIInv`, `CurrentIInv` |
| `export_walk` | 1 exporter, 2 entries of different actors | **violated:** a filtered export cannot be walked |
| `verify_chain` | 1 appender, 3 entries, 2 outside writes, no time zones | the loop's invariant, its verdict, and what a kept `chain_hash` vouches for (`ChangesFound`); `AppendedIInv` |
| `walk_claim` | 1 appender, 2 entries, 1 outside write | **violated:** a log without its last row is valid |

**Findings.** Five runs refute what the repository says of itself.
`redact_fields` and `archive_entry` read a row without `FOR UPDATE` and write
columns computed from it. Two redactions of different fields of one entry both
answer 200, and the later commit brings back the value the earlier one removed.
An archival that commits between a redactor's check of `is_archived` and its
UPDATE is followed by a redaction of the archived row. Two archivals of one entry
both set `archived_at`. `schema_migration`, which admits one request at a time,
shows that all three promises hold as soon as requests do not overlap, even across
upgrades, so the missing row lock is the whole cause. (For the same reason its
`RedactionsSurvive`, `ArchivedStaysFrozen` and `ArchivedAtSurvives` say nothing of
the races; those are what the three violated runs are for.) The other two are about
documents. SCENARIO_C.md:87 says that a filtered export can be verified by walking
its `chain_hash` column, which shows that no record was deleted. The records of a
filtered export do not follow one another, so each is checked against its own
`prev_chain_hash` (as SUMMARY.md:71 and DECISIONS.md:218 say), and a record left
out of the file does not show. `WholeBundleWalks` is what holds: an export without
filters can be walked. SCENARIO_C.md:43 says of `GET /audit/verify` that the walk
"proves no record was added or removed". `walk_claim` deletes the last row, and the
answer is "valid"; a row added at the end is answered so too.

Two disagreements have no run. SCENARIO_C.md:61 says that the walk "proves the
exported data has not been tampered with", but the walk does not read `payload`, as
the next paragraph explains. And `tests/test_export.py:139-145` expects a CSV
header without `prev_chain_hash`, which `export_service.py:49` puts in: the test is
older than the column, and the code cannot pass it.

A refresh that fails after the commit (`chain_service.py:151`) gives the client an
error for an entry that exists. If the client posts again, the log has two entries
with one content. Nothing in the code or the log can tell them apart, since there is
no idempotency key, and `ChainLog` allows both: the models show that no acknowledged
entry is lost, not that none is written twice.

What holds in spite of the races is `RedactionEvidence`: `payload` and
`redacted_fields` are computed together and written together, so a lost update
loses both, and the row is always a correct account of *some* redactions.

**What `verify_chain` notices.** The walk says that the rows fit one another, and
SHA-256 without a key lets anybody make rows that do. So it answers "valid" to a log
whose last rows are gone, to which rows were added at the end, or in which a row and
all rows after it were rewritten with fresh hashes. It does so as well when a
payload was edited (the loop checks `payload_hash` in the entry hash, not `payload`
against it, since a redaction may have replaced it) and when `redacted_fields`,
`is_archived` or `archived_at` were. What it does guarantee is `ChangesFound`: take
any row that still has the `chain_hash` with which it was appended (who noted that
hash elsewhere can tell). If nothing up to that row was changed in a
column the hashes cover, the answer names no row up to it; if something was changed
or is gone, the answer names a row from the first change up to that row. Whatever
was done to the table, with however many computed and copied hashes, a hash that
somebody kept vouches for everything before it, and nothing vouches for what comes
after the last such row. ADR-010 (DECISIONS.md:168), which says that deleting a row
breaks the chain, is about rows with a successor that keeps its hash. The
comment at `hashing.py:63-65` is right about columns without the separator: if
`event_type` or `actor_id` contain "|", moving the boundary between two of them
leaves the text, and so the hash, as it was. The properties and theorems are about
columns without it.

**What migrations do.** `create_all` on an empty database makes the whole table and
no revision, so `alembic upgrade head` afterwards finds a table and fails, for as
long as that table is there; README.md:66 has the order right. `SchemaTypeOK` admits
that state, so it is described here and not refuted by a run. A request between a
downgrade and the next upgrade fails. A downgrade of 002 drops the proofs of
redactions, and the nulls stay: `EvidenceAccounted` says that this is the only way
to have a null without a proof, and that redacting such a field again does not make
up a proof. SUMMARY.md:83 says that migration 002 fills in `payload_hash` for
existing rows; it does not touch that column, which is in 001.

**Bounds and why they are enough.** A collision of appenders takes two of them,
and waiting for a connection while another waits for the lock takes a third with a
pool of two. Four entries let each client append more than once and give the
genesis row, an ordinary row and the one after it. In `session_pool` the two
connections can both be with exports, one with an abandoned one, while an appender
that has committed waits to refresh. A lost update takes two writers and two
fields. A cursor goes wrong at a page that is full, exactly full or short; three
rows with pages of two, and four rows with pages of one and two, have all three,
before and after a filter. The export run has one core and a filter that lets
nothing through in place of several actors; the theorems are about any filter. Two
outside writes let one hide the other: a row is removed and its successor given its
number, or a row is edited and its hashes are computed anew. Three rows have a
first, a middle and a last. The writes of `Outside` come before a SELECT, which does
not see what comes after it, and not before a refresh, which would only fail if its
row were gone. `VIEW Unread` leaves out `acked`, which no action reads and no
property but `AckedDurable` inside `IInv`. Two events that differ only in where
`event_type` ends are what a missing separator confuses. `MaxEntries` bounds the
log, `MaxDamage` the outside writes, `MaxInFlight` the overlapping requests, `Time` the
clock (which may stand still or go back: nothing in the code needs it to advance),
`PageSize` stands for `_PAGE_SIZE` (500) and `PoolSize` for the engine's pool.
Deadlock is not checked, since the system may stop: the log is bounded and nobody
has to send a request. Only in `schema_migration` a migration or a start is always
possible, and there it is checked.

**Fairness.** `Responsive` assumes that a statement the database can run is run
(weak fairness), and strong fairness where a request competes: PostgreSQL grants
the advisory lock and row locks in the order of asking, and the pool serves
waiters in order. In `SessionPool` clients also read what they are sent or leave,
and an abandoned generator is collected some time. `StreamsEnd` has a premise, that
the table changes no more from some time on. The loop at `export_service.py:168` has
no upper bound: it stops at a page that is not full, and a log that gains a full page
per round trip keeps it going. In the model `MaxEntries` stops the growth, so the
premise holds in every behaviour of the run, and the run says nothing of a log that
grows for ever. No fairness is assumed of
clients that post, of failures, or of the commit that a failed request never
reaches.

## 4. What is proved

All proofs hold for any number of clients, readers, exporters, redactors, archivers
and entries, any payloads, field names, filters and page sizes, any clock, and both
databases. They assume what the ASSUMEs say (the database is one of the two, the
constants that are numbers are, `NoClient` is not a client, `None` not a number,
redactors and archivers are disjoint and make up the sessions) and what the modules
model: an ideal hash, READ COMMITTED, and, except in `VerifyChainProofs`, no write
to the table from outside the service.

**AuditEntryProofs** begins with `JoinedInjective`: texts without the separator can
be told from their join. The first separator of the join is where the first text
ends, so the texts are cut off one after the other. Then the lemmas: the tail of a table numbered `1 .. n`, the
columns of rows that append wrote, `ChainedVerifies` (a `chained` table passes
`verify_chain`, where `_to_utc` matters), `NextIsUnique`, `InsertedIsChained`,
`FixedKeepsChained`, `InsertAppends` and `FixedKeepsLog`; and `HeadVouchesForChain`:
of two tables that `verify_chain` accepts, with equally many rows and the same last
`chain_hash`, every row agrees in every hashed column. So whoever keeps the last
hash and the count can hold the service to the whole log. It goes down from the
last row by the smallest row that differs, with `JoinedInjective` for the columns.

**ChainServiceProofs.** `ChainVerifies` alone is not inductive: a table that
verifies says nothing of the row an appender is about to insert. `IInv` adds that
the table is `chained`, that at most one appender is past its read of the tail
(`Exclusive`: the lock's holder, or the only request on SQLite), that what it is
about to insert continues the table as it is now (`PendingFresh`), and that a
handler holds a stored row after its commit (`Committed`). From it follow
`TypeCorrect`, `Verifiable`, `NoGaps`, `NoCollisions`, `Durability` and
`Refinement` (the handlers implement `ChainLog`). `AppendsAtomic` is the second
refinement: an `Insert` is `EntryStore!AppendEvent` on the table as it is at that
moment, because by `PendingFresh` what was computed at the read of the tail is what
would be computed now. Its one extra need is the bound of the models: an appender
is let in only while it may still write (`AskedBounded`), so the guard of the atomic
append holds when the insert comes.

**SessionPoolProofs.** Every step of `SessionPool` is a step of `ChainService` or
leaves its variables alone (`AppendersUndisturbed`, a refinement: sharing the pool with exports and other
requests shows an appender nothing new), so all of `ChainServiceProofs` holds here
too.
`PoolIInv` adds that finitely many connections are out, however many clients there
are, which is what counting them needs, and that the holder of the advisory lock is
between its grant and its commit. From it follow `PoolBounded`,
`ConnectionsReturned` and `HolderNeverWaits`. `NoCircularWait` is the safety half of
the absence of deadlock, for any size of the pool: while no connection is left,
somebody who has one needs nothing that another holds. It rests on the lock's holder
never being among those who wait for a connection.

**VerifyChainProofs.** The inductive invariant is `Looping`, of the table as it was
selected, which may be any table: the rows behind the loop are right and
`previous_hash` is that of the last of them. From it follow `LoopRight` and
`VerdictsRight`: the loop computes what `AuditEntry!verify_chain` defines. `WalkIInv`
adds that every row, whoever wrote it, is under its own number (`Recorded`,
`Numbered`). What the answer says of the log is proved of tables first, without
regard to how they came about. `VouchesForPrevious`: if a row that is not broken has
the `chain_hash` of the appended row with its number, then its hashed columns are
those of that row, and its predecessor is there with the `chain_hash` that it was
appended with. It takes `JoinedInjective`, and so columns without "|".
`KeptHashVouches` goes down from the kept `chain_hash` by the greatest row that would
not have its own, and `BrokenWhereChanged` says where the first broken row lies, for
*any* two such tables. `ChangesAreFound` is then the answer of the loop: `History`
says that `appended` is `chained`, which is `IInv` of `ChainServiceProofs` until the
first outside write, and does not change after it (`AppendedInvariance`). The
theorems about tables do not depend on `Outside` at all: they ask only that rows are
under their own numbers and hold values of their columns' kinds, and leave every hash
to whoever wrote it.

**EntryLifecycleProofs.** `RedactionEvidence` is not inductive either: what a
redactor flushes was computed from a row that may have changed since. `IInv` adds
`Pending`: changes that are computed or flushed account for the payload *hashed at
the append*, and since no UPDATE touches that hash they stay right whatever others
commit. `RedactionAccounts` is the heart of it: a redactable field has a value,
so it has no proof yet, and that value is the one posted. From it follow
`TypeCorrect`, `EvidenceKept`, `Verifiable`, `ArchivedForGood` and `LogKept`.
Two theorems say how far the races reach. `RedactionsKept`: with one redactor, and
any archivers, appenders and failures beside it, no redaction is undone.
`ArchivedOnce`: with one archiver, and any redactors, no `archived_at` is
overwritten. So a lost redaction takes two overlapping redactions and a second time
two overlapping archivals, as in `redact_race` and `archive_race`, and the two kinds
of request do not disturb each other's columns. `UpToDate` (what the redactor is
about to write keeps every proof that is in the row) and `FirstArchivals` (the row
the archiver is about to archive is active) are what is inductive then.

**SchemaMigrationProofs.** `MigrationIInv` is weaker about rows (a downgrade may
have dropped proofs) and adds the schema. A migration runs only when no request has
computed anything (`Quiet`), so pending changes never meet another schema; a field
whose proof was dropped is null, so it is not redactable and gets no second proof
(`RedactionAccountsBut`). It holds for overlapping requests, beyond the run's one at
a time. From it follow `SchemaTyped`, `VerifiableAcross` and `EvidenceAcross`. With
`MaxInFlight = 1`, `Fresh` is inductive as well: the row that a request computed
from still has, when it commits, the redactions and the archive flag that it had
when it was read, because everybody else is idle (`Alone`). From that follow the
promises that the races break: `RedactionsKeptAlone`, `ArchivedFrozenAlone` and
`ArchivedAtKeptAlone`.

**QueryServiceProofs.** `ScanIInv`: what was received is what matches up to the
cursor. From it follow `ScanTyped`, `ScansSkipNothing`, `ScansComplete` and
`ScansAscend`. `FirstNumbers` of `AuditEntryProofs` says what ORDER BY with LIMIT
returns: the whole set, or k of its members below all the others.

**AuditExportProofs.** `ExportsOnlyRead`: a behaviour with exports is one of
`EntryLifecycle`, so its theorems hold beside exports. `ExportIInv` adds to the invariant of `EntryLifecycle` that
what an exporter holds and has sent of a row agrees with the table in the fixed
columns, that each `prev_chain_hash` is the predecessor's, that the page at hand
lies after the cursor and everything sent before it. From it follow `BundlesVerify`
and `ExportsAscend`. `SweepIInv` adds that up to the cursor every row was sent or is
one the filter lets through no more (an archival may come in between; it does not
go away again). From it follow `ExportsComplete` and `WholeBundlesWalk`. That a page
has a last row rests on the well-ordering of the natural numbers
(`WellFoundedInduction`, taken with a set for the relation). `ExportsCurrent`
assumes one redactor, as its run does: two can undo what was redacted before the
export began, and the export would rightly show it. `CurrentIInv` puts `UpToDate`
beside `ExportIInv` and follows each row from the start of the export (`began`) to
the page it was read in and the records it was sent in (`StreamCurrent`).

**Only model-checked.** The liveness properties `Responsive`, `OthersEnd` and
`StreamsEnd`: the prover has neither ENABLED nor reasoning about fairness from it.
Every other property of a passing run is a theorem; `ArchivedFrozen`,
`BundleWalks` and `NothingRemoved`, which their runs refute, have none, and `RedactionSticks` and
`ArchivedAtKept` are theorems only for one redactor and one archiver. Nothing is
proved by induction over data, which the installed provers cannot instantiate, and no
module here uses RECURSIVE, which would cost a proof its arithmetic solver.

## 5. What is not modelled

- Canonical JSON and the hex digits under the hashes: the digest is a function of
  the payload itself.
- Pre-ping and the overflow of the pool, which only move its limit; a pool timeout
  is one of the failures.
- Outside writes beside scans, exports, redactions and archivals, and between a
  SELECT of `verify_chain` and its answer, where they cannot matter.
- `get_event_by_id`, one read of one row; the copying of columns into the response
  schemas, and their validation; the wiring at the start, configuration, the health
  check. (SCENARIO_C.md:84 shows an export with `from_time` and `to_time`; the route
  has no such parameters.)
- Indexes; offline migrations, which print SQL; a downgrade of several revisions at
  once, which is several of one.
- Isolation levels other than PostgreSQL's default. Crashes of the database:
  a commit is taken to be durable.

## 6. Plan

Done: every component whose operations change state, each with its proofs.

Done as well: the atomic append of `EntryStore` as what `ChainService` does in several
steps, and every safety property that holds as a theorem.

What is left would be compositions: the row locks of redactors inside `SessionPool`,
and outside writes beside the requests that read and update rows.
