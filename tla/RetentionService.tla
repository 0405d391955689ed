-------------------------- MODULE RetentionService --------------------------
(***************************************************************************)
(* POST /audit/events/{id}/archive (app/services/retention_service.py,     *)
(* app/api/routes/redaction.py): read the row, and unless it is archived   *)
(* already flush the flag and the time, and commit.                        *)
(***************************************************************************)
EXTENDS EntryStore

CONSTANT Archiver   \* the sessions that archive

ASSUME ArchiverAssumption == Archiver \subseteq Session

VARIABLE archival   \* each archiver's request

\* Fault: the time is not recorded.
archive_changes_FlagOnly(now) == [is_archived |-> TRUE]
archive_changes(now) ==
  [is_archived |-> TRUE, archived_at |-> stored(utc(now))]

\* Fault: an archived row is archived again.
already_archived_Never(entry) == FALSE
already_archived(entry) == entry.is_archived

-----------------------------------------------------------------------------
RetentionInit == archival = [a \in Archiver |-> [at |-> "idle"]]

Finished(a) == archival' = [archival EXCEPT ![a] = [at |-> "idle"]]

Archive(a, number) ==
  /\ archival[a].at = "idle"
  /\ archival' = [archival EXCEPT ![a] = [at |-> "select", number |-> number]]
  /\ UNCHANGED storeVars

\* 404
ArchiveNotFound(a) ==
  /\ archival[a].at = "select"
  /\ archival[a].number \notin DOMAIN table
  /\ Finished(a)
  /\ UNCHANGED storeVars

ArchiveUnchanged(a) ==
  /\ archival[a].at = "select"
  /\ archival[a].number \in DOMAIN table
  /\ already_archived(table[archival[a].number])
  /\ archival' = [archival EXCEPT ![a] = [at |-> "commit"]]
  /\ UNCHANGED storeVars

ArchiveSelect(a) ==
  /\ archival[a].at = "select"
  /\ archival[a].number \in DOMAIN table
  /\ ~ already_archived(table[archival[a].number])
  /\ \E now \in Time :
       archival' = [archival EXCEPT ![a] =
                      [at      |-> "flush",
                       number  |-> archival[a].number,
                       changes |-> archive_changes(now)]]
  /\ UNCHANGED storeVars

\* flush, and the refresh that reads the row this session has locked
ArchiveFlush(a) ==
  /\ archival[a].at = "flush"
  /\ Flush(a, archival[a].number, archival[a].changes)
  /\ archival' = [archival EXCEPT ![a] = [at |-> "commit"]]

\* 200
ArchiveCommit(a) ==
  /\ archival[a].at = "commit"
  /\ Commit(a)
  /\ Finished(a)

\* An exception, a timeout or a lost connection before the commit.
ArchiveFail(a) ==
  /\ archival[a].at # "idle"
  /\ Rollback(a)
  /\ Finished(a)

\* What an archiver does once it has a request.
ArchiveStep(a) ==
  \/ ArchiveNotFound(a)
  \/ ArchiveUnchanged(a)
  \/ ArchiveSelect(a)
  \/ ArchiveFlush(a)
  \/ ArchiveCommit(a)

=============================================================================
