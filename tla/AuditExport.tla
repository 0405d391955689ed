---------------------------- MODULE AuditExport ----------------------------
(***************************************************************************)
(* Exports that run while entries are appended, redacted and archived.     *)
(***************************************************************************)
EXTENDS EntryLifecycle, ExportService

allVars == <<table, tx, redaction, archival, export>>

ServiceInit == Init /\ ExportInit

ServiceNext ==
  \/ Next /\ UNCHANGED export
  \/ \E x \in Exporter : ExportStep(x) /\ UNCHANGED <<redaction, archival>>

ServiceSpec == ServiceInit /\ [][ServiceNext]_allVars

-----------------------------------------------------------------------------
sent_by(q) == UNION {DOMAIN q.sent[i] : i \in DOMAIN q.sent}

Sent(x) == sent_by(export[x])

\* The rows an exporter has received, with their prev_chain_hash.
Bundle(x) ==
  UNION {{export[x].sent[i][s] : s \in DOMAIN export[x].sent[i]} :
           i \in DOMAIN export[x].sent}

Exporting == {x \in Exporter : export[x].at # "idle"}

\* Whatever the filter leaves out, each record of a bundle can be verified
\* from the bundle alone: its entry hash from its columns, and its chain hash
\* from its prev_chain_hash.
BundleVerifies ==
  \A x \in Exporting : \A record \in Bundle(x) :
    /\ entry_hash_matches(record.row)
    /\ record.row.chain_hash =
         compute_chain_hash(record.row.entry_hash, record.prev_chain_hash)

\* A finished export has every row that was there when it began and that its
\* filter still lets through, however the table changed while it ran.
ExportComplete ==
  \A x \in Exporting : export[x].at = "done" =>
    \A s \in DOMAIN export[x].began :
      \/ s \in Sent(x)
      \/ table[s].core \notin export[x].filter.cores
      \/ table[s].is_archived /\ ~ export[x].filter.include_archived

\* Records come in the order of the chain, none of them twice.
ExportAscends ==
  \A x \in Exporting : \A i, j \in DOMAIN export[x].sent : i < j =>
    \A s \in DOMAIN export[x].sent[i], t \in DOMAIN export[x].sent[j] : s < t

\* An export shows no value that was redacted before it began, nor a row that
\* was archived before it began when it leaves archived rows out.  With one
\* redactor: two of them can undo what was redacted before it began.
ExportCurrent ==
  \A x \in Exporting : \A record \in Bundle(x) :
    LET s == record.row.sequence_number
    IN  s \in DOMAIN export[x].began =>
          /\ \A f \in DOMAIN export[x].began[s].redacted_fields :
               record.row.payload[f] = None
          /\ export[x].began[s].is_archived => export[x].filter.include_archived

\* Each record sent follows from the one that was sent before it.
walks(x) ==
  LET row(s) == (CHOOSE record \in Bundle(x) : record.row.sequence_number = s).row
      previous(s) ==
        LET earlier == {r \in Sent(x) : r < s}
        IN  IF earlier = {} THEN GENESIS_HASH ELSE row(Max(earlier)).chain_hash
  IN  \A s \in Sent(x) :
        row(s).chain_hash = compute_chain_hash(row(s).entry_hash, previous(s))

\* The chain hashes of an export without a filter follow from one another from
\* genesis on: a record that is missing from it would be noticed.
WholeBundleWalks ==
  \A x \in Exporting :
    export[x].filter = [cores |-> Core, include_archived |-> TRUE] => walks(x)

\* A finished export for some resource type "can be verified offline by walking
\* the chain_hash column sequentially".
BundleWalks == \A x \in Exporting : export[x].at = "done" => walks(x)

-----------------------------------------------------------------------------
(* The inductive invariant.  What an exporter has read of a row is right   *)
(* by the columns that never change, whatever is committed meanwhile.      *)

PageRight(t, page) ==
  \A s \in DOMAIN page : s \in DOMAIN t /\ fixed(page[s]) = fixed(t[s])

RecordsRight(t, records) ==
  \A s \in DOMAIN records :
    /\ s \in DOMAIN t
    /\ fixed(records[s].row) = fixed(t[s])
    /\ records[s].prev_chain_hash =
         IF s = 1 THEN GENESIS_HASH ELSE t[s - 1].chain_hash

\* The page at hand lies after what was sent, and what was sent ascends.
InOrder(q) ==
  /\ q.at = "hashes" => /\ DOMAIN q.page # {}
                        /\ q.last_seq # None => \A s \in DOMAIN q.page : s > q.last_seq
  /\ \A i \in DOMAIN q.sent : \A s \in DOMAIN q.sent[i] :
       q.last_seq # None /\ s <= q.last_seq
  /\ \A i, j \in DOMAIN q.sent : i < j =>
       \A s \in DOMAIN q.sent[i], t \in DOMAIN q.sent[j] : s < t

StreamRight(t, q) ==
  /\ IsSeq(q.sent)
  /\ q.last_seq # None => q.last_seq \in Nat
  /\ q.at = "hashes" => PageRight(t, q.page)
  /\ \A i \in DOMAIN q.sent : RecordsRight(t, q.sent[i])
  /\ InOrder(q)

ExportIInv ==
  /\ IInv
  /\ DOMAIN export = Exporter
  /\ \A x \in Exporting : StreamRight(table, export[x])

\* Row s is among those got, or the filter lets it through no more.
settled(t, q, got, s) ==
  \/ s \in got
  \/ t[s].core \notin q.filter.cores
  \/ t[s].is_archived /\ ~ q.filter.include_archived

\* Up to the cursor, up to the end of the page at hand, and after the last page
\* up to where the table ended when the export began, all rows are settled.
Swept(t, q) ==
  LET got  == sent_by(q)
      held == got \cup DOMAIN q.page
  IN  /\ DOMAIN q.began \subseteq DOMAIN t
      /\ q.last_seq # None =>
           /\ q.last_seq \in DOMAIN t
           /\ \A s \in DOMAIN t : s <= q.last_seq => settled(t, q, got, s)
      /\ q.at = "hashes" =>
           /\ \A s \in DOMAIN t, u \in DOMAIN q.page : s <= u => settled(t, q, held, s)
           /\ is_last_page(DOMAIN q.page) =>
                \A s \in DOMAIN q.began : settled(t, q, held, s)
      /\ q.at \in {"commit", "done"} =>
           \A s \in DOMAIN q.began : settled(t, q, got, s)

SweepIInv == ExportIInv /\ \A x \in Exporting : Swept(table, export[x])

\* What the row shows of s is no older than the beginning of the export.
shows_current(q, s, row) ==
  s \in DOMAIN q.began =>
    /\ \A f \in DOMAIN q.began[s].redacted_fields : row.payload[f] = None
    /\ q.began[s].is_archived => q.filter.include_archived

\* What was redacted or archived when the export began still is, and shows in
\* what was read since.
StreamCurrent(t, q) ==
  /\ \A s \in DOMAIN q.began :
       /\ s \in DOMAIN t
       /\ DOMAIN q.began[s].redacted_fields \subseteq DOMAIN t[s].redacted_fields
       /\ q.began[s].is_archived => t[s].is_archived
  /\ q.at = "hashes" => \A s \in DOMAIN q.page : shows_current(q, s, q.page[s])
  /\ \A i \in DOMAIN q.sent : \A s \in DOMAIN q.sent[i] :
       shows_current(q, s, q.sent[i][s].row)

\* With one redactor, as ExportCurrent.
CurrentIInv ==
  /\ ExportIInv
  /\ UpToDate
  /\ \A x \in Exporting : StreamCurrent(table, export[x])

=============================================================================
