---------------------------- MODULE ExportService ----------------------------
(***************************************************************************)
(* GET /audit/export (app/services/export_service.py, app/api/routes/      *)
(* export.py).  An export streams the table page by page; a page takes a   *)
(* SELECT of its rows and another one of their predecessors' chain hashes, *)
(* and each statement sees what is committed when it runs.  JSON and CSV   *)
(* differ in layout only.                                                  *)
(*                                                                         *)
(* The yields of a page's rows are one step with its second SELECT: they   *)
(* read nothing, and a client that leaves between two of them has a prefix *)
(* of what it has here.                                                    *)
(***************************************************************************)
EXTENDS EntryStore, Sequences

CONSTANTS
  Exporter,
  ExportFilter,   \* records [cores, include_archived]
  PageSize        \* _PAGE_SIZE

ASSUME PageSizeAssumption == PageSize \in Nat \ {0}

VARIABLE export   \* each exporter's request: where it is, what it has sent

\* Fault: the parameter is not passed on.
selected_Archived(t, after, filter) ==
  {s \in DOMAIN t : (after # None => s > after) /\ t[s].core \in filter.cores}
\* _build_base_query, after last_seq
selected(t, after, filter) ==
  {s \in DOMAIN t : /\ after # None => s > after
                    /\ t[s].core \in filter.cores
                    /\ t[s].is_archived => filter.include_archived}

\* Fault: the predecessor is looked up among the rows of the page.
build_prev_hash_map_OfPage(t, page) ==
  [s \in DOMAIN page |->
     IF s = 1 THEN GENESIS_HASH
     ELSE IF s - 1 \in DOMAIN page THEN page[s - 1].chain_hash ELSE None]
\* _build_prev_hash_map; None is its empty string.
build_prev_hash_map(t, page) ==
  [s \in DOMAIN page |->
     IF s = 1 THEN GENESIS_HASH
     ELSE IF s - 1 \in DOMAIN t THEN t[s - 1].chain_hash ELSE None]

\* Fault: a page that is full is taken for the last one.
is_last_page_Full(rows) == Cardinality(rows) <= PageSize
is_last_page(rows) == Cardinality(rows) < PageSize

\* Fault: the next page starts after this page's first row.
last_row_First(rows) == Min(rows)
\* rows[-1].sequence_number
last_row(rows) == Max(rows)

entry_to_dict(row, prev_chain_hash) ==
  [row |-> row, prev_chain_hash |-> prev_chain_hash]

-----------------------------------------------------------------------------
NoExport == [at |-> "idle"]

\* A request that goes on from q; the code does not keep `began', the table
\* when the request came in.
streaming(q, at, last_seq, page, sent) ==
  [at |-> at, filter |-> q.filter, began |-> q.began,
   last_seq |-> last_seq, page |-> page, sent |-> sent]

ExportInit == export = [x \in Exporter |-> NoExport]

ExportRequest(x, filter) ==
  /\ export[x].at = "idle"
  /\ export' = [export EXCEPT ![x] =
       streaming([filter |-> filter, began |-> table], "rows", None, << >>, << >>)]
  /\ UNCHANGED storeVars

ExportRows(x) ==
  /\ export[x].at = "rows"
  /\ LET q    == export[x]
         rows == least(selected(table, q.last_seq, q.filter), PageSize)
     IN  export' = [export EXCEPT ![x] =
           IF rows = {}
           THEN streaming(q, "commit", q.last_seq, << >>, q.sent)
           ELSE streaming(q, "hashes", q.last_seq, [s \in rows |-> table[s]], q.sent)]
  /\ UNCHANGED storeVars

\* No statement is sent for the predecessors of the first row alone, which
\* has none.
ExportHashes(x) ==
  /\ export[x].at = "hashes"
  /\ LET q       == export[x]
         rows    == DOMAIN q.page
         prev    == build_prev_hash_map(table, q.page)
         records == [s \in rows |-> entry_to_dict(q.page[s], prev[s])]
     IN  export' = [export EXCEPT ![x] =
           streaming(q, IF is_last_page(rows) THEN "commit" ELSE "rows",
                     last_row(rows), << >>, Append(q.sent, records))]
  /\ UNCHANGED storeVars

\* The commit of the reads, and the closing bracket.
ExportCommit(x) ==
  /\ export[x].at = "commit"
  /\ LET q == export[x]
     IN  export' = [export EXCEPT ![x] =
           streaming(q, "done", q.last_seq, << >>, q.sent)]
  /\ UNCHANGED storeVars

\* The client has it all, or leaves, or an exception ends the stream.
ExportEnd(x) ==
  /\ export[x].at # "idle"
  /\ export' = [export EXCEPT ![x] = NoExport]
  /\ UNCHANGED storeVars

ExportStep(x) ==
  \/ \E filter \in ExportFilter : ExportRequest(x, filter)
  \/ ExportRows(x)
  \/ ExportHashes(x)
  \/ ExportCommit(x)
  \/ ExportEnd(x)

=============================================================================
