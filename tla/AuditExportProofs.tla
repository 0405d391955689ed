-------------------------- MODULE AuditExportProofs --------------------------
(***************************************************************************)
(* Proofs about AuditExport, for any page size, any filters and any number *)
(* of exporters, redactors, archivers and entries.                         *)
(***************************************************************************)
EXTENDS AuditExport, EntryLifecycleProofs

-----------------------------------------------------------------------------
\* An export only reads: what is proved of EntryLifecycle holds beside it.
THEOREM ExportsOnlyRead == ServiceSpec => Spec
<1>1. ServiceInit => Init
  BY DEF ServiceInit
<1>2. [ServiceNext]_allVars => [Next]_vars
  BY DEF ServiceNext, allVars, vars, ExportStep, ExportRequest, ExportRows,
         ExportHashes, ExportCommit, ExportEnd, storeVars
<1> QED
  BY <1>1, <1>2, PTL DEF ServiceSpec, Spec

-----------------------------------------------------------------------------
(* The last row of a page.                                                 *)

\* A page has a last row, and last_row finds it.
LEMMA LastRow ==
  ASSUME NEW n \in Nat, NEW S, S \subseteq 1 .. n, S # {}
  PROVE  last_row(S) \in S /\ \A s \in S : s <= last_row(S)
<1>1. S \subseteq Nat /\ \A s \in S : s <= n
  OBVIOUS
<1> QED
  BY <1>1, GreatestNumber DEF last_row

-----------------------------------------------------------------------------
(* What other requests do to a stream: nothing.                            *)

\* Rows that were read stay right by their fixed columns.
LEMMA RightKept ==
  ASSUME NEW t, NEW u, good(t), keeps(t, u)
  PROVE  /\ \A page : PageRight(t, page) => PageRight(u, page)
         /\ \A records : RecordsRight(t, records) => RecordsRight(u, records)
<1>1. PICK n \in Nat : DOMAIN t = 1 .. n
  BY ChainedLength DEF good
<1>2. /\ DOMAIN t \subseteq DOMAIN u
      /\ \A s \in DOMAIN t : fixed(u[s]) = fixed(t[s])
  BY DEF keeps
<1>3. \A s \in DOMAIN t : u[s].chain_hash = t[s].chain_hash
  BY <1>2 DEF fixed
<1>4. ASSUME NEW page, PageRight(t, page)
      PROVE  PageRight(u, page)
  BY <1>2, <1>4 DEF PageRight
<1>5. ASSUME NEW records, RecordsRight(t, records)
      PROVE  RecordsRight(u, records)
  <2>1. ASSUME NEW s \in DOMAIN records
        PROVE  /\ s \in DOMAIN u
               /\ fixed(records[s].row) = fixed(u[s])
               /\ records[s].prev_chain_hash =
                    IF s = 1 THEN GENESIS_HASH ELSE u[s - 1].chain_hash
    <3>1. s \in DOMAIN t /\ (s = 1 \/ s - 1 \in DOMAIN t)
      BY <1>1, <1>5, <2>1 DEF RecordsRight
    <3> QED
      BY <1>2, <1>3, <1>5, <2>1, <3>1 DEF RecordsRight
  <2> QED
    BY <2>1 DEF RecordsRight
<1> QED
  BY <1>4, <1>5

\* So a whole stream stays right while others commit.
LEMMA StreamKept ==
  ASSUME NEW t, NEW u, good(t), keeps(t, u), NEW q, StreamRight(t, q)
  PROVE  StreamRight(u, q)
BY RightKept DEF StreamRight

-----------------------------------------------------------------------------
(* The steps of an export.                                                 *)

\* A request that has read nothing yet is right.
LEMMA RequestRight ==
  ASSUME NEW t, NEW q, NEW at, at # "hashes"
  PROVE  StreamRight(t, streaming(q, at, None, << >>, << >>))
<1> DEFINE r == streaming(q, at, None, << >>, << >>)
<1>1. r.at # "hashes" /\ r.sent = << >> /\ r.last_seq = None
  BY DEF streaming
<1>2. IsSeq(r.sent)
  <2>1. \A S : << >> \in Seq(S)
    OBVIOUS
  <2> QED
    BY <1>1, <2>1 DEF IsSeq
<1>3. InOrder(r)
  BY <1>1 DEF InOrder
<1> QED
  BY <1>1, <1>2, <1>3 DEF StreamRight

\* A stream that only goes on with its state.
LEMMA ContinueRight ==
  ASSUME NEW t, NEW q, StreamRight(t, q), NEW at, at # "hashes"
  PROVE  StreamRight(t, streaming(q, at, q.last_seq, << >>, q.sent))
<1> DEFINE r == streaming(q, at, q.last_seq, << >>, q.sent)
<1>1. r.at # "hashes" /\ r.sent = q.sent /\ r.last_seq = q.last_seq
  BY DEF streaming
<1>2. InOrder(r)
  BY <1>1 DEF InOrder, StreamRight
<1> QED
  BY <1>1, <1>2 DEF StreamRight

\* The SELECT of a page's rows.
LEMMA RowsRight ==
  ASSUME NEW t, NEW q, StreamRight(t, q), NEW rows, rows # {},
         rows \subseteq DOMAIN t,
         q.last_seq # None => \A s \in rows : s > q.last_seq
  PROVE  StreamRight(t, streaming(q, "hashes", q.last_seq,
                                  [s \in rows |-> t[s]], q.sent))
<1> DEFINE page == [s \in rows |-> t[s]]
           r    == streaming(q, "hashes", q.last_seq, page, q.sent)
<1>1. r.page = page /\ r.sent = q.sent /\ r.last_seq = q.last_seq
  BY DEF streaming
<1>2. PageRight(t, page)
  BY DEF PageRight
<1>3. InOrder(r)
  BY <1>1 DEF InOrder, StreamRight
<1> QED
  BY <1>1, <1>2, <1>3 DEF StreamRight

\* The new records of a page.
LEMMA RecordsOfPage ==
  ASSUME NEW t, chained(t, Event, Time), NEW page, PageRight(t, page)
  PROVE  RecordsRight(t, [s \in DOMAIN page |->
           entry_to_dict(page[s], build_prev_hash_map(t, page)[s])])
<1>1. PICK n \in Nat : DOMAIN t = 1 .. n
  BY ChainedLength
<1>2. ASSUME NEW s \in DOMAIN page
      PROVE  /\ s \in DOMAIN t
             /\ fixed(page[s]) = fixed(t[s])
             /\ build_prev_hash_map(t, page)[s] =
                  IF s = 1 THEN GENESIS_HASH ELSE t[s - 1].chain_hash
  <2>1. s \in DOMAIN t /\ (s = 1 \/ s - 1 \in DOMAIN t)
    BY <1>1, <1>2 DEF PageRight
  <2> QED
    BY <1>2, <2>1 DEF PageRight, build_prev_hash_map
<1> QED
  BY <1>2 DEF RecordsRight, entry_to_dict

\* The SELECT of the predecessors, and the yields.
LEMMA HashesRight ==
  ASSUME NEW t, chained(t, Event, Time), NEW q, StreamRight(t, q),
         q.at = "hashes", NEW at, at # "hashes"
  PROVE  LET prev    == build_prev_hash_map(t, q.page)
             records == [s \in DOMAIN q.page |-> entry_to_dict(q.page[s], prev[s])]
         IN  StreamRight(t, streaming(q, at, last_row(DOMAIN q.page), << >>,
                                      Append(q.sent, records)))
<1> DEFINE rows    == DOMAIN q.page
           prev    == build_prev_hash_map(t, q.page)
           records == [s \in rows |-> entry_to_dict(q.page[s], prev[s])]
           new     == Append(q.sent, records)
           last    == last_row(rows)
           r       == streaming(q, at, last, << >>, new)
<1>1. PICK n \in Nat : DOMAIN t = 1 .. n
  BY ChainedLength
<1>2. RecordsRight(t, records)
  BY RecordsOfPage DEF StreamRight
<1>3. rows \subseteq 1 .. n /\ rows # {}
  BY <1>1 DEF StreamRight, PageRight, InOrder
<1>4. last \in rows /\ \A s \in rows : s <= last
  BY <1>3, LastRow
<1>5. last \in Nat /\ last # None
  BY <1>3, <1>4, NoneAssumption
<1>6. r.at # "hashes" /\ r.sent = new /\ r.last_seq = last
  BY DEF streaming
<1>7. DOMAIN records = rows
  OBVIOUS
<1> DEFINE k == Len(q.sent)
<1>8. /\ IsSeq(new)
      /\ k \in Nat
      /\ DOMAIN q.sent = 1 .. k
      /\ DOMAIN new = 1 .. (k + 1)
      /\ \A i \in DOMAIN q.sent : new[i] = q.sent[i]
      /\ new[k + 1] = records
  BY AppendPages DEF StreamRight
<1> HIDE DEF rows, records, new, last, r, k, prev
<1>9. ASSUME NEW i \in DOMAIN q.sent, NEW s \in DOMAIN q.sent[i]
      PROVE  s \in Nat /\ s <= last /\ \A u \in rows : s < u
  <2>1. s \in 1 .. n /\ q.last_seq \in Nat /\ s <= q.last_seq /\ q.last_seq # None
    BY <1>1 DEF StreamRight, RecordsRight, InOrder
  <2>2. \A u \in rows : u > q.last_seq
    BY <2>1 DEF StreamRight, InOrder, rows
  <2> QED
    BY <1>3, <1>4, <2>1, <2>2
<1>10. \A i \in DOMAIN new : RecordsRight(t, new[i])
  BY <1>2, <1>8 DEF StreamRight
<1>11. \A i \in DOMAIN new : \A s \in DOMAIN new[i] : s <= last
  BY <1>4, <1>7, <1>8, <1>9
<1>12. ASSUME NEW i \in DOMAIN new, NEW j \in DOMAIN new, i < j,
              NEW s \in DOMAIN new[i], NEW u \in DOMAIN new[j]
       PROVE  s < u
  <2>1. i \in DOMAIN q.sent /\ new[i] = q.sent[i]
    BY <1>8, <1>12
  <2>2. CASE j = k + 1
    BY <1>7, <1>8, <1>9, <1>12, <2>1, <2>2
  <2>3. CASE j # k + 1
    <3>1. j \in DOMAIN q.sent /\ new[j] = q.sent[j]
      BY <1>8, <2>3
    <3> QED
      BY <1>12, <2>1, <3>1 DEF StreamRight, InOrder
  <2> QED
    BY <2>2, <2>3
<1>13. InOrder(r)
  BY <1>5, <1>6, <1>11, <1>12 DEF InOrder
<1>14. StreamRight(t, r)
  BY <1>5, <1>6, <1>8, <1>10, <1>13 DEF StreamRight
<1> QED
  BY <1>14 DEF r, new, records, rows, last, prev

-----------------------------------------------------------------------------
(* The inductive invariant.                                                *)

\* No export runs at first.
LEMMA ServiceInitIInv == ServiceInit => ExportIInv
<1> SUFFICES ASSUME ServiceInit
             PROVE  ExportIInv
  OBVIOUS
<1>1. IInv
  BY InitIInv DEF ServiceInit
<1>2. DOMAIN export = Exporter /\ Exporting = {}
  BY DEF ServiceInit, ExportInit, NoExport, Exporting
<1> QED
  BY <1>1, <1>2 DEF ExportIInv

\* A step of the other services.
LEMMA OthersIInv ==
  ASSUME ExportIInv, [Next]_vars, UNCHANGED export
  PROVE  ExportIInv'
<1>1. IInv' /\ keeps(table, table')
  BY NextIInv DEF ExportIInv
<1>2. good(table)
  BY Parts DEF ExportIInv
<1>3. Exporting' = Exporting
  BY DEF Exporting
<1>4. ASSUME NEW x \in Exporting
      PROVE  StreamRight(table', export[x])
  BY <1>1, <1>2, <1>4, StreamKept DEF ExportIInv
<1> QED
  BY <1>1, <1>3, <1>4 DEF ExportIInv

\* A step of an export that leaves the table alone and the stream right.
LEMMA OwnStep ==
  ASSUME ExportIInv, UNCHANGED <<table, tx, redaction, archival>>,
         NEW x \in Exporter, NEW q, export' = [export EXCEPT ![x] = q],
         q.at # "idle" => StreamRight(table, q)
  PROVE  ExportIInv'
<1>1. IInv'
  <2>1. UNCHANGED vars
    BY DEF vars
  <2> QED
    BY <2>1, NextIInv DEF ExportIInv
<1>2. DOMAIN export' = Exporter
  BY DEF ExportIInv
<1>3. ASSUME NEW y \in Exporting'
      PROVE  StreamRight(table, export'[y])
  <2>1. y \in Exporter /\ export'[y].at # "idle"
    BY <1>3 DEF Exporting
  <2>2. CASE y = x
    <3>1. export'[y] = q
      BY <2>2 DEF ExportIInv
    <3> QED
      BY <2>1, <3>1
  <2>3. CASE y # x
    <3>1. export'[y] = export[y]
      BY <2>1, <2>3 DEF ExportIInv
    <3>2. y \in Exporting
      BY <2>1, <3>1 DEF Exporting
    <3> QED
      BY <3>1, <3>2 DEF ExportIInv
  <2> QED
    BY <2>2, <2>3
<1> QED
  BY <1>1, <1>2, <1>3 DEF ExportIInv

\* Every step of an export preserves the invariant.
LEMMA ExportStepIInv ==
  ASSUME ExportIInv, NEW x \in Exporter, ExportStep(x), UNCHANGED <<redaction, archival>>
  PROVE  ExportIInv'
<1> DEFINE q == export[x]
<1>1. q.at # "idle" => StreamRight(table, q)
  BY DEF ExportIInv, Exporting
<1>2. good(table) /\ chained(table, Event, Time)
  BY Parts DEF ExportIInv, good
<1>3. UNCHANGED <<table, tx, redaction, archival>>
  BY DEF ExportStep, ExportRequest, ExportRows, ExportHashes, ExportCommit,
         ExportEnd, storeVars
<1>4. ASSUME NEW filter \in ExportFilter, ExportRequest(x, filter)
      PROVE  ExportIInv'
  <2> DEFINE r == streaming([filter |-> filter, began |-> table], "rows",
                            None, << >>, << >>)
  <2>1. export' = [export EXCEPT ![x] = r]
    BY <1>4 DEF ExportRequest
  <2>2. StreamRight(table, r)
    BY RequestRight
  <2> HIDE DEF r
  <2> QED
    BY <1>3, <2>1, <2>2, OwnStep
<1>5. ASSUME ExportRows(x)
      PROVE  ExportIInv'
  <2> DEFINE rows == least(selected(table, q.last_seq, q.filter), PageSize)
             none == streaming(q, "commit", q.last_seq, << >>, q.sent)
             some == streaming(q, "hashes", q.last_seq,
                               [s \in rows |-> table[s]], q.sent)
  <2>1. StreamRight(table, q)
    BY <1>1, <1>5 DEF ExportRows
  <2>2. /\ rows \subseteq DOMAIN table
        /\ q.last_seq # None => \A s \in rows : s > q.last_seq
    BY DEF least, selected
  <2>3. StreamRight(table, none)
    BY <2>1, ContinueRight
  <2>4. rows # {} => StreamRight(table, some)
    BY <2>1, <2>2, RowsRight
  <2>5. export' = [export EXCEPT ![x] = IF rows = {} THEN none ELSE some]
    BY <1>5 DEF ExportRows
  <2> HIDE DEF rows, none, some
  <2>6. CASE rows = {}
    <3>1. export' = [export EXCEPT ![x] = none]
      BY <2>5, <2>6
    <3> QED
      BY <1>3, <2>3, <3>1, OwnStep
  <2>7. CASE rows # {}
    <3>1. export' = [export EXCEPT ![x] = some]
      BY <2>5, <2>7
    <3> QED
      BY <1>3, <2>4, <2>7, <3>1, OwnStep
  <2> QED
    BY <2>6, <2>7
<1>6. ASSUME ExportHashes(x)
      PROVE  ExportIInv'
  <2> DEFINE rows    == DOMAIN q.page
             at      == IF is_last_page(rows) THEN "commit" ELSE "rows"
             prev    == build_prev_hash_map(table, q.page)
             records == [s \in DOMAIN q.page |-> entry_to_dict(q.page[s], prev[s])]
             r       == streaming(q, at, last_row(DOMAIN q.page), << >>,
                                  Append(q.sent, records))
  <2>1. StreamRight(table, q) /\ q.at = "hashes"
    BY <1>1, <1>6 DEF ExportHashes
  <2>2. at # "hashes"
    OBVIOUS
  <2>3. export' = [export EXCEPT ![x] = r]
    BY <1>6 DEF ExportHashes
  <2> HIDE DEF at
  <2>4. StreamRight(table, r)
    BY <1>2, <2>1, <2>2, HashesRight
  <2> HIDE DEF r
  <2> QED
    BY <1>3, <2>3, <2>4, OwnStep
<1>7. ASSUME ExportCommit(x)
      PROVE  ExportIInv'
  <2> DEFINE r == streaming(q, "done", q.last_seq, << >>, q.sent)
  <2>1. StreamRight(table, q)
    BY <1>1, <1>7 DEF ExportCommit
  <2>2. StreamRight(table, r)
    BY <2>1, ContinueRight
  <2>3. export' = [export EXCEPT ![x] = r]
    BY <1>7 DEF ExportCommit
  <2> HIDE DEF r
  <2> QED
    BY <1>3, <2>2, <2>3, OwnStep
<1>8. ASSUME ExportEnd(x)
      PROVE  ExportIInv'
  <2>1. export' = [export EXCEPT ![x] = NoExport]
    BY <1>8 DEF ExportEnd
  <2>2. NoExport.at = "idle"
    BY DEF NoExport
  <2> HIDE DEF NoExport
  <2> QED
    BY <1>3, <2>1, <2>2, OwnStep
<1> QED
  BY <1>4, <1>5, <1>6, <1>7, <1>8 DEF ExportStep

\* The invariant holds in every state, whatever runs beside an export.
THEOREM ExportInvariance == ServiceSpec => []ExportIInv
<1>1. ExportIInv /\ [ServiceNext]_allVars => ExportIInv'
  <2> SUFFICES ASSUME ExportIInv, [ServiceNext]_allVars
               PROVE  ExportIInv'
    OBVIOUS
  <2>1. CASE UNCHANGED allVars
    BY <2>1, OthersIInv DEF allVars, vars
  <2> QED
    BY <2>1, OthersIInv, ExportStepIInv DEF ServiceNext
<1> QED
  BY ServiceInitIInv, <1>1, PTL DEF ServiceSpec

\* Each record of a bundle can be verified from the bundle alone, whatever the
\* filter left out and whatever was appended, redacted or archived meanwhile.
THEOREM BundlesVerify == ServiceSpec => []BundleVerifies
<1>1. ASSUME ExportIInv
      PROVE  BundleVerifies
  <2>1. ASSUME NEW x \in Exporting, NEW i \in DOMAIN export[x].sent,
               NEW s \in DOMAIN export[x].sent[i]
        PROVE  LET record == export[x].sent[i][s]
               IN  /\ entry_hash_matches(record.row)
                   /\ record.row.chain_hash =
                        compute_chain_hash(record.row.entry_hash, record.prev_chain_hash)
    <3> DEFINE record == export[x].sent[i][s]
    <3>1. /\ s \in DOMAIN table
          /\ fixed(record.row) = fixed(table[s])
          /\ record.prev_chain_hash =
               IF s = 1 THEN GENESIS_HASH ELSE table[s - 1].chain_hash
      BY <1>1, <2>1 DEF ExportIInv, StreamRight, RecordsRight
    <3>2. chained(table, Event, Time)
      BY <1>1 DEF ExportIInv, IInv
    <3>3. /\ entry_hash_matches(table[s])
          /\ table[s].chain_hash =
               compute_chain_hash(table[s].entry_hash,
                 IF s = 1 THEN GENESIS_HASH ELSE table[s - 1].chain_hash)
      BY <3>1, <3>2, ChainedRow
    <3> HIDE DEF record
    <3>4. entry_hash_matches(record.row)
      BY <3>1, <3>3 DEF fixed, entry_hash_matches
    <3>5. record.row.chain_hash =
            compute_chain_hash(record.row.entry_hash, record.prev_chain_hash)
      BY <3>1, <3>3 DEF fixed
    <3> QED
      BY <3>4, <3>5 DEF record
  <2> QED
    BY <2>1 DEF BundleVerifies, Bundle
<1> QED
  BY ExportInvariance, <1>1, PTL

\* Records come in the order of the chain, none of them twice.
THEOREM ExportsAscend == ServiceSpec => []ExportAscends
<1>1. ExportIInv => ExportAscends
  BY DEF ExportIInv, StreamRight, InOrder, ExportAscends
<1> QED
  BY ExportInvariance, <1>1, PTL

-----------------------------------------------------------------------------
(* Nothing is left out: the sweep of an export over the table.             *)

\* A row that is settled stays so: its core is kept, and so is its archival.
LEMMA SettledKept ==
  ASSUME NEW t, NEW u, keeps(t, u), NEW q, NEW got, NEW s \in DOMAIN t,
         settled(t, q, got, s)
  PROVE  settled(u, q, got, s)
<1>1. fixed(u[s]) = fixed(t[s]) /\ (t[s].is_archived => u[s].is_archived)
  BY DEF keeps
<1>2. u[s].core = t[s].core
  BY <1>1 DEF fixed
<1> QED
  BY <1>1, <1>2 DEF settled

\* Rows that are appended meanwhile come after the cursor and the page.
LEMMA SweptKept ==
  ASSUME NEW t, NEW u, good(t), good(u), keeps(t, u),
         NEW q, StreamRight(t, q), Swept(t, q)
  PROVE  Swept(u, q)
<1>1. PICK n \in Nat : DOMAIN t = 1 .. n
  BY ChainedLength DEF good
<1>2. PICK m \in Nat : DOMAIN u = 1 .. m
  BY ChainedLength DEF good
<1>3. DOMAIN t \subseteq DOMAIN u
  BY DEF keeps
<1>4. \A a \in DOMAIN t, s \in DOMAIN u : s <= a => s \in DOMAIN t
  BY <1>1, <1>2
<1>5. q.at = "hashes" => DOMAIN q.page \subseteq DOMAIN t
  BY DEF StreamRight, PageRight
<1>6. \A got : \A s \in DOMAIN t : settled(t, q, got, s) => settled(u, q, got, s)
  BY SettledKept
<1>7. DOMAIN q.began \subseteq DOMAIN t
  BY DEF Swept
<1>8. q.last_seq # None =>
        /\ q.last_seq \in DOMAIN u
        /\ \A s \in DOMAIN u : s <= q.last_seq => settled(u, q, sent_by(q), s)
  BY <1>3, <1>4, <1>6 DEF Swept
<1>9. q.at = "hashes" =>
        \A s \in DOMAIN u, a \in DOMAIN q.page :
          s <= a => settled(u, q, sent_by(q) \cup DOMAIN q.page, s)
  BY <1>4, <1>5, <1>6 DEF Swept
<1> QED
  BY <1>3, <1>6, <1>7, <1>8, <1>9 DEF Swept

\* A row that a page does not select is settled.
LEMMA UnselectedSettled ==
  ASSUME NEW t, NEW n \in Nat, DOMAIN t = 1 .. n, NEW q, Swept(t, q),
         NEW s \in DOMAIN t, s \notin selected(t, q.last_seq, q.filter)
  PROVE  settled(t, q, sent_by(q), s)
<1>1. CASE q.last_seq # None /\ s <= q.last_seq
  BY <1>1 DEF Swept
<1>2. CASE q.last_seq = None
  BY <1>2 DEF selected, settled
<1>3. CASE q.last_seq # None /\ ~ (s <= q.last_seq)
  <2>1. q.last_seq \in 1 .. n
    BY <1>3 DEF Swept
  <2>2. s > q.last_seq
    BY <1>3, <2>1
  <2> QED
    BY <2>2 DEF selected, settled
<1> QED
  BY <1>1, <1>2, <1>3

\* What is settled with fewer rows got is settled with more.
LEMMA SettledMore ==
  ASSUME NEW t, NEW q, NEW got, NEW more, got \subseteq more, NEW s,
         settled(t, q, got, s)
  PROVE  settled(t, q, more, s)
BY DEF settled

\* The SELECT of a page's rows.
LEMMA RowsSwept ==
  ASSUME NEW t, NEW n \in Nat, DOMAIN t = 1 .. n, NEW q, Swept(t, q)
  PROVE  LET rows == least(selected(t, q.last_seq, q.filter), PageSize)
         IN  /\ rows = {} => Swept(t, streaming(q, "commit", q.last_seq, << >>, q.sent))
             /\ Swept(t, streaming(q, "hashes", q.last_seq,
                                   [s \in rows |-> t[s]], q.sent))
<1> DEFINE sel  == selected(t, q.last_seq, q.filter)
           rows == least(sel, PageSize)
           none == streaming(q, "commit", q.last_seq, << >>, q.sent)
           some == streaming(q, "hashes", q.last_seq, [s \in rows |-> t[s]], q.sent)
           got  == sent_by(q)
<1>1. sel \subseteq 1 .. n
  BY DEF selected
<1>2. PageSize \in Nat \ {0}
  BY PageSizeAssumption
<1> HIDE DEF sel
<1>3. /\ rows \subseteq sel
      /\ \A u \in rows, s \in sel : s <= u => s \in rows
      /\ is_last_page(rows) => rows = sel
      /\ rows = {} => sel = {}
  <2>1. rows = first(sel, PageSize)
    BY DEF least, first
  <2> HIDE DEF rows
  <2> QED
    BY <1>1, <1>2, <2>1, FirstNumbers DEF is_last_page
<1> HIDE DEF rows
<1>4. \A s \in DOMAIN t : s \notin sel => settled(t, q, got, s)
  BY UnselectedSettled DEF sel
<1>5. \A s : settled(t, q, got, s) => settled(t, q, got \cup rows, s)
  BY DEF settled
<1>6. \A s \in rows : settled(t, q, got \cup rows, s)
  BY DEF settled
<1>7. /\ DOMAIN q.began \subseteq DOMAIN t
      /\ q.last_seq # None =>
           /\ q.last_seq \in DOMAIN t
           /\ \A s \in DOMAIN t : s <= q.last_seq => settled(t, q, got, s)
  BY DEF Swept
<1>8. ASSUME NEW r, r.filter = q.filter, NEW g, NEW s
      PROVE  settled(t, r, g, s) <=> settled(t, q, g, s)
  BY <1>8 DEF settled
<1>9. ASSUME rows = {}
      PROVE  Swept(t, none)
  <2>1. /\ none.filter = q.filter /\ none.began = q.began /\ none.at = "commit"
        /\ none.last_seq = q.last_seq /\ none.sent = q.sent
    BY DEF streaming
  <2>2. sent_by(none) = got
    BY <2>1 DEF sent_by
  <2>3. \A s \in DOMAIN q.began : settled(t, q, got, s)
    BY <1>3, <1>4, <1>7, <1>9
  <2> HIDE DEF none, got
  <2>4. \A s : settled(t, none, got, s) <=> settled(t, q, got, s)
    BY <1>8, <2>1
  <2> QED
    BY <1>7, <2>1, <2>2, <2>3, <2>4 DEF Swept
<1>10. Swept(t, some)
  <2>1. /\ some.filter = q.filter /\ some.began = q.began /\ some.at = "hashes"
        /\ some.last_seq = q.last_seq /\ some.sent = q.sent
        /\ DOMAIN some.page = rows
    BY DEF streaming
  <2>2. sent_by(some) = got
    BY <2>1 DEF sent_by
  <2>3. ASSUME NEW s \in DOMAIN t, NEW u \in rows, s <= u
        PROVE  settled(t, q, got \cup rows, s)
    BY <1>3, <1>4, <1>5, <1>6, <2>3
  <2>4. ASSUME is_last_page(rows), NEW s \in DOMAIN t
        PROVE  settled(t, q, got \cup rows, s)
    BY <1>3, <1>4, <1>5, <1>6, <2>4
  <2> HIDE DEF some, got
  <2>5. \A g, s : settled(t, some, g, s) <=> settled(t, q, g, s)
    BY <1>8, <2>1
  <2>6. some.last_seq # None =>
          \A s \in DOMAIN t : s <= some.last_seq => settled(t, some, got, s)
    BY <1>7, <2>1, <2>5
  <2>7. \A s \in DOMAIN t, u \in rows : s <= u => settled(t, some, got \cup rows, s)
    BY <2>3, <2>5
  <2>8. is_last_page(rows) =>
          \A s \in DOMAIN q.began : settled(t, some, got \cup rows, s)
    BY <1>7, <2>4, <2>5
  <2> QED
    BY <1>7, <2>1, <2>2, <2>6, <2>7, <2>8 DEF Swept
<1> QED
  BY <1>9, <1>10 DEF none, some, rows, sel

\* The SELECT of the predecessors, and the yields.
LEMMA HashesSwept ==
  ASSUME NEW t, NEW n \in Nat, DOMAIN t = 1 .. n, NEW q, StreamRight(t, q),
         Swept(t, q), q.at = "hashes", NEW records, DOMAIN records = DOMAIN q.page
  PROVE  Swept(t, streaming(q, IF is_last_page(DOMAIN q.page) THEN "commit" ELSE "rows",
                            last_row(DOMAIN q.page), << >>, Append(q.sent, records)))
<1> DEFINE rows == DOMAIN q.page
           at   == IF is_last_page(rows) THEN "commit" ELSE "rows"
           new  == Append(q.sent, records)
           last == last_row(rows)
           r    == streaming(q, at, last, << >>, new)
           k    == Len(q.sent)
<1>1. rows \subseteq DOMAIN t /\ rows # {}
  BY DEF StreamRight, PageRight, InOrder
<1>2. last \in rows
  BY <1>1, LastRow
<1>3. /\ k \in Nat
      /\ DOMAIN q.sent = 1 .. k
      /\ DOMAIN new = 1 .. (k + 1)
      /\ \A i \in DOMAIN q.sent : new[i] = q.sent[i]
      /\ new[k + 1] = records
  BY AppendPages DEF StreamRight
<1>4. /\ r.filter = q.filter /\ r.began = q.began /\ r.last_seq = last
      /\ r.sent = new /\ r.at = at
  BY DEF streaming
<1>5. /\ at \in {"commit", "rows"}
      /\ at = "commit" => is_last_page(rows)
  OBVIOUS
<1> HIDE DEF new, r, k, at, last
<1>6. sent_by(r) = sent_by(q) \cup rows
  <2>1. DOMAIN r.sent = DOMAIN q.sent \cup {k + 1}
    BY <1>3, <1>4
  <2>2. \A i \in DOMAIN q.sent : r.sent[i] = q.sent[i]
    BY <1>3, <1>4
  <2>3. DOMAIN r.sent[k + 1] = rows
    BY <1>3, <1>4
  <2> QED
    BY <2>1, <2>2, <2>3 DEF sent_by
<1>7. \A g, s : settled(t, r, g, s) <=> settled(t, q, g, s)
  BY <1>4 DEF settled
<1>8. /\ DOMAIN q.began \subseteq DOMAIN t
      /\ \A s \in DOMAIN t : s <= last => settled(t, q, sent_by(q) \cup rows, s)
      /\ is_last_page(rows) =>
           \A s \in DOMAIN q.began : settled(t, q, sent_by(q) \cup rows, s)
  BY <1>2 DEF Swept
<1>9. /\ \A s \in DOMAIN t : s <= last => settled(t, r, sent_by(r), s)
      /\ is_last_page(rows) => \A s \in DOMAIN r.began : settled(t, r, sent_by(r), s)
  BY <1>4, <1>6, <1>7, <1>8
<1>10. Swept(t, r)
  <2>1. DOMAIN r.began \subseteq DOMAIN t /\ r.last_seq \in DOMAIN t
    BY <1>1, <1>2, <1>4, <1>8
  <2>2. r.at # "hashes" /\ r.at # "done"
    BY <1>4, <1>5
  <2> QED
    BY <1>4, <1>5, <1>9, <2>1, <2>2 DEF Swept
<1> QED
  BY <1>10 DEF r, new, at, last

\* The commit of the reads, after the last page.
LEMMA CommitSwept ==
  ASSUME NEW t, NEW q, Swept(t, q), q.at = "commit"
  PROVE  Swept(t, streaming(q, "done", q.last_seq, << >>, q.sent))
<1> DEFINE r == streaming(q, "done", q.last_seq, << >>, q.sent)
<1>1. /\ r.filter = q.filter /\ r.began = q.began /\ r.last_seq = q.last_seq
      /\ r.sent = q.sent /\ r.at = "done"
  BY DEF streaming
<1> HIDE DEF r
<1>2. \A g, s : settled(t, r, g, s) <=> settled(t, q, g, s)
  BY <1>1 DEF settled
<1>3. sent_by(r) = sent_by(q)
  BY <1>1 DEF sent_by
<1>4. Swept(t, r)
  BY <1>1, <1>2, <1>3 DEF Swept
<1> QED
  BY <1>4 DEF r

\* A step of an export that leaves the table alone and the sweep right.
LEMMA OwnSweep ==
  ASSUME SweepIInv, ExportIInv', UNCHANGED table,
         NEW x \in Exporter, NEW q, export' = [export EXCEPT ![x] = q],
         q.at # "idle" => Swept(table, q)
  PROVE  SweepIInv'
<1>1. ASSUME NEW y \in Exporting'
      PROVE  Swept(table, export'[y])
  <2>1. y \in Exporter /\ export'[y].at # "idle"
    BY <1>1 DEF Exporting
  <2>2. CASE y = x
    <3>1. export'[y] = q
      BY <2>2 DEF SweepIInv, ExportIInv
    <3> QED
      BY <2>1, <3>1
  <2>3. CASE y # x
    <3>1. export'[y] = export[y]
      BY <2>1, <2>3 DEF SweepIInv, ExportIInv
    <3>2. y \in Exporting
      BY <2>1, <3>1 DEF Exporting
    <3> QED
      BY <3>1, <3>2 DEF SweepIInv
  <2> QED
    BY <2>2, <2>3
<1> QED
  BY <1>1 DEF SweepIInv

\* Every step of an export sweeps on.
LEMMA ExportStepSweeps ==
  ASSUME SweepIInv, ExportIInv', NEW x \in Exporter, ExportStep(x)
  PROVE  SweepIInv'
<1> DEFINE q == export[x]
<1>1. q.at # "idle" => StreamRight(table, q) /\ Swept(table, q)
  BY DEF SweepIInv, ExportIInv, Exporting
<1>2. PICK n \in Nat : DOMAIN table = 1 .. n
  BY Parts, ChainedLength DEF SweepIInv, ExportIInv, good
<1>3. UNCHANGED table
  BY DEF ExportStep, ExportRequest, ExportRows, ExportHashes, ExportCommit,
         ExportEnd, storeVars
<1>4. ASSUME NEW filter \in ExportFilter, ExportRequest(x, filter)
      PROVE  SweepIInv'
  <2> DEFINE r == streaming([filter |-> filter, began |-> table], "rows",
                            None, << >>, << >>)
  <2>1. export' = [export EXCEPT ![x] = r]
    BY <1>4 DEF ExportRequest
  <2>2. Swept(table, r)
    BY DEF Swept, streaming
  <2> HIDE DEF r
  <2> QED
    BY <1>3, <2>1, <2>2, OwnSweep
<1>5. ASSUME ExportRows(x)
      PROVE  SweepIInv'
  <2> DEFINE rows == least(selected(table, q.last_seq, q.filter), PageSize)
             none == streaming(q, "commit", q.last_seq, << >>, q.sent)
             some == streaming(q, "hashes", q.last_seq,
                               [s \in rows |-> table[s]], q.sent)
  <2>1. Swept(table, q)
    BY <1>1, <1>5 DEF ExportRows
  <2>2. (rows = {} => Swept(table, none)) /\ Swept(table, some)
    BY <1>2, <2>1, RowsSwept
  <2>3. export' = [export EXCEPT ![x] = IF rows = {} THEN none ELSE some]
    BY <1>5 DEF ExportRows
  <2> HIDE DEF rows, none, some
  <2>4. CASE rows = {}
    <3>1. export' = [export EXCEPT ![x] = none]
      BY <2>3, <2>4
    <3> QED
      BY <1>3, <2>2, <2>4, <3>1, OwnSweep
  <2>5. CASE rows # {}
    <3>1. export' = [export EXCEPT ![x] = some]
      BY <2>3, <2>5
    <3> QED
      BY <1>3, <2>2, <3>1, OwnSweep
  <2> QED
    BY <2>4, <2>5
<1>6. ASSUME ExportHashes(x)
      PROVE  SweepIInv'
  <2> DEFINE rows    == DOMAIN q.page
             prev    == build_prev_hash_map(table, q.page)
             records == [s \in rows |-> entry_to_dict(q.page[s], prev[s])]
             r       == streaming(q, IF is_last_page(rows) THEN "commit" ELSE "rows",
                                  last_row(rows), << >>, Append(q.sent, records))
  <2>1. StreamRight(table, q) /\ Swept(table, q) /\ q.at = "hashes"
    BY <1>1, <1>6 DEF ExportHashes
  <2>2. DOMAIN records = DOMAIN q.page
    OBVIOUS
  <2>3. export' = [export EXCEPT ![x] = r]
    BY <1>6 DEF ExportHashes
  <2> HIDE DEF records
  <2>4. Swept(table, r)
    BY <1>2, <2>1, <2>2, HashesSwept
  <2> HIDE DEF r
  <2> QED
    BY <1>3, <2>3, <2>4, OwnSweep
<1>7. ASSUME ExportCommit(x)
      PROVE  SweepIInv'
  <2> DEFINE r == streaming(q, "done", q.last_seq, << >>, q.sent)
  <2>1. Swept(table, q) /\ q.at = "commit"
    BY <1>1, <1>7 DEF ExportCommit
  <2>2. Swept(table, r)
    BY <2>1, CommitSwept
  <2>3. export' = [export EXCEPT ![x] = r]
    BY <1>7 DEF ExportCommit
  <2> HIDE DEF r
  <2> QED
    BY <1>3, <2>2, <2>3, OwnSweep
<1>8. ASSUME ExportEnd(x)
      PROVE  SweepIInv'
  <2>1. export' = [export EXCEPT ![x] = NoExport]
    BY <1>8 DEF ExportEnd
  <2>2. NoExport.at = "idle"
    BY DEF NoExport
  <2> HIDE DEF NoExport
  <2> QED
    BY <1>3, <2>1, <2>2, OwnSweep
<1> QED
  BY <1>4, <1>5, <1>6, <1>7, <1>8 DEF ExportStep

\* A step of the other services.
LEMMA OthersSweep ==
  ASSUME SweepIInv, ExportIInv', [Next]_vars, UNCHANGED export
  PROVE  SweepIInv'
<1>1. good(table) /\ good(table') /\ keeps(table, table')
  <2>1. IInv /\ IInv'
    BY DEF SweepIInv, ExportIInv
  <2>2. good(table)
    BY <2>1, Parts
  <2>3. good(table')
    BY <2>1 DEF IInv, TypeOK, RedactionEvidence, good
  <2> QED
    BY <2>1, <2>2, <2>3, NextIInv
<1>2. Exporting' = Exporting
  BY DEF Exporting
<1>3. ASSUME NEW x \in Exporting
      PROVE  Swept(table', export[x])
  BY <1>1, <1>3, SweptKept DEF SweepIInv, ExportIInv
<1> QED
  BY <1>2, <1>3 DEF SweepIInv

\* Up to its cursor an export leaves nothing out, whatever runs beside it.
THEOREM SweepInvariance == ServiceSpec => []SweepIInv
<1>1. ServiceInit => SweepIInv
  BY ServiceInitIInv DEF ServiceInit, ExportInit, NoExport, Exporting, SweepIInv
<1>2. SweepIInv /\ ExportIInv' /\ [ServiceNext]_allVars => SweepIInv'
  <2> SUFFICES ASSUME SweepIInv, ExportIInv', [ServiceNext]_allVars
               PROVE  SweepIInv'
    OBVIOUS
  <2>1. CASE UNCHANGED allVars
    BY <2>1, OthersSweep DEF allVars, vars
  <2> QED
    BY <2>1, OthersSweep, ExportStepSweeps DEF ServiceNext
<1> QED
  BY ExportInvariance, <1>1, <1>2, PTL DEF ServiceSpec

\* A finished export has every row that was there when it began and that its
\* filter still lets through, for any page size and filter.
THEOREM ExportsComplete == ServiceSpec => []ExportComplete
<1>1. ASSUME SweepIInv
      PROVE  ExportComplete
  <2>1. ASSUME NEW x \in Exporting, export[x].at = "done",
               NEW s \in DOMAIN export[x].began
        PROVE  settled(table, export[x], Sent(x), s)
    BY <1>1, <2>1 DEF SweepIInv, Swept, Sent
  <2> QED
    BY <2>1 DEF ExportComplete, settled
<1> QED
  BY SweepInvariance, <1>1, PTL

\* An export without a filter walks: each chain hash follows from the one
\* before it in the bundle, from genesis on.
THEOREM WholeBundlesWalk == ServiceSpec => []WholeBundleWalks
<1>1. ASSUME SweepIInv, NEW x \in Exporting,
             export[x].filter = [cores |-> Core, include_archived |-> TRUE]
      PROVE  walks(x)
  <2> DEFINE q      == export[x]
             row(s) == (CHOOSE record \in Bundle(x) : record.row.sequence_number = s).row
             previous(s) ==
               LET earlier == {r \in Sent(x) : r < s}
               IN  IF earlier = {} THEN GENESIS_HASH ELSE row(Max(earlier)).chain_hash
  <2>1. chained(table, Event, Time)
    BY <1>1, Parts DEF SweepIInv, ExportIInv, good
  <2>2. PICK n \in Nat : DOMAIN table = 1 .. n
    BY <2>1, ChainedLength
  <2>3. ASSUME NEW i \in DOMAIN q.sent, NEW s \in DOMAIN q.sent[i]
        PROVE  /\ s \in DOMAIN table /\ fixed(q.sent[i][s].row) = fixed(table[s])
               /\ q.sent[i][s].row.sequence_number = s
               /\ q.last_seq # None /\ q.last_seq \in DOMAIN table
    <3>1. s \in DOMAIN table /\ fixed(q.sent[i][s].row) = fixed(table[s])
      BY <1>1, <2>3 DEF SweepIInv, ExportIInv, StreamRight, RecordsRight
    <3>2. table[s].sequence_number = s
      BY <2>1, <3>1, WrittenColumns DEF chained
    <3>3. q.sent[i][s].row.sequence_number = s
      BY <3>1, <3>2 DEF fixed
    <3>4. q.last_seq # None /\ q.last_seq \in DOMAIN table
      BY <1>1, <2>3 DEF SweepIInv, ExportIInv, StreamRight, InOrder, Swept
    <3> QED
      BY <3>1, <3>3, <3>4
  <2>4. ASSUME NEW s \in DOMAIN table
        PROVE  table[s].core \in Core
    BY <2>1, <2>4, WrittenColumns DEF chained, Event
  <2>5. ASSUME NEW s \in Sent(x), NEW r \in DOMAIN table, r <= s
        PROVE  r \in Sent(x)
    <3>1. /\ q.last_seq # None /\ q.last_seq \in DOMAIN table
          /\ s \in DOMAIN table /\ s <= q.last_seq
      BY <1>1, <2>3, <2>5 DEF Sent, sent_by, SweepIInv, ExportIInv, StreamRight, InOrder
    <3>2. r <= q.last_seq
      BY <2>2, <2>5, <3>1
    <3>3. settled(table, q, Sent(x), r)
      BY <1>1, <3>1, <3>2 DEF SweepIInv, Swept, Sent
    <3> QED
      BY <1>1, <2>4, <3>3 DEF settled
  <2>6. ASSUME NEW s \in Sent(x)
        PROVE  s \in DOMAIN table /\ fixed(row(s)) = fixed(table[s])
    <3>1. \E record \in Bundle(x) : record.row.sequence_number = s
      BY <2>3, <2>6 DEF Sent, sent_by, Bundle
    <3> DEFINE it == CHOOSE record \in Bundle(x) : record.row.sequence_number = s
    <3>2. it \in Bundle(x) /\ it.row.sequence_number = s
      BY <3>1
    <3> HIDE DEF it
    <3>3. PICK i \in DOMAIN q.sent : \E u \in DOMAIN q.sent[i] : it = q.sent[i][u]
      BY <3>2 DEF Bundle
    <3>4. PICK u \in DOMAIN q.sent[i] : it = q.sent[i][u]
      BY <3>3
    <3>5. u = s
      BY <2>3, <3>2, <3>4
    <3>6. s \in DOMAIN table /\ fixed(it.row) = fixed(table[s])
      BY <2>3, <3>4, <3>5
    <3> QED
      BY <3>6 DEF it
  <2> HIDE DEF row
  <2>7. ASSUME NEW s \in Sent(x)
        PROVE  previous(s) = IF s = 1 THEN GENESIS_HASH ELSE table[s - 1].chain_hash
    <3> DEFINE earlier == {r \in Sent(x) : r < s}
    <3>1. s \in 1 .. n /\ Sent(x) \subseteq 1 .. n
      BY <2>2, <2>6
    <3>2. CASE s = 1
      <4>1. earlier = {}
        BY <3>1, <3>2
      <4> QED
        BY <3>2, <4>1
    <3>3. CASE s # 1
      <4>1. s - 1 \in DOMAIN table /\ s - 1 <= s
        BY <2>2, <3>1, <3>3
      <4>2. s - 1 \in Sent(x)
        BY <2>5, <4>1
      <4>3. s - 1 \in earlier /\ \A r \in earlier : r <= s - 1
        BY <3>1, <4>2
      <4>4. Max(earlier) \in earlier /\ \A r \in earlier : r <= Max(earlier)
        <5>1. earlier \subseteq Nat /\ earlier # {} /\ \A r \in earlier : r <= n
          BY <3>1, <4>3
        <5> HIDE DEF earlier
        <5> QED
          BY <5>1, GreatestNumber
      <4>5. Max(earlier) = s - 1
        <5>1. Max(earlier) \in 1 .. n /\ Max(earlier) <= s - 1 /\ s - 1 <= Max(earlier)
          BY <3>1, <4>3, <4>4
        <5> HIDE DEF earlier
        <5> QED
          BY <3>1, <5>1
      <4>6. earlier # {}
        BY <4>3
      <4>7. row(s - 1).chain_hash = table[s - 1].chain_hash
        BY <2>6, <4>2 DEF fixed
      <4> HIDE DEF earlier
      <4>8. previous(s) = row(s - 1).chain_hash
        BY <4>5, <4>6 DEF earlier
      <4> QED
        BY <3>3, <4>7, <4>8
    <3> QED
      BY <3>2, <3>3
  <2> HIDE DEF previous
  <2>8. ASSUME NEW s \in Sent(x)
        PROVE  row(s).chain_hash = compute_chain_hash(row(s).entry_hash, previous(s))
    <3>1. table[s].chain_hash =
            compute_chain_hash(table[s].entry_hash,
              IF s = 1 THEN GENESIS_HASH ELSE table[s - 1].chain_hash)
      BY <2>1, <2>6, ChainedRow
    <3>2. row(s).chain_hash = table[s].chain_hash /\ row(s).entry_hash = table[s].entry_hash
      BY <2>6 DEF fixed
    <3> QED
      BY <2>7, <3>1, <3>2
  <2> QED
    BY <2>8 DEF walks, row, previous
<1>2. SweepIInv => WholeBundleWalks
  BY <1>1 DEF WholeBundleWalks
<1> QED
  BY SweepInvariance, <1>2, PTL

-----------------------------------------------------------------------------
(* Nothing stale is sent, where redactors do not overlap: what was         *)
(* redacted or archived when an export began is so in all that it reads.   *)

\* While proofs and archivals stay, so does what a stream says of its rows.
LEMMA CurrentKept ==
  ASSUME redactions_stick, keeps(table, table'), NEW q, StreamCurrent(table, q)
  PROVE  StreamCurrent(table', q)
<1>1. ASSUME NEW s \in DOMAIN q.began
      PROVE  /\ s \in DOMAIN table'
             /\ DOMAIN q.began[s].redacted_fields \subseteq DOMAIN table'[s].redacted_fields
             /\ q.began[s].is_archived => table'[s].is_archived
  <2>1. /\ s \in DOMAIN table
        /\ DOMAIN q.began[s].redacted_fields \subseteq DOMAIN table[s].redacted_fields
        /\ q.began[s].is_archived => table[s].is_archived
    BY DEF StreamCurrent
  <2>2. DOMAIN table[s].redacted_fields \subseteq DOMAIN table'[s].redacted_fields
    BY <2>1 DEF redactions_stick
  <2> QED
    BY <2>1, <2>2 DEF keeps
<1> QED
  BY <1>1 DEF StreamCurrent

\* A row that a page selects now shows what was done to it before.
LEMMA SelectedShows ==
  ASSUME NEW t, good(t), NEW q, StreamCurrent(t, q),
         NEW s \in selected(t, q.last_seq, q.filter)
  PROVE  shows_current(q, s, t[s])
<1>1. /\ s \in DOMAIN t
      /\ t[s].is_archived => q.filter.include_archived
  BY DEF selected
<1>2. \A f \in DOMAIN t[s].redacted_fields : t[s].payload[f] = None
  BY <1>1, ProofMeansNull DEF good, evident
<1>3. s \in DOMAIN q.began =>
        /\ DOMAIN q.began[s].redacted_fields \subseteq DOMAIN t[s].redacted_fields
        /\ q.began[s].is_archived => t[s].is_archived
  BY DEF StreamCurrent
<1> QED
  BY <1>1, <1>2, <1>3 DEF shows_current

\* A request that has just begun, and one that goes on without a page.
LEMMA BeginsCurrent ==
  ASSUME NEW t, NEW filter
  PROVE  StreamCurrent(t, streaming([filter |-> filter, began |-> t], "rows",
                                    None, << >>, << >>))
BY DEF StreamCurrent, streaming

LEMMA ContinuesCurrent ==
  ASSUME NEW t, NEW q, StreamCurrent(t, q), NEW at, at # "hashes"
  PROVE  StreamCurrent(t, streaming(q, at, q.last_seq, << >>, q.sent))
<1> DEFINE r == streaming(q, at, q.last_seq, << >>, q.sent)
<1>1. r.at # "hashes" /\ r.began = q.began /\ r.filter = q.filter /\ r.sent = q.sent
  BY DEF streaming
<1> HIDE DEF r
<1>2. StreamCurrent(t, r)
  BY <1>1 DEF StreamCurrent, shows_current
<1> QED
  BY <1>2 DEF r

\* The SELECT of a page's rows.
LEMMA RowsCurrent ==
  ASSUME NEW t, good(t), NEW q, StreamCurrent(t, q),
         NEW rows, rows \subseteq selected(t, q.last_seq, q.filter)
  PROVE  StreamCurrent(t, streaming(q, "hashes", q.last_seq,
                                    [s \in rows |-> t[s]], q.sent))
<1> DEFINE page == [s \in rows |-> t[s]]
           r    == streaming(q, "hashes", q.last_seq, page, q.sent)
<1>1. \A s \in rows : shows_current(q, s, t[s])
  BY SelectedShows
<1>2. DOMAIN page = rows /\ \A s \in rows : page[s] = t[s]
  OBVIOUS
<1> HIDE DEF page
<1>3. r.began = q.began /\ r.filter = q.filter /\ r.sent = q.sent /\ r.page = page
  BY DEF streaming
<1> HIDE DEF r
<1>4. StreamCurrent(t, r)
  BY <1>1, <1>2, <1>3 DEF StreamCurrent, shows_current
<1> QED
  BY <1>4 DEF r, page

\* The yields send the page as it was read.
LEMMA HashesCurrent ==
  ASSUME NEW t, NEW q, IsSeq(q.sent), StreamCurrent(t, q), q.at = "hashes",
         NEW at, at # "hashes", NEW prev, NEW last
  PROVE  StreamCurrent(t, streaming(q, at, last, << >>,
           Append(q.sent, [s \in DOMAIN q.page |-> entry_to_dict(q.page[s], prev[s])])))
<1> DEFINE records == [s \in DOMAIN q.page |-> entry_to_dict(q.page[s], prev[s])]
           new     == Append(q.sent, records)
           r       == streaming(q, at, last, << >>, new)
           k       == Len(q.sent)
<1>1. /\ k \in Nat
      /\ DOMAIN q.sent = 1 .. k
      /\ DOMAIN new = 1 .. (k + 1)
      /\ \A i \in DOMAIN q.sent : new[i] = q.sent[i]
      /\ new[k + 1] = records
  BY AppendPages
<1>2. DOMAIN records = DOMAIN q.page /\ \A s \in DOMAIN q.page : records[s].row = q.page[s]
  BY DEF entry_to_dict
<1>3. /\ r.at # "hashes" /\ r.began = q.began /\ r.filter = q.filter /\ r.sent = new
  BY DEF streaming
<1> HIDE DEF records, new, r, k
<1>4. ASSUME NEW i \in DOMAIN new, NEW s \in DOMAIN new[i]
      PROVE  shows_current(q, s, new[i][s].row)
  <2>1. CASE i \in DOMAIN q.sent
    BY <1>1, <1>4, <2>1 DEF StreamCurrent
  <2>2. CASE i = k + 1
    BY <1>1, <1>2, <1>4, <2>2 DEF StreamCurrent
  <2> QED
    BY <1>1, <2>1, <2>2
<1>5. StreamCurrent(t, r)
  BY <1>3, <1>4 DEF StreamCurrent, shows_current
<1> QED
  BY <1>5 DEF r, new, records

\* A step of an export that leaves the table alone and its stream current.
LEMMA OwnCurrent ==
  ASSUME CurrentIInv, ExportIInv', UNCHANGED <<table, tx, redaction>>,
         NEW x \in Exporter, NEW q, export' = [export EXCEPT ![x] = q],
         q.at # "idle" => StreamCurrent(table, q)
  PROVE  CurrentIInv'
<1>1. ASSUME NEW y \in Exporting'
      PROVE  StreamCurrent(table, export'[y])
  <2>1. y \in Exporter /\ export'[y].at # "idle"
    BY <1>1 DEF Exporting
  <2>2. CASE y = x
    <3>1. export'[y] = q
      BY <2>2 DEF CurrentIInv, ExportIInv
    <3> QED
      BY <2>1, <3>1
  <2>3. CASE y # x
    <3>1. export'[y] = export[y]
      BY <2>1, <2>3 DEF CurrentIInv, ExportIInv
    <3>2. y \in Exporting
      BY <2>1, <3>1 DEF Exporting
    <3> QED
      BY <3>1, <3>2 DEF CurrentIInv
  <2> QED
    BY <2>2, <2>3
<1>2. UpToDate'
  BY DEF CurrentIInv, UpToDate
<1> QED
  BY <1>1, <1>2 DEF CurrentIInv

\* Every step of an export.
LEMMA ExportStepCurrent ==
  ASSUME CurrentIInv, ExportIInv', NEW x \in Exporter, ExportStep(x), UNCHANGED redaction
  PROVE  CurrentIInv'
<1> DEFINE q == export[x]
<1>1. q.at # "idle" => StreamRight(table, q) /\ StreamCurrent(table, q)
  BY DEF CurrentIInv, ExportIInv, Exporting
<1>2. good(table)
  BY Parts DEF CurrentIInv, ExportIInv
<1>3. UNCHANGED <<table, tx, redaction>>
  BY DEF ExportStep, ExportRequest, ExportRows, ExportHashes, ExportCommit,
         ExportEnd, storeVars
<1>4. ASSUME NEW filter \in ExportFilter, ExportRequest(x, filter)
      PROVE  CurrentIInv'
  <2> DEFINE r == streaming([filter |-> filter, began |-> table], "rows",
                            None, << >>, << >>)
  <2>1. export' = [export EXCEPT ![x] = r]
    BY <1>4 DEF ExportRequest
  <2>2. StreamCurrent(table, r)
    BY BeginsCurrent
  <2> HIDE DEF r
  <2> QED
    BY <1>3, <2>1, <2>2, OwnCurrent
<1>5. ASSUME ExportRows(x)
      PROVE  CurrentIInv'
  <2> DEFINE rows == least(selected(table, q.last_seq, q.filter), PageSize)
             none == streaming(q, "commit", q.last_seq, << >>, q.sent)
             some == streaming(q, "hashes", q.last_seq,
                               [s \in rows |-> table[s]], q.sent)
  <2>1. StreamCurrent(table, q)
    BY <1>1, <1>5 DEF ExportRows
  <2>2. rows \subseteq selected(table, q.last_seq, q.filter)
    BY DEF least
  <2>3. StreamCurrent(table, none)
    BY <2>1, ContinuesCurrent
  <2>4. export' = [export EXCEPT ![x] = IF rows = {} THEN none ELSE some]
    BY <1>5 DEF ExportRows
  <2> HIDE DEF rows
  <2>5. StreamCurrent(table, some)
    BY <1>2, <2>1, <2>2, RowsCurrent
  <2> HIDE DEF none, some
  <2>6. CASE rows = {}
    <3>1. export' = [export EXCEPT ![x] = none]
      BY <2>4, <2>6
    <3> QED
      BY <1>3, <2>3, <3>1, OwnCurrent
  <2>7. CASE rows # {}
    <3>1. export' = [export EXCEPT ![x] = some]
      BY <2>4, <2>7
    <3> QED
      BY <1>3, <2>5, <3>1, OwnCurrent
  <2> QED
    BY <2>6, <2>7
<1>6. ASSUME ExportHashes(x)
      PROVE  CurrentIInv'
  <2> DEFINE rows    == DOMAIN q.page
             at      == IF is_last_page(rows) THEN "commit" ELSE "rows"
             prev    == build_prev_hash_map(table, q.page)
             records == [s \in DOMAIN q.page |-> entry_to_dict(q.page[s], prev[s])]
             r       == streaming(q, at, last_row(DOMAIN q.page), << >>,
                                  Append(q.sent, records))
  <2>1. StreamCurrent(table, q) /\ q.at = "hashes" /\ IsSeq(q.sent)
    BY <1>1, <1>6 DEF ExportHashes, StreamRight
  <2>2. at # "hashes"
    OBVIOUS
  <2>3. export' = [export EXCEPT ![x] = r]
    BY <1>6 DEF ExportHashes
  <2> HIDE DEF at, prev
  <2>4. StreamCurrent(table, r)
    BY <2>1, <2>2, HashesCurrent
  <2> HIDE DEF r
  <2> QED
    BY <1>3, <2>3, <2>4, OwnCurrent
<1>7. ASSUME ExportCommit(x)
      PROVE  CurrentIInv'
  <2> DEFINE r == streaming(q, "done", q.last_seq, << >>, q.sent)
  <2>1. StreamCurrent(table, q)
    BY <1>1, <1>7 DEF ExportCommit
  <2>2. StreamCurrent(table, r)
    BY <2>1, ContinuesCurrent
  <2>3. export' = [export EXCEPT ![x] = r]
    BY <1>7 DEF ExportCommit
  <2> HIDE DEF r
  <2> QED
    BY <1>3, <2>2, <2>3, OwnCurrent
<1>8. ASSUME ExportEnd(x)
      PROVE  CurrentIInv'
  <2>1. export' = [export EXCEPT ![x] = NoExport]
    BY <1>8 DEF ExportEnd
  <2>2. NoExport.at = "idle"
    BY DEF NoExport
  <2> HIDE DEF NoExport
  <2> QED
    BY <1>3, <2>1, <2>2, OwnCurrent
<1> QED
  BY <1>4, <1>5, <1>6, <1>7, <1>8 DEF ExportStep

\* A step of the other services.
LEMMA OthersCurrent ==
  ASSUME \A q, r \in Redactor : q = r,
         CurrentIInv, ExportIInv', [Next]_vars, UNCHANGED export
  PROVE  CurrentIInv'
<1>1. UpToDate' /\ redactions_stick /\ keeps(table, table')
  BY OneRedactorStep, NextIInv DEF CurrentIInv, ExportIInv
<1>2. Exporting' = Exporting
  BY DEF Exporting
<1>3. ASSUME NEW x \in Exporting
      PROVE  StreamCurrent(table', export[x])
  BY <1>1, <1>3, CurrentKept DEF CurrentIInv
<1> QED
  BY <1>1, <1>2, <1>3 DEF CurrentIInv

\* Where redactors do not overlap, streams stay current whatever runs beside
\* them.
THEOREM CurrentInvariance ==
  ASSUME \A q, r \in Redactor : q = r
  PROVE  ServiceSpec => []CurrentIInv
<1>1. ServiceInit => CurrentIInv
  <2>1. ServiceInit => UpToDate
    BY RedactorAssumption DEF ServiceInit, Init, StoreInit, RedactionInit, UpToDate
  <2> QED
    BY <2>1, ServiceInitIInv
    DEF ServiceInit, ExportInit, NoExport, Exporting, CurrentIInv
<1>2. CurrentIInv /\ ExportIInv' /\ [ServiceNext]_allVars => CurrentIInv'
  <2> SUFFICES ASSUME CurrentIInv, ExportIInv', [ServiceNext]_allVars
               PROVE  CurrentIInv'
    OBVIOUS
  <2>1. CASE UNCHANGED allVars
    BY <2>1, OthersCurrent DEF allVars, vars
  <2> QED
    BY <2>1, OthersCurrent, ExportStepCurrent DEF ServiceNext
<1> QED
  BY ExportInvariance, <1>1, <1>2, PTL DEF ServiceSpec

\* With one redactor, an export shows no value that was redacted before it
\* began, nor a row that was archived before it began and should be left out,
\* for any pages and filters and any number of archivers and exporters.
THEOREM ExportsCurrent ==
  ASSUME \A q, r \in Redactor : q = r
  PROVE  ServiceSpec => []ExportCurrent
<1>1. ASSUME CurrentIInv
      PROVE  ExportCurrent
  <2>1. ASSUME NEW x \in Exporting, NEW i \in DOMAIN export[x].sent,
               NEW s \in DOMAIN export[x].sent[i]
        PROVE  /\ export[x].sent[i][s].row.sequence_number = s
               /\ shows_current(export[x], s, export[x].sent[i][s].row)
    <3>1. s \in DOMAIN table /\ fixed(export[x].sent[i][s].row) = fixed(table[s])
      BY <1>1, <2>1 DEF CurrentIInv, ExportIInv, StreamRight, RecordsRight
    <3>2. table[s].sequence_number = s
      BY <1>1, <3>1, WrittenColumns DEF CurrentIInv, ExportIInv, IInv, chained
    <3>3. shows_current(export[x], s, export[x].sent[i][s].row)
      BY <1>1, <2>1 DEF CurrentIInv, StreamCurrent
    <3> QED
      BY <3>1, <3>2, <3>3 DEF fixed
  <2>2. ASSUME NEW x \in Exporting, NEW record \in Bundle(x)
        PROVE  shows_current(export[x], record.row.sequence_number, record.row)
    <3>1. PICK i \in DOMAIN export[x].sent :
            \E s \in DOMAIN export[x].sent[i] : record = export[x].sent[i][s]
      BY DEF Bundle
    <3> QED
      BY <2>1, <3>1
  <2> QED
    BY <2>2 DEF ExportCurrent, shows_current
<1> QED
  BY CurrentInvariance, <1>1, PTL

=============================================================================
