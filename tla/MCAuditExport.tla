--------------------------- MODULE MCAuditExport ---------------------------
(***************************************************************************)
(* AuditExport on a small instance.                                        *)
(***************************************************************************)
EXTENDS AuditExport, MCCores

MCPayload == {[card |-> "c"]}

\* Everything, the entries that are not archived, and those of an actor who
\* has none.
MCExportFilter ==
  {[cores |-> Core, include_archived |-> TRUE],
   [cores |-> Core, include_archived |-> FALSE],
   [cores |-> {},   include_archived |-> TRUE]}

\* The entries of one of two actors.
OneActor == {[cores |-> {l}, include_archived |-> TRUE]}

=============================================================================
