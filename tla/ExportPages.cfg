\* Exports in pages of two of up to three entries that are appended, redacted
\* and archived meanwhile.
CONSTANTS
  Dialect = "postgresql"
  None = None
  Redactor = {r1}
  Archiver = {a1}
  Session = {r1, a1}
  Exporter = {x1}
  ExportFilter <- MCExportFilter
  PageSize = 2
  Core <- OneCore
  Payload <- MCPayload
  Field = {"card"}
  Time = {1}
  MaxEntries = 3
  MaxInFlight = 1

SPECIFICATION ServiceSpec
INVARIANTS
  ExportComplete
  ExportAscends
  WholeBundleWalks
  SweepIInv
  BundleVerifies
  ExportCurrent
  CurrentIInv
\* The log is bounded, and nobody has to ask for anything.
CHECK_DEADLOCK FALSE
