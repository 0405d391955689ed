\* An export of one actor's entries, in pages of one, of a log of up to two.
CONSTANTS
  Dialect = "postgresql"
  None = None
  Redactor = {}
  Archiver = {}
  Session = {}
  Exporter = {x1}
  ExportFilter <- OneActor
  PageSize = 1
  Core <- TwoCores
  Payload <- MCPayload
  Field = {"card"}
  Time = {1}
  MaxEntries = 2
  MaxInFlight = 1

SPECIFICATION ServiceSpec
INVARIANTS
  BundleWalks
\* The log is bounded, and nobody has to ask for anything.
CHECK_DEADLOCK FALSE
