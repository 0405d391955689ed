\* A reader pages through a log of up to four entries that two actors extend.
CONSTANTS
  Dialect = "postgresql"
  None = None
  Reader = {reader}
  Session = {}
  Core <- TwoCores
  Payload = {p}
  Time = {1, 2, 3}
  Limit = {1, 2}
  Filter <- MCFilter
  MaxEntries = 4

SPECIFICATION Spec
INVARIANTS
  NothingSkipped
  ScanComplete
  PagesAscend
  ScanIInv
\* The log is bounded, and a reader may leave.
CHECK_DEADLOCK FALSE
