\* Two appenders, a reader and two exports share two connections.
CONSTANTS
  Dialect = "postgresql"
  None = None
  NoClient = NoClient
  Client = {c1, c2}
  Other = {o1}
  Exporter = {x1, x2}
  Core <- OneCore
  Payload = {p}
  Time = {1}
  PoolSize = 2
  PageSize = 1
  MaxEntries = 2

SPECIFICATION PoolSpec
INVARIANTS
  PoolTypeOK
  ReturnedWithResponse
  LockHolderRuns
PROPERTIES
  Responsive
  OthersEnd
  StreamsEnd
\* Clients may stop posting, and must once MaxEntries are written.
CHECK_DEADLOCK FALSE
