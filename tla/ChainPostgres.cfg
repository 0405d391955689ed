\* Three appenders share two connections and write up to four entries.
CONSTANTS
  Dialect = "postgresql"
  None = None
  NoClient = NoClient
  Client = {c1, c2, c3}
  Core <- OneCore
  Payload = {p, q}
  Time = {1, 2}
  PoolSize = 2
  MaxEntries = 4

SYMMETRY Symmetry
SPECIFICATION Spec
INVARIANTS
  ChainVerifies
  GapFree
  NoAppendCollides
  AckedDurable
  IInv
PROPERTIES
  AppendsToLog
  AppendsAtOnce
\* Clients may stop posting, and must once MaxEntries are written.
CHECK_DEADLOCK FALSE
