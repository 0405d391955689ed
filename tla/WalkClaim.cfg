\* The last row of a log is deleted from outside.
CONSTANTS
  Dialect = "sqlite"
  None = None
  NoClient = NoClient
  Client = {c1}
  Core <- EarlyAndLate
  Payload = {p}
  Time = {1}
  PoolSize = 1
  MaxEntries = 2
  MaxDamage = 1

SPECIFICATION WalkSpec
INVARIANTS
  NothingRemoved
\* Clients may stop posting, and must once MaxEntries are written.
CHECK_DEADLOCK FALSE
