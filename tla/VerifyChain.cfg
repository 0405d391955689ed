\* The table of a database without time zones, written to from outside up to
\* twice, is verified while an appender writes up to three entries.
CONSTANTS
  Dialect = "sqlite"
  None = None
  NoClient = NoClient
  Client = {c1}
  Core <- EarlyAndLate
  Payload = {p}
  Time = {1}
  PoolSize = 1
  MaxEntries = 3
  MaxDamage = 2

VIEW Unread
SPECIFICATION WalkSpec
INVARIANTS
  LoopInvariant
  VerdictRight
  ChangesFound
  AppendedIInv
\* Clients may stop posting, and must once MaxEntries are written.
CHECK_DEADLOCK FALSE
