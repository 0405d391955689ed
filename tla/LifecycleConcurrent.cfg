\* Two redactors and an archiver on the rows of a growing log, who wait for
\* each other's row locks.
CONSTANTS
  Dialect = "postgresql"
  None = None
  Redactor = {r1, r2}
  Archiver = {a1}
  Session = {r1, r2, a1}
  Core <- OneCore
  Payload <- MCFullPayload
  Field = {"name", "card"}
  Time = {1}
  MaxEntries = 2
  MaxInFlight = 3

SPECIFICATION FairSpec
INVARIANTS
  RedactionEvidence
  StillVerifies
  IInv
PROPERTIES
  ArchiveSticks
  LogUndisturbed
  Responsive
\* The log is bounded, and nobody has to ask for anything.
CHECK_DEADLOCK FALSE
