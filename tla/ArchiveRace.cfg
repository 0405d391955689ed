\* Two archivers find the same entry not archived.
CONSTANTS
  Dialect = "postgresql"
  None = None
  Redactor = {}
  Archiver = {a1, a2}
  Session = {a1, a2}
  Core <- OneCore
  Payload <- MCFullPayload
  Field = {"name", "card"}
  Time = {1, 2}
  MaxEntries = 1
  MaxInFlight = 2

SPECIFICATION Spec
PROPERTIES
  ArchivedAtKept
\* The log is bounded, and nobody has to ask for anything.
CHECK_DEADLOCK FALSE
