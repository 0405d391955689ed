\* An entry is archived between a redactor's check and its UPDATE.
CONSTANTS
  Dialect = "postgresql"
  None = None
  Redactor = {r1}
  Archiver = {a1}
  Session = {r1, a1}
  Core <- OneCore
  Payload <- MCFullPayload
  Field = {"name", "card"}
  Time = {1}
  MaxEntries = 1
  MaxInFlight = 2

SPECIFICATION Spec
PROPERTIES
  ArchivedFrozen
\* The log is bounded, and nobody has to ask for anything.
CHECK_DEADLOCK FALSE
