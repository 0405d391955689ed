\* Two redactors compute their UPDATEs from the same row.
CONSTANTS
  Dialect = "postgresql"
  None = None
  Redactor = {r1, r2}
  Archiver = {}
  Session = {r1, r2}
  Core <- OneCore
  Payload <- MCFullPayload
  Field = {"name", "card"}
  Time = {1}
  MaxEntries = 1
  MaxInFlight = 2

SPECIFICATION Spec
PROPERTIES
  RedactionSticks
\* The log is bounded, and nobody has to ask for anything.
CHECK_DEADLOCK FALSE
