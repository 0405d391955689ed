\* One request at a time on up to two rows, while the schema is created,
\* upgraded and downgraded.
CONSTANTS
  Dialect = "postgresql"
  None = None
  Redactor = {r1}
  Archiver = {a1}
  Session = {r1, a1}
  Core <- OneCore
  Payload <- MCPayload
  Field = {"name", "card"}
  Time = {1, 2}
  MaxEntries = 2
  MaxInFlight = 1

SPECIFICATION MigrationSpec
INVARIANTS
  SchemaTypeOK
  StillVerifies
  EvidenceAccounted
PROPERTIES
  RedactionsSurvive
  ArchivedStaysFrozen
  ArchivedAtSurvives
