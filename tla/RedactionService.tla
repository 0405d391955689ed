-------------------------- MODULE RedactionService --------------------------
(***************************************************************************)
(* PATCH /audit/events/{id}/redact (app/services/redaction_service.py,     *)
(* app/api/routes/redaction.py).  The handler reads the row, computes the  *)
(* new payload and redacted_fields from what it read, flushes the UPDATE   *)
(* and commits; other requests run between any two of these.               *)
(***************************************************************************)
EXTENDS EntryStore

CONSTANTS
  Redactor,   \* the sessions that redact
  Field       \* the field names a request may list

ASSUME RedactorAssumption == Redactor \subseteq Session

VARIABLE redaction   \* each redactor's request

\* Fault: a field that is null already is redacted like any other.
Redactable_Null(entry, fields) == fields \cap DOMAIN entry.payload
\* The listed fields that the payload has a value for.
Redactable(entry, fields) ==
  {f \in fields \cap DOMAIN entry.payload : entry.payload[f] # None}

redacted_payload(entry, fs) ==
  [f \in DOMAIN entry.payload |-> IF f \in fs THEN None ELSE entry.payload[f]]

\* Faults: the value is hashed once it is gone; the existing map is dropped.
redacted_map_OfNull(entry, fs) ==
  [f \in DOMAIN entry.redacted_fields \cup fs |->
     IF f \in fs THEN hash_field_value(f, redacted_payload(entry, fs)[f])
     ELSE entry.redacted_fields[f]]
redacted_map_Fresh(entry, fs) ==
  [f \in fs |-> hash_field_value(f, entry.payload[f])]
redacted_map(entry, fs) ==
  [f \in DOMAIN entry.redacted_fields \cup fs |->
     IF f \in fs THEN hash_field_value(f, entry.payload[f])
     ELSE entry.redacted_fields[f]]

\* Faults: the payload is hashed again; the whole row is written back.
redaction_changes_Rehashed(entry, fs) ==
  [payload         |-> redacted_payload(entry, fs),
   payload_hash    |-> hash_payload(redacted_payload(entry, fs)),
   redacted_fields |-> redacted_map(entry, fs)]
redaction_changes_WholeRow(entry, fs) ==
  [entry EXCEPT !.payload = redacted_payload(entry, fs),
                !.redacted_fields = redacted_map(entry, fs)]
redaction_changes(entry, fs) ==
  [payload         |-> redacted_payload(entry, fs),
   redacted_fields |-> redacted_map(entry, fs)]

\* Fault: archived rows are redacted like any other.
refused_Never(entry) == FALSE
\* The ValueError that the route turns into 409.
refused(entry) == entry.is_archived

-----------------------------------------------------------------------------
RedactionInit == redaction = [r \in Redactor |-> [at |-> "idle"]]

Ended(r) == redaction' = [redaction EXCEPT ![r] = [at |-> "idle"]]

Redact(r, number, fields) ==
  /\ redaction[r].at = "idle"
  /\ redaction' = [redaction EXCEPT ![r] =
                     [at |-> "select", number |-> number, fields |-> fields]]
  /\ UNCHANGED storeVars

\* 404
RedactNotFound(r) ==
  /\ redaction[r].at = "select"
  /\ redaction[r].number \notin DOMAIN table
  /\ Ended(r)
  /\ UNCHANGED storeVars

\* 409
RedactRefused(r) ==
  /\ redaction[r].at = "select"
  /\ redaction[r].number \in DOMAIN table
  /\ refused(table[redaction[r].number])
  /\ Ended(r)
  /\ UNCHANGED storeVars

RedactSelect(r) ==
  /\ redaction[r].at = "select"
  /\ redaction[r].number \in DOMAIN table
  /\ ~ refused(table[redaction[r].number])
  /\ LET q  == redaction[r]
         fs == Redactable(table[q.number], q.fields)
     IN  redaction' = [redaction EXCEPT ![r] =
           IF fs = {} THEN [at |-> "commit"]
           ELSE [at      |-> "flush",
                 number  |-> q.number,
                 changes |-> redaction_changes(table[q.number], fs)]]
  /\ UNCHANGED storeVars

\* flush, and the refresh that reads the row this session has locked
RedactFlush(r) ==
  /\ redaction[r].at = "flush"
  /\ Flush(r, redaction[r].number, redaction[r].changes)
  /\ redaction' = [redaction EXCEPT ![r] = [at |-> "commit"]]

\* 200
RedactCommit(r) ==
  /\ redaction[r].at = "commit"
  /\ Commit(r)
  /\ Ended(r)

\* An exception, a timeout or a lost connection before the commit.
RedactFail(r) ==
  /\ redaction[r].at # "idle"
  /\ Rollback(r)
  /\ Ended(r)

\* What a redactor does once it has a request.
RedactStep(r) ==
  \/ RedactNotFound(r)
  \/ RedactRefused(r)
  \/ RedactSelect(r)
  \/ RedactFlush(r)
  \/ RedactCommit(r)

=============================================================================
