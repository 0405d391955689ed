---------------------------- MODULE ChainService ----------------------------
(***************************************************************************)
(* POST /audit/events: clients that append concurrently, each in a request *)
(* handler with a session of its own (app/services/chain_service.py,       *)
(* app/api/routes/events.py, app/db/session.py).                           *)
(*                                                                         *)
(* A request waits for a pooled connection, on PostgreSQL for the advisory *)
(* lock, reads the tail, and inserts and commits.  The commit gives back   *)
(* the lock and the connection, so the refresh that follows waits for a    *)
(* connection again, and the response is sent from what it read.           *)
(***************************************************************************)
EXTENDS AuditEntry

CONSTANTS
  Client,      \* who posts events; each has one request at a time
  NoClient,    \* the holder of a free lock
  Core,        \* the descriptive columns of an event
  Payload,
  Time,        \* what the clock may read; it need not advance
  PoolSize,    \* connections the engine's pool gives out at most
  MaxEntries   \* bound: entries the clients may have asked for

ASSUME ClientAssumption == NoClient \notin Client
ASSUME BoundAssumption == PoolSize \in Nat \ {0} /\ MaxEntries \in Nat

VARIABLES
  table,   \* audit_entries, as committed
  lock,    \* who holds pg_advisory_xact_lock(1)
  pc,      \* where each client's request is
  body,    \* the event each client posted; None between requests
  entry,   \* the ORM object of each request; None before it is built
  acked    \* history: the entries of the 201 responses

vars == <<table, lock, pc, body, entry, acked>>

Event == [core : Core, payload : Payload]

Step == {"idle", "connect", "lock", "read", "insert", "refresh", "respond"}

\* Requests that have a connection checked out of the pool.
Connected == {c \in Client : pc[c] \in {"lock", "read", "insert", "respond"}}

\* Requests that have not committed yet.
Appending == {c \in Client : pc[c] \in {"connect", "lock", "read", "insert"}}

\* Fault: appenders do not wait for each other.
lock_granted_Always(c) == TRUE
\* pg_advisory_xact_lock(1) returns once nobody else holds it.
lock_granted(c) == lock = NoClient

\* Fault: the lock belongs to the session, and outlives its transaction.
released_Kept(c) == lock
\* The lock after c's transaction ended.
released(c) == IF lock = c THEN NoClient ELSE lock

-----------------------------------------------------------------------------
Init ==
  /\ table = << >>
  /\ lock = NoClient
  /\ pc = [c \in Client |-> "idle"]
  /\ body = [c \in Client |-> None]
  /\ entry = [c \in Client |-> None]
  /\ acked = {}

\* On SQLite, a single-threaded test environment, nobody posts meanwhile.
Post(c, e) ==
  /\ pc[c] = "idle"
  /\ Dialect = "sqlite" => \A d \in Client : pc[d] = "idle"
  /\ Cardinality(DOMAIN table) + Cardinality(Appending) < MaxEntries
  /\ pc' = [pc EXCEPT ![c] = "connect"]
  /\ body' = [body EXCEPT ![c] = e]
  /\ UNCHANGED <<table, lock, entry, acked>>

Connect(c) ==
  /\ pc[c] = "connect"
  /\ Cardinality(Connected) < PoolSize
  /\ pc' = [pc EXCEPT ![c] = IF Dialect = "postgresql" THEN "lock" ELSE "read"]
  /\ UNCHANGED <<table, lock, body, entry, acked>>

AcquireLock(c) ==
  /\ pc[c] = "lock"
  /\ lock_granted(c)
  /\ lock' = c
  /\ pc' = [pc EXCEPT ![c] = "read"]
  /\ UNCHANGED <<table, body, entry, acked>>

\* Fault: the clock is read without a time zone.
ReadTail_Naive(c) ==
  /\ pc[c] = "read"
  /\ \E now \in Time :
       entry' = [entry EXCEPT ![c] =
                   new_entry(next_sequence_number(table), tail_hash(table),
                             body[c], naive(now))]
  /\ pc' = [pc EXCEPT ![c] = "insert"]
  /\ UNCHANGED <<table, lock, body, acked>>

\* READ COMMITTED: the SELECT sees what was committed when it runs.
ReadTail(c) ==
  /\ pc[c] = "read"
  /\ \E now \in Time :
       entry' = [entry EXCEPT ![c] =
                   new_entry(next_sequence_number(table), tail_hash(table),
                             body[c], utc(now))]
  /\ pc' = [pc EXCEPT ![c] = "insert"]
  /\ UNCHANGED <<table, lock, body, acked>>

\* session.add and commit.  Where a UNIQUE constraint is violated the commit
\* raises, which is a Fail(c).
Insert(c) ==
  /\ pc[c] = "insert"
  /\ unique(table, entry[c])
  /\ table' = inserted(table, entry[c])
  /\ lock' = released(c)
  /\ pc' = [pc EXCEPT ![c] = "refresh"]
  /\ UNCHANGED <<body, entry, acked>>

Refresh(c) ==
  /\ pc[c] = "refresh"
  /\ Cardinality(Connected) < PoolSize
  /\ entry' = [entry EXCEPT ![c] = table[@.sequence_number]]
  /\ pc' = [pc EXCEPT ![c] = "respond"]
  /\ UNCHANGED <<table, lock, body, acked>>

Respond(c) ==
  /\ pc[c] = "respond"
  /\ acked' = acked \cup {entry[c]}
  /\ body' = [body EXCEPT ![c] = None]
  /\ entry' = [entry EXCEPT ![c] = None]
  /\ pc' = [pc EXCEPT ![c] = "idle"]
  /\ UNCHANGED <<table, lock>>

\* Fault: the handler swallows the exception and answers 201.
answered_Anyway(c) == IF entry[c] = None THEN acked ELSE acked \cup {entry[c]}
\* The 201 responses after the request of c failed: no new one.
answered(c) == acked

\* An exception, a pool timeout, a lost connection or the end of the process:
\* the transaction is rolled back if it had not committed, and the client is
\* told of no entry, also when there is one.
Fail(c) ==
  /\ pc[c] # "idle"
  /\ lock' = released(c)
  /\ acked' = answered(c)
  /\ body' = [body EXCEPT ![c] = None]
  /\ entry' = [entry EXCEPT ![c] = None]
  /\ pc' = [pc EXCEPT ![c] = "idle"]
  /\ UNCHANGED table

Next ==
  \E c \in Client :
    \/ \E e \in Event : Post(c, e)
    \/ Connect(c)
    \/ AcquireLock(c)
    \/ ReadTail(c)
    \/ Insert(c)
    \/ Refresh(c)
    \/ Respond(c)
    \/ Fail(c)

Spec == Init /\ [][Next]_vars

-----------------------------------------------------------------------------
IsEntry(r) ==
  /\ DOMAIN r = EntryField
  /\ r.sequence_number \in Nat \ {0}
  /\ r.core \in Core
  /\ r.payload \in Payload
  /\ r.created_at \in [at : Time, tz : {"utc", "naive"}]

\* The shape of the state: sequence numbers start at 1, and a row is stored
\* under its own.
TypeOK ==
  /\ \A s \in DOMAIN table : IsEntry(table[s]) /\ table[s].sequence_number = s
  /\ lock \in Client \cup {NoClient}
  /\ pc \in [Client -> Step]
  /\ DOMAIN body = Client
  /\ \A c \in Client : IF pc[c] = "idle" THEN body[c] = None ELSE body[c] \in Event
  /\ DOMAIN entry = Client
  /\ \A c \in Client : IF pc[c] \in {"insert", "refresh", "respond"}
                       THEN IsEntry(entry[c])
                       ELSE entry[c] = None
  /\ \A r \in acked : IsEntry(r)

\* GET /audit/verify never reports a chain that only append wrote, whichever
\* appenders interleave, die or are served by a database that drops time zones.
ChainVerifies == verify_chain(table).valid

\* "The chain is always a single, linear, gap-free sequence": no request that
\* fails half way uses up a sequence number.
GapFree == \A s \in DOMAIN table : 1 .. s \subseteq DOMAIN table

\* No appender ever meets the UNIQUE constraints: what it computed from the
\* tail it read is still free when it inserts.
NoAppendCollides ==
  \A c \in Client : pc[c] = "insert" => unique(table, entry[c])

\* An entry in a 201 response is in the table, and as it was answered.
AckedDurable ==
  \A r \in acked : r.sequence_number \in DOMAIN table
                   /\ table[r.sequence_number] = r

-----------------------------------------------------------------------------
(* The table is the log of ChainLog, with what is recorded of an event and *)
(* of its time as items.                                                   *)

Answers == {<<r.sequence_number, recorded(r)>> : r \in acked}

Chain == INSTANCE ChainLog WITH
  Item  <- recorded_items(Event, Time),
  log   <- recorded_log(table),
  acked <- Answers

\* append implements the append-only log: a commit adds one item at the end
\* and disturbs none, and a response names an item at its own position.
AppendsToLog == Chain!LogSpec

-----------------------------------------------------------------------------
(* The other modules have appends that are atomic, those of EntryStore.    *)

Store == INSTANCE EntryStore WITH Session <- {}, tx <- << >>

\* To the table, however appenders interleave and fail, each append is one
\* atomic step that reads the tail and adds the row which follows it.
AppendsAtOnce ==
  Store!StoreInit /\ [][\E e \in Event : Store!AppendEvent(e)]_table

-----------------------------------------------------------------------------
(* The inductive invariant.                                                *)

\* One appender at a time is between its read of the tail and its commit.
InCriticalSection(c) == pc[c] \in {"read", "insert"}

Exclusive ==
  /\ Dialect = "postgresql" => \A c \in Client : InCriticalSection(c) => lock = c
  /\ Dialect = "sqlite" =>
       \A c, d \in Client : pc[c] # "idle" /\ pc[d] # "idle" => c = d

\* What an appender is about to insert continues the table as it is now.
PendingFresh ==
  \A c \in Client : pc[c] = "insert" =>
    \E now \in Time :
      entry[c] = new_entry(next_sequence_number(table), tail_hash(table),
                           body[c], utc(now))

\* After its commit a handler holds a row of the table, and answers with it as
\* it is stored.
Committed ==
  \A c \in Client :
    /\ pc[c] \in {"refresh", "respond"} => entry[c].sequence_number \in DOMAIN table
    /\ pc[c] = "respond" => entry[c] = table[entry[c].sequence_number]

\* Who has asked for an entry may still write it.
AskedBounded ==
  /\ IsFiniteSet(Appending)
  /\ Cardinality(DOMAIN table) + Cardinality(Appending) <= MaxEntries

IInv ==
  /\ TypeOK
  /\ chained(table, Event, Time)
  /\ Exclusive
  /\ PendingFresh
  /\ Committed
  /\ AckedDurable

=============================================================================
