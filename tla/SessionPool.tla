----------------------------- MODULE SessionPool -----------------------------
(***************************************************************************)
(* The engine's connection pool (app/db/session.py) and all who share it:  *)
(* appenders, requests that make do with one transaction, and exports,     *)
(* which stream from a session that get_db has closed already.             *)
(*                                                                         *)
(* FastAPI leaves get_db when the handler returns.  For an export that is  *)
(* before its stream begins: the first SELECT opens the closed session     *)
(* again, and nobody but the stream itself gives the connection back.      *)
(***************************************************************************)
EXTENDS ChainService

CONSTANTS
  Other,      \* requests for pages, single events, verification, redaction, archival
  Exporter,
  PageSize    \* _PAGE_SIZE

ASSUME SharersAssumption ==
  Client \cap Other = {} /\ Client \cap Exporter = {} /\ Other \cap Exporter = {}
ASSUME PageSizeAssumption == PageSize \in Nat \ {0}

VARIABLES
  held,     \* the sharers other than appenders that have a connection
  other,    \* where each of the other requests is
  stream    \* each export: where it is, and its last_seq

poolVars == <<held, other, stream>>
allVars == <<table, lock, pc, body, entry, acked, held, other, stream>>

\* Fault: exports do not count.
room_WithoutStreams ==
  Cardinality(Connected) + Cardinality(held \ Exporter) < PoolSize
\* The pool has a connection to give.
room == Cardinality(Connected) + Cardinality(held) < PoolSize

-----------------------------------------------------------------------------
NoStream == [at |-> "idle", last_seq |-> 0]

PoolInit ==
  /\ Init
  /\ held = {}
  /\ other = [o \in Other |-> "idle"]
  /\ stream = [x \in Exporter |-> NoStream]

\* The steps of ChainService; two of them take a connection.
Checkout(c) == (Connect(c) \/ Refresh(c)) /\ room /\ UNCHANGED poolVars
Acquire(c) == AcquireLock(c) /\ UNCHANGED poolVars
Work(c) == (ReadTail(c) \/ Insert(c) \/ Respond(c)) /\ UNCHANGED poolVars
PostOrFail(c) == (Fail(c) \/ \E e \in Event : Post(c, e)) /\ UNCHANGED poolVars

at_other(o, step) == other' = [other EXCEPT ![o] = step]

Ask(o) ==
  /\ other[o] = "idle"
  /\ at_other(o, "connect")
  /\ UNCHANGED <<vars, held, stream>>

\* The first statement of the transaction.
Open(o) ==
  /\ other[o] = "connect"
  /\ room
  /\ held' = held \cup {o}
  /\ at_other(o, "open")
  /\ UNCHANGED <<vars, stream>>

\* Fault: get_db leaves the session as it is.
closed_Never(o) == held
\* get_db: the end of the transaction, or of the wait for a connection, in an
\* answer or in an exception.
closed(o) == held \ {o}

Close(o) ==
  /\ other[o] # "idle"
  /\ held' = closed(o)
  /\ at_other(o, "idle")
  /\ UNCHANGED <<vars, stream>>

-----------------------------------------------------------------------------
at_stream(x, step, last_seq) ==
  stream' = [stream EXCEPT ![x] = [at |-> step, last_seq |-> last_seq]]

StreamRequest(x) ==
  /\ stream[x].at = "idle"
  /\ at_stream(x, "connect", 0)
  /\ UNCHANGED <<vars, held, other>>

StreamConnect(x) ==
  /\ stream[x].at = "connect"
  /\ room
  /\ held' = held \cup {x}
  /\ at_stream(x, "page", stream[x].last_seq)
  /\ UNCHANGED <<vars, other>>

\* Fault: the cursor stays where it is.
moved_Never(last_seq, rows) == last_seq
moved(last_seq, rows) == Max(rows)

\* A page and the yields of its rows.
StreamPage(x) ==
  /\ stream[x].at = "page"
  /\ LET last == stream[x].last_seq
         rest == {s \in DOMAIN table : s > last}
         rows == {s \in rest : Cardinality({r \in rest : r < s}) < PageSize}
     IN  IF Cardinality(rows) < PageSize
         THEN at_stream(x, "commit", last)
         ELSE at_stream(x, "page", moved(last, rows))
  /\ UNCHANGED <<vars, held, other>>

\* Fault: the read transaction is left open.
committed_Open(x) == held
\* session.commit(), which gives the connection back.
committed(x) == held \ {x}

StreamCommit(x) ==
  /\ stream[x].at = "commit"
  /\ held' = committed(x)
  /\ at_stream(x, "final", 0)
  /\ UNCHANGED <<vars, other>>

\* The last chunk reaches the client.
StreamFinal(x) ==
  /\ stream[x].at = "final"
  /\ at_stream(x, "idle", 0)
  /\ UNCHANGED <<vars, held, other>>

\* The client leaves, or a statement raises: nothing in the generators closes
\* the session.
StreamAbort(x) ==
  /\ stream[x].at \notin {"idle", "abandoned"}
  /\ at_stream(x, IF x \in held THEN "abandoned" ELSE "idle", 0)
  /\ UNCHANGED <<vars, held, other>>

\* Fault: something keeps a reference to the session.
collected_Never(x) == held
\* The interpreter drops the generator with its session, and the pool gets the
\* connection back.
collected(x) == held \ {x}

Collect(x) ==
  /\ stream[x].at = "abandoned"
  /\ held' = collected(x)
  /\ at_stream(x, "idle", 0)
  /\ UNCHANGED <<vars, other>>

StreamStep(x) == StreamPage(x) \/ StreamCommit(x) \/ StreamFinal(x) \/ Collect(x)

PoolNext ==
  \/ \E c \in Client : Checkout(c) \/ Acquire(c) \/ Work(c) \/ PostOrFail(c)
  \/ \E o \in Other : Ask(o) \/ Open(o) \/ Close(o)
  \/ \E x \in Exporter :
       StreamRequest(x) \/ StreamConnect(x) \/ StreamStep(x) \/ StreamAbort(x)

\* Statements return, clients read what they are sent or leave, garbage is
\* collected, and the queues for a connection and for the lock are first come,
\* first served.
Fairness ==
  /\ \A c \in Client :
       SF_allVars(Checkout(c)) /\ SF_allVars(Acquire(c)) /\ WF_allVars(Work(c))
  /\ \A o \in Other : SF_allVars(Open(o)) /\ WF_allVars(other[o] = "open" /\ Close(o))
  /\ \A x \in Exporter : SF_allVars(StreamConnect(x)) /\ WF_allVars(StreamStep(x))

PoolSpec == PoolInit /\ [][PoolNext]_allVars /\ Fairness

-----------------------------------------------------------------------------
\* The shape of the state: the pool never gives out more than it has.
PoolTypeOK ==
  /\ held \subseteq Other \cup Exporter
  /\ Cardinality(Connected) + Cardinality(held) <= PoolSize
  /\ other \in [Other -> {"idle", "connect", "open"}]
  /\ DOMAIN stream = Exporter
  /\ \A x \in Exporter :
       /\ stream[x].at \in {"idle", "connect", "page", "commit", "final", "abandoned"}
       /\ stream[x].last_seq \in {0} \cup DOMAIN table

\* When a response is complete its session has no transaction open and no
\* connection: that of an export is back before the last chunk is sent.
ReturnedWithResponse ==
  /\ \A o \in Other : o \in held => other[o] = "open"
  /\ \A x \in Exporter :
       x \in held => stream[x].at \in {"page", "commit", "abandoned"}

\* Whoever has the advisory lock has a connection and waits for nothing, so
\* that appenders cannot wait for each other in a circle of lock and pool.
LockHolderRuns == lock # NoClient => lock \in Connected /\ pc[lock] # "lock"

\* Every POST ends: nobody waits forever for the lock or for a connection,
\* though exports and abandoned exports hold connections meanwhile.
Responsive == \A c \in Client : pc[c] # "idle" ~> pc[c] = "idle"

\* Every other request ends.
OthersEnd == \A o \in Other : other[o] # "idle" ~> other[o] = "idle"

\* Once the log stops growing every export ends, and the connection of an
\* abandoned one comes back.  The loop has no bound of its own: it goes on for as
\* long as every page is full, and a log may grow by a page per page sent.
StreamsEnd ==
  <>[][FALSE]_table =>
    \A x \in Exporter : stream[x].at # "idle" ~> stream[x].at = "idle"

=============================================================================
