------------------------- MODULE ChainServiceProofs -------------------------
(***************************************************************************)
(* Proofs about ChainService, for any set of clients, any pool and any     *)
(* number of entries, on both databases.                                   *)
(***************************************************************************)
EXTENDS ChainService, AuditEntryProofs

-----------------------------------------------------------------------------
(* The inductive invariant.                                                *)

\* The invariant holds of the empty table with nobody at work.
LEMMA InitIInv == Init => IInv
<1> SUFFICES ASSUME Init
             PROVE  IInv
  OBVIOUS
<1> USE DEF Init
<1>1. TypeOK
  BY DEF TypeOK, Step
<1>2. chained(table, Event, Time)
  BY DEF chained
<1>3. Exclusive
  BY DEF Exclusive, InCriticalSection
<1>4. PendingFresh
  BY DEF PendingFresh
<1>5. Committed
  BY DEF Committed
<1>6. AckedDurable
  BY DEF AckedDurable
<1> QED
  BY <1>1, <1>2, <1>3, <1>4, <1>5, <1>6 DEF IInv

\* The entry built by ReadTail is well formed.
LEMMA NextIsEntry ==
  ASSUME chained(table, Event, Time), NEW e \in Event, NEW now \in Time
  PROVE  IsEntry(new_entry(next_sequence_number(table), tail_hash(table), e, utc(now)))
<1>1. PICK n \in Nat : DOMAIN table = 1 .. n
  BY ChainedLength
<1>2. next_sequence_number(table) = n + 1
  BY <1>1, TailOfInterval
<1> QED
  BY <1>2 DEF IsEntry, EntryField, new_entry, utc, Event

\* So is the row the database keeps of it, and nothing else of it changes.
LEMMA StoredIsEntry ==
  ASSUME NEW x, IsEntry(x)
  PROVE  IsEntry(as_stored(x)) /\ as_stored(x).sequence_number = x.sequence_number
<1>1. stored(x.created_at) \in [at : Time, tz : {"utc", "naive"}]
  BY DEF IsEntry, stored, naive
<1> QED
  BY <1>1 DEF IsEntry, EntryField, as_stored

\* What a commit makes of the table: the entry becomes its last row.
LEMMA InsertStep ==
  ASSUME IInv, NEW c \in Client, Insert(c)
  PROVE  /\ chained(table', Event, Time)
         /\ \E n \in Nat : DOMAIN table = 1 .. n /\ DOMAIN table' = 1 .. (n + 1)
         /\ DOMAIN table' = DOMAIN table \cup {entry[c].sequence_number}
         /\ \A s \in DOMAIN table : table'[s] = table[s]
         /\ IsEntry(table'[entry[c].sequence_number])
         /\ table'[entry[c].sequence_number].sequence_number = entry[c].sequence_number
<1> DEFINE x == entry[c]
           u == inserted(table, x)
<1>1. chained(table, Event, Time) /\ table' = u
  BY DEF IInv, Insert
<1>2. body[c] \in Event /\ IsEntry(x)
  BY DEF IInv, TypeOK, Insert
<1>3. PICK now \in Time :
        x = new_entry(next_sequence_number(table), tail_hash(table), body[c], utc(now))
  BY DEF IInv, PendingFresh, Insert
<1>4. chained(u, Event, Time) /\ extends_by(u, table, x)
  BY <1>1, <1>2, <1>3, InsertedIsChained
<1>5. IsEntry(u[x.sequence_number])
      /\ u[x.sequence_number].sequence_number = x.sequence_number
  BY <1>2, <1>4, StoredIsEntry DEF extends_by
<1> QED
  BY <1>1, <1>4, <1>5 DEF extends_by

\* The steps that leave the table and the responses alone keep what the
\* invariant says of them.
LEMMA TableUnchanged ==
  ASSUME IInv, UNCHANGED <<table, acked>>
  PROVE  chained(table, Event, Time)' /\ AckedDurable'
BY DEF IInv, AckedDurable

\* Every step of an appender, and every failure, preserves the invariant.
LEMMA NextIInv ==
  ASSUME IInv, Next
  PROVE  IInv'
<1> USE DEF IInv
<1>1. ASSUME NEW c \in Client, NEW e \in Event, Post(c, e)
      PROVE  IInv'
  <2> USE <1>1 DEF Post
  <2>1. TypeOK'
    BY DEF TypeOK, Step
  <2>2. Exclusive'
    BY DEF Exclusive, InCriticalSection, TypeOK
  <2>3. PendingFresh'
    BY DEF PendingFresh, TypeOK
  <2>4. Committed'
    BY DEF Committed, TypeOK
  <2> QED
    BY <2>1, <2>2, <2>3, <2>4, TableUnchanged
<1>2. ASSUME NEW c \in Client, Connect(c)
      PROVE  IInv'
  <2> USE <1>2 DEF Connect
  <2>1. TypeOK'
    BY DEF TypeOK, Step
  <2>2. Exclusive'
    BY DialectAssumption DEF Exclusive, InCriticalSection, TypeOK
  <2>3. PendingFresh'
    BY DEF PendingFresh, TypeOK
  <2>4. Committed'
    BY DEF Committed, TypeOK
  <2> QED
    BY <2>1, <2>2, <2>3, <2>4, TableUnchanged
<1>3. ASSUME NEW c \in Client, AcquireLock(c)
      PROVE  IInv'
  <2> USE <1>3 DEF AcquireLock
  <2>1. TypeOK'
    BY DEF TypeOK, Step
  <2>2. Exclusive'
    BY ClientAssumption DEF Exclusive, InCriticalSection, TypeOK, lock_granted
  <2>3. PendingFresh'
    BY DEF PendingFresh, TypeOK
  <2>4. Committed'
    BY DEF Committed, TypeOK
  <2> QED
    BY <2>1, <2>2, <2>3, <2>4, TableUnchanged
<1>4. ASSUME NEW c \in Client, ReadTail(c)
      PROVE  IInv'
  <2> USE <1>4 DEF ReadTail
  <2>1. PICK now \in Time :
          entry' = [entry EXCEPT ![c] =
                      new_entry(next_sequence_number(table), tail_hash(table),
                                body[c], utc(now))]
    OBVIOUS
  <2>2. body[c] \in Event
    BY DEF TypeOK
  <2>3. IsEntry(entry'[c])
    BY <2>1, <2>2, NextIsEntry DEF TypeOK
  <2>4. TypeOK'
    BY <2>1, <2>3 DEF TypeOK, Step
  <2>5. Exclusive'
    BY DEF Exclusive, InCriticalSection, TypeOK
  <2>6. PendingFresh'
    BY <2>1 DEF PendingFresh, TypeOK
  <2>7. Committed'
    BY <2>1 DEF Committed, TypeOK
  <2> QED
    BY <2>4, <2>5, <2>6, <2>7, TableUnchanged
<1>5. ASSUME NEW c \in Client, Insert(c)
      PROVE  IInv'
  <2> USE <1>5 DEF Insert
  <2>1. /\ chained(table, Event, Time)'
        /\ DOMAIN table' = DOMAIN table \cup {entry[c].sequence_number}
        /\ \A s \in DOMAIN table : table'[s] = table[s]
        /\ IsEntry(table'[entry[c].sequence_number])
        /\ table'[entry[c].sequence_number].sequence_number = entry[c].sequence_number
    BY InsertStep
  <2>2. TypeOK'
    BY <2>1 DEF TypeOK, Step, released
  <2>3. Exclusive'
    BY DEF Exclusive, InCriticalSection, TypeOK, released
  <2>4. PendingFresh'
    <3>1. ASSUME NEW d \in Client
          PROVE  pc'[d] # "insert"
      BY <3>1, DialectAssumption DEF Exclusive, InCriticalSection, TypeOK
    <3> QED
      BY <3>1 DEF PendingFresh
  <2>5. Committed'
    BY <2>1 DEF Committed, TypeOK
  <2>6. AckedDurable'
    BY <2>1 DEF AckedDurable
  <2> QED
    BY <2>1, <2>2, <2>3, <2>4, <2>5, <2>6
<1>6. ASSUME NEW c \in Client, Refresh(c)
      PROVE  IInv'
  <2> USE <1>6 DEF Refresh
  <2>1. /\ entry[c].sequence_number \in DOMAIN table
        /\ entry' = [entry EXCEPT ![c] = table[entry[c].sequence_number]]
    BY DEF Committed
  <2>2. TypeOK'
    BY <2>1 DEF TypeOK, Step
  <2>3. Exclusive'
    BY DEF Exclusive, InCriticalSection, TypeOK
  <2>4. PendingFresh'
    BY <2>1 DEF PendingFresh, TypeOK
  <2>5. Committed'
    BY <2>1 DEF Committed, TypeOK
  <2> QED
    BY <2>2, <2>3, <2>4, <2>5, TableUnchanged
<1>7. ASSUME NEW c \in Client, Respond(c)
      PROVE  IInv'
  <2> USE <1>7 DEF Respond
  <2>1. TypeOK'
    BY DEF TypeOK, Step
  <2>2. chained(table, Event, Time)'
    OBVIOUS
  <2>3. Exclusive'
    BY DEF Exclusive, InCriticalSection, TypeOK
  <2>4. PendingFresh'
    BY DEF PendingFresh, TypeOK
  <2>5. Committed'
    BY DEF Committed, TypeOK
  <2>6. AckedDurable'
    BY DEF AckedDurable, Committed
  <2> QED
    BY <2>1, <2>2, <2>3, <2>4, <2>5, <2>6
<1>8. ASSUME NEW c \in Client, Fail(c)
      PROVE  IInv'
  <2> USE <1>8 DEF Fail
  <2>1. TypeOK'
    BY DEF TypeOK, Step, released, answered
  <2>2. Exclusive'
    BY DEF Exclusive, InCriticalSection, TypeOK, released
  <2>3. PendingFresh'
    BY DEF PendingFresh, TypeOK
  <2>4. Committed'
    BY DEF Committed, TypeOK
  <2> QED
    BY <2>1, <2>2, <2>3, <2>4, TableUnchanged DEF answered
<1> QED
  BY <1>1, <1>2, <1>3, <1>4, <1>5, <1>6, <1>7, <1>8 DEF Next

\* A stuttering step changes nothing the invariant is about.
LEMMA StutterIInv ==
  ASSUME IInv, UNCHANGED vars
  PROVE  IInv'
BY DEF vars, IInv, TypeOK, Exclusive, InCriticalSection,
       PendingFresh, Committed, AckedDurable

\* The invariant holds in every state of every behaviour, on both databases.
THEOREM Invariance == Spec => []IInv
<1>1. IInv /\ [Next]_vars => IInv'
  BY NextIInv, StutterIInv
<1> QED
  BY InitIInv, <1>1, PTL DEF Spec

\* The state keeps its shape; sequence numbers start at 1.
THEOREM TypeCorrect == Spec => []TypeOK
<1>1. IInv => TypeOK
  BY DEF IInv
<1> QED
  BY Invariance, <1>1, PTL

\* A chain written by any number of concurrent appenders always verifies.
THEOREM Verifiable == Spec => []ChainVerifies
<1>1. IInv => ChainVerifies
  BY ChainedVerifies DEF IInv, ChainVerifies
<1> QED
  BY Invariance, <1>1, PTL

\* Sequence numbers have no gap, however many requests fail.
THEOREM NoGaps == Spec => []GapFree
<1>1. ASSUME IInv
      PROVE  GapFree
  <2>1. PICK n \in Nat : DOMAIN table = 1 .. n
    BY <1>1, ChainedLength DEF IInv
  <2> QED
    BY <2>1 DEF GapFree
<1> QED
  BY Invariance, <1>1, PTL

\* No appender meets a UNIQUE constraint, so no request fails for that reason.
THEOREM NoCollisions == Spec => []NoAppendCollides
<1>1. ASSUME IInv
      PROVE  NoAppendCollides
  BY <1>1, NextIsUnique DEF IInv, PendingFresh, NoAppendCollides
<1> QED
  BY Invariance, <1>1, PTL

\* An acknowledged entry is in the table as it was answered, from then on.
THEOREM Durability == Spec => []AckedDurable
<1>1. IInv => AckedDurable
  BY DEF IInv
<1> QED
  BY Invariance, <1>1, PTL

-----------------------------------------------------------------------------
(* append implements the append-only log of ChainLog.                      *)

\* Committing an entry appends it to the log.
LEMMA InsertRecords ==
  ASSUME IInv, NEW c \in Client, Insert(c)
  PROVE  \E item \in recorded_items(Event, Time) : Chain!Record(item)
<1>1. chained(table, Event, Time)
  BY DEF IInv
<1>2. PICK item \in recorded_items(Event, Time) :
        recorded_log(table') = Append(recorded_log(table), item)
  BY <1>1, InsertStep, InsertAppends
<1>3. Answers' = Answers
  BY DEF Insert, Answers
<1> QED
  BY <1>2, <1>3 DEF Chain!Record

\* Responding acknowledges a position of the log.
LEMMA RespondAcknowledges ==
  ASSUME IInv, NEW c \in Client, Respond(c)
  PROVE  \E i \in DOMAIN recorded_log(table) : Chain!Acknowledge(i)
<1> DEFINE i == entry[c].sequence_number
<1>1. i \in DOMAIN table /\ entry[c] = table[i]
  BY DEF IInv, Committed, Respond
<1>2. i \in DOMAIN recorded_log(table) /\ recorded_log(table)[i] = recorded(entry[c])
  BY <1>1 DEF recorded_log
<1>3. Answers' = Answers \cup {<<i, recorded(entry[c])>>}
  BY DEF Answers, Respond
<1>4. recorded_log(table') = recorded_log(table)
  BY DEF recorded_log, Respond
<1> QED
  BY <1>2, <1>3, <1>4 DEF Chain!Acknowledge

\* append implements the append-only log: every behaviour of the handlers is,
\* seen through the table and the responses, a behaviour of ChainLog.
THEOREM Refinement == Spec => AppendsToLog
<1>1. Init => Chain!LogInit
  <2> SUFFICES ASSUME Init
               PROVE  Chain!LogInit
    OBVIOUS
  <2>1. recorded_log(table) = << >>
    BY DEF Init, recorded_log
  <2>2. Answers = {}
    BY DEF Init, Answers
  <2> QED
    BY <2>1, <2>2 DEF Chain!LogInit
<1>2. IInv /\ [Next]_vars => [Chain!LogNext]_(Chain!logVars)
  <2> SUFFICES ASSUME IInv, [Next]_vars
               PROVE  Chain!LogNext \/ UNCHANGED <<recorded_log(table), Answers>>
    BY DEF Chain!logVars
  <2>1. CASE UNCHANGED <<table, acked>>
    BY <2>1 DEF recorded_log, Answers
  <2>2. ASSUME NEW c \in Client, Insert(c)
        PROVE  Chain!LogNext
    BY <2>2, InsertRecords DEF Chain!LogNext
  <2>3. ASSUME NEW c \in Client, Respond(c)
        PROVE  Chain!LogNext
    BY <2>3, RespondAcknowledges DEF Chain!LogNext
  <2>4. CASE UNCHANGED vars
    BY <2>1, <2>4 DEF vars
  <2> QED
    BY <2>1, <2>2, <2>3, <2>4
    DEF Next, Post, Connect, AcquireLock, ReadTail, Refresh, Fail, answered
<1> QED
  BY Invariance, <1>1, <1>2, PTL DEF Spec, AppendsToLog, Chain!LogSpec

-----------------------------------------------------------------------------
(* append implements the atomic append of EntryStore.                      *)

\* EntryStore's operators on rows and tables are the ones used here.
LEMMA SameOperators ==
  /\ \A t : Store!next_sequence_number(t) = next_sequence_number(t)
  /\ \A t : Store!tail_hash(t) = tail_hash(t)
  /\ \A now : Store!utc(now) = utc(now)
  /\ \A n, h, e, now : Store!new_entry(n, h, e, now) = new_entry(n, h, e, now)
  /\ \A t, x : Store!inserted(t, x) = inserted(t, x)
  /\ Store!Event = Event
  /\ \A S : Store!Cardinality(S) = Cardinality(S)
<1>1. \A t : Store!next_sequence_number(t) = next_sequence_number(t)
  BY DEF Store!next_sequence_number, next_sequence_number, Store!Max, Max
<1>2. \A t : Store!tail_hash(t) = tail_hash(t)
  BY DEF Store!tail_hash, tail_hash, Store!Max, Max, Store!GENESIS_HASH, GENESIS_HASH
<1>3. \A now : Store!utc(now) = utc(now)
  BY DEF Store!utc, utc
<1>4. \A n, h, e, now : Store!new_entry(n, h, e, now) = new_entry(n, h, e, now)
  BY DEF Store!new_entry, new_entry, Store!hash_payload, hash_payload,
         Store!compute_entry_hash, compute_entry_hash, Store!joined, joined,
         Store!piped, piped, Store!Pipe, Pipe,
         Store!compute_chain_hash, compute_chain_hash
<1>5. \A t, x : Store!inserted(t, x) = inserted(t, x)
  BY DEF Store!inserted, inserted, Store!as_stored, as_stored,
         Store!stored, stored, Store!naive, naive
<1>6. Store!Event = Event
  BY DEF Store!Event, Event
<1>7. \A S : Store!Cardinality(S) = Cardinality(S)
  BY DEF Store!Cardinality, Cardinality
<1> QED
  BY <1>1, <1>2, <1>3, <1>4, <1>5, <1>6, <1>7

\* The numbers of the rows, counted.
LEMMA RowsCounted ==
  ASSUME IInv
  PROVE  IsFiniteSet(DOMAIN table) /\ Cardinality(DOMAIN table) \in Nat
<1>1. PICK n \in Nat : DOMAIN table = 1 .. n
  BY ChainedLength DEF IInv
<1> QED
  BY <1>1, FS_Interval, FS_CardinalityType

\* Of those who have asked, one may have begun, gone on or ended.
LEMMA AppendingAfter ==
  ASSUME IInv, Next, IsFiniteSet(Appending)
  PROVE  /\ IsFiniteSet(Appending')
         /\ \/ /\ UNCHANGED table
               /\ Cardinality(Appending') <= Cardinality(Appending)
            \/ /\ UNCHANGED table
               /\ Cardinality(DOMAIN table) + Cardinality(Appending) < MaxEntries
               /\ Cardinality(Appending') = Cardinality(Appending) + 1
            \/ /\ \E c \in Client : Insert(c)
               /\ Cardinality(Appending) > 0
               /\ Cardinality(Appending') = Cardinality(Appending) - 1
<1>1. PICK c \in Client :
        \/ \E e \in Event : Post(c, e)
        \/ Connect(c) \/ AcquireLock(c) \/ ReadTail(c) \/ Insert(c)
        \/ Refresh(c) \/ Respond(c) \/ Fail(c)
  BY DEF Next
<1>2. pc \in [Client -> Step]
  BY DEF IInv, TypeOK
<1>3. Cardinality(Appending) \in Nat
  BY FS_CardinalityType
<1>4. CASE \E e \in Event : Post(c, e)
  <2>1. Appending' = Appending \cup {c} /\ c \notin Appending
    BY <1>2, <1>4 DEF Post, Appending
  <2>2. /\ UNCHANGED table
        /\ Cardinality(DOMAIN table) + Cardinality(Appending) < MaxEntries
    BY <1>4 DEF Post
  <2> QED
    BY <2>1, <2>2, FS_AddElement
<1>5. CASE Insert(c)
  <2>1. Appending' = Appending \ {c} /\ c \in Appending
    BY <1>2, <1>5 DEF Insert, Appending
  <2>2. /\ IsFiniteSet(Appending')
        /\ Cardinality(Appending') = Cardinality(Appending) - 1
    BY <2>1, FS_RemoveElement
  <2>3. Cardinality(Appending') \in Nat
    BY <2>2, FS_CardinalityType
  <2> QED
    BY <1>3, <1>5, <2>2, <2>3
<1>6. CASE Connect(c) \/ AcquireLock(c) \/ ReadTail(c) \/ Refresh(c) \/ Respond(c) \/ Fail(c)
  <2>1. Appending' \subseteq Appending /\ UNCHANGED table
    BY <1>2, <1>6 DEF Connect, AcquireLock, ReadTail, Refresh, Respond, Fail, Appending
  <2> QED
    BY <2>1, FS_Subset
<1> QED
  BY <1>1, <1>4, <1>5, <1>6

\* Whoever is let in may write its entry: rows and requests together stay
\* within MaxEntries.
LEMMA NextBounded ==
  ASSUME IInv, AskedBounded, [Next]_vars
  PROVE  AskedBounded'
<1>1. CASE UNCHANGED vars
  BY <1>1 DEF vars, AskedBounded, Appending
<1>2. CASE Next
  <2>1. /\ Cardinality(DOMAIN table) \in Nat /\ IsFiniteSet(DOMAIN table)
        /\ Cardinality(Appending) \in Nat
        /\ Cardinality(DOMAIN table) + Cardinality(Appending) <= MaxEntries
    BY RowsCounted, FS_CardinalityType DEF AskedBounded
  <2>2. IsFiniteSet(Appending') /\ Cardinality(Appending') \in Nat
    BY <1>2, AppendingAfter, FS_CardinalityType DEF AskedBounded
  <2>3. ASSUME NEW c \in Client, Insert(c)
        PROVE  Cardinality(DOMAIN table') = Cardinality(DOMAIN table) + 1
    <3>1. PICK n \in Nat : DOMAIN table = 1 .. n /\ DOMAIN table' = 1 .. (n + 1)
      BY <2>3, InsertStep
    <3>2. Cardinality(1 .. n) = n /\ Cardinality(1 .. (n + 1)) = n + 1
      BY FS_Interval
    <3> QED
      BY <3>1, <3>2
  <2>4. Cardinality(DOMAIN table') + Cardinality(Appending') <= MaxEntries
    BY <1>2, <2>1, <2>2, <2>3, AppendingAfter, BoundAssumption DEF AskedBounded
  <2> QED
    BY <2>2, <2>4 DEF AskedBounded
<1> QED
  BY <1>1, <1>2

\* A commit is the atomic append of what its client posted: what was read under
\* the lock is still the tail.
LEMMA InsertAtOnce ==
  ASSUME IInv, AskedBounded, NEW c \in Client, Insert(c)
  PROVE  Store!AppendEvent(body[c])
<1>1. PICK now \in Time :
        entry[c] = new_entry(next_sequence_number(table), tail_hash(table),
                             body[c], utc(now))
  BY DEF IInv, PendingFresh, Insert
<1>2. table' = inserted(table, entry[c])
  BY DEF Insert
<1>3. Cardinality(DOMAIN table) < MaxEntries
  <2>1. c \in Appending
    BY DEF Insert, Appending
  <2>2. Cardinality(Appending) # 0 /\ Cardinality(Appending) \in Nat
    BY <2>1, FS_EmptySet, FS_CardinalityType DEF AskedBounded
  <2> QED
    BY <2>2, RowsCounted, BoundAssumption DEF AskedBounded
<1>4. table' = Store!inserted(table,
                 Store!new_entry(Store!next_sequence_number(table),
                                 Store!tail_hash(table), body[c], Store!utc(now)))
  BY <1>1, <1>2, SameOperators
<1>5. \E instant \in Time :
        table' = Store!inserted(table,
                   Store!new_entry(Store!next_sequence_number(table),
                                   Store!tail_hash(table), body[c], Store!utc(instant)))
  BY <1>4
<1>6. Store!Cardinality(DOMAIN table) < MaxEntries
  BY <1>3, SameOperators
<1> QED
  BY <1>5, <1>6, Zenon DEF Store!AppendEvent

\* To the table, concurrent handlers that may fail anywhere are one atomic
\* append after another: the modules that take appends to be atomic may.
THEOREM AppendsAtomic == Spec => AppendsAtOnce
<1>1. Init => Store!StoreInit
  BY DEF Init, Store!StoreInit
<1>2. Init => AskedBounded
  <2> SUFFICES ASSUME Init
               PROVE  AskedBounded
    OBVIOUS
  <2>1. Appending = {} /\ DOMAIN table = {}
    BY DEF Init, Appending
  <2> QED
    BY <2>1, FS_EmptySet, BoundAssumption DEF AskedBounded
<1>3. IInv /\ AskedBounded /\ [Next]_vars => AskedBounded'
  BY NextBounded
<1>4. IInv /\ AskedBounded /\ [Next]_vars => [\E e \in Event : Store!AppendEvent(e)]_table
  <2> SUFFICES ASSUME IInv, AskedBounded, [Next]_vars, table' # table
               PROVE  \E e \in Event : Store!AppendEvent(e)
    OBVIOUS
  <2>1. PICK c \in Client : Insert(c)
    BY DEF Next, vars, Post, Connect, AcquireLock, ReadTail, Refresh, Respond, Fail
  <2>2. body[c] \in Event
    BY <2>1 DEF IInv, TypeOK, Insert
  <2> QED
    BY <2>1, <2>2, InsertAtOnce
<1> QED
  BY Invariance, <1>1, <1>2, <1>3, <1>4, PTL DEF Spec, AppendsAtOnce

=============================================================================
