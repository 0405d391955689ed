-------------------------- MODULE SessionPoolProofs --------------------------
(***************************************************************************)
(* Proofs about SessionPool, for any pool, page size, number of requests   *)
(* and number of exports.                                                  *)
(***************************************************************************)
EXTENDS SessionPool, ChainServiceProofs

\* The appenders do what they do in ChainService.
LEMMA AppendersStep == [PoolNext]_allVars => [Next]_vars
BY DEF PoolNext, allVars, vars, Next, Checkout, Acquire, Work, PostOrFail, Ask, Open,
       Close, StreamRequest, StreamConnect, StreamStep, StreamPage, StreamCommit,
       StreamFinal, StreamAbort, Collect

\* Whoever shares the pool with them, appenders do nothing but what ChainService
\* lets them do: all that is proved of ChainService holds here.
THEOREM AppendersUndisturbed == PoolSpec => Spec
<1>1. PoolInit => Init
  BY DEF PoolInit
<1> QED
  BY <1>1, AppendersStep, PTL DEF PoolSpec, Spec

LEMMA AppendersInvariance == PoolSpec => []IInv
  BY AppendersUndisturbed, Invariance

\* The connections of the appenders and of the others, of which there are few.
Finite == IsFiniteSet(Connected) /\ IsFiniteSet(held)

\* Who has the lock is between its grant and the commit.
HolderInside == lock # NoClient => lock \in Client /\ pc[lock] \in {"read", "insert"}

PoolIInv == Finite /\ PoolTypeOK /\ ReturnedWithResponse /\ HolderInside

\* The part of PoolTypeOK and ReturnedWithResponse about the streams.
StreamsOK ==
  /\ DOMAIN stream = Exporter
  /\ \A x \in Exporter :
       /\ stream[x].at \in {"idle", "connect", "page", "commit", "final", "abandoned"}
       /\ stream[x].last_seq \in {0} \cup DOMAIN table
       /\ x \in held => stream[x].at \in {"page", "commit", "abandoned"}

\* The part about the other requests.
OthersOK ==
  /\ other \in [Other -> {"idle", "connect", "open"}]
  /\ \A o \in Other : o \in held => other[o] = "open"

\* The part about the pool.
PoolOK ==
  /\ Finite
  /\ held \subseteq Other \cup Exporter
  /\ Cardinality(Connected) + Cardinality(held) <= PoolSize

LEMMA PoolParts == PoolIInv <=> PoolOK /\ OthersOK /\ StreamsOK /\ HolderInside
BY DEF PoolIInv, PoolTypeOK, ReturnedWithResponse, PoolOK, OthersOK, StreamsOK

LEMMA PoolPartsPrimed ==
  PoolOK' /\ OthersOK' /\ StreamsOK' /\ HolderInside' => PoolIInv'
BY DEF PoolIInv, PoolTypeOK, ReturnedWithResponse, PoolOK, OthersOK, StreamsOK

-----------------------------------------------------------------------------
(* The connections.                                                        *)

\* Fewer connections are no more than there were.
LEMMA FewerConnections ==
  ASSUME NEW S, NEW H, IsFiniteSet(S), IsFiniteSet(H),
         Cardinality(S) + Cardinality(H) <= PoolSize,
         NEW S1 \in SUBSET S, NEW H1 \in SUBSET H
  PROVE  /\ IsFiniteSet(S1) /\ IsFiniteSet(H1)
         /\ Cardinality(S1) + Cardinality(H1) <= PoolSize
<1>1. /\ IsFiniteSet(S1) /\ Cardinality(S1) <= Cardinality(S)
      /\ IsFiniteSet(H1) /\ Cardinality(H1) <= Cardinality(H)
  BY FS_Subset
<1>2. /\ Cardinality(S) \in Nat /\ Cardinality(H) \in Nat
      /\ Cardinality(S1) \in Nat /\ Cardinality(H1) \in Nat /\ PoolSize \in Nat
  BY <1>1, FS_CardinalityType, BoundAssumption
<1> QED
  BY <1>1, <1>2

\* One more connection, where there was room.
LEMMA OneMore ==
  ASSUME NEW S, NEW H, IsFiniteSet(S), IsFiniteSet(H),
         Cardinality(S) + Cardinality(H) < PoolSize, NEW x
  PROVE  /\ IsFiniteSet(S \cup {x})
         /\ Cardinality(S \cup {x}) + Cardinality(H) <= PoolSize
<1>1. /\ IsFiniteSet(S \cup {x})
      /\ Cardinality(S \cup {x}) = IF x \in S THEN Cardinality(S) ELSE Cardinality(S) + 1
  BY FS_AddElement
<1>2. Cardinality(S) \in Nat /\ Cardinality(H) \in Nat /\ PoolSize \in Nat
  BY FS_CardinalityType, BoundAssumption
<1> QED
  BY <1>1, <1>2

\* PoolOK after a step that takes no connection.
LEMMA NoneTaken ==
  ASSUME PoolOK, Connected' \subseteq Connected, held' \subseteq held
  PROVE  PoolOK'
<1>1. /\ IsFiniteSet(Connected') /\ IsFiniteSet(held')
      /\ Cardinality(Connected') + Cardinality(held') <= PoolSize
  BY FewerConnections DEF PoolOK, Finite
<1> QED
  BY <1>1 DEF PoolOK, Finite

\* PoolOK after a sharer took a connection.
LEMMA OneTaken ==
  ASSUME PoolOK, Connected' = Connected, room, NEW x \in Other \cup Exporter,
         held' = held \cup {x}
  PROVE  PoolOK'
<1>1. /\ IsFiniteSet(held) /\ IsFiniteSet(Connected)
      /\ Cardinality(Connected) + Cardinality(held) < PoolSize
  BY DEF PoolOK, Finite, room
<1>2. Cardinality(held) + Cardinality(Connected) < PoolSize
  BY <1>1, FS_CardinalityType
<1>3. /\ IsFiniteSet(held \cup {x})
      /\ Cardinality(held \cup {x}) + Cardinality(Connected) <= PoolSize
  BY <1>1, <1>2, OneMore
<1>4. Cardinality(Connected) + Cardinality(held \cup {x}) <= PoolSize
  BY <1>1, <1>3, FS_CardinalityType
<1> QED
  BY <1>1, <1>3, <1>4 DEF PoolOK, Finite

-----------------------------------------------------------------------------
(* The steps.                                                              *)

\* The steps of the appenders; they leave the others alone.
LEMMA AppenderStep ==
  ASSUME PoolIInv, IInv, IInv', UNCHANGED poolVars, NEW c \in Client,
         Checkout(c) \/ Acquire(c) \/ Work(c) \/ PostOrFail(c)
  PROVE  PoolIInv'
<1>1. PoolOK /\ OthersOK /\ StreamsOK /\ HolderInside
  BY PoolParts
<1>2. /\ held' = held /\ other' = other /\ stream' = stream
      /\ pc \in [Client -> Step] /\ NoClient \notin Client
  BY ClientAssumption DEF poolVars, IInv, TypeOK
<1>3. DOMAIN table \subseteq DOMAIN table'
  <2>1. CASE table' = table
    BY <2>1
  <2>2. CASE Insert(c)
    BY <2>2, InsertStep
  <2> QED
    BY <2>1, <2>2 DEF Checkout, Acquire, Work, PostOrFail, Connect, AcquireLock, ReadTail,
                      Refresh, Respond, Post, Fail
<1>4. OthersOK' /\ StreamsOK'
  BY <1>1, <1>2, <1>3 DEF OthersOK, StreamsOK
<1>5. PoolOK'
  <2>1. CASE Checkout(c)
    <3>1. Connected' \subseteq Connected \cup {c}
      BY <1>2, <2>1 DEF Checkout, Connect, Refresh, Connected
    <3>2. Cardinality(Connected) + Cardinality(held) < PoolSize
      BY <2>1 DEF Checkout, room
    <3>3. /\ IsFiniteSet(Connected \cup {c}) /\ IsFiniteSet(held)
          /\ Cardinality(Connected \cup {c}) + Cardinality(held) <= PoolSize
      BY <1>1, <3>2, OneMore DEF PoolOK, Finite
    <3>4. /\ IsFiniteSet(Connected')
          /\ Cardinality(Connected') + Cardinality(held) <= PoolSize
      BY <3>1, <3>3, FewerConnections
    <3> QED
      BY <1>1, <1>2, <3>3, <3>4 DEF PoolOK, Finite
  <2>2. CASE Acquire(c) \/ Work(c) \/ PostOrFail(c)
    <3>1. Connected' \subseteq Connected
      BY <1>2, <2>2 DEF Acquire, Work, PostOrFail, AcquireLock, ReadTail, Insert, Respond,
                        Post, Fail, Connected
    <3> QED
      BY <1>1, <1>2, <3>1, NoneTaken
  <2> QED
    BY <2>1, <2>2
<1>6. HolderInside'
  <2>1. CASE Acquire(c)
    BY <1>2, <2>1 DEF Acquire, AcquireLock, HolderInside
  <2>2. CASE Checkout(c)
    BY <1>1, <1>2, <2>2 DEF Checkout, Connect, Refresh, HolderInside
  <2>3. CASE Work(c)
    BY <1>1, <1>2, <2>3 DEF Work, ReadTail, Insert, Respond, HolderInside, released
  <2>4. CASE PostOrFail(c)
    BY <1>1, <1>2, <2>4 DEF PostOrFail, Post, Fail, HolderInside, released
  <2> QED
    BY <2>1, <2>2, <2>3, <2>4
<1> QED
  BY <1>4, <1>5, <1>6, PoolPartsPrimed

\* The steps of the other requests.
LEMMA OtherStep ==
  ASSUME PoolIInv, UNCHANGED vars, NEW o \in Other, Ask(o) \/ Open(o) \/ Close(o)
  PROVE  PoolIInv'
<1>1. PoolOK /\ OthersOK /\ StreamsOK /\ HolderInside
  BY PoolParts
<1>2. /\ stream' = stream /\ Connected' = Connected /\ table' = table
      /\ o \notin Exporter
  BY SharersAssumption DEF vars, Connected, Ask, Open, Close
<1>3. HolderInside'
  BY <1>1 DEF HolderInside, vars
<1>4. ASSUME held' \subseteq held \cup {o}
      PROVE  StreamsOK'
  BY <1>1, <1>2, <1>4 DEF StreamsOK
<1>5. CASE Ask(o) \/ Close(o)
  <2>1. held' \subseteq held
    BY <1>5 DEF Ask, Close, closed
  <2>2. OthersOK'
    BY <1>1, <1>5 DEF OthersOK, Ask, Close, closed, at_other
  <2> QED
    BY <1>1, <1>2, <1>3, <1>4, <2>1, <2>2, NoneTaken, PoolPartsPrimed
<1>6. CASE Open(o)
  <2>1. held' = held \cup {o} /\ room
    BY <1>6 DEF Open
  <2>2. OthersOK'
    BY <1>1, <1>6 DEF OthersOK, Open, at_other
  <2>3. PoolOK'
    BY <1>1, <1>2, <2>1, OneTaken
  <2> QED
    BY <1>3, <1>4, <2>1, <2>2, <2>3, PoolPartsPrimed
<1> QED
  BY <1>5, <1>6

\* A page that is not the last ends with a row of the table.
LEMMA PageEnds ==
  ASSUME IInv, NEW last, NEW rows,
         rows \subseteq {s \in DOMAIN table : s > last}, ~ (Cardinality(rows) < PageSize)
  PROVE  Max(rows) \in DOMAIN table
<1>1. PICK n \in Nat : DOMAIN table = 1 .. n
  BY ChainedLength DEF IInv
<1>2. rows # {}
  BY FS_EmptySet, PageSizeAssumption
<1>3. rows \subseteq Nat /\ \A s \in rows : s <= n
  BY <1>1
<1>4. Max(rows) \in rows
  BY <1>2, <1>3, GreatestNumber
<1> QED
  BY <1>4

\* The steps of an export.
LEMMA ExportersStep ==
  ASSUME PoolIInv, IInv, UNCHANGED vars, NEW x \in Exporter,
         StreamRequest(x) \/ StreamConnect(x) \/ StreamStep(x) \/ StreamAbort(x)
  PROVE  PoolIInv'
<1>1. PoolOK /\ OthersOK /\ StreamsOK /\ HolderInside
  BY PoolParts
<1>2. /\ other' = other /\ Connected' = Connected /\ table' = table
      /\ x \notin Other
  BY SharersAssumption DEF vars, Connected, StreamRequest, StreamConnect, StreamStep,
       StreamPage, StreamCommit, StreamFinal, StreamAbort, Collect
<1>3. HolderInside'
  BY <1>1 DEF HolderInside, vars
<1>4. ASSUME held' \subseteq held \cup {x}
      PROVE  OthersOK'
  BY <1>1, <1>2, <1>4 DEF OthersOK
<1>5. CASE StreamConnect(x)
  <2>1. held' = held \cup {x} /\ room
    BY <1>5 DEF StreamConnect
  <2>2. StreamsOK'
    BY <1>1, <1>2, <1>5 DEF StreamsOK, StreamConnect, at_stream
  <2> QED
    BY <1>1, <1>2, <1>3, <1>4, <2>1, <2>2, OneTaken, PoolPartsPrimed
<1>6. CASE StreamRequest(x) \/ StreamStep(x) \/ StreamAbort(x)
  <2>1. held' \subseteq held
    BY <1>6 DEF StreamRequest, StreamStep, StreamPage, StreamCommit, StreamFinal,
                StreamAbort, Collect, committed, collected
  <2>2. StreamsOK'
    <3>1. CASE StreamPage(x)
      <4> DEFINE last == stream[x].last_seq
                 rest == {s \in DOMAIN table : s > last}
                 rows == {s \in rest : Cardinality({r \in rest : r < s}) < PageSize}
      <4>1. /\ held' = held
            /\ stream[x].at = "page"
            /\ IF Cardinality(rows) < PageSize
               THEN stream' = [stream EXCEPT ![x] = [at |-> "commit", last_seq |-> last]]
               ELSE stream' = [stream EXCEPT ![x] = [at |-> "page", last_seq |-> Max(rows)]]
        BY <3>1 DEF StreamPage, at_stream, moved
      <4>2. ~ (Cardinality(rows) < PageSize) => Max(rows) \in DOMAIN table
        <5>1. rows \subseteq {s \in DOMAIN table : s > last}
          OBVIOUS
        <5> HIDE DEF rows, last
        <5> QED
          BY <5>1, PageEnds
      <4> HIDE DEF rows, rest
      <4> QED
        BY <1>1, <1>2, <4>1, <4>2 DEF StreamsOK
    <3>2. CASE StreamRequest(x) \/ StreamCommit(x) \/ StreamFinal(x) \/ StreamAbort(x) \/ Collect(x)
      BY <1>1, <1>2, <3>2 DEF StreamsOK, StreamRequest, StreamCommit, StreamFinal,
           StreamAbort, Collect, committed, collected, at_stream
    <3> QED
      BY <1>6, <3>1, <3>2 DEF StreamStep
  <2> QED
    BY <1>1, <1>2, <1>3, <1>4, <2>1, <2>2, NoneTaken, PoolPartsPrimed
<1> QED
  BY <1>5, <1>6

LEMMA PoolInitIInv == PoolInit => PoolIInv
<1> SUFFICES ASSUME PoolInit PROVE PoolIInv
  OBVIOUS
<1>1. /\ lock = NoClient /\ pc = [c \in Client |-> "idle"]
      /\ held = {} /\ other = [o \in Other |-> "idle"]
      /\ stream = [x \in Exporter |-> NoStream]
  BY DEF PoolInit, Init
<1>2. Connected = {}
  BY <1>1 DEF Connected
<1>3. PoolOK
  BY <1>1, <1>2, FS_EmptySet, BoundAssumption DEF PoolOK, Finite
<1>4. OthersOK /\ StreamsOK /\ HolderInside
  BY <1>1 DEF OthersOK, StreamsOK, HolderInside, NoStream
<1> QED
  BY <1>3, <1>4, PoolParts

LEMMA PoolNextIInv == PoolIInv /\ IInv /\ IInv' /\ [PoolNext]_allVars => PoolIInv'
<1> SUFFICES ASSUME PoolIInv, IInv, IInv', [PoolNext]_allVars PROVE PoolIInv'
  OBVIOUS
<1>1. ASSUME NEW c \in Client, Checkout(c) \/ Acquire(c) \/ Work(c) \/ PostOrFail(c)
      PROVE  PoolIInv'
  <2>1. UNCHANGED poolVars
    BY <1>1 DEF Checkout, Acquire, Work, PostOrFail
  <2> QED
    BY <1>1, <2>1, AppenderStep
<1>2. ASSUME NEW o \in Other, Ask(o) \/ Open(o) \/ Close(o)
      PROVE  PoolIInv'
  <2>1. UNCHANGED vars
    BY <1>2 DEF Ask, Open, Close
  <2> QED
    BY <1>2, <2>1, OtherStep
<1>3. ASSUME NEW x \in Exporter,
             StreamRequest(x) \/ StreamConnect(x) \/ StreamStep(x) \/ StreamAbort(x)
      PROVE  PoolIInv'
  <2>1. UNCHANGED vars
    BY <1>3 DEF StreamRequest, StreamConnect, StreamStep, StreamPage, StreamCommit,
                StreamFinal, StreamAbort, Collect
  <2> QED
    BY <1>3, <2>1, ExportersStep
<1>4. CASE UNCHANGED allVars
  BY <1>4 DEF allVars, PoolIInv, Finite, PoolTypeOK, ReturnedWithResponse, HolderInside,
              Connected
<1> QED
  BY <1>1, <1>2, <1>3, <1>4 DEF PoolNext

-----------------------------------------------------------------------------
(* The theorems.                                                           *)

\* The inductive invariant of the pool and of who shares it.
THEOREM PoolInvariance == PoolSpec => []PoolIInv
  BY PoolInitIInv, PoolNextIInv, AppendersInvariance, PTL DEF PoolSpec

\* The pool never gives out more connections than it has.
THEOREM PoolBounded == PoolSpec => []PoolTypeOK
<1>1. PoolIInv => PoolTypeOK
  BY DEF PoolIInv
<1> QED
  BY <1>1, PoolInvariance, PTL

\* Every session's connection is back when its response is complete, the one of
\* an export before the last chunk.
THEOREM ConnectionsReturned == PoolSpec => []ReturnedWithResponse
<1>1. PoolIInv => ReturnedWithResponse
  BY DEF PoolIInv
<1> QED
  BY <1>1, PoolInvariance, PTL

\* The holder of the advisory lock has a connection and waits for nothing.
THEOREM HolderNeverWaits == PoolSpec => []LockHolderRuns
<1>1. PoolIInv => LockHolderRuns
  BY DEF PoolIInv, HolderInside, LockHolderRuns, Connected
<1> QED
  BY <1>1, PoolInvariance, PTL

\* An appender whose next step needs no more than what it has.
GoesOn(c) ==
  \/ pc[c] \in {"read", "insert", "respond"}
  \/ pc[c] = "lock" /\ lock = NoClient

\* Somebody with a connection goes on, where nobody can get one.
SomebodyGoesOn ==
  ~ room =>
    \/ \E c \in Client : GoesOn(c)
    \/ \E o \in Other \cap held : other[o] = "open"
    \/ \E x \in Exporter \cap held : stream[x].at \in {"page", "commit", "abandoned"}

\* There is no circle of sessions that wait for the lock with a connection in
\* hand and sessions that wait for a connection, whatever the size of the pool.
THEOREM NoCircularWait == PoolSpec => []SomebodyGoesOn
<1>1. ASSUME PoolIInv, IInv, ~ room
      PROVE  \/ \E c \in Client : GoesOn(c)
             \/ \E o \in Other \cap held : other[o] = "open"
             \/ \E x \in Exporter \cap held : stream[x].at \in {"page", "commit", "abandoned"}
  <2>1. CASE held # {}
    BY <1>1, <2>1 DEF PoolIInv, PoolTypeOK, ReturnedWithResponse
  <2>2. CASE held = {}
    <3>1. Connected # {}
      <4> SUFFICES ASSUME Connected = {} PROVE FALSE
        OBVIOUS
      <4>1. Cardinality(Connected) = 0 /\ Cardinality(held) = 0
        BY <2>2, FS_EmptySet
      <4> QED
        BY <1>1, <4>1, BoundAssumption DEF room
    <3>2. PICK c \in Client : pc[c] \in {"lock", "read", "insert", "respond"}
      BY <3>1 DEF Connected
    <3>3. CASE pc[c] # "lock" \/ lock = NoClient
      BY <3>2, <3>3 DEF GoesOn
    <3>4. CASE lock # NoClient
      BY <1>1, <3>4 DEF PoolIInv, HolderInside, GoesOn
    <3> QED
      BY <3>3, <3>4
  <2> QED
    BY <2>1, <2>2
<1>2. PoolIInv /\ IInv => SomebodyGoesOn
  BY <1>1 DEF SomebodyGoesOn
<1> QED
  BY <1>2, PoolInvariance, AppendersInvariance, PTL

=============================================================================
