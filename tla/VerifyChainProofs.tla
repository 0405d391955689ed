-------------------------- MODULE VerifyChainProofs --------------------------
(***************************************************************************)
(* Proofs about VerifyChain: its loop is right on whatever table, and what *)
(* its answer says of a table that was written to past the service.        *)
(***************************************************************************)
EXTENDS VerifyChain, ChainServiceProofs

-----------------------------------------------------------------------------
(* Numbered tables.                                                        *)

Bounded(S) == \E b \in Nat : \A s \in S : s <= b

\* Rows are stored under their own numbers, of which there is a greatest.
Numbered(t) ==
  /\ DOMAIN t \subseteq Nat
  /\ Bounded(DOMAIN t)
  /\ \A s \in DOMAIN t : t[s].sequence_number = s

\* A bounded set with one number more is bounded.
LEMMA BoundedAdd ==
  ASSUME NEW S, S \subseteq Nat, Bounded(S), NEW n \in Nat
  PROVE  Bounded(S \cup {n})
<1>1. PICK b \in Nat : \A s \in S : s <= b
  BY DEF Bounded
<1>2. b + n \in Nat /\ \A s \in S \cup {n} : s <= b + n
  BY <1>1
<1> QED
  BY <1>2 DEF Bounded

\* Max finds the greatest number of a bounded set.
LEMMA BoundedMax ==
  ASSUME NEW S, S \subseteq Nat, Bounded(S), S # {}
  PROVE  Max(S) \in S /\ \A s \in S : s <= Max(S)
<1>1. PICK b \in Nat : \A s \in S : s <= b
  BY DEF Bounded
<1> QED
  BY <1>1, GreatestNumber

\* append computes a number from whatever numbered table.
LEMMA NextOfNumbered ==
  ASSUME NEW t, Numbered(t)
  PROVE  next_sequence_number(t) \in Nat \ {0}
<1> DEFINE m == Max(DOMAIN t)
<1>1. DOMAIN t # {} => m \in Nat
  BY BoundedMax DEF Numbered
<1>2. next_sequence_number(t) = IF DOMAIN t = {} THEN 1 ELSE m + 1
  BY DEF next_sequence_number
<1> HIDE DEF m
<1>3. CASE DOMAIN t = {}
  BY <1>2, <1>3
<1>4. CASE DOMAIN t # {}
  <2>1. m + 1 \in Nat \ {0}
    BY <1>1, <1>4
  <2> QED
    BY <1>2, <1>4, <2>1
<1> QED
  BY <1>3, <1>4

\* A table with one row more, and no others, is numbered.
LEMMA NumberedAdd ==
  ASSUME NEW t, Numbered(t), NEW u, NEW n \in Nat,
         DOMAIN u \subseteq DOMAIN t \cup {n},
         \A s \in DOMAIN u : u[s].sequence_number = s
  PROVE  Numbered(u)
<1>1. Bounded(DOMAIN t \cup {n})
  BY BoundedAdd DEF Numbered
<1>2. Bounded(DOMAIN u)
  BY <1>1 DEF Bounded
<1>3. DOMAIN u \subseteq Nat
  BY DEF Numbered
<1> QED
  BY <1>2, <1>3 DEF Numbered

-----------------------------------------------------------------------------
(* The loop.                                                               *)

Judged(q) == q.result = verify_chain(q.entries)

WalkRight(q) ==
  /\ Numbered(q.entries)
  /\ q.at \in {"idle", "select", "loop", "done"}
  /\ q.at = "loop" => Looping(q)
  /\ q.at = "done" => Judged(q)

\* The rows behind the loop are those with a smaller number.
LEMMA PassedAreEarlier ==
  ASSUME NEW q, Numbered(q.entries), Looping(q), q.rest # {}
  PROVE  LET s == Min(q.rest)
         IN  /\ s \in q.rest /\ s \in DOMAIN q.entries
             /\ \A r \in q.rest : s <= r
             /\ DOMAIN q.entries \ q.rest = {r \in DOMAIN q.entries : r < s}
<1> DEFINE s == Min(q.rest)
<1>1. q.rest \subseteq DOMAIN q.entries /\ DOMAIN q.entries \subseteq Nat
  BY DEF Looping, Numbered
<1>2. s \in q.rest /\ \A r \in q.rest : s <= r
  BY <1>1, SmallestNumber
<1> HIDE DEF s
<1>3. \A p \in DOMAIN q.entries \ q.rest : p < s
  BY <1>2 DEF Looping
<1>4. \A r \in q.rest : ~ (r < s)
  BY <1>1, <1>2
<1>5. DOMAIN q.entries \ q.rest = {r \in DOMAIN q.entries : r < s}
  BY <1>3, <1>4
<1> QED
  BY <1>1, <1>2, <1>5 DEF s

\* What the loop carries is the hash that the definition compares row s with,
\* and so it finds the row right exactly when it is not broken.
LEMMA IterationDecides ==
  ASSUME NEW q, Numbered(q.entries), Looping(q), q.rest # {}
  PROVE  LET s   == Min(q.rest)
             row == q.entries[s]
         IN  s \notin broken(q.entries) <=>
               /\ entry_hash_matches(row)
               /\ row.chain_hash = compute_chain_hash(row.entry_hash, q.previous_hash)
<1> DEFINE s == Min(q.rest)
<1>1. /\ s \in DOMAIN q.entries
      /\ DOMAIN q.entries \ q.rest = {r \in DOMAIN q.entries : r < s}
  BY PassedAreEarlier
<1> HIDE DEF s
<1>2. q.previous_hash = previous_hash(q.entries, s)
  BY <1>1 DEF Looping, previous_hash
<1>3. s \notin broken(q.entries) <=>
        /\ entry_hash_matches(q.entries[s])
        /\ chain_hash_matches(q.entries, s)
  BY <1>1 DEF broken
<1> QED
  BY <1>2, <1>3 DEF chain_hash_matches, s

\* After a row that is right, the loop goes on as it should.
LEMMA IterationPasses ==
  ASSUME NEW q, Numbered(q.entries), Looping(q), q.rest # {},
         Min(q.rest) \notin broken(q.entries)
  PROVE  LET s == Min(q.rest)
         IN  WalkRight(walking("loop", q.entries, q.rest \ {s},
                               advanced(q.entries[s]), None))
<1> DEFINE s == Min(q.rest)
           p == walking("loop", q.entries, q.rest \ {s},
                        advanced(q.entries[s]), None)
           passed == DOMAIN q.entries \ p.rest
<1>1. /\ s \in q.rest /\ s \in DOMAIN q.entries
      /\ \A r \in q.rest : s <= r
      /\ DOMAIN q.entries \ q.rest = {r \in DOMAIN q.entries : r < s}
  BY PassedAreEarlier
<1>2. s \notin broken(q.entries)
  OBVIOUS
<1> HIDE DEF s
<1>3. /\ p.at = "loop" /\ p.entries = q.entries /\ p.rest = q.rest \ {s}
      /\ p.previous_hash = q.entries[s].chain_hash
  BY DEF walking, advanced
<1> HIDE DEF p
<1>4. q.rest \subseteq DOMAIN q.entries /\ DOMAIN q.entries \subseteq Nat
  BY DEF Looping, Numbered
<1>5. passed = (DOMAIN q.entries \ q.rest) \cup {s}
  BY <1>1, <1>3, <1>4
<1>6. \A r \in passed : r <= s
  BY <1>1, <1>4, <1>5
<1>7. Max(passed) = s
  BY <1>1, <1>4, <1>5, <1>6 DEF Max
<1>8. \A a \in passed, r \in p.rest : a < r
  BY <1>1, <1>3, <1>4, <1>6
<1>9. passed \cap broken(q.entries) = {}
  BY <1>2, <1>5 DEF Looping
<1> HIDE DEF passed
<1>10. Looping(p)
  BY <1>3, <1>4, <1>5, <1>7, <1>8, <1>9 DEF Looping, passed
<1> QED
  BY <1>3, <1>10 DEF WalkRight, p, s

\* The first row that is not right is the least broken one.
LEMMA IterationFails ==
  ASSUME NEW q, Numbered(q.entries), Looping(q), q.rest # {},
         Min(q.rest) \in broken(q.entries)
  PROVE  Min(q.rest) = Min(broken(q.entries)) /\ broken(q.entries) # {}
<1> DEFINE s == Min(q.rest)
<1>1. \A r \in q.rest : s <= r
  BY PassedAreEarlier
<1>2. broken(q.entries) \subseteq q.rest /\ broken(q.entries) \subseteq Nat
  BY DEF Looping, broken, Numbered
<1>3. /\ Min(broken(q.entries)) \in broken(q.entries)
      /\ \A r \in broken(q.entries) : Min(broken(q.entries)) <= r
  BY <1>2, SmallestNumber
<1> QED
  BY <1>1, <1>2, <1>3

-----------------------------------------------------------------------------
(* The inductive invariant.                                                *)

\* What an appender is about to insert can be recorded.
PendingRecorded ==
  /\ DOMAIN pc = Client /\ DOMAIN body = Client /\ DOMAIN entry = Client
  /\ \A c \in Client : pc[c] # "idle" => body[c] \in Event
  /\ \A c \in Client : pc[c] = "insert" =>
       /\ entry[c].sequence_number \in Nat \ {0}
       /\ entry[c].core \in Core
       /\ entry[c].created_at = utc(entry[c].created_at.at)

WalkIInv ==
  /\ Recorded(table) /\ Numbered(table)
  /\ PendingRecorded
  /\ Recorded(walk.entries) /\ WalkRight(walk)

\* It holds of the empty table and no request.
LEMMA WalkInitIInv == WalkInit => WalkIInv
<1> SUFFICES ASSUME WalkInit
             PROVE  WalkIInv
  OBVIOUS
<1>1. Numbered(<< >>) /\ Recorded(<< >>)
  BY DEF Numbered, Bounded, Recorded
<1>2. Recorded(table) /\ Numbered(table)
  BY <1>1 DEF WalkInit, Init
<1>3. PendingRecorded
  BY DEF PendingRecorded, WalkInit, Init
<1>4. Recorded(walk.entries) /\ WalkRight(walk)
  BY <1>1 DEF WalkInit, NoWalk, walking, WalkRight
<1> QED
  BY <1>2, <1>3, <1>4 DEF WalkIInv

\* The steps of the appenders keep the table recorded, whatever table it is.
LEMMA ServiceRecords ==
  ASSUME WalkIInv, Next
  PROVE  Recorded(table') /\ Numbered(table') /\ PendingRecorded'
<1> USE DEF WalkIInv
<1>1. ASSUME NEW c \in Client, ReadTail(c)
      PROVE  Recorded(table') /\ Numbered(table') /\ PendingRecorded'
  <2>1. PICK now \in Time :
          entry' = [entry EXCEPT ![c] =
                      new_entry(next_sequence_number(table), tail_hash(table),
                                body[c], utc(now))]
    BY <1>1 DEF ReadTail
  <2>2. next_sequence_number(table) \in Nat \ {0}
    BY NextOfNumbered
  <2>3. body[c] \in Event
    BY <1>1 DEF PendingRecorded, ReadTail
  <2>4. /\ entry'[c].sequence_number \in Nat \ {0}
        /\ entry'[c].core \in Core
        /\ entry'[c].created_at = utc(entry'[c].created_at.at)
    BY <2>1, <2>2, <2>3 DEF PendingRecorded, new_entry, Event, utc
  <2>5. PendingRecorded'
    BY <1>1, <2>1, <2>4 DEF PendingRecorded, ReadTail
  <2> QED
    BY <1>1, <2>5 DEF ReadTail
<1>2. ASSUME NEW c \in Client, Insert(c)
      PROVE  Recorded(table') /\ Numbered(table') /\ PendingRecorded'
  <2> DEFINE x == entry[c]
             n == x.sequence_number
             y == as_stored(x)
  <2>1. /\ table' = inserted(table, x)
        /\ n \in Nat \ {0} /\ x.core \in Core /\ x.created_at = utc(x.created_at.at)
    BY <1>2 DEF Insert, PendingRecorded
  <2>2. /\ y.sequence_number = n
        /\ y.core \in Core
        /\ y.created_at = stored(utc(y.created_at.at))
    BY <2>1 DEF as_stored, stored, utc, naive
  <2>3. table' = [s \in DOMAIN table \cup {n} |-> IF s = n THEN y ELSE table[s]]
    BY <2>1 DEF inserted
  <2> HIDE DEF n, y
  <2>4. Recorded(table') /\ DOMAIN table' = DOMAIN table \cup {n}
    BY <2>1, <2>2, <2>3 DEF Recorded
  <2>5. Numbered(table')
    BY <2>1, <2>4, NumberedAdd DEF Recorded
  <2>6. PendingRecorded'
    BY <1>2 DEF PendingRecorded, Insert
  <2> QED
    BY <2>4, <2>5, <2>6
<1>3. ASSUME NEW c \in Client,
             \/ \E e \in Event : Post(c, e)
             \/ Connect(c) \/ AcquireLock(c) \/ Refresh(c) \/ Respond(c) \/ Fail(c)
      PROVE  Recorded(table') /\ Numbered(table') /\ PendingRecorded'
  <2>1. UNCHANGED table
    BY <1>3 DEF Post, Connect, AcquireLock, Refresh, Respond, Fail
  <2>2. PendingRecorded'
    BY <1>3 DEF PendingRecorded, Post, Connect, AcquireLock, Refresh, Respond, Fail
  <2> QED
    BY <2>1, <2>2
<1> QED
  BY <1>1, <1>2, <1>3 DEF Next

\* Writes past the service leave rows under their own numbers, with columns
\* as the database keeps them, and add one number at most.
LEMMA OutsideRecords ==
  ASSUME Recorded(table), Outside
  PROVE  /\ Recorded(table')
         /\ \E n \in Nat : DOMAIN table' \subseteq DOMAIN table \cup {n}
         /\ UNCHANGED <<lock, pc, body, entry, acked, walk, appended>>
         /\ damages' = damages + 1
<1>0. \A n \in 1 .. MaxEntries + 1 : n \in Nat \ {0}
  BY BoundAssumption
<1>1. ASSUME NEW s \in DOMAIN table, Overwrite(s)
      PROVE  Recorded(table') /\ DOMAIN table' = DOMAIN table
  <2>1. PICK o \in Overwrites :
          table' = [table EXCEPT ![s] = [@ EXCEPT ![o.column] = o.value]]
    BY <1>1 DEF Overwrite, Damaged
  <2>2. /\ o.column # "sequence_number"
        /\ o.column = "core" => o.value \in Core
        /\ o.column = "created_at" => o.value = stored(utc(0))
    BY DEF Overwrites
  <2>3. stored(utc(0)) = stored(utc(stored(utc(0)).at))
    BY DEF stored, utc, naive
  <2>4. \A r \in DOMAIN table : r # s => table'[r] = table[r]
    BY <2>1
  <2>5. /\ table'[s].sequence_number = s
        /\ table'[s].core \in Core
        /\ table'[s].created_at = stored(utc(table'[s].created_at.at))
    <3>1. table'[s] = [table[s] EXCEPT ![o.column] = o.value]
      BY <2>1
    <3> QED
      BY <2>2, <2>3, <3>1 DEF Recorded
  <2> QED
    BY <2>1, <2>4, <2>5 DEF Recorded
<1>2. ASSUME NEW s \in DOMAIN table, Rehash(s)
      PROVE  Recorded(table') /\ DOMAIN table' = DOMAIN table
  BY <1>2 DEF Rehash, Damaged, Recorded
<1>3. ASSUME NEW s \in DOMAIN table, Lose(s)
      PROVE  Recorded(table') /\ DOMAIN table' \subseteq DOMAIN table
  BY <1>3 DEF Lose, Damaged, Recorded
<1>4. ASSUME NEW s \in DOMAIN table, NEW n \in 1 .. MaxEntries + 1, Renumber(s, n)
      PROVE  Recorded(table') /\ DOMAIN table' \subseteq DOMAIN table \cup {n}
  BY <1>0, <1>4 DEF Renumber, Damaged, Recorded
<1>5. ASSUME NEW n \in 1 .. MaxEntries + 1, Add(n)
      PROVE  Recorded(table') /\ DOMAIN table' \subseteq DOMAIN table \cup {n}
  <2>1. PICK e \in Event, now \in Time :
          table' = inserted(table, new_entry(n, previous_hash(table, n), e, utc(now)))
    BY <1>5 DEF Add, Damaged
  <2> DEFINE x == new_entry(n, previous_hash(table, n), e, utc(now))
             y == as_stored(x)
  <2>2. x.sequence_number = n
    BY DEF new_entry
  <2>3. /\ y.sequence_number = n
        /\ y.core \in Core
        /\ y.created_at = stored(utc(y.created_at.at))
    BY DEF new_entry, as_stored, Event, stored, utc, naive
  <2> HIDE DEF y
  <2>4. table' = [r \in DOMAIN table \cup {n} |-> IF r = n THEN y ELSE table[r]]
    BY <2>1, <2>2 DEF inserted, y
  <2> HIDE DEF x
  <2> QED
    BY <1>0, <2>3, <2>4 DEF Recorded
<1>6. /\ UNCHANGED <<lock, pc, body, entry, acked, walk, appended>>
      /\ damages' = damages + 1
  BY DEF Outside, Overwrite, Rehash, Lose, Renumber, Add, Damaged
<1>7. Recorded(table') /\ \E n \in Nat : DOMAIN table' \subseteq DOMAIN table \cup {n}
  <2>1. 0 \in Nat
    OBVIOUS
  <2>2. CASE \E s \in DOMAIN table : Overwrite(s) \/ Rehash(s) \/ Lose(s)
    BY <1>1, <1>2, <1>3, <2>1, <2>2
  <2>3. CASE \E s \in DOMAIN table, n \in 1 .. MaxEntries + 1 : Renumber(s, n)
    BY <1>0, <1>4, <2>3
  <2>4. CASE \E n \in 1 .. MaxEntries + 1 : Add(n)
    BY <1>0, <1>5, <2>4
  <2> QED
    BY <2>2, <2>3, <2>4 DEF Outside
<1> QED
  BY <1>6, <1>7

\* The steps of the walk keep it right.
LEMMA WalkStepRight ==
  ASSUME WalkIInv,
         VerifyRequest \/ VerifySelect \/ VerifyEntry \/ VerifyEnd \/ VerifyRespond
  PROVE  Recorded(walk.entries)' /\ WalkRight(walk)'
<1> USE DEF WalkIInv
<1>1. Numbered(<< >>) /\ Recorded(<< >>)
  BY DEF Numbered, Bounded, Recorded
<1>2. CASE VerifyRequest \/ VerifyRespond
  <2>1. walk'.at \in {"idle", "select"} /\ walk'.entries = << >>
    BY <1>2 DEF VerifyRequest, VerifyRespond, NoWalk, walking
  <2> QED
    BY <1>1, <2>1 DEF WalkRight
<1>3. CASE VerifySelect
  <2>1. /\ walk'.at = "loop" /\ walk'.entries = table /\ walk'.rest = DOMAIN table
        /\ walk'.previous_hash = GENESIS_HASH
    BY <1>3 DEF VerifySelect, walking
  <2>2. Looping(walk')
    BY <2>1 DEF Looping
  <2> QED
    BY <2>1, <2>2 DEF WalkRight
<1>4. CASE VerifyEntry
  <2> DEFINE s   == Min(walk.rest)
             row == walk.entries[s]
  <2>1. Numbered(walk.entries) /\ Looping(walk) /\ walk.rest # {}
    BY <1>4 DEF VerifyEntry, WalkRight
  <2>2. CASE s \notin broken(walk.entries)
    <3>1. walk' = walking("loop", walk.entries, walk.rest \ {s},
                          advanced(row), None)
      BY <1>4, <2>1, <2>2, IterationDecides DEF VerifyEntry
    <3>2. walk'.entries = walk.entries
      BY <3>1 DEF walking
    <3> QED
      BY <2>1, <2>2, <3>1, <3>2, IterationPasses
  <2>3. CASE s \in broken(walk.entries)
    <3>1. walk' = answer(FALSE, row.sequence_number)
      BY <1>4, <2>1, <2>3, IterationDecides DEF VerifyEntry
    <3>2. row.sequence_number = s
      BY <2>1, PassedAreEarlier DEF Numbered
    <3>3. s = Min(broken(walk.entries)) /\ broken(walk.entries) # {}
      BY <2>1, <2>3, IterationFails
    <3> HIDE DEF s, row
    <3>4. walk'.at = "done" /\ walk'.entries = walk.entries /\ Judged(walk')
      BY <3>1, <3>2, <3>3 DEF answer, walking, Judged, verify_chain
    <3> QED
      BY <2>1, <3>4 DEF WalkRight
  <2> QED
    BY <2>2, <2>3
<1>5. CASE VerifyEnd
  <2>1. Numbered(walk.entries) /\ Looping(walk) /\ walk.rest = {} /\ walk' = answer(TRUE, None)
    BY <1>5 DEF VerifyEnd, WalkRight
  <2>2. broken(walk.entries) = {}
    BY <2>1 DEF Looping, broken
  <2>3. walk'.at = "done" /\ walk'.entries = walk.entries /\ Judged(walk')
    BY <2>1, <2>2 DEF answer, walking, Judged, verify_chain
  <2> QED
    BY <2>1, <2>3 DEF WalkRight
<1> QED
  BY <1>2, <1>3, <1>4, <1>5

\* Every step preserves the invariant.
LEMMA WalkNextIInv ==
  ASSUME WalkIInv, WalkNext
  PROVE  WalkIInv'
<1>1. CASE Service
  <2>1. Next /\ walk' = walk
    BY <1>1 DEF Service
  <2> QED
    BY <2>1, ServiceRecords DEF WalkIInv
<1>2. CASE Outside
  <2>1. /\ Recorded(table')
        /\ UNCHANGED <<pc, body, entry, walk>>
    BY <1>2, OutsideRecords DEF WalkIInv
  <2>2. PICK n \in Nat : DOMAIN table' \subseteq DOMAIN table \cup {n}
    BY <1>2, OutsideRecords DEF WalkIInv
  <2>3. Numbered(table')
    BY <2>1, <2>2, NumberedAdd DEF WalkIInv, Recorded
  <2>4. PendingRecorded'
    BY <2>1 DEF WalkIInv, PendingRecorded
  <2> QED
    BY <2>1, <2>3, <2>4 DEF WalkIInv
<1>3. CASE VerifyRequest \/ VerifySelect \/ VerifyEntry \/ VerifyEnd \/ VerifyRespond
  <2>1. UNCHANGED <<table, pc, body, entry>>
    BY <1>3 DEF VerifyRequest, VerifySelect, VerifyEntry, VerifyEnd, VerifyRespond, vars
  <2>2. PendingRecorded'
    BY <2>1 DEF WalkIInv, PendingRecorded
  <2> QED
    BY <1>3, <2>1, <2>2, WalkStepRight DEF WalkIInv
<1> QED
  BY <1>1, <1>2, <1>3 DEF WalkNext

\* A stuttering step changes nothing the invariant is about.
LEMMA WalkStutter ==
  ASSUME WalkIInv, UNCHANGED walkVars
  PROVE  WalkIInv'
BY DEF walkVars, WalkIInv, PendingRecorded

\* The invariant holds in every state of every behaviour.
THEOREM WalkInvariance == WalkSpec => []WalkIInv
<1>1. WalkIInv /\ [WalkNext]_walkVars => WalkIInv'
  BY WalkNextIInv, WalkStutter
<1> QED
  BY WalkInitIInv, <1>1, PTL DEF WalkSpec

\* At every iteration the rows behind the loop are right, and it carries the
\* hash that the next row is chained to.
THEOREM LoopRight == WalkSpec => []LoopInvariant
<1>1. WalkIInv => LoopInvariant
  BY DEF WalkIInv, WalkRight, LoopInvariant
<1> QED
  BY WalkInvariance, <1>1, PTL

\* The answer is the definition's, on every table, whoever wrote it and how:
\* the least number of a row that does not agree with its own hash or with the
\* row before it.
THEOREM VerdictsRight == WalkSpec => []VerdictRight
<1>1. WalkIInv => VerdictRight
  BY DEF WalkIInv, WalkRight, Judged, VerdictRight
<1> QED
  BY WalkInvariance, <1>1, PTL

-----------------------------------------------------------------------------
(* What a chain_hash vouches for, on tables t and kept of which nothing is *)
(* said but what their columns hold.                                       *)

\* Rows up to s that t does not have, or not as kept has them.
changed(t, kept, s) ==
  {r \in 1 .. s : r \notin DOMAIN t \/ fixed(t[r]) # fixed(kept[r])}

\* The first row alone is chained to the hash of genesis.
LEMMA NotGenesis ==
  ASSUME NEW a, NEW b
  PROVE  compute_chain_hash(a, b) # GENESIS_HASH
<1>1. Len(<<a, b>>) = 2 /\ Len(<< >>) = 0
  OBVIOUS
<1> QED
  BY <1>1 DEF compute_chain_hash, GENESIS_HASH

\* What comes before row s in a table: the row right before it, if it is there.
LEMMA PreviousThere ==
  ASSUME NEW t, DOMAIN t \subseteq Nat \ {0}, NEW s \in DOMAIN t, s - 1 \in DOMAIN t
  PROVE  previous_hash(t, s) = t[s - 1].chain_hash
<1> DEFINE earlier == {r \in DOMAIN t : r < s}
<1>1. s \in Nat /\ s - 1 \in Nat /\ s - 1 \in earlier
  OBVIOUS
<1>2. \A r \in earlier : r <= s - 1
  BY <1>1
<1>3. earlier \subseteq Nat /\ earlier # {}
  BY <1>1
<1>4. previous_hash(t, s) = t[Max(earlier)].chain_hash
  BY <1>3 DEF previous_hash
<1> HIDE DEF earlier
<1>5. Max(earlier) \in earlier /\ \A r \in earlier : r <= Max(earlier)
  BY <1>1, <1>2, <1>3, GreatestNumber
<1>6. /\ Max(earlier) \in Nat /\ Max(earlier) <= s - 1 /\ s - 1 <= Max(earlier)
  BY <1>1, <1>2, <1>3, <1>5
<1>7. Max(earlier) = s - 1
  <2> HIDE <1>5
  <2> QED
    BY <1>1, <1>6
<1> QED
  BY <1>4, <1>7

\* A row and its successor in t agree where nothing up to them is changed.
LEMMA UnchangedFits ==
  ASSUME NEW t, Recorded(t), NEW kept, NEW E, NEW T, chained(kept, E, T),
         NEW s \in DOMAIN kept, NEW r \in 1 .. s,
         \A j \in changed(t, kept, s) : r < j
  PROVE  r \in DOMAIN t /\ r \notin broken(t)
<1>1. PICK n \in Nat : DOMAIN kept = 1 .. n
  BY ChainedLength
<1>2. ASSUME NEW j \in 1 .. r
      PROVE  j \in DOMAIN t /\ j \in DOMAIN kept /\ fixed(t[j]) = fixed(kept[j])
  <2>1. j \in 1 .. s /\ ~ (r < j)
    BY <1>1
  <2> QED
    BY <1>1, <2>1 DEF changed
<1>3. r \in 1 .. r /\ r \in Nat \ {0} /\ (r # 1 => r - 1 \in 1 .. r)
  BY <1>1
<1>4. /\ t[r].sequence_number = kept[r].sequence_number
      /\ t[r].core = kept[r].core
      /\ t[r].payload_hash = kept[r].payload_hash
      /\ t[r].entry_hash = kept[r].entry_hash
      /\ t[r].chain_hash = kept[r].chain_hash
      /\ t[r].created_at = kept[r].created_at
  BY <1>2, <1>3 DEF fixed
<1>5. /\ entry_hash_matches(kept[r])
      /\ kept[r].chain_hash =
           compute_chain_hash(kept[r].entry_hash,
             IF r = 1 THEN GENESIS_HASH ELSE kept[r - 1].chain_hash)
  BY <1>2, <1>3, ChainedRow
<1>6. DOMAIN t \subseteq Nat \ {0}
  BY DEF Recorded
<1>7. previous_hash(t, r) = IF r = 1 THEN GENESIS_HASH ELSE kept[r - 1].chain_hash
  <2>1. CASE r = 1
    <3>1. {j \in DOMAIN t : j < r} = {}
      BY <1>6, <2>1
    <3> QED
      BY <2>1, <3>1 DEF previous_hash
  <2>2. CASE r # 1
    <3>1. r - 1 \in DOMAIN t /\ t[r - 1].chain_hash = kept[r - 1].chain_hash
      BY <1>2, <1>3, <2>2 DEF fixed
    <3> QED
      BY <1>2, <1>3, <1>6, <2>2, <3>1, PreviousThere
  <2> QED
    BY <2>1, <2>2
<1>8. entry_hash_matches(t[r]) /\ chain_hash_matches(t, r)
  BY <1>4, <1>5, <1>7 DEF entry_hash_matches, chain_hash_matches
<1> QED
  BY <1>2, <1>3, <1>8 DEF broken

\* The chain_hash of an appended row has its number in it.
LEMMA WrittenHash ==
  ASSUME NEW t, NEW s, NEW e, NEW i, written(t, s, e, i)
  PROVE  \E h : t[s].chain_hash =
           compute_chain_hash(
             compute_entry_hash(s, e.core, hash_payload(e.payload), utc(i)), h)
<1>1. t[s].entry_hash = compute_entry_hash(s, e.core, hash_payload(e.payload), utc(i))
  BY WrittenColumns
<1>2. t[s].chain_hash =
        compute_chain_hash(t[s].entry_hash,
          IF s = 1 THEN GENESIS_HASH ELSE t[s - 1].chain_hash)
  BY WrittenColumns
<1> QED
  BY <1>1, <1>2

\* A row of t that kept its chain_hash and agrees with itself and with the row
\* before it is as it was, and so is the chain_hash of its predecessor, which
\* is there.  This takes columns without a pipe.
LEMMA VouchesForPrevious ==
  ASSUME NEW Char, Pipe \in Char, Core \subseteq PlainCore(Char),
         NEW t, Recorded(t), NEW kept, NEW T, chained(kept, Event, T),
         NEW s \in DOMAIN t, s \in DOMAIN kept, t[s].chain_hash = kept[s].chain_hash,
         \A r \in DOMAIN t : r <= s => r \notin broken(t)
  PROVE  /\ fixed(t[s]) = fixed(kept[s])
         /\ s # 1 => s - 1 \in DOMAIN t /\ t[s - 1].chain_hash = kept[s - 1].chain_hash
<1> DEFINE before == IF s = 1 THEN GENESIS_HASH ELSE kept[s - 1].chain_hash
<1>1. DOMAIN t \subseteq Nat \ {0} /\ s \in Nat \ {0}
  BY DEF Recorded
<1>2. PICK n \in Nat : DOMAIN kept = 1 .. n
  BY ChainedLength
<1>3. ASSUME NEW r \in DOMAIN t, r <= s
      PROVE  /\ t[r].entry_hash = compute_entry_hash(r, t[r].core, t[r].payload_hash,
                                                     to_utc(t[r].created_at))
             /\ t[r].chain_hash = compute_chain_hash(t[r].entry_hash, previous_hash(t, r))
  <2>1. r \notin broken(t)
    BY <1>3
  <2>2. entry_hash_matches(t[r]) /\ chain_hash_matches(t, r)
    BY <2>1 DEF broken
  <2> QED
    BY <2>2 DEF entry_hash_matches, chain_hash_matches, Recorded
<1>4. PICK e \in Event, i \in T : written(kept, s, e, i)
  BY DEF chained
<1>5. /\ kept[s].sequence_number = s
      /\ kept[s].core = e.core
      /\ kept[s].payload_hash = hash_payload(e.payload)
      /\ kept[s].entry_hash =
           compute_entry_hash(s, e.core, hash_payload(e.payload), utc(i))
      /\ kept[s].chain_hash = compute_chain_hash(kept[s].entry_hash, before)
      /\ kept[s].created_at = stored(utc(i))
  BY <1>4, WrittenColumns
<1> HIDE DEF before
<1>6. s <= s
  BY <1>1
<1>7. t[s].entry_hash = kept[s].entry_hash /\ previous_hash(t, s) = before
  BY <1>3, <1>5, <1>6, ChainHashInjective
<1>8. fixed(t[s]) = fixed(kept[s])
  <2>1. t[s].entry_hash = compute_entry_hash(s, t[s].core, t[s].payload_hash,
                                             to_utc(t[s].created_at))
    BY <1>3, <1>6
  <2>2. /\ joined(t[s].core) = joined(e.core)
        /\ t[s].payload_hash = kept[s].payload_hash
        /\ to_utc(t[s].created_at) = utc(i)
    BY <1>5, <1>7, <2>1 DEF compute_entry_hash
  <2>3. t[s].core \in Core /\ e.core \in Core
    BY DEF Recorded, Event
  <2>4. t[s].core = kept[s].core
    BY <1>5, <2>2, <2>3, JoinedInjective DEF PlainCore
  <2>5. t[s].created_at.at = i
    BY <2>2 DEF to_utc, utc
  <2>6. t[s].created_at = kept[s].created_at
    BY <1>5, <2>5 DEF Recorded
  <2>7. t[s].sequence_number = kept[s].sequence_number
    BY <1>5 DEF Recorded
  <2> QED
    BY <1>7, <2>2, <2>4, <2>6, <2>7 DEF fixed
<1>9. ASSUME s # 1
      PROVE  s - 1 \in DOMAIN t /\ t[s - 1].chain_hash = kept[s - 1].chain_hash
  <2> DEFINE earlier == {r \in DOMAIN t : r < s}
             k == Max(earlier)
  <2>1. s - 1 \in DOMAIN kept /\ s - 1 \in Nat \ {0}
    BY <1>1, <1>2, <1>9
  <2>2. PICK f \in Event, j \in T : written(kept, s - 1, f, j)
    BY <2>1 DEF chained
  <2> DEFINE x == compute_entry_hash(s - 1, f.core, hash_payload(f.payload), utc(j))
  <2>3. PICK h : kept[s - 1].chain_hash = compute_chain_hash(x, h)
    BY <2>2, WrittenHash
  <2>4. previous_hash(t, s) = kept[s - 1].chain_hash
    BY <1>7, <1>9 DEF before
  <2>5. earlier # {}
    <3>1. earlier = {} => previous_hash(t, s) = GENESIS_HASH
      BY DEF previous_hash
    <3> HIDE DEF earlier, x
    <3> QED
      BY <2>3, <2>4, <3>1, NotGenesis
  <2>6. previous_hash(t, s) = t[k].chain_hash
    BY <2>5 DEF previous_hash
  <2>7. earlier \subseteq Nat /\ \A r \in earlier : r <= s
    BY <1>1
  <2>8. k \in earlier
    <3> HIDE DEF earlier
    <3> QED
      BY <1>1, <2>5, <2>7, GreatestNumber
  <2> HIDE DEF k
  <2>9. k \in DOMAIN t /\ k <= s
    BY <1>1, <2>8
  <2>10. /\ t[k].entry_hash = compute_entry_hash(k, t[k].core, t[k].payload_hash,
                                                 to_utc(t[k].created_at))
         /\ t[k].chain_hash = compute_chain_hash(t[k].entry_hash, previous_hash(t, k))
    BY <1>3, <2>9
  <2>11. compute_chain_hash(t[k].entry_hash, previous_hash(t, k)) = compute_chain_hash(x, h)
    BY <2>3, <2>4, <2>6, <2>10
  <2>12. t[k].entry_hash = x
    BY <2>11, ChainHashInjective
  <2>13. k = s - 1
    BY <2>10, <2>12 DEF compute_entry_hash
  <2> QED
    BY <2>4, <2>6, <2>9, <2>13
<1> QED
  BY <1>8, <1>9

\* A chain_hash that t kept vouches for every row up to it: where no row of t up
\* to there is broken, all of them are there and as they were, on any two tables
\* and whoever wrote t.  This takes columns without a pipe.
THEOREM KeptHashVouches ==
  ASSUME NEW Char, Pipe \in Char, Core \subseteq PlainCore(Char),
         NEW t, Recorded(t), NEW kept, NEW T, chained(kept, Event, T),
         NEW s \in DOMAIN t, s \in DOMAIN kept, t[s].chain_hash = kept[s].chain_hash,
         \A r \in DOMAIN t : r <= s => r \notin broken(t)
  PROVE  \A r \in 1 .. s : r \in DOMAIN t /\ fixed(t[r]) = fixed(kept[r])
<1> DEFINE holds(r) == r \in DOMAIN t /\ t[r].chain_hash = kept[r].chain_hash
           gaps     == {r \in 1 .. s : ~ holds(r)}
<1>1. PICK n \in Nat : DOMAIN kept = 1 .. n
  BY ChainedLength
<1>2. s \in Nat \ {0} /\ 1 .. s \subseteq DOMAIN kept
  BY <1>1
<1>3. ASSUME NEW r \in 1 .. s, holds(r)
      PROVE  fixed(t[r]) = fixed(kept[r]) /\ (r # 1 => holds(r - 1))
  <2>1. \A j \in DOMAIN t : j <= r => j \notin broken(t)
    BY <1>2 DEF Recorded
  <2> QED
    BY <1>2, <1>3, <2>1, VouchesForPrevious
<1>4. gaps = {}
  <2> SUFFICES ASSUME gaps # {}
               PROVE  FALSE
    OBVIOUS
  <2> DEFINE m == Max(gaps)
  <2>1. gaps \subseteq Nat /\ \A g \in gaps : g <= s
    BY <1>2
  <2>2. m \in gaps /\ \A g \in gaps : g <= m
    <3> HIDE DEF gaps
    <3> QED
      BY <1>2, <2>1, GreatestNumber
  <2> HIDE DEF m
  <2>3. m \in 1 .. s /\ ~ holds(m)
    BY <2>2
  <2>4. holds(s)
    OBVIOUS
  <2> HIDE DEF holds
  <2>5. m # s
    BY <2>3, <2>4
  <2>6. m + 1 \in 1 .. s /\ m + 1 # 1 /\ (m + 1) - 1 = m /\ ~ (m + 1 <= m)
    BY <1>2, <2>3, <2>5
  <2>7. holds(m + 1)
    BY <2>2, <2>6
  <2>8. holds(m)
    BY <1>3, <2>6, <2>7
  <2> QED
    BY <2>3, <2>8
<1> QED
  BY <1>3, <1>4

\* So the first broken row lies between the first that is changed and any
\* later one that kept its chain_hash, and no row up to there is broken where
\* none is changed.
THEOREM BrokenWhereChanged ==
  ASSUME NEW Char, Pipe \in Char, Core \subseteq PlainCore(Char),
         NEW t, Recorded(t), NEW kept, NEW T, chained(kept, Event, T),
         NEW s \in DOMAIN t, s \in DOMAIN kept, t[s].chain_hash = kept[s].chain_hash
  PROVE  IF changed(t, kept, s) = {}
         THEN \A r \in broken(t) : r > s
         ELSE broken(t) # {} /\ Min(broken(t)) \in Min(changed(t, kept, s)) .. s
<1> DEFINE C == changed(t, kept, s)
           B == broken(t)
<1>1. /\ DOMAIN t \subseteq Nat \ {0} /\ s \in Nat \ {0}
      /\ B \subseteq DOMAIN t /\ C \subseteq 1 .. s
  BY DEF Recorded, broken, changed
<1>2. ASSUME NEW r \in B, r <= s
      PROVE  \E j \in C : j <= r
  <2>1. r \in 1 .. s
    BY <1>1, <1>2
  <2>2. (\A j \in C : r < j) => r \notin B
    BY <2>1, UnchangedFits
  <2> HIDE DEF B, C
  <2>3. PICK j \in C : ~ (r < j)
    BY <1>2, <2>2
  <2>4. j \in Nat /\ r \in Nat
    BY <1>1, <2>1
  <2> QED
    BY <2>3, <2>4
<1>3. C # {} => \E r \in B : r <= s
  <2> SUFFICES ASSUME \A r \in DOMAIN t : r <= s => r \notin B
               PROVE  C = {}
    BY <1>1
  <2>1. \A r \in 1 .. s : r \in DOMAIN t /\ fixed(t[r]) = fixed(kept[r])
    BY KeptHashVouches
  <2> QED
    BY <2>1 DEF changed
<1> HIDE DEF B, C
<1>4. CASE C = {}
  <2>1. ASSUME NEW r \in B
        PROVE  r > s
    <3>1. r \in Nat /\ ~ (r <= s)
      BY <1>1, <1>2, <1>4
    <3> QED
      BY <1>1, <3>1
  <2> QED
    BY <1>4, <2>1 DEF B, C
<1>5. CASE C # {}
  <2> DEFINE b == Min(B)
             m == Min(C)
  <2>1. PICK r \in B : r <= s
    BY <1>3, <1>5
  <2>2. B \subseteq Nat /\ C \subseteq Nat
    BY <1>1
  <2>3. /\ b \in B /\ \A j \in B : b <= j
        /\ m \in C /\ \A j \in C : m <= j
    BY <1>5, <2>1, <2>2, SmallestNumber
  <2> HIDE DEF b, m
  <2>4. b \in Nat /\ b <= s
    BY <1>1, <2>1, <2>2, <2>3
  <2>5. PICK j \in C : j <= b
    BY <1>2, <2>3, <2>4
  <2>6. m \in Nat /\ m <= b
    BY <2>2, <2>3, <2>4, <2>5
  <2>7. b \in m .. s
    BY <1>1, <2>4, <2>6
  <2> QED
    BY <1>5, <2>3, <2>7 DEF B, C, b, m
<1> QED
  BY <1>4, <1>5

-----------------------------------------------------------------------------
(* What the answer says of the log that was appended.                      *)

History ==
  /\ chained(appended, Event, Time)
  /\ damages \in Nat
  /\ damages = 0 => IInv /\ appended = table

LEMMA InitHistory == WalkInit => History
<1> SUFFICES ASSUME WalkInit
             PROVE  History
  OBVIOUS
<1>1. IInv /\ appended = table /\ damages = 0
  BY InitIInv DEF WalkInit, Init
<1>2. chained(appended, Event, Time)
  BY <1>1 DEF IInv
<1> QED
  BY <1>1, <1>2 DEF History

\* Until the first write past the service the table is one that appends leave
\* behind; from then on what is known of them stays.
LEMMA NextHistory ==
  ASSUME WalkIInv, History, WalkNext
  PROVE  History'
<1>1. CASE Service
  <2>1. Next /\ Keep /\ damages' = damages
    BY <1>1 DEF Service
  <2>2. CASE damages = 0
    <3>1. IInv' /\ appended' = table'
      BY <2>1, <2>2, NextIInv DEF History, Keep
    <3>2. chained(appended', Event, Time)
      BY <3>1 DEF IInv
    <3> QED
      BY <2>1, <2>2, <3>1, <3>2 DEF History
  <2>3. CASE damages # 0
    BY <2>1, <2>3 DEF History, Keep
  <2> QED
    BY <2>2, <2>3
<1>2. CASE Outside
  <2>1. appended' = appended /\ damages' = damages + 1
    BY <1>2, OutsideRecords DEF WalkIInv
  <2> QED
    BY <2>1 DEF History
<1>3. CASE VerifyRequest \/ VerifySelect \/ VerifyEntry \/ VerifyEnd \/ VerifyRespond
  <2>1. UNCHANGED <<vars, appended, damages>>
    BY <1>3 DEF VerifyRequest, VerifySelect, VerifyEntry, VerifyEnd, VerifyRespond
  <2>2. IInv => IInv'
    BY <2>1, StutterIInv
  <2> QED
    BY <2>1, <2>2 DEF History, vars
<1> QED
  BY <1>1, <1>2, <1>3 DEF WalkNext

LEMMA StutterHistory ==
  ASSUME History, UNCHANGED walkVars
  PROVE  History'
<1>1. UNCHANGED <<vars, appended, damages>>
  BY DEF walkVars, vars
<1>2. IInv => IInv'
  BY <1>1, StutterIInv
<1> QED
  BY <1>1, <1>2 DEF History, vars

\* What was appended before the first write past the service is a log that
\* appends leave behind, and rows stay in the form that the database gives them.
THEOREM AppendedInvariance == WalkSpec => []AppendedIInv
<1>1. WalkIInv /\ History /\ [WalkNext]_walkVars => History'
  BY NextHistory, StutterHistory
<1>2. WalkIInv /\ History => AppendedIInv
  BY DEF WalkIInv, History, AppendedIInv
<1> QED
  BY WalkInvariance, InitHistory, <1>1, <1>2, PTL DEF WalkSpec

\* The answer of verify_chain accounts for every row up to one that kept its
\* chain_hash, whatever was written past the service and whatever was appended.
THEOREM ChangesAreFound ==
  ASSUME NEW Char, Pipe \in Char, Core \subseteq PlainCore(Char)
  PROVE  WalkSpec => []ChangesFound
<1>1. ASSUME AppendedIInv, VerdictRight
      PROVE  ChangesFound
  <2> SUFFICES ASSUME walk.at = "done", NEW s \in Vouching
               PROVE  IF Changed(s) = {}
                      THEN walk.result.valid \/ walk.result.first_broken_sequence > s
                      ELSE ~ walk.result.valid
                           /\ walk.result.first_broken_sequence \in Min(Changed(s)) .. s
    BY DEF ChangesFound
  <2> DEFINE t == walk.entries
             B == broken(t)
  <2>1. Recorded(t) /\ chained(appended, Event, Time)
    BY <1>1 DEF AppendedIInv
  <2>2. s \in DOMAIN t /\ s \in DOMAIN appended /\ t[s].chain_hash = appended[s].chain_hash
    BY DEF Vouching
  <2>3. Changed(s) = changed(t, appended, s)
    BY DEF Changed, changed
  <2>4. /\ walk.result.valid = (B = {})
        /\ B # {} => walk.result.first_broken_sequence = Min(B)
    BY <1>1 DEF VerdictRight, verify_chain
  <2>5. IF changed(t, appended, s) = {}
        THEN \A r \in B : r > s
        ELSE B # {} /\ Min(B) \in Min(changed(t, appended, s)) .. s
    BY <2>1, <2>2, BrokenWhereChanged
  <2>6. B # {} => Min(B) \in B
    <3>1. B \subseteq Nat
      BY <2>1 DEF broken, Recorded
    <3> QED
      BY <3>1, SmallestNumber
  <2> HIDE DEF B
  <2> QED
    BY <2>3, <2>4, <2>5, <2>6
<1> QED
  BY AppendedInvariance, VerdictsRight, <1>1, PTL

=============================================================================
