---------------------------- MODULE VerifyChain ----------------------------
(***************************************************************************)
(* GET /audit/verify (app/services/chain_service.py, verify_chain, behind  *)
(* app/api/routes/verify.py) over a table that is appended to while it     *)
(* runs, and that something other than the service has written to before.  *)
(*                                                                         *)
(* One SELECT reads the whole table; the loop then walks what was read and *)
(* carries the chain_hash of the row before from one iteration to the next.*)
(***************************************************************************)
EXTENDS ChainService

CONSTANT MaxDamage   \* bound: writes to the table that go past the service

ASSUME MaxDamageAssumption == MaxDamage \in Nat

VARIABLES
  walk,       \* the request: its SELECT, and where its loop is
  appended,   \* history: the table before the first write past the service
  damages     \* history: how many of those writes there were

walkVars == <<table, lock, pc, body, entry, acked, walk, appended, damages>>

walking(at, entries, rest, hash, result) ==
  [at |-> at, entries |-> entries, rest |-> rest, previous_hash |-> hash,
   result |-> result]

NoWalk == walking("idle", << >>, {}, GENESIS_HASH, None)

WalkInit == Init /\ walk = NoWalk /\ appended = << >> /\ damages = 0

-----------------------------------------------------------------------------
\* The history of a step of the service.
Keep == appended' = IF damages = 0 THEN table' ELSE appended

Service == Next /\ Keep /\ UNCHANGED <<walk, damages>>

\* A write that goes past the service.  The UNIQUE constraints hold for it too.
\* It comes before a SELECT, which sees nothing of what comes after it, and not
\* before a refresh: one that finds its row gone is a Fail(c).
Damaged(t) ==
  /\ damages < MaxDamage
  /\ walk.at = "idle"
  /\ \A c \in Client : pc[c] # "refresh"
  /\ t # table
  /\ \A r, s \in DOMAIN t : t[r].chain_hash = t[s].chain_hash => r = s
  /\ table' = t
  /\ damages' = damages + 1
  /\ UNCHANGED <<lock, pc, body, entry, acked, walk, appended>>

\* Not a digest.
Lost == <<None>>

\* What a column may be overwritten with: another text or time, no digest, the
\* digest of any payload, or that of any row that was appended.
Overwrites ==
  [column : {"core"}, value : Core]
    \cup [column : {"created_at"}, value : {stored(utc(0))}]
    \cup [column : {"payload"}, value : {None}]
    \cup [column : {"payload_hash"}, value : {Lost} \cup {hash_payload(p) : p \in Payload}]
    \cup [column : {"entry_hash"},
          value : {Lost} \cup {appended[s].entry_hash : s \in DOMAIN appended}]
    \cup [column : {"chain_hash"},
          value : {Lost} \cup {appended[s].chain_hash : s \in DOMAIN appended}]

Overwrite(s) ==
  \E o \in Overwrites : Damaged([table EXCEPT ![s] = [@ EXCEPT ![o.column] = o.value]])

\* The hashes have no key: whoever can write a row can compute them.
Rehash(s) ==
  LET row        == table[s]
      entry_hash == compute_entry_hash(s, row.core, row.payload_hash,
                                       to_utc(row.created_at))
  IN  Damaged([table EXCEPT ![s] =
                 [row EXCEPT !.entry_hash = entry_hash,
                             !.chain_hash =
                               compute_chain_hash(entry_hash, previous_hash(table, s))]])

Lose(s) == Damaged([r \in DOMAIN table \ {s} |-> table[r]])

\* To any free number, also one that an append has given.
Renumber(s, n) ==
  /\ n \notin DOMAIN table
  /\ Damaged([r \in (DOMAIN table \ {s}) \cup {n} |->
                IF r = n THEN [table[s] EXCEPT !.sequence_number = n] ELSE table[r]])

\* A new row that agrees with the one before it.
Add(n) ==
  /\ n \notin DOMAIN table
  /\ \E e \in Event, now \in Time :
       Damaged(inserted(table, new_entry(n, previous_hash(table, n), e, utc(now))))

Outside ==
  \/ \E s \in DOMAIN table : Overwrite(s) \/ Rehash(s) \/ Lose(s)
  \/ \E s \in DOMAIN table, n \in 1 .. MaxEntries + 1 : Renumber(s, n)
  \/ \E n \in 1 .. MaxEntries + 1 : Add(n)

-----------------------------------------------------------------------------
VerifyRequest ==
  /\ walk.at = "idle"
  /\ walk' = walking("select", << >>, {}, GENESIS_HASH, None)
  /\ UNCHANGED <<vars, appended, damages>>

\* The SELECT; an empty result is answered as a loop without iterations is.
VerifySelect ==
  /\ walk.at = "select"
  /\ walk' = walking("loop", table, DOMAIN table, GENESIS_HASH, None)
  /\ UNCHANGED <<vars, appended, damages>>

\* The answer, with the number at which the chain breaks.
answer(valid, s) ==
  walking("done", walk.entries, {}, GENESIS_HASH,
          [valid                 |-> valid,
           total_entries         |-> Cardinality(DOMAIN walk.entries),
           first_broken_sequence |-> s])

\* Faults: the loop does not advance the chain; it advances it by the wrong hash.
advanced_Not(row) == walk.previous_hash
advanced_ByEntry(row) == row.entry_hash
\* What the next row is chained to.
advanced(row) == row.chain_hash

\* An iteration, which returns where the row fails.
VerifyEntry ==
  /\ walk.at = "loop"
  /\ walk.rest # {}
  /\ LET s   == Min(walk.rest)
         row == walk.entries[s]
     IN  walk' = IF /\ entry_hash_matches(row)
                    /\ row.chain_hash =
                         compute_chain_hash(row.entry_hash, walk.previous_hash)
                 THEN walking("loop", walk.entries, walk.rest \ {s},
                              advanced(row), None)
                 ELSE answer(FALSE, row.sequence_number)
  /\ UNCHANGED <<vars, appended, damages>>

VerifyEnd ==
  /\ walk.at = "loop"
  /\ walk.rest = {}
  /\ walk' = answer(TRUE, None)
  /\ UNCHANGED <<vars, appended, damages>>

VerifyRespond ==
  /\ walk.at = "done"
  /\ walk' = NoWalk
  /\ UNCHANGED <<vars, appended, damages>>

WalkNext ==
  \/ Service
  \/ Outside
  \/ VerifyRequest
  \/ VerifySelect
  \/ VerifyEntry
  \/ VerifyEnd
  \/ VerifyRespond

WalkSpec == WalkInit /\ [][WalkNext]_walkVars

-----------------------------------------------------------------------------
\* The rows behind the loop were found right, and previous_hash is that of the
\* last of them.
Looping(q) ==
  LET passed == DOMAIN q.entries \ q.rest
  IN  /\ q.rest \subseteq DOMAIN q.entries
      /\ \A p \in passed, r \in q.rest : p < r
      /\ q.previous_hash = IF passed = {} THEN GENESIS_HASH
                           ELSE q.entries[Max(passed)].chain_hash
      /\ passed \cap broken(q.entries) = {}

\* The loop invariant of verify_chain: before each iteration the rows behind it
\* are right, and it compares the next one with the chain_hash of the last.
LoopInvariant == walk.at = "loop" => Looping(walk)

\* The answer is that of the definition of a broken row, applied to all of the
\* table as it was selected, on whatever table.
VerdictRight == walk.at = "done" => walk.result = verify_chain(walk.entries)

\* Rows that still have the chain_hash with which they were appended, before
\* anybody wrote past the service.
Vouching ==
  {s \in DOMAIN walk.entries \cap DOMAIN appended :
     walk.entries[s].chain_hash = appended[s].chain_hash}

\* Rows up to s that are gone, or not as they were appended.
Changed(s) ==
  {r \in 1 .. s : \/ r \notin DOMAIN walk.entries
                  \/ fixed(walk.entries[r]) # fixed(appended[r])}

\* "first_broken_sequence identifies where the chain breaks", after any writes
\* past the service, recomputed and copied hashes among them, and any appends:
\* a chain_hash that is kept vouches for every row up to it.  Where one of them
\* is gone, or changed in a column that is hashed, the answer names a row from
\* there up to the row that kept its chain_hash; otherwise it names none of
\* them.  Where the descriptive columns hold no "|".
ChangesFound ==
  walk.at = "done" =>
    \A s \in Vouching :
      IF Changed(s) = {}
      THEN walk.result.valid \/ walk.result.first_broken_sequence > s
      ELSE ~ walk.result.valid
           /\ walk.result.first_broken_sequence \in Min(Changed(s)) .. s

\* "SHA-256 chain walk via GET /audit/verify proves no record was added or
\* removed": of a log that it calls valid, no row is gone.
NothingRemoved ==
  walk.at = "done" /\ walk.result.valid => DOMAIN appended \subseteq DOMAIN table

-----------------------------------------------------------------------------
(* The inductive invariant.                                                *)

\* Rows under their own numbers, in the form in which the database keeps them.
Recorded(t) ==
  \A s \in DOMAIN t :
    /\ s \in Nat \ {0}
    /\ t[s].sequence_number = s
    /\ t[s].core \in Core
    /\ t[s].created_at = stored(utc(t[s].created_at.at))

\* What was appended before the first write past the service stays a log that
\* appends leave behind, though the table may become any other.
AppendedIInv ==
  /\ chained(appended, Event, Time)
  /\ damages \in Nat
  /\ damages = 0 => IInv /\ appended = table
  /\ Recorded(table)
  /\ Recorded(walk.entries)

=============================================================================
