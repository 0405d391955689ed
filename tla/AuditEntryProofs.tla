-------------------------- MODULE AuditEntryProofs --------------------------
(***************************************************************************)
(* Lemmas about the operators of AuditEntry: what append reads from a      *)
(* chained table, what verify_chain says of it, and what an insert and an  *)
(* update of the other columns make of it.                                 *)
(***************************************************************************)
EXTENDS AuditEntry, SequenceTheorems, TLAPS, WellFoundedInduction, FiniteSetTheorems

-----------------------------------------------------------------------------
(* What the separator of the entry hash is for: texts without a pipe can   *)
(* be told from their join.                                                *)

\* Texts over Char that hold no pipe.
PlainText(Char) == Seq(Char \ {Pipe})

\* They are texts over Char, and no element of one is a pipe.
LEMMA PlainIsText ==
  ASSUME NEW Char, NEW a \in PlainText(Char)
  PROVE  a \in Seq(Char) /\ Len(a) \in Nat /\ \A i \in 1 .. Len(a) : a[i] # Pipe
<1>1. \A i \in 1 .. Len(a) : a[i] \in Char \ {Pipe}
  BY ElementOfSeq DEF PlainText
<1>2. Len(a) \in Nat /\ a \in [1 .. Len(a) -> Char]
  BY <1>1, LenProperties DEF PlainText
<1>3. a \in Seq(Char)
  BY <1>2, SeqDef
<1> QED
  BY <1>1, <1>2, <1>3

\* w is the text a, a pipe, and the text x.
Around(w, a, x) ==
  /\ Len(w) = Len(a) + 1 + Len(x)
  /\ \A i \in 1 .. Len(a) : w[i] = a[i]
  /\ w[Len(a) + 1] = Pipe
  /\ \A i \in 1 .. Len(x) : w[Len(a) + 1 + i] = x[i]

\* The place of each element of a text, its separator and what is behind it.
LEMMA PipedProperties ==
  ASSUME NEW S, Pipe \in S, NEW a \in Seq(S), NEW x \in Seq(S)
  PROVE  piped(a, x) \in Seq(S) /\ Around(piped(a, x), a, x)
<1> DEFINE v == <<Pipe>> \o x
<1>1. <<Pipe>> \in Seq(S) /\ Len(<<Pipe>>) = 1 /\ <<Pipe>>[1] = Pipe
  OBVIOUS
<1>2. /\ v \in Seq(S)
      /\ Len(v) = 1 + Len(x)
      /\ v[1] = Pipe
      /\ \A i \in 1 .. Len(x) : v[1 + i] = x[i]
  BY <1>1, ConcatProperties
<1> HIDE DEF v
<1>3. v \in Seq(S)
  BY <1>2
<1>4. /\ a \o v \in Seq(S)
      /\ Len(a \o v) = Len(a) + Len(v)
      /\ \A i \in 1 .. Len(a) + Len(v) :
           (a \o v)[i] = IF i <= Len(a) THEN a[i] ELSE v[i - Len(a)]
  BY <1>3, ConcatProperties
<1> DEFINE w == a \o v
<1>5. w = piped(a, x)
  BY DEF piped, v
<1>6. /\ w \in Seq(S)
      /\ Len(w) = Len(a) + Len(v)
      /\ \A i \in 1 .. Len(a) + Len(v) :
           w[i] = IF i <= Len(a) THEN a[i] ELSE v[i - Len(a)]
  BY <1>4
<1> HIDE DEF w
<1>7. Len(a) \in Nat /\ Len(x) \in Nat
  BY LenProperties
<1>8. \A i \in 1 .. Len(a) : w[i] = a[i]
  BY <1>2, <1>6, <1>7
<1>9. w[Len(a) + 1] = Pipe
  BY <1>2, <1>6, <1>7
<1>10. ASSUME NEW i \in 1 .. Len(x)
      PROVE  w[Len(a) + 1 + i] = x[i]
  <2>1. w[Len(a) + 1 + i] = v[1 + i]
    BY <1>2, <1>6, <1>7
  <2> QED
    BY <1>2, <2>1
<1> QED
  BY <1>2, <1>5, <1>6, <1>7, <1>8, <1>9, <1>10 DEF Around

\* The first pipe ends the first text: it can be split off.
LEMMA SplitAtPipe ==
  ASSUME NEW Char, Pipe \in Char,
         NEW a \in PlainText(Char), NEW b \in PlainText(Char),
         NEW x \in Seq(Char), NEW y \in Seq(Char),
         piped(a, x) = piped(b, y)
  PROVE  a = b /\ x = y
<1> DEFINE w == piped(a, x)
<1>1. /\ a \in Seq(Char) /\ Len(a) \in Nat /\ \A i \in 1 .. Len(a) : a[i] # Pipe
      /\ b \in Seq(Char) /\ Len(b) \in Nat /\ \A i \in 1 .. Len(b) : b[i] # Pipe
      /\ Len(x) \in Nat /\ Len(y) \in Nat
  BY PlainIsText, LenProperties
<1>2. Around(w, a, x) /\ Around(w, b, y)
  BY <1>1, PipedProperties
<1> HIDE DEF w
<1>3. /\ Len(w) = Len(a) + 1 + Len(x) /\ Len(w) = Len(b) + 1 + Len(y)
      /\ \A i \in 1 .. Len(a) : w[i] = a[i]
      /\ \A i \in 1 .. Len(b) : w[i] = b[i]
      /\ w[Len(a) + 1] = Pipe /\ w[Len(b) + 1] = Pipe
      /\ \A i \in 1 .. Len(x) : w[Len(a) + 1 + i] = x[i]
      /\ \A i \in 1 .. Len(y) : w[Len(b) + 1 + i] = y[i]
  BY <1>2 DEF Around
<1>4. ~ (Len(a) < Len(b)) /\ ~ (Len(b) < Len(a))
  <2>1. ASSUME Len(a) < Len(b)
        PROVE  FALSE
    <3>1. Len(a) + 1 \in 1 .. Len(b)
      BY <1>1, <2>1
    <3> QED
      BY <1>1, <1>3, <3>1
  <2>2. ASSUME Len(b) < Len(a)
        PROVE  FALSE
    <3>1. Len(b) + 1 \in 1 .. Len(a)
      BY <1>1, <2>2
    <3> QED
      BY <1>1, <1>3, <3>1
  <2> QED
    BY <2>1, <2>2
<1>5. Len(a) = Len(b)
  BY <1>1, <1>4
<1>6. Len(x) = Len(y)
  BY <1>1, <1>3, <1>5
<1>7. \A i \in 1 .. Len(a) : a[i] = b[i]
  BY <1>3, <1>5
<1>8. \A i \in 1 .. Len(x) : x[i] = y[i]
  BY <1>3, <1>5, <1>6
<1> QED
  BY <1>1, <1>5, <1>6, <1>7, <1>8, SeqEqual

\* Descriptive columns without a pipe are the only ones with their join: no
\* two of them share an entry hash for where one column ends and the next one
\* begins (the docstring of compute_entry_hash).
THEOREM JoinedInjective ==
  ASSUME NEW Char, Pipe \in Char,
         NEW x \in [CoreColumn -> PlainText(Char)],
         NEW y \in [CoreColumn -> PlainText(Char)],
         joined(x) = joined(y)
  PROVE  x = y
<1> DEFINE xc == piped(x.resource_type, x.resource_id)
           yc == piped(y.resource_type, y.resource_id)
           xb == piped(x.actor_id, xc)
           yb == piped(y.actor_id, yc)
<1>1. \A column \in CoreColumn :
        /\ x[column] \in PlainText(Char) /\ x[column] \in Seq(Char)
        /\ y[column] \in PlainText(Char) /\ y[column] \in Seq(Char)
  BY PlainIsText
<1>2. /\ x.event_type \in PlainText(Char) /\ y.event_type \in PlainText(Char)
      /\ x.actor_id \in PlainText(Char) /\ y.actor_id \in PlainText(Char)
      /\ x.resource_type \in PlainText(Char) /\ y.resource_type \in PlainText(Char)
      /\ x.actor_id \in Seq(Char) /\ y.actor_id \in Seq(Char)
      /\ x.resource_type \in Seq(Char) /\ y.resource_type \in Seq(Char)
      /\ x.resource_id \in Seq(Char) /\ y.resource_id \in Seq(Char)
  BY <1>1 DEF CoreColumn
<1>3. xc \in Seq(Char) /\ yc \in Seq(Char)
  BY <1>2, PipedProperties
<1> HIDE DEF xc, yc
<1>4. xb \in Seq(Char) /\ yb \in Seq(Char)
  BY <1>2, <1>3, PipedProperties
<1> HIDE DEF xb, yb
<1>5. joined(x) = piped(x.event_type, xb) /\ joined(y) = piped(y.event_type, yb)
  BY DEF joined, xb, xc, yb, yc
<1>6. piped(x.event_type, xb) = piped(y.event_type, yb)
  BY <1>5
<1>7. x.event_type = y.event_type /\ xb = yb
  BY <1>6, <1>2, <1>4, SplitAtPipe
<1>8. x.actor_id = y.actor_id /\ xc = yc
  BY <1>2, <1>3, <1>7, SplitAtPipe DEF xb, yb
<1>9. x.resource_type = y.resource_type /\ x.resource_id = y.resource_id
  BY <1>2, <1>8, SplitAtPipe DEF xc, yc
<1>10. \A column \in CoreColumn : x[column] = y[column]
  BY <1>7, <1>8, <1>9 DEF CoreColumn
<1> QED
  BY <1>10

-----------------------------------------------------------------------------
(* The least and the greatest of some numbers.                             *)

\* The natural numbers are well ordered, and Min finds the least.
LEMMA SmallestNumber ==
  ASSUME NEW S, S \subseteq Nat, S # {}
  PROVE  Min(S) \in S /\ \A y \in S : Min(S) <= y
<1> DEFINE R == OpToRel(<, Nat)
<1>1. IsWellFoundedOn(R, Nat)
  BY NatLessThanWellFounded
<1>2. PICK x \in S : \A y \in S : ~ (<<y, x>> \in R)
  BY <1>1, WFMin
<1>3. \A a, b \in Nat : a < b => <<a, b>> \in R
  BY DEF OpToRel
<1> HIDE DEF R
<1>4. \A y \in S : x \in Nat /\ y \in Nat /\ ~ (y < x)
  BY <1>2, <1>3
<1>5. \A y \in S : x <= y
  BY <1>4
<1> QED
  BY <1>5 DEF Min

\* Numbers below a bound have a greatest, which Max finds.
LEMMA GreatestNumber ==
  ASSUME NEW S, S \subseteq Nat, S # {}, NEW b \in Nat, \A s \in S : s <= b
  PROVE  Max(S) \in S /\ \A s \in S : s <= Max(S)
<1> DEFINE T == {b - s : s \in S}
<1>1. T \subseteq Nat /\ T # {}
  <2>1. PICK s \in S : TRUE
    OBVIOUS
  <2>2. b - s \in T
    BY <2>1
  <2>3. \A r \in S : b - r \in Nat
    OBVIOUS
  <2> QED
    BY <2>2, <2>3
<1>2. PICK x \in T : \A y \in T : x <= y
  BY <1>1, SmallestNumber
<1>3. PICK m \in S : x = b - m
  BY <1>2
<1>4. ASSUME NEW s \in S
      PROVE  m >= s
  <2>1. b - s \in T /\ b - m <= b - s
    BY <1>2, <1>3
  <2> QED
    BY <2>1
<1>5. Max(S) \in S /\ \A s \in S : Max(S) >= s
  BY <1>4 DEF Max
<1> QED
  BY <1>5

first(S, k) == {s \in S : Cardinality({r \in S : r < s}) < k}

\* A sorted page of k of the numbers in S: it leaves out none that is below one
\* it has, and fewer than k of them are all of them.
LEMMA FirstNumbers ==
  ASSUME NEW n \in Nat, NEW S, S \subseteq 1 .. n, NEW k \in Nat \ {0}
  PROVE  /\ first(S, k) \subseteq S
         /\ \A u \in first(S, k), s \in S : s <= u => s \in first(S, k)
         /\ IsFiniteSet(first(S, k)) /\ Cardinality(first(S, k)) \in Nat
         /\ Cardinality(first(S, k)) < k => first(S, k) = S
         /\ first(S, k) = {} => S = {}
<1> DEFINE below(s) == {r \in S : r < s}
           R        == {s \in S : Cardinality(below(s)) < k}
<1>0. S \subseteq Nat
  OBVIOUS
<1>1. IsFiniteSet(S)
  <2>1. IsFiniteSet(1 .. n)
    BY FS_Interval
  <2>2. S \in SUBSET (1 .. n)
    OBVIOUS
  <2> QED
    BY <2>1, <2>2, FS_Subset
<1>2. \A T \in SUBSET S : IsFiniteSet(T) /\ Cardinality(T) \in Nat
  BY <1>1, FS_Subset, FS_CardinalityType
<1>3. \A s \in S : below(s) \in SUBSET S
  OBVIOUS
<1>4. R \in SUBSET S
  OBVIOUS
<1>5. ASSUME NEW u \in R, NEW s \in S, s <= u
      PROVE  s \in R
  <2>1. below(s) \in SUBSET below(u)
    <3>1. s \in Nat /\ u \in Nat /\ u \in S
      BY <1>0
    <3>2. ASSUME NEW r \in S, r < s
          PROVE  r < u
      <4>1. r \in Nat
        BY <1>0
      <4>2. s <= u
        BY <1>5
      <4> HIDE DEF R
      <4> QED
        BY <3>1, <3>2, <4>1, <4>2
    <3> HIDE DEF R
    <3> QED
      BY <3>2
  <2>2. /\ Cardinality(below(s)) \in Nat
        /\ IsFiniteSet(below(u)) /\ Cardinality(below(u)) \in Nat
    BY <1>2, <1>3
  <2>3. Cardinality(below(u)) < k
    OBVIOUS
  <2> HIDE DEF below
  <2>4. Cardinality(below(s)) <= Cardinality(below(u))
    BY <2>1, <2>2, FS_Subset
  <2>5. Cardinality(below(s)) < k
    BY <2>2, <2>3, <2>4
  <2> QED
    BY <2>5
<1>6. ASSUME Cardinality(R) < k
      PROVE  R = S
  <2> DEFINE rest == S \ R
             m    == Min(rest)
  <2>1. SUFFICES ASSUME rest # {}
                 PROVE  FALSE
    OBVIOUS
  <2>2. rest \subseteq Nat
    BY <1>0
  <2> HIDE DEF rest
  <2>3. m \in rest /\ \A s \in rest : m <= s
    BY <2>1, <2>2, SmallestNumber
  <2> HIDE DEF m
  <2>4. m \in S /\ m \notin R
    BY <2>3 DEF rest
  <2>5. below(m) \in SUBSET R
    <3>1. ASSUME NEW r \in S, r < m, r \notin R
          PROVE  FALSE
      <4>1. r \in rest
        BY <3>1 DEF rest
      <4>2. m <= r /\ r \in Nat /\ m \in Nat
        BY <2>2, <2>3, <4>1
      <4> QED
        BY <3>1, <4>2
    <3> HIDE DEF R
    <3> QED
      BY <3>1
  <2>6. /\ IsFiniteSet(R) /\ Cardinality(R) \in Nat
        /\ Cardinality(below(m)) \in Nat
    BY <1>2, <1>3, <1>4, <2>4
  <2>7. ~ (Cardinality(below(m)) < k)
    BY <2>4
  <2> HIDE DEF below, R
  <2>8. Cardinality(below(m)) <= Cardinality(R)
    BY <2>5, <2>6, FS_Subset
  <2> QED
    BY <1>6, <2>6, <2>7, <2>8
<1>7. IsFiniteSet(R) /\ Cardinality(R) \in Nat
  BY <1>2, <1>4
<1>8. ASSUME R = {}
      PROVE  S = {}
  <2>1. Cardinality({}) = 0
    BY FS_EmptySet
  <2> HIDE DEF R
  <2>2. Cardinality(R) < k
    BY <1>8, <2>1
  <2> QED
    BY <1>6, <1>8, <2>2
<1>9. first(S, k) = R
  BY DEF first
<1> HIDE DEF R
<1> QED
  BY <1>4, <1>5, <1>6, <1>7, <1>8, <1>9

-----------------------------------------------------------------------------
(* A table numbered 1 .. n.                                                *)

\* Max(DOMAIN t), the ORDER BY ... DESC LIMIT 1 of the code, is n.
LEMMA MaxOfInterval ==
  ASSUME NEW n \in Nat \ {0}
  PROVE  Max(1 .. n) = n
BY DEF Max

\* A chained table is numbered 1 .. n.
LEMMA ChainedLength ==
  ASSUME NEW t, NEW E, NEW T, chained(t, E, T)
  PROVE  \E n \in Nat : DOMAIN t = 1 .. n
<1>1. CASE DOMAIN t = {}
  <2>1. DOMAIN t = 1 .. 0
    BY <1>1
  <2> QED
    BY <2>1
<1>2. CASE \E n \in DOMAIN t : DOMAIN t = 1 .. n
  BY <1>2
<1> QED
  BY <1>1, <1>2 DEF chained

\* What append reads from the tail: the next number is n + 1.
LEMMA TailOfInterval ==
  ASSUME NEW t, NEW n \in Nat, DOMAIN t = 1 .. n
  PROVE  /\ next_sequence_number(t) = n + 1
         /\ tail_hash(t) = IF n = 0 THEN GENESIS_HASH ELSE t[n].chain_hash
<1>1. CASE n = 0
  <2>1. DOMAIN t = {}
    BY <1>1
  <2> QED
    BY <1>1, <2>1 DEF next_sequence_number, tail_hash
<1>2. CASE n # 0
  <2>1. DOMAIN t # {} /\ Max(DOMAIN t) = n
    BY <1>2, MaxOfInterval
  <2> QED
    BY <1>2, <2>1 DEF next_sequence_number, tail_hash
<1> QED
  BY <1>1, <1>2

\* What verify_chain carries from one iteration to the next: the chain_hash
\* of row s - 1.
LEMMA PreviousOfInterval ==
  ASSUME NEW t, NEW n \in Nat, DOMAIN t = 1 .. n, NEW s \in 1 .. n
  PROVE  previous_hash(t, s) = IF s = 1 THEN GENESIS_HASH ELSE t[s - 1].chain_hash
<1>1. {r \in DOMAIN t : r < s} = 1 .. (s - 1)
  OBVIOUS
<1>2. CASE s = 1
  BY <1>1, <1>2 DEF previous_hash
<1>3. CASE s # 1
  <2>1. s - 1 \in Nat \ {0}
    BY <1>3
  <2>2. Max(1 .. (s - 1)) = s - 1
    BY <2>1, MaxOfInterval
  <2>3. 1 .. (s - 1) # {}
    BY <2>1
  <2> QED
    BY <1>1, <1>3, <2>2, <2>3 DEF previous_hash
<1> QED
  BY <1>2, <1>3

-----------------------------------------------------------------------------
(* What a chain that verifies says of its rows.                            *)

\* A chain hash tells what it was computed from.
LEMMA ChainHashInjective ==
  ASSUME NEW a, NEW b, NEW c, NEW d, compute_chain_hash(a, b) = compute_chain_hash(c, d)
  PROVE  a = c /\ b = d
BY DEF compute_chain_hash

\* Each row agrees with its own hash and with the row before it.
LEMMA VerifiedRow ==
  ASSUME NEW t, NEW n \in Nat, DOMAIN t = 1 .. n, verify_chain(t).valid, NEW s \in 1 .. n
  PROVE  /\ entry_hash_matches(t[s])
         /\ t[s].chain_hash =
              compute_chain_hash(t[s].entry_hash,
                IF s = 1 THEN GENESIS_HASH ELSE t[s - 1].chain_hash)
<1>1. broken(t) = {}
  BY DEF verify_chain
<1>2. entry_hash_matches(t[s]) /\ chain_hash_matches(t, s)
  BY <1>1 DEF broken
<1> QED
  BY <1>2, PreviousOfInterval DEF chain_hash_matches

\* Descriptive columns that hold no pipe.
PlainCore(Char) == [CoreColumn -> PlainText(Char)]

\* The last chain_hash vouches for the whole chain: of two tables that both
\* pass verify_chain and end in the same chain_hash, every row agrees in every
\* column that is hashed, created_at up to the time zone that a database drops.
\* Whoever keeps a chain_hash can tell later whether the rows up to it are the
\* ones that were there, and verify_chain looks only at the table itself.
THEOREM HeadVouchesForChain ==
  ASSUME NEW Char, Pipe \in Char, NEW n \in Nat \ {0},
         NEW t, DOMAIN t = 1 .. n, verify_chain(t).valid,
         NEW u, DOMAIN u = 1 .. n, verify_chain(u).valid,
         \A s \in 1 .. n : t[s].core \in PlainCore(Char) /\ u[s].core \in PlainCore(Char),
         t[n].chain_hash = u[n].chain_hash
  PROVE  \A s \in 1 .. n :
           /\ t[s].sequence_number = u[s].sequence_number
           /\ t[s].core = u[s].core
           /\ t[s].payload_hash = u[s].payload_hash
           /\ t[s].entry_hash = u[s].entry_hash
           /\ t[s].chain_hash = u[s].chain_hash
           /\ to_utc(t[s].created_at) = to_utc(u[s].created_at)
<1> DEFINE Differ == {k \in 0 .. (n - 1) : t[n - k].chain_hash # u[n - k].chain_hash}
<1>1. ASSUME Differ # {}
      PROVE  FALSE
  <2> DEFINE k == Min(Differ)
  <2>1. Differ \subseteq Nat
    OBVIOUS
  <2>2. k \in Differ /\ \A j \in Differ : k <= j
    <3> HIDE DEF Differ
    <3> QED
      BY <1>1, <2>1, SmallestNumber
  <2> HIDE DEF k
  <2>3. /\ k \in 0 .. (n - 1)
        /\ t[n - k].chain_hash # u[n - k].chain_hash
        /\ k - 1 \notin Differ
    BY <2>2
  <2>4. k # 0 /\ k - 1 \in 0 .. (n - 1)
    BY <2>3
  <2>5. t[n - (k - 1)].chain_hash = u[n - (k - 1)].chain_hash
    BY <2>3, <2>4
  <2> DEFINE s == n - (k - 1)
  <2>6. s \in 1 .. n /\ s # 1 /\ s - 1 = n - k /\ t[s].chain_hash = u[s].chain_hash
    BY <2>3, <2>4, <2>5
  <2> HIDE DEF s
  <2>7. /\ t[s].chain_hash = compute_chain_hash(t[s].entry_hash, t[s - 1].chain_hash)
        /\ u[s].chain_hash = compute_chain_hash(u[s].entry_hash, u[s - 1].chain_hash)
    BY <2>6, VerifiedRow
  <2>8. t[s - 1].chain_hash = u[s - 1].chain_hash
    <3>1. compute_chain_hash(t[s].entry_hash, t[s - 1].chain_hash)
            = compute_chain_hash(u[s].entry_hash, u[s - 1].chain_hash)
      BY <2>6, <2>7
    <3> QED
      BY <3>1, ChainHashInjective
  <2> QED
    BY <2>3, <2>6, <2>8
<1>2. ASSUME NEW s \in 1 .. n
      PROVE  t[s].chain_hash = u[s].chain_hash
  <2>1. n - s \in 0 .. (n - 1) /\ n - (n - s) = s
    OBVIOUS
  <2> QED
    BY <1>1, <2>1
<1> HIDE DEF Differ
<1>3. ASSUME NEW s \in 1 .. n
      PROVE  /\ t[s].sequence_number = u[s].sequence_number
             /\ t[s].core = u[s].core
             /\ t[s].payload_hash = u[s].payload_hash
             /\ t[s].entry_hash = u[s].entry_hash
             /\ to_utc(t[s].created_at) = to_utc(u[s].created_at)
  <2>1. entry_hash_matches(t[s]) /\ entry_hash_matches(u[s])
    BY VerifiedRow
  <2>2. t[s].entry_hash = u[s].entry_hash
    <3>1. PICK p : t[s].chain_hash = compute_chain_hash(t[s].entry_hash, p)
      BY VerifiedRow
    <3>2. PICK q : u[s].chain_hash = compute_chain_hash(u[s].entry_hash, q)
      BY VerifiedRow
    <3> QED
      BY <1>2, <3>1, <3>2, ChainHashInjective
  <2>3. /\ t[s].sequence_number = u[s].sequence_number
        /\ joined(t[s].core) = joined(u[s].core)
        /\ t[s].payload_hash = u[s].payload_hash
        /\ to_utc(t[s].created_at) = to_utc(u[s].created_at)
    BY <2>1, <2>2 DEF entry_hash_matches, compute_entry_hash
  <2>4. t[s].core = u[s].core
    BY <2>3, JoinedInjective DEF PlainCore
  <2> QED
    BY <2>2, <2>3, <2>4
<1> QED
  BY <1>2, <1>3

-----------------------------------------------------------------------------
(* Rows that append wrote.                                                 *)

\* The fixed columns of such a row, one by one.
LEMMA WrittenColumns ==
  ASSUME NEW t, NEW s, NEW e, NEW i, written(t, s, e, i)
  PROVE  /\ t[s].sequence_number = s
         /\ t[s].core = e.core
         /\ t[s].payload_hash = hash_payload(e.payload)
         /\ t[s].entry_hash =
              compute_entry_hash(s, e.core, hash_payload(e.payload), utc(i))
         /\ t[s].chain_hash =
              compute_chain_hash(t[s].entry_hash,
                IF s = 1 THEN GENESIS_HASH ELSE t[s - 1].chain_hash)
         /\ t[s].created_at = stored(utc(i))
BY DEF written, fixed, new_entry, as_stored

\* _to_utc undoes what SQLite does to an aware datetime.
LEMMA ToUtcOfStored ==
  ASSUME NEW i
  PROVE  to_utc(stored(utc(i))) = utc(i)
BY DEF to_utc, stored, utc, naive

\* Each row of a chained table agrees with its own hash and its predecessor.
LEMMA ChainedRow ==
  ASSUME NEW t, NEW E, NEW T, chained(t, E, T), NEW s \in DOMAIN t
  PROVE  /\ t[s].sequence_number = s
         /\ entry_hash_matches(t[s])
         /\ t[s].chain_hash =
              compute_chain_hash(t[s].entry_hash,
                IF s = 1 THEN GENESIS_HASH ELSE t[s - 1].chain_hash)
<1>1. PICK e \in E, i \in T : written(t, s, e, i)
  BY DEF chained
<1>2. to_utc(t[s].created_at) = utc(i)
  BY <1>1, WrittenColumns, ToUtcOfStored
<1> QED
  BY <1>1, <1>2, WrittenColumns DEF entry_hash_matches

\* verify_chain accepts a chained table.
LEMMA ChainedVerifies ==
  ASSUME NEW t, NEW E, NEW T, chained(t, E, T)
  PROVE  verify_chain(t).valid
<1>1. PICK n \in Nat : DOMAIN t = 1 .. n
  BY ChainedLength
<1>2. ASSUME NEW s \in DOMAIN t
      PROVE  entry_hash_matches(t[s]) /\ chain_hash_matches(t, s)
  <2>1. previous_hash(t, s) = IF s = 1 THEN GENESIS_HASH ELSE t[s - 1].chain_hash
    BY <1>1, <1>2, PreviousOfInterval
  <2> QED
    BY <1>2, <2>1, ChainedRow DEF chain_hash_matches
<1>3. broken(t) = {}
  BY <1>2 DEF broken
<1> QED
  BY <1>3 DEF verify_chain

\* An UPDATE of the columns that are not fixed leaves the table chained.
LEMMA FixedKeepsChained ==
  ASSUME NEW t, NEW u, NEW E, NEW T, chained(t, E, T),
         DOMAIN u = DOMAIN t, \A s \in DOMAIN t : fixed(u[s]) = fixed(t[s])
  PROVE  chained(u, E, T)
<1>1. PICK n \in Nat : DOMAIN t = 1 .. n
  BY ChainedLength
<1>2. ASSUME NEW s \in DOMAIN u
      PROVE  \E e \in E, i \in T : written(u, s, e, i)
  <2>1. PICK e \in E, i \in T : written(t, s, e, i)
    BY <1>2 DEF chained
  <2>2. s = 1 \/ s - 1 \in DOMAIN t
    BY <1>1, <1>2
  <2>3. s = 1 \/ u[s - 1].chain_hash = t[s - 1].chain_hash
    BY <2>2 DEF fixed
  <2>4. written(u, s, e, i)
    BY <1>2, <2>1, <2>3 DEF written
  <2> QED
    BY <2>4
<1> QED
  BY <1>2 DEF chained

-----------------------------------------------------------------------------
(* The insert of what append computed from the tail.                       *)

\* It meets no UNIQUE constraint: the number is free, and chain hashes of
\* different numbers differ.
LEMMA NextIsUnique ==
  ASSUME NEW t, NEW E, NEW T, chained(t, E, T), NEW e, NEW now
  PROVE  unique(t, new_entry(next_sequence_number(t), tail_hash(t), e, now))
<1> DEFINE x == new_entry(next_sequence_number(t), tail_hash(t), e, now)
<1>1. PICK n \in Nat : DOMAIN t = 1 .. n
  BY ChainedLength
<1>2. x.sequence_number = n + 1 /\ x.chain_hash[1][1] = n + 1
  BY <1>1, TailOfInterval DEF new_entry, compute_chain_hash, compute_entry_hash
<1>3. ASSUME NEW s \in DOMAIN t
      PROVE  t[s].chain_hash[1][1] = s
  <2>1. PICK f \in E, i \in T : written(t, s, f, i)
    BY <1>3 DEF chained
  <2> QED
    BY <2>1, WrittenColumns DEF compute_chain_hash, compute_entry_hash
<1>4. \A s \in DOMAIN t : t[s].chain_hash # x.chain_hash
  BY <1>1, <1>2, <1>3
<1> QED
  BY <1>1, <1>2, <1>4 DEF unique

\* u is t with a last row more, that of x.
extends_by(u, t, x) ==
  /\ \E n \in Nat : DOMAIN t = 1 .. n /\ DOMAIN u = 1 .. (n + 1)
  /\ DOMAIN u = DOMAIN t \cup {x.sequence_number}
  /\ \A s \in DOMAIN t : u[s] = t[s]
  /\ u[x.sequence_number] = as_stored(x)

\* It gives a chained table with one row more, and keeps the others.
LEMMA InsertedIsChained ==
  ASSUME NEW t, NEW E, NEW T, chained(t, E, T), NEW e \in E, NEW i \in T
  PROVE  LET x == new_entry(next_sequence_number(t), tail_hash(t), e, utc(i))
         IN  chained(inserted(t, x), E, T) /\ extends_by(inserted(t, x), t, x)
<1> DEFINE x == new_entry(next_sequence_number(t), tail_hash(t), e, utc(i))
           u == inserted(t, x)
<1>1. PICK n \in Nat : DOMAIN t = 1 .. n
  BY ChainedLength
<1>2. /\ x = new_entry(n + 1, tail_hash(t), e, utc(i))
      /\ x.sequence_number = n + 1
      /\ x.created_at = utc(i)
      /\ tail_hash(t) = IF n = 0 THEN GENESIS_HASH ELSE t[n].chain_hash
  BY <1>1, TailOfInterval DEF new_entry
<1>3. DOMAIN u = DOMAIN t \cup {n + 1} /\ DOMAIN u = 1 .. (n + 1)
  BY <1>1, <1>2 DEF inserted
<1>4. \A s \in DOMAIN t : u[s] = t[s]
  BY <1>1, <1>2 DEF inserted
<1>5. u[n + 1] = as_stored(x)
  BY <1>2 DEF inserted
<1>6. ASSUME NEW s \in DOMAIN u
      PROVE  \E f \in E, j \in T : written(u, s, f, j)
  <2>1. CASE s = n + 1
    <3> DEFINE previous == IF s = 1 THEN GENESIS_HASH ELSE u[s - 1].chain_hash
    <3>1. previous = tail_hash(t)
      BY <1>1, <1>2, <1>4, <2>1
    <3>2. u[s] = as_stored(new_entry(s, previous, e, utc(i)))
      BY <1>2, <1>5, <2>1, <3>1
    <3>3. written(u, s, e, i)
      BY <3>2 DEF written
    <3> QED
      BY <3>3
  <2>2. CASE s # n + 1
    <3>1. s \in DOMAIN t /\ (s = 1 \/ s - 1 \in DOMAIN t)
      BY <1>1, <1>3, <1>6, <2>2
    <3>2. PICK f \in E, j \in T : written(t, s, f, j)
      BY <3>1 DEF chained
    <3>3. u[s] = t[s] /\ (s = 1 \/ u[s - 1] = t[s - 1])
      BY <1>4, <3>1
    <3>4. written(u, s, f, j)
      BY <3>2, <3>3 DEF written
    <3> QED
      BY <3>4
  <2> QED
    BY <2>1, <2>2
<1>7. chained(u, E, T)
  <2>1. n + 1 \in DOMAIN u
    BY <1>3
  <2> QED
    BY <1>3, <1>6, <2>1 DEF chained
<1> QED
  BY <1>1, <1>2, <1>3, <1>4, <1>5, <1>7 DEF extends_by

-----------------------------------------------------------------------------
(* The table as a log.                                                     *)

\* A function on 1 .. n into S is a sequence of length n over S.
LEMMA FunctionIsSeq ==
  ASSUME NEW S, NEW n \in Nat, NEW f \in [1 .. n -> S]
  PROVE  f \in Seq(S) /\ Len(f) = n
<1>1. f \in Seq(S)
  BY SeqDef
<1>2. DOMAIN f = 1 .. n /\ DOMAIN f = 1 .. Len(f) /\ Len(f) \in Nat
  BY <1>1, LenProperties
<1> QED
  BY <1>1, <1>2

\* What Append does to a sequence of pages.
LEMMA AppendPages ==
  ASSUME NEW pages, IsSeq(pages), NEW records
  PROVE  LET new == Append(pages, records)
         IN  /\ IsSeq(new)
             /\ Len(pages) \in Nat
             /\ DOMAIN pages = 1 .. Len(pages)
             /\ DOMAIN new = 1 .. (Len(pages) + 1)
             /\ \A i \in DOMAIN pages : new[i] = pages[i]
             /\ new[Len(pages) + 1] = records
<1> DEFINE S   == {pages[i] : i \in DOMAIN pages} \cup {records}
           new == Append(pages, records)
<1>1. pages \in Seq({pages[i] : i \in DOMAIN pages})
  BY DEF IsSeq
<1>2. /\ Len(pages) \in Nat
      /\ DOMAIN pages = 1 .. Len(pages)
  BY <1>1
<1>3. pages \in Seq(S)
  BY <1>1, SeqDef
<1>4. records \in S
  OBVIOUS
<1> HIDE DEF S
<1>5. /\ new \in Seq(S)
      /\ Len(new) = Len(pages) + 1
      /\ \A i \in 1 .. Len(pages) : new[i] = pages[i]
      /\ new[Len(pages) + 1] = records
  BY <1>3, <1>4, AppendProperties
<1>6. DOMAIN new = 1 .. (Len(pages) + 1)
  BY <1>2, <1>5
<1>7. IsSeq(new)
  <2> DEFINE range == {new[i] : i \in DOMAIN new}
  <2>1. new \in [1 .. Len(new) -> range]
    <3>1. new \in [1 .. Len(new) -> S]
      BY <1>5, LenProperties
    <3> HIDE DEF new
    <3> QED
      BY <3>1
  <2>2. Len(new) \in Nat
    BY <1>2, <1>5
  <2>3. new \in Seq(range)
    BY <2>1, <2>2, SeqDef
  <2> QED
    BY <2>3 DEF IsSeq
<1> QED
  BY <1>2, <1>5, <1>6, <1>7

\* What is recorded of a row that append wrote is an item.
LEMMA WrittenIsItem ==
  ASSUME NEW t, NEW s, NEW E, NEW T, NEW e \in E, NEW i \in T, written(t, s, e, i)
  PROVE  recorded(t[s]) \in recorded_items(E, T)
<1> DEFINE row == as_stored(new_entry(1, GENESIS_HASH, e, utc(i)))
<1>1. recorded(row) \in recorded_items(E, T)
  BY DEF recorded_items
<1>2. recorded(row) = recorded(t[s])
  BY WrittenColumns DEF recorded, new_entry, as_stored
<1> QED
  BY <1>1, <1>2

\* A chained table read as a log is a sequence of items, as long as the table.
LEMMA LogIsSeq ==
  ASSUME NEW t, NEW E, NEW T, chained(t, E, T), NEW n \in Nat, DOMAIN t = 1 .. n
  PROVE  /\ recorded_log(t) \in Seq(recorded_items(E, T))
         /\ Len(recorded_log(t)) = n
<1>1. \A s \in DOMAIN t : recorded(t[s]) \in recorded_items(E, T)
  BY WrittenIsItem DEF chained
<1>2. recorded_log(t) \in [1 .. n -> recorded_items(E, T)]
  BY <1>1 DEF recorded_log
<1> QED
  BY <1>2, FunctionIsSeq

\* To insert a row is to append an item to the log.
LEMMA InsertAppends ==
  ASSUME NEW t, NEW u, NEW E, NEW T, NEW n \in Nat,
         chained(t, E, T), chained(u, E, T),
         DOMAIN t = 1 .. n, DOMAIN u = 1 .. (n + 1),
         \A s \in DOMAIN t : u[s] = t[s]
  PROVE  \E item \in recorded_items(E, T) :
           recorded_log(u) = Append(recorded_log(t), item)
<1> DEFINE Items == recorded_items(E, T)
           item  == recorded(u[n + 1])
<1>1. recorded_log(t) \in Seq(Items) /\ Len(recorded_log(t)) = n
  BY LogIsSeq
<1>2. recorded_log(u) \in Seq(Items) /\ Len(recorded_log(u)) = n + 1
  BY LogIsSeq
<1>3. /\ \A s \in 1 .. n : recorded_log(u)[s] = recorded_log(t)[s]
      /\ recorded_log(u)[n + 1] = item
  BY DEF recorded_log
<1>4. item \in Items
  BY <1>2, <1>3, ElementOfSeq
<1> HIDE DEF Items, item
<1>5. /\ Append(recorded_log(t), item) \in Seq(Items)
      /\ Len(Append(recorded_log(t), item)) = n + 1
      /\ \A s \in 1 .. (n + 1) :
           Append(recorded_log(t), item)[s] = recorded_log(u)[s]
  BY <1>1, <1>3, <1>4
<1>6. recorded_log(u) = Append(recorded_log(t), item)
  BY <1>2, <1>5, SeqEqual
<1> QED
  BY <1>4, <1>6 DEF Items

\* An UPDATE of the columns that are not fixed does not change the log.
LEMMA FixedKeepsLog ==
  ASSUME NEW t, NEW u, DOMAIN u = DOMAIN t,
         \A s \in DOMAIN t : fixed(u[s]) = fixed(t[s])
  PROVE  recorded_log(u) = recorded_log(t)
<1>1. \A s \in DOMAIN t : recorded(u[s]) = recorded(t[s])
  BY DEF recorded, fixed
<1> QED
  BY <1>1 DEF recorded_log

=============================================================================
