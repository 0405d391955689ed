------------------------------ MODULE ChainLog ------------------------------
(***************************************************************************)
(* What POST /audit/events promises, with no database, lock or handler: a  *)
(* log that only grows at its end, one item at a time, and acknowledgements *)
(* that name the position an item already has.                             *)
(***************************************************************************)
EXTENDS Naturals, Sequences

CONSTANT Item   \* what is recorded of an event, and never changes

VARIABLES
  log,    \* the items, in the order of their sequence numbers
  acked   \* the <<position, item>> pairs clients were told of

logVars == <<log, acked>>

LogTypeOK ==
  /\ log \in Seq(Item)
  /\ acked \subseteq (Nat \X Item)

LogInit ==
  /\ log = << >>
  /\ acked = {}

Record(x) ==
  /\ log' = Append(log, x)
  /\ UNCHANGED acked

Acknowledge(i) ==
  /\ acked' = acked \cup {<<i, log[i]>>}
  /\ UNCHANGED log

LogNext ==
  \/ \E x \in Item : Record(x)
  \/ \E i \in DOMAIN log : Acknowledge(i)

LogSpec == LogInit /\ [][LogNext]_logVars

=============================================================================
