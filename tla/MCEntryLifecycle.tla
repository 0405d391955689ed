-------------------------- MODULE MCEntryLifecycle --------------------------
(***************************************************************************)
(* EntryLifecycle on small instances, with payloads of two fields.         *)
(***************************************************************************)
EXTENDS EntryLifecycle, MCCores, TLC

\* Both fields with a value, or one of them posted as null.
MCPayload == {[name |-> "n", card |-> "c"], [name |-> "n", card |-> None]}

\* Both fields with a value, which is all that a lost update takes.
MCFullPayload == {[name |-> "n", card |-> "c"]}

Symmetry == Permutations(Redactor) \cup Permutations(Archiver)

=============================================================================
