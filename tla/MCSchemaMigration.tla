-------------------------- MODULE MCSchemaMigration --------------------------
(***************************************************************************)
(* SchemaMigration on a small instance, with the payloads of               *)
(* MCEntryLifecycle.                                                       *)
(***************************************************************************)
EXTENDS SchemaMigration, MCCores

\* Both fields with a value, or one of them posted as null.
MCPayload == {[name |-> "n", card |-> "c"], [name |-> "n", card |-> None]}

=============================================================================
