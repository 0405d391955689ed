------------------------------ MODULE Hashing ------------------------------
(***************************************************************************)
(* The hash functions of app/core/hashing.py.                              *)
(*                                                                         *)
(* SHA-256 is taken to be ideal: a digest is the tuple of what went into   *)
(* it, so two digests are equal exactly when their inputs are.  Canonical  *)
(* JSON is abstracted with it.  The parts of the entry hash are joined     *)
(* into one text before they are hashed; the four of them that a client    *)
(* chooses, the descriptive columns of an event, always travel together,   *)
(* as a record `core' of texts, which are sequences of characters.         *)
(***************************************************************************)
EXTENDS Sequences

GENESIS_HASH == << >>

hash_payload(payload) == <<"payload", payload>>

CoreColumn == {"event_type", "actor_id", "resource_type", "resource_id"}

Pipe == "|"

\* Fault: the columns are put together without a separator.
joined_Bare(core) ==
  core.event_type \o core.actor_id \o core.resource_type \o core.resource_id
\* A text, a separator and the text behind it.
piped(text, rest) == text \o (<<Pipe>> \o rest)

\* "|".join of the descriptive columns.
joined(core) ==
  piped(core.event_type, piped(core.actor_id, piped(core.resource_type, core.resource_id)))

\* The sequence number before the columns, and the hex digest and ISO 8601
\* timestamp behind them, have no separator in them: they stay apart.
compute_entry_hash(sequence_number, core, payload_hash, timestamp) ==
  <<sequence_number, joined(core), payload_hash, timestamp>>

compute_chain_hash(entry_hash, previous_hash) == <<entry_hash, previous_hash>>

hash_field_value(field_name, value) == <<field_name, value>>

=============================================================================
