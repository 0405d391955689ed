--------------------------- MODULE MCVerifyChain ---------------------------
(***************************************************************************)
(* VerifyChain on a small instance.  The columns of the two events differ  *)
(* only in where one ends and the next begins.                             *)
(***************************************************************************)
EXTENDS VerifyChain

column(event_type, actor_id) ==
  [event_type |-> event_type, actor_id |-> actor_id,
   resource_type |-> <<"t">>, resource_id |-> <<"i">>]

EarlyAndLate == {column(<<"e">>, <<"k", "l">>), column(<<"e", "k">>, <<"l">>)}

\* States that differ only in `acked', which no action of VerifyChain and none
\* of its properties reads but AckedDurable in IInv, are one to TLC.
Unread == <<table, lock, pc, body, entry, walk, appended, damages>>

=============================================================================
