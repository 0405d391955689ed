------------------------------ MODULE MCCores ------------------------------
(***************************************************************************)
(* Descriptive columns for the small instances: two events that differ in  *)
(* who acted.                                                              *)
(***************************************************************************)

by(actor) ==
  [event_type |-> <<"e">>, actor_id |-> actor,
   resource_type |-> <<"t">>, resource_id |-> <<"i">>]

k == by(<<"k">>)
l == by(<<"l">>)

OneCore == {k}
TwoCores == {k, l}

=============================================================================
