--------------------------- MODULE MCQueryService ---------------------------
(***************************************************************************)
(* QueryService on small instances: everything, one actor's entries, and   *)
(* the entries of a time range.                                            *)
(***************************************************************************)
EXTENDS QueryService, MCCores

MCFilter ==
  {[cores |-> {k, l}, from |-> None, to |-> None],
   [cores |-> {k},    from |-> None, to |-> None],
   [cores |-> {k, l}, from |-> 2,    to |-> 2]}

=============================================================================
