--------------------------- MODULE MCChainService ---------------------------
(***************************************************************************)
(* ChainService on small instances: which client is which does not matter  *)
(* to what is checked without fairness.                                    *)
(***************************************************************************)
EXTENDS ChainService, MCCores, TLC

Symmetry == Permutations(Client)

=============================================================================
