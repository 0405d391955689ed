---------------------------- MODULE MCSessionPool ----------------------------
(***************************************************************************)
(* SessionPool on a small instance.                                        *)
(***************************************************************************)
EXTENDS SessionPool, MCCores

=============================================================================
