---------------------------- MODULE MCTensCacheMT ----------------------------
(***************************************************************************)
(* Two callers, two calls each.                                            *)
(***************************************************************************)
EXTENDS TensCacheMT
=============================================================================
