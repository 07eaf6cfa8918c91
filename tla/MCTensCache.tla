---------------------------- MODULE MCTensCache ----------------------------
(***************************************************************************)
(* Model-checking instance of TensCache: four seeds (one the zero seed    *)
(* the static cachedSeed starts as), four inputs, and a matrix set of *)
(* 2 expansion rows, 2 middle matrices of 2 rows and 2 compression rows,  *)
(* so that every branch of precompute_matrices's rollback chains (first   *)
(* row, later row, first round, later round) is reachable.                 *)
(***************************************************************************)
EXTENDS TensCache
=============================================================================
