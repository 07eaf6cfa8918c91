----------------------------- MODULE TensArith -----------------------------
(***************************************************************************)
(* Integer helpers shared by the evaluator modules.  Sums over a range of  *)
(* indices by plain recursion: the community SumFunction folds over       *)
(* SUBSET of the domain, which is too slow for the layer dot products.    *)
(***************************************************************************)
EXTENDS Integers

\* f[lo] + f[lo+1] + ... + f[hi]
RECURSIVE SumRange(_, _, _)
SumRange(f, lo, hi) == IF lo > hi THEN 0 ELSE f[lo] + SumRange(f, lo + 1, hi)
=============================================================================
