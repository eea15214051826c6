--------------------------- MODULE MCSliceBudget ---------------------------
(* Two threads that serve two queries one after the other: a sliced count  *)
(* with a tight limit, and a query without a shared flag.                  *)
EXTENDS SliceBudget, TLC

CONSTANTS t1, t2, counted, plain

TwoThreads == {t1, t2}
Limits == counted :> 8 @@ plain :> 0
Symmetric == Permutations(TwoThreads)
=============================================================================
