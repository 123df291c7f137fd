--------------------------- MODULE MCTilingStaging ---------------------------
(***************************************************************************)
(* TilingStaging with two threads, two streams and two tilings (two decode *)
(* buckets): three calls, eager or captured, a replay, a failed allocation.*)
(* Padding bytes have one value where calls are compared by the bytes they *)
(* agree on, and two values where the question is what padding does.       *)
(***************************************************************************)
EXTENDS TilingStaging
=============================================================================
