---------------------------- MODULE MCFaiEpilogue ----------------------------
(***************************************************************************)
(* FaiEpilogue on four tasks: four stacks of which the last is short, with *)
(* 40 rows (three row loops, two lse chunks); two stacks with 24 rows (one *)
(* chunk, so that the next task starts on the other bank); a single stack  *)
(* with 64 rows (two chunks); two stacks without rows in this sub-block.   *)
(***************************************************************************)
EXTENDS FaiEpilogue

MCNumStacks == 9
MCFirst == [g \in 0..8 |-> CASE g < 4 -> 0 [] g < 6 -> 4 [] g = 6 -> 6 [] OTHER -> 7]
MCRows == [g \in 0..8 |-> CASE g < 4 -> 40 [] g < 6 -> 24 [] g = 6 -> 64 [] OTHER -> 0]
MCColumns == [g \in 0..8 |-> CASE g = 3 -> 100 [] g = 5 -> 1 [] g = 6 -> 300 [] OTHER -> 512]
=============================================================================
