---------------------------- MODULE MCFaiCrossCore ----------------------------
(***************************************************************************)
(* FaiCrossCore on a small instance: four tasks, of more stacks than the   *)
(* workspace has slots, of a single stack, and of two stacks (fewer than   *)
(* the slots), so that slots are reused inside a task and across tasks.    *)
(***************************************************************************)
EXTENDS FaiCrossCore

MCNumStacks == 10
MCFirst == [g \in 0..9 |-> CASE g < 5 -> 0 [] g = 5 -> 5 [] g < 8 -> 6 [] OTHER -> 8]
=============================================================================
