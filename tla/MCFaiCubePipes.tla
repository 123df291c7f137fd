---------------------------- MODULE MCFaiCubePipes ----------------------------
(***************************************************************************)
(* FaiCubePipes on four tasks: four stacks, 13 pages (an odd number, so    *)
(* that the next task finds the halves the other way round); one page; two *)
(* pages; two stacks, seven pages.                                         *)
(***************************************************************************)
EXTENDS FaiCubePipes

MCNumStacks == 8
MCFirst == [g \in 0..7 |-> CASE g < 4 -> 0 [] g < 6 -> g [] OTHER -> 6]
MCPages == [g \in 0..7 |-> CASE g = 3 -> 1 [] g = 4 -> 1 [] g = 5 -> 2
                             [] g = 7 -> 3 [] OTHER -> 4]
=============================================================================
