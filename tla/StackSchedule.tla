---------------------------- MODULE StackSchedule ----------------------------
(***************************************************************************)
(* The order of KvStacks as a specification: what one kernel of the core   *)
(* promises the other about the order of its calls.  Each kernel's loops   *)
(* (FaiTaskLoop) are shown to implement it.                                *)
(***************************************************************************)
EXTENDS KvStacks

VARIABLE walk

Init == walk = Start

Stage1 == Stage1Due(walk) /\ walk' = [walk EXCEPT !.one = @ + 1]
Stage2 == Stage2Due(walk) /\ walk' = [walk EXCEPT !.two = @ + 1]

Next == Stage1 \/ Stage2

Spec == Init /\ [][Next]_walk
FairSpec == Spec /\ WF_walk(Next)
=============================================================================
