------------------------------- MODULE KvFold -------------------------------
(***************************************************************************)
(* What the attention kernel promises, without workspace, pipes or flags:  *)
(* every vector sub-block folds the partial results of the KV stacks into  *)
(* its rows of O one by one, in the order of the stacks, starts afresh     *)
(* with every task, and publishes O when the last stack of the task is in. *)
(* A partial result is represented by the stack it was computed from.      *)
(***************************************************************************)
EXTENDS KvStacks, Sequences

CONSTANT SubBlocks

VARIABLES
    folded,     (* per sub-block: how many stacks have been folded         *)
    acc,        (* per sub-block: what O holds of the current task         *)
    out         (* per sub-block: what was published, at its last stack    *)

foldVars == <<folded, acc, out>>

Init ==
    /\ folded = [v \in SubBlocks |-> 0]
    /\ acc = [v \in SubBlocks |-> <<>>]
    /\ out = [v \in SubBlocks |-> [g \in Stacks |-> <<>>]]

Fold(v) ==
    LET g == folded[v]
        o == IF First[g] = g THEN <<g>> ELSE Append(acc[v], g)
    IN  /\ g < NumStacks
        /\ folded' = [folded EXCEPT ![v] = g + 1]
        /\ acc' = [acc EXCEPT ![v] = o]
        /\ out' = IF IsLast(g) THEN [out EXCEPT ![v][g] = o] ELSE out

Next == \E v \in SubBlocks : Fold(v)

Spec == Init /\ [][Next]_foldVars
FairSpec == Spec /\ \A v \in SubBlocks : WF_foldVars(Fold(v))
=============================================================================
