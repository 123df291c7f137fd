---------------------------- MODULE RunningTotals ----------------------------
(***************************************************************************)
(* What a loop that adds up has after each of its turns: the kernels and   *)
(* the host count tasks, tokens, stacks and rows this way.                 *)
(***************************************************************************)
EXTENDS Integers, Sequences

(* RunningTotal(s)[i] is s[1] + ... + s[i].                                *)
RunningTotal(s) ==
    LET total[i \in 0..Len(s)] == IF i = 0 THEN 0 ELSE total[i - 1] + s[i]
    IN  total
=============================================================================
