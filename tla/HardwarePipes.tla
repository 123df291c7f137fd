---------------------------- MODULE HardwarePipes ----------------------------
(***************************************************************************)
(* The pipes of one core.  The scalar unit issues instructions to pipes    *)
(* and runs ahead; each pipe executes its own in order, at its own pace.   *)
(* Pipes meet only through hardware events, which SetFlag raises and       *)
(* WaitFlag lowers, both inside a pipe.                                    *)
(*                                                                         *)
(* The content of a buffer is represented by what it was computed from; an *)
(* instruction names the content it is meant to find.  An instruction is   *)
(* one step: a transfer torn by a later write shows as that write placed   *)
(* before the transfer.                                                    *)
(***************************************************************************)
EXTENDS Integers, Sequences, SequencesExt

CONSTANTS Pipes, Events, Buffers

VARIABLES
    queue,          (* per pipe: instructions issued, not executed         *)
    events,         (* per event: raised and not waited for                *)
    content         (* content of the buffers                              *)

(* An instruction waits for events, reads and writes buffers, raises       *)
(* events.  reads and writes are sets of <<buffer, content>>.              *)
Instruction(waits, reads, writes, sets) ==
    [waits |-> waits, reads |-> reads, writes |-> writes, sets |-> sets]

(* Code(0) \o ... \o Code(n-1), and a piece of code that may be left out.  *)
Each(n, Code(_)) == FlattenSeq([i \in 1..n |-> Code(i - 1)])
If(condition, code) == IF condition THEN code ELSE <<>>

(* The scalar unit issues program[p] to each pipe p of the program.        *)
Issue(program) ==
    queue' = [p \in Pipes |-> IF p \in DOMAIN program THEN queue[p] \o program[p]
                              ELSE queue[p]]

(* A pipe executes its next instruction.                                   *)
CanExecute(p) ==
    /\ queue[p] # <<>>
    /\ \A e \in Head(queue[p]).waits : events[e] > 0

Execute(p) ==
    LET i == Head(queue[p])
        written == {w[1] : w \in i.writes}
        Count(e, s) == IF e \in s THEN 1 ELSE 0
    IN  /\ CanExecute(p)
        /\ events' = [e \in Events |-> events[e] - Count(e, i.waits) + Count(e, i.sets)]
        /\ content' = IF i.writes = {} THEN content
                      ELSE [b \in Buffers |->
                               IF b \in written THEN (CHOOSE w \in i.writes : w[1] = b)[2]
                               ELSE content[b]]
        /\ queue' = [queue EXCEPT ![p] = Tail(@)]

Drained == \A p \in Pipes : queue[p] = <<>>

(* The next instruction of p finds what it is meant to in these buffers.   *)
Finds(p, buffers) ==
    CanExecute(p) =>
        \A r \in Head(queue[p]).reads : r[1] \in buffers => content[r[1]] = r[2]
=============================================================================
