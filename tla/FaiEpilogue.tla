----------------------------- MODULE FaiEpilogue -----------------------------
(***************************************************************************)
(* One vector sub-block of fa_fp32_stage1, instruction by instruction: its *)
(* scalar unit issues the calls of the online softmax and of the rescale   *)
(* of O in the order of KvStacks to the pipes MTE2 (workspace to UB), V    *)
(* (vector unit) and MTE3 (UB to workspace and output).                    *)
(*                                                                         *)
(* The buffers in UB are reused by every row loop, stack and task.  The    *)
(* content of a buffer is a stack and a number.                            *)
(*                                                                         *)
(* The other core appears by two facts only: S of a stack may be there at  *)
(* any time, and pvReady of a stack is raised after the sub-block raised   *)
(* softmaxReady of the same stack (proved of FaiCrossCore).                *)
(***************************************************************************)
EXTENDS KvStacks

CONSTANTS Rows,     (* Rows[g]: rows of S the sub-block has of stack g     *)
          Columns   (* Columns[g]: KV rows of the stack                    *)

ASSUME EpilogueAssumption ==
    /\ Rows \in [Stacks -> 0..64]       (* RowsFit of FaiTiling            *)
    /\ Columns \in [Stacks -> 1..512]
    /\ \A g \in Stacks : Rows[g] = Rows[First[g]]

CeilDiv(a, b) == (a + b - 1) \div b

(* A row loop of the softmax takes as many rows of S as half the buffer    *)
(* holds, in multiples of 8; a chunk of the lse output 32 rows.            *)
MAX_UB_S_ELEM_NUM == 8192
LSE_CHUNK_ROWS == 32
columnNumRound(g) == CeilDiv(Columns[g], 16) * 16
rowNumTile(g) == ((MAX_UB_S_ELEM_NUM \div columnNumRound(g)) \div 8) * 8
rowLoopNum(g) == CeilDiv(Rows[g], rowNumTile(g))
LseChunks(g) == CeilDiv(Rows[g], LSE_CHUNK_ROWS)

Pipes == {"MTE2", "V", "MTE3"}

(* Events by direction and id, and softmaxReady, which MTE3 raises.        *)
MTE2_V(i) == <<"MTE2_V", i>>
V_MTE2(i) == <<"V_MTE2", i>>
V_MTE3(i) == <<"V_MTE3", i>>
MTE3_V(i) == <<"MTE3_V", i>>
MTE3_MTE2(i) == <<"MTE3_MTE2", i>>
softmaxReady == <<"softmaxReady", 0>>

(* Raised at the start of the kernel, and waited for at its end.           *)
V_MTE2_Initial == {V_MTE2(i) : i \in 0..3}
MTE3_V_Initial == {MTE3_V(i) : i \in 0..2}
MTE3_MTE2_Initial == {MTE3_MTE2(i) : i \in 2..5}
Initial == V_MTE2_Initial \cup MTE3_V_Initial \cup MTE3_MTE2_Initial

Events == Initial \cup {MTE2_V(i) : i \in 0..1} \cup {V_MTE3(i) : i \in 0..1}
          \cup {softmaxReady}

(* ls and lp alternate by row loop, dm by workspace slot, lseStage by bank;*)
(* tv is written and read inside one vector instruction group.             *)
ls(i) == <<"ls", i>>
lp(i) == <<"lp", i>>
dm(i) == <<"dm", i>>
lseStage(i) == <<"lseStage", i>>
hm == <<"hm", 0>>
gl == <<"gl", 0>>
lo == <<"lo", 0>>
go == <<"go", 0>>
lseVal == <<"lseVal", 0>>
Buffers == {hm, gl, lo, go, lseVal} \cup {dm(i) : i \in 0..Slots-1}
           \cup {f : f \in {ls(0), ls(1), lp(0), lp(1), lseStage(0), lseStage(1)}}

(* A content: the stack, and the row loop, the chunk, or 1 for O divided.  *)
Of(g) == <<g, 0>>

VARIABLES
    scalar,         (* scalar unit: stacks whose calls have been issued    *)
    lseStageSeq,    (* parity of the chunks issued so far                  *)
    queue,          (* per pipe: instructions issued, not executed         *)
    events,         (* per event: raised and not waited for                *)
    ub,             (* content of the buffers                              *)
    returned        (* the final waits have been issued                    *)

INSTANCE HardwarePipes WITH content <- ub

vars == <<scalar, lseStageSeq, queue, events, ub, returned>>

Init ==
    /\ scalar = Start
    /\ lseStageSeq = 0
    /\ queue = [p \in Pipes |-> <<>>]
    /\ events = [e \in Events |-> IF e \in Initial THEN 1 ELSE 0]
    /\ ub = [b \in Buffers |-> <<-1, 0>>]
    /\ returned = FALSE

-----------------------------------------------------------------------------
(* The accumulators of the rows are disjoint, row loop by row loop; they   *)
(* count as updated with the last one.                                     *)
IfLastLoop(g, i, accesses) == IF i = rowLoopNum(g) - 1 THEN accesses ELSE {}
IfFirst(g, then, else) == IF First[g] = g THEN then ELSE else

SoftmaxLoad(g) == Each(rowLoopNum(g), LAMBDA i :
    << Instruction({V_MTE2(i % 2)}, {}, {<<ls(i % 2), <<g, i>>>>}, {MTE2_V(i % 2)}) >>)

SoftmaxVectorUnguarded(g) == Each(rowLoopNum(g), LAMBDA i :  (* mutant: lp not awaited *)
    << Instruction({MTE2_V(i % 2)},
                   {<<ls(i % 2), <<g, i>>>>} \cup
                       IfLastLoop(g, i, IfFirst(g, {}, {<<hm, Of(g - 1)>>})),
                   IfLastLoop(g, i, {<<hm, Of(g)>>} \cup
                       IfFirst(g, {}, {<<dm(Slot(g)), Of(g)>>})), {}),
       Instruction({}, {<<ls(i % 2), <<g, i>>>>},
                   {<<lp(i % 2), <<g, i>>>>}, {V_MTE3(i % 2)}),
       Instruction({}, {<<ls(i % 2), <<g, i>>>>}, {}, {V_MTE2(i % 2)}),
       Instruction({}, IfLastLoop(g, i, IfFirst(g, {},
                           {<<gl, Of(g - 1)>>, <<dm(Slot(g)), Of(g)>>})),
                   IfLastLoop(g, i, {<<gl, Of(g)>>}), {}) >>)

(* Row max (hm, dm), exp, cast to P, local row sum, global row sum (gl).   *)
SoftmaxVector(g) == Each(rowLoopNum(g), LAMBDA i :
    << Instruction({MTE2_V(i % 2)},
                   {<<ls(i % 2), <<g, i>>>>} \cup
                       IfLastLoop(g, i, IfFirst(g, {}, {<<hm, Of(g - 1)>>})),
                   IfLastLoop(g, i, {<<hm, Of(g)>>} \cup
                       IfFirst(g, {}, {<<dm(Slot(g)), Of(g)>>})), {}),
       Instruction({MTE3_V(i % 2)}, {<<ls(i % 2), <<g, i>>>>},
                   {<<lp(i % 2), <<g, i>>>>}, {V_MTE3(i % 2)}),
       Instruction({}, {<<ls(i % 2), <<g, i>>>>}, {}, {V_MTE2(i % 2)}),
       Instruction({}, IfLastLoop(g, i, IfFirst(g, {},
                           {<<gl, Of(g - 1)>>, <<dm(Slot(g)), Of(g)>>})),
                   IfLastLoop(g, i, {<<gl, Of(g)>>}), {}) >>)

SoftmaxStore(g) == Each(rowLoopNum(g), LAMBDA i :
        << Instruction({V_MTE3(i % 2)}, {<<lp(i % 2), <<g, i>>>>}, {}, {MTE3_V(i % 2)}) >>)
    \o << Instruction({}, {}, {}, {softmaxReady}) >>

(* The first stack's OTmp is loaded into go itself, the others into lo.    *)
RescaleLoad(g) ==
    << Instruction({V_MTE2(3)}, {}, {<<IfFirst(g, go, lo), Of(g)>>}, {MTE2_V(0)}) >>

RescaleVectorNoRelease(g) ==            (* mutant: V_MTE2(3) is not raised *)
    << Instruction({MTE2_V(0)},
                   IfFirst(g, {}, {<<dm(Slot(g)), Of(g)>>, <<go, Of(g - 1)>>, <<lo, Of(g)>>}),
                   IfFirst(g, {}, {<<go, Of(g)>>}), IfFirst(g, {V_MTE2(3)}, {})) >>

(* go = go * dm + lo.                                                      *)
RescaleVector(g) ==
    << Instruction({MTE2_V(0)},
                   IfFirst(g, {}, {<<dm(Slot(g)), Of(g)>>, <<go, Of(g - 1)>>, <<lo, Of(g)>>}),
                   IfFirst(g, {}, {<<go, Of(g)>>}), {V_MTE2(3)}) >>

StageBankPerTask(i) == lseStageSeq      (* mutant: chosen once per task    *)

(* Bank of the i-th chunk of a call: the sequence goes on from call to     *)
(* call.                                                                   *)
StageBank(i) == (lseStageSeq + i) % 2

(* Last stack: go / gl, out; lse = ln(gl) + hm, out in chunks by way of a  *)
(* staging bank.                                                           *)
OutputVector(g) ==
    << Instruction({}, {<<gl, Of(g)>>, <<go, Of(g)>>}, {<<go, <<g, 1>>>>}, {V_MTE3(0)}),
       Instruction({}, {<<gl, Of(g)>>, <<hm, Of(g)>>}, {<<lseVal, Of(g)>>}, {}) >>
    \o Each(LseChunks(g), LAMBDA i :
        << Instruction({}, {<<lseVal, Of(g)>>},
                       {<<lseStage(StageBank(i)), <<g, i>>>>}, {V_MTE3(0)}) >>)

OutputStore(g) ==
    << Instruction({V_MTE3(0)}, {<<go, <<g, 1>>>>}, {}, {}) >>
    \o Each(LseChunks(g), LAMBDA i :
        << Instruction({V_MTE3(0)}, {<<lseStage(StageBank(i)), <<g, i>>>>}, {}, {}) >>)

-----------------------------------------------------------------------------
(* The scalar unit.                                                        *)

IssueTo(mte2, v, mte3) == Issue([MTE2 |-> mte2, V |-> v, MTE3 |-> mte3])

IssueSoftmax ==
    LET g == scalar.one
    IN  /\ Stage1Due(scalar)
        /\ IssueTo(SoftmaxLoad(g), SoftmaxVector(g), SoftmaxStore(g))
        /\ scalar' = [scalar EXCEPT !.one = @ + 1]
        /\ UNCHANGED <<lseStageSeq, events, ub, returned>>

(* Waits for pvReady, which comes after softmaxReady of the stack.  A      *)
(* sub-block without rows issues nothing.                                  *)
IssueRescale ==
    LET g == scalar.two
        last == IsLast(g)
    IN  /\ Stage2Due(scalar)
        /\ events[softmaxReady] > g
        /\ IF Rows[g] = 0 THEN UNCHANGED queue
           ELSE IssueTo(RescaleLoad(g),
                        RescaleVector(g) \o If(last, OutputVector(g)),
                        If(last, OutputStore(g)))
        /\ lseStageSeq' = IF last THEN (lseStageSeq + LseChunks(g)) % 2 ELSE lseStageSeq
        /\ scalar' = [scalar EXCEPT !.two = @ + 1]
        /\ UNCHANGED <<events, ub, returned>>

(* The waits at the end of the kernel, each in the pipe that waits.        *)
WaitForAll(initial) == << Instruction(initial, {}, {}, {}) >>

IssueFinalWaits ==
    /\ Finished(scalar) /\ ~returned
    /\ returned' = TRUE
    /\ IssueTo(WaitForAll(MTE3_MTE2_Initial \cup V_MTE2_Initial),
               WaitForAll(MTE3_V_Initial), <<>>)
    /\ UNCHANGED <<scalar, lseStageSeq, events, ub>>

RunPipe(p) == Execute(p) /\ UNCHANGED <<scalar, lseStageSeq, returned>>

AllRun == returned /\ Drained
Terminated == AllRun /\ UNCHANGED vars

Scalar == IssueSoftmax \/ IssueRescale \/ IssueFinalWaits

Next == Scalar \/ (\E p \in Pipes : RunPipe(p)) \/ Terminated

Spec == Init /\ [][Next]_vars

(* Hardware units go on when they can.                                     *)
FairSpec == Spec /\ WF_vars(Scalar) /\ \A p \in Pipes : WF_vars(RunPipe(p))

-----------------------------------------------------------------------------
(* Correctness.                                                            *)

(* Softmax: a half of ls is not loaded before the row loop that had it is  *)
(* through, and a half of lp not cast into before MTE3 has copied it out   *)
(* (block_epilogue_online_softmax_no_mask.hpp:623-661, 690-731).           *)
PingPongIntact ==
    \A p \in Pipes : Finds(p, {ls(0), ls(1), lp(0), lp(1)})

(* What goes out is what was computed: MTE3 finds O of its task in go and  *)
(* each lse chunk in its bank, although no event tells the vector unit or  *)
(* MTE2 that MTE3 has finished with either.  Between tasks pvReady orders  *)
(* it; inside a task 64 rows make two chunks, and there are two banks      *)
(* (block_epilogue_rescale_o_no_split_row.hpp:257-269, 383-418).           *)
OutputIntact == Finds("MTE3", {go, lseStage(0), lseStage(1)})

(* The vector unit folds matching pieces, with softmax two stacks ahead:   *)
(* OTmp and dm of the stack into O of the stack before; O is divided by,   *)
(* and lse made of, the sum and maximum over exactly this task's stacks    *)
(* (rescale: 164-239, 377-386; softmax: 443-485, 549-576, dm slots).       *)
FoldFindsItsPieces == Finds("V", {lo, go, hm, gl, lseVal} \cup {dm(i) : i \in 0..Slots-1})

(* The pipes never wait for each other for good, and the waits at the end  *)
(* of the kernel take exactly what is raised: nothing is left for the next *)
(* kernel on the core (kernel_fa_fp32_stage1.cpp:476-487, 733-744).        *)
EventsTaken == AllRun /\ \A e \in Events \ {softmaxReady} : events[e] = 0
KernelTakesItsEvents == <>[]EventsTaken
=============================================================================
