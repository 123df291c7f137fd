----------------------------- MODULE FaiCubePipes -----------------------------
(***************************************************************************)
(* The cube core of fa_fp32_stage1, instruction by instruction: its scalar *)
(* unit issues loadQGM, Q*K^T and P*V of the stacks in the order of        *)
(* KvStacks to the pipes MTE2 (global memory to L1), MTE1 (L1 to L0), M    *)
(* (matrix unit) and FIX (L0C to the workspace).                           *)
(*                                                                         *)
(* Both products work page by page and load the next page of K or V while  *)
(* they multiply this one, also the first page of the next call.  The two  *)
(* have L1 of their own and share L0A, L0B, L0C and their events.  The     *)
(* content of a buffer is a name, a stack and a page.                      *)
(*                                                                         *)
(* The vector core appears by one fact only: softmaxReady of a stack comes *)
(* after qkReady of the same stack (proved of FaiCrossCore).  One head is  *)
(* 128 columns wide, so that a page is one product (kLoop is 1).           *)
(***************************************************************************)
EXTENDS KvStacks

CONSTANT Pages     (* Pages[g]: pages of 128 KV rows in stack g            *)

UNIT_BLOCK_STACK_NUM == 4

ASSUME PagesAssumption ==
    /\ Pages \in [Stacks -> 1..UNIT_BLOCK_STACK_NUM]
    /\ \A g \in Stacks : ~IsLast(g) => Pages[g] = UNIT_BLOCK_STACK_NUM

Pipes == {"MTE2", "MTE1", "M", "FIX"}

(* Events by direction and id, and the flags that FIX raises.              *)
MTE2_MTE1(i) == <<"MTE2_MTE1", i>>
MTE1_MTE2(i) == <<"MTE1_MTE2", i>>
MTE1_M(i) == <<"MTE1_M", i>>
M_MTE1(i) == <<"M_MTE1", i>>
M_FIX(i) == <<"M_FIX", i>>
FIX_M(i) == <<"FIX_M", i>>
qkReady == <<"qkReady", 0>>
pvReady == <<"pvReady", 0>>

(* Raised at the start of the kernel, and waited for at its end.           *)
M_MTE1_Initial == {M_MTE1(i) : i \in 0..7}
FIX_M_Initial == {FIX_M(i) : i \in 0..1}
MTE1_MTE2_Initial == {MTE1_MTE2(i) : i \in 0..7}
Initial == M_MTE1_Initial \cup FIX_M_Initial \cup MTE1_MTE2_Initial

Events == Initial \cup {MTE2_MTE1(i) : i \in 0..4} \cup {MTE1_M(i) : i \in 0..1}
          \cup {M_FIX(i) : i \in 0..1} \cup {qkReady, pvReady}

(* L1: Q of the task, P of the stack, two pages each of K and V.  L0: two  *)
(* halves of A and B.  L0C counts as one buffer, since the second half of  *)
(* S starts where the height of the task puts it.                          *)
l1Q == <<"l1Q", 0>>
l1P == <<"l1P", 0>>
l1B(name, i) == <<name, i>>
l0A(i) == <<"l0A", i>>
l0B(i) == <<"l0B", i>>
l0C == <<"l0C", 0>>
L1 == {l1Q, l1P} \cup UNION {{l1B("K", i), l1B("V", i)} : i \in 0..1}
L0 == {l0C} \cup UNION {{l0A(i), l0B(i)} : i \in 0..1}
Buffers == L1 \cup L0

(* A content.  S and O are those of all the pages up to this one.          *)
Nothing == <<"none", 0, 0>>
Q(g) == <<"Q", First[g], 0>>
Page(name, g, i) == <<name, g, i>>

VARIABLES
    scalar,         (* scalar unit: stacks whose calls have been issued    *)
    atSoftmax,      (* it is inside P*V, waiting for softmaxReady          *)
    loaded,         (* loadQGM has been issued for these tasks (stacks)    *)
    queue, events,  (* as in HardwarePipes                                 *)
    buffer,
    returned        (* the final waits have been issued                    *)

INSTANCE HardwarePipes WITH content <- buffer

vars == <<scalar, atSoftmax, loaded, queue, events, buffer, returned>>

Init ==
    /\ scalar = Start
    /\ atSoftmax = FALSE
    /\ loaded = {}
    /\ queue = [p \in Pipes |-> <<>>]
    /\ events = [e \in Events |-> IF e \in Initial THEN 1 ELSE 0]
    /\ buffer = [b \in Buffers |-> Nothing]
    /\ returned = FALSE

-----------------------------------------------------------------------------
(* Pages are counted from 1 over all the stacks of a task, and the halves  *)
(* alternate with that count, from one call to the next.                   *)
nkblockIdx(g, i) == UNIT_BLOCK_STACK_NUM * (g - First[g]) + i + 1
PingPong(g, i) == nkblockIdx(g, i) % 2
IsFirstOfTask(g, i) == nkblockIdx(g, i) = 1
IsLastOfTaskFromOne(g, i) == IsLast(g) /\ i = Pages[g]    (* mutant: off by one *)
IsLastOfTask(g, i) == IsLast(g) /\ i = Pages[g] - 1
IsLastOfCall(g, i) == i = Pages[g] - 1

(* The page after this one in the task, perhaps of the next stack.         *)
NextPage(name, g, i) ==
    IF IsLastOfCall(g, i) THEN Page(name, g + 1, 0) ELSE Page(name, g, i + 1)

firstItrOfCall(i) == i = 0              (* mutant: L0C is awaited once     *)

(* S is copied out after every second page, O after the last.              *)
firstItr(i) == i % 2 = 0
endItr(g, i) == i % 2 = 1 \/ IsLastOfCall(g, i)

(* MTE2 loads the page itself when it is the first of the task, and always *)
(* the next one into the other half.                                       *)
EventOf(name, p) == IF name = "K" THEN p ELSE p + 2

LoadPage(name, p, page) ==
    << Instruction({MTE1_MTE2(EventOf(name, p))}, {}, {<<l1B(name, p), page>>},
                   {MTE2_MTE1(EventOf(name, p))}) >>

LoadOwnPage(name, g, i) ==
    If(IsFirstOfTask(g, i), LoadPage(name, PingPong(g, i), Page(name, g, i)))

LoadNextPage(name, g, i) ==
    If(~IsLastOfTask(g, i), LoadPage(name, 1 - PingPong(g, i), NextPage(name, g, i)))

QKLoad(g) == Each(Pages[g], LAMBDA i :
    LoadOwnPage("K", g, i) \o LoadNextPage("K", g, i))

(* Q stays in the first half of L0A for the whole call.                    *)
QKToL0(g) == Each(Pages[g], LAMBDA i :
    LET p == PingPong(g, i)
    IN  If(i = 0, << Instruction({M_MTE1(0), M_MTE1(1)}, {<<l1Q, Q(g)>>},
                                 {<<l0A(0), Q(g)>>}, {}) >>)
        \o << Instruction({MTE2_MTE1(p), M_MTE1(p + 2)}, {<<l1B("K", p), Page("K", g, i)>>},
                          {<<l0B(p), Page("K", g, i)>>}, {MTE1_MTE2(p), MTE1_M(p)}) >>)

QKMmad(g) == Each(Pages[g], LAMBDA i :
    LET p == PingPong(g, i)
    IN  << Instruction({MTE1_M(p)} \cup (IF firstItr(i) THEN FIX_M_Initial ELSE {}),
                       {<<l0A(0), Q(g)>>, <<l0B(p), Page("K", g, i)>>} \cup
                           (IF firstItr(i) THEN {} ELSE {<<l0C, Page("S", g, i - 1)>>}),
                       {<<l0C, Page("S", g, i)>>},
                       {M_MTE1(p + 2)} \cup
                           (IF IsLastOfCall(g, i) THEN {M_MTE1(0), M_MTE1(1)} ELSE {}) \cup
                           (IF endItr(g, i) THEN {M_FIX(p)} ELSE {})) >>)

QKFixFlagPerCopy(g) == Each(Pages[g], LAMBDA i :   (* mutant: flag too early *)
    If(endItr(g, i), << Instruction({M_FIX(PingPong(g, i))}, {<<l0C, Page("S", g, i)>>},
                                    {}, FIX_M_Initial \cup {qkReady}) >>))

QKFix(g) ==
    Each(Pages[g], LAMBDA i :
        If(endItr(g, i), << Instruction({M_FIX(PingPong(g, i))}, {<<l0C, Page("S", g, i)>>},
                                        {}, FIX_M_Initial) >>))
    \o << Instruction({}, {}, {}, {qkReady}) >>

(* The waits and sets around Q, K and V of the first page of P*V up to the *)
(* wait for softmaxReady; the rest comes behind it.                        *)
PVLoadV(g) == LoadOwnPage("V", g, 0)

PVVToL0(g, i) ==
    LET p == PingPong(g, i)
    IN  << Instruction({MTE2_MTE1(p + 2), M_MTE1(p + 2)}, {<<l1B("V", p), Page("V", g, i)>>},
                       {<<l0B(p), Page("V", g, i)>>}, {MTE1_MTE2(p + 2)}) >>

PVLoad(g) ==
    << Instruction({MTE1_MTE2(4), MTE1_MTE2(5)}, {}, {<<l1P, Page("P", g, 0)>>},
                   {MTE2_MTE1(4)}) >>
    \o Each(Pages[g], LAMBDA i : LoadNextPage("V", g, i))

PVToL0(g) ==
    << Instruction({MTE2_MTE1(4)}, {}, {}, {}) >>
    \o Each(Pages[g], LAMBDA i :
        LET p == PingPong(g, i)
        IN  If(i > 0, PVVToL0(g, i))
            \o << Instruction({M_MTE1(p)}, {<<l1P, Page("P", g, 0)>>},
                              {<<l0A(p), Page("P", g, i)>>},
                              {MTE1_M(p)} \cup (IF IsLastOfCall(g, i)
                                                THEN {MTE1_MTE2(4), MTE1_MTE2(5)} ELSE {})) >>)

PVMmad(g) == Each(Pages[g], LAMBDA i :
    LET p == PingPong(g, i)
    IN  << Instruction({MTE1_M(p)} \cup (IF i = 0 THEN FIX_M_Initial ELSE {}),
                       {<<l0A(p), Page("P", g, i)>>, <<l0B(p), Page("V", g, i)>>} \cup
                           (IF i = 0 THEN {} ELSE {<<l0C, Page("O", g, i - 1)>>}),
                       {<<l0C, Page("O", g, i)>>},
                       {M_MTE1(p), M_MTE1(p + 2)} \cup
                           (IF IsLastOfCall(g, i) THEN {M_FIX(0)} ELSE {})) >>)

PVFix(g) ==
    << Instruction({M_FIX(0)}, {<<l0C, Page("O", g, Pages[g] - 1)>>}, {}, FIX_M_Initial),
       Instruction({}, {}, {}, {pvReady}) >>

-----------------------------------------------------------------------------
(* The scalar unit.                                                        *)

(* loadQGM, before the first stack of a task.  It does not wait for the    *)
(* reads of the last task's Q.                                             *)
LoadQ ==
    LET g == scalar.one
    IN  /\ Stage1Due(scalar) /\ First[g] = g /\ g \notin loaded
        /\ loaded' = loaded \cup {g}
        /\ Issue([MTE2 |-> << Instruction({}, {}, {<<l1Q, Q(g)>>}, {MTE2_MTE1(3)}) >>,
                  MTE1 |-> << Instruction({MTE2_MTE1(3)}, {}, {}, {}) >>])
        /\ UNCHANGED <<scalar, atSoftmax, events, buffer, returned>>

IssueQK ==
    LET g == scalar.one
    IN  /\ Stage1Due(scalar) /\ First[g] \in loaded
        /\ Issue([MTE2 |-> QKLoad(g), MTE1 |-> QKToL0(g), M |-> QKMmad(g), FIX |-> QKFix(g)])
        /\ scalar' = [scalar EXCEPT !.one = @ + 1]
        /\ UNCHANGED <<atSoftmax, loaded, events, buffer, returned>>

IssuePVUpToSoftmax ==
    LET g == scalar.two
    IN  /\ Stage2Due(scalar) /\ ~atSoftmax
        /\ atSoftmax' = TRUE
        /\ Issue([MTE2 |-> PVLoadV(g), MTE1 |-> PVVToL0(g, 0)])
        /\ UNCHANGED <<scalar, loaded, events, buffer, returned>>

IssuePVUnawaited ==                     (* mutant: softmaxReady not awaited *)
    LET g == scalar.two
    IN  /\ atSoftmax
        /\ atSoftmax' = FALSE
        /\ Issue([MTE2 |-> PVLoad(g), MTE1 |-> PVToL0(g), M |-> PVMmad(g), FIX |-> PVFix(g)])
        /\ scalar' = [scalar EXCEPT !.two = @ + 1]
        /\ UNCHANGED <<loaded, events, buffer, returned>>

IssuePV ==
    LET g == scalar.two
    IN  /\ atSoftmax
        /\ events[qkReady] > g
        /\ atSoftmax' = FALSE
        /\ Issue([MTE2 |-> PVLoad(g), MTE1 |-> PVToL0(g), M |-> PVMmad(g), FIX |-> PVFix(g)])
        /\ scalar' = [scalar EXCEPT !.two = @ + 1]
        /\ UNCHANGED <<loaded, events, buffer, returned>>

(* The waits at the end of the kernel, each in the pipe that waits.        *)
WaitForAll(initial) == << Instruction(initial, {}, {}, {}) >>

IssueFinalWaits ==
    /\ Finished(scalar) /\ ~returned
    /\ returned' = TRUE
    /\ Issue([MTE1 |-> WaitForAll(M_MTE1_Initial), M |-> WaitForAll(FIX_M_Initial),
              MTE2 |-> WaitForAll(MTE1_MTE2_Initial)])
    /\ UNCHANGED <<scalar, atSoftmax, loaded, events, buffer>>

RunPipe(p) == Execute(p) /\ UNCHANGED <<scalar, atSoftmax, loaded, returned>>

AllRun == returned /\ Drained
Terminated == AllRun /\ UNCHANGED vars

Scalar == LoadQ \/ IssueQK \/ IssuePVUpToSoftmax \/ IssuePV \/ IssueFinalWaits

Next == Scalar \/ (\E p \in Pipes : RunPipe(p)) \/ Terminated

Spec == Init /\ [][Next]_vars

(* Hardware units go on when they can; the vector core answers qkReady     *)
(* (KernelReturnsDrained of FaiCrossCore).                                 *)
FairSpec == Spec /\ WF_vars(Scalar) /\ \A p \in Pipes : WF_vars(RunPipe(p))

-----------------------------------------------------------------------------
(* Correctness.                                                            *)

(* MTE1 finds in L1 the Q of its task, the P of its stack and its page of  *)
(* K or V: prefetching across calls, with the halves starting over in each *)
(* task, never loads over a page that has not gone to L0; and the next     *)
(* task's Q, which waits for no event, comes after the last read of this   *)
(* task's (block_mmad_fai_qk_normal.hpp:113-134, 257-285,                  *)
(* block_mmad_fai_pv_normal.hpp:214-249).                                  *)
L1Intact == Finds("MTE1", L1)

(* Each product multiplies the operands of its page into the accumulator   *)
(* of its page before, although Q*K^T and P*V share L0 and its events and  *)
(* keep Q in the half of L0A that P*V uses in turn; and FIX copies out     *)
(* what was accumulated (qk: 272-312, pv: 246-282).                        *)
L0Intact == Finds("M", L0) /\ Finds("FIX", L0)

(* What the vector core sees of the cube core is the order it counts on:   *)
(* qkReady and pvReady are raised for whole stacks, in the order of the    *)
(* schedule, until all are done (kernel_fa_fp32_stage1.cpp:320, 349, 391,      *)
(* 441).                                                                   *)
Seen == INSTANCE StackSchedule
            WITH walk <- [one |-> events[qkReady], two |-> events[pvReady]]
FlagsInOrder == Seen!FairSpec

(* The pipes never wait for each other for good, and the waits at the end  *)
(* of the kernel take exactly what is raised                               *)
(* (kernel_fa_fp32_stage1.cpp:144-161, 452-471).                           *)
EventsTaken == AllRun /\ \A e \in Events \ {qkReady, pvReady} : events[e] = 0
KernelTakesItsEvents == <>[]EventsTaken
=============================================================================
