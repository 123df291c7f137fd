----------------------------- MODULE FaiTaskLoop -----------------------------
(***************************************************************************)
(* The task loops of the two kernels of fa_fp32_stage1 on one core, as     *)
(* they are written: kvSIdx counts 128-row pages, stackSeqCount counts     *)
(* stacks, a main loop issues stage 1 of a stack and stage 2 of the stack  *)
(* two before it, a secondary loop drains the last two.  The kernels never *)
(* exchange kvSIdx or stackSeqCount: that their calls pair up, on the same *)
(* slot, the same pages and the same width, is arithmetic in two places.   *)
(*                                                                         *)
(* maskType is 0 (the host fixes it, fa_fp32_stage1.cpp op_host:265), so   *)
(* noMaskKvS = noSkipKvS = kvSeqlen and the secondary loop starts past the *)
(* last page: its stage 1 branch needs kvSIdx < kvSLoopNumTotal.           *)
(*                                                                         *)
(* A call is recorded with what it is given; FaiCrossCore models what the  *)
(* calls do.  A kernel with a zero-length KV issues none.                  *)
(*                                                                         *)
(* There blockStackNum is the pages that a block matmul takes in one call. *)
(* Its measurement copy fia_grain_floor has the same loops and takes it    *)
(* from the environment: FiaGrainFloor runs them for both.                 *)
(***************************************************************************)
EXTENDS Integers, Sequences, FiniteSetsExt, RunningTotals

CONSTANTS
    KvSeqlens,          (* KV length of each task of the core, in order    *)
    blockStackNum       (* pages of a stack, as the loops count            *)

Kernels == {"aic", "aiv"}

pagedBlockSize == 128
UNIT_BLOCK_STACK_NUM == 4   (* pages of one call of BlockMmadQK, ...PV     *)
preLaunch == 2

CeilDiv(a, b) == (a + b - 1) \div b
AlignUp(a, b) == IF b = 0 THEN 0 ELSE ((a + b - 1) \div b) * b

VARIABLES
    task,           (* per kernel: index of the current task               *)
    loop,           (* "main" or "secondary"                               *)
    kvSIdx,
    stackSeqCount,
    stage2Next,     (* inside a main iteration, between its two calls      *)
    issued,         (* calls issued so far, by stage, over all tasks       *)
    call            (* arguments of the last call                          *)

vars == <<task, loop, kvSIdx, stackSeqCount, stage2Next, issued, call>>

NumTasks == Len(KvSeqlens)
Running(k) == task[k] <= NumTasks

kvSeqlen(k) == KvSeqlens[task[k]]
kvSLoopNum(k) == CeilDiv(kvSeqlen(k), pagedBlockSize)
totalStackSeqNum(k) == CeilDiv(kvSeqlen(k), blockStackNum * pagedBlockSize)
preLaunchStackNum == preLaunch * blockStackNum

NoCall == [stage |-> 0]

Init ==
    /\ task = [k \in Kernels |-> 1]
    /\ loop = [k \in Kernels |-> "main"]
    /\ kvSIdx = [k \in Kernels |-> 0]
    /\ stackSeqCount = [k \in Kernels |-> 0]
    /\ stage2Next = [k \in Kernels |-> FALSE]
    /\ issued = [k \in Kernels |-> [one |-> 0, two |-> 0]]
    /\ call = [k \in Kernels |-> NoCall]

-----------------------------------------------------------------------------
(* The KV rows a block matmul call takes of a page, and of the pages that  *)
(* it works through from page n on, whatever the loops count.              *)
nSplitSizeNoTail(k, p) == pagedBlockSize    (* mutant: the last page is full *)

nSplitSize(k, p) ==
    IF p = kvSLoopNum(k) - 1
    THEN kvSeqlen(k) - p * pagedBlockSize
    ELSE pagedBlockSize

MatmulRows(k, n) ==
    LET rows == [i \in 1..UNIT_BLOCK_STACK_NUM |->
                    IF n + i - 1 < kvSLoopNum(k) THEN nSplitSize(k, n + i - 1) ELSE 0]
    IN  RunningTotal(rows)[UNIT_BLOCK_STACK_NUM]

(* stackSeqTile, as every site but one computes it: the rest of the KV     *)
(* sequence from page n on if the stack is the last, else a whole stack.   *)
stackSeqTile(k, n, from) ==
    IF n + blockStackNum > kvSLoopNum(k) - 1
    THEN kvSeqlen(k) - from * pagedBlockSize
    ELSE pagedBlockSize * blockStackNum

Stage1Call(k) ==
    [stage |-> 1,
     page  |-> kvSIdx[k],
     slot  |-> stackSeqCount[k] % (preLaunch + 1),
     tile  |-> stackSeqTile(k, kvSIdx[k], kvSIdx[k]),
     rows  |-> MatmulRows(k, kvSIdx[k]),
     first |-> stackSeqCount[k] = 0,
     last  |-> FALSE]

(* The main loop of the AIV kernel subtracts kvSIdx, not delayedKvSIdx.    *)
delayedKvSIdx(k) == kvSIdx[k] - preLaunchStackNum
Stage2Call(k) ==
    LET delayed == delayedKvSIdx(k)
        from == IF loop[k] = "main" /\ k = "aiv" THEN kvSIdx[k] ELSE delayed
    IN  [stage |-> 2,
         page  |-> delayed,
         slot  |-> (stackSeqCount[k] - preLaunch) % (preLaunch + 1),
         tile  |-> stackSeqTile(k, delayed, from),
         rows  |-> MatmulRows(k, delayed),
         first |-> stackSeqCount[k] - preLaunch = 0,
         last  |-> /\ loop[k] = "secondary"
                   /\ stackSeqCount[k] - preLaunch = totalStackSeqNum(k) - 1]

(* kvSIdx += blockStackNum; stackSeqCount++.                               *)
NextIteration(k) ==
    /\ kvSIdx' = [kvSIdx EXCEPT ![k] = @ + blockStackNum]
    /\ stackSeqCount' = [stackSeqCount EXCEPT ![k] = @ + 1]

-----------------------------------------------------------------------------
(* Main loop, for (kvSIdx = 0; kvSIdx < kvSLoopNumNoMask; ...): QK /       *)
(* softmax of this stack ...                                               *)
MainStage1(k) ==
    /\ Running(k) /\ loop[k] = "main" /\ ~stage2Next[k]
    /\ kvSIdx[k] < kvSLoopNum(k)
    /\ call' = [call EXCEPT ![k] = Stage1Call(k)]
    /\ issued' = [issued EXCEPT ![k].one = @ + 1]
    /\ IF kvSIdx[k] >= preLaunch * blockStackNum
       THEN /\ stage2Next' = [stage2Next EXCEPT ![k] = TRUE]
            /\ UNCHANGED <<kvSIdx, stackSeqCount>>
       ELSE NextIteration(k) /\ UNCHANGED stage2Next
    /\ UNCHANGED <<task, loop>>

(* ... and PV / rescale of the stack preLaunch before it.                  *)
MainStage2(k) ==
    /\ stage2Next[k]
    /\ call' = [call EXCEPT ![k] = Stage2Call(k)]
    /\ issued' = [issued EXCEPT ![k].two = @ + 1]
    /\ stage2Next' = [stage2Next EXCEPT ![k] = FALSE]
    /\ NextIteration(k)
    /\ UNCHANGED <<task, loop>>

EnterSecondaryUnaligned(k) ==           (* mutant: counts on from the end  *)
    /\ Running(k) /\ loop[k] = "main" /\ ~stage2Next[k]
    /\ kvSIdx[k] >= kvSLoopNum(k)
    /\ loop' = [loop EXCEPT ![k] = "secondary"]
    /\ kvSIdx' = [kvSIdx EXCEPT ![k] = kvSLoopNum(k)]
    /\ UNCHANGED <<task, stackSeqCount, stage2Next, issued, call>>

(* maskedStartIdx: the secondary loop counts on from the aligned end.      *)
EnterSecondary(k) ==
    /\ Running(k) /\ loop[k] = "main" /\ ~stage2Next[k]
    /\ kvSIdx[k] >= kvSLoopNum(k)
    /\ loop' = [loop EXCEPT ![k] = "secondary"]
    /\ kvSIdx' = [kvSIdx EXCEPT ![k] = AlignUp(kvSLoopNum(k), blockStackNum)]
    /\ UNCHANGED <<task, stackSeqCount, stage2Next, issued, call>>

SecondaryStage2(k) ==
    /\ Running(k) /\ loop[k] = "secondary"
    /\ kvSIdx[k] < kvSLoopNum(k) + preLaunchStackNum
    /\ kvSIdx[k] >= preLaunchStackNum
    /\ call' = [call EXCEPT ![k] = Stage2Call(k)]
    /\ issued' = [issued EXCEPT ![k].two = @ + 1]
    /\ NextIteration(k)
    /\ UNCHANGED <<task, loop, stage2Next>>

(* A task of fewer than two stacks has nothing to drain yet.               *)
SecondaryIdle(k) ==
    /\ Running(k) /\ loop[k] = "secondary"
    /\ kvSIdx[k] < kvSLoopNum(k) + preLaunchStackNum
    /\ kvSIdx[k] < preLaunchStackNum
    /\ NextIteration(k)
    /\ UNCHANGED <<task, loop, stage2Next, issued, call>>

NextTaskKeepsCount(k) ==                (* mutant: stackSeqCount lives on  *)
    /\ Running(k) /\ loop[k] = "secondary"
    /\ kvSIdx[k] >= kvSLoopNum(k) + preLaunchStackNum
    /\ task' = [task EXCEPT ![k] = @ + 1]
    /\ loop' = [loop EXCEPT ![k] = "main"]
    /\ kvSIdx' = [kvSIdx EXCEPT ![k] = 0]
    /\ UNCHANGED <<stackSeqCount, stage2Next, issued, call>>

(* The locals of the loop body start over with the next task.              *)
NextTask(k) ==
    /\ Running(k) /\ loop[k] = "secondary"
    /\ kvSIdx[k] >= kvSLoopNum(k) + preLaunchStackNum
    /\ task' = [task EXCEPT ![k] = @ + 1]
    /\ loop' = [loop EXCEPT ![k] = "main"]
    /\ kvSIdx' = [kvSIdx EXCEPT ![k] = 0]
    /\ stackSeqCount' = [stackSeqCount EXCEPT ![k] = 0]
    /\ UNCHANGED <<stage2Next, issued, call>>

(* The steps between the calls.                                            *)
Quiet(k) == EnterSecondary(k) \/ SecondaryIdle(k) \/ NextTask(k)

-----------------------------------------------------------------------------
(* The stacks of all the tasks, numbered as in KvStacks.                   *)

StacksOf(t) == CeilDiv(KvSeqlens[t], blockStackNum * pagedBlockSize)

AllStacks == [t \in 1..NumTasks |-> StacksOf(t)]
StacksBefore(t) == RunningTotal(AllStacks)[t - 1]

TotalStacks == StacksBefore(NumTasks + 1)

TaskOf(g) ==
    CHOOSE t \in 1..NumTasks : StacksBefore(t) <= g /\ g < StacksBefore(t + 1)
FirstStack == [g \in 0..(TotalStacks - 1) |-> StacksBefore(TaskOf(g))]

AIC == INSTANCE StackSchedule WITH
    NumStacks <- TotalStacks, First <- FirstStack, walk <- issued["aic"]
AIV == INSTANCE StackSchedule WITH
    NumStacks <- TotalStacks, First <- FirstStack, walk <- issued["aiv"]

-----------------------------------------------------------------------------
(* Correctness.                                                            *)

(* Both kernels issue their calls in the order of StackSchedule, on which  *)
(* the flags and the workspace slots rely, and in the end all of them      *)
(* (kernel_fa_fp32_stage1.cpp:297-449 and 604-730).                        *)
FollowsSchedule ==
    /\ UNCHANGED issued["aic"] \/ AIC!Next
    /\ UNCHANGED issued["aiv"] \/ AIV!Next
AllIssued == \A k \in Kernels : issued[k] = [one |-> TotalStacks, two |-> TotalStacks]

(* The stack a call is about, from its place in the schedule.              *)
CalledStack(k) == IF call[k].stage = 1 THEN issued[k].one - 1 ELSE issued[k].two - 1

(* Whatever the loop counters, a call for a stack gets that stack's slot,  *)
(* its first page, the width its pages add up to (so the width softmax is  *)
(* given is the width QK and PV work on), and, in the vector kernel, the   *)
(* right isFirst / isLast.  (First page, width and slot: 299-306, 324-335, *)
(* 606-616, 630-640, 675-697.)                                             *)
CallFitsItsStack ==
    \A k \in Kernels : call[k] # NoCall =>
        LET g == CalledStack(k)
            kv == KvSeqlens[TaskOf(g)]
            row == (g - FirstStack[g]) * blockStackNum * pagedBlockSize
        IN  /\ call[k].slot = AIC!Slot(g)
            /\ call[k].page * pagedBlockSize = row
            /\ call[k].tile = IF AIC!IsLast(g) THEN kv - row
                                               ELSE blockStackNum * pagedBlockSize
            /\ call[k].first = (FirstStack[g] = g)
            /\ call[k].stage = 2 => call[k].last = AIC!IsLast(g)

(* The pages a matmul call loops over add up to the width it is given, so  *)
(* no KV row is left out of S or P*V and none is taken twice, if the loops *)
(* count in the matmul's stacks, or else if what is left of the task fits  *)
(* both; and only then (block_mmad_fai_qk_normal.hpp:137-154, 187-232; pv: *)
(* 117-133, 168-188).                                                      *)
PagesFillTile ==
    call["aic"] # NoCall =>
        LET g == CalledStack("aic")
            left == CeilDiv(KvSeqlens[TaskOf(g)], pagedBlockSize) - call["aic"].page
        IN  call["aic"].rows = call["aic"].tile
            <=> \/ blockStackNum = UNIT_BLOCK_STACK_NUM
                \/ left <= Min({blockStackNum, UNIT_BLOCK_STACK_NUM})
=============================================================================
