---------------------------- MODULE FiaGrainFloor ----------------------------
(***************************************************************************)
(* fia_grain_floor, the copy of fa_fp32_stage1 whose stack depth is set by *)
(* B1_GRAIN_STACK_NUM_RT: the task loops of both kernels (FaiTaskLoop) and *)
(* what the calls do that does not follow the depth.  A block matmul takes *)
(* up to four pages and loads the page after the ones it takes, to which   *)
(* the next call comes only if the loops count in fours too.               *)
(*                                                                         *)
(* Of the cube core the pipes MTE2 and MTE1 are modelled, which load K and *)
(* V ahead.  M and FIX give back within a page what they take of a page,   *)
(* so that no depth can stop them: MTE1 raises the flags of FIX here, and  *)
(* the vector core is a unit that answers a flag in one step.  The module  *)
(* FaiCubePipes has all pipes, for a depth of four.                        *)
(***************************************************************************)
EXTENDS Integers, Sequences, FiniteSetsExt

CONSTANT Launches       (* [kv : KV lengths of a core's tasks, stackNumOverride] *)

ASSUME LaunchesAssumption == Launches \subseteq [kv : Seq(Nat), stackNumOverride : Nat]

B1_GRAIN_STACK_NUM == 4

(* The host puts the environment's value into the tiling unchecked; 0, or  *)
(* none, is for the default.                                               *)
depth(l) ==
    IF l.stackNumOverride # 0 THEN l.stackNumOverride ELSE B1_GRAIN_STACK_NUM

Pipes == {"MTE2", "MTE1"}

(* Events by direction and id: K in 0 and 1, V in 2 and 3, P in 4 and 5.   *)
(* The flags between the two cores.                                        *)
MTE2_MTE1(i) == <<"MTE2_MTE1", i>>
MTE1_MTE2(i) == <<"MTE1_MTE2", i>>
qkReady == <<"qkReady", 0>>
softmaxReady == <<"softmaxReady", 0>>
pvReady == <<"pvReady", 0>>
Initial == {MTE1_MTE2(i) : i \in 0..7}
Events == Initial \cup {MTE2_MTE1(i) : i \in 0..4} \cup {qkReady, softmaxReady, pvReady}

VARIABLES
    launch,
    task, loop, kvSIdx, stackSeqCount, stage2Next, issued, call,
    cube,           (* "loadQGM", "loops" or "ended"                       *)
    queue, events   (* as in HardwarePipes                                 *)

INSTANCE HardwarePipes WITH Buffers <- {}, content <- <<>>

Loops(l) == INSTANCE FaiTaskLoop WITH KvSeqlens <- l.kv, blockStackNum <- depth(l)

loopVars == <<task, loop, kvSIdx, stackSeqCount, stage2Next, issued, call>>
vars == <<launch, loopVars, cube, queue, events>>

Init ==
    /\ launch \in Launches
    /\ \E l \in Launches : launch = l /\ Loops(l)!Init
    /\ cube = "loadQGM"
    /\ queue = [p \in Pipes |-> <<>>]
    /\ events = [e \in Events |-> IF e \in Initial THEN 1 ELSE 0]

-----------------------------------------------------------------------------
(* The pages a block matmul takes from page n of nLoop on, and its         *)
(* instructions for one of them.  Pages count from 1 in nkblockIdx, whose  *)
(* parity picks the half of the buffer and the event (base 0 or 2).        *)
UNIT_BLOCK_STACK_NUM == 4
PagesTaken(n, nLoop) == Min({UNIT_BLOCK_STACK_NUM, nLoop - n})

Half(nk) == nk % 2

LoadPage(base, half) ==
    << Instruction({MTE1_MTE2(base + half)}, {}, {}, {MTE2_MTE1(base + half)}) >>

LoadOwn(base, nk) == If(nk = 1, LoadPage(base, Half(nk)))
LoadNextAlways(base, nk, nLoop) == LoadPage(base, 1 - Half(nk))   (* mutant: also behind the end *)
LoadNext(base, nk, nLoop) == If(nk # nLoop, LoadPage(base, 1 - Half(nk)))

PageToL0(base, nk, sets) ==
    << Instruction({MTE2_MTE1(base + Half(nk))}, {}, {},
                   {MTE1_MTE2(base + Half(nk))} \cup sets) >>

(* Q*K^T; the last page raises qkReady.                                    *)
QKCode(n, nLoop) ==
    LET taken == PagesTaken(n, nLoop)
    IN  [p \in Pipes |-> Each(taken, LAMBDA i :
            LET nk == n + i + 1
            IN  IF p = "MTE2" THEN LoadOwn(0, nk) \o LoadNext(0, nk, nLoop)
                ELSE PageToL0(0, nk, IF i = taken - 1 THEN {qkReady} ELSE {}))]

(* P*V: P comes between the first page of V and the next; the last page    *)
(* gives the buffer of P back and raises pvReady.                          *)
LoadP == << Instruction({MTE1_MTE2(4), MTE1_MTE2(5)}, {}, {}, {MTE2_MTE1(4)}) >>
AwaitP == << Instruction({MTE2_MTE1(4)}, {}, {}, {}) >>
PVDone == << Instruction({}, {}, {}, {MTE1_MTE2(4), MTE1_MTE2(5), pvReady}) >>

PVCode(n, nLoop) ==
    LET taken == PagesTaken(n, nLoop)
    IN  [p \in Pipes |-> Each(taken, LAMBDA i :
            LET nk == n + i + 1
            IN  IF p = "MTE2" THEN LoadOwn(2, nk) \o If(i = 0, LoadP) \o LoadNext(2, nk, nLoop)
                ELSE PageToL0(2, nk, {}) \o If(i = 0, AwaitP) \o If(i = taken - 1, PVDone))]

-----------------------------------------------------------------------------
(* The cube core.  Each task starts with loadQGM, which takes the event 3  *)
(* of V for Q, also when there is no KV.                                   *)
LoadQGM(l) ==
    /\ cube = "loadQGM" /\ Loops(l)!Running("aic")
    /\ Issue([p \in Pipes |->
                IF p = "MTE2" THEN << Instruction({}, {}, {}, {MTE2_MTE1(3)}) >>
                ELSE << Instruction({MTE2_MTE1(3)}, {}, {}, {}) >>])
    /\ cube' = "loops"
    /\ UNCHANGED <<launch, loopVars, events>>

CubeQK(l) ==
    /\ cube = "loops"
    /\ Loops(l)!MainStage1("aic")
    /\ Issue(QKCode(kvSIdx["aic"], Loops(l)!kvSLoopNum("aic")))
    /\ UNCHANGED <<launch, cube, events>>

(* The scalar unit waits for softmaxReady before the whole call, not after *)
(* the first page of V is on its way.                                      *)
CubePV(l) ==
    /\ cube = "loops"
    /\ events[softmaxReady] > 0
    /\ events' = [events EXCEPT ![softmaxReady] = @ - 1]
    /\ Loops(l)!MainStage2("aic") \/ Loops(l)!SecondaryStage2("aic")
    /\ Issue(PVCode(Loops(l)!delayedKvSIdx("aic"), Loops(l)!kvSLoopNum("aic")))
    /\ UNCHANGED <<launch, cube>>

CubeQuiet(l) ==
    /\ cube = "loops"
    /\ Loops(l)!Quiet("aic")
    /\ cube' = IF task' = task THEN "loops" ELSE "loadQGM"
    /\ UNCHANGED <<launch, queue, events>>

(* The waits for MTE1_MTE2 at the end of the kernel.                       *)
CubeEnd(l) ==
    /\ cube = "loadQGM" /\ ~Loops(l)!Running("aic")
    /\ Issue([p \in {"MTE2"} |-> << Instruction(Initial, {}, {}, {}) >>])
    /\ cube' = "ended"
    /\ UNCHANGED <<launch, loopVars, events>>

(* The vector core: online softmax and rescale.                            *)
VectorSoftmax(l) ==
    /\ events[qkReady] > 0
    /\ events' = [events EXCEPT ![qkReady] = @ - 1, ![softmaxReady] = @ + 1]
    /\ Loops(l)!MainStage1("aiv")
    /\ UNCHANGED <<launch, cube, queue>>

VectorRescale(l) ==
    /\ events[pvReady] > 0
    /\ events' = [events EXCEPT ![pvReady] = @ - 1]
    /\ Loops(l)!MainStage2("aiv") \/ Loops(l)!SecondaryStage2("aiv")
    /\ UNCHANGED <<launch, cube, queue>>

VectorQuiet(l) ==
    /\ Loops(l)!Quiet("aiv")
    /\ UNCHANGED <<launch, cube, queue, events>>

-----------------------------------------------------------------------------
RunPipe(p) == Execute(p) /\ UNCHANGED <<launch, loopVars, cube>>

Step(l) ==
    \/ LoadQGM(l) \/ CubeQK(l) \/ CubePV(l) \/ CubeQuiet(l) \/ CubeEnd(l)
    \/ VectorSoftmax(l) \/ VectorRescale(l) \/ VectorQuiet(l)

Next == (\E l \in Launches : launch = l /\ Step(l)) \/ (\E p \in Pipes : RunPipe(p))

Spec == Init /\ [][Next]_vars

(* Some unit goes on as long as one can: no step can be repeated for ever, *)
(* so that no more is needed.                                              *)
FairSpec == Spec /\ WF_vars(Next)

-----------------------------------------------------------------------------
(* Correctness.                                                            *)

(* The calls of both kernels come in the order of the one schedule of      *)
(* stacks, whatever the depth (kernel_fia_grain_floor.cpp:302-454,         *)
(* 611-737; kernel_fa_fp32_stage1.cpp:297-449, 604-730).                   *)
LoopsImplementSchedule ==
    [][\A l \in Launches : launch = l => Loops(l)!FollowsSchedule]_vars

(* A call gets the slot, first page, width and isFirst / isLast of its     *)
(* stack, whatever the depth (same lines).                                 *)
CallFitsItsStack == \A l \in Launches : launch = l => Loops(l)!CallFitsItsStack

(* The pages a matmul call works on add up to the width that it and the    *)
(* softmax are given for the depths that FaiTaskLoop says, so that no KV   *)
(* row is dropped or taken twice, and for no others: a depth of 8 that     *)
(* does not hang leaves pages out (block_mmad_fai_qk_normal.hpp:160-161;   *)
(* kernel_fia_grain_floor.cpp:109-115).                                    *)
PagesFillTile == \A l \in Launches : launch = l => Loops(l)!PagesFillTile

(* The page that a call has loaded ahead is the next the cube core comes   *)
(* to, or lies in the half that it will look in: with a depth of four, in  *)
(* a task that both take in one call, and with an even depth above four if *)
(* the last stack of the task has four pages at most.                      *)
TaskReturns(kvSeqlen, N) ==
    LET nLoop == (kvSeqlen + 127) \div 128
    IN  \/ N = UNIT_BLOCK_STACK_NUM
        \/ nLoop <= Min({N, UNIT_BLOCK_STACK_NUM})
        \/ N > UNIT_BLOCK_STACK_NUM /\ N % 2 = 0 /\ (nLoop - 1) % N < UNIT_BLOCK_STACK_NUM
DepthFits(l) == \A t \in DOMAIN l.kv : TaskReturns(l.kv[t], depth(l))

Returned(l) ==
    /\ cube = "ended" /\ ~Loops(l)!Running("aiv")
    /\ Drained /\ (\A e \in Events : events[e] = 0)
    /\ Loops(l)!AllIssued

(* Both kernels return, all their calls issued, every event and flag taken *)
(* (on which the next kernel counts), for the depths that fit; for all     *)
(* others the cube core hangs, which is the "1/2 -> hang, 8 -> hang" whose *)
(* cause kernel_fia_grain_floor.cpp:112-115 leaves open.                   *)
ReturnsIffDepthFits ==
    LET Fits == \E l \in Launches : launch = l /\ DepthFits(l)
        HasReturned == \E l \in Launches : launch = l /\ Returned(l)
    IN  (Fits => <>[]HasReturned) /\ [](HasReturned => Fits)
=============================================================================
