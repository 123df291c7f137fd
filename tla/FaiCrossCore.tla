----------------------------- MODULE FaiCrossCore -----------------------------
(***************************************************************************)
(* The cross-core protocol of fa_fp32_stage1 on one AI core: one cube core *)
(* (AIC) and its vector sub-blocks (AIV), which exchange the S, P and OTmp *)
(* matrices of a KV stack through a workspace of three slots and order     *)
(* their accesses with three hardware flags only:                          *)
(*                                                                         *)
(*    AIC  Q*K^T  --S------ qkReady ------->  AIV  online softmax          *)
(*    AIC  P*V    <--P----- softmaxReady ---  AIV                          *)
(*    AIC         --OTmp--- pvReady ------->  AIV  rescale of O            *)
(*                                                                         *)
(* Nothing tells a producer that a slot has been read.  That a slot is not *)
(* overwritten too early follows from the order of the calls, the in-order *)
(* pipes and the flags of the OTHER matrices; this module makes those the  *)
(* only ordering there is.                                                 *)
(*                                                                         *)
(* The scalar unit of a core issues its calls in program order and runs    *)
(* ahead of the pipes, which execute them in order but at their own pace;  *)
(* a flag is raised by the pipe that wrote the data and lowered by the     *)
(* scalar unit, which blocks on it.  Every unit walks the stacks in the    *)
(* order of KvStacks:                                                      *)
(*    cube      AIC scalar unit (calls of blockMmadQK / blockMmadPV)       *)
(*    loaded    AIC MTE2 pipe: stacks whose P has been copied to L1        *)
(*    fix       AIC FIX pipe (S and OTmp to the workspace, then the flag)  *)
(*    scalar    AIV scalar unit (softmax / rescale calls), per sub-block   *)
(*    mte2      AIV MTE2 and V pipes (S and OTmp to UB), per sub-block     *)
(*    mte3      AIV MTE3 pipe (P to the workspace, O and lse out)          *)
(* A matrix is represented by the number of the stack it was computed from *)
(* (NoStack: the workspace is not initialised), and a step that moves a    *)
(* matrix is atomic at any moment the pipe could be moving it: a transfer  *)
(* torn by another core shows as that core's step placed before it.        *)
(***************************************************************************)
EXTENDS KvStacks, Sequences, FiniteSets

CONSTANTS SubBlocks,  (* the vector sub-blocks of the core                 *)
          NoStack     (* content of a workspace slot before its first use  *)

ASSUME NoStackAssumption == NoStack \notin Stacks

VARIABLES
    cube, loaded, fix,                  (* AIC: scalar unit, MTE2, FIX     *)
    scalar, mte2, mte3,                 (* AIV: scalar unit, MTE2, MTE3    *)
    qkReady, softmaxReady, pvReady,     (* flag counters, per sub-block    *)
    gS, gP, gOTmp,                      (* workspace slots                 *)
    sRead, pRead, oRead                 (* what the calls of a stack read  *)

aic == <<cube, loaded, fix>>
aiv == <<scalar, mte2, mte3>>
flags == <<qkReady, softmaxReady, pvReady>>
workspace == <<gS, gP, gOTmp>>
reads == <<sRead, pRead, oRead>>
vars == <<aic, aiv, flags, workspace, reads>>

SlotIds == 0..Slots-1
Content == Stacks \cup {NoStack}

TypeOK ==
    /\ cube \in Walker /\ loaded \in 0..NumStacks /\ fix \in Walker
    /\ scalar \in [SubBlocks -> Walker]
    /\ mte2 \in [SubBlocks -> Walker]
    /\ mte3 \in [SubBlocks -> Walker]
    /\ qkReady \in [SubBlocks -> Nat]
    /\ softmaxReady \in [SubBlocks -> Nat]
    /\ pvReady \in [SubBlocks -> Nat]
    /\ gS \in [SlotIds -> Content]
    /\ gP \in [SubBlocks -> [SlotIds -> Content]]
    /\ gOTmp \in [SubBlocks -> [SlotIds -> Content]]
    /\ sRead \in [SubBlocks -> [Stacks -> Content]]
    /\ pRead \in [SubBlocks -> [Stacks -> Content]]
    /\ oRead \in [SubBlocks -> [Stacks -> Content]]

PerSubBlock(x) == [v \in SubBlocks |-> x]
EmptySlots == [s \in SlotIds |-> NoStack]
NothingRead == [g \in Stacks |-> NoStack]

(* The workspace is at::empty: no slot holds a stack.                      *)
Init ==
    /\ cube = Start /\ loaded = 0 /\ fix = Start
    /\ scalar = PerSubBlock(Start)
    /\ mte2 = PerSubBlock(Start)
    /\ mte3 = PerSubBlock(Start)
    /\ qkReady = PerSubBlock(0)
    /\ softmaxReady = PerSubBlock(0)
    /\ pvReady = PerSubBlock(0)
    /\ gS = EmptySlots
    /\ gP = PerSubBlock(EmptySlots)
    /\ gOTmp = PerSubBlock(EmptySlots)
    /\ sRead = PerSubBlock(NothingRead)
    /\ pRead = PerSubBlock(NothingRead)
    /\ oRead = PerSubBlock(NothingRead)

(* A cube-to-vector flag is raised for every sub-block at once, a vector-  *)
(* to-cube flag is lowered when every sub-block has raised it (mode 0x2).  *)
RaiseAll(flag) == [v \in SubBlocks |-> flag[v] + 1]
LowerAll(flag) == [v \in SubBlocks |-> flag[v] - 1]
Raise(flag, v) == [flag EXCEPT ![v] = @ + 1]
Lower(flag, v) == [flag EXCEPT ![v] = @ - 1]

-----------------------------------------------------------------------------
(* AIC scalar unit.  blockMmadQK waits for no other core; blockMmadPV      *)
(* waits for softmaxReady before it loads P.                               *)
CubeQK ==
    /\ Stage1Due(cube)
    /\ cube' = [cube EXCEPT !.one = @ + 1]
    /\ UNCHANGED <<loaded, fix, aiv, flags, workspace, reads>>

CubePVWithoutWait ==                    (* mutant: no wait before P's load *)
    /\ Stage2Due(cube)
    /\ cube' = [cube EXCEPT !.two = @ + 1]
    /\ UNCHANGED <<loaded, fix, aiv, flags, workspace, reads>>

CubePV ==
    /\ Stage2Due(cube)
    /\ \A v \in SubBlocks : softmaxReady[v] > 0
    /\ softmaxReady' = LowerAll(softmaxReady)
    /\ cube' = [cube EXCEPT !.two = @ + 1]
    /\ UNCHANGED <<loaded, fix, aiv, qkReady, pvReady, workspace, reads>>

(* AIC MTE2 pipe: the rows of P written by all the sub-blocks go to L1.    *)
LoadP ==
    /\ loaded < cube.two
    /\ pRead' = [v \in SubBlocks |->
                    [pRead[v] EXCEPT ![loaded] = gP[v][Slot(loaded)]]]
    /\ loaded' = loaded + 1
    /\ UNCHANGED <<cube, fix, aiv, flags, workspace, sRead, oRead>>

(* AIC FIX pipe: S of a stack to the workspace, then qkReady.              *)
FixS ==
    /\ Stage1Due(fix)
    /\ fix.one < cube.one
    /\ gS' = [gS EXCEPT ![Slot(fix.one)] = fix.one]
    /\ qkReady' = RaiseAll(qkReady)
    /\ fix' = [fix EXCEPT !.one = @ + 1]
    /\ UNCHANGED <<cube, loaded, aiv, softmaxReady, pvReady, gP, gOTmp, reads>>

FixOSilent ==                           (* mutant: pvReady is not raised   *)
    /\ Stage2Due(fix)
    /\ fix.two < loaded
    /\ gOTmp' = [v \in SubBlocks |->
                    [gOTmp[v] EXCEPT ![Slot(fix.two)] = pRead[v][fix.two]]]
    /\ fix' = [fix EXCEPT !.two = @ + 1]
    /\ UNCHANGED <<cube, loaded, aiv, flags, gS, gP, reads>>

FixOBeforeLoad ==                       (* mutant: P*V before P is loaded  *)
    /\ Stage2Due(fix)
    /\ fix.two < cube.two
    /\ gOTmp' = [v \in SubBlocks |->
                    [gOTmp[v] EXCEPT ![Slot(fix.two)] = pRead[v][fix.two]]]
    /\ pvReady' = RaiseAll(pvReady)
    /\ fix' = [fix EXCEPT !.two = @ + 1]
    /\ UNCHANGED <<cube, loaded, aiv, qkReady, softmaxReady, gS, gP, reads>>

(* AIC FIX pipe: P*V of a stack to the workspace, then pvReady.            *)
FixO ==
    /\ Stage2Due(fix)
    /\ fix.two < loaded
    /\ gOTmp' = [v \in SubBlocks |->
                    [gOTmp[v] EXCEPT ![Slot(fix.two)] = pRead[v][fix.two]]]
    /\ pvReady' = RaiseAll(pvReady)
    /\ fix' = [fix EXCEPT !.two = @ + 1]
    /\ UNCHANGED <<cube, loaded, aiv, qkReady, softmaxReady, gS, gP, reads>>

-----------------------------------------------------------------------------
(* AIV scalar unit: wait for the flag, then issue the epilogue's calls.    *)
IssueSoftmax(v) ==
    /\ Stage1Due(scalar[v])
    /\ qkReady[v] > 0
    /\ qkReady' = Lower(qkReady, v)
    /\ scalar' = [scalar EXCEPT ![v].one = @ + 1]
    /\ UNCHANGED <<aic, mte2, mte3, softmaxReady, pvReady, workspace, reads>>

IssueRescaleUnchecked(v) ==             (* mutant: a wait that never blocks *)
    /\ Stage2Due(scalar[v])
    /\ pvReady' = Lower(pvReady, v)
    /\ scalar' = [scalar EXCEPT ![v].two = @ + 1]
    /\ UNCHANGED <<aic, mte2, mte3, qkReady, softmaxReady, workspace, reads>>

IssueRescale(v) ==
    /\ Stage2Due(scalar[v])
    /\ pvReady[v] > 0
    /\ pvReady' = Lower(pvReady, v)
    /\ scalar' = [scalar EXCEPT ![v].two = @ + 1]
    /\ UNCHANGED <<aic, mte2, mte3, qkReady, softmaxReady, workspace, reads>>

(* AIV MTE2 pipe: the sub-block's rows of S to UB, for the softmax.        *)
CopyS(v) ==
    /\ Stage1Due(mte2[v])
    /\ mte2[v].one < scalar[v].one
    /\ sRead' = [sRead EXCEPT ![v][mte2[v].one] = gS[Slot(mte2[v].one)]]
    /\ mte2' = [mte2 EXCEPT ![v].one = @ + 1]
    /\ UNCHANGED <<aic, scalar, mte3, flags, workspace, pRead, oRead>>

(* AIV MTE2 pipe: the sub-block's rows of OTmp to UB, folded into O.       *)
CopyOTmp(v) ==
    /\ Stage2Due(mte2[v])
    /\ mte2[v].two < scalar[v].two
    /\ oRead' = [oRead EXCEPT ![v][mte2[v].two] = gOTmp[v][Slot(mte2[v].two)]]
    /\ mte2' = [mte2 EXCEPT ![v].two = @ + 1]
    /\ UNCHANGED <<aic, scalar, mte3, flags, workspace, sRead, pRead>>

(* AIV MTE3 pipe: P of the stack to the workspace, then softmaxReady.      *)
WriteP(v) ==
    /\ Stage1Due(mte3[v])
    /\ mte3[v].one < mte2[v].one
    /\ gP' = [gP EXCEPT ![v][Slot(mte3[v].one)] = sRead[v][mte3[v].one]]
    /\ softmaxReady' = Raise(softmaxReady, v)
    /\ mte3' = [mte3 EXCEPT ![v].one = @ + 1]
    /\ UNCHANGED <<aic, scalar, mte2, qkReady, pvReady, gS, gOTmp, reads>>

(* AIV V and MTE3 pipes: the fold of the stack is done, and at the last    *)
(* stack of a task O is out (see `published').                             *)
WriteO(v) ==
    /\ Stage2Due(mte3[v])
    /\ mte3[v].two < mte2[v].two
    /\ mte3' = [mte3 EXCEPT ![v].two = @ + 1]
    /\ UNCHANGED <<aic, scalar, mte2, flags, workspace, reads>>

-----------------------------------------------------------------------------
AllDone ==
    /\ Finished(cube) /\ loaded = NumStacks /\ Finished(fix)
    /\ \A v \in SubBlocks :
          Finished(scalar[v]) /\ Finished(mte2[v]) /\ Finished(mte3[v])

Terminated == AllDone /\ UNCHANGED vars

Cube == CubeQK \/ CubePV
Fix == FixS \/ FixO
Scalar(v) == IssueSoftmax(v) \/ IssueRescale(v)
Mte2(v) == CopyS(v) \/ CopyOTmp(v)
Mte3(v) == WriteP(v) \/ WriteO(v)

Next ==
    \/ Cube \/ LoadP \/ Fix
    \/ \E v \in SubBlocks : Scalar(v) \/ Mte2(v) \/ Mte3(v)
    \/ Terminated

Spec == Init /\ [][Next]_vars

(* Every unit is a piece of hardware that goes on when it can.             *)
Fairness ==
    /\ WF_vars(Cube) /\ WF_vars(LoadP) /\ WF_vars(Fix)
    /\ \A v \in SubBlocks :
          WF_vars(Scalar(v)) /\ WF_vars(Mte2(v)) /\ WF_vars(Mte3(v))

FairSpec == Spec /\ Fairness

-----------------------------------------------------------------------------
(* Correctness.                                                            *)

(* No slot is overwritten before everyone has read it: from the moment a   *)
(* stack's S, P or OTmp is in its slot until each reader has taken it, the *)
(* slot holds that stack.  (S: kernel_fa_fp32_stage1.cpp:304-320 against   *)
(* 615-626; P: 626-627 against 333-349; OTmp: 349 against 642-655.)        *)
UnreadSlotsIntact ==
    \A v \in SubBlocks :
        /\ \A g \in Stacks : mte2[v].one <= g /\ g < fix.one => gS[Slot(g)] = g
        /\ \A g \in Stacks : loaded <= g /\ g < mte3[v].one => gP[v][Slot(g)] = g
        /\ \A g \in Stacks : mte2[v].two <= g /\ g < fix.two => gOTmp[v][Slot(g)] = g

(* What is folded into O for a stack is that stack's P*V, computed from    *)
(* that stack's P, computed from that stack's S (the workspace offsets of  *)
(* the two kernels name the same slot at each hand-over).                  *)
RescaleFoldsItsStack ==
    \A v \in SubBlocks, g \in Stacks :
        g < mte2[v].two => oRead[v][g] = g

(* When a rescale call may start to load (first stack: into goUb itself),  *)
(* O and lse of all the earlier tasks are out of goUb and of the lse       *)
(* staging.  No event of the vector core orders this: V_MTE2(EVENT_ID3) is *)
(* set before O is divided and copied                                      *)
(* (block_epilogue_rescale_o_no_split_row.hpp:164, 205-210, 257-269); it   *)
(* holds because pvReady of a stack implies that its P has left through    *)
(* the same MTE3 pipe.                                                     *)
OutputOutBeforeReuse ==
    \A v \in SubBlocks, g \in Stacks :
        mte2[v].two <= g /\ g < scalar[v].two => First[g] <= mte3[v].two

(* A flag is never raised more often ahead of its waits than there are     *)
(* slots, far below the 15 the hardware counters hold                      *)
(* (cross_core_sync.hpp: MAX_REVERSE_DEPTH).                               *)
FlagDepthBounded ==
    \A v \in SubBlocks :
        /\ qkReady[v] <= Slots
        /\ softmaxReady[v] <= Slots
        /\ pvReady[v] <= Slots

(* The two cores never wait for each other for good, and when the kernel   *)
(* returns it leaves no flag raised for the next launch.                   *)
Drained == AllDone /\ \A v \in SubBlocks :
    qkReady[v] = 0 /\ softmaxReady[v] = 0 /\ pvReady[v] = 0
KernelReturnsDrained == <>[]Drained

(* The kernel implements the fold of KvFold: each sub-block publishes, for *)
(* each task, O folded from the task's stacks in order, and it gets there  *)
(* (kernel_fa_fp32_stage1.cpp:629-655 and 705-727, isFirst / isLast).      *)
Gathered(v, g) == [i \in 1..(g - First[g] + 1) |-> oRead[v][First[g] + i - 1]]

Folded == [v \in SubBlocks |-> mte3[v].two]
Held == [v \in SubBlocks |->
    IF mte3[v].two = 0 THEN <<>> ELSE Gathered(v, mte3[v].two - 1)]
Published == [v \in SubBlocks |-> [g \in Stacks |->
    IF g < mte3[v].two /\ IsLast(g) THEN Gathered(v, g) ELSE <<>>]]

KF == INSTANCE KvFold WITH folded <- Folded, acc <- Held, out <- Published

ImplementsKvFold == KF!FairSpec
=============================================================================
