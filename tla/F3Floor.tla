------------------------------- MODULE F3Floor -------------------------------
(***************************************************************************)
(* f3_gateup_epilogue: one core of the kernel, that is its cube core (AIC) *)
(* and its two vector cores (AIV, sub-blocks 0 and 1).  The cube core      *)
(* multiplies tile after tile and stores the gate and the up half of each  *)
(* in the workspace C; the vector cores take their half of the rows of a   *)
(* tile from C and store them in D.  A flag announces a stored tile; after *)
(* REVERSE_DEPTH flags the cube core waits for a flag back from both       *)
(* vector cores, since a flag can be raised only so often unawaited.       *)
(*                                                                         *)
(*   mode 0  D = gate (mode 1 too: SwiGLU is a hook)    mode 4  D = up      *)
(*   mode 2  flags only in AIV     mode 3  flags only in AIC               *)
(*   mode 5  as 0, reads gate only     mode 7  stores nothing              *)
(*   mode 8  reads nothing                                                 *)
(*                                                                         *)
(* Rows are counted in 16s and columns in N tiles of 128, of which the     *)
(* host makes M and I multiples.  A content says of which half, column and *)
(* rows it is.  Of the block matmul only the stores (FIX) are there.       *)
(***************************************************************************)
EXTENDS Integers, Sequences, FiniteSets

CONSTANTS
    Calls,              (* [m, nHalf, mode, inPlace, aiCoreNum]            *)
    REVERSE_DEPTH       (* MAX_REVERSE_DEPTH                               *)

Modes == (0..5) \cup {7, 8}

ASSUME ParametersAssumption ==
    /\ Calls \subseteq [m : Nat \ {0}, nHalf : Nat \ {0}, mode : Modes, inPlace : BOOLEAN,
                        aiCoreNum : Nat \ {0}]
    /\ REVERSE_DEPTH \in Nat \ {0}

GEMM_ONLY == 2
EPILOGUE_ONLY == 3
FLOOR_UP == 4
FLOOR_GATE_ONLY == 5
FLOOR_READ_ONLY == 7
FLOOR_WRITE_ONLY == 8

L1TileShapeM == 16      (* 256 rows                                        *)
SUB_ROWS == 8
Subs == 0..1

FIX == <<"FIX", 0>>
MTE2(s) == <<"MTE2", s>>
V(s) == <<"V", s>>
MTE3(s) == <<"MTE3", s>>
Pipes == {FIX} \cup UNION {{MTE2(s), V(s), MTE3(s)} : s \in Subs}

(* The flags between the cores are events too, one for each sub-block.     *)
MTE3_MTE2(s) == <<"MTE3_MTE2", s>>
MTE2_V(s) == <<"MTE2_V", s>>
V_MTE3(s) == <<"V_MTE3", s>>
flag(s) == <<"flag", s>>
reverse(s) == <<"reverse", s>>
Events == UNION {{MTE3_MTE2(s), MTE2_V(s), V_MTE3(s), flag(s), reverse(s)} : s \in Subs}

numMBlocks(c) == (c.m + L1TileShapeM - 1) \div L1TileShapeM
numNBlocks(c) == c.nHalf
coreLoops(c) == numMBlocks(c) * numNBlocks(c)

(* The unified buffer of a vector core, and the windows of C and D by the  *)
(* tile column and the row they start at.                                  *)
ubGate(s) == <<"ubGate", s>>
ubUp(s) == <<"ubUp", s>>
UB == UNION {{ubGate(s), ubUp(s)} : s \in Subs}
window(tensor, col, row) == <<tensor, <<col, row>>>>
Windows ==
    UNION {{window("C", col, b * SUB_ROWS) :
                col \in 0..2 * c.nHalf - 1, b \in 0..2 * numMBlocks(c) - 1} \cup
           {window("D", col, b * SUB_ROWS) :
                col \in 0..c.nHalf - 1, b \in 0..2 * numMBlocks(c) - 1} : c \in Calls}
Buffers == UB \cup Windows

Data(half, col, row, rows) == <<half, col, row, rows>>
Given == Data("given", 0, 0, 0)     (* whatever the buffer held            *)

VARIABLES
    call,               (* the arguments                                   *)
    blockIdx,           (* this core                                       *)
    aic, aiv,           (* scalar units: [pc, loopIdx, count]; aiv[s]      *)
    queue, events,      (* as in HardwarePipes                             *)
    memory

INSTANCE HardwarePipes WITH content <- memory

vars == <<call, blockIdx, aic, aiv, queue, events, memory>>

-----------------------------------------------------------------------------
(* The tiles: the columns of tiles one after the other, all rows of each.  *)
nIdx(t) == t \div numMBlocks(call)
mIdx(t) == t - nIdx(t) * numMBlocks(call)
m0(t) == mIdx(t) * L1TileShapeM
n0(t) == nIdx(t)
mActual(t) == Min({call.m - m0(t), L1TileShapeM})

(* The rows of a sub-block, of which the last tile may have none.          *)
subRowOff(s) == s * SUB_ROWS
HasRows(t, s) == subRowOff(s) < mActual(t)
rActAll(t, s) == SUB_ROWS               (* mutant: the last rows are full  *)
rAct(t, s) == Min({mActual(t) - subRowOff(s), SUB_ROWS})
r0(t, s) == m0(t) + subRowOff(s)
RowsOf(t, s) == r0(t, s)..r0(t, s) + rAct(t, s) - 1
ActiveSubs(t) == {s \in Subs : HasRows(t, s)}

(* Where the halves of a tile lie in C, and D, perhaps the gate half of C. *)
Gate(t, s) == window("C", n0(t), r0(t, s))
Up(t, s) == window("C", call.nHalf + n0(t), r0(t, s))
D(t, s) == window(IF call.inPlace THEN "C" ELSE "D", n0(t), r0(t, s))

Product(half, t, s) == Data(half, n0(t), r0(t, s), rAct(t, s))

(* What the vector cores are to find in C.                                 *)
InC(half, t, s) ==
    IF call.mode = EPILOGUE_ONLY THEN Given ELSE Product(half, t, s)

(* What a mode moves.                                                      *)
ReadsGate == call.mode # FLOOR_WRITE_ONLY
ReadsUp == call.mode \notin {FLOOR_WRITE_ONLY, FLOOR_GATE_ONLY}
StoresD == call.mode # FLOOR_READ_ONLY
DHalf == IF call.mode = FLOOR_UP THEN "up" ELSE "gate"
InD(t, s) == IF ReadsGate THEN InC(DHalf, t, s) ELSE Given

Start == [pc |-> "loop", loopIdx |-> blockIdx, count |-> 0]

Init ==
    /\ call \in Calls
    /\ blockIdx \in 0..call.aiCoreNum - 1
    /\ aic = Start
    /\ aiv = [s \in Subs |-> Start]
    /\ queue = [p \in Pipes |-> <<>>]
    /\ events = [e \in Events |-> IF e[1] = "MTE3_MTE2" /\ call.mode # GEMM_ONLY
                                  THEN 1 ELSE 0]
    /\ memory = [b \in Buffers |-> Given]

-----------------------------------------------------------------------------
(* The cube core.                                                          *)

(* FIX stores the gate and the up half of the tile and raises the flag, of *)
(* both sub-blocks in one.                                                 *)
StoreTile(t) ==
    If(call.mode # EPILOGUE_ONLY,
       << Instruction({}, {}, {<<Gate(t, s), Product("gate", t, s)>> : s \in ActiveSubs(t)}, {}),
          Instruction({}, {}, {<<Up(t, s), Product("up", t, s)>> : s \in ActiveSubs(t)}, {}) >>)
    \o << Instruction({}, {}, {}, {flag(s) : s \in Subs}) >>

InLoop(core) == core.pc = "loop" /\ core.loopIdx < coreLoops(call)

AicTile ==
    LET count == aic.count + 1
    IN  /\ InLoop(aic)
        /\ Issue([p \in {FIX} |-> StoreTile(aic.loopIdx)])
        /\ aic' = [pc |-> IF count >= REVERSE_DEPTH THEN "credit" ELSE "loop",
                   loopIdx |-> aic.loopIdx + call.aiCoreNum, count |-> count]
        /\ UNCHANGED <<call, blockIdx, aiv, events, memory>>

AicCreditUnawaited ==                   (* mutant: no reverse flag          *)
    /\ aic.pc = "credit"
    /\ aic' = [aic EXCEPT !.pc = "loop", !.count = 0]
    /\ UNCHANGED <<call, blockIdx, aiv, queue, events, memory>>

(* CrossCoreSetFlagWithReverse: the reverse flag counts once both vector   *)
(* cores have raised it.                                                   *)
AicCredit ==
    /\ aic.pc = "credit"
    /\ \A s \in Subs : events[reverse(s)] > 0
    /\ events' = [e \in Events |-> IF e[1] = "reverse" THEN events[e] - 1 ELSE events[e]]
    /\ aic' = [aic EXCEPT !.pc = "loop", !.count = 0]
    /\ UNCHANGED <<call, blockIdx, aiv, queue, memory>>

(* PipeBarrier<PIPE_ALL>.                                                  *)
AicReturn ==
    /\ aic.pc = "loop" /\ aic.loopIdx >= coreLoops(call)
    /\ queue[FIX] = <<>>
    /\ aic' = [aic EXCEPT !.pc = "done"]
    /\ UNCHANGED <<call, blockIdx, aiv, queue, events, memory>>

-----------------------------------------------------------------------------
(* A vector core.  It has one buffer for each half, so that the loads of a *)
(* tile wait for the store of the last.                                    *)
Loads(t, s) ==
    (IF ReadsGate THEN {<<Gate(t, s), ubGate(s), InC("gate", t, s)>>} ELSE {})
    \cup (IF ReadsUp THEN {<<Up(t, s), ubUp(s), InC("up", t, s)>>} ELSE {})

LoadTileUnawaited(t, s) ==              (* mutant: no MTE3_MTE2            *)
    << Instruction({}, {<<l[1], l[3]>> : l \in Loads(t, s)},
                   {<<l[2], l[3]>> : l \in Loads(t, s)}, {MTE2_V(s)}) >>

LoadTile(t, s) ==
    << Instruction({MTE3_MTE2(s)}, {<<l[1], l[3]>> : l \in Loads(t, s)},
                   {<<l[2], l[3]>> : l \in Loads(t, s)}, {MTE2_V(s)}) >>

PassOn(s) == << Instruction({MTE2_V(s)}, {}, {}, {V_MTE3(s)}) >>

StoreD(t, s) ==
    LET from == IF call.mode = FLOOR_UP THEN ubUp(s) ELSE ubGate(s)
    IN  << Instruction({V_MTE3(s)},
                       IF StoresD THEN {<<from, InD(t, s)>>} ELSE {},
                       IF StoresD THEN {<<D(t, s), InD(t, s)>>} ELSE {},
                       {MTE3_MTE2(s)}) >>

(* CrossCoreWaitFlagWithReverse, whose answer goes out behind the stores   *)
(* of the tiles before; then the tile, if the sub-block has rows of it.    *)
AivTileSkipped(s) ==                    (* mutant: no rows, no flag        *)
    LET t == aiv[s].loopIdx
        answers == aiv[s].count + 1 >= REVERSE_DEPTH
    IN  /\ InLoop(aiv[s])
        /\ HasRows(t, s) => events[flag(s)] > 0
        /\ events' = [events EXCEPT ![flag(s)] = IF HasRows(t, s) THEN @ - 1 ELSE @]
        /\ Issue([p \in {MTE3(s)} |->
                    If(answers /\ HasRows(t, s), << Instruction({}, {}, {}, {reverse(s)}) >>)])
        /\ aiv' = [aiv EXCEPT ![s].loopIdx = @ + call.aiCoreNum,
                              ![s].count = IF answers THEN 0
                                           ELSE IF HasRows(t, s) THEN @ + 1 ELSE @]
        /\ UNCHANGED <<call, blockIdx, aic, memory>>

AivTile(s) ==
    LET t == aiv[s].loopIdx
        answers == aiv[s].count + 1 >= REVERSE_DEPTH
        epilogue == call.mode # GEMM_ONLY /\ HasRows(t, s)
        Code == [p \in {MTE2(s), V(s), MTE3(s)} |->
                    CASE p = MTE2(s) -> LoadTile(t, s)
                      [] p = V(s) -> PassOn(s)
                      [] p = MTE3(s) -> StoreD(t, s)]
        Answer(p) == If(p = MTE3(s) /\ answers, << Instruction({}, {}, {}, {reverse(s)}) >>)
    IN  /\ InLoop(aiv[s])
        /\ events[flag(s)] > 0
        /\ events' = [events EXCEPT ![flag(s)] = @ - 1]
        /\ Issue([p \in DOMAIN Code |-> Answer(p) \o If(epilogue, Code[p])])
        /\ aiv' = [aiv EXCEPT ![s] = [pc |-> "loop", loopIdx |-> t + call.aiCoreNum,
                                      count |-> IF answers THEN 0 ELSE @.count + 1]]
        /\ UNCHANGED <<call, blockIdx, aic, memory>>

(* The last wait for MTE3_MTE2, in MTE2, and PipeBarrier<PIPE_ALL>.        *)
AivLastWait(s) ==
    /\ aiv[s].pc = "loop" /\ aiv[s].loopIdx >= coreLoops(call)
    /\ Issue([p \in {MTE2(s)} |->
                If(call.mode # GEMM_ONLY, << Instruction({MTE3_MTE2(s)}, {}, {}, {}) >>)])
    /\ aiv' = [aiv EXCEPT ![s].pc = "barrier"]
    /\ UNCHANGED <<call, blockIdx, aic, events, memory>>

AivReturn(s) ==
    /\ aiv[s].pc = "barrier"
    /\ \A p \in {MTE2(s), V(s), MTE3(s)} : queue[p] = <<>>
    /\ aiv' = [aiv EXCEPT ![s].pc = "done"]
    /\ UNCHANGED <<call, blockIdx, aic, queue, events, memory>>

-----------------------------------------------------------------------------
RunPipe(p) == Execute(p) /\ UNCHANGED <<call, blockIdx, aic, aiv>>

AllDone == aic.pc = "done" /\ \A s \in Subs : aiv[s].pc = "done"
Terminated == AllDone /\ UNCHANGED vars

AicStep == AicTile \/ AicCredit \/ AicReturn
AivStep(s) == AivTile(s) \/ AivLastWait(s) \/ AivReturn(s)

Next == AicStep \/ (\E s \in Subs : AivStep(s)) \/ (\E p \in Pipes : RunPipe(p)) \/ Terminated

Spec == Init /\ [][Next]_vars

(* Some unit goes on as long as one can: no step can be repeated for ever, *)
(* so that no more is needed.                                              *)
FairSpec == Spec /\ WF_vars(Next)

-----------------------------------------------------------------------------
(* Correctness.                                                            *)

(* A vector core reads the windows of C when both halves of the tile are   *)
(* stored, not before and not when an in-place D has overwritten them; and *)
(* MTE3 stores what the loads of this tile left in the unified buffer, not *)
(* of the next (kernel_f3_floor.cpp:186-198, 256-296).                     *)
WindowsIntact == \A s \in Subs : Finds(MTE2(s), Buffers) /\ Finds(MTE3(s), Buffers)

(* No flag is raised more than REVERSE_DEPTH times unawaited, above which  *)
(* the hardware freezes, however far the cube core runs ahead of the       *)
(* slower vector core; and the answers never pile up                       *)
(* (cross_core_sync.hpp:18-23, kernel_f3_floor.cpp:198, 256).              *)
FlagDepthBounded ==
    \A s \in Subs : events[flag(s)] <= REVERSE_DEPTH /\ events[reverse(s)] <= 1

(* All three cores return, with every flag and event taken, which the next *)
(* kernel counts on, also where sub-block 1 has no rows of a tile or the   *)
(* core no tile at all; and D then has the half that the mode promises in  *)
(* every window of this core (198-209, 243-307).                           *)
TilesOf(b) == {t \in 0..coreLoops(call) - 1 : t % call.aiCoreNum = b}
DComplete ==
    (call.mode # GEMM_ONLY /\ StoresD) =>
        \A t \in TilesOf(blockIdx) : \A s \in ActiveSubs(t) : memory[D(t, s)] = InD(t, s)
Returned == AllDone /\ (\A e \in Events : events[e] = 0) /\ DComplete
KernelReturns == <>[]Returned

(* The windows of all tiles of all cores tile D: they stay within its rows *)
(* and each row of each column of tiles belongs to one sub-block of one    *)
(* tile.  Checked while the cube core has not started (152-185, 218-224,   *)
(* 244-263).                                                               *)
Owners == {o \in (0..coreLoops(call) - 1) \X Subs : HasRows(o[1], o[2])}
WindowsTileD ==
    aic = Start =>
        /\ \A o \in Owners : RowsOf(o[1], o[2]) \subseteq 0..call.m - 1
        /\ \A col \in 0..call.nHalf - 1, r \in 0..call.m - 1 :
              Cardinality({o \in Owners : n0(o[1]) = col /\ r \in RowsOf(o[1], o[2])}) = 1
=============================================================================
