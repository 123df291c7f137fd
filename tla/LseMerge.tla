------------------------------- MODULE LseMerge -------------------------------
(***************************************************************************)
(* lse_merge: the host's grid, and one core of the kernel, which merges    *)
(* o1 and o2 by the weights of lse1 and lse2, tile by tile.                *)
(*                                                                         *)
(* One source serves sixteen variants: o1 and the output are bf16 or fp32, *)
(* each lse is compact or strided.  They differ in which tensors are cast  *)
(* and freed at once and which are used in place to the end of the tile.   *)
(* A content is the number of the tile it was computed from.               *)
(***************************************************************************)
EXTENDS Integers, Sequences, FiniteSets

CONSTANTS
    Variants,           (* [o1IsF32, outIsF32, strided1, strided2]         *)
    RowCounts,          (* totalRows of the calls                          *)
    DeQueStopsScalar    (* the scalar unit too waits for a tensor it has   *)
                        (* taken from a queue                              *)

TILE_ROWS == 32
LANES == 8              (* fp32 in 32 bytes                                *)

ASSUME ParametersAssumption ==
    /\ Variants \subseteq [o1IsF32 : BOOLEAN, outIsF32 : BOOLEAN,
                           strided1 : BOOLEAN, strided2 : BOOLEAN]
    /\ RowCounts \subseteq Nat \ {0}
    /\ DeQueStopsScalar \in BOOLEAN

Queues == {"inQueO1", "inQueO2", "inQueLse1", "inQueLse2", "outQue"}
Depth == [q \in Queues |-> 1]
Pipes == {"MTE2", "V", "MTE3"}

(* The tensors, and the buffers for casts, compacted lse and the weights   *)
(* w1, w2, s, which are written together.                                  *)
tensor(q) == <<q, 0>>
o1F32Buf == <<"o1F32", 0>>
o2F32Buf == <<"o2F32", 0>>
lseCBuf(side) == <<"lseC", side>>
weightBufs == <<"weights", 0>>
Buffers == {tensor(q) : q \in Queues}
           \cup {o1F32Buf, o2F32Buf, lseCBuf(1), lseCBuf(2), weightBufs}
Events == {<<e, q, 0>> : e \in {"Free", "Ready"}, q \in Queues}

VARIABLES
    variant, totalRows,     (* of the call                                 *)
    blockIdx,               (* this core                                   *)
    pc,                     (* scalar unit: see its actions                *)
    tile,                   (* tiles handed to the pipes for good           *)
    queue, events,          (* as in HardwarePipes                         *)
    ub

INSTANCE TensorQueues WITH content <- ub

vars == <<variant, totalRows, blockIdx, pc, tile, queue, events, ub>>
call == <<variant, totalRows, blockIdx>>

-----------------------------------------------------------------------------
(* The host's grid and the rows of a core.                                 *)
CeilDiv(a, b) == (a + b - 1) \div b

blockDim == Min({totalRows, 8})
rowsPerCoreUnaligned == CeilDiv(totalRows, blockDim)        (* mutant      *)
rowsPerCore == CeilDiv(CeilDiv(totalRows, blockDim), LANES) * LANES
rowStart(b) == b * rowsPerCore
rowStop(b) == Min({rowStart(b) + rowsPerCore, totalRows})
RowsOf(b) == rowStart(b)..rowStop(b) - 1

myRows == Cardinality(RowsOf(blockIdx))
RowsOfTile(t) == {r \in RowsOf(blockIdx) : (r - rowStart(blockIdx)) \div TILE_ROWS = t}
NextTileOneMore(t) ==                   (* mutant: off by one              *)
    IF t * TILE_ROWS <= myRows THEN <<"load", 0>> ELSE <<"done", 0>>
NextTile(t) == IF t * TILE_ROWS < myRows THEN <<"load", 0>> ELSE <<"done", 0>>

Init ==
    /\ variant \in Variants
    /\ totalRows \in RowCounts
    /\ blockIdx \in 0..blockDim - 1
    /\ pc = NextTile(0)
    /\ tile = 0
    /\ queue = [p \in Pipes |-> <<>>]
    /\ events = [e \in Events |-> IF e[1] = "Free" THEN 1 ELSE 0]
    /\ ub = [b \in Buffers |-> -1]

-----------------------------------------------------------------------------
(* Instructions of a tile.                                                 *)
free(q) == Free(q, 0)
ready(q) == Ready(q, 0)
Vector(waits, reads, writes, sets) == << Instruction(waits, reads, writes, sets) >>
Load(q, t, sets) == << Instruction({free(q)}, {}, {<<tensor(q), t>>}, sets) >>

(* Both lse are copied first and enqueued last.                            *)
LoadTileF32Unqueued(t) ==               (* mutant: EnQue of fp32 o1 missing *)
    Load("inQueLse1", t, {}) \o Load("inQueLse2", t, {})
    \o Load("inQueO1", t, IF variant.o1IsF32 THEN {} ELSE {ready("inQueO1")})
    \o Load("inQueO2", t, {ready("inQueO2"), ready("inQueLse1"), ready("inQueLse2")})

LoadTile(t) ==
    Load("inQueLse1", t, {}) \o Load("inQueLse2", t, {})
    \o Load("inQueO1", t, {ready("inQueO1")})
    \o Load("inQueO2", t, {ready("inQueO2"), ready("inQueLse1"), ready("inQueLse2")})

(* fp32 o1 is used where it is; bf16 o1 is cast and freed.                 *)
CastTileFreesO1(t) ==                   (* mutant: both are freed          *)
    Vector({ready("inQueO1")}, {<<tensor("inQueO1"), t>>}, {<<o1F32Buf, t>>}, {free("inQueO1")})
    \o Vector({ready("inQueO2"), ready("inQueLse1"), ready("inQueLse2")},
              {<<tensor("inQueO2"), t>>}, {<<o2F32Buf, t>>}, {})

CastTile(t) ==
    (IF variant.o1IsF32
     THEN Vector({ready("inQueO1")}, {}, {}, {})
     ELSE Vector({ready("inQueO1")}, {<<tensor("inQueO1"), t>>}, {<<o1F32Buf, t>>},
                 {free("inQueO1")}))
    \o Vector({ready("inQueO2"), ready("inQueLse1"), ready("inQueLse2")},
              {<<tensor("inQueO2"), t>>}, {<<o2F32Buf, t>>}, {})

strided(side) == IF side = 1 THEN variant.strided1 ELSE variant.strided2
lseQueue(side) == IF side = 1 THEN "inQueLse1" ELSE "inQueLse2"
lse(side) == IF strided(side) THEN lseCBuf(side) ELSE tensor(lseQueue(side))
o1F32 == IF variant.o1IsF32 THEN tensor("inQueO1") ELSE o1F32Buf

ComputeWeights(t) ==
    Vector({}, {<<lse(1), t>>, <<lse(2), t>>}, {<<weightBufs, t>>}, {})

(* The row loop, which ends in the output tensor (fp32) or is cast to it.  *)
(* Then everything still in use is freed.                                  *)
MergeRows(t) ==
    Vector(IF variant.outIsF32 THEN {free("outQue")} ELSE {}, {<<o1F32, t>>, <<o2F32Buf, t>>},
           {IF variant.outIsF32 THEN <<tensor("outQue"), t>> ELSE <<o2F32Buf, t>>},
           IF variant.outIsF32 THEN {ready("outQue")} ELSE {})
    \o If(~variant.outIsF32,
          Vector({free("outQue")}, {<<o2F32Buf, t>>}, {<<tensor("outQue"), t>>},
                 {ready("outQue")}))
    \o Vector({}, {}, {},
              {free("inQueO2")}
              \cup (IF variant.o1IsF32 THEN {free("inQueO1")} ELSE {})
              \cup {free(lseQueue(side)) : side \in {s \in 1..2 : ~strided(s)}})

-----------------------------------------------------------------------------
(* The scalar unit: "load", then for each strided lse "compact" and        *)
(* "compacted", then "weights" and "merge".                                *)
After(side) ==
    LET next == {s \in 1..2 : strided(s) /\ s > side}
    IN  IF next = {} THEN <<"weights", 0>> ELSE <<"compact", Min(next)>>

BeginTile ==
    /\ pc[1] = "load"
    /\ pc' = After(0)
    /\ Issue([MTE2 |-> LoadTile(tile), V |-> CastTile(tile)])
    /\ UNCHANGED <<call, tile, events, ub>>

(* CompactLse: the scalar unit moves lanes of the tensor, a barrier on the *)
(* vector unit follows, and the tensor is freed.                           *)
CompactLse ==
    /\ pc[1] = "compact"
    /\ DeQueStopsScalar => Barrier({"MTE2"})
    /\ ub' = [ub EXCEPT ![lseCBuf(pc[2])] = ub[tensor(lseQueue(pc[2]))]]
    /\ pc' = <<"compacted", pc[2]>>
    /\ UNCHANGED <<call, tile, queue, events>>

FreeLse ==
    /\ pc[1] = "compacted"
    /\ Barrier({"V"})
    /\ Issue([V |-> Vector({}, {}, {}, {free(lseQueue(pc[2]))})])
    /\ pc' = After(pc[2])
    /\ UNCHANGED <<call, tile, events, ub>>

Weigh ==
    /\ pc[1] = "weights"
    /\ Issue([V |-> ComputeWeights(tile)])
    /\ pc' = <<"merge", 0>>
    /\ UNCHANGED <<call, tile, events, ub>>

(* The row loop reads w1, w2 and s of each row, behind the barrier.        *)
ReadsWeights == pc[1] = "merge" /\ Barrier({"V"})

MergeTile ==
    /\ ReadsWeights
    /\ Issue([V |-> MergeRows(tile), MTE3 |-> CopyOut("outQue", 0, tile)])
    /\ tile' = tile + 1
    /\ pc' = NextTile(tile + 1)
    /\ UNCHANGED <<call, events, ub>>

RunPipe(p) == Execute(p) /\ UNCHANGED <<call, pc, tile>>

Terminated == pc[1] = "done" /\ Drained /\ UNCHANGED vars

Scalar == BeginTile \/ CompactLse \/ FreeLse \/ Weigh \/ MergeTile

Next == Scalar \/ (\E p \in Pipes : RunPipe(p)) \/ Terminated

Spec == Init /\ [][Next]_vars

(* Hardware units go on when they can.                                     *)
FairSpec == Spec /\ WF_vars(Scalar) /\ \A p \in Pipes : WF_vars(RunPipe(p))

-----------------------------------------------------------------------------
(* Correctness.                                                            *)

(* In every variant each pipe, and the scalar unit where it compacts lse   *)
(* or reads the weights, finds the tile it works on: no tensor is freed    *)
(* while it is still used in place, none is used before it is there, and   *)
(* the next tile, which the scalar unit begins while this one is merged,   *)
(* takes none away (kernel_lse_merge.cpp:157-310).                         *)
TilesIntact ==
    /\ Finds("V", Buffers) /\ Finds("MTE3", Buffers)
    /\ pc[1] = "compacted" => ub[lseCBuf(pc[2])] = tile
    /\ ReadsWeights => ub[weightBufs] = tile

(* The tiles are cut from the rows of this core alone, every row is of     *)
(* some core, and a tile starts at a multiple of eight rows, so that its   *)
(* lse starts at a multiple of 32 bytes (80-91, 134-137; host 62).         *)
TileHitsOwnRows ==
    pc[1] = "load" =>
        LET others == UNION {RowsOf(b) : b \in (0..blockDim - 1) \ {blockIdx}}
        IN  /\ RowsOfTile(tile) # {}
            /\ RowsOfTile(tile) \cap others = {}
            /\ Min(RowsOfTile(tile)) % LANES = 0
            /\ RowsOf(blockIdx) \cup others = 0..totalRows - 1

(* The core merges all its tiles and leaves every queue empty: EnQue,      *)
(* DeQue and FreeTensor are balanced in every variant, across tiles        *)
(* (180-202, 222-229, 284-309).                                            *)
AllMerged == pc[1] = "done" /\ Drained /\ NoneInUse /\ tile * TILE_ROWS >= myRows
KernelReturns == <>[]AllMerged
=============================================================================
