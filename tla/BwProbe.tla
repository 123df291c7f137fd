------------------------------- MODULE BwProbe -------------------------------
(***************************************************************************)
(* bw_probe: the host's padding and grid, and one core of the kernel, which *)
(* measures what the parts of add_rms_norm_stats cost.  Its state is that  *)
(* of RmsNormStats.                                                        *)
(*                                                                         *)
(*   variants 0-1  out only              5-6  eight rows in eight K tiles: *)
(*   variants 2-4  rstd of eight rows         5 copies, 6 adds up the sums *)
(*                 as in RmsNormStats         of the tiles and sends rstd   *)
(*                                                                         *)
(* Variants 3 and 4 leave something out of rstd; its content is "rstd" of  *)
(* the row all the same.  kDim is in units of 16 elements.                 *)
(***************************************************************************)
EXTENDS Integers, Sequences, FiniteSets

CONSTANT Calls     (* the calls: [variant, mRows, kDim, vectorCoreNum]     *)

RSTD_GROUP == 8
TILE_ROWS == 8
V_COPY == 0
V_MODE0 == 2
V_TILE8_COPY == 5
V_TILE8_FULL == 6
Lanes == 0..RSTD_GROUP - 1

(* What the host accepts; K of variants 5 and 6 is a multiple of 128.  (An *)
(* assumption of the modules that run it.)                                 *)
CallsAccepted ==
    /\ Calls \subseteq [variant : 0..6, mRows : Nat \ {0}, kDim : Nat \ {0},
                        vectorCoreNum : Nat \ {0}]
    /\ \A c \in Calls : c.variant >= V_TILE8_COPY => c.mRows % 8 = 0 /\ c.kDim % 8 = 0

bufSum == <<"sum", 0>>
bufAcc == <<"acc", 0>>
stage(i) == <<"stage", i>>
Staging == {stage(i) : i \in Lanes}

Nothing == <<"none", 0, 0>>
Zero == <<"zero", 0, 0>>
Row(name, r) == <<name, r, 0>>
(* Of the group that starts at row g: K tile kt, the sums of its first n   *)
(* tiles, rstd.                                                            *)
KTile(name, g, kt) == <<name, g, kt>>
Sums(g, n) == <<"sums", g, n>>
GroupRstd(g) == <<"groupRstd", g, 0>>

Pipes == {"MTE2", "V", "MTE3"}
Depth == [q \in {"inQueX1", "inQueX2", "outQue"} |-> 2]

VARIABLES
    call,           (* the arguments                                       *)
    blockIdx,       (* this core                                           *)
    pc,             (* scalar unit: see its actions                        *)
    row,            (* rows handed to the pipes                            *)
    staged,         (* rows of the group so far, or K tiles of it          *)
    queue, events,  (* as in HardwarePipes                                 *)
    ub

Tensors == {<<q, i>> : q \in DOMAIN Depth, i \in 0..1}
Buffers == Tensors \cup {bufSum, bufAcc} \cup Staging
V_MTE3 == <<"V_MTE3", "acc", 0>>
Events == {<<e>> \o t : e \in {"Free", "Ready"}, t \in Tensors} \cup {V_MTE3}

INSTANCE TensorQueues WITH content <- ub

vars == <<call, blockIdx, pc, row, staged, queue, events, ub>>

-----------------------------------------------------------------------------
(* The host, and the rows of each core.                                    *)
RoundUp(n) == ((n + RSTD_GROUP - 1) \div RSTD_GROUP) * RSTD_GROUP

mPadded(c) == RoundUp(c.mRows)
blockDim(c) == Min({mPadded(c) \div RSTD_GROUP, c.vectorCoreNum})

rowsPerCore(c) == RoundUp((c.mRows + blockDim(c) - 1) \div blockDim(c))
rowStart(c, b) == b * rowsPerCore(c)
rowStop(c, b) == Min({rowStart(c, b) + rowsPerCore(c), c.mRows})
RowsOf(c, b) == rowStart(c, b)..rowStop(c, b) - 1

myRows == Cardinality(RowsOf(call, blockIdx))
tiled == call.variant >= V_TILE8_COPY
hasRstd == call.variant >= V_MODE0

Init ==
    /\ call \in Calls
    /\ blockIdx \in 0..blockDim(call) - 1
    /\ pc = "start"
    /\ row = 0
    /\ staged = 0
    /\ queue = [p \in Pipes |-> <<>>]
    /\ events = [e \in Events |-> IF e[1] = "Free" THEN 1 ELSE 0]
    /\ ub = [b \in Buffers |-> Nothing]

-----------------------------------------------------------------------------
(* A row, or a K tile of eight, number n of this core: x1 and x2 come in,  *)
(* x1 + x2 (in the copies x1) goes out.  With rounded set the vector unit  *)
(* reads the tensor of outQue back before it passes it on.                 *)
Vector(waits, reads, writes, sets) == << Instruction(waits, reads, writes, sets) >>

Load(n, x1, x2) == CopyIn("inQueX1", Turn("inQueX1", n), x1)
                   \o CopyIn("inQueX2", Turn("inQueX2", n), x2)

AddInputs(n, x1, x2, out) ==
    LET i == Turn("inQueX1", n)
        o == Turn("outQue", n)
    IN  Vector({Ready("inQueX1", i), Ready("inQueX2", i)},
               {<<Tensor("inQueX1", i), x1>>, <<Tensor("inQueX2", i), x2>>}, {},
               {Free("inQueX1", i), Free("inQueX2", i)})
        \o Vector({Free("outQue", o)}, {}, {<<Tensor("outQue", o), out>>}, {Ready("outQue", o)})

StoreUnqueued(n, out) ==                (* mutant: no EnQue and DeQue      *)
    << Instruction({}, {<<Tensor("outQue", Turn("outQue", n)), out>>}, {},
                   {Free("outQue", Turn("outQue", n))}) >>
Store(n, out) == CopyOut("outQue", Turn("outQue", n), out)

(* The scalar unit.  Variants 0 and 1 are done with a row when it is out.  *)
StartProcess ==
    /\ pc = "start"
    /\ pc' = IF myRows = 0 THEN "done" ELSE IF tiled THEN "tile" ELSE "row"
    /\ UNCHANGED <<call, blockIdx, row, staged, queue, events, ub>>

ProcessRow ==
    /\ pc = "row"
    /\ Issue([MTE2 |-> Load(row, Row("x1", row), Row("x2", row)),
              V |-> AddInputs(row, Row("x1", row), Row("x2", row), Row("out", row))
                    \o If(hasRstd, Vector({}, {}, {<<bufSum, Row("rstd", row)>>}, {})),
              MTE3 |-> Store(row, Row("out", row))])
    /\ IF hasRstd
       THEN pc' = "stage" /\ UNCHANGED <<row, staged>>
       ELSE /\ pc' = IF row + 1 < myRows THEN "row" ELSE "done"
            /\ row' = row + 1
            /\ staged' = (staged + 1) % RSTD_GROUP
    /\ UNCHANGED <<call, blockIdx, events, ub>>

(* Behind PipeBarrier<PIPE_V>, rstd goes to its lane.                      *)
StageRow ==
    /\ pc = "stage"
    /\ Barrier({"V"})
    /\ ub' = [ub EXCEPT ![stage(staged)] = ub[bufSum]]
    /\ row' = row + 1
    /\ staged' = staged + 1
    /\ pc' = IF staged + 1 = RSTD_GROUP \/ row + 1 = myRows THEN "tail" ELSE "row"
    /\ UNCHANGED <<call, blockIdx, queue, events>>

ZeroTailOneLess ==                      (* mutant: off by one              *)
    /\ pc = "tail"
    /\ ub' = [b \in Buffers |-> IF b \in Staging /\ b[2] > staged THEN Zero ELSE ub[b]]
    /\ pc' = "flush"
    /\ UNCHANGED <<call, blockIdx, row, staged, queue, events>>

ZeroTail ==
    /\ pc = "tail"
    /\ ub' = [b \in Buffers |-> IF b \in Staging /\ b[2] >= staged THEN Zero ELSE ub[b]]
    /\ pc' = "flush"
    /\ UNCHANGED <<call, blockIdx, row, staged, queue, events>>

Expected(i) == IF i < staged THEN Row("rstd", row - staged + i) ELSE Zero

FlushRstd ==
    /\ pc = "flush"
    /\ Barrier(Pipes)
    /\ Issue([MTE3 |-> << Instruction({}, {<<stage(i), Expected(i)>> : i \in Lanes}, {}, {}) >>])
    /\ pc' = IF row < myRows THEN "row" ELSE "done"
    /\ staged' = 0
    /\ UNCHANGED <<call, blockIdx, row, events, ub>>

-----------------------------------------------------------------------------
(* BwProbeTile8.  Variant 6 clears the sums before the first K tile of a   *)
(* group and adds those of each tile.                                      *)
kTileOfRow == call.kDim                 (* mutant: the row is not divided  *)
kTile == call.kDim \div TILE_ROWS
summing == call.variant = V_TILE8_FULL

AddTile(g, kt) ==
    If(kt = 0, Vector({}, {}, {<<bufAcc, Sums(g, 0)>>}, {}))
    \o AddInputs(g + kt, KTile("x1", g, kt), KTile("x2", g, kt), KTile("out", g, kt))
    \o Vector({}, {<<bufAcc, Sums(g, kt)>>}, {<<bufAcc, Sums(g, kt + 1)>>}, {})

CopyTile(g, kt) ==
    AddInputs(g + kt, KTile("x1", g, kt), KTile("x2", g, kt), KTile("out", g, kt))

ProcessTile ==
    /\ pc = "tile"
    /\ Issue([MTE2 |-> Load(row + staged, KTile("x1", row, staged), KTile("x2", row, staged)),
              V |-> IF summing THEN AddTile(row, staged) ELSE CopyTile(row, staged),
              MTE3 |-> Store(row + staged, KTile("out", row, staged))])
    /\ staged' = staged + 1
    /\ pc' = IF staged + 1 = TILE_ROWS THEN "rstd" ELSE "tile"
    /\ UNCHANGED <<call, blockIdx, row, events, ub>>

(* The rstd chain over the sums, and the copy out behind V_MTE3.  Variant  *)
(* 5, which has no sums, sends what the chain makes of anything.           *)
StoreGroupRstd ==
    LET Acc(what) == IF summing THEN {<<bufAcc, what>>} ELSE {}
    IN  /\ pc = "rstd"
        /\ Issue([V |-> Vector({}, Acc(Sums(row, TILE_ROWS)), Acc(GroupRstd(row)), {V_MTE3}),
                  MTE3 |-> << Instruction({V_MTE3}, Acc(GroupRstd(row)), {}, {}) >>])
        /\ row' = row + TILE_ROWS
        /\ staged' = 0
        /\ pc' = IF row + TILE_ROWS < myRows THEN "tile" ELSE "done"
        /\ UNCHANGED <<call, blockIdx, events, ub>>

-----------------------------------------------------------------------------
RunPipe(p) == Execute(p) /\ UNCHANGED <<call, blockIdx, pc, row, staged>>

Terminated == pc = "done" /\ Drained /\ UNCHANGED vars

Scalar ==
    \/ StartProcess \/ ProcessRow \/ StageRow \/ ZeroTail \/ FlushRstd
    \/ ProcessTile \/ StoreGroupRstd

Next == Scalar \/ (\E p \in Pipes : RunPipe(p)) \/ Terminated

Spec == Init /\ [][Next]_vars

-----------------------------------------------------------------------------
(* Correctness.                                                            *)

(* The vector unit finds its row or tile in the tensors, the sums of the   *)
(* tiles before in acc; MTE3 finds the row or tile that it is to store,    *)
(* although the scalar unit waits for nobody from one group of tiles to    *)
(* the next; and V_MTE3 is not raised twice                                *)
(* (kernel_bw_probe.cpp:150-196, 388-443, 457-460).                        *)
TransfersIntact ==
    Finds("V", Buffers) /\ Finds("MTE3", Tensors) /\ events[V_MTE3] <= 1

(* Behind V_MTE3, MTE3 sends rstd of the group (457-460).                  *)
RstdIntact == Finds("MTE3", {bufAcc})

(* It does in variant 5, which has none, and for the last group of a core, *)
(* behind which nobody writes acc.  In variants 2 to 4 the first two rows  *)
(* of a group may reach lanes 0 and 1 of the staging buffer before MTE3    *)
(* has sent the group before (their tensors of outQue are free); the third *)
(* waits for the store of the first, behind that copy, so that MTE3 finds  *)
(* the other lanes, if a short last group has three rows too (191-194,     *)
(* 216-238).                                                               *)
LastGroup == ((myRows - 1) % RSTD_GROUP) + 1
RstdIntactWhereOrdered ==
    /\ (pc = "done" /\ Len(queue["MTE3"]) = 1) => RstdIntact
    /\ myRows <= RSTD_GROUP => Finds("MTE3", Staging)
    /\ LastGroup >= 3 => Finds("MTE3", {stage(i) : i \in 2..RSTD_GROUP - 1})

(* The core writes its own rows.  A flush of rstd starts at a multiple of  *)
(* eight, within the padded output, and hits no row of another core; the   *)
(* K tiles of a group, eight segments each, cover its eight rows from      *)
(* the first element to the last, each once; and the rows of the cores are *)
(* all the rows (83-94, 301-314, 349-376, 383, 393, host 62-71).           *)
others == UNION {RowsOf(call, b) : b \in (0..blockDim(call) - 1) \ {blockIdx}}
FlushHitsOwnRows(first) ==
    /\ first % RSTD_GROUP = 0
    /\ first..first + RSTD_GROUP - 1 \subseteq (0..mPadded(call) - 1) \ others
    /\ 0..call.mRows - 1 \subseteq others \cup RowsOf(call, blockIdx)

Segment(base, s) == LET from == base + s * call.kDim IN from..from + kTile - 1
TilesCover(firstRow) ==
    LET rowBase == firstRow * call.kDim
        tiles == (0..TILE_ROWS - 1) \X (0..TILE_ROWS - 1)
    IN  \A e \in 0..TILE_ROWS * call.kDim - 1 :
            Cardinality({t \in tiles : rowBase + e \in Segment(rowBase + t[1] * kTile, t[2])}) = 1

WritesHitOwnRows ==
    /\ pc = "flush" => FlushHitsOwnRows(rowStart(call, blockIdx) + row - staged)
    /\ pc = "rstd" =>
          /\ FlushHitsOwnRows(rowStart(call, blockIdx) + row)
          /\ TilesCover(rowStart(call, blockIdx) + row)
=============================================================================
