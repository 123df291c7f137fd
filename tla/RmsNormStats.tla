----------------------------- MODULE RmsNormStats -----------------------------
(***************************************************************************)
(* add_rms_norm_stats: the host's padding and grid, and one core of the    *)
(* kernel.  The core takes its rows one after the other.  A row comes in   *)
(* through inQueX1 and inQueX2, the vector unit reduces it, and x_out or y *)
(* leaves through outQue.  The scalar unit writes rstd of eight rows into  *)
(* a staging buffer, which one DataCopy sends to global memory.            *)
(*                                                                         *)
(*   mode 0  x_out and rstd of x1 + x2     mode 1  y and rstd of x1        *)
(*   mode 2  rstd of x1 + x2 only                                          *)
(*                                                                         *)
(* In modes 0 and 2 the sums of squares of a group wait in slots and the   *)
(* rstd chain runs once for all eight (batchStats).  A content says of     *)
(* which row it was made; buffers that only the vector unit uses are left  *)
(* out.                                                                    *)
(***************************************************************************)
EXTENDS Integers, Sequences, FiniteSets

CONSTANT Calls     (* the calls: [mode, hasBeta, mRows, vectorCoreNum]     *)

RSTD_GROUP == 8
Lanes == 0..RSTD_GROUP - 1

ASSUME CallsAssumption ==
    Calls \subseteq [mode : 0..2, hasBeta : BOOLEAN, mRows : Nat \ {0}, vectorCoreNum : Nat \ {0}]

(* Buffers besides the tensors of the queues: the slots of bufSums, bufSum *)
(* of a single row, and the lanes of the staging buffer.                   *)
slot(i) == <<"slot", i>>
bufSum == <<"sum", 0>>
stage(i) == <<"stage", i>>
Staging == {stage(i) : i \in Lanes}

Nothing == <<"none", 0>>
Zero == <<"zero", 0>>
Row(name, r) == <<name, r>>

Pipes == {"MTE2", "V", "MTE3"}
Depth == [q \in {"inQueX1", "inQueX2", "outQue"} |-> 2]

VARIABLES
    call,           (* the arguments                                       *)
    blockIdx,       (* this core                                           *)
    pc,             (* scalar unit: start, row, apply, group, flush, done  *)
    row,            (* rows handed to the pipes                            *)
    staged,         (* rows of the group so far                            *)
    queue, events,  (* as in HardwarePipes                                 *)
    ub

QueueOf(q) == {<<q, i>> : i \in 0..Depth[q] - 1}
Tensors == UNION {QueueOf(q) : q \in DOMAIN Depth}
Buffers == Tensors \cup {slot(i) : i \in Lanes} \cup {bufSum} \cup Staging
Events == {<<e>> \o t : e \in {"Free", "Ready"}, t \in Tensors}

INSTANCE TensorQueues WITH content <- ub

vars == <<call, blockIdx, pc, row, staged, queue, events, ub>>

-----------------------------------------------------------------------------
(* The host, and the rows of each core.                                    *)
RoundUp(n) == ((n + RSTD_GROUP - 1) \div RSTD_GROUP) * RSTD_GROUP

mPadded(c) == RoundUp(c.mRows)
blockDim(c) == Min({mPadded(c) \div RSTD_GROUP, c.vectorCoreNum})

rowsPerCoreUnaligned(c) == (c.mRows + blockDim(c) - 1) \div blockDim(c)  (* mutant *)
rowsPerCore(c) == RoundUp((c.mRows + blockDim(c) - 1) \div blockDim(c))
rowStart(c, b) == b * rowsPerCore(c)
rowStop(c, b) == Min({rowStart(c, b) + rowsPerCore(c), c.mRows})
RowsOf(c, b) == rowStart(c, b)..rowStop(c, b) - 1

myRows == Cardinality(RowsOf(call, blockIdx))
batchStatsNever(c) == FALSE             (* mutant: the chain for each row  *)
batchStats(c) == c.mode # 1

Init ==
    /\ call \in Calls
    /\ blockIdx \in 0..blockDim(call) - 1
    /\ pc = "start"
    /\ row = 0
    /\ staged = 0
    /\ queue = [p \in Pipes |-> <<>>]
    /\ events = [e \in Events |-> IF e[1] = "Free" THEN 1 ELSE 0]
    /\ ub = [b \in Buffers |-> Nothing]

-----------------------------------------------------------------------------
(* What the vector unit is told.                                           *)
Vector(waits, reads, writes, sets) == << Instruction(waits, reads, writes, sets) >>

PrimeSlots ==
    Vector({}, {}, {<<slot(i), Zero>> : i \in Lanes}, {})

(* The first tensors of inQueX1 go to gamma and beta.                      *)
Preloads == CASE call.mode # 1 -> <<>>
              [] call.hasBeta -> <<"gamma", "beta">>
              [] OTHER -> <<"gamma">>

Preload(i) == [in |-> CopyIn("inQueX1", i, Row(Preloads[i + 1], 0)),
               v |-> Vector({Ready("inQueX1", i)},
                            {<<Tensor("inQueX1", i), Row(Preloads[i + 1], 0)>>}, {},
                            {Free("inQueX1", i)})]

X1(r) == Turn("inQueX1", r + Len(Preloads))
X2(r) == Turn("inQueX2", r)
Out(r) == Turn("outQue", r)

LoadRow(r) ==
    CopyIn("inQueX1", X1(r), Row("x1", r))
    \o If(call.mode # 1, CopyIn("inQueX2", X2(r), Row("x2", r)))

(* Where the sum of squares, and in the end rstd, of a row is put.         *)
SumOf(s) == IF batchStats(call) THEN slot(s) ELSE bufSum

(* Read the row; round x1 + x2 into a tensor of outQue (mode 0) and square *)
(* that; free the tensors.  Without batchStats the rstd chain follows.     *)
ReduceRow(r, s) ==
    Vector({Ready("inQueX1", X1(r))}, {<<Tensor("inQueX1", X1(r)), Row("x1", r)>>}, {}, {})
    \o If(call.mode # 1,
          Vector({Ready("inQueX2", X2(r))}, {<<Tensor("inQueX2", X2(r)), Row("x2", r)>>}, {},
                 {Free("inQueX2", X2(r))}))
    \o If(call.mode = 0,
          Vector({Free("outQue", Out(r))}, {}, {<<Tensor("outQue", Out(r)), Row("out", r)>>},
                 {Ready("outQue", Out(r))}))
    \o Vector({}, {}, {<<SumOf(s), Row(IF batchStats(call) THEN "sum" ELSE "rstd", r)>>},
              {Free("inQueX1", X1(r))})

(* The rstd chain over the slots of a group of s rows that ends before     *)
(* row r.  The slots of no row keep a value that nobody wants.             *)
RowInLane(r, s, i) == r - s + i

RstdChainBatch(r, s) ==
    Vector({}, {<<slot(i), Row("sum", RowInLane(r, s, i))>> : i \in 0..s - 1},
           {<<slot(i), Row("rstd", RowInLane(r, s, i))>> : i \in 0..s - 1}, {})

(* Mode 1: y of the row, by the rstd that the scalar unit has read.        *)
ApplyRow(r) ==
    Vector({Free("outQue", Out(r))}, {}, {<<Tensor("outQue", Out(r)), Row("out", r)>>},
           {Ready("outQue", Out(r))})

StoreRowUnqueued(r) ==                  (* mutant: no EnQue and DeQue     *)
    << Instruction({}, {<<Tensor("outQue", Out(r)), Row("out", r)>>}, {},
                   {Free("outQue", Out(r))}) >>
StoreRowKept(r) ==                      (* mutant: no FreeTensor           *)
    << Instruction({Ready("outQue", Out(r))},
                   {<<Tensor("outQue", Out(r)), Row("out", r)>>}, {}, {}) >>
StoreRow(r) == CopyOut("outQue", Out(r), Row("out", r))

(* DataCopy of the staging buffer: rstd of the rows, and zero behind.      *)
Expected(r, s, i) == IF i < s THEN Row("rstd", RowInLane(r, s, i)) ELSE Zero

CopyStaging(r, s) ==
    << Instruction({}, {<<stage(i), Expected(r, s, i)>> : i \in Lanes}, {}, {}) >>

-----------------------------------------------------------------------------
(* The scalar unit.                                                        *)
AfterRow == IF staged + 1 = RSTD_GROUP \/ row + 1 = myRows THEN "group" ELSE "row"

(* A core without rows does nothing.                                       *)
StartProcess ==
    /\ pc = "start"
    /\ pc' = IF myRows = 0 THEN "done" ELSE "row"
    /\ Issue(IF myRows = 0 THEN <<>> ELSE
             [MTE2 |-> Each(Len(Preloads), LAMBDA i : Preload(i).in),
              V |-> Each(Len(Preloads), LAMBDA i : Preload(i).v)
                    \o If(batchStats(call), PrimeSlots)])
    /\ UNCHANGED <<call, blockIdx, row, staged, events, ub>>

ProcessRowBatched ==
    LET group == AfterRow = "group"
    IN  /\ pc = "row" /\ batchStats(call)
        /\ pc' = AfterRow
        /\ row' = row + 1
        /\ staged' = staged + 1
        /\ Issue([MTE2 |-> LoadRow(row),
                  V |-> ReduceRow(row, staged) \o If(group, RstdChainBatch(row + 1, staged + 1)),
                  MTE3 |-> If(call.mode = 0, StoreRow(row))])
        /\ UNCHANGED <<call, blockIdx, events, ub>>

ProcessRow ==
    /\ pc = "row" /\ ~batchStats(call)
    /\ pc' = "apply"
    /\ Issue([MTE2 |-> LoadRow(row), V |-> ReduceRow(row, staged),
              MTE3 |-> If(call.mode = 0, StoreRow(row))])
    /\ UNCHANGED <<call, blockIdx, row, staged, events, ub>>

(* The rest of ProcessRow, behind the barrier.                             *)
StageRow ==
    /\ pc = "apply"
    /\ Barrier({"V"})
    /\ ub' = [ub EXCEPT ![stage(staged)] = ub[bufSum]]
    /\ pc' = AfterRow
    /\ row' = row + 1
    /\ staged' = staged + 1
    /\ Issue(IF call.mode = 1 THEN [V |-> ApplyRow(row), MTE3 |-> StoreRow(row)] ELSE <<>>)
    /\ UNCHANGED <<call, blockIdx, events>>

(* The end of a group: with batchStats the scalar unit copies the slots,   *)
(* behind the barrier of RstdChainBatch; the tail of a short group is      *)
(* zeroed.                                                                 *)
StageGroupUnawaited ==                  (* mutant: no barrier              *)
    /\ pc = "group"
    /\ ub' = [b \in Buffers |->
                 IF b \notin Staging THEN ub[b]
                 ELSE IF b[2] >= staged THEN Zero
                 ELSE IF batchStats(call) THEN ub[slot(b[2])] ELSE ub[b]]
    /\ pc' = "flush"
    /\ UNCHANGED <<call, blockIdx, row, staged, queue, events>>

StageGroup ==
    /\ pc = "group"
    /\ batchStats(call) => Barrier({"V"})
    /\ ub' = [b \in Buffers |->
                 IF b \notin Staging THEN ub[b]
                 ELSE IF b[2] >= staged THEN Zero
                 ELSE IF batchStats(call) THEN ub[slot(b[2])] ELSE ub[b]]
    /\ pc' = "flush"
    /\ UNCHANGED <<call, blockIdx, row, staged, queue, events>>

FlushRstd ==
    /\ pc = "flush"
    /\ Barrier(Pipes)
    /\ pc' = IF row < myRows THEN "row" ELSE "done"
    /\ staged' = 0
    /\ Issue([MTE3 |-> CopyStaging(row, staged),
              V |-> If(batchStats(call) /\ row < myRows, PrimeSlots)])
    /\ UNCHANGED <<call, blockIdx, row, events, ub>>

RunPipe(p) == Execute(p) /\ UNCHANGED <<call, blockIdx, pc, row, staged>>

Terminated == pc = "done" /\ Drained /\ UNCHANGED vars

Scalar == StartProcess \/ ProcessRowBatched \/ ProcessRow \/ StageRow \/ StageGroup \/ FlushRstd

Next == Scalar \/ (\E p \in Pipes : RunPipe(p)) \/ Terminated

Spec == Init /\ [][Next]_vars

-----------------------------------------------------------------------------
(* Correctness.                                                            *)

(* The vector unit finds its row, gamma and beta in the tensors of the     *)
(* input queues (gamma and beta pass through those of x1), the chain its   *)
(* sums in the slots, and MTE3 its row in outQue, although every queue has *)
(* two tensors and the scalar unit waits for nobody between two groups     *)
(* (kernel_add_rms_norm_stats.cpp:199-261, 309-322).                       *)
TransfersIntact == Finds("V", Buffers) /\ Finds("MTE3", Tensors)

(* What FlushRstd sends is rstd of the rows of the group, each in its      *)
(* lane, and zero for the rows beyond M: the batched chain, the scalar     *)
(* copies and the zeroing of the tail come in the right order in all three *)
(* modes (166-195, 300-307, 403-406).                                      *)
StagedRight ==
    pc = "flush" => \A i \in Lanes : ub[stage(i)] = Expected(row, staged, i)

(* MTE3 still finds in the staging buffer what FlushRstd sent.  There is a *)
(* barrier before the DataCopy and nothing behind it (410-414).            *)
StagingIntact == Finds("MTE3", Staging)

(* It does wherever the outputs of the rows order it: in mode 0, if every  *)
(* group behind the first has three rows.  The third row gets the tensor   *)
(* of the first of its group, so that the vector unit waits for MTE3 to    *)
(* store that row, behind the DataCopy of the group before, and the scalar *)
(* unit waits for the vector unit (247, 403-406, 410-414).                 *)
LastGroup == ((myRows - 1) % RSTD_GROUP) + 1
RowsOrderGroups == myRows <= RSTD_GROUP \/ (call.mode = 0 /\ LastGroup >= 3)
StagingIntactBehindRows == RowsOrderGroups => StagingIntact

(* The eight rows of a flush lie in the padded output, in rows of this     *)
(* core or of no core, and start at a multiple of eight; and every row is  *)
(* of some core (81-97, host 101, 110-111).                                *)
FlushHitsOwnRows ==
    pc = "flush" =>
        LET first == rowStart(call, blockIdx) + row - staged
            others == UNION {RowsOf(call, b) : b \in (0..blockDim(call) - 1) \ {blockIdx}}
        IN  /\ first % RSTD_GROUP = 0
            /\ first..first + RSTD_GROUP - 1 \subseteq (0..mPadded(call) - 1) \ others
            /\ 0..call.mRows - 1 \subseteq others \cup RowsOf(call, blockIdx)
=============================================================================
