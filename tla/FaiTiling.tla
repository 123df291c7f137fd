------------------------------ MODULE FaiTiling ------------------------------
(***************************************************************************)
(* How fa_fp32_stage1 cuts a call into tasks.  The host counts the tasks   *)
(* of every batch entry, and of the first one separately; then every core, *)
(* twice (cube kernel and vector kernel), walks the batch with a running   *)
(* total of its own to find the entry a task index falls into, and decodes *)
(* the index into a block of tokens x heads.  The two kernels of a core    *)
(* never compare notes: that they work on the same block is arithmetic     *)
(* done three times, and the vector kernel starts from the host's count    *)
(* where the cube kernel starts from the sequence lengths on the device.   *)
(***************************************************************************)
EXTENDS Integers, Sequences, RunningTotals

CONSTANT Inputs     (* the calls considered: records of                    *)
                    (*   qSeqlens  query length of each batch entry        *)
                    (*   hint      q_seqlen_value: 0, or the length all    *)
                    (*             entries have                            *)
                    (*   kvHeads, groupSize, coreNum                       *)

(* What the TORCH_CHECKs of the host admit, and the caller's promise that  *)
(* a non-zero q_seqlen_value is the length of every entry.                 *)
ASSUME InputsAssumption ==
    \A in \in Inputs :
        /\ in.qSeqlens \in Seq(Nat \ {0}) /\ in.qSeqlens # <<>>
        /\ {in.kvHeads, in.groupSize, in.coreNum} \subseteq Nat \ {0}
        /\ in.hint \in Nat
        /\ in.hint > 0 =>
              \A b \in 1..Len(in.qSeqlens) : in.qSeqlens[b] = in.hint

CeilDiv(a, b) == (a + b - 1) \div b
AtMost(a, b) == IF a < b THEN a ELSE b
AtLeast(a, b) == IF a > b THEN a ELSE b

Kernels == {"aic", "aiv"}
subBlockNum == 2

VARIABLES
    input,          (* the call                                            *)
    firstBatchTaskNum, totalTaskNum,        (* tiling, written by the host *)
    walk,           (* per core and kernel: task index, batch entry,       *)
                    (* running totals, tokens before the entry             *)
    decoded         (* per core and kernel: the blocks it worked on        *)

vars == <<input, firstBatchTaskNum, totalTaskNum, walk, decoded>>

Batch == Len(input.qSeqlens)
numHeads == input.kvHeads * input.groupSize
Units == Kernels \X (0..input.coreNum - 1)
Core(u) == u[2]

-----------------------------------------------------------------------------
(* Task shape of a batch entry of qSeqlen tokens.                          *)

GetQNBlockTileRoundedUp(qSeqlen, groupSize) ==  (* mutant: rounds up to even *)
    AtLeast(AtMost(((128 \div qSeqlen + 1) \div 2) * 2, groupSize), 1)

GetQNBlockTile(qSeqlen, groupSize) ==
    AtLeast(AtMost(((128 \div qSeqlen) \div 2) * 2, groupSize), 1)

GetQSBlockTile == 128

qNBlockNumPerGroup(in, qSeqlen) ==
    CeilDiv(in.groupSize, GetQNBlockTile(qSeqlen, in.groupSize))
curQNBlockNumAcrossGroups(in, qSeqlen) ==       (* mutant: tiles cross KV heads *)
    CeilDiv(in.kvHeads * in.groupSize, GetQNBlockTile(qSeqlen, in.groupSize))

curQNBlockNum(in, qSeqlen) == qNBlockNumPerGroup(in, qSeqlen) * in.kvHeads
curQSBlockNum(qSeqlen) == CeilDiv(qSeqlen, GetQSBlockTile)
TaskNum(in, qSeqlen) == curQNBlockNum(in, qSeqlen) * curQSBlockNum(qSeqlen)

(* The length the host counts with: the hint if there is one.              *)
HostSeqlen(in, b) == IF in.hint > 0 THEN in.hint ELSE in.qSeqlens[b]
TaskNums(in) ==
    [b \in 1..Len(in.qSeqlens) |-> TaskNum(in, HostSeqlen(in, b))]

InitFromLastEntry ==                    (* mutant: not `if first entry' only *)
    /\ input \in Inputs
    /\ firstBatchTaskNum = TaskNum(input, HostSeqlen(input, Batch))
    /\ totalTaskNum = RunningTotal(TaskNums(input))[Batch]
    /\ walk = [u \in Units |->
                 [taskIdx |-> Core(u), curBatch |-> 1, preTotal |-> 0,
                  curTotal |-> IF u[1] = "aic" THEN TaskNum(input, input.qSeqlens[1])
                                               ELSE firstBatchTaskNum,
                  tokens |-> 0]]
    /\ decoded = [u \in Units |-> <<>>]

(* Every kernel starts at entry 0 with the tasks of that entry: the cube   *)
(* kernel counts them itself, the vector kernel takes firstBatchTaskNum.   *)
Init ==
    /\ input \in Inputs
    /\ firstBatchTaskNum = TaskNum(input, HostSeqlen(input, 1))
    /\ totalTaskNum = RunningTotal(TaskNums(input))[Batch]
    /\ walk = [u \in Units |->
                 [taskIdx |-> Core(u), curBatch |-> 1, preTotal |-> 0,
                  curTotal |-> IF u[1] = "aic" THEN TaskNum(input, input.qSeqlens[1])
                                               ELSE firstBatchTaskNum,
                  tokens |-> 0]]
    /\ decoded = [u \in Units |-> <<>>]

(* The length of an entry as the device reads it; past the end of the      *)
(* tensor the value is whatever is there.                                  *)
SeqlenAt(b) == IF b \in 1..Batch THEN input.qSeqlens[b] ELSE 1

(* while (taskIdx >= curTotalTaskNum): on to the next batch entry.         *)
NextBatch(u) ==
    LET w == walk[u] IN
    /\ w.taskIdx < totalTaskNum
    /\ w.taskIdx >= w.curTotal
    /\ walk' = [walk EXCEPT ![u] =
                  [taskIdx |-> w.taskIdx,
                   curBatch |-> w.curBatch + 1,
                   preTotal |-> w.curTotal,
                   curTotal |-> w.curTotal + TaskNum(input, SeqlenAt(w.curBatch + 1)),
                   tokens |-> w.tokens + SeqlenAt(w.curBatch)]]
    /\ UNCHANGED <<input, firstBatchTaskNum, totalTaskNum, decoded>>

(* The block of tokens and heads a task index stands for.                  *)
Block(w) ==
    LET q == SeqlenAt(w.curBatch)
        tile == GetQNBlockTile(q, input.groupSize)
        perGroup == qNBlockNumPerGroup(input, q)
        inBatch == w.taskIdx - w.preTotal
        qSBlockIdx == inBatch \div curQNBlockNum(input, q)
        qNBlockIdx == inBatch % curQNBlockNum(input, q)
        inGroup == qNBlockIdx % perGroup
        kvHead == qNBlockIdx \div perGroup
    IN  [batch  |-> w.curBatch,
         kvHead |-> kvHead,
         token  |-> w.tokens + qSBlockIdx * GetQSBlockTile,
         head   |-> kvHead * input.groupSize + inGroup * tile,
         qSBlockSize |-> IF qSBlockIdx = curQSBlockNum(q) - 1
                         THEN q - qSBlockIdx * GetQSBlockTile
                         ELSE GetQSBlockTile,
         qNBlockSize |-> IF inGroup = perGroup - 1
                         THEN input.groupSize - inGroup * tile
                         ELSE tile]

(* The body of the task loop, then taskIdx += coreNum.                     *)
RunTask(u) ==
    LET w == walk[u] IN
    /\ w.taskIdx < totalTaskNum
    /\ w.taskIdx < w.curTotal
    /\ decoded' = [decoded EXCEPT ![u] = Append(@, Block(w))]
    /\ walk' = [walk EXCEPT ![u].taskIdx = @ + input.coreNum]
    /\ UNCHANGED <<input, firstBatchTaskNum, totalTaskNum>>

Done == \A u \in Units : walk[u].taskIdx >= totalTaskNum
Terminated == Done /\ UNCHANGED vars

Next == (\E u \in Units : NextBatch(u) \/ RunTask(u)) \/ Terminated

Spec == Init /\ [][Next]_vars

-----------------------------------------------------------------------------
(* The rows of a block's matrices: where row r of Q, O and lse lives.      *)

RowNum(x) == x.qSBlockSize * x.qNBlockSize
Tokens(x) == x.token .. (x.token + x.qSBlockSize - 1)
Heads(x) == x.head .. (x.head + x.qNBlockSize - 1)

(* Rows go to the sub-blocks by heads, or by tokens if there is one head.  *)
rowSplitSubBlock(x) ==
    IF x.qNBlockSize = 1
    THEN x.qSBlockSize \div subBlockNum
    ELSE x.qSBlockSize * (x.qNBlockSize \div subBlockNum)

rowActualThisSubBlock(x, s) ==
    IF s = 1 THEN RowNum(x) - rowSplitSubBlock(x) ELSE rowSplitSubBlock(x)

SubBlockRows(x, s) ==
    {s * rowSplitSubBlock(x) + i : i \in 0..(rowActualThisSubBlock(x, s) - 1)}

(* loadQGM gathers Q head by head: token t of head n is row n * tokens + t.*)
QRow(x, token, head) == (head - x.head) * x.qSBlockSize + (token - x.token)

(* CopyOToGm: one copy per head of the sub-block, or a single one that     *)
(* starts at the sub-block's first token.                                  *)
ODestination(x, s, r) ==
    LET i == r - s * rowSplitSubBlock(x)
    IN  IF x.qNBlockSize = 1
        THEN <<x.token + s * rowSplitSubBlock(x) + i, x.head>>
        ELSE <<x.token + (i % x.qSBlockSize),
               x.head + s * (x.qNBlockSize \div subBlockNum) + (i \div x.qSBlockSize)>>

LseDestinationTokenMajor(x, s, r) ==    (* mutant: heads change fastest    *)
    LET headLocal == r % x.qNBlockSize
    IN  <<x.token + r \div x.qNBlockSize, x.head + headLocal>>

(* ComputeLseAndWrite: headLocal and tokenLocal of the task's row.         *)
LseDestination(x, s, r) ==
    LET headLocal == r \div x.qSBlockSize
    IN  <<x.token + (r - headLocal * x.qSBlockSize), x.head + headLocal>>

-----------------------------------------------------------------------------
(* Correctness.                                                            *)

BlocksOf(u) == {decoded[u][i] : i \in 1..Len(decoded[u])}
Decoded(k) == UNION {BlocksOf(<<k, c>>) : c \in 0..input.coreNum - 1}
Latest == {decoded[u][Len(decoded[u])] : u \in {v \in Units : decoded[v] # <<>>}}

(* The cube and the vector kernel of a core work on the same blocks in the *)
(* same order (kernel_fa_fp32_stage1.cpp:213-271 and 526-580).  If not,    *)
(* they would disagree on the number of stacks and wait forever.           *)
KernelsDecodeAlike ==
    \A c \in 0..input.coreNum - 1 :
        LET a == decoded[<<"aic", c>>]
            b == decoded[<<"aiv", c>>]
        IN  \A i \in 1..AtMost(Len(a), Len(b)) : a[i] = b[i]

(* The blocks tile the output: within the rows of the right batch entry    *)
(* and KV head, no row in two blocks, and at the end no row in none.       *)
TokensBefore(b) == RunningTotal(input.qSeqlens)[b - 1]

BlockInItsEntry(x) ==
    /\ x.qSBlockSize > 0 /\ x.qNBlockSize > 0
    /\ x.token >= TokensBefore(x.batch)
    /\ x.token + x.qSBlockSize <= TokensBefore(x.batch) + input.qSeqlens[x.batch]
    /\ x.head >= x.kvHead * input.groupSize
    /\ x.head + x.qNBlockSize <= (x.kvHead + 1) * input.groupSize

BlocksTileOutput ==
    LET blocks == Decoded("aiv") IN
    /\ \A x \in Latest : BlockInItsEntry(x)
    /\ \A x \in Latest, y \in blocks :
          x # y => Tokens(x) \cap Tokens(y) = {} \/ Heads(x) \cap Heads(y) = {}
    /\ Done => \A token \in 0..TokensBefore(Batch + 1) - 1, head \in 0..numHeads - 1 :
                  \E x \in blocks : token \in Tokens(x) /\ head \in Heads(x)

(* A block has at most 128 rows (kRowNumMax, 127-132) and a sub-block at   *)
(* most 64, which is what one vector instruction of the softmax covers and *)
(* what makes two lse staging banks enough.                                *)
RowsFit ==
    \A x \in Latest :
        /\ RowNum(x) <= 128
        /\ \A s \in 0..subBlockNum - 1 : rowActualThisSubBlock(x, s) \in 0..64

(* The query row that enters as row r leaves as row r: O and lse of a row  *)
(* go to the token and head its Q came from, whichever sub-block has it.   *)
RowsGoHome ==
    \A x \in Latest :
        /\ UNION {SubBlockRows(x, s) : s \in 0..subBlockNum - 1} = 0..RowNum(x) - 1
        /\ \A s \in 0..subBlockNum - 1 : \A r \in SubBlockRows(x, s) :
              LET o == ODestination(x, s, r)
              IN  /\ LseDestination(x, s, r) = o
                  /\ QRow(x, o[1], o[2]) = r
=============================================================================
