# Verification of the cascade-attention kernels

TLA+ models of the Ascend operators under `ascend-kernel/` that carry cascade
attention, checked with TLC. For the cross-core protocol, the vector pipes, the task loops, the
tiling, its staging, `f3_floor` and `lse_merge` the safety properties are also proved with TLAPS,
for every value of the parameters.
Paths below are relative to `src/ascend-kernel/` unless they start with `src/`.
`catlass` stands for `third_party/catlass/include/catlass`.

## 1. The system

The repository is a PyTorch plug-in for Ascend NPUs. A host function per operator
checks its tensors, computes a tiling and launches a kernel; the kernel runs on every
AI core of the device. The operator that matters is `fa_fp32_stage1`, paged flash
attention with fp32 output and log-sum-exp, which vLLM calls for the shared prefix of
a batch; `lse_merge` merges its result with that of a second stage;
`add_rms_norm_stats` is the fused norm; the rest are measurement kernels.

An AI core is a cube core (AIC) and two vector sub-blocks (AIV). Each has a scalar
unit that runs the program and issues instructions to pipes (MTE1, MTE2, MTE3, M, V,
FIX); a pipe executes its instructions in order, at its own pace. Inside a core pipes
meet through events (`SetFlag`/`WaitFlag`), across cores through flags
(`CrossCoreSetFlag`/`CrossCoreWaitFlag`). None of this shows in a unit test: a missing
event gives the right answer almost always.

| component | state | operations | talks to |
|---|---|---|---|
| cross-core protocol (`kernel_fa_fp32_stage1.cpp`, block classes in `catlass`) | three workspace slots each of S, P, OTmp per core; flags qkReady, softmaxReady, pvReady | QK, softmax, PV, rescale of each KV stack | workspace in global memory |
| task loops (same file, twice: AIC and AIV) | kvSIdx, stackSeqCount | main and secondary loop over the KV pages of a task | issue the calls of the protocol |
| tiling and task decode (`op_host/fa_fp32_stage1.cpp`, kernel, `kernel_common.hpp`) | task counts in the tiling; running totals per core and kernel | count, walk the batch, decode a task index, split rows | host to kernel through the tiling; the two kernels never compare |
| tiling staging (`op_host/fa_fp32_stage1.cpp`) | registry of pinned/device buffer pairs, mutex | look up by content, allocate, copy, launch | streams, captured graphs, other threads |
| vector pipes (`catlass/epilogue/block/*`) | UB buffers ls, lp, dm, hm, gl, lo, go, lse staging; events | row loops of the softmax, fold, output | flags of the protocol |
| cube pipes (`catlass/gemm/block/block_mmad_fai_{qk,pv}_normal.hpp`) | L1, L0A, L0B, L0C buffers; events | page loop with prefetch | flags of the protocol |
| `lse_merge`, `add_rms_norm_stats` | queues of UB tensors per core, staging of results | tile and row loops | global memory |
| `fia_grain_floor` | as the task loops, with a stack depth from the environment | measures the depth; page loads of the cube core | host through the tiling |
| `f3_floor` | a workspace C in global memory, one UB buffer per half on each vector core; a flag with reverse credit | GEMM tile on the cube core, copy of the tile on the vector cores | cube core to vector cores through C and the flag |
| `bw_probe` | queues as `add_rms_norm_stats`; running sums of K tiles | rows, or K tiles of eight rows | global memory |
| launch helpers, registration, build, Python | none of their own | glue | torch_npu |

What makes each correct, and hard: producers are never told that a workspace slot has
been read, nor that a UB buffer has been copied out (ordering by other means); the
same loop, task count and address arithmetic is written two or three times and must
agree or the cores wait for each other for ever; buffers outlive calls (graphs replay
copies at any time); calls race for the registry. Every such spot is a line in
`PROJECT.json` under `hazards`, with the properties that would catch it.

## 2. Modules

`KvStacks` numbers the KV stacks (four pages of 128 rows) of all the tasks of a core
and defines, in two counters per walker, the order in which anybody handles them:
stage 1 (QK, softmax) runs at most two stacks ahead of stage 2 (PV, rescale) inside a
task, and the next task begins when this one is drained. Everything below uses it.

| module | models | correspondence |
|---|---|---|
| `StackSchedule` | the order of `KvStacks` as a behaviour: what each kernel promises the other | abstract |
| `KvFold` | what the kernel promises: every sub-block folds the stacks of a task in order, afresh for each task, and publishes at the last | abstract |
| `FaiCrossCore` | the protocol on one core: scalar unit, MTE2 and FIX of the cube core; scalar unit, MTE2 and MTE3 of each sub-block; flags; slots | one action per unit and call: `CubeQK`, `CubePV` (waits for softmaxReady inside the call), `LoadP`, `FixS`, `FixO`, `IssueSoftmax`, `IssueRescale`, `CopyS`, `CopyOTmp`, `WriteP`, `WriteO` |
| `FaiTaskLoop` | the two loops as written, per kernel, with their own counters | one action per call or loop edge; a call records its page, slot, width, first and last |
| `FaiTiling` | host counts, the batch walk of both kernels on every core, block decode, row split, addresses | `Init` is the host, `NextBatch` the `while`, `RunTask` the loop body |
| `TilingStaging` | `GetTilingStaging`, the copy and the launch, streams, capture and replay | one action per step a thread takes under or outside the lock; `Replay`, `Execute` are the runtime (external) |
| `FaiEpilogue` | one sub-block instruction by instruction | a call appends instructions to three queues; an instruction waits for events, reads, writes, raises events |
| `FaiCubePipes` | the cube core instruction by instruction: loadQGM, both products page by page, L1, L0, events | as `FaiEpilogue`, with four pipes |
| `RmsNormStats` | one core of `add_rms_norm_stats` and the host's padding and grid | `ProcessRow` (per row) and `ProcessRowBatched` issue a row; `StageRow`, `StageGroup` and `FlushRstd` are the scalar unit's own steps, behind their barriers |
| `LseMerge` | one core of `lse_merge` and the host's grid | a tile is `BeginTile`, `CompactLse` and `FreeLse` for each strided lse, `Weigh`, `MergeTile` |
| `FiaGrainFloor` | both kernels' loops (an instance of `FaiTaskLoop` for each launch) with the page loads of the cube core, for any depth | `CubeQK` and `CubePV` issue the instructions of the pages a call takes; `LoadNext` is the page it loads ahead for the next call |
| `F3Floor` | one core of `f3_floor`: cube core (scalar unit, FIX), two vector cores (scalar unit, MTE2, V, MTE3), flag and answer | `AicTile`, `AicCredit` (waits for the answer), `AivTile`, `AivLastWait`, returns behind a barrier |
| `BwProbe` | one core of `bw_probe` and the host's padding and grid | variants 0 to 4 `ProcessRow`, `StageRow`, `ZeroTail`, `FlushRstd`; 5 and 6 `ProcessTile`, `StoreGroupRstd` |
| `RunningTotals` | the sums that loops of the host and of the kernels keep: of tasks, tokens, stacks | shared by `FaiTaskLoop` and `FaiTiling` |
| `HardwarePipes`, `TensorQueues` | what these rest on: in-order pipes with events; tensor queues and barriers of AscendC | external, modelled from their use |
| `MC*` | instances for TLC; `MCRowKernels` runs `RmsNormStats` and `BwProbe`, which have the same state | |
| `FaiCrossCoreProofs`, `TilingStagingProofs`, `FiaGrainFloorProofs`, `FaiTilingProofs`, `F3FloorProofs`, `LseMergeProofs` | proofs about the module of that name; `FiaGrainFloorProofs` also about `FaiTaskLoop` | |
| `FaiPipeProofs` | proofs about `FaiEpilogue` | |
| `IntegerLemmas` | products, quotients, remainders, running totals and sequences, for those proofs | |

How they compose: `FiaGrainFloor` runs `FaiTaskLoop`, for the original with its depth of four and for the copy with others, and shows that the loops issue the calls in the order of
`StackSchedule`; `FaiCrossCore` and `FaiEpilogue` start from that order. `FaiCrossCore`
moves whole matrices and shows what the flags order between cores; `FaiEpilogue` looks
inside one sub-block, taking from `FaiCrossCore` that pvReady of a stack comes after
the sub-block's own softmaxReady of it (part of `Control` in the proofs). `FaiTiling`
shows that both kernels see the same tasks and that a sub-block has at most 64 rows,
which `FaiEpilogue` assumes. `FaiCubePipes` looks inside the cube core in the same way:
it takes from `FaiCrossCore` that softmaxReady of a stack comes after its qkReady, and
gives back, as a refinement of `StackSchedule`, that qkReady and pvReady come once per
stack in the order of the schedule. `RmsNormStats`, `LseMerge` and `BwProbe` stand alone;
their cores share nothing but global memory. In `F3Floor` the three cores of one AI core
share a flag and C; the other AI cores have other windows (`WindowsTileD`).

### Abstractions

* A matrix is the number of the stack it was computed from. A read records what it
  found; a property compares with what it should have found. The arithmetic of
  attention is not modelled.
* A transfer is one step, placed anywhere the pipe could be executing it. A transfer
  torn by somebody's write therefore appears as that write placed before it.
* Hardware flags and events count. (For cross-core flags the source says so,
  `catlass/arch/cross_core_sync.hpp:18`; for events it is an assumption.)
* `maskType` is 0: the host fixes it (`op_host/fa_fp32_stage1.cpp:265`), so the mask
  branches of the kernel are unreachable. Head size and page size are 128: the host
  checks them.
* `FiaGrainFloor` leaves out M, FIX and the vector pipes: they give back within a page or a
  call what they take, whatever the depth, so only MTE2 and MTE1, which carry a page from
  one call to the next, can be stopped by a depth. The scalar unit waits for softmaxReady
  before the whole of P\*V rather than behind its first page.
* In `F3Floor` rows are counted in 16s, columns in N tiles, of which the host makes M and
  the width multiples; the block matmul is its two stores.
* A scalar instruction takes effect where the program stands. A barrier makes the scalar
  unit wait until the pipes have run dry; `AllocTensor`, `EnQue`, `DeQue` and
  `FreeTensor` order pipes only. For the scalar reads of `CompactLse` that is not
  enough, and the device runs them correctly, so `DeQueStopsScalar` is assumed there.
* A tiling is one value plus the padding bytes nobody writes; `FieldWidths` computes
  from the struct's layout that there is padding.

## 3. What is checked

| run | instance | what it shows |
|---|---|---|
| `crosscore` | two sub-blocks; tasks of 5, 1, 2, 2 stacks | `UnreadSlotsIntact`, `RescaleFoldsItsStack`, `FlagDepthBounded`, `OutputOutBeforeReuse`, types; `KernelReturnsDrained` (no deadlock, no flag left raised) and `ImplementsKvFold` (refinement, with liveness) |
| `tiling` | nine calls on the boundaries of the tiling | `KernelsDecodeAlike`, `BlocksTileOutput`, `RowsFit`, `RowsGoHome` |
| `staging` | two threads, two streams, two tilings, three calls, one replay, one failed allocation | `KernelReadsOwnTiling`, `NoDuplicateBytes`, `MutexIsReleased` |
| `staging_duplicates` | the same with two values of the padding | violates `EqualTilingsShareStaging` |
| `epilogue` | four tasks; 40, 24, 64 and 0 rows; short last stacks | `PingPongIntact`, `OutputIntact`, `FoldFindsItsPieces`, `KernelTakesItsEvents` |
| `cubepipes` | four tasks of 13, 1, 2 and 7 pages | `L1Intact`, `L0Intact`, `FlagsInOrder` (refinement), `KernelTakesItsEvents` |
| `rows` | `add_rms_norm_stats` in three modes, cores with 7, 10, 11, 16, 2 and 0 rows; `bw_probe` in seven variants, cores with 3, 10, 11, 16, 8, 2 and 0 rows | `RmsTransfersIntact`, `RmsStagedRight`, `RmsStagingIntact`; `ProbeTransfersIntact`, `ProbeRstdIntact`; of both `WritesHitOwnRows`, `KernelsReturn` |
| `rmsnorm_staging` | the three modes | violates `StagingIntact` |
| `bwprobe_rstd` | variant 6, one core with two groups | violates `RstdIntact` |
| `lsemerge` | sixteen variants; cores with 0 to 72 rows | `TilesIntact`, `TileHitsOwnRows`, `KernelReturns` |
| `loops` | depth 4: tasks of 1025, 0, 512, 129, 2048, 1 and 1537 rows of KV; depths 1, 2, 3, 5, 6 and 8 with KV lengths on both sides of what returns | `CallFitsItsStack`, `PagesFillTile`, `LoopsImplementSchedule` (refinement, both kernels), `ReturnsIffDepthFits` (liveness, and hanging) |
| `f3floor` | a reverse depth of 2; one to five tiles per core, part tiles, tiles without rows for sub-block 1, a core without tiles; every mode, D apart and in place | `WindowsIntact`, `FlagDepthBounded`, `WindowsTileD`, `KernelReturns` |

Results worth a reader's time:

* **Why three slots suffice.** S of stack g+3 may overwrite S of g because FIX can
  write it only after PV of g was issued, which waited for softmaxReady of g, which
  MTE3 raises after MTE2 read S. P and OTmp are ordered by similar detours. With two
  slots, or without the wait in `blockMmadPV`, the runs fail.
* **Why the output buffers survive the next task.** `V_MTE2(EVENT_ID3)` is raised
  before O is divided and copied, and the comment in the rescale epilogue
  (lines 383-394) argues with drain times. `OutputOutBeforeReuse` and `OutputIntact`
  show that no timing is needed: pvReady of the next task's first stack implies that its P has
  left through the same in-order MTE3 pipe, behind O and lse of the task before; inside
  a task 64 rows make two lse chunks, and there are two banks. If the next task started
  before this one is drained, or with more than 64 rows, this would break.
* `noMaskKvS - kvSIdx * pagedBlockSize` in the vector kernel's main loop (line 632)
  looks wrong and is never reached: a delayed stack in the main loop is never the last
  (`CallFitsItsStack`).
* With staging deduplicated by content, what a kernel reads does not depend on calls
  being made from one thread: `KernelReadsOwnTiling` holds with two threads and two
  streams. The host comment (lines 126-129) still warns of a race on staging bytes.
* **Finding**: equal tilings may get separate staging pairs, contrary to the comment at
  lines 74-76. The comparison runs over `sizeof(FATilingData)`, 96 bytes, of which 8 are
  padding of a stack variable. The kernel still reads the right tiling; the cost is a
  leaked pair per distinct garbage.

* **Q of the next task is loaded over this one's with no event** (`loadQGM`). It is safe
  because the scalar unit issues it after the last P\*V of the task, which waited for
  softmaxReady, which follows the last Q\*K^T's qkReady, raised by FIX after the product
  that came after MTE1 read Q. Without the wait inside `blockMmadPV`, `L1Intact` fails.
* MTE2_MTE1(EVENT_ID3), used for Q and for every other page of V, and MTE2_V(EVENT_ID0)
  may be raised twice before they are waited for. In the models events count, so this is
  harmless; if the hardware kept one bit, it would not be.
* **Finding**: the staging buffer of rstd. `add_rms_norm_stats/design.md` section 5.3 lists
  as a candidate that the copy of one group may be overtaken by the scalar writes of
  the next, and calls the risk low because eight rows lie between. The
  runs sharpen this. In mode 0 the order is guaranteed, by no event meant for it: the
  third row of a group takes the output tensor of the first, so the vector unit waits
  for MTE3, which copies in order, and the scalar unit waits for the vector unit
  (`RmsStagingIntact`; with two rows it fails). In mode 1 only one
  row lies between, and in mode 2 nothing is ordered at all (`StagingIntact` is violated).
* The zeroing of the tail of rstd is right only behind the batched chain, which fills all
  eight lanes, as the comment says (`RmsStagedRight`).
* The missing `EnQue` that the comment in `lse_merge` reports for fp32 o1 (lines 180-183)
  is the mutant of `KernelReturns`: the pipes stop.
* **Why other depths hang.** `kernel_fia_grain_floor.cpp:109-115` records "1/2 -> hang, 8 ->
  hang" and leaves the cause open. A block matmul takes up to four pages whatever the
  depth, and its last page loads the page behind. With a depth below four the next
  call starts on a page that was taken already, with one above four on a page further on;
  the loaded page is waited for in the other half, or never, and the event it needs does not
  come. `ReturnsIffDepthFits` says exactly which launches return: those of depth four, tasks
  that fit both depth and four pages, and an even depth above four when the last stack has at
  most four pages. So not every launch with depth 8 hangs: some return, and
  `PagesFillTile` says that they then leave pages out of every full stack.
* **Finding**: rstd of variant 6 of `bw_probe`. The kernel's comment (lines 279-288) records
  rstd as garbage, 0 to about 700, and suspects the reduction. In the model the reduction is
  right and rstd wrong: the copy of a group's rstd waits in MTE3 behind the stores of its
  tiles, while the vector unit clears and refills the same `acc` for the next group, since
  no event runs from MTE3 to V. The values that a copy can find are 0 and the sums of the
  first one or two K tiles, whose size agrees with the recorded ones. The last group of
  each core is right (`ProbeRstdIntact`).
* Variants 2 to 4 of `bw_probe`, which have the staging buffer of `add_rms_norm_stats` in mode 0,
  have its race too, in lanes 0 and 1 of a group: the third row waits for the store of the
  first, behind the copy. `ProbeRstdIntact` states the lanes that are safe.
* `f3_floor` counts flags on both sides and answers every fifteenth. A vector core that
  skipped the flag of a tile without rows for it would let the counts drift apart
  (a mutant); as written the flag stays within the depth, the answer within one, and an
  in-place D is safe, since a window is stored only after both halves were loaded.

### Bounds

* Protocol: a task longer than the slots (5 stacks) reuses slots inside a task; one,
  two and two stacks reuse them across tasks, with the next task's slot 0 coming while
  another slot is in use. The state is a window of at most three stacks around the
  walkers, so longer tasks repeat it, and the proofs are for any number.
* Loops: lengths sit on, before and after page and stack boundaries, 0 to 4 stacks. Depths
  from 1 to 8 on each side of the contract, odd and even, and KV lengths on each side of
  every clause of `TaskReturns`, with a second task that might take what the first left.
* F3: `REVERSE_DEPTH` is 2 in place of 15, so that five tiles mean two answers and a rest. The
  three cores meet at most one answer apart, whatever the depth.
* Tiling: decode and prefill lengths, groups the head tile does and does not divide, a
  single head, more than 128 heads, more tokens than a block, mixed batches, fewer tasks
  than cores. Two cores (one in one call).
* Staging: `MaxCalls`, `MaxReplays`, `MaxFailures` bound the calls, replays and failed
  allocations. Two calls are a race; the third comes with either outcome present.
* Epilogue: row loops of 1 to 3 per stack, one and two chunks, odd and even bank at the
  start of a task, a sub-block with no rows.
* Cube pipes: an odd number of pages, so that the next task finds the halves the other way
  round; a task of one page, whose first page is its last; a short last stack.
* Norm and probe: `RSTD_GROUP` is the code's eight. Less than a group, exact groups, one group and
  two or three rows (the bound of the finding), a core without rows. Rows beyond the third
  of a group repeat the state of the two-tensor queues.
* Merge: `TILE_ROWS` is the code's 32; up to three tiles (queues have one tensor, so the
  second tile already meets the first), short tiles, cores without rows.

### Fairness

Pipes and scalar units are hardware: weak fairness, each unit for itself
(`FaiCrossCore`, `FaiEpilogue`, `FaiCubePipes`, `LseMerge`). In `FiaGrainFloor`, `F3Floor` and
`MCRowKernels` weak fairness of the whole next-state relation is enough, which is less: their
steps use up program or queued instructions, so none can be repeated for ever while another
waits. A launch of `FiaGrainFloor` that hangs, or returns, takes no further step, which is why
that run does not check for deadlock and `ReturnsIffDepthFits` tells the two apart. In `TilingStaging` a thread that is
inside the operator goes on and a stream executes; nobody has to call, and nothing has
to be replayed. No run needs strong fairness: only one thread at a time waits for the
mutex while another holds it, and `MutexIsReleased` speaks of the holder.

## 4. What is proved

`FaiCrossCoreProofs` proves, for any number of stacks, any division into tasks and any
set of sub-blocks: `TypeOK`, `UnreadSlotsIntact`, `RescaleFoldsItsStack`,
`OutputOutBeforeReuse`, `FlagDepthBounded`, and `Spec => KF!Spec` (each step folds or
stutters). The assumptions are `StackAssumption` (tasks are contiguous runs of stacks)
and `NoStackAssumption` (the mark for an uninitialised slot is not a stack).

The invariant is `IInv == TypeOK /\ Control /\ UnreadSlotsIntact /\ ReadsRight`.
`UnreadSlotsIntact` is not inductive, since nothing in it says how far apart the units can
be. `Control` says it: every walker keeps its stage 1 within the window of the schedule
(`Windows`); each flag counter is the difference between the unit that raises and the
unit that lowers it (`FlagsCount`); and the units of one core follow one another in pipe
order (`InOrder`). From the windows and the flag counts follows that two stacks that are alive
in the same array are fewer than three apart or have the same first stack and different
slots (`SlotsDiffer`, `WindowSlotsDiffer`), and so a write hits no unread slot. `ReadsRight` adds that
what has been read was right, which the refinement needs. Then: `InitIInv`; one lemma
for each conjunct under every action (`WalkersStep`, `OrderStep`, `TypeStep`,
`SlotsStep`, `ReadsStep`); `Invariance`; and the properties as consequences. For the
refinement, `WriteOFolds` maps the one step that folds and `OthersStutter` the rest.

The same invariant shows that the cores never wait for each other for good
(`CoresNeverStuck`) and that, once all are through, no flag is left raised for the next launch
(`FlagsAllTaken`, the safety half of `KernelReturnsDrained`). Suppose nobody can go on and FIX is not
through. Then FIX waits for P of a stack that it has passed with Q*K^T (`FixWaitsForP`). But a unit
of a vector core that has not come to that stack has its softmax due (`DueEarlier`), with the
flag for it raised already, and so is not stuck (`SoftmaxNotMissing`). And when FIX is through,
all the others are (`FixIsLast`).

`TilingStagingProofs` proves, for any number of threads, streams, tilings, calls, replays and
failed allocations, `KernelReadsOwnTiling` and `NoDuplicateBytes`. The assumptions are
`StagingAssumption` (the mark for a free mutex is no thread) and `NullAssumption` (the mark for
an empty device buffer is no tiling). `KernelReadsOwnTiling` speaks of kernels that have run;
the invariant `IInv` says why the next one will do: a pair's host buffer and content agree and are
never rewritten, so its device buffer is empty or holds them (`PairsKept`); a call past the
lookup, a queued command and a graph name a pair made for their own tiling (`CallsRight`,
`QueueRight`, `GraphRight`); and every kernel in a queue is behind a copy of its pair, unless
one has been executed already, as is a call between its copy and its launch (`Covered`). No step
takes any of this away from a pair (`Keeps`), so that the lemmas about queues (`QueueKept`,
`QueueExtended`, `GraphQueued`, `QueueAfterHead`) serve every action. `LockHeld` (whoever looks
up or allocates holds the mutex, and allocates only what no slot has) gives `NoDuplicateBytes`.
There is one lemma per action, `StepRight` and `Invariance`, and the two properties follow.
`HolderNeverStuck` is the safety half of `MutexIsReleased`: whoever holds the mutex is between
lock and unlock (`HolderInside`) and never waits there, and a thread inside the operator waits
for nobody but the holder.

`FiaGrainFloorProofs` proves, for any set of launches, any KV lengths of any number of tasks
and any depth, `CallFitsItsStack`, `PagesFillTile` and `LoopsImplementSchedule`, and that the calls
of each kernel are a behaviour of `StackSchedule` (`LoopsRefineSchedule`, its safety part).
The assumption is `LaunchesAssumption` (lengths are naturals). The loops
keep `kvSIdx`, `stackSeqCount` and the place in the program apart, and none of the three properties
is inductive. The invariant `Inv` ties them together: with c = `stackSeqCount` in task t, `kvSIdx` is
c times the depth, and the calls made of either stage are the stacks of the tasks before t plus c
or a little less, depending on the place (`PlaceIn`); the last call is about the stack that
follows (`About`). There is one lemma for the effect of each edge of the loops
(`MainStage1Effect` to `NextTaskEffect`), `KernelStep` collects them, `KernelScheduled`
shows that each call is the next of the schedule, and `AboutFits` and `AboutFills` give what a call
is given. Pipes and flags play no part: they can stop a kernel, never send it elsewhere.
`StacksAreAsAssumed` closes the circle: the stacks that the loops count satisfy
`StackAssumption`, from which the proofs about `FaiCrossCore` start.

`FaiTilingProofs` proves, for every call that the host admits (`InputsAssumption`: nonempty
entries, at least one head and core, and a hint, when there is one, that is the length of every
entry), `KernelsDecodeAlike`, `BlocksTileOutput`, `RowsFit` and `RowsGoHome`. `Inv` says of each walk
that its running totals are those of the batch entry it stands at, that its task is
not before that entry, and that the n-th block it decoded is that of the n-th task index of its
core. The rest is arithmetic, which no state machine helps with: the quotients and remainders of the
decode are a bijection between the task indices of an entry and the places of a product (`Decode`,
`Encode`), a task index belongs to one entry (`EntryUnique`), blocks of different places
are apart (`BlocksApart`), and every row is in one (`RowInBlock`). The split between sub-blocks
has two cases, by rows of one head and by heads (`OneHead`, `ManyHeads`).

`F3FloorProofs` proves, for any M and I, any number of cores and any depth of the flag
(`ParametersAssumption`), `WindowsIntact`, `FlagDepthBounded` and `WindowsTileD`, and that three
cores that have returned leave no flag or event behind and D complete (`ReturnsAlwaysClean`, the
safety half of `KernelReturns`). `Inv` says what is in every queue. FIX has the
instructions that `aic.loopIdx` and the length of its queue imply (`FixQueue`). The queues of
a vector core follow from one list, the tiles issued and not yet stored, and two numbers, how many of
them are loaded and how many passed on to MTE3 (`Queued`); exactly one of the three events is
raised, for the pipe whose turn it is (`Tokens`). Flags and answers are counted
against the loop counters of both sides (`Credit`): a drift of one tile would break an equation
here, long before a core hangs. `FixFinds` and `VectorFinds` give memory its content: what the
tiles on their way will read is there, or will be by an instruction in front of the reader.
`WindowsDiffer` (windows of two tiles or halves are disjoint) keeps them, in place too. One lemma per
action (`AicTileInv` to `StorePipeInv`), `NextInv`, and the properties as consequences.
`CoresNeverStuck` says that until the three cores have returned one of them can go on. A
pipe of a vector core that has anything queued has a pipe of the same core with its event
(`VectorPipesGoOn`), and FIX waits for nothing (`FixGoesOn`). With all queues empty `Credit`
leaves no circle: a cube core that waits for an answer has left a flag to take, and vector cores
that wait for a flag are at the cube core's own tile (`CoresGoOn`).

`LseMergeProofs` proves, for all variants, any number of rows and every core, `TilesIntact`,
`TileHitsOwnRows`, and that a core that is done, with its pipes dry, has every tensor free and no
event left (`AlwaysReturnsClean`, the safety half of `KernelReturns`). Only `TilesIntact`
assumes `DeQueStopsScalar`, as the run does: without it `CompactLse` may read an lse that is still
on its way. The code of all tiles end to end is one program per pipe, and `Inv` says at
which places u, v and w of theirs MTE2, V and MTE3 are. Each event is then a difference between how
often one pipe has executed its instruction that raises it and another the one that takes it
(`Counted`), and each buffer holds the tile of its last write (`Held`). That is all that orders the
pipes: an event is never negative, so the places are as far apart as they have to be (`CodeFinds`,
`StoreFinds`). The one thing events do not say is that the scalar unit does not begin a tile
before V had the weights of the one before, which it reads itself (`Weighed`). There is a lemma for
a step of each pipe (`LoadStep`, `VectorStep`, `StoreStep`) and of each operation (`BeginTileStep` to
`MergeTileStep`), `NextInv`, and the properties as consequences (`InvTiles`, `InvReturns`).
`TileHitsOwnRows` needs no more than the tile counter and its quotients (`Begun`).
`CoreNeverStuck` says that until a core is done and dry its scalar unit or a pipe can go on. V
waits for its tile's load, which then can go on (`LoadGoesOn`), or for the buffer that the previous
store frees, which then can (`StoreGoesOn`); once V is dry the other two run dry
(`PipesRunDry`), and the scalar unit, which has only barriers and tensors to wait for, goes on.
It does not depend on `DeQueStopsScalar`.

`FaiPipeProofs` proves about `FaiEpilogue`, for any stacks, any division into tasks and any rows and
columns of them (`StackAssumption`, `EpilogueAssumption`: at most 64 rows, the same for all stacks of a
task), `PingPongIntact`, `OutputIntact` and `FoldFindsItsPieces`; that no event is left raised
once the pipes have executed everything (`NothingLeftRaised`, the safety half of
`KernelTakesItsEvents`); and that before that somebody can always go on (`PipesNeverStuck`: a pipe
has what its next instruction waits for, or the scalar unit can issue). None of these is
inductive, since nothing in them says how far apart the pipes are, and the queues they speak of were
filled calls ago. `Inv` says it. The calls of the scalar unit spell out one program, known beforehand, in
cycles of eight places: a cycle for each row loop, fold and chunk of the schedule (`Code`,
`Places`). Each pipe is at a place of it, and its queue is the program from there to the end of what is
issued (`Queues`); each event is the difference between how many places that raise it and that
take it have been passed, plus its credit (`Counted`); each buffer holds what the last of its writers
that has been passed wrote (`Held`); and a rescale is issued only when the last P of its stack has
been stored, which is what pvReady means here (`Issued`). From the counts follows who must be behind
whom when a pipe can execute (`Orders`), and from these orders, for every pair of an
instruction and a buffer it reads, that the last writer passed is the one meant (`AllFound`,
`InvFinds`): no later writer may be passed, and the one meant must be. That is where the two halves, the
two banks and the three slots of dm come in. Then `InitInv`, one lemma for a step of a pipe
(`PipeStep`) and for each call (`SoftmaxStep`, `RescaleStep`, `FinalStep`), `NextInv`, and the
theorems. For `PipesNeverStuck`, the pipe whose next place is the first of all finds its events raised
(`FirstNotBlocked`); if all queues are empty, the scalar unit can issue (`ScalarNotBlocked`).

Only model-checked: liveness, which is out of the prover's reach (`KernelReturnsDrained`, the
fairness part of `ImplementsKvFold`, `FlagsInOrder`, `MutexIsReleased`, `KernelTakesItsEvents`,
`KernelReturns`, `KernelsReturn`, `ReturnsIffDepthFits`). Of `FaiCrossCore`, `FaiEpilogue`, `F3Floor`,
`LseMerge` and the mutex only the fairness half is left there: that nobody is ever stuck, and
that a return leaves nothing behind, is proved. ENABLED is out of reach too, so these
theorems spell out the guards of the actions (`SomeoneGoesOn`, `ScalarGoesOn`, `PipeGoesOn`, `CanGoOn`),
each beside its theorem. Also only model-checked are the safety properties of `FaiCubePipes`,
`RmsNormStats` and `BwProbe`. The proof about `FaiEpilogue` is the pattern for them. In
the cube core a call also holds the loads that its last page makes for the next call, so that its
program is not a sequence of calls of a fixed shape; the work is not done.

## 5. What is not modelled

* The arithmetic: softmax, rounding, accuracy.
* Offsets beyond 2^32 elements; KV lengths of 0 on the fast path (the caller's promise).
* The probe variants of `lse_merge` and pairSum = 0, which are compiled out or never passed.
* Of `fia_grain_floor` the M, FIX and vector pipes at depths other than four, and S, whose row
  stride follows the depth in the softmax but not in Q\*K^T; its copies of the task decode and
  of the tiling staging, which `FaiTiling` and `TilingStaging` model from the original.
* Of `f3_floor` the inside of the block matmul, and SwiGLU, which mode 1 does not have yet.
* `csrc/utils/torch_aclnn_helper.h`: `EXEC_NPU_CMD`, which no operator uses.
* Vendored catlass apart from the classes the kernel instantiates; build, Python, tests.
* The lifetime of workspaces between the call and the launch from torch_npu's task
  queue: it rests on the caching allocator, which is not in this repository.

## 6. Plan

1. (done) `KvStacks`, `FaiCrossCore`, `KvFold`, its proofs; `FaiTaskLoop`,
   `FaiTiling`, `TilingStaging`, `FaiEpilogue`.
2. (done) `FaiCubePipes`: L1 and L0, page prefetch across calls, Q across tasks.
3. (done) `TensorQueues`, `RmsNormStats`, `LseMerge`.
4. (done) `FiaGrainFloor`, `F3Floor`, `BwProbe`.
5. (done) Proofs about `TilingStaging`, for any number of threads and streams.
6. (done) Proofs about `FiaGrainFloor` and `FaiTaskLoop` (which implement `StackSchedule`),
   `FaiTiling`, `F3Floor` and `LseMerge`, for all sizes.
7. (done) Proofs about `FaiEpilogue`, for all sizes, with freedom from deadlock.
8. (done) Freedom from deadlock of `FaiCrossCore`, `F3Floor`, `LseMerge` and the mutex.
9. Proofs about `FaiCubePipes`, `RmsNormStats` and `BwProbe`.
