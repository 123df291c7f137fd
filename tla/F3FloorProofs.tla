---------------------------- MODULE F3FloorProofs ----------------------------
(***************************************************************************)
(* Proofs about F3Floor, for every call: any M and I, any number of cores, *)
(* any depth of the flag.                                                  *)
(*                                                                         *)
(* The inductive invariant says of each queue what is in it.  That of FIX  *)
(* follows from aic.loopIdx and its own length (FixQueue).  Those of a     *)
(* vector core follow from todo, the tiles that the core has issued and    *)
(* MTE3 has not stored: f of them (none or one) is loaded, v of them is    *)
(* passed on to MTE3, and before the a-th there is an answer (Queued).     *)
(* Exactly one of its three events is raised, for the unit whose turn it   *)
(* is (Tokens).  Flags and answers are counted against aic.count (Credit), *)
(* from which their bounds follow; and the memory has what the tiles on    *)
(* their way need (FixFinds, VectorFinds).                                 *)
(***************************************************************************)
EXTENDS F3Floor, IntegerLemmas, FiniteSetTheorems

-----------------------------------------------------------------------------
(* The instructions.                                                       *)
StoreGate(t) ==
    Instruction({}, {}, {<<Gate(t, s), Product("gate", t, s)>> : s \in ActiveSubs(t)}, {})
StoreUp(t) ==
    Instruction({}, {}, {<<Up(t, s), Product("up", t, s)>> : s \in ActiveSubs(t)}, {})
RaiseFlag == Instruction({}, {}, {}, {flag(s) : s \in Subs})

Load(t, s) ==
    Instruction({MTE3_MTE2(s)}, {<<l[1], l[3]>> : l \in Loads(t, s)},
                {<<l[2], l[3]>> : l \in Loads(t, s)}, {MTE2_V(s)})
LastWait(s) == Instruction({MTE3_MTE2(s)}, {}, {}, {})
Pass(s) == Instruction({MTE2_V(s)}, {}, {}, {V_MTE3(s)})
Answer(s) == Instruction({}, {}, {}, {reverse(s)})
StoreOf(t, s) == StoreD(t, s)[1]

(* FIX has K instructions for a tile; the last of them raises the flag.    *)
K == IF call.mode = EPILOGUE_ONLY THEN 1 ELSE 3
FixCode(t, kind) ==
    IF kind = 2 THEN StoreGate(t) ELSE IF kind = 1 THEN StoreUp(t) ELSE RaiseFlag

(* Of the n instructions left, the i-th is of tile FixTile(i).             *)
FixTile(n, i) == aic.loopIdx - ((n - i) \div K + 1) * call.aiCoreNum
FixQueue ==
    LET n == Len(queue[FIX])
    IN  /\ HasLength(queue[FIX], n)
        /\ \A i \in 1..n : queue[FIX][i] = FixCode(FixTile(n, i), (n - i) % K)

PendingFlags == (Len(queue[FIX]) + K - 1) \div K

-----------------------------------------------------------------------------
(* The inductive invariant.                                                *)
Tiles == 0..(coreLoops(call) - 1)

LoopInRange(core) ==
    /\ core.loopIdx \in Nat /\ core.loopIdx < coreLoops(call) + call.aiCoreNum
    /\ core.loopIdx % call.aiCoreNum = blockIdx

CallTypes == call \in Calls /\ blockIdx \in 0..(call.aiCoreNum - 1)
CubeTypes ==
    /\ aic = [pc |-> aic.pc, loopIdx |-> aic.loopIdx, count |-> aic.count]
    /\ aic.pc \in {"loop", "credit", "done"} /\ aic.count \in 0..REVERSE_DEPTH
    /\ aic.pc = "credit" <=> aic.count = REVERSE_DEPTH
    /\ LoopInRange(aic)
    /\ aic.pc = "done" => aic.loopIdx >= coreLoops(call) /\ queue[FIX] = <<>>
CoreTypes(s) ==
    /\ aiv[s] = [pc |-> aiv[s].pc, loopIdx |-> aiv[s].loopIdx, count |-> aiv[s].count]
    /\ aiv[s].pc \in {"loop", "barrier", "done"} /\ aiv[s].count \in 0..(REVERSE_DEPTH - 1)
    /\ LoopInRange(aiv[s])
    /\ aiv[s].pc # "loop" => aiv[s].loopIdx >= coreLoops(call)
PipeTypes ==
    /\ queue = [p \in Pipes |-> queue[p]]
    /\ events \in [Events -> Nat]
    /\ memory = [b \in Buffers |-> memory[b]]
Types ==
    /\ CallTypes /\ CubeTypes
    /\ aiv = [s \in Subs |-> aiv[s]] /\ \A s \in Subs : CoreTypes(s)
    /\ PipeTypes

(* What the vector core s is to find of tile t in C.                       *)
GateStored(t, s) == memory[Gate(t, s)] = InC("gate", t, s)
UpStored(t, s) == memory[Up(t, s)] = InC("up", t, s)
Stored(t, s) == GateStored(t, s) /\ UpStored(t, s)

(* FIX stores a tile before it raises the flag; without a block matmul C   *)
(* keeps what was given.                                                   *)
FixFinds ==
    LET n == Len(queue[FIX])
    IN  IF call.mode = EPILOGUE_ONLY
        THEN \A t \in Tiles : \A s \in ActiveSubs(t) : Stored(t, s)
        ELSE \A t \in Tiles : n # 0 /\ t = FixTile(n, 1) =>
                \A s \in ActiveSubs(t) : /\ (n - 1) % K # 2 => GateStored(t, s)
                                         /\ (n - 1) % K = 0 => UpStored(t, s)

(* Flags on their way, flags raised, and answers not yet taken, of which   *)
(* there is at most one: each stands for REVERSE_DEPTH flags.              *)
Credit(s, a) ==
    LET flags == events[flag(s)] + PendingFlags
        answered == IF a # 0 THEN 1 ELSE events[reverse(s)]
    IN  /\ flags * call.aiCoreNum = aic.loopIdx - aiv[s].loopIdx
        /\ aic.count = flags + aiv[s].count + (IF answered = 1 THEN REVERSE_DEPTH ELSE 0)
        /\ events[reverse(s)] <= 1
        /\ a # 0 => events[reverse(s)] = 0

(* The queues of a vector core; w: whether the last wait is in MTE2.       *)
LoadQueue(s, todo, f, w) ==
    LET loads == Len(todo) - f
    IN  /\ HasLength(queue[MTE2(s)], loads + w)
        /\ \A i \in 1..(loads + w) :
              queue[MTE2(s)][i] = IF i <= loads THEN Load(todo[i + f], s) ELSE LastWait(s)
PassQueue(s, passes) ==
    /\ HasLength(queue[V(s)], passes)
    /\ \A i \in 1..passes : queue[V(s)][i] = Pass(s)
StoreQueue(s, todo, a) ==
    LET stores == Len(todo) + (IF a = 0 THEN 0 ELSE 1)
    IN  /\ HasLength(queue[MTE3(s)], stores)
        /\ \A i \in 1..stores :
              queue[MTE3(s)][i] = IF a = 0 \/ i < a THEN StoreOf(todo[i], s)
                                  ELSE IF i = a THEN Answer(s) ELSE StoreOf(todo[i - 1], s)
Queued(s, todo, f, v, a, w) ==
    LoadQueue(s, todo, f, w) /\ PassQueue(s, Len(todo) - v) /\ StoreQueue(s, todo, a)

(* token: whether the last wait is still to come.                          *)
Tokens(s, f, v, token) ==
    /\ events[MTE3_MTE2(s)] = token - f
    /\ events[MTE2_V(s)] = f - v
    /\ events[V_MTE3(s)] = v

Todo(s, todo, f, v, a, token) ==
    /\ todo \in Seq(Tiles)
    /\ \A i \in 1..Len(todo) : todo[i] < aiv[s].loopIdx /\ HasRows(todo[i], s)
    /\ \A i, j \in 1..Len(todo) : i < j => todo[i] < todo[j]
    /\ f \in 0..1 /\ v \in 0..f /\ f <= Len(todo)
    /\ a \in 0..(Len(todo) + 1)
    /\ token \in 0..1
    /\ token = 0 => todo = <<>>
    /\ call.mode = GEMM_ONLY => token = 0
    /\ call.mode # GEMM_ONLY /\ aiv[s].pc = "loop" => token = 1
    /\ aiv[s].pc = "done" => token = 0 /\ a = 0

(* What is in the unified buffer and in C for the tiles on their way, and  *)
(* in D of the tiles that are stored.                                      *)
InUB(t, s) ==
    /\ ReadsGate => memory[ubGate(s)] = InC("gate", t, s)
    /\ ReadsUp => memory[ubUp(s)] = InC("up", t, s)

UBFinds(s, todo, f) ==
    /\ f = 1 => InUB(todo[1], s)
    /\ ~ReadsGate => memory[ubGate(s)] = Given

LoadsFind(s, todo, f) == \A i \in (f + 1)..Len(todo) : Stored(todo[i], s)

(* The tiles whose flags are raised are the next ones of the core.         *)
Ahead(s, j) == aiv[s].loopIdx + j * call.aiCoreNum
FlagsFind(s) ==
    \A j \in 0..(events[flag(s)] - 1) : \A t \in Tiles :
        t = Ahead(s, j) /\ HasRows(t, s) => Stored(t, s)

StoredBy(s, todo, t) ==
    /\ t % call.aiCoreNum = blockIdx /\ t < aiv[s].loopIdx /\ HasRows(t, s)
    /\ \A i \in 1..Len(todo) : todo[i] # t
DFinds(s, todo) ==
    call.mode # GEMM_ONLY /\ StoresD =>
        \A t \in Tiles : StoredBy(s, todo, t) => memory[D(t, s)] = InD(t, s)

VectorFinds(s, todo, f) ==
    UBFinds(s, todo, f) /\ LoadsFind(s, todo, f) /\ FlagsFind(s) /\ DFinds(s, todo)

Vector(s, todo, f, v, a, token) ==
    /\ Todo(s, todo, f, v, a, token)
    /\ Queued(s, todo, f, v, a, IF aiv[s].pc = "loop" THEN 0 ELSE token)
    /\ Tokens(s, f, v, token)
    /\ Credit(s, a)
    /\ VectorFinds(s, todo, f)

Inv ==
    /\ Types /\ FixQueue /\ FixFinds
    /\ \A s \in Subs : \E todo, f, v, a, token : Vector(s, todo, f, v, a, token)

-----------------------------------------------------------------------------
(* The grid of tiles.                                                      *)

(* The constants of a call.                                                *)
LEMMA CallFacts ==
    ASSUME call \in Calls
    PROVE  /\ call.m \in Nat \ {0} /\ call.nHalf \in Nat \ {0} /\ call.aiCoreNum \in Nat \ {0}
           /\ call.mode \in Modes
           /\ numMBlocks(call) \in Nat \ {0} /\ coreLoops(call) \in Nat \ {0}
           /\ coreLoops(call) = numMBlocks(call) * call.nHalf
           /\ numMBlocks(call) = (call.m + 15) \div 16
           /\ REVERSE_DEPTH \in Nat \ {0}
<1>1. /\ call.m \in Nat \ {0} /\ call.nHalf \in Nat \ {0} /\ call.aiCoreNum \in Nat \ {0}
      /\ call.mode \in Modes /\ REVERSE_DEPTH \in Nat \ {0}
  BY ParametersAssumption
<1>2. numMBlocks(call) = (call.m + 15) \div 16
  BY <1>1 DEF numMBlocks, L1TileShapeM
<1>3. numMBlocks(call) \in Nat \ {0}
  BY <1>1, <1>2
<1>4. coreLoops(call) = numMBlocks(call) * call.nHalf
  BY DEF coreLoops, numNBlocks
<1>5. \A a, b \in Nat \ {0} : a * b \in Nat \ {0}
  OBVIOUS
<1> QED BY <1>1, <1>2, <1>3, <1>4, <1>5

(* Where a tile and its sub-blocks are.                                    *)
LEMMA TileFacts ==
    ASSUME call \in Calls, NEW t \in Tiles
    PROVE  /\ nIdx(t) \in 0..(call.nHalf - 1) /\ mIdx(t) \in 0..(numMBlocks(call) - 1)
           /\ t = nIdx(t) * numMBlocks(call) + mIdx(t)
           /\ n0(t) = nIdx(t) /\ m0(t) = mIdx(t) * 16
           /\ mActual(t) \in 1..16 /\ m0(t) + mActual(t) <= call.m
           /\ call.m - m0(t) >= 16 => mActual(t) = 16
           /\ call.m - m0(t) < 16 => mActual(t) = call.m - m0(t)
           /\ \A s \in Subs : r0(t, s) = (2 * mIdx(t) + s) * 8
<1> DEFINE M == numMBlocks(call)
<1>1. /\ M \in Nat \ {0} /\ call.nHalf \in Nat \ {0} /\ call.m \in Nat \ {0}
      /\ coreLoops(call) = M * call.nHalf /\ M = (call.m + 15) \div 16
  BY CallFacts
<1> HIDE DEF M
<1>2. t \in Nat /\ t < call.nHalf * M
  BY <1>1 DEF Tiles
<1>3. /\ t \div M \in 0..(call.nHalf - 1) /\ (t \div M) * M \in Nat
      /\ (t \div M) * M <= t /\ t < (t \div M) * M + M
  BY <1>1, <1>2, QuotientBelow
<1>4. nIdx(t) = t \div M /\ mIdx(t) = t - (t \div M) * M
  BY DEF nIdx, mIdx, M
<1>5. mIdx(t) \in 0..(M - 1) /\ t = (t \div M) * M + mIdx(t)
  BY <1>1, <1>2, <1>3, <1>4
<1>6. n0(t) = nIdx(t) /\ m0(t) = mIdx(t) * 16
  BY DEF n0, m0, L1TileShapeM
<1>7. m0(t) \in Nat /\ m0(t) < call.m
  BY <1>1, <1>5, <1>6
<1>8. mActual(t) = IF call.m - m0(t) >= 16 THEN 16 ELSE call.m - m0(t)
  BY <1>1, <1>7 DEF mActual, L1TileShapeM, Min
<1>9. \A s \in Subs : r0(t, s) = (2 * mIdx(t) + s) * 8
  BY <1>5, <1>6 DEF r0, subRowOff, SUB_ROWS, Subs
<1>10. /\ mActual(t) \in 1..16 /\ m0(t) + mActual(t) <= call.m
       /\ call.m - m0(t) >= 16 => mActual(t) = 16
       /\ call.m - m0(t) < 16 => mActual(t) = call.m - m0(t)
  <2>1. call.m \in Nat
    BY <1>1
  <2> QED BY <1>7, <1>8, <2>1
<1>11. nIdx(t) \in 0..(call.nHalf - 1)
  BY <1>3, <1>4
<1>12. mIdx(t) \in 0..(M - 1) /\ t = nIdx(t) * M + mIdx(t)
  BY <1>4, <1>5
<1>13. mIdx(t) \in 0..(numMBlocks(call) - 1) /\ t = nIdx(t) * numMBlocks(call) + mIdx(t)
  BY <1>12 DEF M
<1> QED BY <1>6, <1>9, <1>10, <1>11, <1>13

(* Different tiles or sub-blocks have different windows.                   *)
LEMMA WindowsDiffer ==
    ASSUME call \in Calls, NEW t \in Tiles, NEW u \in Tiles, NEW s \in Subs, NEW r \in Subs
    PROVE  /\ Gate(t, s) = Gate(u, r) => t = u /\ s = r
           /\ Up(t, s) = Up(u, r) => t = u /\ s = r
           /\ D(t, s) = D(u, r) => t = u /\ s = r
           /\ Gate(t, s) = D(u, r) => call.inPlace /\ t = u /\ s = r
           /\ Gate(t, s) # Up(u, r) /\ D(t, s) # Up(u, r)
<1>1. /\ n0(t) = nIdx(t) /\ n0(u) = nIdx(u)
      /\ nIdx(t) \in 0..(call.nHalf - 1) /\ nIdx(u) \in 0..(call.nHalf - 1)
      /\ mIdx(t) \in Nat /\ mIdx(u) \in Nat
      /\ t = nIdx(t) * numMBlocks(call) + mIdx(t)
      /\ u = nIdx(u) * numMBlocks(call) + mIdx(u)
      /\ r0(t, s) = (2 * mIdx(t) + s) * 8
      /\ r0(u, r) = (2 * mIdx(u) + r) * 8
      /\ call.nHalf \in Nat
  BY TileFacts, CallFacts
<1>2. r0(t, s) = r0(u, r) => mIdx(t) = mIdx(u) /\ s = r
  <2>1. /\ mIdx(t) \in Nat /\ mIdx(u) \in Nat /\ s \in 0..1 /\ r \in 0..1
        /\ r0(t, s) = (2 * mIdx(t) + s) * 8 /\ r0(u, r) = (2 * mIdx(u) + r) * 8
    BY <1>1 DEF Subs
  <2>2. \A a, b \in Nat : \A x, y \in 0..1 : (2 * a + x) * 8 = (2 * b + y) * 8 => a = b /\ x = y
    OBVIOUS
  <2> QED BY <2>1, <2>2
<1>3. ASSUME r0(t, s) = r0(u, r), n0(t) = n0(u) PROVE t = u /\ s = r
  <2>1. nIdx(t) = nIdx(u) /\ mIdx(t) = mIdx(u) /\ s = r
    BY <1>1, <1>2, <1>3
  <2>2. nIdx(t) * numMBlocks(call) + mIdx(t) = nIdx(u) * numMBlocks(call) + mIdx(u)
    BY <2>1
  <2> QED BY <1>1, <2>1, <2>2
<1>4. /\ call.nHalf + n0(t) = call.nHalf + n0(u) => n0(t) = n0(u)
      /\ n0(t) # call.nHalf + n0(u)
  BY <1>1
<1>5. \A A, B, col, row, c, w : window(A, col, row) = window(B, c, w)
                              <=> A = B /\ col = c /\ row = w
  BY DEF window
<1> QED BY <1>3, <1>4, <1>5 DEF Gate, Up, D

(* The windows of a tile are buffers, none of which is in the unified      *)
(* buffer.                                                                 *)
LEMMA WindowsAreBuffers ==
    ASSUME call \in Calls, NEW t \in Tiles, NEW s \in Subs
    PROVE  /\ Gate(t, s) \in Buffers /\ Up(t, s) \in Buffers /\ D(t, s) \in Buffers
           /\ Gate(t, s) \notin UB /\ Up(t, s) \notin UB /\ D(t, s) \notin UB
           /\ ubGate(s) \in Buffers /\ ubUp(s) \in Buffers
           /\ ubGate(s) \in UB /\ ubUp(s) \in UB
<1> DEFINE b == 2 * mIdx(t) + s
           col == n0(t)
<1>1. /\ col \in 0..(call.nHalf - 1) /\ call.nHalf \in Nat
      /\ b \in 0..(2 * numMBlocks(call) - 1)
      /\ r0(t, s) = b * SUB_ROWS
  BY TileFacts, CallFacts DEF Subs, SUB_ROWS
<1> HIDE DEF b, col
<1>2. /\ Gate(t, s) = window("C", col, b * SUB_ROWS)
      /\ Up(t, s) = window("C", call.nHalf + col, b * SUB_ROWS)
      /\ D(t, s) = window(IF call.inPlace THEN "C" ELSE "D", col, b * SUB_ROWS)
  BY <1>1 DEF Gate, Up, D, col
<1>3. col \in 0..(2 * call.nHalf - 1) /\ call.nHalf + col \in 0..(2 * call.nHalf - 1)
  BY <1>1
<1>4. /\ \A x \in 0..(2 * call.nHalf - 1) : window("C", x, b * SUB_ROWS) \in Windows
      /\ \A x \in 0..(call.nHalf - 1) : window("D", x, b * SUB_ROWS) \in Windows
  BY <1>1 DEF Windows
<1>5. Gate(t, s) \in Windows /\ Up(t, s) \in Windows /\ D(t, s) \in Windows
  BY <1>1, <1>2, <1>3, <1>4
<1>6. \A x \in UB : x[1] = "ubGate" \/ x[1] = "ubUp"
  BY DEF UB, ubGate, ubUp
<1>7. /\ Gate(t, s)[1] = "C" /\ Up(t, s)[1] = "C"
      /\ D(t, s)[1] = "C" \/ D(t, s)[1] = "D"
  BY <1>2 DEF window
<1>8. ubGate(s) \in UB /\ ubUp(s) \in UB
  BY DEF UB
<1> QED BY <1>5, <1>6, <1>7, <1>8 DEF Buffers

-----------------------------------------------------------------------------
(* The windows tile D.                                                     *)

(* The rows of a sub-block, by their numbers.                              *)
LEMMA RowFacts ==
    ASSUME call \in Calls, NEW t \in Tiles, NEW s \in Subs, HasRows(t, s), NEW r
    PROVE  r \in RowsOf(t, s) <=> /\ r \in Int
                                  /\ m0(t) + s * 8 <= r /\ r < m0(t) + s * 8 + 8
                                  /\ r < m0(t) + mActual(t)
<1>1. /\ mIdx(t) \in Nat /\ m0(t) = mIdx(t) * 16 /\ mActual(t) \in 1..16
      /\ s \in 0..1
  <2>1. numMBlocks(call) \in Nat
    BY CallFacts
  <2> QED BY <2>1, TileFacts DEF Subs
<1>2. s * 8 < mActual(t)
  BY DEF HasRows, subRowOff, SUB_ROWS
<1>3. rAct(t, s) = IF mActual(t) - s * 8 >= 8 THEN 8 ELSE mActual(t) - s * 8
  <2>1. rAct(t, s) = Min({mActual(t) - s * 8, 8})
    BY DEF rAct, subRowOff, SUB_ROWS
  <2>2. mActual(t) - s * 8 \in Int
    BY <1>1
  <2>3. \A x \in Int : Min({x, 8}) = IF x >= 8 THEN 8 ELSE x
    BY DEF Min
  <2> QED BY <2>1, <2>2, <2>3
<1>4. RowsOf(t, s) = (m0(t) + s * 8)..(m0(t) + s * 8 + rAct(t, s) - 1)
  BY DEF RowsOf, r0, subRowOff, SUB_ROWS
<1>5. m0(t) \in Nat /\ rAct(t, s) \in Int
  BY <1>1, <1>3
<1>6. r \in RowsOf(t, s) <=> r \in Int /\ m0(t) + s * 8 <= r /\ r < m0(t) + s * 8 + rAct(t, s)
  BY <1>1, <1>4, <1>5
<1> QED BY <1>1, <1>2, <1>3, <1>5, <1>6

(* The owner of row r of column col.                                       *)
OwnerOf(col, r) == <<col * numMBlocks(call) + r \div 16, (r % 16) \div 8>>

(* Each row of each column has one owner.                                  *)
LEMMA OwnerFacts ==
    ASSUME call \in Calls, NEW col \in 0..(call.nHalf - 1), NEW r \in 0..(call.m - 1)
    PROVE  {o \in Owners : n0(o[1]) = col /\ r \in RowsOf(o[1], o[2])} = {OwnerOf(col, r)}
<1> DEFINE M == numMBlocks(call)
           q == r \div 16
           t == col * M + q
           s == (r % 16) \div 8
<1>1. /\ M \in Nat \ {0} /\ call.nHalf \in Nat /\ call.m \in Nat
      /\ coreLoops(call) = M * call.nHalf /\ M = (call.m + 15) \div 16
  BY CallFacts
<1> HIDE DEF M
<1>2. /\ q \in 0..(M - 1) /\ r % 16 \in 0..15 /\ r = q * 16 + (r % 16) /\ s \in 0..1
      /\ s * 8 <= r % 16 /\ r % 16 < s * 8 + 8 /\ r \in Nat /\ r < call.m
  BY <1>1
<1> HIDE DEF q, s
<1>3. t \in Tiles
  <2>1. col \in Nat /\ col + 1 <= call.nHalf
    BY <1>1
  <2>2. (col + 1) * M <= call.nHalf * M /\ (col + 1) * M = col * M + M /\ col * M \in Nat
    <3>1. (col + 1) \in Int /\ call.nHalf \in Int /\ M \in Nat
      BY <1>1, <2>1
    <3>2. (col + 1) * M <= call.nHalf * M
      BY <2>1, <3>1, ProductMonotone
    <3>3. (col + 1) * M = col * M + M
      BY <1>1, <2>1, ProductNext
    <3>4. col * M \in Nat
      BY <1>1, <2>1, ProductClosed
    <3> QED BY <3>2, <3>3, <3>4
  <2>3. call.nHalf * M = M * call.nHalf
    BY <1>1
  <2> QED BY <1>1, <1>2, <2>2, <2>3 DEF Tiles
<1>4. nIdx(t) = col /\ mIdx(t) = q
  <2>1. t \div M = col
    <3>1. col \in Nat /\ q \in 0..(M - 1) /\ M \in Nat \ {0}
      BY <1>1, <1>2
    <3>2. (col * M + q) \div M = col
      BY <3>1, QuotientUnique
    <3> QED BY <3>2
  <2>2. nIdx(t) = col /\ mIdx(t) = t - col * M
    BY <2>1 DEF nIdx, mIdx, M
  <2>3. col * M \in Int /\ q \in Int
    BY <1>1, <1>2
  <2> QED BY <2>2, <2>3
<1> HIDE DEF t
<1>5. /\ n0(t) = col /\ m0(t) = q * 16 /\ mActual(t) \in 1..16
      /\ call.m - m0(t) >= 16 => mActual(t) = 16
      /\ call.m - m0(t) < 16 => mActual(t) = call.m - m0(t)
  BY <1>3, <1>4, TileFacts
<1>6. r < m0(t) + mActual(t) /\ s * 8 < mActual(t)
  <2>1. q \in Nat /\ call.m \in Nat
    BY <1>1, <1>2
  <2> QED BY <1>2, <1>5, <2>1
<1>7. HasRows(t, s) /\ s \in Subs
  BY <1>2, <1>6 DEF HasRows, subRowOff, SUB_ROWS, Subs
<1>8. r \in RowsOf(t, s)
  BY <1>2, <1>3, <1>5, <1>6, <1>7, RowFacts
<1>9. <<t, s>> \in {o \in Owners : n0(o[1]) = col /\ r \in RowsOf(o[1], o[2])}
  BY <1>3, <1>5, <1>7, <1>8 DEF Owners, Tiles
<1>10. ASSUME NEW o \in Owners, n0(o[1]) = col, r \in RowsOf(o[1], o[2])
       PROVE  o = <<t, s>>
  <2> DEFINE u == o[1]
             w == o[2]
  <2>1. u \in Tiles /\ w \in Subs /\ HasRows(u, w) /\ o = <<u, w>>
    BY DEF Owners, Tiles
  <2> HIDE DEF u, w
  <2>2. /\ u = nIdx(u) * M + mIdx(u) /\ nIdx(u) = n0(u) /\ m0(u) = mIdx(u) * 16
        /\ mIdx(u) \in 0..(M - 1) /\ mActual(u) \in 1..16
    BY <2>1, TileFacts DEF M
  <2>3. /\ m0(u) + w * 8 <= r /\ r < m0(u) + w * 8 + 8 /\ r < m0(u) + mActual(u)
    <3>1. r \in RowsOf(u, w)
      BY <1>10 DEF u, w
    <3> QED BY <2>1, <3>1, RowFacts
  <2>4. mIdx(u) = q /\ w = s
    <3>1. mIdx(u) \in Nat /\ w \in 0..1 /\ q \in Nat
      BY <1>1, <1>2, <2>1, <2>2 DEF Subs
    <3> QED BY <1>2, <2>2, <2>3, <3>1
  <2>5. n0(u) = col
    BY <1>10 DEF u
  <2>6. u = t
    BY <2>2, <2>4, <2>5 DEF t
  <2> QED BY <2>1, <2>4, <2>6
<1>11. OwnerOf(col, r) = <<t, s>>
  BY DEF OwnerOf, t, s, q, M
<1> QED BY <1>9, <1>10, <1>11

(* So the windows tile D.                                                  *)
LEMMA WindowsDoTileD == call \in Calls => WindowsTileD
<1> SUFFICES ASSUME call \in Calls PROVE WindowsTileD
  OBVIOUS
<1>1. ASSUME NEW o \in Owners PROVE RowsOf(o[1], o[2]) \subseteq 0..(call.m - 1)
  <2>1. o[1] \in Tiles /\ o[2] \in Subs /\ HasRows(o[1], o[2])
    BY DEF Owners, Tiles
  <2>2. /\ m0(o[1]) + mActual(o[1]) <= call.m /\ mActual(o[1]) \in 1..16
        /\ m0(o[1]) = mIdx(o[1]) * 16 /\ mIdx(o[1]) \in Nat /\ call.m \in Nat
    <3>1. numMBlocks(call) \in Nat /\ call.m \in Nat
      BY CallFacts
    <3> QED BY <2>1, <3>1, TileFacts
  <2>3. ASSUME NEW r \in RowsOf(o[1], o[2]) PROVE r \in 0..(call.m - 1)
    <3>1. r \in Int /\ m0(o[1]) + o[2] * 8 <= r /\ r < m0(o[1]) + mActual(o[1])
      BY <2>1, RowFacts
    <3>2. o[2] \in 0..1
      BY <2>1 DEF Subs
    <3> QED BY <2>2, <3>1, <3>2
  <2> QED BY <2>3
<1>2. ASSUME NEW col \in 0..(call.nHalf - 1), NEW r \in 0..(call.m - 1)
      PROVE  Cardinality({o \in Owners : n0(o[1]) = col /\ r \in RowsOf(o[1], o[2])}) = 1
  <2>1. \A x : Cardinality({x}) = 1
    BY FS_Singleton
  <2>2. {o \in Owners : n0(o[1]) = col /\ r \in RowsOf(o[1], o[2])} = {OwnerOf(col, r)}
    BY OwnerFacts
  <2> QED BY <2>1, <2>2, Zenon
<1> QED BY <1>1, <1>2 DEF WindowsTileD

-----------------------------------------------------------------------------
(* What changes and what does not.                                         *)

(* While the call is the same, so are the tiles and their instructions.    *)
LEMMA SameCall ==
    ASSUME call' = call
    PROVE  /\ K' = K /\ Tiles' = Tiles /\ coreLoops(call)' = coreLoops(call)
           /\ ReadsGate' = ReadsGate /\ ReadsUp' = ReadsUp /\ StoresD' = StoresD
           /\ \A t : ActiveSubs(t)' = ActiveSubs(t)
           /\ \A t, s : /\ HasRows(t, s)' = HasRows(t, s)
                        /\ Gate(t, s)' = Gate(t, s) /\ Up(t, s)' = Up(t, s) /\ D(t, s)' = D(t, s)
                        /\ InC("gate", t, s)' = InC("gate", t, s)
                        /\ InC("up", t, s)' = InC("up", t, s)
                        /\ InD(t, s)' = InD(t, s)
<1>1. /\ K' = K /\ Tiles' = Tiles /\ coreLoops(call)' = coreLoops(call)
      /\ ReadsGate' = ReadsGate /\ ReadsUp' = ReadsUp /\ StoresD' = StoresD
  BY DEF K, Tiles, ReadsGate, ReadsUp, StoresD
<1>2. ASSUME NEW t, NEW s
      PROVE  /\ HasRows(t, s)' = HasRows(t, s)
             /\ Gate(t, s)' = Gate(t, s) /\ Up(t, s)' = Up(t, s) /\ D(t, s)' = D(t, s)
             /\ InC("gate", t, s)' = InC("gate", t, s)
             /\ InC("up", t, s)' = InC("up", t, s)
             /\ InD(t, s)' = InD(t, s)
  BY DEF HasRows, Gate, Up, D, InC, InD, Product, ReadsGate, DHalf, mActual, m0, mIdx, nIdx, n0,
         r0, rAct
<1>3. ASSUME NEW t PROVE ActiveSubs(t)' = ActiveSubs(t)
  BY <1>2 DEF ActiveSubs
<1> QED BY <1>1, <1>2, <1>3

(* And so are the instructions.                                            *)
LEMMA SameCode ==
    ASSUME call' = call
    PROVE  /\ \A t, kind : FixCode(t, kind)' = FixCode(t, kind)
           /\ \A t, s : Load(t, s)' = Load(t, s) /\ StoreOf(t, s)' = StoreOf(t, s)
<1>1. ASSUME NEW t PROVE StoreGate(t)' = StoreGate(t) /\ StoreUp(t)' = StoreUp(t)
  BY DEF StoreGate, StoreUp, ActiveSubs, HasRows, Gate, Up, Product, mActual, m0, mIdx, nIdx, n0,
         r0, rAct
<1>2. ASSUME NEW t, NEW kind PROVE FixCode(t, kind)' = FixCode(t, kind)
  BY <1>1 DEF FixCode
<1>3. ASSUME NEW t, NEW s PROVE Loads(t, s)' = Loads(t, s)
  BY DEF Loads, ReadsGate, ReadsUp, InC, Gate, Up, Product, mActual, m0, mIdx, nIdx, n0, r0, rAct
<1>4. ASSUME NEW t, NEW s PROVE Load(t, s)' = Load(t, s)
  BY <1>3 DEF Load
<1>5. ASSUME NEW t, NEW s PROVE StoreOf(t, s)' = StoreOf(t, s)
  BY SameCall DEF StoreOf, StoreD, StoresD
<1> QED BY <1>2, <1>4, <1>5

(* What the execution of the head instruction of a pipe does: to its       *)
(* queue, to the events, and to a buffer that it writes or does not.       *)
Does(i) ==
    /\ \A e \in Events : events'[e] = events[e] - (IF e \in i.waits THEN 1 ELSE 0)
                                                + (IF e \in i.sets THEN 1 ELSE 0)
    /\ \A e \in i.waits : events[e] > 0
    /\ events' = [e \in Events |-> events'[e]]
    /\ memory' = [b \in Buffers |-> memory'[b]]
    /\ \A b \in Buffers : (\A w \in i.writes : w[1] # b) => memory'[b] = memory[b]
    /\ \A w \in i.writes : w[1] \in Buffers /\ (\A x \in i.writes : x[1] = w[1] => x = w)
                              => memory'[w[1]] = w[2]

Shortened(p, n) ==
    /\ HasLength(queue'[p], n - 1)
    /\ \A i \in 1..(n - 1) : queue'[p][i] = queue[p][i + 1]
    /\ \A r \in Pipes : r # p => queue'[r] = queue[r]
    /\ queue' = [r \in Pipes |-> queue'[r]]

(* A step of a pipe removes its first instruction and does what it says.   *)
LEMMA PipeEffect ==
    ASSUME NEW p \in Pipes, Execute(p), queue = [r \in Pipes |-> queue[r]],
           memory = [b \in Buffers |-> memory[b]], NEW n, HasLength(queue[p], n)
    PROVE  n # 0 /\ Does(queue[p][1]) /\ Shortened(p, n)
<1> DEFINE i == Head(queue[p])
           written == {w[1] : w \in i.writes}
<1>1. queue[p] # <<>> /\ \A e \in i.waits : events[e] > 0
  BY DEF Execute, CanExecute
<1>2. n # 0
  BY <1>1, SequenceFacts
<1>3. /\ HasLength(Tail(queue[p]), n - 1) /\ Head(queue[p]) = queue[p][1]
      /\ \A k \in 1..(n - 1) : Tail(queue[p])[k] = queue[p][k + 1]
  BY <1>2, Rest
<1>4. queue' = [queue EXCEPT ![p] = Tail(@)]
  BY DEF Execute
<1>5. Shortened(p, n)
  <2>1. queue'[p] = Tail(queue[p]) /\ \A r \in Pipes : r # p => queue'[r] = queue[r]
    BY <1>4
  <2>2. queue' = [r \in Pipes |-> queue'[r]]
    BY <1>4
  <2> QED BY <1>3, <2>1, <2>2 DEF Shortened
<1>6. events' = [e \in Events |-> events[e] - (IF e \in i.waits THEN 1 ELSE 0)
                                            + (IF e \in i.sets THEN 1 ELSE 0)]
  BY DEF Execute
<1>7. memory' = IF i.writes = {} THEN memory
                ELSE [b \in Buffers |-> IF b \in written
                                        THEN (CHOOSE w \in i.writes : w[1] = b)[2]
                                        ELSE memory[b]]
  BY DEF Execute
<1>8. Does(i)
  <2> HIDE DEF i
  <2>1. memory' = [b \in Buffers |-> memory'[b]]
    BY <1>7
  <2>2. ASSUME NEW b \in Buffers, \A w \in i.writes : w[1] # b PROVE memory'[b] = memory[b]
    <3>1. b \notin written
      BY <2>2
    <3> HIDE DEF written
    <3> QED BY <1>7, <3>1
  <2>3. ASSUME NEW w \in i.writes, w[1] \in Buffers, \A x \in i.writes : x[1] = w[1] => x = w
        PROVE  memory'[w[1]] = w[2]
    <3>1. (CHOOSE x \in i.writes : x[1] = w[1]) = w
      BY <2>3
    <3>2. w[1] \in written /\ i.writes # {}
      OBVIOUS
    <3> HIDE DEF written
    <3> QED BY <1>7, <2>3, <3>1, <3>2
  <2>4. /\ events' = [e \in Events |-> events'[e]]
        /\ \A e \in Events : events'[e] = events[e] - (IF e \in i.waits THEN 1 ELSE 0)
                                                    + (IF e \in i.sets THEN 1 ELSE 0)
    BY <1>6
  <2>5. \A e \in i.waits : events[e] > 0
    BY <1>1
  <2> QED BY <2>1, <2>2, <2>3, <2>4, <2>5 DEF Does
<1> QED BY <1>2, <1>3, <1>5, <1>8

(* What issuing code to one of the pipes does.                             *)
Lengthened(p, n, code, m) ==
    /\ HasLength(queue'[p], n + m)
    /\ \A i \in 1..n : queue'[p][i] = queue[p][i]
    /\ \A i \in 1..m : queue'[p][n + i] = code[i]

(* Issue appends its program and leaves the other pipes alone.             *)
LEMMA IssueEffect ==
    ASSUME NEW program, Issue(program)
    PROVE  /\ queue' = [p \in Pipes |-> queue'[p]]
           /\ \A p \in Pipes : p \notin DOMAIN program => queue'[p] = queue[p]
           /\ \A p \in Pipes : \A n, m :
                 /\ p \in DOMAIN program /\ HasLength(queue[p], n) /\ HasLength(program[p], m)
                 => Lengthened(p, n, program[p], m)
<1>1. queue' = [p \in Pipes |-> IF p \in DOMAIN program THEN queue[p] \o program[p]
                                ELSE queue[p]]
  BY DEF Issue
<1>2. ASSUME NEW p \in Pipes, NEW n, NEW m,
             p \in DOMAIN program, HasLength(queue[p], n), HasLength(program[p], m)
      PROVE  Lengthened(p, n, program[p], m)
  <2>1. queue'[p] = Joined(queue[p], program[p])
    BY <1>1, <1>2 DEF Joined
  <2>2. /\ HasLength(queue'[p], n + m)
        /\ \A i \in 1..n : queue'[p][i] = queue[p][i]
        /\ \A i \in 1..m : queue'[p][n + i] = program[p][i]
    BY <1>2, <2>1, Appended
  <2> QED BY <2>2 DEF Lengthened
<1> QED BY <1>1, <1>2

(* The pipes and events of the two vector cores, all different.            *)
LEMMA NamesDiffer ==
    /\ FIX \in Pipes
    /\ \A s \in Subs : /\ MTE2(s) \in Pipes /\ V(s) \in Pipes /\ MTE3(s) \in Pipes
                       /\ MTE3_MTE2(s) \in Events /\ MTE2_V(s) \in Events /\ V_MTE3(s) \in Events
                       /\ flag(s) \in Events /\ reverse(s) \in Events
  BY DEF Pipes, Events

(* One turn of a core's loop leaves the remainder of its tile as it is,    *)
(* and no tile between has the same.                                       *)
LEMMA TurnOfLoop ==
    ASSUME NEW x \in Nat, NEW N \in Nat \ {0}
    PROVE  /\ (x + N) % N = x % N
           /\ \A u \in Nat : u % N = x % N /\ x <= u /\ u < x + N => u = x
<1> DEFINE q == x \div N
<1>1. q \in Nat /\ x % N \in 0..(N - 1) /\ q * N \in Nat /\ x = q * N + (x % N)
  BY QuotientFacts
<1>2. (x + N) % N = x % N
  <2> HIDE DEF q
  <2>1. q + 1 \in Nat /\ (q + 1) * N = q * N + N
    BY <1>1, ProductNext
  <2>2. ((q + 1) * N + (x % N)) % N = x % N
    <3> DEFINE r == x % N
    <3>1. r \in 0..(N - 1)
      BY <1>1
    <3> HIDE DEF r
    <3>2. ((q + 1) * N + r) % N = r
      BY <2>1, <3>1, QuotientUnique
    <3> QED BY <3>2 DEF r
  <2>3. (q + 1) * N + (x % N) = x + N
    BY <1>1, <2>1
  <2> QED BY <2>2, <2>3
<1>3. ASSUME NEW u \in Nat, u % N = x % N, x <= u, u < x + N PROVE u = x
  <2> DEFINE p == u \div N
  <2>1. p \in Nat /\ p * N \in Nat /\ u = p * N + (u % N)
    BY QuotientFacts
  <2> HIDE DEF q, p
  <2>2. q * N <= p * N /\ p * N < q * N + N
    BY <1>1, <1>3, <2>1
  <2>3. (q + 1) * N = q * N + N /\ q + 1 \in Int
    BY <1>1, ProductNext
  <2>4. p < q + 1
    BY <1>1, <2>1, <2>2, <2>3, ProductCompare
  <2>5. ~ (p < q)
    BY <1>1, <2>1, <2>2, ProductCompare
  <2>6. p = q
    BY <1>1, <2>1, <2>4, <2>5
  <2> QED BY <1>1, <1>3, <2>1, <2>6
<1> QED BY <1>2, <1>3

(* The types of what the lemmas below use.                                 *)
LEMMA TypeFacts ==
    ASSUME Types, FixQueue
    PROVE  /\ call \in Calls /\ call.aiCoreNum \in Nat \ {0} /\ coreLoops(call) \in Nat \ {0}
           /\ REVERSE_DEPTH \in Nat \ {0}
           /\ aic.loopIdx \in Nat /\ aic.count \in Nat /\ aic.count <= REVERSE_DEPTH
           /\ aic.loopIdx < coreLoops(call) + call.aiCoreNum
           /\ Len(queue[FIX]) \in Nat /\ K \in {1, 3} /\ PendingFlags \in Nat
           /\ \A s \in Subs : /\ aiv[s].loopIdx \in Nat
                              /\ aiv[s].loopIdx < coreLoops(call) + call.aiCoreNum
                              /\ aiv[s].count \in Nat /\ aiv[s].count < REVERSE_DEPTH
           /\ \A e \in Events : events[e] \in Nat
<1>1. /\ call \in Calls /\ call.aiCoreNum \in Nat \ {0} /\ coreLoops(call) \in Nat \ {0}
      /\ REVERSE_DEPTH \in Nat \ {0}
  BY CallFacts DEF Types, CallTypes
<1>2. Len(queue[FIX]) \in Nat /\ K \in {1, 3} /\ PendingFlags \in Nat
  <2>1. Len(queue[FIX]) \in Nat /\ K \in {1, 3}
    BY DEF FixQueue, HasLength, K
  <2>2. PendingFlags \in Nat
    <3> DEFINE n == Len(queue[FIX])
    <3>1. n \in Nat /\ PendingFlags = (n + K - 1) \div K
      BY <2>1 DEF PendingFlags
    <3> HIDE DEF n
    <3>2. CASE K = 1
      BY <3>1, <3>2
    <3>3. CASE K = 3
      BY <3>1, <3>3
    <3> QED BY <2>1, <3>2, <3>3
  <2> QED BY <2>1, <2>2
<1>3. /\ aic.loopIdx \in Nat /\ aic.count \in Nat /\ aic.count <= REVERSE_DEPTH
      /\ aic.loopIdx < coreLoops(call) + call.aiCoreNum
  BY <1>1 DEF Types, CubeTypes, LoopInRange
<1>4. \A s \in Subs : /\ aiv[s].loopIdx \in Nat
                      /\ aiv[s].loopIdx < coreLoops(call) + call.aiCoreNum
                      /\ aiv[s].count \in Nat /\ aiv[s].count < REVERSE_DEPTH
  BY <1>1 DEF Types, CoreTypes, LoopInRange
<1>5. \A e \in Events : events[e] \in Nat
  BY DEF Types, PipeTypes
<1> QED BY <1>1, <1>2, <1>3, <1>4, <1>5

(* Flagged tiles, and the tile FIX is at, are tiles of the grid and not    *)
(* before the next tile of the vector core.                                *)
IsAhead(s, t) == t \in Tiles /\ aiv[s].loopIdx <= t

(* The flags raised and on their way are those of the tiles from the next  *)
(* one of the vector core to the last one of the cube core.                *)
LEMMA AheadFacts ==
    ASSUME Types, FixQueue, NEW s \in Subs, NEW a, Credit(s, a)
    PROVE  /\ \A j \in 0..(events[flag(s)] - 1) : IsAhead(s, Ahead(s, j))
           /\ Len(queue[FIX]) # 0 =>
                 /\ FixTile(Len(queue[FIX]), 1) = Ahead(s, events[flag(s)])
                 /\ IsAhead(s, Ahead(s, events[flag(s)]))
<1> DEFINE N == call.aiCoreNum
           n == Len(queue[FIX])
           e == events[flag(s)]
           l == aiv[s].loopIdx
           C == coreLoops(call)
           P == PendingFlags
<1>1. /\ N \in Nat \ {0} /\ C \in Nat /\ n \in Nat /\ K \in {1, 3} /\ P \in Nat
      /\ e \in Nat /\ l \in Nat /\ aic.loopIdx \in Nat /\ aic.loopIdx < C + N
  BY TypeFacts, NamesDiffer
<1>2. (e + P) * N = aic.loopIdx - l
  BY DEF Credit
<1>3. n # 0 => P >= 1 /\ (n - 1) \div K + 1 = P
  <2>1. P = (n + K - 1) \div K
    BY DEF PendingFlags
  <2> HIDE DEF n, P
  <2>2. CASE K = 1
    BY <1>1, <2>1, <2>2
  <2>3. CASE K = 3
    BY <1>1, <2>1, <2>3
  <2> QED BY <1>1, <2>2, <2>3
<1> HIDE DEF N, n, e, l, C, P
<1>4. ASSUME NEW j \in Nat, j + 1 <= e + P PROVE l + j * N \in 0..(C - 1) /\ l <= l + j * N
  <2>1. (j + 1) * N <= (e + P) * N
    BY <1>1, <1>4, ProductMonotone
  <2>2. (j + 1) * N = j * N + N /\ j * N \in Nat
    BY <1>1, ProductNext, ProductClosed
  <2> QED BY <1>1, <1>2, <2>1, <2>2
<1>5. Tiles = 0..(C - 1) /\ \A j : Ahead(s, j) = l + j * N
  BY DEF Tiles, Ahead, C, l, N
<1>6. ASSUME NEW j \in 0..(e - 1) PROVE IsAhead(s, Ahead(s, j))
  <2>1. j \in Nat /\ j + 1 <= e + P
    BY <1>1
  <2> QED BY <1>4, <1>5, <2>1 DEF IsAhead, l
<1>7. ASSUME n # 0 PROVE FixTile(n, 1) = Ahead(s, e) /\ IsAhead(s, Ahead(s, e))
  <2>1. FixTile(n, 1) = aic.loopIdx - P * N
    BY <1>3, <1>7 DEF FixTile, N
  <2>2. (e + P) * N = e * N + P * N /\ e * N \in Nat /\ P * N \in Nat
    BY <1>1
  <2>3. FixTile(n, 1) = l + e * N
    BY <1>1, <1>2, <2>1, <2>2
  <2>4. e \in Nat /\ e + 1 <= e + P
    BY <1>1, <1>3, <1>7
  <2> QED BY <1>4, <1>5, <2>3, <2>4 DEF IsAhead, l
<1> QED BY <1>6, <1>7 DEF e, n

-----------------------------------------------------------------------------
(* What a step leaves alone.                                               *)

(* The memory that the vector core s works with.                           *)
SameMemory(s) ==
    /\ memory'[ubGate(s)] = memory[ubGate(s)] /\ memory'[ubUp(s)] = memory[ubUp(s)]
    /\ \A t \in Tiles : /\ memory'[Gate(t, s)] = memory[Gate(t, s)]
                        /\ memory'[Up(t, s)] = memory[Up(t, s)]
                        /\ memory'[D(t, s)] = memory[D(t, s)]

SameCore(s) ==
    /\ aiv'[s] = aiv[s]
    /\ queue'[MTE2(s)] = queue[MTE2(s)] /\ queue'[V(s)] = queue[V(s)]
    /\ queue'[MTE3(s)] = queue[MTE3(s)]
    /\ events'[MTE3_MTE2(s)] = events[MTE3_MTE2(s)] /\ events'[MTE2_V(s)] = events[MTE2_V(s)]
    /\ events'[V_MTE3(s)] = events[V_MTE3(s)]

SameCredit(s) ==
    /\ events'[flag(s)] = events[flag(s)] /\ events'[reverse(s)] = events[reverse(s)]
    /\ aic' = aic /\ PendingFlags' = PendingFlags

(* What is left of the state of a vector core by a step that is none of    *)
(* its business: the tiles on their way,                                   *)
LEMMA TodoFrame ==
    ASSUME NEW s, NEW todo, NEW f, NEW v, NEW a, NEW token, call' = call, aiv'[s] = aiv[s],
           Todo(s, todo, f, v, a, token)
    PROVE  Todo(s, todo, f, v, a, token)'
<1>1. Tiles' = Tiles /\ \A t : HasRows(t, s)' = HasRows(t, s)
  BY SameCall
<1> QED BY <1>1 DEF Todo

(* its queues,                                                             *)
LEMMA QueuedFrame ==
    ASSUME NEW s, NEW todo, NEW f, NEW v, NEW a, NEW w, call' = call,
           queue'[MTE2(s)] = queue[MTE2(s)], queue'[V(s)] = queue[V(s)],
           queue'[MTE3(s)] = queue[MTE3(s)], Queued(s, todo, f, v, a, w)
    PROVE  Queued(s, todo, f, v, a, w)'
<1>1. \A t : Load(t, s)' = Load(t, s) /\ StoreOf(t, s)' = StoreOf(t, s)
  BY SameCode
<1>2. LastWait(s)' = LastWait(s) /\ Pass(s)' = Pass(s) /\ Answer(s)' = Answer(s)
  BY DEF LastWait, Pass, Answer
<1> QED BY <1>1, <1>2 DEF Queued, LoadQueue, PassQueue, StoreQueue

(* what its tiles find,                                                    *)
LEMMA FindsFrame ==
    ASSUME NEW s \in Subs, NEW todo, NEW f, NEW v, NEW a, NEW token,
           Todo(s, todo, f, v, a, token), VectorFinds(s, todo, f),
           call' = call, blockIdx' = blockIdx, aiv'[s].loopIdx = aiv[s].loopIdx,
           events'[flag(s)] = events[flag(s)], SameMemory(s)
    PROVE  VectorFinds(s, todo, f)'
<1>1. /\ ReadsGate' = ReadsGate /\ ReadsUp' = ReadsUp /\ StoresD' = StoresD /\ Tiles' = Tiles
      /\ \A t : /\ HasRows(t, s)' = HasRows(t, s)
                /\ Gate(t, s)' = Gate(t, s) /\ Up(t, s)' = Up(t, s) /\ D(t, s)' = D(t, s)
                /\ InC("gate", t, s)' = InC("gate", t, s)
                /\ InC("up", t, s)' = InC("up", t, s)
                /\ InD(t, s)' = InD(t, s)
  BY SameCall
<1>2. \A t \in Tiles : Stored(t, s) => Stored(t, s)'
  BY <1>1 DEF Stored, GateStored, UpStored, SameMemory
<1>3. UBFinds(s, todo, f)'
  <2>1. ubGate(s)' = ubGate(s) /\ ubUp(s)' = ubUp(s)
    BY DEF ubGate, ubUp
  <2> QED BY <1>1, <2>1 DEF UBFinds, InUB, VectorFinds, SameMemory
<1>4. LoadsFind(s, todo, f)'
  <2>1. ASSUME NEW i \in (f + 1)..Len(todo) PROVE Stored(todo[i], s)'
    <3>1. todo \in Seq(Tiles) /\ f \in Nat
      BY DEF Todo
    <3>2. todo[i] \in Tiles
      BY <3>1
    <3>3. Stored(todo[i], s)
      BY DEF VectorFinds, LoadsFind
    <3> QED BY <1>2, <3>2, <3>3
  <2> QED BY <2>1 DEF LoadsFind
<1>5. FlagsFind(s)'
  <2>1. \A j : Ahead(s, j)' = Ahead(s, j)
    BY DEF Ahead
  <2> QED BY <1>1, <1>2, <2>1 DEF FlagsFind, flag, VectorFinds
<1>6. DFinds(s, todo)'
  <2>1. \A t : StoredBy(s, todo, t)' = StoredBy(s, todo, t)
    BY <1>1 DEF StoredBy
  <2> QED BY <1>1, <2>1 DEF DFinds, VectorFinds, SameMemory
<1> QED BY <1>3, <1>4, <1>5, <1>6 DEF VectorFinds

(* all but the count of flags and answers,                                 *)
LEMMA VectorButCredit ==
    ASSUME NEW s \in Subs, NEW todo, NEW f, NEW v, NEW a, NEW token,
           Vector(s, todo, f, v, a, token), call' = call, blockIdx' = blockIdx,
           SameCore(s), events'[flag(s)] = events[flag(s)], SameMemory(s), Credit(s, a)'
    PROVE  Vector(s, todo, f, v, a, token)'
<1> DEFINE w == IF aiv[s].pc = "loop" THEN 0 ELSE token
<1>1. /\ Todo(s, todo, f, v, a, token) /\ Queued(s, todo, f, v, a, w)
      /\ VectorFinds(s, todo, f)
  BY DEF Vector
<1>2. Todo(s, todo, f, v, a, token)' /\ VectorFinds(s, todo, f)'
  BY <1>1, TodoFrame, FindsFrame DEF SameCore
<1>3. Queued(s, todo, f, v, a, w)'
  <2> PICK x : x = w
    OBVIOUS
  <2>1. Queued(s, todo, f, v, a, x)'
    BY <1>1, QueuedFrame DEF SameCore
  <2>2. w' = x
    BY DEF SameCore
  <2> QED BY <2>1, <2>2
<1>4. Tokens(s, f, v, token)'
  BY DEF Vector, Tokens, SameCore, MTE3_MTE2, MTE2_V, V_MTE3
<1> QED BY <1>2, <1>3, <1>4 DEF Vector

(* and all.                                                                *)
LEMMA VectorFrame ==
    ASSUME NEW s \in Subs, NEW todo, NEW f, NEW v, NEW a, NEW token,
           Vector(s, todo, f, v, a, token), call' = call, blockIdx' = blockIdx,
           SameCore(s), SameCredit(s), SameMemory(s)
    PROVE  Vector(s, todo, f, v, a, token)'
<1>1. Credit(s, a)'
  BY DEF Vector, Credit, SameCore, SameCredit, flag, reverse
<1> QED BY <1>1, VectorButCredit DEF SameCredit
-----------------------------------------------------------------------------
(* A vector core takes a tile.                                             *)
Answers(s) == aiv[s].count + 1 >= REVERSE_DEPTH
Epilogue(s) == call.mode # GEMM_ONLY /\ HasRows(aiv[s].loopIdx, s)

(* What a turn of its loop appends to its three queues.                    *)
LEMMA TileProgram ==
    ASSUME NEW s \in Subs, AivTile(s), NEW t, t = aiv[s].loopIdx
    PROVE  /\ queue' = [p \in Pipes |-> queue'[p]]
           /\ \A p \in Pipes : p \notin {MTE2(s), V(s), MTE3(s)} => queue'[p] = queue[p]
           /\ \A n : HasLength(queue[MTE2(s)], n) =>
                 IF Epilogue(s) THEN Lengthened(MTE2(s), n, <<Load(t, s)>>, 1)
                 ELSE Lengthened(MTE2(s), n, <<>>, 0)
           /\ \A n : HasLength(queue[V(s)], n) =>
                 IF Epilogue(s) THEN Lengthened(V(s), n, <<Pass(s)>>, 1)
                 ELSE Lengthened(V(s), n, <<>>, 0)
           /\ \A n : HasLength(queue[MTE3(s)], n) =>
                 IF Epilogue(s)
                 THEN IF Answers(s)
                      THEN Lengthened(MTE3(s), n, <<Answer(s), StoreOf(t, s)>>, 2)
                      ELSE Lengthened(MTE3(s), n, <<StoreOf(t, s)>>, 1)
                 ELSE IF Answers(s) THEN Lengthened(MTE3(s), n, <<Answer(s)>>, 1)
                      ELSE Lengthened(MTE3(s), n, <<>>, 0)
<1> DEFINE Code == [p \in {MTE2(s), V(s), MTE3(s)} |->
                      CASE p = MTE2(s) -> LoadTile(aiv[s].loopIdx, s)
                        [] p = V(s) -> PassOn(s)
                        [] p = MTE3(s) -> StoreD(aiv[s].loopIdx, s)]
           Ans(p) == If(p = MTE3(s) /\ Answers(s), << Instruction({}, {}, {}, {reverse(s)}) >>)
           P == [p \in DOMAIN Code |-> Ans(p) \o If(Epilogue(s), Code[p])]
<1>1. Issue(P)
  BY DEF AivTile, Answers, Epilogue
<1>2. MTE2(s) # V(s) /\ MTE2(s) # MTE3(s) /\ V(s) # MTE3(s)
  BY DEF MTE2, V, MTE3
<1>3. DOMAIN P = {MTE2(s), V(s), MTE3(s)}
  OBVIOUS
<1>4. /\ LoadTile(t, s) = <<Load(t, s)>> /\ PassOn(s) = <<Pass(s)>>
      /\ StoreD(t, s) = <<StoreOf(t, s)>>
  BY DEF LoadTile, Load, PassOn, Pass, StoreOf, StoreD
<1>5. /\ Code[MTE2(s)] = <<Load(t, s)>> /\ Code[V(s)] = <<Pass(s)>>
      /\ Code[MTE3(s)] = <<StoreOf(t, s)>>
  BY <1>2, <1>4
<1>6. Ans(MTE2(s)) = <<>> /\ Ans(V(s)) = <<>>
  BY <1>2 DEF If
<1>7. Ans(MTE3(s)) = IF Answers(s) THEN <<Answer(s)>> ELSE <<>>
  BY DEF If, Answer
<1> HIDE DEF Ans, Code
<1>8. /\ P[MTE2(s)] = Joined(<<>>, IF Epilogue(s) THEN <<Load(t, s)>> ELSE <<>>)
      /\ P[V(s)] = Joined(<<>>, IF Epilogue(s) THEN <<Pass(s)>> ELSE <<>>)
      /\ P[MTE3(s)] = Joined(IF Answers(s) THEN <<Answer(s)>> ELSE <<>>,
                             IF Epilogue(s) THEN <<StoreOf(t, s)>> ELSE <<>>)
  <2>1. DOMAIN Code = {MTE2(s), V(s), MTE3(s)}
    BY DEF Code
  <2> QED BY <1>5, <1>6, <1>7, <2>1 DEF Joined, If
<1> HIDE DEF P
<1>9. /\ \A x : Joined(<<>>, <<x>>) = <<x>>
      /\ \A x : Joined(<<x>>, <<>>) = <<x>>
      /\ \A x, y : Joined(<<x>>, <<y>>) = <<x, y>>
      /\ Joined(<<>>, <<>>) = <<>>
  <2>1. ASSUME NEW x PROVE Joined(<<>>, <<x>>) = <<x>> /\ Joined(<<x>>, <<>>) = <<x>>
    <3>1. Joined(<<>>, <<x>>) = <<x>>
      BY DEF Joined
    <3>2. Joined(<<x>>, <<>>) = <<x>>
      BY DEF Joined
    <3> QED BY <3>1, <3>2
  <2>2. ASSUME NEW x, NEW y PROVE Joined(<<x>>, <<y>>) = <<x, y>>
    <3> DEFINE r == Joined(<<x>>, <<y>>)
    <3>1. HasLength(r, 2) /\ r[1] = x /\ r[2] = y
      BY Appended, ShortSequences
    <3>2. r = [i \in 1..2 |-> r[i]]
      BY <3>1 DEF HasLength
    <3> QED BY <3>1, <3>2
  <2>3. Joined(<<>>, <<>>) = <<>>
    BY DEF Joined
  <2> QED BY <2>1, <2>2, <2>3, Zenon
<1>10. /\ P[MTE2(s)] = IF Epilogue(s) THEN <<Load(t, s)>> ELSE <<>>
       /\ P[V(s)] = IF Epilogue(s) THEN <<Pass(s)>> ELSE <<>>
       /\ P[MTE3(s)] = IF Epilogue(s)
                       THEN IF Answers(s) THEN <<Answer(s), StoreOf(t, s)>> ELSE <<StoreOf(t, s)>>
                       ELSE IF Answers(s) THEN <<Answer(s)>> ELSE <<>>
  BY <1>8, <1>9
<1>11. /\ queue' = [p \in Pipes |-> queue'[p]]
       /\ \A p \in Pipes : p \notin {MTE2(s), V(s), MTE3(s)} => queue'[p] = queue[p]
       /\ \A n, m : HasLength(queue[MTE2(s)], n) /\ HasLength(P[MTE2(s)], m)
                    => Lengthened(MTE2(s), n, P[MTE2(s)], m)
       /\ \A n, m : HasLength(queue[V(s)], n) /\ HasLength(P[V(s)], m)
                    => Lengthened(V(s), n, P[V(s)], m)
       /\ \A n, m : HasLength(queue[MTE3(s)], n) /\ HasLength(P[MTE3(s)], m)
                    => Lengthened(MTE3(s), n, P[MTE3(s)], m)
  BY <1>1, <1>3, IssueEffect, NamesDiffer
<1>12. /\ HasLength(<<>>, 0) /\ \A x : HasLength(<<x>>, 1)
       /\ \A x, y : HasLength(<<x, y>>, 2)
  BY ShortSequences
<1> QED BY <1>10, <1>11, <1>12
(* What a turn does to the state of the core.                              *)
LEMMA TileTurn ==
    ASSUME Types, NEW s \in Subs, AivTile(s)
    PROVE  /\ call' = call /\ blockIdx' = blockIdx /\ aic' = aic /\ memory' = memory
           /\ aiv[s].pc = "loop" /\ aiv[s].loopIdx < coreLoops(call) /\ events[flag(s)] > 0
           /\ aiv'[s].pc = "loop" /\ aiv'[s].loopIdx = aiv[s].loopIdx + call.aiCoreNum
           /\ aiv'[s].count = IF Answers(s) THEN 0 ELSE aiv[s].count + 1
           /\ \A r \in Subs : r # s => aiv'[r] = aiv[r]
           /\ aiv'[s] = [pc |-> aiv'[s].pc, loopIdx |-> aiv'[s].loopIdx, count |-> aiv'[s].count]
           /\ aiv' = [r \in Subs |-> aiv'[r]]
           /\ events' = [e \in Events |-> events'[e]]
           /\ events'[flag(s)] = events[flag(s)] - 1
           /\ \A e \in Events : e # flag(s) => events'[e] = events[e]
<1>1. /\ call' = call /\ blockIdx' = blockIdx /\ aic' = aic /\ memory' = memory
      /\ aiv[s].pc = "loop" /\ aiv[s].loopIdx < coreLoops(call) /\ events[flag(s)] > 0
  BY DEF AivTile, InLoop
<1>2. /\ aiv'[s].pc = "loop" /\ aiv'[s].loopIdx = aiv[s].loopIdx + call.aiCoreNum
      /\ aiv'[s].count = IF Answers(s) THEN 0 ELSE aiv[s].count + 1
      /\ \A r \in Subs : r # s => aiv'[r] = aiv[r]
  BY <1>1 DEF AivTile, Answers, Types
<1>3. /\ aiv'[s] = [pc |-> aiv'[s].pc, loopIdx |-> aiv'[s].loopIdx, count |-> aiv'[s].count]
      /\ aiv' = [r \in Subs |-> aiv'[r]]
  BY DEF AivTile, Types
<1>4. events' = [events EXCEPT ![flag(s)] = @ - 1]
  BY DEF AivTile
<1>5. events \in [Events -> Nat] /\ flag(s) \in Events
  BY NamesDiffer DEF Types, PipeTypes
<1> QED BY <1>1, <1>2, <1>3, <1>4, <1>5

(* The queues of the core with the code of tile t, and of an answer.       *)
LEMMA TileQueued ==
    ASSUME Types, NEW s \in Subs, AivTile(s), NEW t, t = aiv[s].loopIdx,
           NEW todo, NEW n \in Nat, Len(todo) = n, NEW f \in 0..1, NEW v \in 0..1, f <= n, v <= n,
           NEW a \in 0..(n + 1), Queued(s, todo, f, v, a, 0), Answers(s) => a = 0,
           NEW b, b = IF Answers(s) THEN n + 1 ELSE a,
           NEW next, Len(next) = IF Epilogue(s) THEN n + 1 ELSE n,
           \A i \in 1..n : next[i] = todo[i], Epilogue(s) => next[n + 1] = t
    PROVE  Queued(s, next, f, v, b, 0)'
<1>1. call' = call
  BY TileTurn
<1>2. /\ \A x : Load(x, s)' = Load(x, s) /\ StoreOf(x, s)' = StoreOf(x, s)
      /\ LastWait(s)' = LastWait(s) /\ Pass(s)' = Pass(s) /\ Answer(s)' = Answer(s)
      /\ MTE2(s)' = MTE2(s) /\ V(s)' = V(s) /\ MTE3(s)' = MTE3(s)
  BY <1>1, SameCode DEF LastWait, Pass, Answer, MTE2, V, MTE3
<1>3. LoadQueue(s, next, f, 0)'
  <2> DEFINE q == queue[MTE2(s)]
             r == queue'[MTE2(s)]
  <2>1. HasLength(q, n - f) /\ \A i \in 1..(n - f) : q[i] = Load(todo[i + f], s)
    BY DEF Queued, LoadQueue
  <2>2. IF Epilogue(s) THEN Lengthened(MTE2(s), n - f, <<Load(t, s)>>, 1)
        ELSE Lengthened(MTE2(s), n - f, <<>>, 0)
    BY <2>1, TileProgram
  <2>3. /\ HasLength(r, IF Epilogue(s) THEN n - f + 1 ELSE n - f)
        /\ \A i \in 1..(n - f) : r[i] = Load(todo[i + f], s)
        /\ Epilogue(s) => r[n - f + 1] = Load(t, s)
    BY <2>1, <2>2 DEF Lengthened
  <2> HIDE DEF q, r
  <2>4. HasLength(r, Len(next) - f + 0)
    BY <2>3
  <2>5. ASSUME NEW i \in 1..(Len(next) - f + 0)
        PROVE  i <= Len(next) - f /\ r[i] = Load(next[i + f], s)
    <3>1. CASE i <= n - f
      <4>1. i \in 1..(n - f) /\ i + f \in 1..n
        BY <3>1
      <4> QED BY <2>3, <3>1, <4>1
    <3>2. CASE ~ (i <= n - f)
      <4>1. Epilogue(s) /\ i = n - f + 1 /\ i + f = n + 1
        BY <3>2
      <4> QED BY <2>3, <4>1
    <3> QED BY <3>1, <3>2
  <2> QED BY <1>2, <2>4, <2>5 DEF LoadQueue, r
<1>4. PassQueue(s, Len(next) - v)'
  <2> DEFINE r == queue'[V(s)]
  <2>1. HasLength(queue[V(s)], n - v) /\ \A i \in 1..(n - v) : queue[V(s)][i] = Pass(s)
    BY DEF Queued, PassQueue
  <2>2. IF Epilogue(s) THEN Lengthened(V(s), n - v, <<Pass(s)>>, 1)
        ELSE Lengthened(V(s), n - v, <<>>, 0)
    BY <2>1, TileProgram
  <2>3. /\ HasLength(r, Len(next) - v)
        /\ \A i \in 1..(n - v) : r[i] = Pass(s)
        /\ Epilogue(s) => r[n - v + 1] = Pass(s)
    <3>1. Len(next) - v = IF Epilogue(s) THEN n - v + 1 ELSE n - v
      OBVIOUS
    <3> QED BY <2>1, <2>2, <3>1 DEF Lengthened
  <2> HIDE DEF r
  <2>4. ASSUME NEW i \in 1..(Len(next) - v) PROVE r[i] = Pass(s)
    <3>1. i \in 1..(n - v) \/ (Epilogue(s) /\ i = n - v + 1)
      OBVIOUS
    <3> QED BY <2>3, <3>1
  <2> QED BY <1>2, <2>3, <2>4 DEF PassQueue, r
<1>5. StoreQueue(s, next, b)'
  <2> DEFINE q == queue[MTE3(s)]
             r == queue'[MTE3(s)]
             m == IF a = 0 THEN n ELSE n + 1
  <2>1. /\ HasLength(q, m) /\ m \in Nat
        /\ \A i \in 1..m : q[i] = IF a = 0 \/ i < a THEN StoreOf(todo[i], s)
                                  ELSE IF i = a THEN Answer(s) ELSE StoreOf(todo[i - 1], s)
    <3>1. m = n + (IF a = 0 THEN 0 ELSE 1) /\ m \in Nat
      OBVIOUS
    <3> QED BY <3>1 DEF Queued, StoreQueue
  <2>2. IF Epilogue(s)
        THEN IF Answers(s) THEN Lengthened(MTE3(s), m, <<Answer(s), StoreOf(t, s)>>, 2)
             ELSE Lengthened(MTE3(s), m, <<StoreOf(t, s)>>, 1)
        ELSE IF Answers(s) THEN Lengthened(MTE3(s), m, <<Answer(s)>>, 1)
             ELSE Lengthened(MTE3(s), m, <<>>, 0)
    BY <2>1, TileProgram
  <2> HIDE DEF m
  <2>3. /\ \A i \in 1..m : r[i] = q[i]
        /\ HasLength(r, IF Epilogue(s) THEN IF Answers(s) THEN m + 2 ELSE m + 1
                        ELSE IF Answers(s) THEN m + 1 ELSE m)
        /\ Answers(s) => r[m + 1] = Answer(s)
        /\ Epilogue(s) /\ Answers(s) => r[m + 2] = StoreOf(t, s)
        /\ Epilogue(s) /\ ~Answers(s) => r[m + 1] = StoreOf(t, s)
    BY <2>1, <2>2 DEF Lengthened
  <2> HIDE DEF q, r
  <2>4. Answers(s) => m = n
    BY DEF m
  <2>5. HasLength(r, Len(next) + (IF b = 0 THEN 0 ELSE 1))
    <3>1. Len(next) + (IF b = 0 THEN 0 ELSE 1)
            = IF Epilogue(s) THEN IF Answers(s) THEN m + 2 ELSE m + 1
              ELSE IF Answers(s) THEN m + 1 ELSE m
      BY <2>4 DEF m
    <3> QED BY <2>3, <3>1
  <2>6. ASSUME NEW i \in 1..(Len(next) + (IF b = 0 THEN 0 ELSE 1))
        PROVE  r[i] = IF b = 0 \/ i < b THEN StoreOf(next[i], s)
                      ELSE IF i = b THEN Answer(s) ELSE StoreOf(next[i - 1], s)
    <3>1. CASE Answers(s)
      <4>1. b = n + 1 /\ a = 0 /\ m = n
        BY <2>4, <3>1
      <4>2. CASE i <= n
        <5>1. r[i] = q[i] /\ q[i] = StoreOf(todo[i], s) /\ next[i] = todo[i]
          BY <2>1, <2>3, <4>1, <4>2
        <5> QED BY <4>1, <4>2, <5>1
      <4>3. CASE i = n + 1
        BY <2>3, <3>1, <4>1, <4>3
      <4>4. CASE i > n + 1
        <5>1. i = n + 2 /\ Epilogue(s) /\ i - 1 = n + 1
          BY <3>1, <4>1, <4>4
        <5>2. r[i] = StoreOf(t, s) /\ next[i - 1] = t
          BY <2>3, <3>1, <4>1, <5>1
        <5> QED BY <4>1, <5>1, <5>2
      <4> QED BY <4>2, <4>3, <4>4
    <3>2. CASE ~Answers(s)
      <4>1. b = a
        BY <3>2
      <4>2. CASE i <= m
        <5>1. r[i] = q[i] /\ i \in 1..m
          BY <2>3, <4>2
        <5>2. q[i] = IF a = 0 \/ i < a THEN StoreOf(todo[i], s)
                     ELSE IF i = a THEN Answer(s) ELSE StoreOf(todo[i - 1], s)
          BY <2>1, <5>1
        <5>3. CASE a = 0 \/ i < a
          <6>1. i \in 1..n
            BY <4>2, <5>3 DEF m
          <6> QED BY <4>1, <5>1, <5>2, <5>3, <6>1
        <5>4. CASE a # 0 /\ i = a
          BY <4>1, <5>1, <5>2, <5>4
        <5>5. CASE a # 0 /\ i > a
          <6>1. i - 1 \in 1..n
            BY <4>2, <5>5 DEF m
          <6>2. r[i] = StoreOf(todo[i - 1], s) /\ next[i - 1] = todo[i - 1]
            BY <5>1, <5>2, <5>5, <6>1
          <6> QED BY <4>1, <5>5, <6>2
        <5> QED BY <5>3, <5>4, <5>5
      <4>3. CASE ~ (i <= m)
        <5>1. Epilogue(s) /\ i = m + 1
          BY <2>1, <3>2, <4>1, <4>3 DEF m
        <5>2. r[i] = StoreOf(t, s)
          BY <2>3, <3>2, <5>1
        <5>3. IF a = 0 THEN next[i] = t ELSE i > a /\ next[i - 1] = t
          BY <5>1 DEF m
        <5> QED BY <4>1, <5>2, <5>3
      <4> QED BY <2>1, <4>2, <4>3
    <3> QED BY <3>1, <3>2
  <2> QED BY <1>2, <2>5, <2>6 DEF StoreQueue, r
<1> QED BY <1>3, <1>4, <1>5 DEF Queued

(* The state of the core after its turn.                                   *)
LEMMA TileVector ==
    ASSUME Types, FixQueue, NEW s \in Subs, AivTile(s),
           NEW todo, NEW f, NEW v, NEW a, NEW token, Vector(s, todo, f, v, a, token)
    PROVE  \E next, b : Vector(s, next, f, v, b, token)'
<1> DEFINE n == Len(todo)
           N == call.aiCoreNum
<1>1. /\ call' = call /\ blockIdx' = blockIdx /\ aic' = aic /\ memory' = memory
      /\ aiv[s].pc = "loop" /\ aiv[s].loopIdx < coreLoops(call) /\ events[flag(s)] > 0
      /\ aiv'[s].pc = "loop" /\ aiv'[s].loopIdx = aiv[s].loopIdx + N
      /\ aiv'[s].count = IF Answers(s) THEN 0 ELSE aiv[s].count + 1
      /\ events'[flag(s)] = events[flag(s)] - 1
      /\ \A e \in Events : e # flag(s) => events'[e] = events[e]
  BY TileTurn
<1>2. /\ N \in Nat \ {0} /\ coreLoops(call) \in Nat /\ REVERSE_DEPTH \in Nat \ {0}
      /\ aic.count \in Nat /\ aic.count <= REVERSE_DEPTH /\ aic.loopIdx \in Nat
      /\ PendingFlags \in Nat /\ aiv[s].loopIdx \in Nat
      /\ aiv[s].count \in Nat /\ aiv[s].count < REVERSE_DEPTH
      /\ events[flag(s)] \in Nat /\ events[reverse(s)] \in Nat
      /\ flag(s) \in Events /\ reverse(s) \in Events
  BY TypeFacts, NamesDiffer
<1>3. /\ todo \in Seq(Tiles) /\ n \in Nat /\ f \in 0..1 /\ v \in 0..f /\ f <= n
      /\ a \in 0..(n + 1) /\ token \in 0..1
      /\ \A i \in 1..n : todo[i] < aiv[s].loopIdx /\ HasRows(todo[i], s) /\ todo[i] \in Tiles
      /\ \A i, j \in 1..n : i < j => todo[i] < todo[j]
      /\ token = 0 => todo = <<>>
      /\ call.mode # GEMM_ONLY => token = 1
  BY <1>1 DEF Vector, Todo
<1>4. PICK t \in Tiles : t = aiv[s].loopIdx /\ t \in Nat
  BY <1>1, <1>2 DEF Tiles
<1>5. Answers(s) => a = 0 /\ events[reverse(s)] = 0
  <2>1. /\ aic.count = events[flag(s)] + PendingFlags + aiv[s].count
                       + (IF (IF a # 0 THEN 1 ELSE events[reverse(s)]) = 1
                          THEN REVERSE_DEPTH ELSE 0)
        /\ events[reverse(s)] <= 1
    BY DEF Vector, Credit
  <2>2. Answers(s) => aiv[s].count + 1 >= REVERSE_DEPTH
    BY DEF Answers
  <2> QED BY <1>1, <1>2, <2>1, <2>2
<1>6. PICK next \in Seq(Tiles) :
            /\ Len(next) = IF Epilogue(s) THEN n + 1 ELSE n
            /\ \A i \in 1..n : next[i] = todo[i]
            /\ Epilogue(s) => next[n + 1] = t
  <2>1. CASE Epilogue(s)
    <3> DEFINE r == Append(todo, t)
    <3>1. r \in Seq(Tiles) /\ Len(r) = n + 1 /\ r[n + 1] = t
      BY <1>3
    <3>2. \A i \in 1..n : r[i] = todo[i]
      BY <1>3
    <3> HIDE DEF r
    <3> QED BY <2>1, <3>1, <3>2
  <2>2. CASE ~Epilogue(s)
    BY <1>3, <2>2
  <2> QED BY <2>1, <2>2
<1>7. PICK b : b = IF Answers(s) THEN n + 1 ELSE a
  OBVIOUS
<1>8. Epilogue(s) <=> call.mode # GEMM_ONLY /\ HasRows(t, s)
  BY <1>4 DEF Epilogue
<1>9. /\ ReadsGate' = ReadsGate /\ ReadsUp' = ReadsUp /\ StoresD' = StoresD /\ Tiles' = Tiles
      /\ \A x : /\ HasRows(x, s)' = HasRows(x, s)
                /\ Gate(x, s)' = Gate(x, s) /\ Up(x, s)' = Up(x, s) /\ D(x, s)' = D(x, s)
                /\ InC("gate", x, s)' = InC("gate", x, s)
                /\ InC("up", x, s)' = InC("up", x, s)
                /\ InD(x, s)' = InD(x, s)
  BY <1>1, SameCall
<1>10. \A x : Stored(x, s)' = Stored(x, s)
  BY <1>1, <1>9 DEF Stored, GateStored, UpStored
<1>11. Todo(s, next, f, v, b, token)'
  <2>1. ASSUME NEW i \in 1..Len(next)
        PROVE  next[i] < aiv'[s].loopIdx /\ HasRows(next[i], s) /\ next[i] <= t
               /\ (i = n + 1 => next[i] = t) /\ (i # n + 1 => i \in 1..n /\ next[i] < t)
    <3>1. CASE i \in 1..n
      <4>1. next[i] = todo[i] /\ todo[i] < aiv[s].loopIdx /\ HasRows(todo[i], s)
            /\ todo[i] \in Int
        BY <1>3, <1>6, <3>1 DEF Tiles
      <4>2. next[i] < t
        BY <1>4, <4>1
      <4>3. i # n + 1
        BY <1>3, <3>1
      <4>4. aiv'[s].loopIdx = t + N /\ next[i] \in Int
        BY <1>1, <1>4, <4>1
      <4> HIDE DEF n
      <4> QED BY <1>2, <1>4, <3>1, <4>1, <4>2, <4>3, <4>4
    <3>2. CASE i \notin 1..n
      <4>1. i = n + 1 /\ Epilogue(s)
        BY <1>3, <1>6, <3>2
      <4> QED BY <1>1, <1>2, <1>4, <1>6, <1>8, <4>1
    <3> QED BY <3>1, <3>2
  <2>2. ASSUME NEW i \in 1..Len(next), NEW j \in 1..Len(next), i < j PROVE next[i] < next[j]
    <3>1. CASE j = n + 1
      <4>1. i # n + 1
        BY <2>2, <3>1
      <4> QED BY <2>1, <3>1, <4>1
    <3>2. CASE j # n + 1
      <4>1. i \in 1..n /\ j \in 1..n
        BY <1>3, <1>6, <2>1, <2>2, <3>2
      <4> QED BY <1>3, <1>6, <2>2, <4>1
    <3> QED BY <3>1, <3>2
  <2>3. f <= Len(next) /\ b \in 0..(Len(next) + 1)
    BY <1>3, <1>6, <1>7
  <2>4. token = 0 => next = <<>>
    <3>1. ASSUME token = 0 PROVE next = <<>>
      <4>1. todo = <<>> /\ call.mode = GEMM_ONLY
        BY <1>3, <3>1
      <4>2. Len(next) = 0
        BY <1>6, <1>8, <4>1
      <4> QED BY <1>6, <4>2
    <3> QED BY <3>1
  <2>5. call.mode = GEMM_ONLY => token = 0
    BY DEF Vector, Todo
  <2>6. /\ \A i \in 1..Len(next) : next[i] < aiv'[s].loopIdx /\ HasRows(next[i], s)'
        /\ Tiles' = Tiles /\ call.mode' = call.mode
    BY <1>1, <1>9, <2>1
  <2> QED BY <1>1, <1>3, <1>6, <2>2, <2>3, <2>4, <2>5, <2>6 DEF Todo
<1>12. Queued(s, next, f, v, b, IF aiv[s].pc = "loop" THEN 0 ELSE token)'
  <2>1. Queued(s, todo, f, v, a, 0)
    BY <1>1 DEF Vector
  <2>2. Queued(s, next, f, v, b, 0)'
    <3>1. v \in 0..1 /\ v <= n
      BY <1>3
    <3> HIDE DEF n
    <3> QED BY <1>3, <1>4, <1>5, <1>6, <1>7, <2>1, <3>1, TileQueued DEF n
  <2>3. (IF aiv[s].pc = "loop" THEN 0 ELSE token)' = 0
    BY <1>1
  <2> QED BY <2>2, <2>3
<1>13. Tokens(s, f, v, token)'
  <2>1. /\ MTE3_MTE2(s) # flag(s) /\ MTE2_V(s) # flag(s) /\ V_MTE3(s) # flag(s)
        /\ MTE3_MTE2(s)' = MTE3_MTE2(s) /\ MTE2_V(s)' = MTE2_V(s) /\ V_MTE3(s)' = V_MTE3(s)
    BY DEF MTE3_MTE2, MTE2_V, V_MTE3, flag
  <2> QED BY <1>1, <2>1, NamesDiffer DEF Vector, Tokens
<1>14. Credit(s, b)'
  <2>1. PendingFlags' = PendingFlags
    <3>1. queue'[FIX] = queue[FIX]
      <4>1. FIX \notin {MTE2(s), V(s), MTE3(s)}
        BY DEF FIX, MTE2, V, MTE3
      <4> QED BY <4>1, TileProgram, NamesDiffer
    <3> QED BY <1>1, <3>1, SameCall DEF PendingFlags, FIX
  <2>2. /\ flag(s)' = flag(s) /\ reverse(s)' = reverse(s) /\ reverse(s) # flag(s)
    BY DEF flag, reverse
  <2>3. events'[reverse(s)] = events[reverse(s)]
    BY <1>1, <1>2, <2>2
  <2> DEFINE e == events[flag(s)]
             P == PendingFlags
             c == aiv[s].count
             A == IF a # 0 THEN 1 ELSE events[reverse(s)]
             B == IF b # 0 THEN 1 ELSE events'[reverse(s)]
             c2 == IF Answers(s) THEN 0 ELSE c + 1
  <2>4. /\ (e + P) * N = aic.loopIdx - aiv[s].loopIdx
        /\ aic.count = e + P + c + (IF A = 1 THEN REVERSE_DEPTH ELSE 0)
        /\ events[reverse(s)] <= 1
        /\ a # 0 => events[reverse(s)] = 0
    BY DEF Vector, Credit
  <2>5. e \in Nat /\ P \in Nat /\ e > 0 /\ c \in Nat /\ c < REVERSE_DEPTH
    BY <1>1, <1>2
  <2>6. (e - 1 + P) * N = aic.loopIdx - (aiv[s].loopIdx + N)
    <3> HIDE DEF e, P, N
    <3> DEFINE g == e - 1 + P
    <3>1. g \in Int /\ e + P = g + 1 /\ N \in Int
      BY <1>2, <2>5
    <3>2. (g + 1) * N = aic.loopIdx - aiv[s].loopIdx
      BY <2>4, <3>1
    <3> HIDE DEF g
    <3>3. (g + 1) * N = g * N + N /\ g * N \in Int
      BY <3>1, ProductNext
    <3>4. g * N = aic.loopIdx - (aiv[s].loopIdx + N)
      <4> DEFINE x == g * N
                 y == aic.loopIdx
                 z == aiv[s].loopIdx
      <4>1. x + N = y - z /\ x \in Int /\ y \in Int /\ z \in Int /\ N \in Int
        BY <1>2, <3>1, <3>2, <3>3
      <4> HIDE DEF x, y, z
      <4>2. x = y - (z + N)
        BY <4>1
      <4> QED BY <4>2 DEF x, y, z
    <3> QED BY <3>4 DEF g
  <2>7. B = IF Answers(s) THEN 1 ELSE A
    BY <1>2, <1>3, <1>7, <2>3
  <2>8. aic.count = e - 1 + P + c2 + (IF B = 1 THEN REVERSE_DEPTH ELSE 0)
    <3>1. CASE Answers(s)
      <4>1. A = 0 /\ B = 1 /\ c2 = 0 /\ c + 1 = REVERSE_DEPTH
        BY <1>2, <1>5, <2>5, <2>7, <3>1 DEF Answers
      <4> HIDE DEF A, B, c, c2, e, P
      <4> QED BY <1>2, <2>4, <2>5, <4>1
    <3>2. CASE ~Answers(s)
      <4>1. A = B /\ c2 = c + 1
        BY <2>7, <3>2
      <4> HIDE DEF A, B, c, c2, e, P
      <4> QED BY <1>2, <2>4, <2>5, <4>1
    <3> QED BY <3>1, <3>2
  <2>9. b # 0 => events'[reverse(s)] = 0
    BY <1>5, <1>7, <2>3, <2>4
  <2>10. events'[flag(s)] = e - 1 /\ aiv'[s].count = c2 /\ aiv'[s].loopIdx = aiv[s].loopIdx + N
         /\ aic' = aic /\ call' = call
    BY <1>1
  <2>11. events'[reverse(s)] <= 1
    BY <2>3, <2>4
  <2>12. /\ (events'[flag(s)] + PendingFlags') * call'.aiCoreNum = aic'.loopIdx - aiv'[s].loopIdx
         /\ aic'.count = events'[flag(s)] + PendingFlags' + aiv'[s].count
                          + (IF (IF b # 0 THEN 1 ELSE events'[reverse(s)]) = 1
                             THEN REVERSE_DEPTH ELSE 0)
    <3>1. P = PendingFlags' /\ N = call'.aiCoreNum
      BY <2>1, <2>10
    <3>2. B = (IF b # 0 THEN 1 ELSE events'[reverse(s)])
      OBVIOUS
    <3> HIDE DEF e, c, c2, N, P, B
    <3> QED BY <2>6, <2>8, <2>10, <3>1, <3>2
  <2> QED BY <2>2, <2>9, <2>11, <2>12 DEF Credit
<1>15. UBFinds(s, next, f)'
  <2>1. ubGate(s)' = ubGate(s) /\ ubUp(s)' = ubUp(s)
    BY DEF ubGate, ubUp
  <2>2. f = 1 => next[1] = todo[1]
    BY <1>3, <1>6
  <2> QED BY <1>1, <1>9, <2>1, <2>2 DEF UBFinds, InUB, Vector, VectorFinds
<1>16. LoadsFind(s, next, f)'
  <2>1. ASSUME NEW i \in (f + 1)..Len(next) PROVE Stored(next[i], s)
    <3>1. CASE i \in 1..n
      <4>1. i \in (f + 1)..n
        BY <1>3, <3>1
      <4> QED BY <1>6, <3>1, <4>1 DEF Vector, VectorFinds, LoadsFind
    <3>2. CASE i \notin 1..n
      <4>1. i = n + 1 /\ Epilogue(s)
        BY <1>3, <1>6, <3>2
      <4>2. t = Ahead(s, 0) /\ 0 \in 0..(events[flag(s)] - 1)
        BY <1>1, <1>2, <1>4 DEF Ahead
      <4>3. Stored(t, s)
        BY <1>8, <4>1, <4>2 DEF Vector, VectorFinds, FlagsFind
      <4> QED BY <1>6, <4>1, <4>3
    <3> QED BY <3>1, <3>2
  <2> QED BY <1>10, <2>1 DEF LoadsFind
<1>17. FlagsFind(s)'
  <2>1. ASSUME NEW j \in 0..(events[flag(s)] - 1 - 1), NEW x \in Tiles, x = Ahead(s, j)',
               HasRows(x, s)
        PROVE  Stored(x, s)
    <3>1. Ahead(s, j)' = aiv[s].loopIdx + N + j * N
      BY <1>1 DEF Ahead
    <3>2. Ahead(s, j + 1) = aiv[s].loopIdx + (j + 1) * N
      BY DEF Ahead
    <3>3. (j + 1) * N = j * N + N /\ j * N \in Int
      <4>1. j \in Int /\ N \in Int
        BY <1>2
      <4> HIDE DEF N
      <4> QED BY <4>1, ProductNext
    <3>4. x = Ahead(s, j + 1)
      <4> HIDE DEF N
      <4> QED BY <1>2, <2>1, <3>1, <3>2, <3>3
    <3>5. j + 1 \in 0..(events[flag(s)] - 1)
      BY <1>2
    <3> QED BY <2>1, <3>4, <3>5 DEF Vector, VectorFinds, FlagsFind
  <2>2. flag(s)' = flag(s)
    BY DEF flag
  <2> QED BY <1>1, <1>9, <1>10, <2>1, <2>2 DEF FlagsFind
<1>18. DFinds(s, next)'
  <2>1. ASSUME call.mode # GEMM_ONLY, NEW x \in Tiles, StoredBy(s, next, x)'
        PROVE  StoredBy(s, todo, x)
    <3>1. /\ x % N = blockIdx /\ x < t + N /\ HasRows(x, s)
          /\ \A i \in 1..Len(next) : next[i] # x
      BY <1>1, <1>4, <1>9, <2>1 DEF StoredBy
    <3>2. x < t
      <4>1. t % N = blockIdx
        BY <1>4 DEF Types, CoreTypes, LoopInRange
      <4>2. x = t => FALSE
        <5>1. ASSUME x = t PROVE FALSE
          <6>1. Epilogue(s)
            BY <1>8, <2>1, <3>1, <5>1
          <6>2. n + 1 \in 1..Len(next) /\ next[n + 1] = t
            BY <1>3, <1>6, <6>1
          <6> QED BY <3>1, <5>1, <6>2
        <5> QED BY <5>1
      <4>3. x \in Nat
        BY DEF Tiles
      <4>4. t <= x => x = t
        <5> HIDE DEF N
        <5> QED BY <1>2, <1>4, <3>1, <4>1, <4>3, TurnOfLoop
      <4> QED BY <1>4, <4>2, <4>3, <4>4
    <3>3. \A i \in 1..n : todo[i] # x
      <4>1. ASSUME NEW i \in 1..n PROVE todo[i] # x
        <5>1. i \in 1..Len(next) /\ next[i] = todo[i]
          BY <1>3, <1>6
        <5> QED BY <3>1, <5>1
      <4> QED BY <4>1
    <3> QED BY <1>4, <3>1, <3>2, <3>3 DEF StoredBy
  <2>2. call.mode' = call.mode
    BY <1>1
  <2> QED BY <1>1, <1>9, <2>1, <2>2 DEF DFinds, Vector, VectorFinds
<1>19. VectorFinds(s, next, f)'
  BY <1>15, <1>16, <1>17, <1>18 DEF VectorFinds
<1> QED BY <1>11, <1>12, <1>13, <1>14, <1>19 DEF Vector

(* A step that leaves the queue of FIX and the memory as they are.         *)
LEMMA FixFrame ==
    ASSUME call' = call, aic' = aic, queue'[FIX] = queue[FIX]
    PROVE  /\ FixQueue => FixQueue'
           /\ PendingFlags' = PendingFlags
           /\ memory' = memory /\ FixFinds => FixFinds'
           /\ \A n, i : FixTile(n, i)' = FixTile(n, i)
<1>1. K' = K /\ FIX' = FIX /\ Tiles' = Tiles /\ \A t, kind : FixCode(t, kind)' = FixCode(t, kind)
  BY SameCall, SameCode DEF FIX
<1>2. \A n, i : FixTile(n, i)' = FixTile(n, i)
  BY <1>1 DEF FixTile
<1>3. FixQueue => FixQueue'
  BY <1>1, <1>2 DEF FixQueue
<1>4. PendingFlags' = PendingFlags
  BY <1>1 DEF PendingFlags
<1>5. ASSUME memory' = memory, FixFinds PROVE FixFinds'
  <2>1. /\ \A t : ActiveSubs(t)' = ActiveSubs(t)
        /\ \A t, s : GateStored(t, s)' = GateStored(t, s) /\ UpStored(t, s)' = UpStored(t, s)
    BY <1>5, SameCall DEF GateStored, UpStored
  <2> QED BY <1>1, <1>2, <1>5, <2>1 DEF FixFinds, Stored
<1> QED BY <1>2, <1>3, <1>4, <1>5

(* The types of what a vector core leaves alone.                           *)
LEMMA TypesFrame ==
    ASSUME Types, call' = call, blockIdx' = blockIdx
    PROVE  /\ CallTypes'
           /\ aic' = aic /\ queue'[FIX] = queue[FIX] => CubeTypes'
           /\ \A s \in Subs : aiv'[s] = aiv[s] => CoreTypes(s)'
<1>1. coreLoops(call)' = coreLoops(call) /\ FIX' = FIX
  BY DEF FIX
<1>2. CallTypes'
  BY DEF Types, CallTypes
<1>3. ASSUME aic' = aic, queue'[FIX] = queue[FIX] PROVE CubeTypes'
  BY <1>1, <1>3 DEF Types, CubeTypes, LoopInRange
<1>4. ASSUME NEW s \in Subs, aiv'[s] = aiv[s] PROVE CoreTypes(s)'
  BY <1>1, <1>4 DEF Types, CoreTypes, LoopInRange
<1> QED BY <1>2, <1>3, <1>4

(* A vector core takes the flag of a tile and issues what is to be done.   *)
LEMMA AivTileInv ==
    ASSUME Inv, NEW s \in Subs, AivTile(s)
    PROVE  Inv'
<1>1. Types /\ FixQueue /\ FixFinds
  BY DEF Inv
<1>2. /\ call' = call /\ blockIdx' = blockIdx /\ aic' = aic /\ memory' = memory
      /\ aiv[s].pc = "loop" /\ aiv[s].loopIdx < coreLoops(call) /\ events[flag(s)] > 0
      /\ aiv'[s].pc = "loop" /\ aiv'[s].loopIdx = aiv[s].loopIdx + call.aiCoreNum
      /\ aiv'[s].count = IF Answers(s) THEN 0 ELSE aiv[s].count + 1
      /\ \A r \in Subs : r # s => aiv'[r] = aiv[r]
      /\ aiv'[s] = [pc |-> aiv'[s].pc, loopIdx |-> aiv'[s].loopIdx, count |-> aiv'[s].count]
      /\ aiv' = [r \in Subs |-> aiv'[r]]
      /\ events' = [e \in Events |-> events'[e]]
      /\ events'[flag(s)] = events[flag(s)] - 1
      /\ \A e \in Events : e # flag(s) => events'[e] = events[e]
  BY <1>1, TileTurn
<1>3. /\ queue' = [p \in Pipes |-> queue'[p]]
      /\ \A p \in Pipes : p \notin {MTE2(s), V(s), MTE3(s)} => queue'[p] = queue[p]
  BY TileProgram
<1>4. queue'[FIX] = queue[FIX]
  <2>1. FIX \notin {MTE2(s), V(s), MTE3(s)}
    BY DEF FIX, MTE2, V, MTE3
  <2> QED BY <1>3, <2>1, NamesDiffer
<1>5. /\ call.aiCoreNum \in Nat \ {0} /\ coreLoops(call) \in Nat /\ REVERSE_DEPTH \in Nat \ {0}
      /\ aiv[s].loopIdx \in Nat /\ aiv[s].count \in Nat /\ \A e \in Events : events[e] \in Nat
      /\ flag(s) \in Events
  BY <1>1, TypeFacts, NamesDiffer
<1>6. Types'
  <2>1. CoreTypes(s)'
    <3>1. aiv'[s].count \in 0..(REVERSE_DEPTH - 1)
      BY <1>2, <1>5 DEF Answers
    <3>2. (aiv[s].loopIdx + call.aiCoreNum) % call.aiCoreNum = blockIdx
      <4>1. aiv[s].loopIdx % call.aiCoreNum = blockIdx
        BY <1>1 DEF Types, CoreTypes, LoopInRange
      <4> QED BY <1>5, <4>1, TurnOfLoop
    <3>3. LoopInRange(aiv[s])'
      BY <1>2, <1>5, <3>2 DEF LoopInRange
    <3> QED BY <1>2, <3>1, <3>3 DEF CoreTypes
  <2>2. \A r \in Subs : CoreTypes(r)'
    BY <1>1, <1>2, <2>1, TypesFrame
  <2>3. CallTypes' /\ CubeTypes'
    BY <1>1, <1>2, <1>4, TypesFrame
  <2>4. PipeTypes'
    <3>1. \A e \in Events : events'[e] \in Nat
      BY <1>2, <1>5
    <3> QED BY <1>1, <1>2, <1>3, <3>1 DEF Types, PipeTypes
  <2> QED BY <1>2, <2>2, <2>3, <2>4 DEF Types
<1>7. FixQueue' /\ FixFinds' /\ PendingFlags' = PendingFlags
  BY <1>1, <1>2, <1>4, FixFrame
<1>8. ASSUME NEW r \in Subs PROVE (\E todo, f, v, a, token : Vector(r, todo, f, v, a, token))'
  <2>1. PICK todo, f, v, a, token : Vector(r, todo, f, v, a, token)
    BY DEF Inv
  <2>2. CASE r = s
    BY <1>1, <2>1, <2>2, TileVector
  <2>3. CASE r # s
    <3>1. /\ {MTE2(r), V(r), MTE3(r)} \cap {MTE2(s), V(s), MTE3(s)} = {}
          /\ flag(s) \notin {MTE3_MTE2(r), MTE2_V(r), V_MTE3(r), flag(r), reverse(r)}
      BY <2>3 DEF MTE2, V, MTE3, MTE3_MTE2, MTE2_V, V_MTE3, flag, reverse
    <3>2. SameCore(r) /\ SameCredit(r) /\ SameMemory(r)
      BY <1>2, <1>3, <1>7, <2>3, <3>1, NamesDiffer DEF SameCore, SameCredit, SameMemory
    <3>3. Vector(r, todo, f, v, a, token)'
      BY <1>2, <2>1, <3>2, VectorFrame
    <3> QED BY <3>3
  <2> QED BY <2>2, <2>3
<1> QED BY <1>6, <1>7, <1>8 DEF Inv

-----------------------------------------------------------------------------
(* A vector core waits for its last event, and returns.                    *)
LEMMA LastWaitVector ==
    ASSUME Types, FixQueue, NEW s \in Subs, AivLastWait(s),
           NEW todo, NEW f, NEW v, NEW a, NEW token, Vector(s, todo, f, v, a, token)
    PROVE  Vector(s, todo, f, v, a, token)'
<1> DEFINE n == Len(todo)
           P == [p \in {MTE2(s)} |->
                    If(call.mode # GEMM_ONLY, << Instruction({MTE3_MTE2(s)}, {}, {}, {}) >>)]
<1>1. /\ call' = call /\ blockIdx' = blockIdx /\ aic' = aic /\ events' = events
      /\ memory' = memory /\ aiv[s].pc = "loop" /\ Issue(P)
      /\ aiv' = [aiv EXCEPT ![s].pc = "barrier"]
  BY DEF AivLastWait
<1>2. /\ aiv'[s].pc = "barrier" /\ aiv'[s].loopIdx = aiv[s].loopIdx
      /\ aiv'[s].count = aiv[s].count
  BY <1>1 DEF Types, CoreTypes
<1>3. DOMAIN P = {MTE2(s)} /\ P[MTE2(s)] = IF call.mode # GEMM_ONLY THEN <<LastWait(s)>> ELSE <<>>
  BY DEF If, LastWait
<1> HIDE DEF P
<1>4. /\ \A p \in Pipes : p # MTE2(s) => queue'[p] = queue[p]
      /\ \A k, m : HasLength(queue[MTE2(s)], k) /\ HasLength(P[MTE2(s)], m)
                   => Lengthened(MTE2(s), k, P[MTE2(s)], m)
  BY <1>1, <1>3, IssueEffect, NamesDiffer
<1>5. FIX # MTE2(s) /\ V(s) # MTE2(s) /\ MTE3(s) # MTE2(s)
  BY DEF FIX, V, MTE2, MTE3
<1>6. /\ Todo(s, todo, f, v, a, token) /\ Queued(s, todo, f, v, a, 0) /\ Tokens(s, f, v, token)
      /\ Credit(s, a) /\ VectorFinds(s, todo, f)
  BY <1>1 DEF Vector
<1>7. /\ n \in Nat /\ f \in 0..1 /\ f <= n
      /\ call.mode = GEMM_ONLY => token = 0
      /\ call.mode # GEMM_ONLY => token = 1
  BY <1>1, <1>6 DEF Todo
<1>8. Todo(s, todo, f, v, a, token)'
  <2>1. Tiles' = Tiles /\ \A t : HasRows(t, s)' = HasRows(t, s)
    BY <1>1, SameCall
  <2> QED BY <1>1, <1>2, <1>6, <2>1 DEF Todo
<1>9. Queued(s, todo, f, v, a, token)'
  <2>1. /\ \A t : Load(t, s)' = Load(t, s) /\ StoreOf(t, s)' = StoreOf(t, s)
        /\ LastWait(s)' = LastWait(s) /\ Pass(s)' = Pass(s) /\ Answer(s)' = Answer(s)
        /\ MTE2(s)' = MTE2(s) /\ V(s)' = V(s) /\ MTE3(s)' = MTE3(s)
    BY <1>1, SameCode DEF LastWait, Pass, Answer, MTE2, V, MTE3
  <2>2. PassQueue(s, n - v)' /\ StoreQueue(s, todo, a)'
    BY <1>4, <1>5, <1>6, <2>1, NamesDiffer DEF Queued, PassQueue, StoreQueue
  <2> DEFINE r == queue'[MTE2(s)]
  <2>3. /\ HasLength(queue[MTE2(s)], n - f)
        /\ \A i \in 1..(n - f) : queue[MTE2(s)][i] = Load(todo[i + f], s)
    BY <1>6, <1>7 DEF Queued, LoadQueue
  <2>4. /\ HasLength(r, n - f + token)
        /\ \A i \in 1..(n - f) : r[i] = Load(todo[i + f], s)
        /\ token = 1 => r[n - f + 1] = LastWait(s)
    <3>1. CASE call.mode = GEMM_ONLY
      <4>1. Lengthened(MTE2(s), n - f, <<>>, 0)
        BY <1>3, <1>4, <2>3, <3>1, ShortSequences
      <4> QED BY <1>7, <2>3, <3>1, <4>1 DEF Lengthened
    <3>2. CASE call.mode # GEMM_ONLY
      <4>1. Lengthened(MTE2(s), n - f, <<LastWait(s)>>, 1)
        BY <1>3, <1>4, <2>3, <3>2, ShortSequences
      <4> QED BY <1>7, <2>3, <3>2, <4>1 DEF Lengthened
    <3> QED BY <3>1, <3>2
  <2> HIDE DEF r, n
  <2>5. ASSUME NEW i \in 1..(n - f + token)
        PROVE  r[i] = IF i <= n - f THEN Load(todo[i + f], s) ELSE LastWait(s)
    <3>1. CASE i <= n - f
      BY <1>7, <2>4, <3>1
    <3>2. CASE ~ (i <= n - f)
      <4>1. token = 1 /\ i = n - f + 1
        BY <1>7, <3>2
      <4> QED BY <2>4, <3>2, <4>1
    <3> QED BY <3>1, <3>2
  <2>6. LoadQueue(s, todo, f, token)'
    BY <2>1, <2>4, <2>5 DEF LoadQueue, r, n
  <2> QED BY <2>2, <2>6 DEF Queued, n
<1>10. Tokens(s, f, v, token)'
  BY <1>1, <1>6 DEF Tokens, MTE3_MTE2, MTE2_V, V_MTE3
<1>11. Credit(s, a)'
  <2>1. PendingFlags' = PendingFlags
    BY <1>1, <1>4, <1>5, NamesDiffer, FixFrame
  <2> QED BY <1>1, <1>2, <1>6, <2>1 DEF Credit, flag, reverse
<1>12. VectorFinds(s, todo, f)'
  <2>1. SameMemory(s)
    BY <1>1 DEF SameMemory
  <2> QED BY <1>1, <1>2, <1>6, <2>1, FindsFrame
<1> QED BY <1>2, <1>8, <1>9, <1>10, <1>11, <1>12 DEF Vector

(* A vector core returns when its queues are empty, so that no tile is on  *)
(* its way and no wait left.                                               *)
LEMMA ReturnVector ==
    ASSUME Types, FixQueue, NEW s \in Subs, AivReturn(s),
           NEW todo, NEW f, NEW v, NEW a, NEW token, Vector(s, todo, f, v, a, token)
    PROVE  Vector(s, todo, f, v, a, token)'
<1>1. /\ call' = call /\ blockIdx' = blockIdx /\ aic' = aic /\ events' = events
      /\ memory' = memory /\ queue' = queue /\ aiv[s].pc = "barrier"
      /\ \A p \in {MTE2(s), V(s), MTE3(s)} : queue[p] = <<>>
      /\ aiv' = [aiv EXCEPT ![s].pc = "done"]
  BY DEF AivReturn
<1>2. /\ aiv'[s].pc = "done" /\ aiv'[s].loopIdx = aiv[s].loopIdx
      /\ aiv'[s].count = aiv[s].count
  BY <1>1 DEF Types, CoreTypes
<1>3. /\ Todo(s, todo, f, v, a, token) /\ Queued(s, todo, f, v, a, token)
      /\ Tokens(s, f, v, token) /\ Credit(s, a) /\ VectorFinds(s, todo, f)
  BY <1>1 DEF Vector
<1>4. token = 0 /\ a = 0
  <2>1. /\ Len(todo) \in Nat /\ f \in 0..1 /\ f <= Len(todo) /\ token \in 0..1
        /\ a \in 0..(Len(todo) + 1)
    BY <1>3 DEF Todo
  <2>2. \A k : HasLength(queue[MTE2(s)], k) \/ HasLength(queue[MTE3(s)], k) => k = 0
    <3>1. queue[MTE2(s)] = <<>> /\ queue[MTE3(s)] = <<>>
      BY <1>1
    <3>2. \A k : HasLength(<<>>, k) => k = 0
      BY EmptyLength
    <3> QED BY <3>1, <3>2, Zenon
  <2>3. Len(todo) - f + token = 0
    BY <1>3, <2>2 DEF Queued, LoadQueue
  <2>4. Len(todo) + (IF a = 0 THEN 0 ELSE 1) = 0
    BY <1>3, <2>2 DEF Queued, StoreQueue
  <2> QED BY <2>1, <2>3, <2>4
<1>5. Todo(s, todo, f, v, a, token)'
  <2>1. Tiles' = Tiles /\ \A t : HasRows(t, s)' = HasRows(t, s)
    BY <1>1, SameCall
  <2> QED BY <1>1, <1>2, <1>3, <1>4, <2>1 DEF Todo
<1>6. Queued(s, todo, f, v, a, token)'
  BY <1>1, <1>3, QueuedFrame
<1>7. Tokens(s, f, v, token)'
  BY <1>1, <1>3 DEF Tokens, MTE3_MTE2, MTE2_V, V_MTE3
<1>8. Credit(s, a)'
  <2>1. PendingFlags' = PendingFlags
    BY <1>1, FixFrame
  <2> QED BY <1>1, <1>2, <1>3, <2>1 DEF Credit, flag, reverse
<1>9. VectorFinds(s, todo, f)'
  <2>1. SameMemory(s)
    BY <1>1 DEF SameMemory
  <2> QED BY <1>1, <1>2, <1>3, <2>1, FindsFrame
<1> QED BY <1>2, <1>5, <1>6, <1>7, <1>8, <1>9 DEF Vector

(* The end of a vector core.                                               *)
LEMMA AivEndInv ==
    ASSUME Inv, NEW s \in Subs, AivLastWait(s) \/ AivReturn(s)
    PROVE  Inv'
<1>1. Types /\ FixQueue /\ FixFinds
  BY DEF Inv
<1>2. /\ call' = call /\ blockIdx' = blockIdx /\ aic' = aic /\ memory' = memory
      /\ events' = events /\ aiv[s].pc \in {"loop", "barrier"}
      /\ aiv[s].pc = "loop" => aiv[s].loopIdx >= coreLoops(call)
      /\ aiv' = [aiv EXCEPT ![s].pc = "barrier"] \/ aiv' = [aiv EXCEPT ![s].pc = "done"]
  BY DEF AivLastWait, AivReturn
<1>3. aiv[s].loopIdx >= coreLoops(call)
  BY <1>1, <1>2 DEF Types, CoreTypes
<1>4. /\ aiv' = [r \in Subs |-> aiv'[r]]
      /\ \A r \in Subs : r # s => aiv'[r] = aiv[r]
      /\ CoreTypes(s)'
  <2>1. aiv = [r \in Subs |-> aiv[r]] /\ CoreTypes(s)
    BY <1>1 DEF Types
  <2> QED BY <1>2, <1>3, <2>1 DEF CoreTypes, LoopInRange
<1>5. /\ queue' = [p \in Pipes |-> queue'[p]]
      /\ \A p \in Pipes : p # MTE2(s) => queue'[p] = queue[p]
  <2>1. CASE AivLastWait(s)
    <3> DEFINE P == [p \in {MTE2(s)} |->
                       If(call.mode # GEMM_ONLY, << Instruction({MTE3_MTE2(s)}, {}, {}, {}) >>)]
    <3>1. Issue(P) /\ DOMAIN P = {MTE2(s)}
      BY <2>1 DEF AivLastWait
    <3> QED BY <3>1, IssueEffect
  <2>2. CASE AivReturn(s)
    BY <1>1, <2>2 DEF AivReturn, Types, PipeTypes
  <2> QED BY <2>1, <2>2
<1>6. queue'[FIX] = queue[FIX]
  <2>1. FIX # MTE2(s)
    BY DEF FIX, MTE2
  <2> QED BY <1>5, <2>1, NamesDiffer
<1>7. Types'
  <2>1. \A r \in Subs : CoreTypes(r)'
    BY <1>1, <1>2, <1>4, TypesFrame
  <2>2. CallTypes' /\ CubeTypes'
    BY <1>1, <1>2, <1>6, TypesFrame
  <2>3. PipeTypes'
    BY <1>1, <1>2, <1>5 DEF Types, PipeTypes
  <2> QED BY <1>4, <2>1, <2>2, <2>3 DEF Types
<1>8. FixQueue' /\ FixFinds' /\ PendingFlags' = PendingFlags
  BY <1>1, <1>2, <1>6, FixFrame
<1>9. ASSUME NEW r \in Subs PROVE (\E todo, f, v, a, token : Vector(r, todo, f, v, a, token))'
  <2>1. PICK todo, f, v, a, token : Vector(r, todo, f, v, a, token)
    BY DEF Inv
  <2>2. CASE r = s
    <3>1. Vector(r, todo, f, v, a, token)'
      BY <1>1, <2>1, <2>2, LastWaitVector, ReturnVector
    <3> QED BY <3>1
  <2>3. CASE r # s
    <3>1. MTE2(s) \notin {MTE2(r), V(r), MTE3(r)}
      BY <2>3 DEF MTE2, V, MTE3
    <3>2. SameCore(r) /\ SameCredit(r) /\ SameMemory(r)
      BY <1>2, <1>4, <1>5, <1>8, <2>3, <3>1, NamesDiffer DEF SameCore, SameCredit, SameMemory
    <3>3. Vector(r, todo, f, v, a, token)'
      BY <1>2, <2>1, <3>2, VectorFrame
    <3> QED BY <3>3
  <2> QED BY <2>2, <2>3
<1> QED BY <1>7, <1>8, <1>9 DEF Inv

-----------------------------------------------------------------------------
(* The cube core.                                                          *)

(* Counting in Ks: K more instructions are one more tile.                  *)
LEMMA CountInKs ==
    ASSUME NEW k \in {1, 3}, NEW n \in Nat
    PROVE  /\ (n + k) \div k = n \div k + 1 /\ (n + k) % k = n % k
           /\ n \div k \in Nat /\ n % k \in 0..(k - 1)
           /\ \A j \in 1..k : (k - j) \div k = 0 /\ (k - j) % k = k - j
<1>1. CASE k = 1
  BY <1>1
<1>2. CASE k = 3
  BY <1>2
<1> QED BY <1>1, <1>2

(* What a turn of its loop appends to the queue of FIX.                    *)
LEMMA CubeProgram ==
    ASSUME AicTile, NEW n, HasLength(queue[FIX], n), NEW t, t = aic.loopIdx
    PROVE  /\ queue' = [p \in Pipes |-> queue'[p]]
           /\ \A p \in Pipes : p # FIX => queue'[p] = queue[p]
           /\ HasLength(queue'[FIX], n + K)
           /\ \A i \in 1..n : queue'[FIX][i] = queue[FIX][i]
           /\ \A j \in 1..K : queue'[FIX][n + j] = FixCode(t, K - j)
<1> DEFINE P == [p \in {FIX} |-> StoreTile(aic.loopIdx)]
<1>1. Issue(P) /\ DOMAIN P = {FIX} /\ P[FIX] = StoreTile(t)
  BY DEF AicTile
<1> HIDE DEF P
<1>2. StoreTile(t) = IF call.mode # EPILOGUE_ONLY
                     THEN Joined(<<StoreGate(t), StoreUp(t)>>, <<RaiseFlag>>)
                     ELSE Joined(<<>>, <<RaiseFlag>>)
  BY DEF StoreTile, If, StoreGate, StoreUp, RaiseFlag, Joined
<1>3. K = IF call.mode # EPILOGUE_ONLY THEN 3 ELSE 1
  BY DEF K
<1>4. /\ HasLength(P[FIX], K)
      /\ \A j \in 1..K : P[FIX][j] = FixCode(t, K - j)
  <2>1. CASE call.mode # EPILOGUE_ONLY
    <3> DEFINE q == <<StoreGate(t), StoreUp(t)>>
    <3>1. HasLength(q, 2) /\ q[1] = StoreGate(t) /\ q[2] = StoreUp(t)
      BY ShortSequences
    <3>2. HasLength(<<RaiseFlag>>, 1) /\ <<RaiseFlag>>[1] = RaiseFlag
      BY ShortSequences
    <3>3. P[FIX] = Joined(q, <<RaiseFlag>>)
      BY <1>1, <1>2, <2>1
    <3> HIDE DEF q
    <3>4. /\ HasLength(P[FIX], 2 + 1)
          /\ \A i \in 1..2 : P[FIX][i] = q[i]
          /\ \A i \in 1..1 : P[FIX][2 + i] = <<RaiseFlag>>[i]
      BY <3>1, <3>2, <3>3, Appended
    <3>5. P[FIX][1] = StoreGate(t) /\ P[FIX][2] = StoreUp(t) /\ P[FIX][3] = RaiseFlag
      BY <3>1, <3>2, <3>4
    <3>6. K = 3
      BY <1>3, <2>1
    <3> QED BY <3>4, <3>5, <3>6 DEF FixCode
  <2>2. CASE ~ (call.mode # EPILOGUE_ONLY)
    <3>1. P[FIX] = <<RaiseFlag>>
      BY <1>1, <1>2, <2>2 DEF Joined
    <3>2. K = 1
      BY <1>3, <2>2
    <3>3. FixCode(t, 0) = RaiseFlag
      BY DEF FixCode
    <3> QED BY <3>1, <3>2, <3>3, ShortSequences
  <2> QED BY <2>1, <2>2
<1>5. /\ queue' = [p \in Pipes |-> queue'[p]]
      /\ \A p \in Pipes : p # FIX => queue'[p] = queue[p]
      /\ Lengthened(FIX, n, P[FIX], K)
  BY <1>1, <1>4, IssueEffect, NamesDiffer
<1> QED BY <1>4, <1>5 DEF Lengthened

(* A step of the cube core leaves the vector cores and the memory alone.   *)
LEMMA CubeVectors ==
    ASSUME Inv, call' = call, blockIdx' = blockIdx, aiv' = aiv, memory' = memory,
           \A p \in Pipes : p # FIX => queue'[p] = queue[p],
           \A s \in Subs : /\ events'[flag(s)] = events[flag(s)]
                           /\ events'[MTE3_MTE2(s)] = events[MTE3_MTE2(s)]
                           /\ events'[MTE2_V(s)] = events[MTE2_V(s)]
                           /\ events'[V_MTE3(s)] = events[V_MTE3(s)],
           \A s \in Subs : \A a : Credit(s, a) => Credit(s, a)'
    PROVE  \A s \in Subs : (\E todo, f, v, a, token : Vector(s, todo, f, v, a, token))'
<1> SUFFICES ASSUME NEW s \in Subs
             PROVE  (\E todo, f, v, a, token : Vector(s, todo, f, v, a, token))'
  OBVIOUS
<1>1. PICK todo, f, v, a, token : Vector(s, todo, f, v, a, token)
  BY DEF Inv
<1>2. Credit(s, a)'
  BY <1>1 DEF Vector
<1>3. FIX \notin {MTE2(s), V(s), MTE3(s)}
  BY DEF FIX, MTE2, V, MTE3
<1>4. SameCore(s) /\ SameMemory(s)
  BY <1>3, NamesDiffer DEF SameCore, SameMemory
<1>5. Vector(s, todo, f, v, a, token)'
  BY <1>1, <1>2, <1>4, VectorButCredit
<1> QED BY <1>5

(* The cube core issues a tile: FIX has K instructions more, and one more  *)
(* flag is on its way.                                                     *)
LEMMA AicTileInv ==
    ASSUME Inv, AicTile
    PROVE  Inv'
<1> DEFINE N == call.aiCoreNum
<1>1. Types /\ FixQueue /\ FixFinds
  BY DEF Inv
<1>2. /\ call' = call /\ blockIdx' = blockIdx /\ aiv' = aiv /\ events' = events
      /\ memory' = memory /\ aic.pc = "loop" /\ aic.loopIdx < coreLoops(call)
      /\ aic' = [pc |-> IF aic.count + 1 >= REVERSE_DEPTH THEN "credit" ELSE "loop",
                 loopIdx |-> aic.loopIdx + N, count |-> aic.count + 1]
  BY DEF AicTile, InLoop
<1>3. /\ N \in Nat \ {0} /\ coreLoops(call) \in Nat /\ REVERSE_DEPTH \in Nat \ {0}
      /\ aic.loopIdx \in Nat /\ aic.count \in Nat /\ aic.count < REVERSE_DEPTH
      /\ Len(queue[FIX]) \in Nat /\ K \in {1, 3} /\ PendingFlags \in Nat
      /\ \A s \in Subs : aiv[s].loopIdx \in Nat /\ aiv[s].count \in Nat
      /\ \A e \in Events : events[e] \in Nat
  <2>1. aic.count # REVERSE_DEPTH
    BY <1>1, <1>2 DEF Types, CubeTypes
  <2> QED BY <1>1, <2>1, TypeFacts
<1>n. PICK n \in Nat : n = Len(queue[FIX])
  BY <1>3
<1>k. PICK k \in {1, 3} : k = K
  BY <1>3
<1>4. HasLength(queue[FIX], n)
  BY <1>1, <1>n DEF FixQueue
<1>5. PICK t \in Tiles : t = aic.loopIdx
  BY <1>2, <1>3 DEF Tiles
<1>6. /\ queue' = [p \in Pipes |-> queue'[p]]
      /\ \A p \in Pipes : p # FIX => queue'[p] = queue[p]
      /\ HasLength(queue'[FIX], n + k)
      /\ \A i \in 1..n : queue'[FIX][i] = queue[FIX][i]
      /\ \A j \in 1..k : queue'[FIX][n + j] = FixCode(t, k - j)
  BY <1>4, <1>5, <1>k, CubeProgram
<1>7. /\ K' = k /\ FIX' = FIX /\ Tiles' = Tiles
      /\ \A x, kind : FixCode(x, kind)' = FixCode(x, kind)
      /\ \A x : ActiveSubs(x)' = ActiveSubs(x)
  BY <1>2, <1>k, SameCall, SameCode DEF FIX
<1>8. Len(queue'[FIX]) = n + k
  BY <1>6, SequenceFacts
<1> HIDE DEF N
(* The tiles of the instructions that were there, and of those that came.  *)
<1>9. /\ \A i \in 1..n : FixTile(n + k, i)' = FixTile(n, i)
                         /\ (n + k - i) % k = (n - i) % k
      /\ \A j \in 1..k : FixTile(n + k, n + j)' = t /\ (n + k - (n + j)) % k = k - j
  <2>1. \A m, i : FixTile(m, i)' = (aic.loopIdx + N) - ((m - i) \div k + 1) * N
    <3>1. \A m, i : FixTile(m, i)' = aic'.loopIdx - ((m - i) \div K' + 1) * call'.aiCoreNum
      BY DEF FixTile
    <3>2. K' = k /\ aic'.loopIdx = aic.loopIdx + N /\ call'.aiCoreNum = N
      BY <1>2, <1>7 DEF N
    <3>3. ASSUME NEW m, NEW i
          PROVE  FixTile(m, i)' = (aic.loopIdx + N) - ((m - i) \div k + 1) * N
      <4>1. FixTile(m, i)' = aic'.loopIdx - ((m - i) \div K' + 1) * call'.aiCoreNum
        BY <3>1
      <4> QED BY <3>2, <4>1, Zenon
    <3> QED BY <3>3
  <2>2. ASSUME NEW i \in 1..n
        PROVE  FixTile(n + k, i)' = FixTile(n, i) /\ (n + k - i) % k = (n - i) % k
    <3> DEFINE d == n - i
               q == d \div k
    <3>1. d \in Nat /\ n + k - i = d + k
      BY <1>3
    <3>2. (d + k) \div k = q + 1 /\ (d + k) % k = d % k /\ q \in Nat
      BY <1>3, <3>1, CountInKs
    <3>3. FixTile(n + k, i)' = (aic.loopIdx + N) - ((d + k) \div k + 1) * N
      BY <2>1, <3>1
    <3>4. FixTile(n, i) = aic.loopIdx - (q + 1) * N
      BY <1>k DEF FixTile, N
    <3> HIDE DEF q, d
    <3>5. (q + 1 + 1) * N = (q + 1) * N + N /\ (q + 1) * N \in Int
      <4> DEFINE g == q + 1
      <4>1. g \in Int /\ N \in Int
        BY <1>3, <3>2
      <4> HIDE DEF g
      <4>2. (g + 1) * N = g * N + N /\ g * N \in Int
        BY <4>1, ProductNext
      <4> QED BY <4>2 DEF g
    <3>6. FixTile(n + k, i)' = FixTile(n, i)
      <4> DEFINE x == (q + 1) * N
      <4>1. /\ x \in Int /\ FixTile(n, i) = aic.loopIdx - x
            /\ FixTile(n + k, i)' = (aic.loopIdx + N) - (x + N)
        BY <3>2, <3>3, <3>4, <3>5
      <4> HIDE DEF x
      <4> QED BY <1>3, <4>1
    <3>7. (n + k - i) % k = (d + k) % k
      BY <3>1
    <3> QED BY <3>2, <3>6, <3>7 DEF d
  <2>3. ASSUME NEW j \in 1..k
        PROVE  FixTile(n + k, n + j)' = t /\ (n + k - (n + j)) % k = k - j
    <3>1. n + k - (n + j) = k - j
      BY <1>3
    <3>2. (k - j) \div k = 0 /\ (k - j) % k = k - j
      BY <1>3, CountInKs
    <3>3. FixTile(n + k, n + j)' = (aic.loopIdx + N) - (0 + 1) * N
      BY <2>1, <3>1, <3>2
    <3> QED BY <1>3, <1>5, <3>1, <3>2, <3>3
  <2> QED BY <2>2, <2>3
<1>10. FixQueue'
  <2>1. ASSUME NEW i \in 1..(n + k)
        PROVE  \E x, kind : /\ x = FixTile(n + k, i)' /\ kind = (n + k - i) % k
                            /\ queue'[FIX][i] = FixCode(x, kind)
    <3>1. CASE i <= n
      <4>1. i \in 1..n
        BY <1>3, <3>1
      <4>2. queue[FIX][i] = FixCode(FixTile(n, i), (n - i) % k)
        BY <1>1, <1>n, <1>k, <4>1 DEF FixQueue
      <4> QED BY <1>6, <1>9, <4>1, <4>2
    <3>2. CASE ~ (i <= n)
      <4>1. PICK j \in 1..k : i = n + j
        <5>1. i - n \in 1..k /\ i = n + (i - n)
          BY <1>3, <3>2
        <5> QED BY <5>1
      <4> QED BY <1>6, <1>9, <4>1
    <3> QED BY <3>1, <3>2
  <2> QED BY <1>6, <1>7, <1>8, <2>1 DEF FixQueue
<1>11. FixFinds'
  <2>1. \A x, s : GateStored(x, s)' = GateStored(x, s) /\ UpStored(x, s)' = UpStored(x, s)
    BY <1>2, SameCall DEF GateStored, UpStored
  <2>2. CASE call.mode = EPILOGUE_ONLY
    BY <1>1, <1>2, <1>7, <2>1, <2>2 DEF FixFinds, Stored
  <2>3. CASE call.mode # EPILOGUE_ONLY
    <3>1. k = 3
      BY <1>k, <2>3 DEF K
    <3>2. ASSUME NEW x \in Tiles, x = FixTile(n + k, 1)', NEW s \in ActiveSubs(x)
          PROVE  /\ (n + k - 1) % k # 2 => GateStored(x, s)
                 /\ (n + k - 1) % k = 0 => UpStored(x, s)
      <4>1. CASE n = 0
        <5>1. (n + k - 1) % k = 2
          BY <3>1, <4>1
        <5> QED BY <5>1
      <4>2. CASE n # 0
        <5>1. 1 \in 1..n
          BY <1>3, <4>2
        <5>2. FixTile(n + k, 1)' = FixTile(n, 1) /\ (n + k - 1) % k = (n - 1) % k
          BY <1>9, <5>1
        <5> QED BY <1>1, <2>3, <3>2, <4>2, <5>2, <1>n, <1>k DEF FixFinds
      <4> QED BY <4>1, <4>2
    <3> QED BY <1>2, <1>7, <1>8, <2>1, <2>3, <3>2 DEF FixFinds
  <2> QED BY <2>2, <2>3
<1>12. PendingFlags' = PendingFlags + 1
  <2>1. PendingFlags' = (n + k + k - 1) \div k /\ PendingFlags = (n + k - 1) \div k
    BY <1>7, <1>8, <1>n, <1>k DEF PendingFlags
  <2> DEFINE d == n + k - 1
  <2>2. d \in Nat /\ n + k + k - 1 = d + k
    BY <1>3
  <2>3. (d + k) \div k = d \div k + 1
    BY <1>3, <2>2, CountInKs
  <2> QED BY <2>1, <2>2, <2>3
<1>13. ASSUME NEW s \in Subs, NEW a, Credit(s, a) PROVE Credit(s, a)'
  <2> DEFINE e == events[flag(s)]
             P == PendingFlags
             g == e + P
             c == aiv[s].count
             x == IF (IF a # 0 THEN 1 ELSE events[reverse(s)]) = 1 THEN REVERSE_DEPTH ELSE 0
  <2>1. /\ g * N = aic.loopIdx - aiv[s].loopIdx
        /\ aic.count = g + c + x
    BY <1>13 DEF Credit, N
  <2>2. g \in Nat /\ c \in Nat /\ x \in Nat /\ e + (P + 1) = g + 1
    BY <1>3, NamesDiffer
  <2> HIDE DEF g, c, x
  <2>3. (g + 1) * N = g * N + N /\ g * N \in Int
    BY <1>3, <2>2, ProductNext
  <2>4. (g + 1) * N = (aic.loopIdx + N) - aiv[s].loopIdx
    <3> DEFINE y == g * N
    <3>1. y = aic.loopIdx - aiv[s].loopIdx /\ (g + 1) * N = y + N
      BY <2>1, <2>3
    <3> HIDE DEF y
    <3> QED BY <1>3, <3>1
  <2>5. aic.count + 1 = g + 1 + c + x
    BY <1>3, <2>1, <2>2
  <2>6. /\ events'[flag(s)] + PendingFlags' = g + 1
        /\ aic'.loopIdx = aic.loopIdx + N /\ aic'.count = aic.count + 1
        /\ N = call'.aiCoreNum
    BY <1>2, <1>12, <2>2 DEF N
  <2>7. flag(s)' = flag(s) /\ reverse(s)' = reverse(s)
    BY DEF flag, reverse
  <2>8. events'[reverse(s)] <= 1 /\ (a # 0 => events'[reverse(s)] = 0)
    BY <1>2, <1>13 DEF Credit
  <2>9. /\ (events'[flag(s)] + PendingFlags') * call'.aiCoreNum = aic'.loopIdx - aiv'[s].loopIdx
        /\ aic'.count = events'[flag(s)] + PendingFlags' + aiv'[s].count
                        + (IF (IF a # 0 THEN 1 ELSE events'[reverse(s)]) = 1
                           THEN REVERSE_DEPTH ELSE 0)
    <3>1. /\ aiv'[s].count = c /\ aiv'[s].loopIdx = aiv[s].loopIdx
          /\ (IF (IF a # 0 THEN 1 ELSE events'[reverse(s)]) = 1 THEN REVERSE_DEPTH ELSE 0) = x
      BY <1>2 DEF c, x
    <3>2. (events'[flag(s)] + PendingFlags') * call'.aiCoreNum = aic'.loopIdx - aiv'[s].loopIdx
      <4>1. (events'[flag(s)] + PendingFlags') * call'.aiCoreNum = (g + 1) * N
        BY <2>6, Zenon
      <4>2. aic'.loopIdx - aiv'[s].loopIdx = (aic.loopIdx + N) - aiv[s].loopIdx
        BY <1>3, <2>6, <3>1
      <4> QED BY <2>4, <4>1, <4>2, Zenon
    <3>3. aic'.count = events'[flag(s)] + PendingFlags' + aiv'[s].count
                       + (IF (IF a # 0 THEN 1 ELSE events'[reverse(s)]) = 1
                          THEN REVERSE_DEPTH ELSE 0)
      BY <2>5, <2>6, <3>1, Zenon
    <3> QED BY <3>2, <3>3
  <2> QED BY <2>7, <2>8, <2>9 DEF Credit
<1>14. Types'
  <2>1. CubeTypes'
    <3>1. (aic.loopIdx + N) % N = blockIdx
      <4>1. aic.loopIdx % N = blockIdx
        BY <1>1 DEF Types, CubeTypes, LoopInRange, N
      <4> QED BY <1>3, <4>1, TurnOfLoop
    <3>2. LoopInRange(aic)'
      BY <1>2, <1>3, <3>1 DEF LoopInRange, N
    <3>3. /\ aic' = [pc |-> aic'.pc, loopIdx |-> aic'.loopIdx, count |-> aic'.count]
          /\ aic'.pc \in {"loop", "credit"} /\ aic'.count \in 0..REVERSE_DEPTH
          /\ aic'.pc = "credit" <=> aic'.count = REVERSE_DEPTH
      <4>1. /\ aic' = [pc |-> aic'.pc, loopIdx |-> aic'.loopIdx, count |-> aic'.count]
            /\ aic'.pc = IF aic.count + 1 >= REVERSE_DEPTH THEN "credit" ELSE "loop"
            /\ aic'.count = aic.count + 1
        BY <1>2
      <4> QED BY <1>3, <4>1
    <3> QED BY <3>2, <3>3 DEF CubeTypes
  <2>2. CallTypes' /\ \A s \in Subs : CoreTypes(s)'
    BY <1>1, <1>2, TypesFrame
  <2>3. PipeTypes'
    BY <1>1, <1>2, <1>6 DEF Types, PipeTypes
  <2> QED BY <1>1, <1>2, <2>1, <2>2, <2>3 DEF Types
<1>15. \A s \in Subs : (\E todo, f, v, a, token : Vector(s, todo, f, v, a, token))'
  BY <1>2, <1>6, <1>13, CubeVectors
<1> QED BY <1>10, <1>11, <1>14, <1>15 DEF Inv

(* The cube core takes both answers, for REVERSE_DEPTH flags that the      *)
(* slower vector core has all taken.                                       *)
LEMMA AicCreditInv ==
    ASSUME Inv, AicCredit
    PROVE  Inv'
<1>1. Types /\ FixQueue /\ FixFinds
  BY DEF Inv
<1>2. /\ call' = call /\ blockIdx' = blockIdx /\ aiv' = aiv /\ queue' = queue
      /\ memory' = memory /\ aic.pc = "credit" /\ \A s \in Subs : events[reverse(s)] > 0
      /\ aic' = [aic EXCEPT !.pc = "loop", !.count = 0]
      /\ events' = [e \in Events |-> IF e[1] = "reverse" THEN events[e] - 1 ELSE events[e]]
  BY DEF AicCredit
<1>3. /\ aic = [pc |-> aic.pc, loopIdx |-> aic.loopIdx, count |-> aic.count]
      /\ aic.count = REVERSE_DEPTH /\ LoopInRange(aic)
  BY <1>1, <1>2 DEF Types, CubeTypes
<1>4. aic' = [pc |-> "loop", loopIdx |-> aic.loopIdx, count |-> 0]
  BY <1>2, <1>3
<1>5. /\ \A s \in Subs : /\ events'[reverse(s)] = events[reverse(s)] - 1
                         /\ events'[flag(s)] = events[flag(s)]
                         /\ events'[MTE3_MTE2(s)] = events[MTE3_MTE2(s)]
                         /\ events'[MTE2_V(s)] = events[MTE2_V(s)]
                         /\ events'[V_MTE3(s)] = events[V_MTE3(s)]
      /\ \A e \in Events : events'[e] \in Nat
  <2>1. \A s \in Subs : /\ reverse(s)[1] = "reverse" /\ flag(s)[1] # "reverse"
                        /\ MTE3_MTE2(s)[1] # "reverse" /\ MTE2_V(s)[1] # "reverse"
                        /\ V_MTE3(s)[1] # "reverse"
    BY DEF reverse, flag, MTE3_MTE2, MTE2_V, V_MTE3
  <2>2. \A e \in Events : e[1] = "reverse" => \E s \in Subs : e = reverse(s)
    BY DEF Events, reverse, flag, MTE3_MTE2, MTE2_V, V_MTE3
  <2>3. \A e \in Events : events[e] \in Nat
    BY <1>1, TypeFacts
  <2>4. \A e \in Events : events'[e] = IF e[1] = "reverse" THEN events[e] - 1 ELSE events[e]
    BY <1>2
  <2>5. ASSUME NEW e \in Events PROVE events'[e] \in Nat
    <3>1. CASE e[1] = "reverse"
      <4>1. events[e] > 0
        BY <1>2, <2>2, <3>1
      <4> QED BY <2>3, <2>4, <3>1, <4>1
    <3>2. CASE e[1] # "reverse"
      BY <2>3, <2>4, <3>2
    <3> QED BY <3>1, <3>2
  <2> QED BY <2>1, <2>4, <2>5, NamesDiffer
<1>6. REVERSE_DEPTH \in Nat \ {0} /\ PendingFlags \in Nat /\ \A e \in Events : events[e] \in Nat
      /\ \A s \in Subs : aiv[s].count \in Nat
  BY <1>1, TypeFacts
<1>7. PendingFlags' = PendingFlags
  <2>1. K' = K /\ FIX' = FIX
    BY <1>2, SameCall DEF FIX
  <2> QED BY <1>2, <2>1 DEF PendingFlags
<1>8. ASSUME NEW s \in Subs, NEW a, Credit(s, a) PROVE Credit(s, a)'
  <2> DEFINE g == events[flag(s)] + PendingFlags
             c == aiv[s].count
  <2>1. /\ g * call.aiCoreNum = aic.loopIdx - aiv[s].loopIdx
        /\ aic.count = g + c + (IF (IF a # 0 THEN 1 ELSE events[reverse(s)]) = 1
                                THEN REVERSE_DEPTH ELSE 0)
        /\ events[reverse(s)] <= 1
        /\ a # 0 => events[reverse(s)] = 0
    BY <1>8 DEF Credit
  <2>2. g \in Nat /\ c \in Nat /\ events[reverse(s)] \in Nat /\ events[reverse(s)] > 0
    BY <1>2, <1>6, NamesDiffer
  <2>3. a = 0 /\ events[reverse(s)] = 1 /\ events'[reverse(s)] = 0
    BY <1>5, <2>1, <2>2
  <2> HIDE DEF g, c
  <2>4. g = 0 /\ c = 0
    BY <1>3, <1>6, <2>1, <2>2, <2>3
  <2>5. /\ events'[flag(s)] + PendingFlags' = g /\ aiv'[s].count = c
        /\ aiv'[s].loopIdx = aiv[s].loopIdx /\ call'.aiCoreNum = call.aiCoreNum
    BY <1>2, <1>5, <1>7 DEF g, c
  <2>6. flag(s)' = flag(s) /\ reverse(s)' = reverse(s)
    BY DEF flag, reverse
  <2>7. aic'.loopIdx = aic.loopIdx /\ aic'.count = 0
    BY <1>4
  <2> QED BY <2>1, <2>3, <2>4, <2>5, <2>6, <2>7 DEF Credit
<1>9. FixQueue' /\ FixFinds'
  <2>1. /\ K' = K /\ FIX' = FIX /\ Tiles' = Tiles
        /\ \A t, kind : FixCode(t, kind)' = FixCode(t, kind)
        /\ \A t : ActiveSubs(t)' = ActiveSubs(t)
    BY <1>2, SameCall, SameCode DEF FIX
  <2>2. \A n, i : FixTile(n, i)' = FixTile(n, i)
    BY <1>2, <1>4, <2>1 DEF FixTile
  <2>3. \A t, s : GateStored(t, s)' = GateStored(t, s) /\ UpStored(t, s)' = UpStored(t, s)
    BY <1>2, SameCall DEF GateStored, UpStored
  <2>4. FixQueue'
    BY <1>1, <1>2, <2>1, <2>2 DEF FixQueue
  <2>5. FixFinds'
    BY <1>1, <1>2, <2>1, <2>2, <2>3 DEF FixFinds, Stored
  <2> QED BY <2>4, <2>5
<1>10. Types'
  <2>1. CubeTypes'
    <3>1. coreLoops(call)' = coreLoops(call) /\ call' = call
      BY <1>2
    <3>2. LoopInRange(aic)'
      BY <1>2, <1>3, <1>4, <3>1 DEF LoopInRange
    <3>3. /\ aic' = [pc |-> aic'.pc, loopIdx |-> aic'.loopIdx, count |-> aic'.count]
          /\ aic'.pc = "loop" /\ aic'.count = 0
      BY <1>4
    <3>4. aic'.count # REVERSE_DEPTH /\ aic'.count \in 0..REVERSE_DEPTH
      BY <1>6, <3>3
    <3> QED BY <3>2, <3>3, <3>4 DEF CubeTypes
  <2>2. CallTypes' /\ \A s \in Subs : CoreTypes(s)'
    BY <1>1, <1>2, TypesFrame
  <2>3. PipeTypes'
    BY <1>1, <1>2, <1>5 DEF Types, PipeTypes
  <2> QED BY <1>1, <1>2, <2>1, <2>2, <2>3 DEF Types
<1>11. \A s \in Subs : (\E todo, f, v, a, token : Vector(s, todo, f, v, a, token))'
  BY <1>2, <1>5, <1>8, CubeVectors
<1> QED BY <1>9, <1>10, <1>11 DEF Inv

(* The cube core returns when FIX has nothing left.                        *)
LEMMA AicReturnInv ==
    ASSUME Inv, AicReturn
    PROVE  Inv'
<1>1. Types /\ FixQueue /\ FixFinds
  BY DEF Inv
<1>2. /\ call' = call /\ blockIdx' = blockIdx /\ aiv' = aiv /\ queue' = queue
      /\ memory' = memory /\ events' = events /\ aic.pc = "loop"
      /\ aic.loopIdx >= coreLoops(call) /\ queue[FIX] = <<>>
      /\ aic' = [aic EXCEPT !.pc = "done"]
  BY DEF AicReturn
<1>3. /\ aic = [pc |-> aic.pc, loopIdx |-> aic.loopIdx, count |-> aic.count]
      /\ aic.count # REVERSE_DEPTH /\ aic.count \in 0..REVERSE_DEPTH /\ LoopInRange(aic)
  BY <1>1, <1>2 DEF Types, CubeTypes
<1>4. aic' = [pc |-> "done", loopIdx |-> aic.loopIdx, count |-> aic.count]
  BY <1>2, <1>3
<1>5. PendingFlags' = PendingFlags
  <2>1. K' = K /\ FIX' = FIX
    BY <1>2, SameCall DEF FIX
  <2> QED BY <1>2, <2>1 DEF PendingFlags
<1>6. ASSUME NEW s \in Subs, NEW a, Credit(s, a) PROVE Credit(s, a)'
  BY <1>2, <1>4, <1>5, <1>6 DEF Credit, flag, reverse
<1>7. FixQueue' /\ FixFinds'
  <2>1. /\ K' = K /\ FIX' = FIX /\ Tiles' = Tiles
        /\ \A t, kind : FixCode(t, kind)' = FixCode(t, kind)
        /\ \A t : ActiveSubs(t)' = ActiveSubs(t)
    BY <1>2, SameCall, SameCode DEF FIX
  <2>2. \A n, i : FixTile(n, i)' = FixTile(n, i)
    BY <1>2, <1>4, <2>1 DEF FixTile
  <2>3. \A t, s : GateStored(t, s)' = GateStored(t, s) /\ UpStored(t, s)' = UpStored(t, s)
    BY <1>2, SameCall DEF GateStored, UpStored
  <2>4. FixQueue'
    BY <1>1, <1>2, <2>1, <2>2 DEF FixQueue
  <2>5. FixFinds'
    BY <1>1, <1>2, <2>1, <2>2, <2>3 DEF FixFinds, Stored
  <2> QED BY <2>4, <2>5
<1>8. Types'
  <2>1. CubeTypes'
    <3>1. coreLoops(call)' = coreLoops(call) /\ FIX' = FIX
      BY <1>2 DEF FIX
    <3> QED BY <1>2, <1>3, <1>4, <3>1 DEF CubeTypes, LoopInRange
  <2>2. CallTypes' /\ \A s \in Subs : CoreTypes(s)'
    BY <1>1, <1>2, TypesFrame
  <2>3. PipeTypes'
    BY <1>1, <1>2 DEF Types, PipeTypes
  <2> QED BY <1>1, <1>2, <2>1, <2>2, <2>3 DEF Types
<1>9. \A s \in Subs : (\E todo, f, v, a, token : Vector(s, todo, f, v, a, token))'
  BY <1>2, <1>6, CubeVectors
<1> QED BY <1>7, <1>8, <1>9 DEF Inv

-----------------------------------------------------------------------------
(* The pipes.                                                              *)

(* What every step of a pipe keeps.                                        *)
LEMMA PipeStep ==
    ASSUME Types, NEW p \in Pipes, RunPipe(p), NEW n, HasLength(queue[p], n)
    PROVE  /\ call' = call /\ blockIdx' = blockIdx /\ aic' = aic /\ aiv' = aiv
           /\ n # 0 /\ Does(queue[p][1]) /\ Shortened(p, n)
           /\ CallTypes' /\ aiv' = [s \in Subs |-> aiv'[s]] /\ \A s \in Subs : CoreTypes(s)'
           /\ PipeTypes'
<1>1. call' = call /\ blockIdx' = blockIdx /\ aic' = aic /\ aiv' = aiv /\ Execute(p)
  BY DEF RunPipe
<1>2. n # 0 /\ Does(queue[p][1]) /\ Shortened(p, n)
  BY <1>1, PipeEffect DEF Types, PipeTypes
<1>3. CallTypes' /\ aiv' = [s \in Subs |-> aiv'[s]] /\ \A s \in Subs : CoreTypes(s)'
  BY <1>1, TypesFrame DEF Types
<1>4. PipeTypes'
  <2> PICK i : i = queue[p][1]
    OBVIOUS
  <2>1. \A e \in Events : events'[e] \in Nat
    <3>1. \A e \in Events : events[e] \in Nat
      BY DEF Types, PipeTypes
    <3>2. /\ \A e \in Events : events'[e] = events[e] - (IF e \in i.waits THEN 1 ELSE 0)
                                                      + (IF e \in i.sets THEN 1 ELSE 0)
          /\ \A e \in i.waits : events[e] > 0
      BY <1>2 DEF Does
    <3>3. ASSUME NEW e \in Events PROVE events'[e] \in Nat
      <4>1. e \in i.waits => events[e] > 0
        BY <3>2
      <4>2. events[e] \in Nat
        BY <3>1
      <4>3. events'[e] = events[e] - (IF e \in i.waits THEN 1 ELSE 0)
                                   + (IF e \in i.sets THEN 1 ELSE 0)
        BY <3>2
      <4> QED BY <4>1, <4>2, <4>3
    <3> QED BY <3>3
  <2>2. /\ events' = [e \in Events |-> events'[e]] /\ memory' = [b \in Buffers |-> memory'[b]]
        /\ queue' = [r \in Pipes |-> queue'[r]]
    BY <1>2 DEF Does, Shortened
  <2> QED BY <2>1, <2>2 DEF PipeTypes
<1> QED BY <1>1, <1>2, <1>3, <1>4

(* What an instruction of FIX does to the memory and the events.           *)
LEMMA FixMemory ==
    ASSUME call \in Calls, NEW x \in Tiles, NEW kind \in 0..2, Does(FixCode(x, kind))
    PROVE  /\ \A s \in Subs : /\ memory'[ubGate(s)] = memory[ubGate(s)]
                              /\ memory'[ubUp(s)] = memory[ubUp(s)]
           /\ \A u \in Tiles : \A s \in Subs :
                 u # x => /\ memory'[Gate(u, s)] = memory[Gate(u, s)]
                          /\ memory'[Up(u, s)] = memory[Up(u, s)]
                          /\ memory'[D(u, s)] = memory[D(u, s)]
           /\ \A s \in Subs : /\ kind # 2 => memory'[Gate(x, s)] = memory[Gate(x, s)]
                              /\ kind # 1 => memory'[Up(x, s)] = memory[Up(x, s)]
           /\ \A s \in ActiveSubs(x) :
                 /\ kind = 2 => memory'[Gate(x, s)] = Product("gate", x, s)
                 /\ kind = 1 => memory'[Up(x, s)] = Product("up", x, s)
<1> PICK i : i = FixCode(x, kind)
  OBVIOUS
<1>1. /\ \A b \in Buffers : (\A w \in i.writes : w[1] # b) => memory'[b] = memory[b]
      /\ \A w \in i.writes : w[1] \in Buffers /\ (\A y \in i.writes : y[1] = w[1] => y = w)
                             => memory'[w[1]] = w[2]
  BY DEF Does
<1>2. /\ kind = 2 => i.writes = {<<Gate(x, s), Product("gate", x, s)>> : s \in ActiveSubs(x)}
      /\ kind = 1 => i.writes = {<<Up(x, s), Product("up", x, s)>> : s \in ActiveSubs(x)}
      /\ kind = 0 => i.writes = {}
  BY DEF FixCode, StoreGate, StoreUp, RaiseFlag, Instruction
<1>3. ActiveSubs(x) \subseteq Subs
  BY DEF ActiveSubs
<1>4. \A w \in i.writes : \E s \in Subs : /\ kind = 2 \/ kind = 1
                                          /\ kind = 2 => w[1] = Gate(x, s)
                                          /\ kind = 1 => w[1] = Up(x, s)
  <2>1. CASE kind = 2
    BY <1>2, <1>3, <2>1
  <2>2. CASE kind = 1
    BY <1>2, <1>3, <2>2
  <2>3. CASE kind = 0
    BY <1>2, <2>3
  <2> QED BY <2>1, <2>2, <2>3
<1>5. ASSUME NEW s \in Subs
      PROVE  memory'[ubGate(s)] = memory[ubGate(s)] /\ memory'[ubUp(s)] = memory[ubUp(s)]
  <2>1. \A r \in Subs : Gate(x, r) \notin UB /\ Up(x, r) \notin UB
    BY WindowsAreBuffers
  <2>2. ubGate(s) \in Buffers /\ ubUp(s) \in Buffers /\ ubGate(s) \in UB /\ ubUp(s) \in UB
    BY WindowsAreBuffers
  <2>3. \A w \in i.writes : w[1] \notin UB
    BY <1>4, <2>1
  <2> QED BY <1>1, <2>2, <2>3
<1>6. ASSUME NEW u \in Tiles, NEW s \in Subs, u # x
      PROVE  /\ memory'[Gate(u, s)] = memory[Gate(u, s)]
             /\ memory'[Up(u, s)] = memory[Up(u, s)]
             /\ memory'[D(u, s)] = memory[D(u, s)]
  <2>1. Gate(u, s) \in Buffers /\ Up(u, s) \in Buffers /\ D(u, s) \in Buffers
    BY WindowsAreBuffers
  <2>2. \A r \in Subs : /\ Gate(x, r) # Gate(u, s) /\ Gate(x, r) # Up(u, s)
                        /\ Gate(x, r) # D(u, s)
                        /\ Up(x, r) # Gate(u, s) /\ Up(x, r) # Up(u, s) /\ Up(x, r) # D(u, s)
    BY <1>6, WindowsDiffer
  <2>3. \A w \in i.writes : w[1] # Gate(u, s) /\ w[1] # Up(u, s) /\ w[1] # D(u, s)
    BY <1>4, <2>2
  <2> QED BY <1>1, <2>1, <2>3
<1>7. ASSUME NEW s \in Subs
      PROVE  /\ kind # 2 => memory'[Gate(x, s)] = memory[Gate(x, s)]
             /\ kind # 1 => memory'[Up(x, s)] = memory[Up(x, s)]
  <2>1. Gate(x, s) \in Buffers /\ Up(x, s) \in Buffers
    BY WindowsAreBuffers
  <2>2. \A r \in Subs : Up(x, r) # Gate(x, s) /\ Gate(x, r) # Up(x, s)
    BY WindowsDiffer
  <2>3. \A w \in i.writes : (kind # 2 => w[1] # Gate(x, s)) /\ (kind # 1 => w[1] # Up(x, s))
    BY <1>4, <2>2
  <2> QED BY <1>1, <2>1, <2>3
<1>8. ASSUME NEW s \in ActiveSubs(x)
      PROVE  /\ kind = 2 => memory'[Gate(x, s)] = Product("gate", x, s)
             /\ kind = 1 => memory'[Up(x, s)] = Product("up", x, s)
  <2>1. s \in Subs /\ Gate(x, s) \in Buffers /\ Up(x, s) \in Buffers
    BY <1>3, WindowsAreBuffers
  <2>2. \A r \in Subs : (Gate(x, r) = Gate(x, s) => r = s) /\ (Up(x, r) = Up(x, s) => r = s)
    BY <2>1, WindowsDiffer
  <2>3. ASSUME kind = 2 PROVE memory'[Gate(x, s)] = Product("gate", x, s)
    <3> DEFINE w == <<Gate(x, s), Product("gate", x, s)>>
    <3>1. w \in i.writes /\ w[1] = Gate(x, s) /\ w[2] = Product("gate", x, s)
      BY <1>2, <2>3
    <3>2. \A y \in i.writes : y[1] = Gate(x, s) => y = w
      BY <1>2, <1>3, <2>2, <2>3
    <3> HIDE DEF w
    <3> QED BY <1>1, <2>1, <3>1, <3>2
  <2>4. ASSUME kind = 1 PROVE memory'[Up(x, s)] = Product("up", x, s)
    <3> DEFINE w == <<Up(x, s), Product("up", x, s)>>
    <3>1. w \in i.writes /\ w[1] = Up(x, s) /\ w[2] = Product("up", x, s)
      BY <1>2, <2>4
    <3>2. \A y \in i.writes : y[1] = Up(x, s) => y = w
      BY <1>2, <1>3, <2>2, <2>4
    <3> HIDE DEF w
    <3> QED BY <1>1, <2>1, <3>1, <3>2
  <2> QED BY <2>3, <2>4
<1> QED BY <1>5, <1>6, <1>7, <1>8

(* Only the last instruction of a tile raises an event, the flag of both.  *)
LEMMA FixEvents ==
    ASSUME NEW x, NEW kind \in 0..2, Does(FixCode(x, kind)), events \in [Events -> Nat]
    PROVE  \A s \in Subs :
              /\ events'[flag(s)] = events[flag(s)] + (IF kind = 0 THEN 1 ELSE 0)
              /\ events'[reverse(s)] = events[reverse(s)]
              /\ events'[MTE3_MTE2(s)] = events[MTE3_MTE2(s)]
              /\ events'[MTE2_V(s)] = events[MTE2_V(s)]
              /\ events'[V_MTE3(s)] = events[V_MTE3(s)]
<1> PICK i : i = FixCode(x, kind)
  OBVIOUS
<1>1. i.waits = {} /\ i.sets = IF kind = 0 THEN {flag(s) : s \in Subs} ELSE {}
  <2>1. CASE kind = 0
    BY <2>1 DEF FixCode, RaiseFlag, Instruction
  <2>2. CASE kind # 0
    BY <2>2 DEF FixCode, StoreGate, StoreUp, Instruction
  <2> QED BY <2>1, <2>2
<1>2. \A e \in Events : events'[e] = events[e] - (IF e \in i.waits THEN 1 ELSE 0)
                                               + (IF e \in i.sets THEN 1 ELSE 0)
  BY DEF Does
<1>3. \A e \in Events : /\ events[e] \in Nat
                          /\ events'[e] = events[e] + (IF e \in i.sets THEN 1 ELSE 0)
  <2>1. ASSUME NEW e \in Events
        PROVE  events[e] \in Nat /\ events'[e] = events[e] + (IF e \in i.sets THEN 1 ELSE 0)
    <3>1. events[e] \in Nat /\ e \notin i.waits
      BY <1>1
    <3>2. events'[e] = events[e] - 0 + (IF e \in i.sets THEN 1 ELSE 0)
      BY <1>2, <3>1
    <3> QED BY <3>1, <3>2
  <2> QED BY <2>1
<1>4. ASSUME NEW s \in Subs
      PROVE  /\ flag(s) \in i.sets <=> kind = 0
             /\ reverse(s) \notin i.sets /\ MTE3_MTE2(s) \notin i.sets
             /\ MTE2_V(s) \notin i.sets /\ V_MTE3(s) \notin i.sets
  BY <1>1 DEF flag, reverse, MTE3_MTE2, MTE2_V, V_MTE3
<1> QED BY <1>3, <1>4, NamesDiffer

(* Counting down in Ks: the last of K instructions is the last of a tile.  *)
LEMMA LastOfKs ==
    ASSUME NEW k \in {1, 3}, NEW n \in Nat \ {0}
    PROVE  /\ (n - 1) % k \in 0..2
           /\ (n - 1) % k = 0 \/ k = 3
           /\ (n - 1 + k - 1) \div k
                  = (n + k - 1) \div k - (IF (n - 1) % k = 0 THEN 1 ELSE 0)
           /\ (n - 1) % k # 0 => /\ (n - 1) \div k = (n - 2) \div k
                                 /\ (n - 1) % k = 2 => (n - 2) % k = 1
                                 /\ (n - 1) % k = 1 => (n - 2) % k = 0
           /\ (n - 1) % k = 0 => n = 1 \/ k = 1 \/ (n - 2) % k = 2
<1>1. CASE k = 1
  <2>1. /\ \A a \in Int : a % 1 = 0 /\ a \div 1 = a
    OBVIOUS
  <2> QED BY <1>1, <2>1
<1>2. CASE k = 3
  <2> PICK q \in Nat, r \in 0..2 : n = 3 * q + r
    <3>1. n = 3 * (n \div 3) + (n % 3) /\ n \div 3 \in Nat /\ n % 3 \in 0..2
      OBVIOUS
    <3> QED BY <3>1
  <2>1. /\ (n - 1) % 3 \in 0..2
        /\ (n + 1) \div 3 = (n + 2) \div 3 - (IF (n - 1) % 3 = 0 THEN 1 ELSE 0)
    OBVIOUS
  <2>2. (n - 1) % 3 # 0 => /\ (n - 1) \div 3 = (n - 2) \div 3
                           /\ (n - 1) % 3 = 2 => (n - 2) % 3 = 1
                           /\ (n - 1) % 3 = 1 => (n - 2) % 3 = 0
    OBVIOUS
  <2>3. (n - 1) % 3 = 0 => n = 1 \/ (n - 2) % 3 = 2
    OBVIOUS
  <2>4. n - 1 + 3 - 1 = n + 1 /\ n + 3 - 1 = n + 2
    OBVIOUS
  <2> QED BY <1>2, <2>1, <2>2, <2>3, <2>4
<1> QED BY <1>1, <1>2

(* What a step of FIX leaves of its queue, and of the flags on their way.  *)
LEMMA FixShortened ==
    ASSUME Types, FixQueue, call' = call, aic' = aic, NEW n, n = Len(queue[FIX]), n # 0,
           Shortened(FIX, n)
    PROVE  /\ FixQueue' /\ Len(queue'[FIX]) = n - 1
           /\ PendingFlags' = PendingFlags - (IF (n - 1) % K = 0 THEN 1 ELSE 0)
           /\ FixTile(n - 1, 1)' = FixTile(n, 2)
           /\ (n - 1) % K # 0 => /\ FixTile(n, 2) = FixTile(n, 1) /\ K = 3
                                 /\ (n - 1) % K = 2 => (n - 2) % K = 1
                                 /\ (n - 1) % K = 1 => (n - 2) % K = 0
           /\ (n - 1) % K = 0 => n = 1 \/ K = 1 \/ (n - 2) % K = 2
<1>1. n \in Nat /\ K \in {1, 3}
  BY TypeFacts
<1> PICK k \in {1, 3} : k = K
  BY <1>1
<1>2. K' = k /\ FIX' = FIX /\ \A t, kind : FixCode(t, kind)' = FixCode(t, kind)
  BY SameCall, SameCode DEF FIX
<1>3. \A m, i : FixTile(m, i)' = FixTile(m, i)
  BY <1>2 DEF FixTile
<1>4. Len(queue'[FIX]) = n - 1
  BY SequenceFacts DEF Shortened
<1>5. ASSUME NEW i \in 1..(n - 1)
      PROVE  /\ FixTile(n - 1, i) = FixTile(n, i + 1)
             /\ queue'[FIX][i] = FixCode(FixTile(n, i + 1), (n - (i + 1)) % k)
  <2>1. n - 1 - i = n - (i + 1) /\ i + 1 \in 1..n
    BY <1>1
  <2> QED BY <2>1 DEF FixTile, FixQueue, Shortened
<1>6. FixQueue'
  <2>1. HasLength(queue'[FIX], n - 1)
    BY DEF Shortened
  <2>2. ASSUME NEW i \in 1..(n - 1)
        PROVE  queue'[FIX][i] = FixCode(FixTile(n - 1, i), (n - 1 - i) % k)
    <3>1. n - (i + 1) = n - 1 - i
      BY <1>1
    <3> QED BY <1>5, <3>1
  <2> QED BY <1>2, <1>3, <1>4, <2>1, <2>2 DEF FixQueue
<1>7. PendingFlags' = PendingFlags - (IF (n - 1) % k = 0 THEN 1 ELSE 0)
  <2>1. PendingFlags' = (n - 1 + k - 1) \div k /\ PendingFlags = (n + k - 1) \div k
    BY <1>2, <1>4 DEF PendingFlags
  <2> QED BY <1>1, <2>1, LastOfKs
<1>8. (n - 1) % k # 0 => /\ k = 3 /\ (n - 1) \div k = (n - 2) \div k
                         /\ (n - 1) % k = 2 => (n - 2) % k = 1
                         /\ (n - 1) % k = 1 => (n - 2) % k = 0
  BY <1>1, LastOfKs
<1>9. (n - 1) % k = 0 => n = 1 \/ k = 1 \/ (n - 2) % k = 2
  BY <1>1, LastOfKs
<1>10. n - 1 - 1 = n - 2
  BY <1>1
<1>11. FixTile(n - 1, 1)' = FixTile(n, 2)
  BY <1>3, <1>10 DEF FixTile
<1>12. (n - 1) % k # 0 => FixTile(n, 2) = FixTile(n, 1)
  BY <1>8 DEF FixTile
<1> QED BY <1>4, <1>6, <1>7, <1>8, <1>9, <1>11, <1>12

(* FIX works on a tile that no vector core has taken, so that those find   *)
(* what they found; and a tile it raises a flag for is stored.             *)
LEMMA FindsAhead ==
    ASSUME Types, FixQueue, NEW s \in Subs, NEW todo, NEW f, NEW v, NEW a, NEW token,
           Todo(s, todo, f, v, a, token), VectorFinds(s, todo, f),
           call' = call, blockIdx' = blockIdx, aiv' = aiv,
           NEW x \in Tiles, x = Ahead(s, events[flag(s)]), IsAhead(s, x),
           \A j \in 0..(events[flag(s)] - 1) : IsAhead(s, Ahead(s, j)),
           memory'[ubGate(s)] = memory[ubGate(s)], memory'[ubUp(s)] = memory[ubUp(s)],
           \A u \in Tiles : u # x => /\ memory'[Gate(u, s)] = memory[Gate(u, s)]
                                     /\ memory'[Up(u, s)] = memory[Up(u, s)]
                                     /\ memory'[D(u, s)] = memory[D(u, s)],
           \/ events'[flag(s)] = events[flag(s)]
           \/ events'[flag(s)] = events[flag(s)] + 1 /\ (HasRows(x, s) => Stored(x, s)')
    PROVE  VectorFinds(s, todo, f)'
<1> DEFINE e == events[flag(s)]
<1>1. /\ ReadsGate' = ReadsGate /\ ReadsUp' = ReadsUp /\ StoresD' = StoresD /\ Tiles' = Tiles
      /\ \A t : /\ HasRows(t, s)' = HasRows(t, s)
                /\ Gate(t, s)' = Gate(t, s) /\ Up(t, s)' = Up(t, s) /\ D(t, s)' = D(t, s)
                /\ InC("gate", t, s)' = InC("gate", t, s)
                /\ InC("up", t, s)' = InC("up", t, s)
                /\ InD(t, s)' = InD(t, s)
  BY SameCall
<1>2. /\ e \in Nat /\ aiv[s].loopIdx \in Nat /\ call.aiCoreNum \in Nat \ {0}
      /\ aiv[s].loopIdx <= x /\ Tiles \subseteq Nat
  BY TypeFacts, NamesDiffer DEF IsAhead, Tiles
<1>3. \A t \in Tiles : t # x /\ Stored(t, s) => Stored(t, s)'
  BY <1>1 DEF Stored, GateStored, UpStored
<1>4. UBFinds(s, todo, f)'
  <2>1. ubGate(s)' = ubGate(s) /\ ubUp(s)' = ubUp(s)
    BY DEF ubGate, ubUp
  <2> QED BY <1>1, <2>1 DEF UBFinds, InUB, VectorFinds
<1>5. LoadsFind(s, todo, f)'
  <2>1. ASSUME NEW i \in (f + 1)..Len(todo) PROVE Stored(todo[i], s)'
    <3>1. todo \in Seq(Tiles) /\ f \in Nat /\ \A j \in 1..Len(todo) : todo[j] < aiv[s].loopIdx
      BY DEF Todo
    <3>2. todo[i] \in Tiles /\ todo[i] < aiv[s].loopIdx
      BY <3>1
    <3>3. todo[i] # x
      BY <1>2, <3>2
    <3>4. Stored(todo[i], s)
      BY DEF VectorFinds, LoadsFind
    <3> QED BY <1>3, <3>2, <3>3, <3>4
  <2> QED BY <2>1 DEF LoadsFind
<1>6. FlagsFind(s)'
  <2>1. flag(s)' = flag(s) /\ \A j : Ahead(s, j)' = Ahead(s, j)
    BY DEF flag, Ahead
  <2>2. ASSUME NEW j \in 0..(e - 1), NEW t \in Tiles, t = Ahead(s, j), HasRows(t, s)
        PROVE  Stored(t, s)'
    <3>1. Stored(t, s)
      BY <2>2 DEF VectorFinds, FlagsFind
    <3>2. j * call.aiCoreNum < e * call.aiCoreNum /\ j * call.aiCoreNum \in Int
          /\ e * call.aiCoreNum \in Int
      <4> DEFINE N == call.aiCoreNum
      <4>1. j \in Int /\ e \in Int /\ j < e /\ N \in Nat \ {0}
        BY <1>2
      <4> HIDE DEF N, e
      <4>2. j * N < e * N
        BY <4>1, ProductCompare
      <4>3. j * N \in Int /\ e * N \in Int
        BY <4>1
      <4> QED BY <4>2, <4>3 DEF N
    <3>3. t # x
      BY <1>2, <2>2, <3>2 DEF Ahead
    <3> QED BY <1>3, <3>1, <3>3
  <2>3. ASSUME NEW j \in 0..(events'[flag(s)] - 1), NEW t \in Tiles, t = Ahead(s, j),
               HasRows(t, s)
        PROVE  Stored(t, s)'
    <3>1. CASE j \in 0..(e - 1)
      BY <2>2, <2>3, <3>1
    <3>2. CASE j \notin 0..(e - 1)
      <4>1. j = e /\ events'[flag(s)] = e + 1
        BY <1>2, <3>2
      <4>2. t = x /\ Stored(x, s)'
        BY <1>2, <2>3, <4>1
      <4> QED BY <4>2
    <3> QED BY <3>1, <3>2
  <2> QED BY <1>1, <2>1, <2>3 DEF FlagsFind
<1>7. DFinds(s, todo)'
  <2>1. \A t : StoredBy(s, todo, t)' = StoredBy(s, todo, t)
    BY <1>1 DEF StoredBy
  <2>2. \A t \in Tiles : StoredBy(s, todo, t) => memory'[D(t, s)] = memory[D(t, s)]
    <3>1. \A t \in Tiles : StoredBy(s, todo, t) => t # x
      BY <1>2 DEF StoredBy
    <3> QED BY <3>1
  <2> QED BY <1>1, <2>1, <2>2 DEF DFinds, VectorFinds
<1> QED BY <1>4, <1>5, <1>6, <1>7 DEF VectorFinds

(* FIX stores a half of the tile it is at, or raises its flag when both    *)
(* are stored.                                                             *)
LEMMA FixPipeInv ==
    ASSUME Inv, RunPipe(FIX)
    PROVE  Inv'
<1>1. Types /\ FixQueue /\ FixFinds
  BY DEF Inv
<1>n. PICK n : n = Len(queue[FIX])
  OBVIOUS
<1>x. PICK x : x = FixTile(n, 1)
  OBVIOUS
<1>k. PICK kind : kind = (n - 1) % K
  OBVIOUS
<1>2. /\ call' = call /\ blockIdx' = blockIdx /\ aic' = aic /\ aiv' = aiv
      /\ n # 0 /\ Does(queue[FIX][1]) /\ Shortened(FIX, n)
      /\ CallTypes' /\ aiv' = [s \in Subs |-> aiv'[s]] /\ \A s \in Subs : CoreTypes(s)'
      /\ PipeTypes'
  BY <1>1, <1>n, PipeStep, NamesDiffer DEF FixQueue
<1>3. /\ call \in Calls /\ n \in Nat /\ K \in {1, 3} /\ PendingFlags \in Nat
      /\ events \in [Events -> Nat]
  BY <1>1, <1>n, TypeFacts DEF Types, PipeTypes
<1>4. kind \in 0..2 /\ (kind = 0 \/ K = 3)
  <2>1. n \in Nat \ {0} /\ K \in {1, 3}
    BY <1>2, <1>3
  <2>2. (n - 1) % K \in 0..2 /\ ((n - 1) % K = 0 \/ K = 3)
    BY <2>1, LastOfKs
  <2> QED BY <1>k, <2>2, Zenon
<1>5. Does(FixCode(x, kind))
  <2>1. 1 \in 1..n
    BY <1>2, <1>3
  <2>2. queue[FIX][1] = FixCode(FixTile(n, 1), (n - 1) % K)
    BY <1>1, <1>n, <2>1 DEF FixQueue
  <2> QED BY <1>2, <1>x, <1>k, <2>2
<1>6. \A s \in Subs : \A a : Credit(s, a) =>
         /\ x = Ahead(s, events[flag(s)]) /\ IsAhead(s, x)
         /\ \A j \in 0..(events[flag(s)] - 1) : IsAhead(s, Ahead(s, j))
  BY <1>1, <1>2, <1>n, <1>x, AheadFacts
<1>7. x \in Tiles
  <2>1. 0 \in Subs
    BY DEF Subs
  <2>2. PICK todo, f, v, a, token : Vector(0, todo, f, v, a, token)
    BY <2>1 DEF Inv
  <2>3. IsAhead(0, x)
    BY <1>6, <2>1, <2>2 DEF Vector
  <2> QED BY <2>3 DEF IsAhead
<1>8. /\ \A s \in Subs : /\ memory'[ubGate(s)] = memory[ubGate(s)]
                         /\ memory'[ubUp(s)] = memory[ubUp(s)]
      /\ \A u \in Tiles : \A s \in Subs :
            u # x => /\ memory'[Gate(u, s)] = memory[Gate(u, s)]
                     /\ memory'[Up(u, s)] = memory[Up(u, s)]
                     /\ memory'[D(u, s)] = memory[D(u, s)]
      /\ \A s \in Subs : /\ kind # 2 => memory'[Gate(x, s)] = memory[Gate(x, s)]
                         /\ kind # 1 => memory'[Up(x, s)] = memory[Up(x, s)]
      /\ \A s \in ActiveSubs(x) :
            /\ kind = 2 => memory'[Gate(x, s)] = Product("gate", x, s)
            /\ kind = 1 => memory'[Up(x, s)] = Product("up", x, s)
  BY <1>3, <1>4, <1>5, <1>7, FixMemory
<1>9. \A s \in Subs :
         /\ events'[flag(s)] = events[flag(s)] + (IF kind = 0 THEN 1 ELSE 0)
         /\ events'[reverse(s)] = events[reverse(s)]
         /\ events'[MTE3_MTE2(s)] = events[MTE3_MTE2(s)]
         /\ events'[MTE2_V(s)] = events[MTE2_V(s)]
         /\ events'[V_MTE3(s)] = events[V_MTE3(s)]
  BY <1>3, <1>4, <1>5, FixEvents
<1>10. /\ FixQueue' /\ Len(queue'[FIX]) = n - 1
       /\ PendingFlags' = PendingFlags - (IF kind = 0 THEN 1 ELSE 0)
       /\ FixTile(n - 1, 1)' = FixTile(n, 2)
       /\ kind # 0 => /\ FixTile(n, 2) = x /\ K = 3
                      /\ kind = 2 => (n - 2) % K = 1
                      /\ kind = 1 => (n - 2) % K = 0
       /\ kind = 0 => n = 1 \/ K = 1 \/ (n - 2) % K = 2
  BY <1>1, <1>2, <1>n, <1>x, <1>k, FixShortened
<1>11. /\ K' = K /\ FIX' = FIX /\ Tiles' = Tiles
       /\ \A t : ActiveSubs(t)' = ActiveSubs(t)
       /\ \A t, s : /\ HasRows(t, s)' = HasRows(t, s)
                    /\ Gate(t, s)' = Gate(t, s) /\ Up(t, s)' = Up(t, s)
                    /\ InC("gate", t, s)' = InC("gate", t, s)
                    /\ InC("up", t, s)' = InC("up", t, s)
  BY <1>2, SameCall DEF FIX
<1>12. call.mode = EPILOGUE_ONLY <=> K = 1
  BY DEF K
<1>13. \A t : ActiveSubs(t) \subseteq Subs
  BY DEF ActiveSubs
<1>f. IF call.mode = EPILOGUE_ONLY
      THEN \A t \in Tiles : \A s \in ActiveSubs(t) : Stored(t, s)
      ELSE \A s \in ActiveSubs(x) : (kind # 2 => GateStored(x, s)) /\ (kind = 0 => UpStored(x, s))
  <2>1. CASE call.mode = EPILOGUE_ONLY
    BY <1>1, <2>1, Zenon DEF FixFinds
  <2>2. CASE call.mode # EPILOGUE_ONLY
    <3>1. \A t \in Tiles : n # 0 /\ t = FixTile(n, 1) =>
             \A s \in ActiveSubs(t) : /\ (n - 1) % K # 2 => GateStored(t, s)
                                      /\ (n - 1) % K = 0 => UpStored(t, s)
      BY <1>1, <1>n, <2>2, Zenon DEF FixFinds
    <3> QED BY <1>2, <1>7, <1>k, <1>x, <2>2, <3>1, Zenon
  <2> QED BY <2>1, <2>2, Zenon
(* What FIX finds when it is done with the instruction.                    *)
<1>14. ASSUME NEW s \in ActiveSubs(x)
       PROVE  /\ GateStored(x, s)'
              /\ kind = 1 \/ kind = 0 => UpStored(x, s)'
              /\ kind = 0 => Stored(x, s)'
  <2>1. s \in Subs
    BY <1>13
  <2>2. CASE K = 1
    <3>1. kind = 0 /\ GateStored(x, s) /\ UpStored(x, s)
      <4>1. K # 3
        BY <2>2
      <4> QED BY <1>4, <1>7, <1>12, <1>f, <2>2, <4>1, Zenon DEF Stored
    <3> QED BY <1>8, <1>11, <2>1, <3>1 DEF GateStored, UpStored, Stored
  <2>3. CASE K = 3
    <3>1. /\ kind # 2 => GateStored(x, s)
          /\ kind = 0 => UpStored(x, s)
      <4>1. K # 1
        BY <2>3
      <4> QED BY <1>12, <1>f, <4>1, Zenon
    <3>2. InC("gate", x, s) = Product("gate", x, s) /\ InC("up", x, s) = Product("up", x, s)
      BY <1>12, <2>3 DEF InC
    <3>3. GateStored(x, s)'
      <4>1. memory'[Gate(x, s)] = InC("gate", x, s)
        BY <1>8, <2>1, <3>1, <3>2 DEF GateStored
      <4> QED BY <1>11, <4>1 DEF GateStored
    <3>4. kind = 1 \/ kind = 0 => UpStored(x, s)'
      <4>1. kind = 1 \/ kind = 0 => memory'[Up(x, s)] = InC("up", x, s)
        BY <1>8, <2>1, <3>1, <3>2 DEF UpStored
      <4> QED BY <1>11, <4>1 DEF UpStored
    <3> QED BY <3>3, <3>4 DEF Stored
  <2> QED BY <1>3, <2>2, <2>3
<1>15. FixFinds'
  <2>1. CASE call.mode = EPILOGUE_ONLY
    <3>1. K = 1 /\ kind = 0
      BY <1>4, <1>12, <2>1
    <3>2. ASSUME NEW t \in Tiles, NEW s \in ActiveSubs(t) PROVE Stored(t, s)'
      <4>1. s \in Subs /\ Stored(t, s)
        BY <1>1, <1>13, <2>1 DEF FixFinds
      <4>2. memory'[Gate(t, s)] = memory[Gate(t, s)] /\ memory'[Up(t, s)] = memory[Up(t, s)]
        <5>1. CASE t = x
          BY <1>8, <3>1, <4>1, <5>1
        <5>2. CASE t # x
          BY <1>8, <4>1, <5>2
        <5> QED BY <5>1, <5>2
      <4> QED BY <1>11, <4>1, <4>2 DEF Stored, GateStored, UpStored
    <3> QED BY <1>2, <1>11, <2>1, <3>2 DEF FixFinds
  <2>2. CASE call.mode # EPILOGUE_ONLY
    <3>1. K = 3
      BY <1>3, <1>12, <2>2
    <3>k. PICK kind2 : kind2 = (n - 2) % K
      OBVIOUS
    <3>2. ASSUME NEW t \in Tiles, n - 1 # 0, t = FixTile(n, 2), NEW s \in ActiveSubs(t)
          PROVE  /\ kind2 # 2 => GateStored(t, s)'
                 /\ kind2 = 0 => UpStored(t, s)'
      <4>1. CASE kind = 0
        <5>1. kind2 = 2
          BY <1>3, <1>10, <3>1, <3>2, <3>k, <4>1
        <5> QED BY <5>1
      <4>2. CASE kind # 0
        <5>1. t = x /\ (kind = 2 => kind2 = 1)
          BY <1>10, <3>2, <3>k, <4>2
        <5>2. kind = 1 \/ kind = 2
          BY <1>4, <4>2
        <5> QED BY <1>14, <3>1, <3>2, <4>2, <5>1, <5>2
      <4> QED BY <4>1, <4>2
    <3>3. (n - 1 - 1) % K' = kind2
      <4>1. n - 1 - 1 = n - 2
        BY <1>3
      <4> QED BY <1>11, <3>k, <4>1
    <3> QED BY <1>2, <1>10, <1>11, <2>2, <3>2, <3>3 DEF FixFinds
  <2> QED BY <2>1, <2>2
<1>16. Types'
  <2>1. queue[FIX] # <<>>
    <3>1. HasLength(queue[FIX], n)
      BY <1>1, <1>n DEF FixQueue
    <3> QED BY <1>2, <3>1, EmptyLength, Zenon
  <2>2. aic.pc # "done"
    BY <1>1, <2>1 DEF Types, CubeTypes
  <2>3. CubeTypes'
    <3>1. coreLoops(call)' = coreLoops(call) /\ FIX' = FIX
      BY <1>2, <1>11
    <3> QED BY <1>1, <1>2, <2>2, <3>1 DEF Types, CubeTypes, LoopInRange
  <2> QED BY <1>2, <2>3 DEF Types
<1>17. ASSUME NEW s \in Subs PROVE (\E todo, f, v, a, token : Vector(s, todo, f, v, a, token))'
  <2>1. PICK todo, f, v, a, token : Vector(s, todo, f, v, a, token)
    BY DEF Inv
  <2> PICK w : w = IF aiv[s].pc = "loop" THEN 0 ELSE token
    OBVIOUS
  <2>2. /\ Todo(s, todo, f, v, a, token) /\ Queued(s, todo, f, v, a, w)
        /\ Tokens(s, f, v, token) /\ Credit(s, a) /\ VectorFinds(s, todo, f)
    BY <2>1 DEF Vector
  <2>3. aiv'[s] = aiv[s]
    BY <1>2
  <2>4. Todo(s, todo, f, v, a, token)'
    BY <1>2, <2>2, <2>3, TodoFrame
  <2>5. Queued(s, todo, f, v, a, w)'
    <3>1. MTE2(s) # FIX /\ V(s) # FIX /\ MTE3(s) # FIX
      BY DEF MTE2, V, MTE3, FIX
    <3>2. queue'[MTE2(s)] = queue[MTE2(s)] /\ queue'[V(s)] = queue[V(s)]
          /\ queue'[MTE3(s)] = queue[MTE3(s)]
      BY <1>2, <3>1, NamesDiffer DEF Shortened
    <3> QED BY <1>2, <2>2, <3>2, QueuedFrame
  <2>6. Tokens(s, f, v, token)'
    BY <1>9, <2>2 DEF Tokens, MTE3_MTE2, MTE2_V, V_MTE3
  <2>7. Credit(s, a)'
    <3>1. events'[flag(s)] + PendingFlags' = events[flag(s)] + PendingFlags
      <4>1. events[flag(s)] \in Nat
        BY <1>3, NamesDiffer
      <4> QED BY <1>3, <1>9, <1>10, <4>1
    <3>2. flag(s)' = flag(s) /\ reverse(s)' = reverse(s)
      BY DEF flag, reverse
    <3> QED BY <1>2, <1>9, <2>2, <2>3, <3>1, <3>2 DEF Credit
  <2>8. VectorFinds(s, todo, f)'
    <3>1. HasRows(x, s) => s \in ActiveSubs(x)
      BY DEF ActiveSubs
    <3>2. \/ events'[flag(s)] = events[flag(s)]
          \/ events'[flag(s)] = events[flag(s)] + 1 /\ (HasRows(x, s) => Stored(x, s)')
      <4>1. CASE kind = 0
        BY <1>9, <1>14, <3>1, <4>1
      <4>2. CASE kind # 0
        <5>1. events[flag(s)] \in Nat
          BY <1>3, NamesDiffer
        <5> QED BY <1>9, <4>2, <5>1
      <4> QED BY <4>1, <4>2
    <3>3. /\ x = Ahead(s, events[flag(s)]) /\ IsAhead(s, x)
          /\ \A j \in 0..(events[flag(s)] - 1) : IsAhead(s, Ahead(s, j))
      BY <1>6, <2>2
    <3>4. /\ memory'[ubGate(s)] = memory[ubGate(s)] /\ memory'[ubUp(s)] = memory[ubUp(s)]
          /\ \A u \in Tiles : u # x => /\ memory'[Gate(u, s)] = memory[Gate(u, s)]
                                       /\ memory'[Up(u, s)] = memory[Up(u, s)]
                                       /\ memory'[D(u, s)] = memory[D(u, s)]
      BY <1>8
    <3> QED BY <1>1, <1>2, <1>7, <2>2, <3>2, <3>3, <3>4, FindsAhead
  <2>9. w = (IF aiv'[s].pc = "loop" THEN 0 ELSE token)
    BY <2>3
  <2>10. Vector(s, todo, f, v, a, token)'
    BY <2>4, <2>5, <2>6, <2>7, <2>8, <2>9 DEF Vector
  <2> QED BY <2>10
<1> QED BY <1>10, <1>15, <1>16, <1>17 DEF Inv

(* A pipe of vector core s touches only the events of that core.           *)
Own(i, s) ==
    i.waits \cup i.sets \subseteq {MTE3_MTE2(s), MTE2_V(s), V_MTE3(s), flag(s), reverse(s)}

SameEvents(r) ==
    /\ events'[MTE3_MTE2(r)] = events[MTE3_MTE2(r)] /\ events'[MTE2_V(r)] = events[MTE2_V(r)]
    /\ events'[V_MTE3(r)] = events[V_MTE3(r)]
    /\ events'[flag(r)] = events[flag(r)] /\ events'[reverse(r)] = events[reverse(r)]

(* So the events of the other vector core are the same.                    *)
LEMMA OwnEvents ==
    ASSUME NEW i, NEW s \in Subs, Own(i, s), Does(i), events \in [Events -> Nat],
           NEW r \in Subs, r # s
    PROVE  SameEvents(r)
<1>1. ASSUME NEW e \in Events, e \notin i.waits, e \notin i.sets PROVE events'[e] = events[e]
  <2>1. events'[e] = events[e] - (IF e \in i.waits THEN 1 ELSE 0)
                               + (IF e \in i.sets THEN 1 ELSE 0)
    BY DEF Does
  <2>2. events'[e] = events[e] - 0 + 0 /\ events[e] \in Nat
    BY <1>1, <2>1
  <2> QED BY <2>2
<1>2. \A e \in {MTE3_MTE2(r), MTE2_V(r), V_MTE3(r), flag(r), reverse(r)} :
         e \notin {MTE3_MTE2(s), MTE2_V(s), V_MTE3(s), flag(s), reverse(s)}
  BY DEF MTE3_MTE2, MTE2_V, V_MTE3, flag, reverse
<1>3. \A e \in {MTE3_MTE2(r), MTE2_V(r), V_MTE3(r), flag(r), reverse(r)} :
         e \in Events /\ e \notin i.waits /\ e \notin i.sets
  <2>1. \A e \in {MTE3_MTE2(r), MTE2_V(r), V_MTE3(r), flag(r), reverse(r)} : e \in Events
    BY NamesDiffer
  <2> QED BY <1>2, <2>1 DEF Own
<1> QED BY <1>1, <1>3 DEF SameEvents

(* A step of a pipe of one vector core leaves the rest of the core alone.  *)
LEMMA VectorPipeInv ==
    ASSUME Inv, NEW s \in Subs, NEW p \in {MTE2(s), V(s), MTE3(s)}, RunPipe(p),
           NEW n, HasLength(queue[p], n), Own(queue[p][1], s),
           \A r \in Subs : r # s => SameMemory(r), FixFinds',
           (\E todo, f, v, a, token : Vector(s, todo, f, v, a, token))'
    PROVE  Inv'
<1>1. Types /\ FixQueue /\ FixFinds /\ p \in Pipes
  BY NamesDiffer DEF Inv
<1>2. /\ call' = call /\ blockIdx' = blockIdx /\ aic' = aic /\ aiv' = aiv
      /\ n # 0 /\ Does(queue[p][1]) /\ Shortened(p, n)
      /\ CallTypes' /\ aiv' = [r \in Subs |-> aiv'[r]] /\ \A r \in Subs : CoreTypes(r)'
      /\ PipeTypes'
  BY <1>1, PipeStep
<1>3. \A r \in Pipes : r # p => queue'[r] = queue[r]
  BY <1>2 DEF Shortened
<1>4. queue'[FIX] = queue[FIX]
  <2>1. FIX \notin {MTE2(s), V(s), MTE3(s)}
    BY DEF FIX, MTE2, V, MTE3
  <2> QED BY <1>3, <2>1, NamesDiffer
<1>5. Types'
  <2>1. CubeTypes'
    BY <1>1, <1>2, <1>4, TypesFrame
  <2> QED BY <1>2, <2>1 DEF Types
<1>6. FixQueue' /\ PendingFlags' = PendingFlags
  BY <1>1, <1>2, <1>4, FixFrame
<1>7. ASSUME NEW r \in Subs PROVE (\E todo, f, v, a, token : Vector(r, todo, f, v, a, token))'
  <2>1. CASE r = s
    BY <2>1
  <2>2. CASE r # s
    <3>1. PICK todo, f, v, a, token : Vector(r, todo, f, v, a, token)
      BY DEF Inv
    <3>2. {MTE2(r), V(r), MTE3(r)} \cap {MTE2(s), V(s), MTE3(s)} = {}
      BY <2>2 DEF MTE2, V, MTE3
    <3>3. SameEvents(r)
      BY <1>1, <1>2, <2>2, OwnEvents DEF Types, PipeTypes
    <3>4. SameCore(r) /\ SameCredit(r)
      BY <1>2, <1>3, <1>6, <3>2, <3>3, NamesDiffer DEF SameCore, SameCredit, SameEvents
    <3>5. Vector(r, todo, f, v, a, token)'
      BY <1>2, <2>2, <3>1, <3>4, VectorFrame
    <3> QED BY <3>5
  <2> QED BY <2>1, <2>2
<1> QED BY <1>5, <1>6, <1>7 DEF Inv

(* What the instructions of a vector core do to the events.                *)
LEMMA VectorEvents ==
    ASSUME events \in [Events -> Nat], NEW s \in Subs, NEW t
    PROVE  /\ Own(Load(t, s), s) /\ Own(LastWait(s), s) /\ Own(Pass(s), s)
           /\ Own(Answer(s), s) /\ Own(StoreOf(t, s), s)
           /\ Does(Load(t, s)) =>
                 /\ events[MTE3_MTE2(s)] > 0
                 /\ events'[MTE3_MTE2(s)] = events[MTE3_MTE2(s)] - 1
                 /\ events'[MTE2_V(s)] = events[MTE2_V(s)] + 1
                 /\ events'[V_MTE3(s)] = events[V_MTE3(s)]
                 /\ events'[flag(s)] = events[flag(s)] /\ events'[reverse(s)] = events[reverse(s)]
           /\ Does(LastWait(s)) =>
                 /\ events[MTE3_MTE2(s)] > 0
                 /\ events'[MTE3_MTE2(s)] = events[MTE3_MTE2(s)] - 1
                 /\ events'[MTE2_V(s)] = events[MTE2_V(s)]
                 /\ events'[V_MTE3(s)] = events[V_MTE3(s)]
                 /\ events'[flag(s)] = events[flag(s)] /\ events'[reverse(s)] = events[reverse(s)]
           /\ Does(Pass(s)) =>
                 /\ events[MTE2_V(s)] > 0
                 /\ events'[MTE3_MTE2(s)] = events[MTE3_MTE2(s)]
                 /\ events'[MTE2_V(s)] = events[MTE2_V(s)] - 1
                 /\ events'[V_MTE3(s)] = events[V_MTE3(s)] + 1
                 /\ events'[flag(s)] = events[flag(s)] /\ events'[reverse(s)] = events[reverse(s)]
           /\ Does(Answer(s)) =>
                 /\ events'[MTE3_MTE2(s)] = events[MTE3_MTE2(s)]
                 /\ events'[MTE2_V(s)] = events[MTE2_V(s)]
                 /\ events'[V_MTE3(s)] = events[V_MTE3(s)]
                 /\ events'[flag(s)] = events[flag(s)]
                 /\ events'[reverse(s)] = events[reverse(s)] + 1
           /\ Does(StoreOf(t, s)) =>
                 /\ events[V_MTE3(s)] > 0
                 /\ events'[MTE3_MTE2(s)] = events[MTE3_MTE2(s)] + 1
                 /\ events'[MTE2_V(s)] = events[MTE2_V(s)]
                 /\ events'[V_MTE3(s)] = events[V_MTE3(s)] - 1
                 /\ events'[flag(s)] = events[flag(s)] /\ events'[reverse(s)] = events[reverse(s)]
<1> DEFINE A == MTE3_MTE2(s)
           B == MTE2_V(s)
           C == V_MTE3(s)
           F == flag(s)
           R == reverse(s)
<1>1. /\ A \in Events /\ B \in Events /\ C \in Events /\ F \in Events /\ R \in Events
      /\ events[A] \in Nat /\ events[B] \in Nat /\ events[C] \in Nat
      /\ events[F] \in Nat /\ events[R] \in Nat
  BY NamesDiffer
<1>2. /\ A # B /\ A # C /\ A # F /\ A # R /\ B # C /\ B # F /\ B # R /\ C # F /\ C # R /\ F # R
  BY DEF MTE3_MTE2, MTE2_V, V_MTE3, flag, reverse
<1>3. /\ Load(t, s).waits = {A} /\ Load(t, s).sets = {B}
      /\ LastWait(s).waits = {A} /\ LastWait(s).sets = {}
      /\ Pass(s).waits = {B} /\ Pass(s).sets = {C}
      /\ Answer(s).waits = {} /\ Answer(s).sets = {R}
      /\ StoreOf(t, s).waits = {C} /\ StoreOf(t, s).sets = {A}
  BY DEF Load, LastWait, Pass, Answer, StoreOf, StoreD, Instruction
<1>4. \A i : Own(i, s) <=> i.waits \cup i.sets \subseteq {A, B, C, F, R}
  BY DEF Own
<1> HIDE DEF A, B, C, F, R
<1>5. \A i : Does(i) =>
         /\ \A e \in Events : events'[e] = events[e] - (IF e \in i.waits THEN 1 ELSE 0)
                                                     + (IF e \in i.sets THEN 1 ELSE 0)
         /\ \A e \in i.waits : events[e] > 0
  BY DEF Does
<1>6. ASSUME NEW i, Does(i), NEW e \in Events, events[e] \in Nat
      PROVE  /\ e \notin i.waits /\ e \notin i.sets => events'[e] = events[e]
             /\ e \in i.waits /\ e \notin i.sets => events'[e] = events[e] - 1 /\ events[e] > 0
             /\ e \notin i.waits /\ e \in i.sets => events'[e] = events[e] + 1
  <2>1. events'[e] = events[e] - (IF e \in i.waits THEN 1 ELSE 0)
                               + (IF e \in i.sets THEN 1 ELSE 0)
    BY <1>5, <1>6
  <2>2. e \in i.waits => events[e] > 0
    BY <1>5, <1>6
  <2> QED BY <1>6, <2>1, <2>2
<1>7. /\ Own(Load(t, s), s) /\ Own(LastWait(s), s) /\ Own(Pass(s), s)
      /\ Own(Answer(s), s) /\ Own(StoreOf(t, s), s)
  BY <1>3, <1>4
<1>8. ASSUME Does(Load(t, s))
      PROVE  /\ events[A] > 0 /\ events'[A] = events[A] - 1 /\ events'[B] = events[B] + 1
             /\ events'[C] = events[C] /\ events'[F] = events[F] /\ events'[R] = events[R]
  BY <1>1, <1>2, <1>3, <1>6, <1>8
<1>9. ASSUME Does(LastWait(s))
      PROVE  /\ events[A] > 0 /\ events'[A] = events[A] - 1 /\ events'[B] = events[B]
             /\ events'[C] = events[C] /\ events'[F] = events[F] /\ events'[R] = events[R]
  BY <1>1, <1>2, <1>3, <1>6, <1>9
<1>10. ASSUME Does(Pass(s))
       PROVE  /\ events[B] > 0 /\ events'[A] = events[A] /\ events'[B] = events[B] - 1
              /\ events'[C] = events[C] + 1 /\ events'[F] = events[F] /\ events'[R] = events[R]
  BY <1>1, <1>2, <1>3, <1>6, <1>10
<1>11. ASSUME Does(Answer(s))
       PROVE  /\ events'[A] = events[A] /\ events'[B] = events[B] /\ events'[C] = events[C]
              /\ events'[F] = events[F] /\ events'[R] = events[R] + 1
  BY <1>1, <1>2, <1>3, <1>6, <1>11
<1>12. ASSUME Does(StoreOf(t, s))
       PROVE  /\ events[C] > 0 /\ events'[A] = events[A] + 1 /\ events'[B] = events[B]
              /\ events'[C] = events[C] - 1 /\ events'[F] = events[F] /\ events'[R] = events[R]
  BY <1>1, <1>2, <1>3, <1>6, <1>12
<1> QED BY <1>7, <1>8, <1>9, <1>10, <1>11, <1>12 DEF A, B, C, F, R

(* And to the memory.                                                      *)
LEMMA VectorMemory ==
    ASSUME call \in Calls, NEW s \in Subs, NEW t \in Tiles
    PROVE  /\ Does(Load(t, s)) =>
                 /\ ReadsGate => memory'[ubGate(s)] = InC("gate", t, s)
                 /\ ReadsUp => memory'[ubUp(s)] = InC("up", t, s)
                 /\ ~ReadsGate => memory'[ubGate(s)] = memory[ubGate(s)]
                 /\ \A b \in Buffers : b # ubGate(s) /\ b # ubUp(s) => memory'[b] = memory[b]
           /\ Does(LastWait(s)) \/ Does(Pass(s)) \/ Does(Answer(s)) =>
                 \A b \in Buffers : memory'[b] = memory[b]
           /\ Does(StoreOf(t, s)) =>
                 /\ StoresD => memory'[D(t, s)] = InD(t, s)
                 /\ \A b \in Buffers : b # D(t, s) => memory'[b] = memory[b]
<1>1. /\ D(t, s) \in Buffers /\ ubGate(s) \in Buffers /\ ubUp(s) \in Buffers
      /\ ubGate(s) # ubUp(s)
  BY WindowsAreBuffers DEF ubGate, ubUp
<1>2. \A i : Does(i) =>
         /\ \A b \in Buffers : (\A w \in i.writes : w[1] # b) => memory'[b] = memory[b]
         /\ \A w \in i.writes : w[1] \in Buffers /\ (\A x \in i.writes : x[1] = w[1] => x = w)
                                => memory'[w[1]] = w[2]
  BY DEF Does
<1>3. ASSUME Does(Load(t, s))
      PROVE  /\ ReadsGate => memory'[ubGate(s)] = InC("gate", t, s)
             /\ ReadsUp => memory'[ubUp(s)] = InC("up", t, s)
             /\ ~ReadsGate => memory'[ubGate(s)] = memory[ubGate(s)]
             /\ \A b \in Buffers : b # ubGate(s) /\ b # ubUp(s) => memory'[b] = memory[b]
  <2> PICK i : i = Load(t, s)
    OBVIOUS
  <2>1. i.writes = {<<l[2], l[3]>> : l \in Loads(t, s)}
    BY DEF Load, Instruction
  <2> DEFINE g == <<ubGate(s), InC("gate", t, s)>>
             u == <<ubUp(s), InC("up", t, s)>>
  <2>2. /\ g[1] = ubGate(s) /\ g[2] = InC("gate", t, s)
        /\ u[1] = ubUp(s) /\ u[2] = InC("up", t, s)
    OBVIOUS
  <2>3. \A w : w \in i.writes <=> (ReadsGate /\ w = g) \/ (ReadsUp /\ w = u)
    <3> DEFINE gl == <<Gate(t, s), ubGate(s), InC("gate", t, s)>>
               ul == <<Up(t, s), ubUp(s), InC("up", t, s)>>
    <3>1. <<gl[2], gl[3]>> = g /\ <<ul[2], ul[3]>> = u
      OBVIOUS
    <3>2. \A l : l \in Loads(t, s) <=> (ReadsGate /\ l = gl) \/ (ReadsUp /\ l = ul)
      BY DEF Loads
    <3> HIDE DEF gl, ul, g, u
    <3>3. \A w : w \in i.writes <=> \E l \in Loads(t, s) : w = <<l[2], l[3]>>
      BY <2>1
    <3>4. ASSUME NEW w \in i.writes PROVE (ReadsGate /\ w = g) \/ (ReadsUp /\ w = u)
      <4>1. PICK l \in Loads(t, s) : w = <<l[2], l[3]>>
        BY <3>3
      <4>2. CASE ReadsGate /\ l = gl
        BY <3>1, <4>1, <4>2
      <4>3. CASE ReadsUp /\ l = ul
        BY <3>1, <4>1, <4>3
      <4> QED BY <3>2, <4>2, <4>3
    <3>5. ReadsGate => g \in i.writes
      BY <3>1, <3>2, <3>3
    <3>6. ReadsUp => u \in i.writes
      BY <3>1, <3>2, <3>3
    <3> QED BY <3>4, <3>5, <3>6
  <2> HIDE DEF g, u
  <2>4. ReadsGate => memory'[ubGate(s)] = InC("gate", t, s)
    <3>1. ASSUME ReadsGate PROVE memory'[g[1]] = g[2]
      <4>1. g \in i.writes /\ g[1] \in Buffers /\ \A x \in i.writes : x[1] = g[1] => x = g
        BY <1>1, <2>2, <2>3, <3>1
      <4> QED BY <1>2, <1>3, <4>1
    <3> QED BY <2>2, <3>1
  <2>5. ReadsUp => memory'[ubUp(s)] = InC("up", t, s)
    <3>1. ASSUME ReadsUp PROVE memory'[u[1]] = u[2]
      <4>1. u \in i.writes /\ u[1] \in Buffers /\ \A x \in i.writes : x[1] = u[1] => x = u
        BY <1>1, <2>2, <2>3, <3>1
      <4> QED BY <1>2, <1>3, <4>1
    <3> QED BY <2>2, <3>1
  <2>6. ~ReadsGate => memory'[ubGate(s)] = memory[ubGate(s)]
    <3>1. ~ReadsGate => \A w \in i.writes : w[1] # ubGate(s)
      BY <1>1, <2>2, <2>3
    <3> QED BY <1>1, <1>2, <1>3, <3>1
  <2>7. ASSUME NEW b \in Buffers, b # ubGate(s), b # ubUp(s) PROVE memory'[b] = memory[b]
    <3>1. \A w \in i.writes : w[1] # b
      BY <2>2, <2>3, <2>7
    <3> QED BY <1>2, <1>3, <3>1
  <2> QED BY <2>4, <2>5, <2>6, <2>7
<1>4. /\ LastWait(s).writes = {} /\ Pass(s).writes = {} /\ Answer(s).writes = {}
      /\ StoreOf(t, s).writes = IF StoresD THEN {<<D(t, s), InD(t, s)>>} ELSE {}
  BY DEF LastWait, Pass, Answer, StoreOf, StoreD, Instruction
<1>5. ASSUME Does(LastWait(s)) \/ Does(Pass(s)) \/ Does(Answer(s)), NEW b \in Buffers
      PROVE  memory'[b] = memory[b]
  <2>1. PICK i : Does(i) /\ i.writes = {}
    BY <1>4, <1>5
  <2> QED BY <1>2, <2>1
<1>6. ASSUME Does(StoreOf(t, s))
      PROVE  /\ StoresD => memory'[D(t, s)] = InD(t, s)
             /\ \A b \in Buffers : b # D(t, s) => memory'[b] = memory[b]
  <2> PICK i : i = StoreOf(t, s)
    OBVIOUS
  <2> DEFINE d == <<D(t, s), InD(t, s)>>
  <2>1. d[1] = D(t, s) /\ d[2] = InD(t, s)
    OBVIOUS
  <2>2. i.writes = IF StoresD THEN {d} ELSE {}
    BY <1>4
  <2> HIDE DEF d
  <2>3. ASSUME StoresD PROVE memory'[d[1]] = d[2]
    <3>1. d \in i.writes /\ d[1] \in Buffers /\ \A x \in i.writes : x[1] = d[1] => x = d
      BY <1>1, <2>1, <2>2, <2>3
    <3> QED BY <1>2, <1>6, <3>1
  <2>4. ASSUME NEW b \in Buffers, b # D(t, s) PROVE memory'[b] = memory[b]
    <3>1. \A w \in i.writes : w[1] # b
      BY <2>1, <2>2, <2>4
    <3> QED BY <1>2, <1>6, <3>1
  <2> QED BY <2>1, <2>3, <2>4
<1> QED BY <1>3, <1>5, <1>6

(* The unified buffer of one vector core is of no concern to the others.   *)
LEMMA OnlyUB ==
    ASSUME Inv, NEW s \in Subs, call' = call, aic' = aic, queue'[FIX] = queue[FIX],
           \A b \in Buffers : b # ubGate(s) /\ b # ubUp(s) => memory'[b] = memory[b]
    PROVE  /\ \A t \in Tiles : \A r \in Subs : /\ memory'[Gate(t, r)] = memory[Gate(t, r)]
                                               /\ memory'[Up(t, r)] = memory[Up(t, r)]
                                               /\ memory'[D(t, r)] = memory[D(t, r)]
           /\ \A r \in Subs : r # s => SameMemory(r)
           /\ FixFinds'
<1>1. call \in Calls /\ FixFinds
  BY DEF Inv, Types, CallTypes
<1>2. ASSUME NEW t \in Tiles, NEW r \in Subs
      PROVE  /\ memory'[Gate(t, r)] = memory[Gate(t, r)] /\ memory'[Up(t, r)] = memory[Up(t, r)]
             /\ memory'[D(t, r)] = memory[D(t, r)]
  <2>1. /\ Gate(t, r) \in Buffers /\ Up(t, r) \in Buffers /\ D(t, r) \in Buffers
        /\ Gate(t, r) \notin UB /\ Up(t, r) \notin UB /\ D(t, r) \notin UB
    BY <1>1, WindowsAreBuffers
  <2>2. ubGate(s) \in UB /\ ubUp(s) \in UB
    BY DEF UB
  <2> QED BY <2>1, <2>2
<1>3. ASSUME NEW r \in Subs, r # s PROVE SameMemory(r)
  <2>1. ubGate(r) \in Buffers /\ ubUp(r) \in Buffers
    BY DEF UB, Buffers
  <2>2. ubGate(r) # ubGate(s) /\ ubGate(r) # ubUp(s) /\ ubUp(r) # ubGate(s) /\ ubUp(r) # ubUp(s)
    BY <1>3 DEF ubGate, ubUp
  <2> QED BY <1>2, <2>1, <2>2 DEF SameMemory
<1>4. FixFinds'
  <2>1. /\ \A t : ActiveSubs(t)' = ActiveSubs(t) /\ ActiveSubs(t) \subseteq Subs
        /\ K' = K /\ FIX' = FIX /\ Tiles' = Tiles
    BY SameCall DEF ActiveSubs, FIX
  <2>2. \A n, i : FixTile(n, i)' = FixTile(n, i)
    BY <2>1 DEF FixTile
  <2>3. \A t \in Tiles : \A r \in ActiveSubs(t) : GateStored(t, r)' = GateStored(t, r)
                                                  /\ UpStored(t, r)' = UpStored(t, r)
    BY <1>2, <2>1, SameCall DEF GateStored, UpStored
  <2> QED BY <1>1, <2>1, <2>2, <2>3 DEF FixFinds, Stored
<1> QED BY <1>2, <1>3, <1>4

(* MTE2 loads the next tile, if it has not loaded one already.             *)
LEMMA LoadPipeInv ==
    ASSUME Inv, NEW s \in Subs, RunPipe(MTE2(s))
    PROVE  Inv'
<1>1. Types /\ FixQueue
  BY DEF Inv
<1>2. PICK todo, f, v, a, token : Vector(s, todo, f, v, a, token)
  BY DEF Inv
<1> PICK w : w = IF aiv[s].pc = "loop" THEN 0 ELSE token
  OBVIOUS
<1> PICK n : n = Len(todo)
  OBVIOUS
<1>3. /\ Todo(s, todo, f, v, a, token) /\ Queued(s, todo, f, v, a, w)
      /\ Tokens(s, f, v, token) /\ Credit(s, a) /\ VectorFinds(s, todo, f)
  BY <1>2 DEF Vector
<1>4. /\ todo \in Seq(Tiles) /\ n \in Nat /\ f \in 0..1 /\ v \in 0..f /\ f <= n
      /\ token \in 0..1 /\ w \in {0, token} /\ (w # 0 => aiv[s].pc # "loop")
  BY <1>3 DEF Todo
<1>l. PICK l : l = (n - f) + w
  OBVIOUS
<1>5. /\ HasLength(queue[MTE2(s)], l)
      /\ \A i \in 1..l :
            queue[MTE2(s)][i] = IF i <= n - f THEN Load(todo[i + f], s) ELSE LastWait(s)
  BY <1>3, <1>l DEF Queued, LoadQueue
<1>6. /\ call' = call /\ blockIdx' = blockIdx /\ aic' = aic /\ aiv' = aiv
      /\ l # 0 /\ Does(queue[MTE2(s)][1]) /\ Shortened(MTE2(s), l)
  BY <1>1, <1>5, PipeStep, NamesDiffer
<1>7. queue[MTE2(s)][1] = IF 1 <= n - f THEN Load(todo[1 + f], s) ELSE LastWait(s)
  <2>1. 1 \in 1..l
    BY <1>4, <1>6, <1>l
  <2> QED BY <1>5, <2>1
<1>8. events \in [Events -> Nat] /\ call \in Calls
  BY <1>1 DEF Types, PipeTypes, CallTypes
<1>9. Own(queue[MTE2(s)][1], s)
  BY <1>7, <1>8, VectorEvents
<1>10. /\ events[MTE3_MTE2(s)] > 0 /\ events'[MTE3_MTE2(s)] = events[MTE3_MTE2(s)] - 1
       /\ events'[MTE2_V(s)] = events[MTE2_V(s)] + (IF 1 <= n - f THEN 1 ELSE 0)
       /\ events'[V_MTE3(s)] = events[V_MTE3(s)]
       /\ events'[flag(s)] = events[flag(s)] /\ events'[reverse(s)] = events[reverse(s)]
  <2>1. CASE 1 <= n - f
    BY <1>6, <1>7, <1>8, <2>1, VectorEvents
  <2>2. CASE ~ (1 <= n - f)
    <3>1. Does(LastWait(s)) /\ events[MTE2_V(s)] \in Nat
      BY <1>6, <1>7, <1>8, <2>2, NamesDiffer
    <3> QED BY <1>8, <2>2, <3>1, VectorEvents
  <2> QED BY <2>1, <2>2
<1>11. token = 1 /\ f = 0 /\ v = 0
  BY <1>3, <1>4, <1>10 DEF Tokens
<1>12. PICK t : t = IF 1 <= n THEN todo[1] ELSE 0
  OBVIOUS
<1>13. 1 <= n => t \in Tiles /\ Does(Load(t, s))
  BY <1>4, <1>6, <1>7, <1>11, <1>12
<1>14. ~ (1 <= n) => Does(LastWait(s)) /\ n = 0 /\ w = 1 /\ todo = <<>>
  BY <1>4, <1>6, <1>7, <1>11, <1>l
<1>15. /\ \A b \in Buffers : b # ubGate(s) /\ b # ubUp(s) => memory'[b] = memory[b]
       /\ 1 <= n => /\ ReadsGate => memory'[ubGate(s)] = InC("gate", t, s)
                    /\ ReadsUp => memory'[ubUp(s)] = InC("up", t, s)
       /\ ~ReadsGate \/ ~ (1 <= n) => memory'[ubGate(s)] = memory[ubGate(s)]
  <2>1. CASE 1 <= n
    BY <1>8, <1>13, <2>1, VectorMemory
  <2>2. CASE ~ (1 <= n)
    <3>1. coreLoops(call) \in Nat \ {0} /\ 0 \in Tiles
      BY <1>8, CallFacts DEF Tiles
    <3>2. ubGate(s) \in Buffers
      BY DEF UB, Buffers
    <3> QED BY <1>8, <1>14, <2>2, <3>1, <3>2, VectorMemory
  <2> QED BY <2>1, <2>2
<1>16. \A r \in Pipes : r # MTE2(s) => queue'[r] = queue[r]
  BY <1>6 DEF Shortened
<1>17. FIX # MTE2(s) /\ V(s) # MTE2(s) /\ MTE3(s) # MTE2(s)
  BY DEF FIX, V, MTE2, MTE3
<1>18. /\ \A u \in Tiles : /\ memory'[Gate(u, s)] = memory[Gate(u, s)]
                           /\ memory'[Up(u, s)] = memory[Up(u, s)]
                           /\ memory'[D(u, s)] = memory[D(u, s)]
       /\ \A r \in Subs : r # s => SameMemory(r)
       /\ FixFinds'
  BY <1>6, <1>15, <1>16, <1>17, NamesDiffer, OnlyUB
(* The core after it: a tile is loaded, or the last wait is over.          *)
<1>19. PICK g : g = IF 1 <= n THEN 1 ELSE 0
  OBVIOUS
<1>20. PICK k : k = IF 1 <= n THEN 1 ELSE 0
  OBVIOUS
<1>21. /\ Tiles' = Tiles /\ ReadsGate' = ReadsGate /\ ReadsUp' = ReadsUp /\ StoresD' = StoresD
       /\ \A x : /\ HasRows(x, s)' = HasRows(x, s)
                 /\ Gate(x, s)' = Gate(x, s) /\ Up(x, s)' = Up(x, s) /\ D(x, s)' = D(x, s)
                 /\ InC("gate", x, s)' = InC("gate", x, s)
                 /\ InC("up", x, s)' = InC("up", x, s)
                 /\ InD(x, s)' = InD(x, s)
                 /\ Load(x, s)' = Load(x, s) /\ StoreOf(x, s)' = StoreOf(x, s)
  BY <1>6, SameCall, SameCode
<1>22. Todo(s, todo, g, 0, a, k)'
  <2>1. /\ g \in 0..1 /\ 0 \in 0..g /\ g <= n /\ k \in 0..1
        /\ k = 0 => todo = <<>> /\ aiv[s].pc # "loop"
        /\ k # 0 => k = token
    BY <1>4, <1>11, <1>14, <1>19, <1>20
  <2>2. ASSUME aiv[s].pc = "done" PROVE FALSE
    BY <1>3, <1>11, <2>2 DEF Todo
  <2> QED BY <1>3, <1>6, <1>21, <2>1, <2>2 DEF Todo
<1>23. Queued(s, todo, g, 0, a, IF aiv[s].pc = "loop" THEN 0 ELSE k)'
  <2> PICK x : x = IF aiv[s].pc = "loop" THEN 0 ELSE k
    OBVIOUS
  <2>1. MTE2(s)' = MTE2(s) /\ V(s)' = V(s) /\ MTE3(s)' = MTE3(s)
        /\ LastWait(s)' = LastWait(s) /\ Pass(s)' = Pass(s) /\ Answer(s)' = Answer(s)
    BY DEF MTE2, V, MTE3, LastWait, Pass, Answer
  <2>2. PassQueue(s, n - 0)' /\ StoreQueue(s, todo, a)'
    BY <1>3, <1>11, <1>16, <1>17, <1>21, <2>1, NamesDiffer DEF Queued, PassQueue, StoreQueue
  <2> PICK m : m = (n - g) + x
    OBVIOUS
  <2>3. m = l - 1 /\ l \in Nat
    <3>1. CASE 1 <= n
      <4>1. g = 1 /\ k = 1 /\ token = 1 /\ f = 0 /\ x = w /\ w \in 0..1
        BY <1>4, <1>11, <1>19, <1>20, <3>1
      <4> QED BY <1>4, <1>l, <3>1, <4>1
    <3>2. CASE ~ (1 <= n)
      <4>1. g = 0 /\ k = 0 /\ n = 0 /\ f = 0 /\ x = 0 /\ w = 1
        BY <1>4, <1>11, <1>14, <1>19, <1>20, <3>2
      <4> QED BY <1>l, <4>1
    <3> QED BY <3>1, <3>2
  <2>4. ASSUME NEW i \in 1..m
        PROVE  queue'[MTE2(s)][i] = IF i <= n - g THEN Load(todo[i + g], s) ELSE LastWait(s)
    <3>1. /\ n \in Nat /\ w \in 0..1 /\ g \in 0..1 /\ f = 0
          /\ 1 <= n => g = 1
          /\ ~ (1 <= n) => n = 0 /\ w = 1
      BY <1>4, <1>11, <1>14, <1>19
    <3>2. i \in 1..(l - 1) /\ i + 1 \in 1..l
      BY <2>3
    <3>3. queue'[MTE2(s)][i] = queue[MTE2(s)][i + 1]
      BY <1>6, <3>2 DEF Shortened
    <3>4. queue[MTE2(s)][i + 1] = IF i + 1 <= n - f THEN Load(todo[i + 1 + f], s) ELSE LastWait(s)
      BY <1>5, <3>2
    <3>5. g = 1 /\ i + 1 + f = i + g /\ (i + 1 <= n - f <=> i <= n - g)
      BY <1>l, <3>1, <3>2
    <3> QED BY <3>3, <3>4, <3>5
  <2>5. HasLength(queue'[MTE2(s)], m)
    BY <1>6, <2>3 DEF Shortened
  <2>6. LoadQueue(s, todo, g, x)'
    BY <1>21, <2>1, <2>4, <2>5 DEF LoadQueue
  <2>7. Queued(s, todo, g, 0, a, x)'
    BY <2>2, <2>6 DEF Queued
  <2>8. x = (IF aiv'[s].pc = "loop" THEN 0 ELSE k)
    BY <1>6
  <2> QED BY <2>7, <2>8
<1>24. Tokens(s, g, 0, k)'
  <2>1. MTE3_MTE2(s)' = MTE3_MTE2(s) /\ MTE2_V(s)' = MTE2_V(s) /\ V_MTE3(s)' = V_MTE3(s)
    BY DEF MTE3_MTE2, MTE2_V, V_MTE3
  <2>2. events[MTE3_MTE2(s)] = 1 /\ events[MTE2_V(s)] = 0 /\ events[V_MTE3(s)] = 0
    BY <1>3, <1>11 DEF Tokens
  <2>3. events'[MTE3_MTE2(s)] = k - g /\ events'[MTE2_V(s)] = g - 0 /\ events'[V_MTE3(s)] = 0
    BY <1>4, <1>10, <1>11, <1>19, <1>20, <2>2
  <2> QED BY <2>1, <2>3 DEF Tokens
<1>25. Credit(s, a)'
  <2>1. PendingFlags' = PendingFlags
    BY <1>6, <1>16, <1>17, NamesDiffer, FixFrame
  <2> QED BY <1>3, <1>6, <1>10, <2>1 DEF Credit, flag, reverse
<1>26. VectorFinds(s, todo, g)'
  <2>1. ubGate(s)' = ubGate(s) /\ ubUp(s)' = ubUp(s) /\ flag(s)' = flag(s)
        /\ \A j : Ahead(s, j)' = Ahead(s, j)
    BY <1>6 DEF ubGate, ubUp, flag, Ahead
  <2>2. UBFinds(s, todo, g)'
    <3>1. g = 1 => t = todo[1] /\ 1 <= n
      BY <1>12, <1>19
    <3>2. g = 1 => InUB(todo[1], s)'
      BY <1>15, <1>21, <2>1, <3>1 DEF InUB
    <3>3. ~ReadsGate => memory'[ubGate(s)] = Given
      BY <1>3, <1>15 DEF VectorFinds, UBFinds
    <3> QED BY <1>21, <2>1, <3>2, <3>3 DEF UBFinds
  <2>3. \A u \in Tiles : Stored(u, s) => Stored(u, s)'
    BY <1>18, <1>21 DEF Stored, GateStored, UpStored
  <2>4. LoadsFind(s, todo, g)'
    <3>1. ASSUME NEW i \in (g + 1)..Len(todo) PROVE Stored(todo[i], s)'
      <4>1. i \in 1..Len(todo) /\ i \in (f + 1)..Len(todo)
        BY <1>4, <1>11, <1>19
      <4>2. todo[i] \in Tiles /\ Stored(todo[i], s)
        BY <1>3, <1>4, <4>1 DEF VectorFinds, LoadsFind
      <4> QED BY <2>3, <4>2
    <3> QED BY <3>1 DEF LoadsFind
  <2>5. FlagsFind(s)'
    BY <1>3, <1>10, <1>21, <2>1, <2>3 DEF VectorFinds, FlagsFind
  <2>6. DFinds(s, todo)'
    <3>1. \A u : StoredBy(s, todo, u)' = StoredBy(s, todo, u)
      BY <1>6, <1>21 DEF StoredBy
    <3> QED BY <1>3, <1>6, <1>18, <1>21, <3>1 DEF VectorFinds, DFinds
  <2> QED BY <2>2, <2>4, <2>5, <2>6 DEF VectorFinds
<1>27. Vector(s, todo, g, 0, a, k)'
  BY <1>22, <1>23, <1>24, <1>25, <1>26 DEF Vector
<1> QED
  <2>1. (\E next, f2, v2, a2, token2 : Vector(s, next, f2, v2, a2, token2))'
    BY <1>27
  <2> QED BY <1>5, <1>9, <1>18, <2>1, VectorPipeInv

(* V passes a loaded tile on to MTE3.                                      *)
LEMMA PassPipeInv ==
    ASSUME Inv, NEW s \in Subs, RunPipe(V(s))
    PROVE  Inv'
<1>1. Types /\ FixQueue
  BY DEF Inv
<1>2. PICK todo, f, v, a, token : Vector(s, todo, f, v, a, token)
  BY DEF Inv
<1> PICK w : w = IF aiv[s].pc = "loop" THEN 0 ELSE token
  OBVIOUS
<1>n. PICK n : n = Len(todo)
  OBVIOUS
<1>3. /\ Todo(s, todo, f, v, a, token) /\ Queued(s, todo, f, v, a, w)
      /\ Tokens(s, f, v, token) /\ Credit(s, a) /\ VectorFinds(s, todo, f)
  BY <1>2 DEF Vector
<1>4. n \in Nat /\ f \in 0..1 /\ v \in 0..f /\ f <= n /\ token \in 0..1
  BY <1>3, <1>n DEF Todo
<1>l. PICK l : l = n - v
  OBVIOUS
<1>5. HasLength(queue[V(s)], l) /\ \A i \in 1..l : queue[V(s)][i] = Pass(s)
  BY <1>3, <1>l, <1>n DEF Queued, PassQueue
<1>6. /\ call' = call /\ blockIdx' = blockIdx /\ aic' = aic /\ aiv' = aiv
      /\ l # 0 /\ Does(queue[V(s)][1]) /\ Shortened(V(s), l)
  BY <1>1, <1>5, PipeStep, NamesDiffer
<1>7. l \in Nat /\ queue[V(s)][1] = Pass(s)
  <2>1. l \in Nat /\ 1 \in 1..l
    BY <1>4, <1>6, <1>l
  <2> QED BY <1>5, <2>1
<1>8. events \in [Events -> Nat] /\ call \in Calls
  BY <1>1 DEF Types, PipeTypes, CallTypes
<1>9. Own(queue[V(s)][1], s)
  BY <1>7, <1>8, VectorEvents
<1>10. /\ events[MTE2_V(s)] > 0 /\ events'[MTE2_V(s)] = events[MTE2_V(s)] - 1
       /\ events'[MTE3_MTE2(s)] = events[MTE3_MTE2(s)]
       /\ events'[V_MTE3(s)] = events[V_MTE3(s)] + 1
       /\ events'[flag(s)] = events[flag(s)] /\ events'[reverse(s)] = events[reverse(s)]
  BY <1>6, <1>7, <1>8, VectorEvents
<1>11. f = 1 /\ v = 0 /\ l = n
  BY <1>3, <1>4, <1>10, <1>l DEF Tokens
<1>12. \A b \in Buffers : memory'[b] = memory[b]
  <2>1. coreLoops(call) \in Nat \ {0} /\ 0 \in Tiles
    BY <1>8, CallFacts DEF Tiles
  <2> QED BY <1>6, <1>7, <1>8, <2>1, VectorMemory
<1>13. \A r \in Pipes : r # V(s) => queue'[r] = queue[r]
  BY <1>6 DEF Shortened
<1>14. FIX # V(s) /\ V(s) # MTE2(s) /\ MTE3(s) # V(s)
  BY DEF FIX, V, MTE2, MTE3
<1>15. /\ \A u \in Tiles : /\ memory'[Gate(u, s)] = memory[Gate(u, s)]
                           /\ memory'[Up(u, s)] = memory[Up(u, s)]
                           /\ memory'[D(u, s)] = memory[D(u, s)]
       /\ \A r \in Subs : r # s => SameMemory(r)
       /\ FixFinds'
  BY <1>6, <1>12, <1>13, <1>14, NamesDiffer, OnlyUB
<1>16. Todo(s, todo, f, 1, a, token)'
  <2>1. Tiles' = Tiles /\ \A t : HasRows(t, s)' = HasRows(t, s)
    BY <1>6, SameCall
  <2> QED BY <1>3, <1>6, <1>11, <2>1 DEF Todo
<1>17. Queued(s, todo, f, 1, a, IF aiv[s].pc = "loop" THEN 0 ELSE token)'
  <2>1. /\ \A t : Load(t, s)' = Load(t, s) /\ StoreOf(t, s)' = StoreOf(t, s)
        /\ MTE2(s)' = MTE2(s) /\ V(s)' = V(s) /\ MTE3(s)' = MTE3(s)
        /\ LastWait(s)' = LastWait(s) /\ Pass(s)' = Pass(s) /\ Answer(s)' = Answer(s)
    BY <1>6, SameCode DEF MTE2, V, MTE3, LastWait, Pass, Answer
  <2>2. LoadQueue(s, todo, f, w)' /\ StoreQueue(s, todo, a)'
    BY <1>3, <1>13, <1>14, <2>1, NamesDiffer DEF Queued, LoadQueue, StoreQueue
  <2> PICK m : m = n - 1
    OBVIOUS
  <2>3. HasLength(queue'[V(s)], m)
    BY <1>6, <1>11 DEF Shortened
  <2>4. ASSUME NEW i \in 1..m PROVE queue'[V(s)][i] = Pass(s)
    <3>1. i \in 1..(l - 1) /\ i + 1 \in 1..l
      BY <1>4, <1>11
    <3> QED BY <1>5, <1>6, <3>1 DEF Shortened
  <2>5. PassQueue(s, n - 1)'
    BY <2>1, <2>3, <2>4 DEF PassQueue
  <2>6. Queued(s, todo, f, 1, a, w)'
    BY <1>n, <2>2, <2>5 DEF Queued
  <2>7. w = (IF aiv'[s].pc = "loop" THEN 0 ELSE token)
    BY <1>6
  <2> QED BY <2>6, <2>7
<1>18. Tokens(s, f, 1, token)'
  <2>1. MTE3_MTE2(s)' = MTE3_MTE2(s) /\ MTE2_V(s)' = MTE2_V(s) /\ V_MTE3(s)' = V_MTE3(s)
    BY DEF MTE3_MTE2, MTE2_V, V_MTE3
  <2>2. /\ events[MTE3_MTE2(s)] = token - f /\ events[MTE2_V(s)] = 1 /\ events[V_MTE3(s)] = 0
    BY <1>3, <1>11 DEF Tokens
  <2> QED BY <1>10, <1>11, <2>1, <2>2 DEF Tokens
<1>19. Credit(s, a)'
  <2>1. PendingFlags' = PendingFlags
    BY <1>6, <1>13, <1>14, NamesDiffer, FixFrame
  <2> QED BY <1>3, <1>6, <1>10, <2>1 DEF Credit, flag, reverse
<1>20. VectorFinds(s, todo, f)'
  <2>1. ubGate(s) \in Buffers /\ ubUp(s) \in Buffers
    BY DEF UB, Buffers
  <2>2. SameMemory(s)
    BY <1>12, <1>15, <2>1 DEF SameMemory
  <2>3. aiv'[s].loopIdx = aiv[s].loopIdx
    BY <1>6
  <2> QED BY <1>3, <1>6, <1>10, <2>2, <2>3, FindsFrame
<1>21. Vector(s, todo, f, 1, a, token)'
  BY <1>16, <1>17, <1>18, <1>19, <1>20 DEF Vector
<1> QED
  <2>1. (\E next, f2, v2, a2, token2 : Vector(s, next, f2, v2, a2, token2))'
    BY <1>21
  <2> QED BY <1>5, <1>9, <1>15, <2>1, VectorPipeInv

(* MTE3 answers, or stores a tile.                                         *)
LEMMA AnswerVector ==
    ASSUME Types, FixQueue, NEW s \in Subs, RunPipe(MTE3(s)),
           NEW todo, NEW f, NEW v, NEW token, Vector(s, todo, f, v, 1, token),
           Does(Answer(s)), SameMemory(s), NEW l, l = Len(todo) + 1, Shortened(MTE3(s), l)
    PROVE  Vector(s, todo, f, v, 0, token)'
<1> PICK w : w = IF aiv[s].pc = "loop" THEN 0 ELSE token
  OBVIOUS
<1>n. PICK n : n = Len(todo)
  OBVIOUS
<1>1. /\ Todo(s, todo, f, v, 1, token) /\ Queued(s, todo, f, v, 1, w)
      /\ Tokens(s, f, v, token) /\ Credit(s, 1) /\ VectorFinds(s, todo, f)
  BY DEF Vector
<1>2. n \in Nat /\ l = n + 1
  BY <1>1, <1>n DEF Todo
<1>3. call' = call /\ blockIdx' = blockIdx /\ aic' = aic /\ aiv' = aiv
  BY DEF RunPipe
<1>4. events \in [Events -> Nat]
  BY DEF Types, PipeTypes
<1>5. /\ events'[MTE3_MTE2(s)] = events[MTE3_MTE2(s)]
      /\ events'[MTE2_V(s)] = events[MTE2_V(s)]
      /\ events'[V_MTE3(s)] = events[V_MTE3(s)]
      /\ events'[flag(s)] = events[flag(s)]
      /\ events'[reverse(s)] = events[reverse(s)] + 1
  BY <1>4, VectorEvents
<1>6. \A r \in Pipes : r # MTE3(s) => queue'[r] = queue[r]
  BY DEF Shortened
<1>7. FIX # MTE3(s) /\ MTE3(s) # MTE2(s) /\ MTE3(s) # V(s)
  BY DEF FIX, V, MTE2, MTE3
<1>8. Todo(s, todo, f, v, 0, token)'
  <2>1. Tiles' = Tiles /\ \A t : HasRows(t, s)' = HasRows(t, s)
    BY <1>3, SameCall
  <2>2. 0 \in 0..(Len(todo) + 1)
    BY <1>2, <1>n
  <2>3. aiv[s].pc = "done" => FALSE
    BY <1>1 DEF Todo
  <2> QED BY <1>1, <1>3, <2>1, <2>2, <2>3 DEF Todo
<1>9. Queued(s, todo, f, v, 0, IF aiv[s].pc = "loop" THEN 0 ELSE token)'
  <2>1. /\ \A t : Load(t, s)' = Load(t, s) /\ StoreOf(t, s)' = StoreOf(t, s)
        /\ MTE2(s)' = MTE2(s) /\ V(s)' = V(s) /\ MTE3(s)' = MTE3(s)
        /\ LastWait(s)' = LastWait(s) /\ Pass(s)' = Pass(s) /\ Answer(s)' = Answer(s)
    BY <1>3, SameCode DEF MTE2, V, MTE3, LastWait, Pass, Answer
  <2>2. LoadQueue(s, todo, f, w)' /\ PassQueue(s, Len(todo) - v)'
    BY <1>1, <1>6, <1>7, <2>1, NamesDiffer DEF Queued, LoadQueue, PassQueue
  <2>3. \A i \in 1..l : queue[MTE3(s)][i] = IF i = 1 THEN Answer(s) ELSE StoreOf(todo[i - 1], s)
    <3>1. ASSUME NEW i \in 1..l
          PROVE  queue[MTE3(s)][i] = IF i = 1 THEN Answer(s) ELSE StoreOf(todo[i - 1], s)
      <4>1. queue[MTE3(s)][i] = IF 1 = 0 \/ i < 1 THEN StoreOf(todo[i], s)
                                ELSE IF i = 1 THEN Answer(s) ELSE StoreOf(todo[i - 1], s)
        BY <1>1 DEF Queued, StoreQueue
      <4>2. ~ (1 = 0 \/ i < 1)
        BY <1>2
      <4> QED BY <4>1, <4>2
    <3> QED BY <3>1
  <2>4. HasLength(queue'[MTE3(s)], n)
    <3>1. l - 1 = n
      BY <1>2
    <3>2. HasLength(queue'[MTE3(s)], l - 1)
      BY DEF Shortened
    <3> QED BY <3>1, <3>2
  <2>5. ASSUME NEW i \in 1..n PROVE queue'[MTE3(s)][i] = StoreOf(todo[i], s)
    <3>1. i \in 1..(l - 1) /\ i + 1 \in 1..l /\ i + 1 # 1 /\ i + 1 - 1 = i
      BY <1>2
    <3>2. queue'[MTE3(s)][i] = queue[MTE3(s)][i + 1]
      BY <3>1 DEF Shortened
    <3> QED BY <2>3, <3>1, <3>2
  <2>6. StoreQueue(s, todo, 0)'
    <3>1. n + (IF 0 = 0 THEN 0 ELSE 1) = n
      BY <1>2
    <3> QED BY <1>n, <2>1, <2>4, <2>5, <3>1 DEF StoreQueue
  <2>7. Queued(s, todo, f, v, 0, w)'
    BY <2>2, <2>6 DEF Queued
  <2>8. w = (IF aiv'[s].pc = "loop" THEN 0 ELSE token)
    BY <1>3
  <2> QED BY <2>7, <2>8
<1>10. Tokens(s, f, v, token)'
  BY <1>1, <1>5 DEF Tokens, MTE3_MTE2, MTE2_V, V_MTE3
<1>11. Credit(s, 0)'
  <2>1. PendingFlags' = PendingFlags
    BY <1>3, <1>6, <1>7, NamesDiffer, FixFrame
  <2>2. /\ (events[flag(s)] + PendingFlags) * call.aiCoreNum = aic.loopIdx - aiv[s].loopIdx
        /\ aic.count = events[flag(s)] + PendingFlags + aiv[s].count + REVERSE_DEPTH
        /\ events[reverse(s)] = 0
    BY <1>1 DEF Credit
  <2>3. events'[reverse(s)] = 1
    BY <1>5, <2>2
  <2>4. flag(s)' = flag(s) /\ reverse(s)' = reverse(s)
    BY DEF flag, reverse
  <2> QED BY <1>3, <1>5, <2>1, <2>2, <2>3, <2>4 DEF Credit
<1>12. VectorFinds(s, todo, f)'
  <2>1. aiv'[s].loopIdx = aiv[s].loopIdx
    BY <1>3
  <2> QED BY <1>1, <1>3, <1>5, <2>1, FindsFrame
<1> QED BY <1>8, <1>9, <1>10, <1>11, <1>12 DEF Vector

(* The queues after a store: one tile less in each.                        *)
LEMMA StoreQueued ==
    ASSUME call' = call, NEW s \in Subs,
           NEW todo, NEW n \in Nat, Len(todo) = n, n # 0, NEW a \in 0..(n + 1), a # 1,
           NEW w, Queued(s, todo, 1, 1, a, w),
           NEW l, l = n + (IF a = 0 THEN 0 ELSE 1), Shortened(MTE3(s), l),
           NEW next, Len(next) = n - 1, \A i \in 1..(n - 1) : next[i] = todo[i + 1],
           NEW b, b = IF a = 0 THEN 0 ELSE a - 1
    PROVE  Queued(s, next, 0, 0, b, w)'
<1>1. /\ \A t : Load(t, s)' = Load(t, s) /\ StoreOf(t, s)' = StoreOf(t, s)
      /\ MTE2(s)' = MTE2(s) /\ V(s)' = V(s) /\ MTE3(s)' = MTE3(s)
      /\ LastWait(s)' = LastWait(s) /\ Pass(s)' = Pass(s) /\ Answer(s)' = Answer(s)
  BY SameCode DEF MTE2, V, MTE3, LastWait, Pass, Answer
<1>2. queue'[MTE2(s)] = queue[MTE2(s)] /\ queue'[V(s)] = queue[V(s)]
  <2>1. MTE2(s) # MTE3(s) /\ V(s) # MTE3(s)
    BY DEF MTE2, V, MTE3
  <2> QED BY <2>1, NamesDiffer DEF Shortened
<1>3. LoadQueue(s, next, 0, w)'
  <2>1. /\ HasLength(queue[MTE2(s)], (n - 1) + w)
        /\ \A i \in 1..((n - 1) + w) :
              queue[MTE2(s)][i] = IF i <= n - 1 THEN Load(todo[i + 1], s) ELSE LastWait(s)
    BY DEF Queued, LoadQueue
  <2>2. Len(next) - 0 = n - 1
    OBVIOUS
  <2>3. ASSUME NEW i \in 1..((n - 1) + w)
        PROVE  queue[MTE2(s)][i] = IF i <= n - 1 THEN Load(next[i + 0], s) ELSE LastWait(s)
    <3>1. i <= n - 1 => i \in 1..(n - 1) /\ i + 0 = i
      OBVIOUS
    <3> QED BY <2>1, <3>1
  <2> QED BY <1>1, <1>2, <2>1, <2>2, <2>3 DEF LoadQueue
<1>4. PassQueue(s, Len(next) - 0)'
  <2>1. Len(next) - 0 = n - 1
    OBVIOUS
  <2>2. PassQueue(s, n - 1)
    BY DEF Queued
  <2> QED BY <1>1, <1>2, <2>1, <2>2 DEF PassQueue
<1>5. StoreQueue(s, next, b)'
  <2>1. \A i \in 1..l :
           queue[MTE3(s)][i] = IF a = 0 \/ i < a THEN StoreOf(todo[i], s)
                               ELSE IF i = a THEN Answer(s) ELSE StoreOf(todo[i - 1], s)
    BY DEF Queued, StoreQueue
  <2>2. /\ HasLength(queue'[MTE3(s)], l - 1)
        /\ \A i \in 1..(l - 1) : queue'[MTE3(s)][i] = queue[MTE3(s)][i + 1]
    BY DEF Shortened
  <2> PICK m : m = (n - 1) + (IF b = 0 THEN 0 ELSE 1)
    OBVIOUS
  <2>3. m = l - 1 /\ l \in Nat /\ (b = 0 <=> a = 0)
    OBVIOUS
  <2>4. ASSUME NEW i \in 1..m
        PROVE  queue'[MTE3(s)][i] = IF b = 0 \/ i < b THEN StoreOf(next[i], s)
                                    ELSE IF i = b THEN Answer(s) ELSE StoreOf(next[i - 1], s)
    <3>1. i \in 1..(l - 1) /\ i + 1 \in 1..l
      BY <2>3
    <3>2. queue'[MTE3(s)][i]
             = IF a = 0 \/ i + 1 < a THEN StoreOf(todo[i + 1], s)
               ELSE IF i + 1 = a THEN Answer(s) ELSE StoreOf(todo[i + 1 - 1], s)
      BY <2>1, <2>2, <3>1
    <3>3. CASE b = 0 \/ i < b
      <4>1. a = 0 \/ i + 1 < a
        BY <2>3, <3>1, <3>3
      <4>2. i \in 1..(n - 1)
        BY <2>3, <3>1, <3>3
      <4> QED BY <3>2, <3>3, <4>1, <4>2
    <3>4. CASE b # 0 /\ i = b
      <4>1. a # 0 /\ i + 1 = a
        BY <3>4
      <4> QED BY <3>2, <3>4, <4>1
    <3>5. CASE b # 0 /\ i > b
      <4>1. a # 0 /\ i + 1 > a /\ i \in Nat
        BY <3>1, <3>5
      <4>2. i - 1 \in 1..(n - 1) /\ i - 1 + 1 = i /\ i + 1 - 1 = i
        BY <2>3, <3>1, <3>5, <4>1
      <4>3. next[i - 1] = todo[i]
        BY <4>2
      <4> QED BY <3>2, <3>5, <4>1, <4>2, <4>3
    <3>6. b \in Nat
      BY <2>3
    <3> QED BY <3>3, <3>4, <3>5, <3>6
  <2> QED BY <1>1, <2>2, <2>3, <2>4 DEF StoreQueue
<1> QED BY <1>3, <1>4, <1>5 DEF Queued

(* A store leaves the other windows, and so FIX and the other core, alone. *)
LEMMA StoreElsewhere ==
    ASSUME Inv, NEW s \in Subs, call' = call, aic' = aic, queue'[FIX] = queue[FIX],
           NEW a, Credit(s, a), NEW t \in Tiles, t < aiv[s].loopIdx, Does(StoreOf(t, s))
    PROVE  /\ \A u \in Tiles : u # t => /\ memory'[Gate(u, s)] = memory[Gate(u, s)]
                                        /\ memory'[Up(u, s)] = memory[Up(u, s)]
                                        /\ memory'[D(u, s)] = memory[D(u, s)]
           /\ memory'[ubGate(s)] = memory[ubGate(s)] /\ memory'[ubUp(s)] = memory[ubUp(s)]
           /\ StoresD => memory'[D(t, s)] = InD(t, s)
           /\ \A r \in Subs : r # s => SameMemory(r)
           /\ FixFinds'
<1>1. call \in Calls /\ FixFinds /\ Types /\ FixQueue
  BY DEF Inv, Types, CallTypes
<1>2. /\ StoresD => memory'[D(t, s)] = InD(t, s)
      /\ \A b \in Buffers : b # D(t, s) => memory'[b] = memory[b]
  BY <1>1, VectorMemory
<1>3. ASSUME NEW u \in Tiles, NEW r \in Subs, u # t \/ r # s
      PROVE  /\ memory'[Gate(u, r)] = memory[Gate(u, r)] /\ memory'[Up(u, r)] = memory[Up(u, r)]
             /\ memory'[D(u, r)] = memory[D(u, r)]
  <2>1. Gate(u, r) \in Buffers /\ Up(u, r) \in Buffers /\ D(u, r) \in Buffers
    BY <1>1, WindowsAreBuffers
  <2>2. Gate(u, r) # D(t, s) /\ Up(u, r) # D(t, s) /\ D(u, r) # D(t, s)
    <3>1. Gate(u, r) = D(t, s) => u = t /\ r = s
      BY <1>1, WindowsDiffer
    <3>2. D(u, r) = D(t, s) => u = t /\ r = s
      BY <1>1, WindowsDiffer
    <3>3. D(t, s) # Up(u, r)
      BY <1>1, WindowsDiffer
    <3> QED BY <1>3, <3>1, <3>2, <3>3
  <2> QED BY <1>2, <2>1, <2>2
<1>4. ASSUME NEW r \in Subs
      PROVE  memory'[ubGate(r)] = memory[ubGate(r)] /\ memory'[ubUp(r)] = memory[ubUp(r)]
  <2>1. /\ ubGate(r) \in Buffers /\ ubUp(r) \in Buffers /\ ubGate(r) \in UB /\ ubUp(r) \in UB
        /\ D(t, s) \notin UB
    BY <1>1, WindowsAreBuffers
  <2> QED BY <1>2, <2>1
<1>5. \A r \in Subs : r # s => SameMemory(r)
  BY <1>3, <1>4 DEF SameMemory
<1>6. FixFinds'
  <2>1. /\ \A x : ActiveSubs(x)' = ActiveSubs(x) /\ ActiveSubs(x) \subseteq Subs
        /\ K' = K /\ FIX' = FIX /\ Tiles' = Tiles
        /\ \A x, r : /\ Gate(x, r)' = Gate(x, r) /\ Up(x, r)' = Up(x, r)
                     /\ InC("gate", x, r)' = InC("gate", x, r)
                     /\ InC("up", x, r)' = InC("up", x, r)
    BY SameCall DEF ActiveSubs, FIX
  <2>2. \A n, i : FixTile(n, i)' = FixTile(n, i)
    BY <2>1 DEF FixTile
  <2>3. ASSUME NEW x \in Tiles, NEW r \in Subs, x # t \/ r # s
        PROVE  GateStored(x, r)' = GateStored(x, r) /\ UpStored(x, r)' = UpStored(x, r)
    <3>1. memory'[Gate(x, r)] = memory[Gate(x, r)] /\ memory'[Up(x, r)] = memory[Up(x, r)]
      BY <1>3, <2>3
    <3> QED BY <2>1, <3>1 DEF GateStored, UpStored
  <2>4. CASE call.mode = EPILOGUE_ONLY
    <3>1. ASSUME NEW x \in Tiles, NEW r \in ActiveSubs(x) PROVE Stored(x, r)'
      <4>1. r \in Subs /\ Stored(x, r)
        BY <1>1, <2>1, <2>4 DEF FixFinds
      <4>2. CASE x # t \/ r # s
        BY <2>3, <4>1, <4>2 DEF Stored
      <4>3. CASE x = t /\ r = s
        <5>1. Up(t, s) # D(t, s) /\ Up(t, s) \in Buffers /\ Gate(t, s) \in Buffers
          <6>1. D(t, s) # Up(t, s)
            BY <1>1, WindowsDiffer
          <6> QED BY <1>1, <6>1, WindowsAreBuffers
        <5>2. UpStored(t, s)'
          BY <1>2, <2>1, <4>1, <4>3, <5>1 DEF Stored, UpStored
        <5>3. InD(t, s) = Given /\ InC("gate", t, s) = Given
          BY <2>4 DEF InD, InC, ReadsGate
        <5>4. CASE Gate(t, s) = D(t, s)
          <6>1. StoresD
            BY <2>4 DEF StoresD, EPILOGUE_ONLY, FLOOR_READ_ONLY
          <6>2. memory'[Gate(t, s)] = InC("gate", t, s)
            BY <1>2, <5>3, <5>4, <6>1
          <6> QED BY <2>1, <4>3, <5>2, <6>2 DEF Stored, GateStored
        <5>5. CASE Gate(t, s) # D(t, s)
          <6>1. memory'[Gate(t, s)] = InC("gate", t, s)
            BY <1>2, <4>1, <4>3, <5>1, <5>5 DEF Stored, GateStored
          <6> QED BY <2>1, <4>3, <5>2, <6>1 DEF Stored, GateStored
        <5> QED BY <5>4, <5>5
      <4> QED BY <4>2, <4>3
    <3> QED BY <2>1, <2>4, <3>1 DEF FixFinds
  <2>5. CASE call.mode # EPILOGUE_ONLY
    <3>1. ASSUME Len(queue[FIX]) # 0 PROVE FixTile(Len(queue[FIX]), 1) # t
      <4>1. IsAhead(s, FixTile(Len(queue[FIX]), 1))
        BY <1>1, <3>1, AheadFacts
      <4>2. t \in Int /\ aiv[s].loopIdx \in Int
        BY <1>1, TypeFacts DEF Tiles
      <4>3. \A y : IsAhead(s, y) => y # t
        BY <4>2 DEF IsAhead
      <4> QED BY <4>1, <4>3
    <3> PICK n : n = Len(queue[FIX])
      OBVIOUS
    <3>2. ASSUME NEW x \in Tiles, n # 0, x = FixTile(n, 1), NEW r \in ActiveSubs(x)
          PROVE  /\ (n - 1) % K # 2 => GateStored(x, r)'
                 /\ (n - 1) % K = 0 => UpStored(x, r)'
      <4>1. x # t /\ r \in Subs
        BY <2>1, <3>1, <3>2
      <4>2. GateStored(x, r)' = GateStored(x, r) /\ UpStored(x, r)' = UpStored(x, r)
        BY <2>3, <4>1
      <4> QED BY <1>1, <2>5, <3>2, <4>2 DEF FixFinds
    <3> QED BY <2>1, <2>2, <2>5, <3>2 DEF FixFinds
  <2> QED BY <2>4, <2>5
<1> QED BY <1>2, <1>3, <1>4, <1>5, <1>6

(* The first tile is stored, and the other tiles move up.                  *)
LEMMA StoreVector ==
    ASSUME Inv, NEW s \in Subs, RunPipe(MTE3(s)),
           NEW todo, NEW a, NEW token, Vector(s, todo, 1, 1, a, token), a # 1,
           NEW n, n = Len(todo), n # 0, NEW t, t = todo[1], Does(StoreOf(t, s)),
           NEW l, l = n + (IF a = 0 THEN 0 ELSE 1), Shortened(MTE3(s), l)
    PROVE  \E next, b : Vector(s, next, 0, 0, b, token)'
<1> PICK w : w = IF aiv[s].pc = "loop" THEN 0 ELSE token
  OBVIOUS
<1>1. Types /\ FixQueue
  BY DEF Inv
<1>2. /\ Todo(s, todo, 1, 1, a, token) /\ Queued(s, todo, 1, 1, a, w)
      /\ Tokens(s, 1, 1, token) /\ Credit(s, a) /\ VectorFinds(s, todo, 1)
  BY DEF Vector
<1>3. /\ todo \in Seq(Tiles) /\ n \in Nat /\ a \in 0..(n + 1) /\ token = 1
      /\ \A i \in 1..n : todo[i] \in Tiles /\ todo[i] < aiv[s].loopIdx /\ HasRows(todo[i], s)
      /\ \A i, j \in 1..n : i < j => todo[i] < todo[j]
  <2>1. token # 0
    <3>1. token = 0 => todo = <<>>
      BY <1>2 DEF Todo
    <3>2. Len(<<>>) = 0
      OBVIOUS
    <3> QED BY <3>1, <3>2
  <2> QED BY <1>2, <2>1 DEF Todo
<1>4. t \in Tiles /\ t < aiv[s].loopIdx /\ HasRows(t, s)
  BY <1>3
<1>5. call' = call /\ blockIdx' = blockIdx /\ aic' = aic /\ aiv' = aiv
  BY DEF RunPipe
<1>6. \A r \in Pipes : r # MTE3(s) => queue'[r] = queue[r]
  BY DEF Shortened
<1>7. queue'[FIX] = queue[FIX]
  <2>1. FIX # MTE3(s)
    BY DEF FIX, MTE3
  <2> QED BY <1>6, <2>1, NamesDiffer
<1>8. /\ \A u \in Tiles : u # t => /\ memory'[Gate(u, s)] = memory[Gate(u, s)]
                                   /\ memory'[Up(u, s)] = memory[Up(u, s)]
                                   /\ memory'[D(u, s)] = memory[D(u, s)]
      /\ memory'[ubGate(s)] = memory[ubGate(s)] /\ memory'[ubUp(s)] = memory[ubUp(s)]
      /\ StoresD => memory'[D(t, s)] = InD(t, s)
  BY <1>2, <1>4, <1>5, <1>7, StoreElsewhere
<1>9. /\ events'[MTE3_MTE2(s)] = events[MTE3_MTE2(s)] + 1
      /\ events'[MTE2_V(s)] = events[MTE2_V(s)]
      /\ events'[V_MTE3(s)] = events[V_MTE3(s)] - 1
      /\ events'[flag(s)] = events[flag(s)] /\ events'[reverse(s)] = events[reverse(s)]
  BY <1>1, VectorEvents DEF Types, PipeTypes
<1>10. PICK next \in Seq(Tiles) : /\ Len(next) = n - 1
                                  /\ \A i \in 1..(n - 1) : next[i] = todo[i + 1]
  <2> DEFINE r == Tail(todo)
  <2>1. r \in Seq(Tiles) /\ Len(r) = n - 1 /\ \A i \in 1..(n - 1) : r[i] = todo[i + 1]
    <3>1. todo # <<>>
      <4>1. Len(<<>>) = 0
        OBVIOUS
      <4> QED BY <4>1
    <3>2. r \in Seq(Tiles) /\ Len(r) = n - 1
      BY <1>3, <3>1
    <3>3. \A i \in 1..(n - 1) : r[i] = todo[i + 1]
      BY <1>3, <3>1
    <3> QED BY <3>2, <3>3
  <2> HIDE DEF r
  <2> QED BY <2>1
<1>11. PICK b : b = IF a = 0 THEN 0 ELSE a - 1
  OBVIOUS
<1>12. \A i \in 1..(n - 1) : next[i] # t
  <2>1. ASSUME NEW i \in 1..(n - 1) PROVE next[i] # t
    <3>1. 1 \in 1..n /\ i + 1 \in 1..n /\ 1 < i + 1
      BY <1>3
    <3>2. todo[1] < todo[i + 1] /\ todo[1] \in Int /\ todo[i + 1] \in Int
      BY <1>3, <3>1 DEF Tiles
    <3> QED BY <1>10, <3>2
  <2> QED BY <2>1
<1>13. /\ Tiles' = Tiles /\ ReadsGate' = ReadsGate /\ ReadsUp' = ReadsUp /\ StoresD' = StoresD
       /\ \A x : /\ HasRows(x, s)' = HasRows(x, s)
                 /\ Gate(x, s)' = Gate(x, s) /\ Up(x, s)' = Up(x, s) /\ D(x, s)' = D(x, s)
                 /\ InC("gate", x, s)' = InC("gate", x, s)
                 /\ InC("up", x, s)' = InC("up", x, s)
                 /\ InD(x, s)' = InD(x, s)
  BY <1>5, SameCall
<1>14. Todo(s, next, 0, 0, b, token)'
  <2>1. ASSUME NEW i \in 1..Len(next)
        PROVE  next[i] < aiv[s].loopIdx /\ HasRows(next[i], s)
    <3>1. i \in 1..(n - 1) /\ i + 1 \in 1..n
      BY <1>3, <1>10
    <3> QED BY <1>3, <1>10, <3>1
  <2>2. ASSUME NEW i \in 1..Len(next), NEW j \in 1..Len(next), i < j PROVE next[i] < next[j]
    <3>1. i \in 1..(n - 1) /\ i + 1 \in 1..n /\ j \in 1..(n - 1) /\ j + 1 \in 1..n /\ i + 1 < j + 1
      BY <1>3, <1>10, <2>2
    <3> QED BY <1>3, <1>10, <3>1
  <2>3. b \in 0..(Len(next) + 1)
    BY <1>3, <1>10, <1>11
  <2>4. aiv[s].pc # "done" /\ call.mode # GEMM_ONLY
    BY <1>2, <1>3 DEF Todo
  <2>5. 0 <= Len(next) /\ 0 \in 0..1 /\ 0 \in 0..0 /\ token \in 0..1 /\ token # 0
    BY <1>3, <1>10
  <2>6. \A i \in 1..Len(next) : next[i] < aiv'[s].loopIdx /\ HasRows(next[i], s)'
    BY <1>5, <1>13, <2>1
  <2>7. aiv'[s].pc # "done" /\ call'.mode # GEMM_ONLY' /\ Tiles' = Tiles
    BY <1>5, <1>13, <2>4 DEF GEMM_ONLY
  <2> QED BY <1>3, <1>10, <2>2, <2>3, <2>5, <2>6, <2>7 DEF Todo
<1>15. Queued(s, next, 0, 0, b, IF aiv[s].pc = "loop" THEN 0 ELSE token)'
  <2>1. Queued(s, next, 0, 0, b, w)'
    BY <1>2, <1>3, <1>5, <1>10, <1>11, StoreQueued
  <2>2. w = (IF aiv'[s].pc = "loop" THEN 0 ELSE token)
    BY <1>5
  <2> QED BY <2>1, <2>2
<1>16. Tokens(s, 0, 0, token)'
  <2>1. MTE3_MTE2(s)' = MTE3_MTE2(s) /\ MTE2_V(s)' = MTE2_V(s) /\ V_MTE3(s)' = V_MTE3(s)
    BY DEF MTE3_MTE2, MTE2_V, V_MTE3
  <2>2. events[MTE3_MTE2(s)] = 0 /\ events[MTE2_V(s)] = 0 /\ events[V_MTE3(s)] = 1
    BY <1>2, <1>3 DEF Tokens
  <2> QED BY <1>3, <1>9, <2>1, <2>2 DEF Tokens
<1>17. Credit(s, b)'
  <2>1. PendingFlags' = PendingFlags
    BY <1>5, <1>7, FixFrame
  <2>2. b # 0 <=> a # 0
    BY <1>3, <1>11
  <2> QED BY <1>2, <1>5, <1>9, <2>1, <2>2 DEF Credit, flag, reverse
<1>18. VectorFinds(s, next, 0)'
  <2>1. /\ ubGate(s)' = ubGate(s) /\ ubUp(s)' = ubUp(s) /\ flag(s)' = flag(s)
        /\ \A j : Ahead(s, j)' = Ahead(s, j)
    BY <1>5 DEF ubGate, ubUp, flag, Ahead
  <2>2. UBFinds(s, next, 0)'
    BY <1>2, <1>8, <1>13, <2>1 DEF UBFinds, VectorFinds
  <2>3. \A u \in Tiles : u # t /\ Stored(u, s) => Stored(u, s)'
    BY <1>8, <1>13 DEF Stored, GateStored, UpStored
  <2>4. LoadsFind(s, next, 0)'
    <3>1. ASSUME NEW i \in (0 + 1)..Len(next) PROVE Stored(next[i], s)'
      <4>1. i \in 1..(n - 1) /\ i + 1 \in (1 + 1)..n /\ i + 1 \in 1..n
        BY <1>3, <1>10
      <4>2. Stored(todo[i + 1], s)
        BY <1>2, <4>1 DEF VectorFinds, LoadsFind
      <4>3. next[i] = todo[i + 1] /\ next[i] # t /\ next[i] \in Tiles
        BY <1>3, <1>10, <1>12, <4>1
      <4> QED BY <2>3, <4>2, <4>3
    <3> QED BY <3>1 DEF LoadsFind
  <2>5. FlagsFind(s)'
    <3>1. ASSUME NEW j \in 0..(events[flag(s)] - 1), NEW u \in Tiles, u = Ahead(s, j), HasRows(u, s)
          PROVE  Stored(u, s)'
      <4>1. IsAhead(s, Ahead(s, j))
        BY <1>1, <1>2, AheadFacts
      <4>2. aiv[s].loopIdx \in Int /\ t \in Int /\ u \in Int
        BY <1>1, <1>4, TypeFacts DEF Tiles
      <4>3. u # t
        BY <1>4, <3>1, <4>1, <4>2 DEF IsAhead
      <4>4. Stored(u, s)
        BY <1>2, <3>1 DEF VectorFinds, FlagsFind
      <4> QED BY <2>3, <4>3, <4>4
    <3> QED BY <1>9, <1>13, <2>1, <3>1 DEF FlagsFind
  <2>6. DFinds(s, next)'
    <3>1. ASSUME call.mode # GEMM_ONLY, StoresD, NEW u \in Tiles, StoredBy(s, next, u)'
          PROVE  memory'[D(u, s)] = InD(u, s)
      <4>1. CASE u = t
        BY <1>8, <3>1, <4>1
      <4>2. CASE u # t
        <5>1. /\ u % call.aiCoreNum = blockIdx /\ u < aiv[s].loopIdx /\ HasRows(u, s)
              /\ \A i \in 1..Len(next) : next[i] # u
          BY <1>5, <1>13, <3>1 DEF StoredBy
        <5>2. ASSUME NEW i \in 1..Len(todo) PROVE todo[i] # u
          <6>1. CASE i = 1
            BY <4>2, <6>1
          <6>2. CASE i # 1
            <7>1. i - 1 \in 1..(n - 1) /\ i - 1 \in 1..Len(next) /\ (i - 1) + 1 = i
              BY <1>3, <1>10, <6>2
            <7> QED BY <1>10, <5>1, <7>1
          <6> QED BY <6>1, <6>2
        <5>3. StoredBy(s, todo, u)
          BY <5>1, <5>2 DEF StoredBy
        <5> QED BY <1>2, <1>8, <3>1, <4>2, <5>3 DEF VectorFinds, DFinds
      <4> QED BY <4>1, <4>2
    <3>2. call'.mode = call.mode /\ GEMM_ONLY' = GEMM_ONLY
      BY <1>5 DEF GEMM_ONLY
    <3> QED BY <1>13, <3>1, <3>2 DEF DFinds
  <2> QED BY <2>2, <2>4, <2>5, <2>6 DEF VectorFinds
<1> QED BY <1>14, <1>15, <1>16, <1>17, <1>18 DEF Vector

(* The next instruction of MTE3 is the answer only if a = 1.               *)
LEMMA StorePipeInv ==
    ASSUME Inv, NEW s \in Subs, RunPipe(MTE3(s))
    PROVE  Inv'
<1>1. Types /\ FixQueue
  BY DEF Inv
<1>2. PICK todo, f, v, a, token : Vector(s, todo, f, v, a, token)
  BY DEF Inv
<1>n. PICK n : n = Len(todo)
  OBVIOUS
<1>3. /\ Todo(s, todo, f, v, a, token) /\ StoreQueue(s, todo, a)
      /\ Tokens(s, f, v, token) /\ Credit(s, a)
  BY <1>2 DEF Vector, Queued
<1>4. /\ n \in Nat /\ f \in 0..1 /\ v \in 0..f /\ a \in 0..(n + 1)
      /\ \A i \in 1..n : todo[i] \in Tiles /\ todo[i] < aiv[s].loopIdx
  BY <1>3, <1>n DEF Todo
<1>l. PICK l : l = n + (IF a = 0 THEN 0 ELSE 1)
  OBVIOUS
<1>5. /\ HasLength(queue[MTE3(s)], l)
      /\ \A i \in 1..l :
            queue[MTE3(s)][i] = IF a = 0 \/ i < a THEN StoreOf(todo[i], s)
                                ELSE IF i = a THEN Answer(s) ELSE StoreOf(todo[i - 1], s)
  BY <1>3, <1>l, <1>n DEF StoreQueue
<1>6. /\ call' = call /\ blockIdx' = blockIdx /\ aic' = aic /\ aiv' = aiv
      /\ l # 0 /\ Does(queue[MTE3(s)][1]) /\ Shortened(MTE3(s), l)
  BY <1>1, <1>5, PipeStep, NamesDiffer
<1>7. events \in [Events -> Nat] /\ call \in Calls
  BY <1>1 DEF Types, PipeTypes, CallTypes
<1>8. queue[MTE3(s)][1] = IF a = 1 THEN Answer(s) ELSE StoreOf(todo[1], s)
  <2>1. 1 \in 1..l
    BY <1>4, <1>6, <1>l
  <2>2. queue[MTE3(s)][1] = IF a = 0 \/ 1 < a THEN StoreOf(todo[1], s)
                            ELSE IF 1 = a THEN Answer(s) ELSE StoreOf(todo[1 - 1], s)
    BY <1>5, <2>1
  <2>3. a = 0 \/ 1 < a <=> a # 1
    BY <1>4
  <2> QED BY <2>2, <2>3
<1>9. Own(queue[MTE3(s)][1], s)
  BY <1>7, <1>8, VectorEvents
<1>10. queue'[FIX] = queue[FIX]
  <2>1. FIX # MTE3(s)
    BY DEF FIX, MTE3
  <2> QED BY <1>6, <2>1, NamesDiffer DEF Shortened
<1>11. CASE a = 1
  <2>1. Does(Answer(s))
    BY <1>6, <1>8, <1>11
  <2>2. \A b \in Buffers : memory'[b] = memory[b]
    <3>1. 0 \in Tiles
      BY <1>7, CallFacts DEF Tiles
    <3> QED BY <1>7, <2>1, <3>1, VectorMemory
  <2>3. /\ \A u \in Tiles : /\ memory'[Gate(u, s)] = memory[Gate(u, s)]
                            /\ memory'[Up(u, s)] = memory[Up(u, s)]
                            /\ memory'[D(u, s)] = memory[D(u, s)]
        /\ \A r \in Subs : r # s => SameMemory(r)
        /\ FixFinds'
    BY <1>6, <1>10, <2>2, OnlyUB
  <2>4. SameMemory(s)
    <3>1. ubGate(s) \in Buffers /\ ubUp(s) \in Buffers
      BY DEF UB, Buffers
    <3> QED BY <2>2, <2>3, <3>1 DEF SameMemory
  <2>5. Vector(s, todo, f, v, 0, token)'
    <3>1. l = Len(todo) + 1 /\ Vector(s, todo, f, v, 1, token)
      BY <1>2, <1>n, <1>l, <1>11
    <3> QED BY <1>1, <1>6, <2>1, <2>4, <3>1, AnswerVector
  <2>6. (\E next, f2, v2, a2, token2 : Vector(s, next, f2, v2, a2, token2))'
    BY <2>5
  <2> QED BY <1>5, <1>9, <2>3, <2>6, VectorPipeInv
<1>12. CASE a # 1
  <2>1. PICK t : t = todo[1]
    OBVIOUS
  <2>2. Does(StoreOf(t, s))
    BY <1>6, <1>8, <1>12, <2>1
  <2>3. n # 0
    BY <1>4, <1>6, <1>l, <1>12
  <2>4. t \in Tiles /\ t < aiv[s].loopIdx
    <3>1. 1 \in 1..n
      BY <1>4, <2>3
    <3> QED BY <1>4, <2>1, <3>1
  <2>5. f = 1 /\ v = 1
    <3>1. events[V_MTE3(s)] > 0
      BY <1>7, <2>2, VectorEvents
    <3> QED BY <1>3, <1>4, <3>1 DEF Tokens
  <2>6. (\A r \in Subs : r # s => SameMemory(r)) /\ FixFinds'
    BY <1>3, <1>6, <1>10, <2>2, <2>4, StoreElsewhere
  <2>7. \E next, b : Vector(s, next, 0, 0, b, token)'
    <3>1. Vector(s, todo, 1, 1, a, token)
      BY <1>2, <2>5
    <3> QED BY <1>6, <1>n, <1>l, <1>12, <2>1, <2>2, <2>3, <3>1, StoreVector
  <2>8. (\E next, f2, v2, a2, token2 : Vector(s, next, f2, v2, a2, token2))'
    BY <2>7
  <2> QED BY <1>5, <1>9, <2>6, <2>8, VectorPipeInv
<1> QED BY <1>11, <1>12

-----------------------------------------------------------------------------
(* The invariant.                                                          *)

(* All queues are empty, and no core has begun.                            *)
LEMMA InitInv == Init => Inv
<1> SUFFICES ASSUME Init PROVE Inv
  OBVIOUS
<1>1. /\ call \in Calls /\ blockIdx \in 0..(call.aiCoreNum - 1)
      /\ aic = Start /\ aiv = [s \in Subs |-> Start]
      /\ queue = [p \in Pipes |-> <<>>]
      /\ memory = [b \in Buffers |-> Given]
      /\ events = [e \in Events |-> IF e[1] = "MTE3_MTE2" /\ call.mode # GEMM_ONLY
                                    THEN 1 ELSE 0]
  BY DEF Init
<1>2. /\ call.aiCoreNum \in Nat \ {0} /\ coreLoops(call) \in Nat \ {0}
      /\ REVERSE_DEPTH \in Nat \ {0} /\ blockIdx \in Nat /\ blockIdx < call.aiCoreNum
  BY <1>1, CallFacts
<1>3. \A t \in 0..(call.aiCoreNum - 1) : t % call.aiCoreNum = t
  BY <1>2
<1>4. /\ aic.pc = "loop" /\ aic.loopIdx = blockIdx /\ aic.count = 0
      /\ \A s \in Subs : aiv[s].pc = "loop" /\ aiv[s].loopIdx = blockIdx /\ aiv[s].count = 0
  BY <1>1 DEF Start
<1>5. Types
  <2>1. \A core : core.loopIdx = blockIdx => LoopInRange(core)
    <3>1. blockIdx % call.aiCoreNum = blockIdx
      BY <1>1, <1>3
    <3>2. blockIdx < coreLoops(call) + call.aiCoreNum
      BY <1>2
    <3> QED BY <1>2, <3>1, <3>2 DEF LoopInRange
  <2>2. CubeTypes
    BY <1>1, <1>2, <1>4, <2>1 DEF CubeTypes, Start
  <2>3. aiv = [s \in Subs |-> aiv[s]] /\ \A s \in Subs : CoreTypes(s)
    BY <1>1, <1>2, <1>4, <2>1 DEF CoreTypes, Start
  <2>4. PipeTypes
    BY <1>1 DEF PipeTypes
  <2> QED BY <1>1, <2>2, <2>3, <2>4 DEF Types, CallTypes
<1>6. \A p \in Pipes : queue[p] = <<>> /\ HasLength(queue[p], 0) /\ Len(queue[p]) = 0
  BY <1>1, ShortSequences
<1>7. FixQueue /\ FixFinds /\ PendingFlags = 0
  <2>1. Len(queue[FIX]) = 0 /\ HasLength(queue[FIX], 0)
    BY <1>6, NamesDiffer
  <2>2. FixQueue
    BY <2>1 DEF FixQueue
  <2>3. PendingFlags = 0
    <3>1. CASE K = 1
      BY <2>1, <3>1 DEF PendingFlags
    <3>2. CASE K = 3
      BY <2>1, <3>2 DEF PendingFlags
    <3> QED BY <3>1, <3>2 DEF K
  <2>4. ASSUME call.mode = EPILOGUE_ONLY, NEW t \in Tiles, NEW s \in ActiveSubs(t)
        PROVE  Stored(t, s)
    <3>1. s \in Subs
      BY DEF ActiveSubs
    <3>2. memory[Gate(t, s)] = Given /\ memory[Up(t, s)] = Given
      BY <1>1, <3>1, WindowsAreBuffers
    <3> QED BY <2>4, <3>2 DEF Stored, GateStored, UpStored, InC
  <2>5. FixFinds
    BY <2>1, <2>4 DEF FixFinds
  <2> QED BY <2>2, <2>3, <2>5
<1>8. ASSUME NEW s \in Subs PROVE \E todo, f, v, a, token : Vector(s, todo, f, v, a, token)
  <2>t. PICK token : token = IF call.mode = GEMM_ONLY THEN 0 ELSE 1
    OBVIOUS
  <2>e. PICK todo : todo = <<>> /\ todo \in Seq(Tiles) /\ Len(todo) = 0
    <3>1. <<>> \in Seq(Tiles) /\ Len(<<>>) = 0
      OBVIOUS
    <3> QED BY <3>1
  <2>1. Todo(s, todo, 0, 0, 0, token)
    BY <1>4, <2>t, <2>e DEF Todo
  <2>2. Queued(s, todo, 0, 0, 0, 0)
    <3>1. /\ HasLength(queue[MTE2(s)], 0) /\ HasLength(queue[V(s)], 0)
          /\ HasLength(queue[MTE3(s)], 0)
      BY <1>6, NamesDiffer
    <3>2. LoadQueue(s, todo, 0, 0)
      BY <2>e, <3>1 DEF LoadQueue
    <3>3. PassQueue(s, Len(todo) - 0)
      BY <2>e, <3>1 DEF PassQueue
    <3>4. StoreQueue(s, todo, 0)
      BY <2>e, <3>1 DEF StoreQueue
    <3> QED BY <3>2, <3>3, <3>4 DEF Queued
  <2>3. /\ events[MTE3_MTE2(s)] = token /\ events[MTE2_V(s)] = 0 /\ events[V_MTE3(s)] = 0
        /\ events[flag(s)] = 0 /\ events[reverse(s)] = 0
    <3>1. /\ MTE3_MTE2(s)[1] = "MTE3_MTE2" /\ MTE2_V(s)[1] # "MTE3_MTE2"
          /\ V_MTE3(s)[1] # "MTE3_MTE2" /\ flag(s)[1] # "MTE3_MTE2"
          /\ reverse(s)[1] # "MTE3_MTE2"
      BY DEF MTE3_MTE2, MTE2_V, V_MTE3, flag, reverse
    <3> QED BY <1>1, <2>t, <3>1, NamesDiffer
  <2>4. Tokens(s, 0, 0, token)
    BY <2>t, <2>3 DEF Tokens
  <2>5. Credit(s, 0)
    BY <1>2, <1>4, <1>7, <2>3 DEF Credit
  <2>6. VectorFinds(s, todo, 0)
    <3>1. UBFinds(s, todo, 0)
      <4>1. ubGate(s) \in Buffers
        BY DEF UB, Buffers
      <4> QED BY <1>1, <4>1 DEF UBFinds
    <3>2. LoadsFind(s, todo, 0)
      BY <2>e DEF LoadsFind
    <3>3. FlagsFind(s)
      BY <2>3 DEF FlagsFind
    <3>4. DFinds(s, todo)
      <4>1. \A t \in Tiles : ~ StoredBy(s, todo, t)
        <5>1. ASSUME NEW t \in Tiles, t % call.aiCoreNum = blockIdx, t < blockIdx PROVE FALSE
          <6>1. t \in 0..(call.aiCoreNum - 1)
            BY <1>2, <5>1 DEF Tiles
          <6>2. t % call.aiCoreNum = t
            BY <1>3, <6>1
          <6> QED BY <1>2, <5>1, <6>1, <6>2
        <5> QED BY <1>4, <5>1 DEF StoredBy
      <4> QED BY <4>1 DEF DFinds
    <3> QED BY <3>1, <3>2, <3>3, <3>4 DEF VectorFinds
  <2>7. Vector(s, todo, 0, 0, 0, token)
    BY <1>4, <2>1, <2>2, <2>4, <2>5, <2>6 DEF Vector
  <2> QED BY <2>7
<1> QED BY <1>5, <1>7, <1>8 DEF Inv

(* Every step keeps the invariant.                                         *)
LEMMA NextInv == Inv /\ [Next]_vars => Inv'
<1> SUFFICES ASSUME Inv, [Next]_vars PROVE Inv'
  OBVIOUS
<1>1. CASE AicStep
  BY <1>1, AicTileInv, AicCreditInv, AicReturnInv DEF AicStep
<1>2. ASSUME NEW s \in Subs, AivStep(s) PROVE Inv'
  BY <1>2, AivTileInv, AivEndInv DEF AivStep
<1>3. ASSUME NEW p \in Pipes, RunPipe(p) PROVE Inv'
  <2>1. CASE p = FIX
    BY <1>3, <2>1, FixPipeInv
  <2>2. ASSUME NEW s \in Subs, p \in {MTE2(s), V(s), MTE3(s)} PROVE Inv'
    BY <1>3, <2>2, LoadPipeInv, PassPipeInv, StorePipeInv
  <2>3. p = FIX \/ \E s \in Subs : p \in {MTE2(s), V(s), MTE3(s)}
    BY DEF Pipes
  <2> QED BY <2>1, <2>2, <2>3
<1>4. CASE UNCHANGED vars
  <2>1. /\ call' = call /\ blockIdx' = blockIdx /\ aic' = aic /\ aiv' = aiv
        /\ queue' = queue /\ events' = events /\ memory' = memory
    BY <1>4 DEF vars
  <2>2. Types /\ FixQueue /\ FixFinds
    BY DEF Inv
  <2>3. FixQueue' /\ FixFinds' /\ PendingFlags' = PendingFlags
    BY <2>1, <2>2, FixFrame
  <2>4. Types'
    <3>1. CallTypes' /\ CubeTypes' /\ \A s \in Subs : CoreTypes(s)'
      BY <2>1, <2>2, TypesFrame
    <3>2. PipeTypes'
      BY <2>1, <2>2 DEF Types, PipeTypes
    <3> QED BY <2>1, <2>2, <3>1, <3>2 DEF Types
  <2>5. ASSUME NEW s \in Subs PROVE (\E todo, f, v, a, token : Vector(s, todo, f, v, a, token))'
    <3>1. PICK todo, f, v, a, token : Vector(s, todo, f, v, a, token)
      BY DEF Inv
    <3>2. SameCore(s) /\ SameCredit(s) /\ SameMemory(s)
      BY <2>1, <2>3 DEF SameCore, SameCredit, SameMemory
    <3>3. Vector(s, todo, f, v, a, token)'
      BY <2>1, <3>1, <3>2, VectorFrame
    <3> QED BY <3>3
  <2> QED BY <2>3, <2>4, <2>5 DEF Inv
<1> QED BY <1>1, <1>2, <1>3, <1>4 DEF Next, Terminated

(* What the invariant says of the next instruction of MTE2 and of MTE3.    *)
LEMMA PipesFind == Inv => WindowsIntact
<1> SUFFICES ASSUME Inv, NEW s \in Subs PROVE Finds(MTE2(s), Buffers) /\ Finds(MTE3(s), Buffers)
  BY DEF WindowsIntact
<1>1. Types
  BY DEF Inv
<1>2. PICK todo, f, v, a, token : Vector(s, todo, f, v, a, token)
  BY DEF Inv
<1>w. PICK w : w = IF aiv[s].pc = "loop" THEN 0 ELSE token
  OBVIOUS
<1>n. PICK n : n = Len(todo)
  OBVIOUS
<1>3. /\ Todo(s, todo, f, v, a, token) /\ Queued(s, todo, f, v, a, w)
      /\ Tokens(s, f, v, token) /\ VectorFinds(s, todo, f)
  BY <1>2, <1>w DEF Vector
<1>4. /\ n \in Nat /\ f \in 0..1 /\ v \in 0..f /\ f <= n /\ a \in 0..(n + 1)
      /\ token \in 0..1 /\ w \in 0..1
  BY <1>3, <1>n, <1>w DEF Todo
<1>5. ASSUME NEW p \in Pipes, NEW l, HasLength(queue[p], l), CanExecute(p)
      PROVE  l # 0 /\ Head(queue[p]) = queue[p][1]
             /\ \A e \in queue[p][1].waits : events[e] > 0
  <2>1. queue[p] # <<>> /\ \A e \in Head(queue[p]).waits : events[e] > 0
    BY <1>5 DEF CanExecute
  <2>2. l # 0
    BY <1>5, <2>1, SequenceFacts
  <2>3. Head(queue[p]) = queue[p][1]
    BY <1>5, <2>2, Rest
  <2> QED BY <2>1, <2>2, <2>3
<1>6. Finds(MTE2(s), Buffers)
  <2> SUFFICES ASSUME CanExecute(MTE2(s)), NEW r \in Head(queue[MTE2(s)]).reads
               PROVE  memory[r[1]] = r[2]
    BY DEF Finds
  <2>l. PICK l : l = (n - f) + w
    OBVIOUS
  <2>1. /\ HasLength(queue[MTE2(s)], l)
        /\ \A i \in 1..l :
              queue[MTE2(s)][i] = IF i <= n - f THEN Load(todo[i + f], s) ELSE LastWait(s)
    BY <1>3, <1>n, <2>l DEF Queued, LoadQueue
  <2>2. /\ l # 0 /\ Head(queue[MTE2(s)]) = queue[MTE2(s)][1]
        /\ \A e \in queue[MTE2(s)][1].waits : events[e] > 0
    BY <1>5, <2>1, NamesDiffer
  <2>3. queue[MTE2(s)][1] = IF 1 <= n - f THEN Load(todo[1 + f], s) ELSE LastWait(s)
    <3>1. 1 \in 1..l
      BY <1>4, <2>2, <2>l
    <3> QED BY <2>1, <3>1
  <2>4. 1 <= n - f
    <3>1. LastWait(s).reads = {}
      BY DEF LastWait, Instruction
    <3> QED BY <2>2, <2>3, <3>1
  <2> PICK t : t = todo[1 + f]
    OBVIOUS
  <2>5. queue[MTE2(s)][1] = Load(t, s)
    BY <2>3, <2>4
  <2>6. f = 0
    <3>1. MTE3_MTE2(s) \in Load(t, s).waits
      BY DEF Load, Instruction
    <3> QED BY <1>3, <1>4, <2>2, <2>5, <3>1 DEF Tokens
  <2>7. Stored(t, s)
    <3>1. 1 \in (f + 1)..Len(todo) /\ t = todo[1]
      BY <1>4, <1>n, <2>4, <2>6
    <3> QED BY <1>3, <3>1 DEF VectorFinds, LoadsFind
  <2>8. Load(t, s).reads = {<<l1[1], l1[3]>> : l1 \in Loads(t, s)}
    BY DEF Load, Instruction
  <2>9. PICK x \in Loads(t, s) : r = <<x[1], x[3]>>
    BY <2>2, <2>5, <2>8
  <2>10. \/ x = <<Gate(t, s), ubGate(s), InC("gate", t, s)>>
         \/ x = <<Up(t, s), ubUp(s), InC("up", t, s)>>
    BY <2>9 DEF Loads
  <2>11. r[1] = x[1] /\ r[2] = x[3]
    BY <2>9
  <2> QED BY <2>7, <2>10, <2>11 DEF Stored, GateStored, UpStored
<1>7. Finds(MTE3(s), Buffers)
  <2> SUFFICES ASSUME CanExecute(MTE3(s)), NEW r \in Head(queue[MTE3(s)]).reads
               PROVE  memory[r[1]] = r[2]
    BY DEF Finds
  <2>l. PICK l : l = n + (IF a = 0 THEN 0 ELSE 1)
    OBVIOUS
  <2>1. /\ HasLength(queue[MTE3(s)], l)
        /\ \A i \in 1..l :
              queue[MTE3(s)][i] = IF a = 0 \/ i < a THEN StoreOf(todo[i], s)
                                  ELSE IF i = a THEN Answer(s) ELSE StoreOf(todo[i - 1], s)
    BY <1>3, <1>n, <2>l DEF Queued, StoreQueue
  <2>2. /\ l # 0 /\ Head(queue[MTE3(s)]) = queue[MTE3(s)][1]
        /\ \A e \in queue[MTE3(s)][1].waits : events[e] > 0
    BY <1>5, <2>1, NamesDiffer
  <2> PICK t : t = todo[1]
    OBVIOUS
  <2>3. queue[MTE3(s)][1] = IF a = 1 THEN Answer(s) ELSE StoreOf(t, s)
    <3>1. 1 \in 1..l
      BY <1>4, <2>2, <2>l
    <3>2. queue[MTE3(s)][1] = IF a = 0 \/ 1 < a THEN StoreOf(todo[1], s)
                              ELSE IF 1 = a THEN Answer(s) ELSE StoreOf(todo[1 - 1], s)
      BY <2>1, <3>1
    <3>3. a = 0 \/ 1 < a <=> a # 1
      BY <1>4
    <3> QED BY <3>2, <3>3
  <2>4. queue[MTE3(s)][1] = StoreOf(t, s)
    <3>1. Answer(s).reads = {}
      BY DEF Answer, Instruction
    <3> QED BY <2>2, <2>3, <3>1
  <2>5. f = 1
    <3>1. V_MTE3(s) \in StoreOf(t, s).waits
      BY DEF StoreOf, StoreD, Instruction
    <3> QED BY <1>3, <1>4, <2>2, <2>4, <3>1 DEF Tokens
  <2>6. InUB(t, s) /\ (~ReadsGate => memory[ubGate(s)] = Given)
    BY <1>3, <2>5 DEF VectorFinds, UBFinds
  <2>7. r = <<IF call.mode = FLOOR_UP THEN ubUp(s) ELSE ubGate(s), InD(t, s)>>
    <3>1. StoreOf(t, s).reads
            = IF StoresD THEN {<<IF call.mode = FLOOR_UP THEN ubUp(s) ELSE ubGate(s), InD(t, s)>>}
              ELSE {}
      BY DEF StoreOf, StoreD, Instruction
    <3> QED BY <2>2, <2>4, <3>1
  <2>8. r[1] = (IF call.mode = FLOOR_UP THEN ubUp(s) ELSE ubGate(s)) /\ r[2] = InD(t, s)
    BY <2>7
  <2>9. CASE call.mode = FLOOR_UP
    <3>1. ReadsUp /\ InD(t, s) = InC("up", t, s)
      BY <2>9 DEF ReadsUp, InD, ReadsGate, DHalf, FLOOR_UP, FLOOR_WRITE_ONLY, FLOOR_GATE_ONLY
    <3> QED BY <2>6, <2>8, <2>9, <3>1 DEF InUB
  <2>10. CASE call.mode # FLOOR_UP
    <3>1. InD(t, s) = IF ReadsGate THEN InC("gate", t, s) ELSE Given
      BY <2>10 DEF InD, DHalf
    <3> QED BY <2>6, <2>8, <2>10, <3>1 DEF InUB
  <2> QED BY <2>9, <2>10
<1> QED BY <1>6, <1>7

(* Flags and answers are part of aic.count, which is at most               *)
(* REVERSE_DEPTH.                                                          *)
LEMMA CreditBounds == Inv => FlagDepthBounded
<1> SUFFICES ASSUME Inv, NEW s \in Subs
             PROVE  events[flag(s)] <= REVERSE_DEPTH /\ events[reverse(s)] <= 1
  BY DEF FlagDepthBounded
<1>1. PICK a : Credit(s, a)
  BY DEF Inv, Vector
<1>2. /\ aic.count \in Nat /\ aic.count <= REVERSE_DEPTH /\ REVERSE_DEPTH \in Nat
      /\ aiv[s].count \in Nat /\ PendingFlags \in Nat /\ events[flag(s)] \in Nat
  BY TypeFacts, NamesDiffer DEF Inv
<1>3. PICK taken : /\ taken \in Nat
                   /\ aic.count = events[flag(s)] + PendingFlags + aiv[s].count + taken
                   /\ events[reverse(s)] <= 1
  <2>1. (IF (IF a # 0 THEN 1 ELSE events[reverse(s)]) = 1 THEN REVERSE_DEPTH ELSE 0) \in Nat
    BY <1>2
  <2> QED BY <1>1, <2>1 DEF Credit
<1> QED BY <1>2, <1>3

(* When all have returned, the cores are past the last tile together, so   *)
(* no flag is left; and fewer than REVERSE_DEPTH of them were counted, so  *)
(* no answer is.                                                           *)
ReturnsClean == AllDone => Returned

(* And the tokens show that no event is left.                              *)
LEMMA CleanReturn == Inv => ReturnsClean
<1> SUFFICES ASSUME Inv, AllDone PROVE (\A e \in Events : events[e] = 0) /\ DComplete
  BY DEF ReturnsClean, Returned
<1>1. Types /\ FixQueue /\ aic.pc = "done" /\ \A s \in Subs : aiv[s].pc = "done"
  BY DEF Inv, AllDone
<1>2. /\ call.aiCoreNum \in Nat \ {0} /\ coreLoops(call) \in Nat /\ REVERSE_DEPTH \in Nat \ {0}
      /\ aic.loopIdx \in Nat /\ aic.loopIdx < coreLoops(call) + call.aiCoreNum
      /\ aic.count \in Nat /\ aic.count < REVERSE_DEPTH
      /\ PendingFlags = 0
  <2>1. aic.count # REVERSE_DEPTH /\ queue[FIX] = <<>>
    BY <1>1 DEF Types, CubeTypes
  <2>2. Len(queue[FIX]) = 0
    BY <2>1
  <2>3. PendingFlags = 0
    <3>1. CASE K = 1
      BY <2>2, <3>1 DEF PendingFlags
    <3>2. CASE K = 3
      BY <2>2, <3>2 DEF PendingFlags
    <3> QED BY <3>1, <3>2 DEF K
  <2> QED BY <1>1, <2>1, <2>3, TypeFacts
<1>3. ASSUME NEW s \in Subs
      PROVE  /\ events[MTE3_MTE2(s)] = 0 /\ events[MTE2_V(s)] = 0 /\ events[V_MTE3(s)] = 0
             /\ events[flag(s)] = 0 /\ events[reverse(s)] = 0
             /\ DFinds(s, <<>>) /\ aiv[s].loopIdx >= coreLoops(call)
  <2>1. PICK todo, f, v, a, token : Vector(s, todo, f, v, a, token)
    BY DEF Inv
  <2>2. /\ token = 0 /\ a = 0 /\ todo = <<>> /\ f \in 0..1 /\ v \in 0..f /\ f <= Len(todo)
    BY <1>1, <2>1 DEF Vector, Todo
  <2>3. f = 0 /\ v = 0
    <3>1. Len(todo) = 0
      BY <2>2
    <3> QED BY <2>2, <3>1
  <2>4. events[MTE3_MTE2(s)] = 0 /\ events[MTE2_V(s)] = 0 /\ events[V_MTE3(s)] = 0
    BY <2>1, <2>2, <2>3 DEF Vector, Tokens
  <2>5. /\ aiv[s].loopIdx \in Nat /\ aiv[s].loopIdx >= coreLoops(call) /\ aiv[s].count \in Nat
        /\ events[flag(s)] \in Nat /\ events[reverse(s)] \in Nat
    BY <1>1, TypeFacts, NamesDiffer DEF Types, CoreTypes
  <2>6. /\ (events[flag(s)] + PendingFlags) * call.aiCoreNum = aic.loopIdx - aiv[s].loopIdx
        /\ aic.count = events[flag(s)] + PendingFlags + aiv[s].count
                       + (IF events[reverse(s)] = 1 THEN REVERSE_DEPTH ELSE 0)
        /\ events[reverse(s)] <= 1
    BY <2>1, <2>2 DEF Vector, Credit
  <2>7. events[flag(s)] = 0
    <3> DEFINE N == call.aiCoreNum
               e == events[flag(s)]
    <3>1. e * N = aic.loopIdx - aiv[s].loopIdx /\ e \in Nat /\ N \in Nat \ {0}
      BY <1>2, <2>5, <2>6
    <3> HIDE DEF N, e
    <3>2. 1 * N = N /\ e * N < N
      BY <1>2, <2>5, <3>1 DEF N
    <3>3. e < 1
      BY <3>1, <3>2, ProductCompare
    <3> QED BY <3>1, <3>3 DEF e
  <2>8. events[reverse(s)] = 0
    <3>1. ASSUME events[reverse(s)] = 1 PROVE FALSE
      <4>1. aic.count = aiv[s].count + REVERSE_DEPTH
        BY <1>2, <2>5, <2>6, <2>7, <3>1
      <4> QED BY <1>2, <2>5, <4>1
    <3> QED BY <2>5, <2>6, <3>1
  <2>9. DFinds(s, <<>>)
    BY <2>1, <2>2 DEF Vector, VectorFinds
  <2> QED BY <2>4, <2>5, <2>7, <2>8, <2>9
<1>4. \A e \in Events : events[e] = 0
  BY <1>3 DEF Events
<1>5. DComplete
  <2> SUFFICES ASSUME call.mode # GEMM_ONLY, StoresD,
                      NEW t \in TilesOf(blockIdx), NEW s \in ActiveSubs(t)
               PROVE  memory[D(t, s)] = InD(t, s)
    BY DEF DComplete
  <2>1. s \in Subs /\ HasRows(t, s) /\ t \in Tiles /\ t % call.aiCoreNum = blockIdx
    BY DEF ActiveSubs, TilesOf, Tiles
  <2>2. t < aiv[s].loopIdx
    <3>1. aiv[s].loopIdx \in Nat /\ aiv[s].loopIdx >= coreLoops(call)
      BY <1>1, <1>3, <2>1, TypeFacts
    <3> QED BY <1>2, <2>1, <3>1 DEF Tiles
  <2>3. StoredBy(s, <<>>, t)
    BY <2>1, <2>2 DEF StoredBy
  <2> QED BY <1>3, <2>1, <2>3 DEF DFinds
<1> QED BY <1>4, <1>5

(* The call stays one of the calls.                                        *)
LEMMA CallInCalls == Inv => call \in Calls
  BY DEF Inv, Types, CallTypes

-----------------------------------------------------------------------------
(* Someone can go on.                                                      *)

(* When the cube core and a vector core are not waiting for a flag, and    *)
(* not for their pipes at the barrier: the guards of their actions.        *)
AicGoesOn ==
    \/ InLoop(aic)
    \/ aic.pc = "credit" /\ \A s \in Subs : events[reverse(s)] > 0
    \/ aic.pc = "loop" /\ aic.loopIdx >= coreLoops(call) /\ queue[FIX] = <<>>
QueuesEmpty(s) == queue[MTE2(s)] = <<>> /\ queue[V(s)] = <<>> /\ queue[MTE3(s)] = <<>>
AivGoesOn(s) ==
    \/ InLoop(aiv[s]) /\ events[flag(s)] > 0
    \/ aiv[s].pc = "loop" /\ aiv[s].loopIdx >= coreLoops(call)
    \/ aiv[s].pc = "barrier" /\ QueuesEmpty(s)
PipeGoesOn == \E p \in Pipes : CanExecute(p)
SomeoneGoesOn == AicGoesOn \/ (\E s \in Subs : AivGoesOn(s)) \/ PipeGoesOn
NeverStuck == AllDone \/ SomeoneGoesOn

(* A pipe can execute what is at the head of its queue when the events are *)
(* raised.                                                                 *)
LEMMA HeadExecutes ==
    ASSUME NEW p \in Pipes, NEW l, HasLength(queue[p], l), l # 0, NEW i, queue[p][1] = i,
           \A e \in i.waits : events[e] > 0
    PROVE  CanExecute(p)
<1>1. queue[p] # <<>>
  BY EmptyLength
<1>2. Head(queue[p]) = queue[p][1]
  BY Rest
<1> QED BY <1>1, <1>2 DEF CanExecute

(* FIX waits for nothing.                                                  *)
LEMMA FixGoesOn ==
    ASSUME Types, FixQueue, ~PipeGoesOn
    PROVE  queue[FIX] = <<>> /\ PendingFlags = 0
<1>1. PICK n : n = Len(queue[FIX])
  OBVIOUS
<1>2. HasLength(queue[FIX], n) /\ n \in Nat
      /\ \A i \in 1..n : queue[FIX][i] = FixCode(FixTile(n, i), (n - i) % K)
  BY <1>1, TypeFacts DEF FixQueue
<1>3. ASSUME n # 0 PROVE FALSE
  <2>1. queue[FIX][1] = FixCode(FixTile(n, 1), (n - 1) % K)
    BY <1>2, <1>3
  <2>2. FixCode(FixTile(n, 1), (n - 1) % K).waits = {}
    BY DEF FixCode, StoreGate, StoreUp, RaiseFlag, Instruction
  <2>3. CanExecute(FIX)
    BY <1>2, <1>3, <2>1, <2>2, NamesDiffer, HeadExecutes
  <2> QED BY <2>3, NamesDiffer DEF PipeGoesOn
<1>4. queue[FIX] = <<>>
  BY <1>2, <1>3, SequenceFacts
<1>5. PendingFlags = 0
  <2>1. Len(queue[FIX]) = 0
    BY <1>1, <1>3
  <2>2. CASE K = 1
    BY <2>1, <2>2 DEF PendingFlags
  <2>3. CASE K = 3
    BY <2>1, <2>3 DEF PendingFlags
  <2> QED BY <2>2, <2>3 DEF K
<1> QED BY <1>4, <1>5

(* While a vector core has a tile or an answer on its way one of its pipes *)
(* can go on: MTE3 if V has passed the first tile on, V if MTE2 has loaded *)
(* it, MTE2 otherwise.                                                     *)
LEMMA VectorPipesGoOn ==
    ASSUME Types, NEW s \in Subs, NEW todo, NEW f, NEW v, NEW a, NEW token,
           Vector(s, todo, f, v, a, token), ~PipeGoesOn
    PROVE  QueuesEmpty(s) /\ a = 0
<1>w. PICK w : w = IF aiv[s].pc = "loop" THEN 0 ELSE token
  OBVIOUS
<1>n. PICK n : n = Len(todo)
  OBVIOUS
<1>1. /\ Todo(s, todo, f, v, a, token) /\ Queued(s, todo, f, v, a, w)
      /\ Tokens(s, f, v, token)
  BY <1>w DEF Vector
<1>2. /\ n \in Nat /\ f \in 0..1 /\ v \in 0..f /\ f <= n /\ a \in 0..(n + 1)
      /\ token \in 0..1 /\ w \in 0..1 /\ (w = 1 => token = 1)
  BY <1>1, <1>n, <1>w DEF Todo
<1>3. n # 0 => token = 1
  <2>1. token = 0 => n = 0
    BY <1>1, <1>n DEF Todo
  <2> QED BY <1>2, <2>1
<1>4. /\ events[MTE3_MTE2(s)] = token - f /\ events[MTE2_V(s)] = f - v
      /\ events[V_MTE3(s)] = v
  BY <1>1 DEF Tokens
<1>5. PICK loads, passes, stores :
        /\ loads = (n - f) + w /\ passes = n - v /\ stores = n + (IF a = 0 THEN 0 ELSE 1)
  OBVIOUS
<1>6. /\ HasLength(queue[MTE2(s)], loads)
      /\ \A i \in 1..loads :
            queue[MTE2(s)][i] = IF i <= n - f THEN Load(todo[i + f], s) ELSE LastWait(s)
  BY <1>1, <1>n, <1>5 DEF Queued, LoadQueue
<1>7. HasLength(queue[V(s)], passes) /\ \A i \in 1..passes : queue[V(s)][i] = Pass(s)
  BY <1>1, <1>n, <1>5 DEF Queued, PassQueue
<1>8. /\ HasLength(queue[MTE3(s)], stores)
      /\ \A i \in 1..stores :
            queue[MTE3(s)][i] = IF a = 0 \/ i < a THEN StoreOf(todo[i], s)
                                ELSE IF i = a THEN Answer(s) ELSE StoreOf(todo[i - 1], s)
  BY <1>1, <1>n, <1>5 DEF Queued, StoreQueue
<1>9. ~CanExecute(MTE2(s)) /\ ~CanExecute(V(s)) /\ ~CanExecute(MTE3(s))
  BY NamesDiffer DEF PipeGoesOn
<1>10. a # 1
  <2> SUFFICES ASSUME a = 1 PROVE FALSE
    OBVIOUS
  <2>1. 1 \in 1..stores /\ stores # 0
    BY <1>2, <1>5
  <2>2. queue[MTE3(s)][1] = Answer(s)
    BY <1>8, <2>1
  <2>3. Answer(s).waits = {}
    BY DEF Answer, Instruction
  <2> QED BY <1>8, <1>9, <2>1, <2>2, <2>3, NamesDiffer, HeadExecutes
<1>11. ~(n # 0 /\ v = 1)
  <2> SUFFICES ASSUME n # 0, v = 1 PROVE FALSE
    OBVIOUS
  <2>1. 1 \in 1..stores /\ stores # 0
    <3>1. (IF a = 0 THEN 0 ELSE 1) \in 0..1
      OBVIOUS
    <3> QED BY <1>2, <1>5, <3>1
  <2>2. queue[MTE3(s)][1] = StoreOf(todo[1], s)
    <3>1. a = 0 \/ 1 < a
      BY <1>2, <1>10
    <3> QED BY <1>8, <2>1, <3>1
  <2>3. StoreOf(todo[1], s).waits = {V_MTE3(s)}
    BY DEF StoreOf, StoreD, Instruction
  <2>4. events[V_MTE3(s)] > 0
    BY <1>4
  <2> QED BY <1>8, <1>9, <2>1, <2>2, <2>3, <2>4, NamesDiffer, HeadExecutes
<1>12. ~(n # 0 /\ v = 0 /\ f = 1)
  <2> SUFFICES ASSUME n # 0, v = 0, f = 1 PROVE FALSE
    OBVIOUS
  <2>1. 1 \in 1..passes /\ passes # 0
    BY <1>2, <1>5
  <2>2. queue[V(s)][1] = Pass(s)
    BY <1>7, <2>1
  <2>3. Pass(s).waits = {MTE2_V(s)}
    BY DEF Pass, Instruction
  <2>4. events[MTE2_V(s)] > 0
    BY <1>4
  <2> QED BY <1>7, <1>9, <2>1, <2>2, <2>3, <2>4, NamesDiffer, HeadExecutes
<1>13. ~(n # 0 /\ f = 0)
  <2> SUFFICES ASSUME n # 0, f = 0 PROVE FALSE
    OBVIOUS
  <2>1. 1 \in 1..loads /\ loads # 0 /\ 1 <= n - f
    BY <1>2, <1>5
  <2>2. queue[MTE2(s)][1] = Load(todo[1 + f], s)
    BY <1>6, <2>1
  <2>3. Load(todo[1 + f], s).waits = {MTE3_MTE2(s)}
    BY DEF Load, Instruction
  <2>4. events[MTE3_MTE2(s)] > 0
    BY <1>3, <1>4
  <2> QED BY <1>6, <1>9, <2>1, <2>2, <2>3, <2>4, NamesDiffer, HeadExecutes
<1>14. n = 0 /\ f = 0 /\ v = 0 /\ a = 0
  <2>1. n = 0
    BY <1>2, <1>11, <1>12, <1>13
  <2> QED BY <1>2, <1>10, <2>1
<1>15. w = 0
  <2> SUFFICES ASSUME w # 0 PROVE FALSE
    OBVIOUS
  <2>1. w = 1 /\ token = 1
    BY <1>2
  <2>2. 1 \in 1..loads /\ loads # 0 /\ ~(1 <= n - f)
    BY <1>5, <1>14, <2>1
  <2>3. queue[MTE2(s)][1] = LastWait(s)
    BY <1>6, <2>2
  <2>4. LastWait(s).waits = {MTE3_MTE2(s)}
    BY DEF LastWait, Instruction
  <2>5. events[MTE3_MTE2(s)] > 0
    BY <1>4, <1>14, <2>1
  <2> QED BY <1>6, <1>9, <2>2, <2>3, <2>4, <2>5, NamesDiffer, HeadExecutes
<1>16. loads = 0 /\ passes = 0 /\ stores = 0
  BY <1>5, <1>14, <1>15
<1> QED BY <1>6, <1>7, <1>8, <1>14, <1>16, SequenceFacts DEF QueuesEmpty

(* The cube core that waits for an answer has raised REVERSE_DEPTH flags,  *)
(* more than the vector core that has not answered has counted: it finds   *)
(* one.  A vector core that waits for a flag has taken them all, so that   *)
(* it is at the tile of the cube core.                                     *)
LEMMA CoresGoOn == Inv => NeverStuck
<1> SUFFICES ASSUME Inv, ~SomeoneGoesOn PROVE AllDone
  BY DEF NeverStuck
<1>1. Types /\ FixQueue
  BY DEF Inv
<1>2. ~AicGoesOn /\ (\A s \in Subs : ~AivGoesOn(s)) /\ ~PipeGoesOn
  BY DEF SomeoneGoesOn
<1>3. queue[FIX] = <<>> /\ PendingFlags = 0
  BY <1>1, <1>2, FixGoesOn
<1>4. /\ call.aiCoreNum \in Nat \ {0} /\ coreLoops(call) \in Nat /\ REVERSE_DEPTH \in Nat \ {0}
      /\ aic.loopIdx \in Nat /\ aic.loopIdx < coreLoops(call) + call.aiCoreNum
      /\ aic.count \in Nat
  BY <1>1, TypeFacts
<1>5. ASSUME NEW s \in Subs
      PROVE  /\ QueuesEmpty(s)
             /\ events[flag(s)] \in Nat /\ events[reverse(s)] \in Nat
             /\ aiv[s].loopIdx \in Nat /\ aiv[s].count \in Nat /\ aiv[s].count < REVERSE_DEPTH
             /\ events[flag(s)] * call.aiCoreNum = aic.loopIdx - aiv[s].loopIdx
             /\ aic.count = events[flag(s)] + aiv[s].count
                            + (IF events[reverse(s)] = 1 THEN REVERSE_DEPTH ELSE 0)
  <2>1. PICK todo, f, v, a, token : Vector(s, todo, f, v, a, token)
    BY DEF Inv
  <2>2. QueuesEmpty(s) /\ a = 0
    BY <1>1, <1>2, <2>1, VectorPipesGoOn
  <2>3. /\ events[flag(s)] \in Nat /\ events[reverse(s)] \in Nat
        /\ aiv[s].loopIdx \in Nat /\ aiv[s].count \in Nat /\ aiv[s].count < REVERSE_DEPTH
    BY <1>1, TypeFacts, NamesDiffer
  <2>4. Credit(s, 0)
    BY <2>1, <2>2 DEF Vector
  <2>5. /\ (events[flag(s)] + 0) * call.aiCoreNum = aic.loopIdx - aiv[s].loopIdx
        /\ aic.count = events[flag(s)] + 0 + aiv[s].count
                       + (IF events[reverse(s)] = 1 THEN REVERSE_DEPTH ELSE 0)
    BY <1>3, <2>4 DEF Credit
  <2>6. events[flag(s)] + 0 = events[flag(s)]
    BY <2>3
  <2> QED BY <2>2, <2>3, <2>5, <2>6
<1>6. ASSUME NEW s \in Subs
      PROVE  \/ aiv[s].pc = "done" /\ aiv[s].loopIdx >= coreLoops(call)
             \/ aiv[s].loopIdx < coreLoops(call) /\ ~(events[flag(s)] > 0)
  <2>1. aiv[s].pc \in {"loop", "barrier", "done"}
        /\ (aiv[s].pc # "loop" => aiv[s].loopIdx >= coreLoops(call))
    BY <1>1 DEF Types, CoreTypes
  <2>2. ~AivGoesOn(s)
    BY <1>2
  <2>3. CASE aiv[s].pc = "loop"
    <3>1. ~(aiv[s].loopIdx >= coreLoops(call)) /\ ~(InLoop(aiv[s]) /\ events[flag(s)] > 0)
      BY <2>2, <2>3 DEF AivGoesOn
    <3>2. aiv[s].loopIdx < coreLoops(call)
      BY <1>4, <1>5, <3>1
    <3> QED BY <2>3, <3>1, <3>2 DEF InLoop
  <2>4. aiv[s].pc # "barrier"
    BY <1>5, <2>2 DEF AivGoesOn
  <2> QED BY <2>1, <2>3, <2>4
<1>7. aic.pc # "credit"
  <2> SUFFICES ASSUME aic.pc = "credit" PROVE FALSE
    OBVIOUS
  <2>1. aic.count = REVERSE_DEPTH
    BY <1>1 DEF Types, CubeTypes
  <2>2. PICK s \in Subs : ~(events[reverse(s)] > 0)
    BY <1>2 DEF AicGoesOn
  <2> DEFINE N == call.aiCoreNum
             e == events[flag(s)]
  <2>3. e \in Nat /\ e >= 1
    <3>1. events[reverse(s)] # 1
      BY <2>2
    <3>2. aic.count = e + aiv[s].count + 0
      BY <1>5, <3>1
    <3> QED BY <1>4, <1>5, <2>1, <3>2
  <2>4. aiv[s].loopIdx >= coreLoops(call)
    BY <1>6, <2>3
  <2>5. e * N = aic.loopIdx - aiv[s].loopIdx /\ N \in Nat \ {0}
    BY <1>4, <1>5
  <2>6. 1 * N <= e * N
    <3> HIDE DEF e, N
    <3> QED BY <2>3, <2>5, ProductMonotone
  <2> QED BY <1>4, <1>5, <2>4, <2>5, <2>6
<1>8. aic.pc = "done" /\ aic.loopIdx >= coreLoops(call)
  <2>1. aic.pc \in {"loop", "credit", "done"}
        /\ (aic.pc = "done" => aic.loopIdx >= coreLoops(call))
    BY <1>1 DEF Types, CubeTypes
  <2>2. aic.pc # "loop"
    <3> SUFFICES ASSUME aic.pc = "loop" PROVE FALSE
      OBVIOUS
    <3>1. ~(aic.loopIdx < coreLoops(call)) /\ ~(aic.loopIdx >= coreLoops(call))
      BY <1>2, <1>3 DEF AicGoesOn, InLoop
    <3> QED BY <1>4, <3>1
  <2> QED BY <1>7, <2>1, <2>2
<1>9. ASSUME NEW s \in Subs PROVE aiv[s].pc = "done"
  <2> SUFFICES ASSUME aiv[s].loopIdx < coreLoops(call), ~(events[flag(s)] > 0) PROVE FALSE
    BY <1>6
  <2>1. events[flag(s)] = 0
    BY <1>5
  <2>2. 0 * call.aiCoreNum = aic.loopIdx - aiv[s].loopIdx
    BY <1>5, <2>1
  <2> QED BY <1>4, <1>5, <1>8, <2>2
<1> QED BY <1>8, <1>9 DEF AllDone

-----------------------------------------------------------------------------
(* The theorems, for every call, number of cores and depth of the flag.    *)

(* The inductive invariant: what is in each queue, which event is raised   *)
(* for it, how flags and answers count, and what the memory has for the    *)
(* tiles on their way (kernel_f3_floor.cpp:152-307).                       *)
THEOREM InvInvariant == Spec => []Inv
  BY InitInv, NextInv, PTL DEF Spec

(* A vector core reads what the cube core stored for this tile, and MTE3   *)
(* stores what this tile's loads left in the unified buffer, in place too  *)
(* (186-198, 256-296).                                                     *)
THEOREM WindowsAlwaysIntact == Spec => []WindowsIntact
  BY InvInvariant, PipesFind, PTL

(* A flag is never raised more than REVERSE_DEPTH times unawaited, and an  *)
(* answer not twice (cross_core_sync.hpp:18-23, kernel_f3_floor.cpp:198,   *)
(* 256).                                                                   *)
THEOREM FlagDepthAlwaysBounded == Spec => []FlagDepthBounded
  BY InvInvariant, CreditBounds, PTL

(* The windows of all tiles of all cores tile D, whatever M and I are      *)
(* (152-185, 218-224, 244-263).                                            *)
THEOREM WindowsAlwaysTileD == Spec => []WindowsTileD
  BY InvInvariant, CallInCalls, WindowsDoTileD, PTL

(* When the three cores have returned, no flag and no event is left for    *)
(* the next kernel, and D is complete; that they do return is liveness     *)
(* (198-209, 243-307).                                                     *)
THEOREM ReturnsAlwaysClean == Spec => []ReturnsClean
  BY InvInvariant, CleanReturn, PTL

(* Until all three cores have returned a core or a pipe can go on: the     *)
(* cube core that awaits an answer and the vector cores that await a flag  *)
(* never wait for each other, and no pipe for an event that is not to come *)
(* (cross_core_sync.hpp:18-60, kernel_f3_floor.cpp:186-209, 243-307).      *)
THEOREM CoresNeverStuck == Spec => []NeverStuck
  BY InvInvariant, CoresGoOn, PTL
=============================================================================
