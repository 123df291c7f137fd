--------------------------- MODULE FaiTilingProofs ---------------------------
(***************************************************************************)
(* What FaiTiling's properties say, proved for every call that the host    *)
(* admits: any batch, lengths, heads and number of cores.                  *)
(*                                                                         *)
(* The tasks of a batch entry are a product: blocks of 128 tokens, times   *)
(* KV heads, times blocks of heads within a KV head.  Decode and Encode    *)
(* show that the quotients and remainders of the code are a bijection      *)
(* between the task indices of the entry and the places of that product;   *)
(* BlockFacts where the block of a place lies.  The inductive invariant    *)
(* Inv says of each walk that its running totals are those of the entry it *)
(* stands at, that its task is not before that entry, and that the n-th    *)
(* block it decoded is the one of the n-th task index of its core.  Since  *)
(* a task index is of one entry only (EntryUnique), two kernels that agree *)
(* on the indices agree on the blocks.                                     *)
(***************************************************************************)
EXTENDS FaiTiling, IntegerLemmas

(* Tasks and tokens up to and including each batch entry.                  *)
Tasks(in) == RunningTotal(TaskNums(in))
Starts(in) == RunningTotal(in.qSeqlens)

Tile(in, b) == GetQNBlockTile(in.qSeqlens[b], in.groupSize)
PerGroup(in, b) == qNBlockNumPerGroup(in, in.qSeqlens[b])
PerBlock(in, b) == curQNBlockNum(in, in.qSeqlens[b])
Blocks128(in, b) == curQSBlockNum(in.qSeqlens[b])

(* Task g is one of batch entry b.                                         *)
OfEntry(in, b, g) == Tasks(in)[b - 1] <= g /\ g < Tasks(in)[b]

(* The block of tokens s and of heads i of KV head kv of a batch entry.    *)
BlockAt(in, b, s, kv, i) ==
    [batch  |-> b,
     kvHead |-> kv,
     token  |-> Starts(in)[b - 1] + s * 128,
     head   |-> kv * in.groupSize + i * Tile(in, b),
     qSBlockSize |-> IF s = Blocks128(in, b) - 1 THEN in.qSeqlens[b] - s * 128 ELSE 128,
     qNBlockSize |-> IF i = PerGroup(in, b) - 1
                     THEN in.groupSize - i * Tile(in, b)
                     ELSE Tile(in, b)]

(* What Block makes of task g of entry b.                                  *)
BlockOf(in, b, g) ==
    LET d == g - Tasks(in)[b - 1]
        n == d % PerBlock(in, b)
    IN  BlockAt(in, b, d \div PerBlock(in, b), n \div PerGroup(in, b), n % PerGroup(in, b))

-----------------------------------------------------------------------------
(* What InputsAssumption says of one call.                                 *)
LEMMA InputFacts ==
    ASSUME NEW in \in Inputs
    PROVE  /\ in.qSeqlens \in Seq(Nat) /\ Len(in.qSeqlens) \in Nat \ {0}
           /\ \A b \in 1..Len(in.qSeqlens) : in.qSeqlens[b] \in Nat \ {0}
           /\ in.kvHeads \in Nat \ {0} /\ in.groupSize \in Nat \ {0}
           /\ in.coreNum \in Nat \ {0}
           /\ \A b \in 1..Len(in.qSeqlens) : HostSeqlen(in, b) = in.qSeqlens[b]
<1>1. /\ in.qSeqlens \in Seq(Nat \ {0}) /\ in.qSeqlens # <<>>
      /\ {in.kvHeads, in.groupSize, in.coreNum} \subseteq Nat \ {0}
      /\ in.hint \in Nat
      /\ in.hint > 0 => \A b \in 1..Len(in.qSeqlens) : in.qSeqlens[b] = in.hint
  BY InputsAssumption
<1>2. in.qSeqlens \in Seq(Nat) /\ Len(in.qSeqlens) \in Nat \ {0}
  BY <1>1
<1>3. \A b \in 1..Len(in.qSeqlens) : in.qSeqlens[b] \in Nat \ {0}
  BY <1>1
<1>4. \A b \in 1..Len(in.qSeqlens) : HostSeqlen(in, b) = in.qSeqlens[b]
  BY <1>1 DEF HostSeqlen
<1> QED BY <1>1, <1>2, <1>3, <1>4

(* A head tile is of 1 to groupSize heads; one of more than one head is    *)
(* within an even number of heads whose rows fit in 128.                   *)
LEMMA TileFacts ==
    ASSUME NEW q \in Nat \ {0}, NEW g \in Nat \ {0}
    PROVE  /\ GetQNBlockTile(q, g) \in 1..g
           /\ GetQNBlockTile(q, g) > 1 =>
                \E e \in Nat : GetQNBlockTile(q, g) <= 2 * e /\ q * (2 * e) <= 128
<1> DEFINE h == 128 \div q
           e == h \div 2
<1>1. h \in Nat /\ q * h <= 128
  <2>1. 128 \div q \in Nat /\ 128 = (128 \div q) * q + (128 % q) /\ 128 % q \in 0..(q - 1)
    BY QuotientFacts
  <2> QED BY <2>1
<1>2. e \in Nat /\ 2 * e <= h
  BY <1>1
<1>3. q * (2 * e) <= 128
  <2> HIDE DEF h, e
  <2>1. q * (2 * e) <= q * h
    BY <1>1, <1>2, ProductMonotone
  <2> QED BY <1>1, <1>2, <2>1
<1>4. GetQNBlockTile(q, g) = AtLeast(AtMost(e * 2, g), 1)
  BY DEF GetQNBlockTile
<1> HIDE DEF h, e
<1>5. GetQNBlockTile(q, g) \in 1..g /\ (GetQNBlockTile(q, g) > 1 => GetQNBlockTile(q, g) <= 2 * e)
  BY <1>2, <1>4 DEF AtLeast, AtMost
<1> QED BY <1>2, <1>3, <1>5

(* The numbers of a batch entry: its tasks are the product of its blocks   *)
(* of tokens, KV heads and blocks of heads.                                *)
LEMMA EntryFacts ==
    ASSUME NEW in \in Inputs, NEW b \in 1..Len(in.qSeqlens)
    PROVE  /\ in.qSeqlens[b] \in Nat \ {0}
           /\ Tile(in, b) \in 1..in.groupSize
           /\ PerGroup(in, b) \in Nat \ {0}
           /\ (PerGroup(in, b) - 1) * Tile(in, b) < in.groupSize
           /\ in.groupSize <= PerGroup(in, b) * Tile(in, b)
           /\ PerBlock(in, b) \in Nat \ {0}
           /\ PerBlock(in, b) = PerGroup(in, b) * in.kvHeads
           /\ Blocks128(in, b) \in Nat \ {0}
           /\ (Blocks128(in, b) - 1) * 128 < in.qSeqlens[b]
           /\ in.qSeqlens[b] <= Blocks128(in, b) * 128
           /\ TaskNum(in, in.qSeqlens[b]) = PerBlock(in, b) * Blocks128(in, b)
           /\ TaskNum(in, in.qSeqlens[b]) \in Nat \ {0}
<1>1. in.qSeqlens[b] \in Nat \ {0} /\ in.groupSize \in Nat \ {0} /\ in.kvHeads \in Nat \ {0}
  BY InputFacts
<1>2. Tile(in, b) \in 1..in.groupSize
  BY <1>1, TileFacts DEF Tile
<1>3. /\ PerGroup(in, b) \in Nat
      /\ (PerGroup(in, b) - 1) * Tile(in, b) < in.groupSize
      /\ in.groupSize <= PerGroup(in, b) * Tile(in, b)
      /\ PerGroup(in, b) # 0
  <2>1. PerGroup(in, b) = (in.groupSize + Tile(in, b) - 1) \div Tile(in, b)
    BY DEF PerGroup, qNBlockNumPerGroup, CeilDiv, Tile
  <2>2. in.groupSize \in Nat /\ Tile(in, b) \in Nat \ {0}
    BY <1>1, <1>2
  <2> HIDE DEF Tile
  <2>3. /\ PerGroup(in, b) \in Nat
        /\ (PerGroup(in, b) - 1) * Tile(in, b) < in.groupSize
        /\ in.groupSize <= PerGroup(in, b) * Tile(in, b)
        /\ (PerGroup(in, b) = 0) <=> (in.groupSize = 0)
    BY <2>1, <2>2, CeilingFacts
  <2> QED BY <1>1, <2>3
<1>4. PerBlock(in, b) = PerGroup(in, b) * in.kvHeads
  BY DEF PerBlock, curQNBlockNum, PerGroup
<1>5. PerBlock(in, b) \in Nat \ {0}
  BY <1>1, <1>3, <1>4
<1>6. /\ Blocks128(in, b) \in Nat \ {0}
      /\ (Blocks128(in, b) - 1) * 128 < in.qSeqlens[b]
      /\ in.qSeqlens[b] <= Blocks128(in, b) * 128
  <2>1. Blocks128(in, b) = (in.qSeqlens[b] + 128 - 1) \div 128
    BY DEF Blocks128, curQSBlockNum, CeilDiv, GetQSBlockTile
  <2> HIDE DEF Blocks128
  <2> QED BY <1>1, <2>1
<1>7. TaskNum(in, in.qSeqlens[b]) = PerBlock(in, b) * Blocks128(in, b)
  BY DEF TaskNum, PerBlock, Blocks128
<1>8. PerBlock(in, b) * Blocks128(in, b) \in Nat \ {0}
  BY <1>5, <1>6
<1> QED BY <1>1, <1>2, <1>3, <1>4, <1>5, <1>6, <1>7, <1>8

(* The running totals, of the host and of the walks alike.                 *)
LEMMA TotalsFacts ==
    ASSUME NEW in \in Inputs
    PROVE  /\ TaskNums(in) \in Seq(Nat) /\ Len(TaskNums(in)) = Len(in.qSeqlens)
           /\ \A b \in 0..Len(in.qSeqlens) : Tasks(in)[b] \in Nat /\ Starts(in)[b] \in Nat
           /\ Tasks(in)[0] = 0 /\ Starts(in)[0] = 0
           /\ \A b \in 1..Len(in.qSeqlens) :
                 /\ Tasks(in)[b] = Tasks(in)[b - 1] + TaskNum(in, in.qSeqlens[b])
                 /\ Starts(in)[b] = Starts(in)[b - 1] + in.qSeqlens[b]
<1>1. /\ in.qSeqlens \in Seq(Nat) /\ Len(in.qSeqlens) \in Nat
      /\ \A b \in 1..Len(in.qSeqlens) : HostSeqlen(in, b) = in.qSeqlens[b]
  BY InputFacts
<1>2. \A b \in 1..Len(in.qSeqlens) : TaskNum(in, in.qSeqlens[b]) \in Nat
  BY EntryFacts
<1>3. TaskNums(in) = [b \in 1..Len(in.qSeqlens) |-> TaskNum(in, in.qSeqlens[b])]
  BY <1>1 DEF TaskNums
<1>4. TaskNums(in) \in Seq(Nat) /\ Len(TaskNums(in)) = Len(in.qSeqlens)
  <2> DEFINE n(b) == TaskNum(in, in.qSeqlens[b])
  <2>1. \A b \in 1..Len(in.qSeqlens) : n(b) \in Nat
    BY <1>2
  <2>2. TaskNums(in) = [b \in 1..Len(in.qSeqlens) |-> n(b)]
    BY <1>3
  <2> HIDE DEF n
  <2> QED BY <1>1, <2>1, <2>2
<1>5. /\ Tasks(in) \in [0..Len(in.qSeqlens) -> Nat] /\ Tasks(in)[0] = 0
      /\ \A b \in 1..Len(in.qSeqlens) : Tasks(in)[b] = Tasks(in)[b - 1] + TaskNums(in)[b]
  BY <1>4, RunningTotalFacts DEF Tasks
<1>6. /\ Starts(in) \in [0..Len(in.qSeqlens) -> Nat] /\ Starts(in)[0] = 0
      /\ \A b \in 1..Len(in.qSeqlens) : Starts(in)[b] = Starts(in)[b - 1] + in.qSeqlens[b]
  BY <1>1, RunningTotalFacts DEF Starts
<1>7. \A b \in 1..Len(in.qSeqlens) : TaskNums(in)[b] = TaskNum(in, in.qSeqlens[b])
  BY <1>3
<1> QED BY <1>4, <1>5, <1>6, <1>7

(* A task is of one entry.                                                 *)
LEMMA EntryUnique ==
    ASSUME NEW in \in Inputs, NEW g \in Nat,
           NEW b \in 1..Len(in.qSeqlens), OfEntry(in, b, g),
           NEW c \in 1..Len(in.qSeqlens), OfEntry(in, c, g)
    PROVE  b = c
  BY TotalsFacts, TermUnique DEF OfEntry, Tasks

(* The entries lie one after the other.                                    *)
LEMMA StartsMonotone ==
    ASSUME NEW in \in Inputs, NEW b \in 1..Len(in.qSeqlens), NEW c \in 1..Len(in.qSeqlens),
           b < c
    PROVE  Starts(in)[b] <= Starts(in)[c - 1]
<1>1. in.qSeqlens \in Seq(Nat) /\ Len(in.qSeqlens) \in Nat
  BY InputFacts
<1>2. b \in 0..Len(in.qSeqlens) /\ c - 1 \in b..Len(in.qSeqlens)
  BY <1>1
<1> QED BY <1>1, <1>2, RunningTotalMonotone DEF Starts

-----------------------------------------------------------------------------
(* Decoding a task index: each index of an entry is one place in the       *)
(* product, and the decoding of the code finds it.                         *)
Number(in, b, s, kv, i) ==
    Tasks(in)[b - 1] + (s * PerBlock(in, b) + (kv * PerGroup(in, b) + i))

(* Of a task index, the place that the code finds is the one it numbers.   *)
LEMMA Decode ==
    ASSUME NEW in \in Inputs, NEW b \in 1..Len(in.qSeqlens), NEW g \in Nat, OfEntry(in, b, g)
    PROVE  \E s \in 0..Blocks128(in, b) - 1, kv \in 0..in.kvHeads - 1,
              i \in 0..PerGroup(in, b) - 1 :
              g = Number(in, b, s, kv, i) /\ BlockOf(in, b, g) = BlockAt(in, b, s, kv, i)
<1> DEFINE before == Tasks(in)[b - 1]
           N == PerBlock(in, b)
           P == PerGroup(in, b)
           S == Blocks128(in, b)
           K == in.kvHeads
           d == g - before
           s == d \div N
           n == d % N
           kv == n \div P
           i == n % P
<1>1. /\ N \in Nat \ {0} /\ P \in Nat \ {0} /\ S \in Nat \ {0} /\ K \in Nat \ {0}
      /\ N = P * K
  BY EntryFacts, InputFacts
<1>2. d \in Nat /\ d < N * S /\ before \in Nat /\ g = before + d
  <2>1. b - 1 \in 0..Len(in.qSeqlens) /\ b \in 0..Len(in.qSeqlens)
    OBVIOUS
  <2>2. /\ before \in Nat /\ Tasks(in)[b] = before + TaskNum(in, in.qSeqlens[b])
        /\ TaskNum(in, in.qSeqlens[b]) = N * S
    BY <2>1, TotalsFacts, EntryFacts
  <2>3. before <= g /\ g < Tasks(in)[b]
    BY DEF OfEntry
  <2>4. N * S \in Nat
    BY <1>1
  <2> HIDE DEF before, N, S
  <2> QED BY <2>2, <2>3, <2>4
<1> HIDE DEF d, N, P, S, K, before
<1>3. s \in Nat /\ n \in 0..(N - 1) /\ d = s * N + n
  BY <1>1, <1>2, QuotientFacts
<1>4. kv \in Nat /\ i \in 0..(P - 1) /\ n = kv * P + i
  <2> HIDE DEF n
  <2>1. n \in Nat /\ P \in Nat \ {0}
    BY <1>1, <1>3
  <2>2. n \div P \in Nat /\ n % P \in 0..(P - 1) /\ n = (n \div P) * P + (n % P)
    BY <2>1, QuotientFacts
  <2> QED BY <2>2
<1> HIDE DEF s, n, kv, i
<1>5. s \in 0..(S - 1)
  <2>1. s * N < S * N
    BY <1>1, <1>2, <1>3
  <2> QED BY <1>1, <1>3, <2>1, ProductCompare
<1>6. kv \in 0..(K - 1)
  <2>1. kv * P < K * P
    BY <1>1, <1>3, <1>4
  <2> QED BY <1>1, <1>4, <2>1, ProductCompare
<1>7. g = Number(in, b, s, kv, i)
  <2>1. Number(in, b, s, kv, i) = before + (s * N + (kv * P + i))
    BY DEF Number, before, N, P
  <2> QED BY <1>2, <1>3, <1>4, <2>1
<1>8. BlockOf(in, b, g) = BlockAt(in, b, s, kv, i)
  BY DEF BlockOf, s, kv, i, n, d, N, P, before
<1> QED BY <1>4, <1>5, <1>6, <1>7, <1>8 DEF S, K, P

(* And each place of the product is some task index of the entry.          *)
LEMMA Encode ==
    ASSUME NEW in \in Inputs, NEW b \in 1..Len(in.qSeqlens),
           NEW s \in 0..Blocks128(in, b) - 1, NEW kv \in 0..in.kvHeads - 1,
           NEW i \in 0..PerGroup(in, b) - 1
    PROVE  /\ Number(in, b, s, kv, i) \in Nat
           /\ OfEntry(in, b, Number(in, b, s, kv, i))
           /\ BlockOf(in, b, Number(in, b, s, kv, i)) = BlockAt(in, b, s, kv, i)
<1> DEFINE before == Tasks(in)[b - 1]
           N == PerBlock(in, b)
           P == PerGroup(in, b)
           S == Blocks128(in, b)
           K == in.kvHeads
           n == kv * P + i
           d == s * N + n
<1>1. /\ N \in Nat \ {0} /\ P \in Nat \ {0} /\ S \in Nat \ {0} /\ K \in Nat \ {0}
      /\ N = P * K
  BY EntryFacts, InputFacts
<1>2. s \in 0..(S - 1) /\ kv \in 0..(K - 1) /\ i \in 0..(P - 1)
  OBVIOUS
<1>3. /\ before \in Nat /\ Tasks(in)[b] = before + N * S
  <2>1. b - 1 \in 0..Len(in.qSeqlens)
    OBVIOUS
  <2> QED BY <2>1, TotalsFacts, EntryFacts
<1>4. Number(in, b, s, kv, i) = before + d
  BY DEF Number
<1> HIDE DEF N, P, S, K, before
<1>5. n \in 0..(N - 1) /\ n \div P = kv /\ n % P = i
  <2>0. kv \in Nat /\ P \in Nat \ {0} /\ i \in 0..(P - 1)
    BY <1>1, <1>2
  <2>1. n \div P = kv /\ n % P = i /\ n \in Nat
    BY <2>0, QuotientUnique
  <2>2. kv * P <= (K - 1) * P
    BY <1>1, <1>2, ProductMonotone
  <2>3. kv * P \in Nat /\ (K - 1) * P = N - P
    BY <1>1, <1>2
  <2> QED BY <1>1, <1>2, <2>1, <2>2, <2>3
<1> HIDE DEF n
<1>6. d \in Nat /\ d \div N = s /\ d % N = n
  <2>1. s \in Nat /\ N \in Nat \ {0} /\ n \in 0..(N - 1)
    BY <1>1, <1>2, <1>5
  <2> QED BY <2>1, QuotientUnique
<1>7. d < N * S
  <2>1. s * N <= (S - 1) * N
    BY <1>1, <1>2, ProductMonotone
  <2>2. s * N \in Nat /\ (S - 1) * N = N * S - N /\ N * S \in Nat
    BY <1>1, <1>2
  <2> QED BY <1>1, <1>5, <2>1, <2>2
<1> HIDE DEF d
<1>8. OfEntry(in, b, before + d)
  <2>1. N * S \in Nat
    BY <1>1
  <2>2. before <= before + d /\ before + d < Tasks(in)[b]
    BY <1>3, <1>6, <1>7, <2>1
  <2> QED BY <2>2 DEF OfEntry, before
<1>9. BlockOf(in, b, before + d) = BlockAt(in, b, s, kv, i)
  <2>1. (before + d) - before = d
    BY <1>3, <1>6
  <2> QED BY <1>5, <1>6, <2>1 DEF BlockOf, before, N, P
<1> QED BY <1>3, <1>4, <1>6, <1>8, <1>9

-----------------------------------------------------------------------------
(* Where a block lies: within its KV head and its batch entry, and of the  *)
(* 128 tokens and Tile heads that its place has room for.                  *)
Place(in, b, s, kv, i) ==
    /\ b \in 1..Len(in.qSeqlens)
    /\ s \in 0..Blocks128(in, b) - 1
    /\ kv \in 0..in.kvHeads - 1
    /\ i \in 0..PerGroup(in, b) - 1

Placed(in, b, s, kv, i, x) ==
    /\ x.batch = b /\ x.kvHead = kv
    /\ x.token \in Nat /\ x.token = Starts(in)[b - 1] + s * 128
    /\ x.qSBlockSize \in Nat \ {0} /\ x.qSBlockSize <= 128
    /\ s * 128 + x.qSBlockSize <= in.qSeqlens[b]
    /\ s # Blocks128(in, b) - 1 => x.qSBlockSize = 128
    /\ s = Blocks128(in, b) - 1 => s * 128 + x.qSBlockSize = in.qSeqlens[b]
    /\ x.head \in Nat /\ x.head = kv * in.groupSize + i * Tile(in, b)
    /\ x.qNBlockSize \in Nat \ {0} /\ x.qNBlockSize <= Tile(in, b)
    /\ i * Tile(in, b) + x.qNBlockSize <= in.groupSize
    /\ i # PerGroup(in, b) - 1 => x.qNBlockSize = Tile(in, b)
    /\ i = PerGroup(in, b) - 1 => i * Tile(in, b) + x.qNBlockSize = in.groupSize

LEMMA BlockFacts ==
    ASSUME NEW in \in Inputs, NEW b, NEW s, NEW kv, NEW i, Place(in, b, s, kv, i)
    PROVE  Placed(in, b, s, kv, i, BlockAt(in, b, s, kv, i))
<1> DEFINE x == BlockAt(in, b, s, kv, i)
<1>0. /\ b \in 1..Len(in.qSeqlens) /\ s \in 0..Blocks128(in, b) - 1
      /\ kv \in 0..in.kvHeads - 1 /\ i \in 0..PerGroup(in, b) - 1
  BY DEF Place
<1> DEFINE q == in.qSeqlens[b]
           G == in.groupSize
           T == Tile(in, b)
           P == PerGroup(in, b)
           S == Blocks128(in, b)
           before == Starts(in)[b - 1]
<1>1. /\ q \in Nat \ {0} /\ G \in Nat \ {0} /\ T \in 1..G /\ P \in Nat \ {0}
      /\ S \in Nat \ {0} /\ in.kvHeads \in Nat \ {0}
      /\ (P - 1) * T < G /\ G <= P * T
      /\ (S - 1) * 128 < q /\ q <= S * 128
  BY <1>0, EntryFacts, InputFacts
<1>2. before \in Nat
  <2>1. b - 1 \in 0..Len(in.qSeqlens)
    BY <1>0
  <2> QED BY <2>1, TotalsFacts
<1>3. /\ x.batch = b /\ x.kvHead = kv
      /\ x.token = before + s * 128
      /\ x.qSBlockSize = IF s = S - 1 THEN q - s * 128 ELSE 128
      /\ x.head = kv * G + i * T
      /\ x.qNBlockSize = IF i = P - 1 THEN G - i * T ELSE T
  BY DEF BlockAt
<1>4. s \in 0..(S - 1) /\ i \in 0..(P - 1) /\ kv \in Nat
  BY <1>0, <1>1
<1> HIDE DEF x, q, G, T, P, S, before
<1>5. x.qSBlockSize \in 1..128 /\ s * 128 + x.qSBlockSize <= q
  BY <1>1, <1>3, <1>4
<1>6. x.qNBlockSize \in 1..T /\ i * T + x.qNBlockSize <= G
  <2>1. CASE i = P - 1
    <3>1. i * T \in Nat /\ (P - 1) * T = i * T /\ P * T = i * T + T
      BY <1>1, <2>1
    <3> QED BY <1>1, <1>3, <2>1, <3>1
  <2>2. CASE i # P - 1
    <3>1. i + 1 <= P - 1 /\ i + 1 \in Int /\ P - 1 \in Int /\ T \in Nat
      BY <1>1, <1>4, <2>2
    <3>2. (i + 1) * T <= (P - 1) * T
      BY <3>1, ProductMonotone
    <3>3. i * T \in Nat /\ (i + 1) * T = i * T + T /\ (P - 1) * T \in Int
      BY <1>1, <1>4
    <3> QED BY <1>1, <1>3, <2>2, <3>2, <3>3
  <2> QED BY <2>1, <2>2
<1>7. x.head \in Nat
  <2>1. kv * G \in Nat /\ i * T \in Nat
    BY <1>1, <1>4
  <2> QED BY <1>3, <2>1
<1>8. i * T \in Nat
  BY <1>1, <1>4
<1>9. s * 128 \in Nat /\ x.token \in Nat
  BY <1>2, <1>3, <1>4
<1>10. s = S - 1 => s * 128 + x.qSBlockSize = q
  BY <1>1, <1>3, <1>9
<1>11. i = P - 1 => i * T + x.qNBlockSize = G
  BY <1>1, <1>3, <1>8
<1>12. /\ s # S - 1 => x.qSBlockSize = 128
       /\ i # P - 1 => x.qNBlockSize = T
  BY <1>3
<1>13. /\ x.qSBlockSize \in Nat \ {0} /\ x.qSBlockSize <= 128
       /\ x.qNBlockSize \in Nat \ {0} /\ x.qNBlockSize <= T
  BY <1>1, <1>5, <1>6
<1>14. Placed(in, b, s, kv, i, x)
  BY <1>3, <1>5, <1>6, <1>13, <1>7, <1>9, <1>10, <1>11, <1>12 DEF Placed, q, G, T, P, S, before
<1> QED BY <1>14 DEF x

(* The types of what a block and its place are made of.                    *)
LEMMA PlaceTypes ==
    ASSUME NEW in \in Inputs, NEW b, NEW s, NEW kv, NEW i, NEW x,
           Place(in, b, s, kv, i), Placed(in, b, s, kv, i, x)
    PROVE  /\ b \in 1..Len(in.qSeqlens) /\ b \in Nat /\ s \in Nat /\ kv \in Nat /\ i \in Nat
           /\ x.token \in Nat /\ x.qSBlockSize \in Nat \ {0}
           /\ x.head \in Nat /\ x.qNBlockSize \in Nat \ {0}
           /\ Starts(in)[b - 1] \in Nat /\ in.qSeqlens[b] \in Nat \ {0}
           /\ Starts(in)[b] = Starts(in)[b - 1] + in.qSeqlens[b]
           /\ in.groupSize \in Nat \ {0} /\ Tile(in, b) \in Nat \ {0}
<1>1. b \in 1..Len(in.qSeqlens)
  BY DEF Place
<1>2. /\ Blocks128(in, b) \in Nat /\ in.kvHeads \in Nat /\ PerGroup(in, b) \in Nat
      /\ in.groupSize \in Nat \ {0} /\ Tile(in, b) \in 1..in.groupSize
      /\ in.qSeqlens[b] \in Nat \ {0} /\ Len(in.qSeqlens) \in Nat
  BY <1>1, EntryFacts, InputFacts
<1>3. s \in Nat /\ kv \in Nat /\ i \in Nat /\ b \in Nat /\ Tile(in, b) \in Nat \ {0}
  BY <1>1, <1>2 DEF Place
<1>4. Starts(in)[b - 1] \in Nat /\ Starts(in)[b] = Starts(in)[b - 1] + in.qSeqlens[b]
  <2>1. b - 1 \in 0..Len(in.qSeqlens)
    BY <1>1
  <2> QED BY <1>1, <2>1, TotalsFacts
<1>5. /\ x.token \in Nat /\ x.qSBlockSize \in Nat \ {0}
      /\ x.head \in Nat /\ x.qNBlockSize \in Nat \ {0}
  BY DEF Placed
<1> QED BY <1>1, <1>2, <1>3, <1>4, <1>5

(* A block of earlier tokens ends before the other.                        *)
LEMMA TokensInOrder ==
    ASSUME NEW in \in Inputs,
           NEW b, NEW s, NEW kv, NEW i, NEW x,
           NEW c, NEW t, NEW kw, NEW j, NEW y,
           Place(in, b, s, kv, i), Placed(in, b, s, kv, i, x),
           Place(in, c, t, kw, j), Placed(in, c, t, kw, j, y),
           b < c \/ (b = c /\ s < t)
    PROVE  x.token + x.qSBlockSize <= y.token
<1>1. /\ x.token = Starts(in)[b - 1] + s * 128
      /\ s * 128 + x.qSBlockSize <= in.qSeqlens[b]
      /\ x.qSBlockSize <= 128
      /\ y.token = Starts(in)[c - 1] + t * 128
  BY DEF Placed
<1>2. /\ b \in 1..Len(in.qSeqlens) /\ s \in Nat /\ x.qSBlockSize \in Nat
      /\ Starts(in)[b - 1] \in Nat /\ in.qSeqlens[b] \in Nat
      /\ Starts(in)[b] = Starts(in)[b - 1] + in.qSeqlens[b]
  BY PlaceTypes
<1>3. c \in 1..Len(in.qSeqlens) /\ t \in Nat /\ Starts(in)[c - 1] \in Nat
  BY PlaceTypes
<1>4. CASE b < c
  <2>1. Starts(in)[b] <= Starts(in)[c - 1]
    BY <1>2, <1>3, <1>4, StartsMonotone
  <2>2. x.token + x.qSBlockSize <= Starts(in)[b] /\ Starts(in)[b] \in Nat
    BY <1>1, <1>2
  <2>3. Starts(in)[c - 1] <= y.token /\ y.token \in Nat
    BY <1>1, <1>3
  <2>4. x.token + x.qSBlockSize \in Nat
    BY <1>1, <1>2
  <2> QED BY <1>3, <2>1, <2>2, <2>3, <2>4
<1>5. CASE b = c /\ s < t
  BY <1>1, <1>2, <1>3, <1>5
<1> QED BY <1>4, <1>5

(* Likewise a block of lower heads of the same entry.                      *)
LEMMA HeadsInOrder ==
    ASSUME NEW in \in Inputs,
           NEW b, NEW s, NEW kv, NEW i, NEW x,
           NEW t, NEW kw, NEW j, NEW y,
           Place(in, b, s, kv, i), Placed(in, b, s, kv, i, x),
           Place(in, b, t, kw, j), Placed(in, b, t, kw, j, y),
           kv < kw \/ (kv = kw /\ i < j)
    PROVE  x.head + x.qNBlockSize <= y.head
<1> DEFINE G == in.groupSize
           T == Tile(in, b)
<1>1. /\ x.head = kv * G + i * T
      /\ x.qNBlockSize <= T /\ i * T + x.qNBlockSize <= G
      /\ y.head = kw * G + j * T
  BY DEF Placed
<1>2. G \in Nat /\ T \in Nat /\ kv \in Nat /\ i \in Nat /\ x.qNBlockSize \in Nat
  BY PlaceTypes
<1>3. kw \in Nat /\ j \in Nat
  BY PlaceTypes
<1> HIDE DEF G, T
<1>4. kv * G \in Nat /\ kw * G \in Nat /\ i * T \in Nat /\ j * T \in Nat
  BY <1>2, <1>3
<1>5. CASE kv < kw
  <2>1. kv + 1 \in Int /\ kw \in Int /\ kv + 1 <= kw
    BY <1>2, <1>3, <1>5
  <2>2. (kv + 1) * G <= kw * G
    BY <1>2, <2>1, ProductMonotone
  <2>3. (kv + 1) * G = kv * G + G
    BY <1>2
  <2> QED BY <1>1, <1>2, <1>4, <2>2, <2>3
<1>6. CASE kv = kw /\ i < j
  <2>1. i + 1 \in Int /\ j \in Int /\ i + 1 <= j
    BY <1>2, <1>3, <1>6
  <2>2. (i + 1) * T <= j * T
    BY <1>2, <2>1, ProductMonotone
  <2>3. (i + 1) * T = i * T + T
    BY <1>2
  <2> QED BY <1>1, <1>2, <1>4, <1>6, <2>2, <2>3
<1> QED BY <1>5, <1>6

(* Two blocks share no row, unless they are the same.                      *)
LEMMA BlocksApart ==
    ASSUME NEW in \in Inputs,
           NEW b, NEW s, NEW kv, NEW i, NEW x,
           NEW c, NEW t, NEW kw, NEW j, NEW y,
           Place(in, b, s, kv, i), Placed(in, b, s, kv, i, x),
           Place(in, c, t, kw, j), Placed(in, c, t, kw, j, y),
           <<b, s, kv, i>> # <<c, t, kw, j>>
    PROVE  Tokens(x) \cap Tokens(y) = {} \/ Heads(x) \cap Heads(y) = {}
<1>1. /\ x.token \in Nat /\ x.qSBlockSize \in Nat /\ x.head \in Nat /\ x.qNBlockSize \in Nat
      /\ b \in Nat /\ s \in Nat /\ kv \in Nat /\ i \in Nat
  BY PlaceTypes
<1>2. /\ y.token \in Nat /\ y.qSBlockSize \in Nat /\ y.head \in Nat /\ y.qNBlockSize \in Nat
      /\ c \in Nat /\ t \in Nat /\ kw \in Nat /\ j \in Nat
  BY PlaceTypes
<1>3. CASE b < c \/ (b = c /\ s < t)
  <2>1. x.token + x.qSBlockSize <= y.token
    BY <1>3, TokensInOrder
  <2> QED BY <1>1, <1>2, <2>1 DEF Tokens
<1>4. CASE c < b \/ (c = b /\ t < s)
  <2>1. y.token + y.qSBlockSize <= x.token
    BY <1>4, TokensInOrder
  <2> QED BY <1>1, <1>2, <2>1 DEF Tokens
<1>5. CASE b = c /\ (kv < kw \/ (kv = kw /\ i < j))
  <2>1. x.head + x.qNBlockSize <= y.head
    BY <1>5, HeadsInOrder
  <2> QED BY <1>1, <1>2, <2>1 DEF Heads
<1>6. CASE b = c /\ (kw < kv \/ (kw = kv /\ j < i))
  <2>1. y.head + y.qNBlockSize <= x.head
    BY <1>6, HeadsInOrder
  <2> QED BY <1>1, <1>2, <2>1 DEF Heads
<1> QED BY <1>1, <1>2, <1>3, <1>4, <1>5, <1>6

(* Each row of the output, that is each token and head, is in some block.  *)
LEMMA RowInBlock ==
    ASSUME NEW in \in Inputs,
           NEW token \in 0..Starts(in)[Len(in.qSeqlens)] - 1,
           NEW head \in 0..in.kvHeads * in.groupSize - 1
    PROVE  \E b, s, kv, i :
              /\ Place(in, b, s, kv, i)
              /\ token \in Tokens(BlockAt(in, b, s, kv, i))
              /\ head \in Heads(BlockAt(in, b, s, kv, i))
<1>1. /\ in.qSeqlens \in Seq(Nat) /\ Len(in.qSeqlens) \in Nat /\ in.groupSize \in Nat \ {0}
      /\ in.kvHeads \in Nat \ {0} /\ Starts(in)[Len(in.qSeqlens)] \in Nat
  BY InputFacts, TotalsFacts
<1>2. token \in Nat /\ token < Starts(in)[Len(in.qSeqlens)]
  BY <1>1
<1>3. PICK b \in 1..Len(in.qSeqlens) : Starts(in)[b - 1] <= token /\ token < Starts(in)[b]
  <2>1. token < RunningTotal(in.qSeqlens)[Len(in.qSeqlens)]
    BY <1>2 DEF Starts
  <2> QED BY <1>1, <1>2, <2>1, TermOfNumber DEF Starts
<1> DEFINE before == Starts(in)[b - 1]
           q == in.qSeqlens[b]
           G == in.groupSize
           T == Tile(in, b)
           P == PerGroup(in, b)
           S == Blocks128(in, b)
           K == in.kvHeads
           o == token - before
           s == o \div 128
           kv == head \div G
           h == head % G
           i == h \div T
           x == BlockAt(in, b, s, kv, i)
<1>4. /\ q \in Nat /\ G \in Nat \ {0} /\ T \in Nat \ {0} /\ P \in Nat
      /\ S \in Nat /\ K \in Nat /\ q <= S * 128 /\ G <= P * T
  <2>1. /\ q \in Nat \ {0} /\ T \in 1..G /\ P \in Nat \ {0} /\ S \in Nat \ {0}
        /\ G <= P * T /\ q <= S * 128
    BY EntryFacts
  <2>2. G \in Nat \ {0} /\ K \in Nat
    BY InputFacts
  <2> HIDE DEF q, T, P, S, G, K
  <2> QED BY <2>1, <2>2
<1>5. before \in Nat /\ Starts(in)[b] = before + q
  <2>1. b - 1 \in 0..Len(in.qSeqlens)
    OBVIOUS
  <2> QED BY <2>1, TotalsFacts
<1>6. o \in Nat /\ o < q /\ token = before + o
  <2>1. before <= token /\ token < before + q
    BY <1>3, <1>5
  <2> HIDE DEF before, q
  <2> QED BY <1>2, <1>4, <1>5, <2>1
<1>7. s \in 0..(S - 1) /\ s * 128 <= o /\ o < s * 128 + 128
  <2> HIDE DEF o, q, S
  <2>1. s \in Nat /\ s * 128 <= o /\ o < s * 128 + 128
    BY <1>6
  <2> HIDE DEF s
  <2> QED BY <1>4, <1>6, <2>1
<1>8. head \in Nat /\ head < K * G
  <2> HIDE DEF q, T, P, S
  <2>1. K * G \in Nat
    BY <1>4, ProductClosed
  <2> QED BY <2>1
<1>9. /\ kv \in 0..(K - 1) /\ h \in 0..(G - 1) /\ h \in Nat
      /\ head = kv * G + h /\ kv * G \in Nat
  <2> HIDE DEF K, G
  <2>1. kv \in 0..(K - 1) /\ kv * G \in Nat
    BY <1>4, <1>8, QuotientBelow
  <2>2. h \in 0..(G - 1) /\ head = kv * G + h
    BY <1>4, <1>8, QuotientFacts
  <2> HIDE DEF h, kv
  <2> QED BY <1>4, <2>1, <2>2
<1>10. i \in 0..(P - 1) /\ i * T <= h /\ h < i * T + T /\ i * T \in Nat
  <2> HIDE DEF P, T, h, G
  <2>1. P * T \in Nat
    BY <1>4, ProductClosed
  <2>2. h < P * T
    BY <1>4, <1>9, <2>1
  <2> QED BY <1>4, <1>9, <2>2, QuotientBelow
<1>11. Place(in, b, s, kv, i)
  <2> HIDE DEF s, kv, i
  <2> QED BY <1>7, <1>9, <1>10 DEF Place
<1>12. Placed(in, b, s, kv, i, x)
  <2> HIDE DEF s, kv, i
  <2> QED BY <1>11, BlockFacts
<1> HIDE DEF x, s, kv, i, o, h, before, q, G, T, P, S, K
<1>13. token \in Tokens(x)
  <2>0. s \in Nat
    BY <1>4, <1>7
  <2>1. /\ x.token = before + s * 128 /\ x.qSBlockSize \in Nat
        /\ s # S - 1 => x.qSBlockSize = 128
        /\ s = S - 1 => s * 128 + x.qSBlockSize = q
    BY <1>12 DEF Placed, before, S, q
  <2>2. x.qSBlockSize \in Nat /\ o < s * 128 + x.qSBlockSize
    <3>1. CASE s = S - 1
      BY <1>6, <2>1, <3>1
    <3>2. CASE s # S - 1
      BY <1>7, <2>1, <3>2
    <3> QED BY <3>1, <3>2
  <2>3. x.token = before + s * 128
    BY <2>1
  <2>4. /\ x.token <= token /\ token < x.token + x.qSBlockSize
        /\ x.token \in Nat /\ x.qSBlockSize \in Nat
    BY <1>5, <1>6, <1>7, <2>0, <2>2, <2>3
  <2> QED BY <1>2, <2>4 DEF Tokens
<1>14. head \in Heads(x)
  <2>1. /\ x.head = kv * G + i * T /\ x.qNBlockSize \in Nat
        /\ i # P - 1 => x.qNBlockSize = T
        /\ i = P - 1 => i * T + x.qNBlockSize = G
    BY <1>12 DEF Placed, G, T, P
  <2>2. /\ x.head <= head /\ head < x.head + x.qNBlockSize
        /\ x.head \in Nat /\ x.qNBlockSize \in Nat
    <3>1. x.qNBlockSize \in Nat /\ h < i * T + x.qNBlockSize
      BY <1>4, <1>9, <1>10, <2>1
    <3> QED BY <1>9, <1>10, <2>1, <3>1
  <2> QED BY <1>8, <2>2 DEF Heads
<1> QED BY <1>11, <1>13, <1>14 DEF x

-----------------------------------------------------------------------------
(* The walks.                                                              *)

(* The place of a kernel that has decoded the blocks d: its next task is   *)
(* Index, and it stands at an entry that the task is not before.           *)
Index(in, u, n) == Core(u) + in.coreNum * n

WalkTo(in, b, g) ==
    [taskIdx |-> g, curBatch |-> b, preTotal |-> Tasks(in)[b - 1],
     curTotal |-> Tasks(in)[b], tokens |-> Starts(in)[b - 1]]

WalkRight(in, u, w, d) ==
    \E b \in 1..Len(in.qSeqlens) :
        /\ w = WalkTo(in, b, Index(in, u, Len(d)))
        /\ Tasks(in)[b - 1] <= Index(in, u, Len(d))

(* What it has decoded: of each task index of its core the block.          *)
DecodedRight(in, u, d) ==
    \A n \in 1..Len(d) :
        \E b \in 1..Len(in.qSeqlens) :
            /\ OfEntry(in, b, Index(in, u, n - 1))
            /\ d[n] = BlockOf(in, b, Index(in, u, n - 1))

UnitsOf(in) == Kernels \X (0..in.coreNum - 1)
BlocksIn(in) == {BlockOf(in, b, g) : b \in 1..Len(in.qSeqlens), g \in Nat}
Walks == [taskIdx : Nat, curBatch : Nat, preTotal : Nat, curTotal : Nat, tokens : Nat]

TypeOK ==
    /\ input \in Inputs
    /\ totalTaskNum = Tasks(input)[Len(input.qSeqlens)]
    /\ walk \in [UnitsOf(input) -> Walks]
    /\ decoded \in [UnitsOf(input) -> Seq(BlocksIn(input))]

Inv ==
    /\ TypeOK
    /\ \A u \in UnitsOf(input) :
          WalkRight(input, u, walk[u], decoded[u]) /\ DecodedRight(input, u, decoded[u])

(* A core's task indices go up in steps of coreNum.                        *)
LEMMA IndexFacts ==
    ASSUME NEW in \in Inputs, NEW u \in UnitsOf(in), NEW n \in Nat
    PROVE  /\ in.coreNum \in Nat \ {0} /\ Core(u) \in 0..in.coreNum - 1
           /\ Index(in, u, n) \in Nat
           /\ Index(in, u, n + 1) = Index(in, u, n) + in.coreNum
<1>1. in.coreNum \in Nat \ {0}
  BY InputFacts
<1>2. Core(u) \in 0..in.coreNum - 1
  BY DEF UnitsOf, Core
<1>3. in.coreNum * n \in Nat /\ in.coreNum * (n + 1) = in.coreNum * n + in.coreNum
  BY <1>1
<1> QED BY <1>1, <1>2, <1>3 DEF Index

(* A place is one of Walks.                                                *)
LEMMA WalkTypes ==
    ASSUME NEW in \in Inputs, NEW b \in 1..Len(in.qSeqlens), NEW g \in Nat
    PROVE  WalkTo(in, b, g) \in Walks
<1>1. /\ b \in 0..Len(in.qSeqlens) /\ b - 1 \in 0..Len(in.qSeqlens) /\ b \in Nat
  OBVIOUS
<1>2. Tasks(in)[b - 1] \in Nat /\ Tasks(in)[b] \in Nat /\ Starts(in)[b - 1] \in Nat
  BY <1>1, TotalsFacts
<1> QED BY <1>1, <1>2 DEF WalkTo, Walks

(* The start: entry 0, whose tasks the cube kernel has counted and the     *)
(* vector kernel got from the host.                                        *)
LEMMA InitInv == Init => Inv
<1> SUFFICES ASSUME Init PROVE Inv
  OBVIOUS
<1> DEFINE q(b) == input.qSeqlens[b]
<1>1. /\ input \in Inputs
      /\ firstBatchTaskNum = TaskNum(input, HostSeqlen(input, 1))
      /\ totalTaskNum = Tasks(input)[Len(input.qSeqlens)]
      /\ decoded = [u \in UnitsOf(input) |-> <<>>]
      /\ walk = [u \in UnitsOf(input) |->
                   [taskIdx |-> Core(u), curBatch |-> 1, preTotal |-> 0,
                    curTotal |-> IF u[1] = "aic" THEN TaskNum(input, input.qSeqlens[1])
                                                 ELSE firstBatchTaskNum,
                    tokens |-> 0]]
  BY DEF Init, Batch, Tasks, Units, UnitsOf
<1>2. /\ 1 \in 1..Len(input.qSeqlens) /\ HostSeqlen(input, 1) = input.qSeqlens[1]
      /\ input.coreNum \in Nat
  BY <1>1, InputFacts
<1>3. /\ Tasks(input)[0] = 0 /\ Starts(input)[0] = 0
      /\ Tasks(input)[1] = TaskNum(input, input.qSeqlens[1])
  <2>1. Tasks(input)[1] = Tasks(input)[1 - 1] + TaskNum(input, input.qSeqlens[1])
    BY <1>1, <1>2, TotalsFacts
  <2>2. TaskNum(input, input.qSeqlens[1]) \in Nat
    BY <1>1, <1>2, EntryFacts
  <2>3. Tasks(input)[0] = 0 /\ Starts(input)[0] = 0
    BY <1>1, TotalsFacts
  <2> QED BY <2>1, <2>2, <2>3
<1>4. ASSUME NEW u \in UnitsOf(input)
      PROVE  /\ decoded[u] = <<>>
             /\ walk[u] = WalkTo(input, 1, Core(u))
             /\ Index(input, u, Len(decoded[u])) = Core(u)
             /\ Core(u) \in Nat
  <2>1. decoded[u] = <<>> /\ Len(decoded[u]) = 0
    BY <1>1
  <2>2. Core(u) \in Nat
    BY <1>2 DEF UnitsOf, Core
  <2>3. Index(input, u, 0) = Core(u)
    BY <1>2, <2>2 DEF Index
  <2>4. walk[u] = WalkTo(input, 1, Core(u))
    BY <1>1, <1>2, <1>3 DEF WalkTo
  <2> QED BY <2>1, <2>2, <2>3, <2>4
<1>5. TypeOK
  <2>1. \A u \in UnitsOf(input) : walk[u] \in Walks
    BY <1>1, <1>2, <1>4, WalkTypes
  <2>2. walk \in [UnitsOf(input) -> Walks]
    BY <1>1, <2>1
  <2>3. decoded \in [UnitsOf(input) -> Seq(BlocksIn(input))]
    BY <1>1
  <2> QED BY <1>1, <2>2, <2>3 DEF TypeOK
<1>6. ASSUME NEW u \in UnitsOf(input)
      PROVE  WalkRight(input, u, walk[u], decoded[u]) /\ DecodedRight(input, u, decoded[u])
  <2>1. Tasks(input)[1 - 1] <= Core(u)
    BY <1>3, <1>4
  <2>2. WalkRight(input, u, walk[u], decoded[u])
    BY <1>2, <1>4, <2>1 DEF WalkRight
  <2>3. DecodedRight(input, u, decoded[u])
    BY <1>4 DEF DecodedRight
  <2> QED BY <2>2, <2>3
<1> QED BY <1>5, <1>6 DEF Inv

(* One turn of the while loop: there is a next entry, since a task index   *)
(* below the total is before the end of the last one.                      *)
NextEntry(in, w) ==
    [taskIdx |-> w.taskIdx,
     curBatch |-> w.curBatch + 1,
     preTotal |-> w.curTotal,
     curTotal |-> w.curTotal + TaskNum(in, in.qSeqlens[w.curBatch + 1]),
     tokens |-> w.tokens + in.qSeqlens[w.curBatch]]

LEMMA WalkOn ==
    ASSUME NEW in \in Inputs, NEW u \in UnitsOf(in), NEW w, NEW d, Len(d) \in Nat,
           WalkRight(in, u, w, d),
           w.taskIdx < Tasks(in)[Len(in.qSeqlens)], w.taskIdx >= w.curTotal
    PROVE  /\ w.curBatch + 1 \in 1..Len(in.qSeqlens) /\ w.curBatch \in 1..Len(in.qSeqlens)
           /\ LET v == NextEntry(in, w)
              IN  WalkRight(in, u, v, d) /\ v \in Walks
<1> DEFINE g == Index(in, u, Len(d))
           v == NextEntry(in, w)
<1>1. PICK b \in 1..Len(in.qSeqlens) : w = WalkTo(in, b, g) /\ Tasks(in)[b - 1] <= g
  BY DEF WalkRight
<1>2. /\ w.taskIdx = g /\ w.curBatch = b /\ w.curTotal = Tasks(in)[b]
      /\ w.tokens = Starts(in)[b - 1]
  BY <1>1 DEF WalkTo
<1>3. g \in Nat /\ Len(in.qSeqlens) \in Nat
  BY IndexFacts, InputFacts
<1> HIDE DEF g
<1>4. b # Len(in.qSeqlens)
  <2>1. Tasks(in)[b] \in Nat
    BY TotalsFacts
  <2> QED BY <1>2, <1>3, <2>1
<1>5. b + 1 \in 1..Len(in.qSeqlens) /\ (b + 1) - 1 = b
  BY <1>3, <1>4
<1>6. /\ Tasks(in)[b + 1] = Tasks(in)[b] + TaskNum(in, in.qSeqlens[b + 1])
      /\ Starts(in)[b] = Starts(in)[b - 1] + in.qSeqlens[b]
  BY <1>5, TotalsFacts
<1>7. v = WalkTo(in, b + 1, g)
  BY <1>2, <1>5, <1>6 DEF WalkTo, NextEntry
<1>8. WalkRight(in, u, v, d)
  <2>1. Tasks(in)[(b + 1) - 1] <= g
    BY <1>2, <1>5
  <2> HIDE DEF v
  <2> QED BY <1>5, <1>7, <2>1 DEF WalkRight, g
<1>9. v \in Walks
  BY <1>3, <1>5, <1>7, WalkTypes
<1> QED BY <1>2, <1>5, <1>8, <1>9

(* One turn of the task loop.                                              *)
LEMMA RunOn ==
    ASSUME NEW in \in Inputs, input = in, NEW u \in UnitsOf(in),
           NEW w, NEW d \in Seq(BlocksIn(in)),
           WalkRight(in, u, w, d), DecodedRight(in, u, d),
           w.taskIdx < w.curTotal
    PROVE  /\ Append(d, Block(w)) \in Seq(BlocksIn(in))
           /\ DecodedRight(in, u, Append(d, Block(w)))
           /\ LET v == [w EXCEPT !.taskIdx = @ + in.coreNum]
              IN  WalkRight(in, u, v, Append(d, Block(w))) /\ v \in Walks
<1> DEFINE g == Index(in, u, Len(d))
           e == Append(d, Block(w))
           v == [w EXCEPT !.taskIdx = @ + in.coreNum]
<1>1. PICK b \in 1..Len(in.qSeqlens) : w = WalkTo(in, b, g) /\ Tasks(in)[b - 1] <= g
  BY DEF WalkRight
<1>2. /\ w.taskIdx = g /\ w.curBatch = b /\ w.preTotal = Tasks(in)[b - 1]
      /\ w.curTotal = Tasks(in)[b] /\ w.tokens = Starts(in)[b - 1]
  BY <1>1 DEF WalkTo
<1>3. Len(d) \in Nat /\ g \in Nat /\ Index(in, u, Len(d) + 1) = g + in.coreNum
      /\ in.coreNum \in Nat
  <2>1. Len(d) \in Nat
    OBVIOUS
  <2> QED BY <2>1, IndexFacts
<1>4. OfEntry(in, b, g)
  BY <1>1, <1>2 DEF OfEntry
<1>5. Block(w) = BlockOf(in, b, g)
  <2>1. SeqlenAt(b) = in.qSeqlens[b]
    BY DEF SeqlenAt, Batch
  <2> HIDE DEF g
  <2> QED BY <1>2, <2>1
      DEF Block, BlockOf, BlockAt, Tile, PerGroup, PerBlock, Blocks128, GetQSBlockTile
<1>6. Block(w) \in BlocksIn(in)
  <2> HIDE DEF g
  <2> QED BY <1>3, <1>5 DEF BlocksIn
<1>7. /\ e \in Seq(BlocksIn(in)) /\ Len(e) = Len(d) + 1 /\ e[Len(d) + 1] = Block(w)
      /\ \A n \in 1..Len(d) : e[n] = d[n]
  BY <1>6
<1> HIDE DEF e
<1>8. DecodedRight(in, u, e)
  <2> SUFFICES ASSUME NEW n \in 1..Len(e)
               PROVE  \E c \in 1..Len(in.qSeqlens) :
                         /\ OfEntry(in, c, Index(in, u, n - 1))
                         /\ e[n] = BlockOf(in, c, Index(in, u, n - 1))
    BY DEF DecodedRight
  <2>1. CASE n \in 1..Len(d)
    BY <1>7, <2>1 DEF DecodedRight
  <2>2. CASE n = Len(d) + 1
    <3>1. n - 1 = Len(d)
      BY <1>3, <2>2
    <3> QED BY <1>4, <1>5, <1>7, <2>2, <3>1
  <2>3. n \in 1..Len(d) \/ n = Len(d) + 1
    BY <1>3, <1>7
  <2> QED BY <2>1, <2>2, <2>3
<1>9. v = WalkTo(in, b, g + in.coreNum)
  <2> HIDE DEF g
  <2> QED BY <1>1 DEF WalkTo
<1>10. WalkRight(in, u, v, e)
  <2>1. Index(in, u, Len(e)) = g + in.coreNum
    BY <1>3, <1>7
  <2>2. Tasks(in)[b - 1] \in Nat
    <3>1. b - 1 \in 0..Len(in.qSeqlens)
      OBVIOUS
    <3> QED BY <3>1, TotalsFacts
  <2>3. Tasks(in)[b - 1] <= g + in.coreNum
    <3> HIDE DEF g
    <3> QED BY <1>1, <1>3, <2>2
  <2> HIDE DEF v, g
  <2> QED BY <1>9, <2>1, <2>3 DEF WalkRight
<1>11. v \in Walks
  <2>1. g + in.coreNum \in Nat
    <3> HIDE DEF g
    <3> QED BY <1>3
  <2> HIDE DEF v, g
  <2> QED BY <1>9, <2>1, WalkTypes
<1> QED BY <1>7, <1>8, <1>10, <1>11 DEF e

(* Each step keeps every walk right: the one that moves by WalkOn or RunOn,*)
(* the others because they stand still.                                    *)
LEMMA NextInv == Inv /\ [Next]_vars => Inv'
<1> SUFFICES ASSUME Inv, [Next]_vars PROVE Inv'
  OBVIOUS
<1> DEFINE in == input
<1>1. /\ in \in Inputs /\ totalTaskNum = Tasks(in)[Len(in.qSeqlens)]
      /\ walk \in [UnitsOf(in) -> Walks]
      /\ decoded \in [UnitsOf(in) -> Seq(BlocksIn(in))]
      /\ \A u \in UnitsOf(in) :
            WalkRight(in, u, walk[u], decoded[u]) /\ DecodedRight(in, u, decoded[u])
  BY DEF Inv, TypeOK
<1>2. Units = UnitsOf(in)
  BY DEF Units, UnitsOf
<1>3. ASSUME NEW u \in Units, NextBatch(u) PROVE Inv'
  <2> DEFINE w == walk[u]
             v == NextEntry(in, w)
  <2>1. /\ w.taskIdx < totalTaskNum /\ w.taskIdx >= w.curTotal
        /\ walk' = [walk EXCEPT ![u] =
                      [taskIdx |-> w.taskIdx,
                       curBatch |-> w.curBatch + 1,
                       preTotal |-> w.curTotal,
                       curTotal |-> w.curTotal + TaskNum(in, SeqlenAt(w.curBatch + 1)),
                       tokens |-> w.tokens + SeqlenAt(w.curBatch)]]
        /\ input' = in /\ totalTaskNum' = totalTaskNum /\ decoded' = decoded
    BY <1>3 DEF NextBatch
  <2>2. Len(decoded[u]) \in Nat
    BY <1>1, <1>2
  <2>3. /\ w.curBatch + 1 \in 1..Len(in.qSeqlens) /\ w.curBatch \in 1..Len(in.qSeqlens)
        /\ WalkRight(in, u, v, decoded[u]) /\ v \in Walks
    BY <1>1, <1>2, <2>1, <2>2, WalkOn
  <2>4. walk' = [walk EXCEPT ![u] = v]
    <3>1. SeqlenAt(w.curBatch + 1) = in.qSeqlens[w.curBatch + 1]
      BY <2>3 DEF SeqlenAt, Batch
    <3>2. SeqlenAt(w.curBatch) = in.qSeqlens[w.curBatch]
      BY <2>3 DEF SeqlenAt, Batch
    <3> QED BY <2>1, <3>1, <3>2 DEF NextEntry
  <2> HIDE DEF v, w
  <2>5. walk'[u] = v /\ walk' \in [UnitsOf(in) -> Walks]
        /\ \A x \in UnitsOf(in) : x # u => walk'[x] = walk[x]
    BY <1>1, <1>2, <2>3, <2>4
  <2>6. \A x \in UnitsOf(in) : WalkRight(in, x, walk'[x], decoded'[x])
                               /\ DecodedRight(in, x, decoded'[x])
    BY <1>1, <2>1, <2>3, <2>5
  <2> QED BY <1>1, <2>1, <2>5, <2>6 DEF Inv, TypeOK
<1>4. ASSUME NEW u \in Units, RunTask(u) PROVE Inv'
  <2> DEFINE w == walk[u]
             v == [w EXCEPT !.taskIdx = @ + in.coreNum]
             e == Append(decoded[u], Block(w))
  <2>1. /\ w.taskIdx < w.curTotal
        /\ decoded' = [decoded EXCEPT ![u] = e]
        /\ walk' = [walk EXCEPT ![u] = v]
        /\ input' = in /\ totalTaskNum' = totalTaskNum
    BY <1>1, <1>2, <1>4 DEF RunTask
  <2>2. /\ e \in Seq(BlocksIn(in)) /\ DecodedRight(in, u, e)
        /\ WalkRight(in, u, v, e) /\ v \in Walks
    BY <1>1, <1>2, <2>1, RunOn
  <2> HIDE DEF v, e, w
  <2>3. walk'[u] = v /\ walk' \in [UnitsOf(in) -> Walks]
        /\ \A x \in UnitsOf(in) : x # u => walk'[x] = walk[x]
    BY <1>1, <1>2, <2>1, <2>2
  <2>4. decoded'[u] = e /\ decoded' \in [UnitsOf(in) -> Seq(BlocksIn(in))]
        /\ \A x \in UnitsOf(in) : x # u => decoded'[x] = decoded[x]
    BY <1>1, <1>2, <2>1, <2>2
  <2>5. \A x \in UnitsOf(in) : WalkRight(in, x, walk'[x], decoded'[x])
                               /\ DecodedRight(in, x, decoded'[x])
    BY <1>1, <2>2, <2>3, <2>4
  <2> QED BY <1>1, <2>1, <2>3, <2>4, <2>5 DEF Inv, TypeOK
<1>5. CASE UNCHANGED vars
  BY <1>1, <1>5 DEF vars, Inv, TypeOK
<1> QED BY <1>3, <1>4, <1>5 DEF Next, Terminated

-----------------------------------------------------------------------------
(* What the invariant says of a block that was decoded.                    *)
LEMMA DecodedBlock ==
    ASSUME Inv, NEW u \in Units, NEW n \in 1..Len(decoded[u])
    PROVE  \E b, s, kv, i :
              /\ Place(input, b, s, kv, i)
              /\ Index(input, u, n - 1) = Number(input, b, s, kv, i)
              /\ decoded[u][n] = BlockAt(input, b, s, kv, i)
              /\ Placed(input, b, s, kv, i, decoded[u][n])
<1>1. /\ input \in Inputs /\ u \in UnitsOf(input)
      /\ decoded[u] \in Seq(BlocksIn(input)) /\ DecodedRight(input, u, decoded[u])
  BY DEF Inv, TypeOK, Units, UnitsOf
<1>2. n - 1 \in Nat
  BY <1>1
<1>3. PICK b \in 1..Len(input.qSeqlens) :
         /\ OfEntry(input, b, Index(input, u, n - 1))
         /\ decoded[u][n] = BlockOf(input, b, Index(input, u, n - 1))
  BY <1>1 DEF DecodedRight
<1>4. Index(input, u, n - 1) \in Nat
  BY <1>1, <1>2, IndexFacts
<1>5. PICK s \in 0..Blocks128(input, b) - 1, kv \in 0..input.kvHeads - 1,
           i \in 0..PerGroup(input, b) - 1 :
         /\ Index(input, u, n - 1) = Number(input, b, s, kv, i)
         /\ BlockOf(input, b, Index(input, u, n - 1)) = BlockAt(input, b, s, kv, i)
  BY <1>1, <1>3, <1>4, Decode
<1>6. Place(input, b, s, kv, i)
  BY DEF Place
<1>7. Placed(input, b, s, kv, i, BlockAt(input, b, s, kv, i))
  BY <1>1, <1>6, BlockFacts
<1> QED BY <1>3, <1>5, <1>6, <1>7

(* The last block of a unit is one that it decoded.                        *)
LEMMA LatestBlock ==
    ASSUME Inv, NEW x \in Latest
    PROVE  \E b, s, kv, i : /\ Place(input, b, s, kv, i)
                            /\ Placed(input, b, s, kv, i, x)
                            /\ x = BlockAt(input, b, s, kv, i)
<1>1. PICK u \in Units : decoded[u] # <<>> /\ x = decoded[u][Len(decoded[u])]
  BY DEF Latest
<1>2. decoded[u] \in Seq(BlocksIn(input))
  BY DEF Inv, TypeOK, Units, UnitsOf
<1>3. Len(decoded[u]) \in 1..Len(decoded[u])
  BY <1>1, <1>2
<1> QED BY <1>1, <1>3, DecodedBlock

(* The n-th block of the cube kernel of a core and of its vector kernel    *)
(* are of the same task index, which is of one entry.                      *)
LEMMA DecodeAlike == Inv => KernelsDecodeAlike
<1> SUFFICES ASSUME Inv, NEW c \in 0..input.coreNum - 1,
                    NEW n \in 1..AtMost(Len(decoded[<<"aic", c>>]), Len(decoded[<<"aiv", c>>]))
             PROVE  decoded[<<"aic", c>>][n] = decoded[<<"aiv", c>>][n]
  BY DEF KernelsDecodeAlike
<1> DEFINE u == <<"aic", c>>
           v == <<"aiv", c>>
           g == Index(input, u, n - 1)
<1>1. input \in Inputs /\ u \in UnitsOf(input) /\ v \in UnitsOf(input)
  BY DEF Inv, TypeOK, UnitsOf, Kernels
<1>2. /\ decoded[u] \in Seq(BlocksIn(input)) /\ DecodedRight(input, u, decoded[u])
      /\ decoded[v] \in Seq(BlocksIn(input)) /\ DecodedRight(input, v, decoded[v])
  BY <1>1 DEF Inv, TypeOK
<1>3. n \in 1..Len(decoded[u]) /\ n \in 1..Len(decoded[v]) /\ n - 1 \in Nat
  <2>1. Len(decoded[u]) \in Nat /\ Len(decoded[v]) \in Nat
    BY <1>2
  <2>2. n \in 1..AtMost(Len(decoded[u]), Len(decoded[v]))
    OBVIOUS
  <2> HIDE DEF u, v
  <2> QED BY <2>1, <2>2 DEF AtMost
<1>4. Index(input, v, n - 1) = g /\ g \in Nat
  <2>1. Core(u) = c /\ Core(v) = c
    BY DEF Core
  <2>2. Index(input, u, n - 1) \in Nat
    BY <1>1, <1>3, IndexFacts
  <2> QED BY <2>1, <2>2 DEF Index
<1> HIDE DEF u, v, g
<1>5. PICK b \in 1..Len(input.qSeqlens) :
         OfEntry(input, b, g) /\ decoded[u][n] = BlockOf(input, b, g)
  BY <1>2, <1>3 DEF DecodedRight, g
<1>6. PICK e \in 1..Len(input.qSeqlens) :
         OfEntry(input, e, g) /\ decoded[v][n] = BlockOf(input, e, g)
  BY <1>2, <1>3, <1>4 DEF DecodedRight
<1>7. b = e
  BY <1>1, <1>4, <1>5, <1>6, EntryUnique
<1> QED BY <1>5, <1>6, <1>7 DEF u, v

(* A block stays within its batch entry and its KV head.                   *)
LEMMA InEntry ==
    ASSUME Inv, NEW x \in Latest
    PROVE  BlockInItsEntry(x)
<1>1. PICK b, s, kv, i : Place(input, b, s, kv, i) /\ Placed(input, b, s, kv, i, x)
  BY LatestBlock
<1>2. input \in Inputs
  BY DEF Inv, TypeOK
<1>3. /\ b \in 1..Len(input.qSeqlens) /\ b \in Nat /\ s \in Nat /\ kv \in Nat /\ i \in Nat
      /\ x.token \in Nat /\ x.qSBlockSize \in Nat \ {0}
      /\ x.head \in Nat /\ x.qNBlockSize \in Nat \ {0}
      /\ Starts(input)[b - 1] \in Nat /\ input.qSeqlens[b] \in Nat \ {0}
      /\ input.groupSize \in Nat \ {0} /\ Tile(input, b) \in Nat \ {0}
  BY <1>1, <1>2, PlaceTypes
<1>4. /\ x.batch = b /\ x.kvHead = kv
      /\ x.token = Starts(input)[b - 1] + s * 128
      /\ s * 128 + x.qSBlockSize <= input.qSeqlens[b]
      /\ x.head = kv * input.groupSize + i * Tile(input, b)
      /\ i * Tile(input, b) + x.qNBlockSize <= input.groupSize
  BY <1>1 DEF Placed
<1>5. TokensBefore(x.batch) = Starts(input)[b - 1]
  BY <1>4 DEF TokensBefore, Starts
<1>6. /\ x.token >= TokensBefore(x.batch)
      /\ x.token + x.qSBlockSize <= TokensBefore(x.batch) + input.qSeqlens[x.batch]
  <2>1. s * 128 \in Nat
    BY <1>3
  <2>2. /\ x.token >= Starts(input)[b - 1]
        /\ x.token + x.qSBlockSize <= Starts(input)[b - 1] + input.qSeqlens[b]
    BY <1>3, <1>4, <2>1, Within
  <2> QED BY <1>4, <1>5, <2>2
<1>7. /\ x.head >= x.kvHead * input.groupSize
      /\ x.head + x.qNBlockSize <= (x.kvHead + 1) * input.groupSize
  <2> DEFINE p == kv * input.groupSize
             r == i * Tile(input, b)
  <2>1. /\ p \in Nat /\ r \in Nat /\ x.qNBlockSize \in Nat /\ input.groupSize \in Nat
        /\ x.head = p + r /\ r + x.qNBlockSize <= input.groupSize
    <3>1. p \in Nat /\ r \in Nat
      BY <1>3, ProductClosed
    <3>2. x.head = p + r /\ r + x.qNBlockSize <= input.groupSize
      BY <1>4
    <3> QED BY <1>3, <3>1, <3>2
  <2> HIDE DEF p, r
  <2>2. x.head >= p /\ x.head + x.qNBlockSize <= p + input.groupSize
    BY <2>1, Within
  <2>3. kv \in Int /\ input.groupSize \in Int
    BY <1>3
  <2>4. (kv + 1) * input.groupSize = kv * input.groupSize + input.groupSize
    BY <2>3, ProductNext
  <2> QED BY <1>4, <2>2, <2>4 DEF p
<1> QED BY <1>3, <1>6, <1>7 DEF BlockInItsEntry

(* Two blocks with the same place are the same, others share no row.       *)
LEMMA NoRowTwice ==
    ASSUME Inv, NEW x \in Latest, NEW y \in Decoded("aiv"), x # y
    PROVE  Tokens(x) \cap Tokens(y) = {} \/ Heads(x) \cap Heads(y) = {}
<1>1. PICK b, s, kv, i : /\ Place(input, b, s, kv, i) /\ Placed(input, b, s, kv, i, x)
                         /\ x = BlockAt(input, b, s, kv, i)
  BY LatestBlock
<1>2. PICK c \in 0..input.coreNum - 1 : y \in BlocksOf(<<"aiv", c>>)
  BY DEF Decoded
<1>3. PICK n \in 1..Len(decoded[<<"aiv", c>>]) : y = decoded[<<"aiv", c>>][n]
  BY <1>2 DEF BlocksOf
<1>4. <<"aiv", c>> \in Units
  BY DEF Units, Kernels
<1>5. PICK e, t, kw, j : /\ Place(input, e, t, kw, j) /\ Placed(input, e, t, kw, j, y)
                         /\ y = BlockAt(input, e, t, kw, j)
  BY <1>3, <1>4, DecodedBlock
<1>6. <<b, s, kv, i>> # <<e, t, kw, j>>
  BY <1>1, <1>5
<1>7. input \in Inputs
  BY DEF Inv, TypeOK
<1> QED BY <1>1, <1>5, <1>6, <1>7, BlocksApart

(* When the walks are over, the block of every place was decoded: by the   *)
(* core that its number leaves as remainder.                               *)
LEMMA PlaceDecoded ==
    ASSUME Inv, Done, NEW b, NEW s, NEW kv, NEW i, Place(input, b, s, kv, i)
    PROVE  BlockAt(input, b, s, kv, i) \in Decoded("aiv")
<1> DEFINE g == Number(input, b, s, kv, i)
           m == input.coreNum
           c == g % m
           k == g \div m
           u == <<"aiv", c>>
           d == decoded[u]
<1>1. input \in Inputs /\ totalTaskNum = Tasks(input)[Len(input.qSeqlens)]
  BY DEF Inv, TypeOK
<1>2. /\ b \in 1..Len(input.qSeqlens) /\ s \in 0..Blocks128(input, b) - 1
      /\ kv \in 0..input.kvHeads - 1 /\ i \in 0..PerGroup(input, b) - 1
  BY DEF Place
<1>3. /\ g \in Nat /\ OfEntry(input, b, g)
      /\ BlockOf(input, b, g) = BlockAt(input, b, s, kv, i)
  BY <1>1, <1>2, Encode
<1> HIDE DEF g
<1>4. g < totalTaskNum /\ totalTaskNum \in Nat
  <2>1. /\ b \in 0..Len(input.qSeqlens) /\ Len(input.qSeqlens) \in b..Len(input.qSeqlens)
        /\ Len(input.qSeqlens) \in 0..Len(input.qSeqlens)
    BY <1>1, <1>2, InputFacts
  <2>2. Tasks(input)[b] <= Tasks(input)[Len(input.qSeqlens)]
    BY <1>1, <2>1, TotalsFacts, RunningTotalMonotone DEF Tasks
  <2>3. Tasks(input)[b] \in Nat /\ Tasks(input)[Len(input.qSeqlens)] \in Nat
    BY <1>1, <2>1, TotalsFacts
  <2>4. g < Tasks(input)[b]
    BY <1>3 DEF OfEntry
  <2> QED BY <1>1, <1>3, <2>2, <2>3, <2>4
<1>5. m \in Nat \ {0}
  BY <1>1, InputFacts
<1> HIDE DEF m
<1>6. c \in 0..m - 1 /\ k \in Nat /\ g = k * m + c
  BY <1>3, <1>5, QuotientFacts
<1> HIDE DEF c, k
<1>7. u \in UnitsOf(input) /\ u \in Units /\ Core(u) = c
  BY <1>6 DEF UnitsOf, Units, Kernels, Core, m
<1>8. d \in Seq(BlocksIn(input)) /\ WalkRight(input, u, walk[u], d)
      /\ DecodedRight(input, u, d)
  BY <1>7 DEF Inv, TypeOK
<1>9. walk[u].taskIdx >= totalTaskNum
  BY <1>7 DEF Done
<1> HIDE DEF u, d
<1>10. k < Len(d)
  <2>1. PICK e \in 1..Len(input.qSeqlens) : walk[u] = WalkTo(input, e, Index(input, u, Len(d)))
    BY <1>8 DEF WalkRight
  <2>2. walk[u].taskIdx = c + m * Len(d)
    BY <1>7, <2>1 DEF WalkTo, Index, m
  <2>3. Len(d) \in Nat /\ m * Len(d) = Len(d) * m /\ Len(d) * m \in Nat /\ k * m \in Nat
    BY <1>5, <1>6, <1>8
  <2>4. k * m < Len(d) * m
    BY <1>4, <1>5, <1>6, <1>9, <2>2, <2>3
  <2> QED BY <1>5, <1>6, <2>3, <2>4, ProductCompare
<1>11. k + 1 \in 1..Len(d) /\ (k + 1) - 1 = k
  BY <1>6, <1>8, <1>10
<1>12. Index(input, u, k) = g
  BY <1>5, <1>6, <1>7 DEF Index, m
<1>13. d[k + 1] = BlockAt(input, b, s, kv, i)
  <2>1. PICK e \in 1..Len(input.qSeqlens) :
           OfEntry(input, e, g) /\ d[k + 1] = BlockOf(input, e, g)
    BY <1>8, <1>11, <1>12 DEF DecodedRight
  <2>2. e = b
    BY <1>1, <1>2, <1>3, <2>1, EntryUnique
  <2> QED BY <1>3, <2>1, <2>2
<1>14. d[k + 1] \in BlocksOf(u)
  BY <1>11 DEF BlocksOf, d
<1> QED BY <1>6, <1>13, <1>14 DEF Decoded, u, m

(* The two together: the rows of the blocks are disjoint and cover.        *)
LEMMA TileOutput == Inv => BlocksTileOutput
<1> SUFFICES ASSUME Inv PROVE BlocksTileOutput
  OBVIOUS
<1>1. \A x \in Latest : BlockInItsEntry(x)
  BY InEntry
<1>2. \A x \in Latest, y \in Decoded("aiv") :
         x # y => Tokens(x) \cap Tokens(y) = {} \/ Heads(x) \cap Heads(y) = {}
  BY NoRowTwice
<1>3. ASSUME Done, NEW token \in 0..TokensBefore(Batch + 1) - 1, NEW head \in 0..numHeads - 1
      PROVE  \E x \in Decoded("aiv") : token \in Tokens(x) /\ head \in Heads(x)
  <2>1. input \in Inputs
    BY DEF Inv, TypeOK
  <2>2. TokensBefore(Batch + 1) = Starts(input)[Len(input.qSeqlens)]
    <3>1. (Len(input.qSeqlens) + 1) - 1 = Len(input.qSeqlens)
      BY <2>1, InputFacts
    <3> QED BY <3>1 DEF TokensBefore, Starts, Batch
  <2>3. PICK b, s, kv, i :
           /\ Place(input, b, s, kv, i)
           /\ token \in Tokens(BlockAt(input, b, s, kv, i))
           /\ head \in Heads(BlockAt(input, b, s, kv, i))
    BY <2>1, <2>2, RowInBlock DEF numHeads
  <2>4. BlockAt(input, b, s, kv, i) \in Decoded("aiv")
    BY <1>3, <2>3, PlaceDecoded
  <2> QED BY <2>3, <2>4
<1> QED BY <1>1, <1>2, <1>3 DEF BlocksTileOutput

-----------------------------------------------------------------------------
(* The rows of one block.  What they depend on is its shape.               *)
Shape(x) ==
    /\ x.token \in Nat /\ x.head \in Nat
    /\ x.qSBlockSize \in Nat \ {0} /\ x.qNBlockSize \in Nat \ {0}
    /\ x.qSBlockSize <= 128
    /\ x.qNBlockSize > 1 =>
          \E e \in Nat : x.qNBlockSize <= 2 * e /\ x.qSBlockSize * (2 * e) <= 128

(* A tile of several heads is within an even number of heads of which all  *)
(* rows fit in 128 (TileFacts).                                            *)
LEMMA LatestShape ==
    ASSUME Inv, NEW x \in Latest
    PROVE  Shape(x)
<1>1. PICK b, s, kv, i : Place(input, b, s, kv, i) /\ Placed(input, b, s, kv, i, x)
  BY LatestBlock
<1>2. input \in Inputs
  BY DEF Inv, TypeOK
<1>3. /\ b \in 1..Len(input.qSeqlens) /\ s \in Nat
      /\ x.token \in Nat /\ x.qSBlockSize \in Nat \ {0}
      /\ x.head \in Nat /\ x.qNBlockSize \in Nat \ {0}
      /\ input.qSeqlens[b] \in Nat \ {0} /\ input.groupSize \in Nat \ {0}
      /\ Tile(input, b) \in Nat
  BY <1>1, <1>2, PlaceTypes
<1>4. x.qSBlockSize <= 128 /\ x.qSBlockSize <= input.qSeqlens[b] /\ x.qNBlockSize <= Tile(input, b)
  <2>1. /\ x.qSBlockSize <= 128 /\ s * 128 + x.qSBlockSize <= input.qSeqlens[b]
        /\ x.qNBlockSize <= Tile(input, b)
    BY <1>1 DEF Placed
  <2> QED BY <1>3, <2>1
<1>5. ASSUME x.qNBlockSize > 1
      PROVE  \E e \in Nat : x.qNBlockSize <= 2 * e /\ x.qSBlockSize * (2 * e) <= 128
  <2>1. Tile(input, b) > 1
    BY <1>3, <1>4, <1>5
  <2>2. PICK e \in Nat : Tile(input, b) <= 2 * e /\ input.qSeqlens[b] * (2 * e) <= 128
    BY <1>3, <2>1, TileFacts DEF Tile
  <2>3. /\ x.qSBlockSize * (2 * e) \in Int /\ input.qSeqlens[b] * (2 * e) \in Int
        /\ x.qSBlockSize * (2 * e) <= input.qSeqlens[b] * (2 * e)
    <3>1. 2 * e \in Nat
      OBVIOUS
    <3>2. x.qSBlockSize \in Int /\ input.qSeqlens[b] \in Int
      BY <1>3
    <3> QED BY <1>4, <3>1, <3>2, ProductMonotone
  <2>4. x.qSBlockSize * (2 * e) <= 128
    BY <2>2, <2>3
  <2>5. x.qNBlockSize <= 2 * e
    BY <1>3, <1>4, <2>2
  <2> QED BY <2>4, <2>5
<1> QED BY <1>3, <1>4, <1>5 DEF Shape

(* The split of the rows among the sub-blocks.                             *)
LEMMA SplitFacts ==
    ASSUME NEW x, Shape(x)
    PROVE  /\ RowNum(x) \in 0..128
           /\ rowSplitSubBlock(x) \in 0..64
           /\ RowNum(x) - rowSplitSubBlock(x) \in 0..64
<1> DEFINE q == x.qSBlockSize
           n == x.qNBlockSize
           h == n \div 2
<1>1. q \in Nat /\ q <= 128 /\ n \in Nat \ {0}
  BY DEF Shape
<1>2. RowNum(x) = q * n
  BY DEF RowNum
<1>3. CASE n = 1
  <2>1. rowSplitSubBlock(x) = q \div 2
    BY <1>3 DEF rowSplitSubBlock, subBlockNum
  <2>2. RowNum(x) = q
    BY <1>1, <1>2, <1>3
  <2> HIDE DEF q, n
  <2> QED BY <1>1, <2>1, <2>2
<1>4. CASE n # 1
  <2>1. PICK e \in Nat : n <= 2 * e /\ q * (2 * e) <= 128
    BY <1>1, <1>4 DEF Shape
  <2>2. rowSplitSubBlock(x) = q * h
    BY <1>4 DEF rowSplitSubBlock, subBlockNum
  <2> HIDE DEF q
  <2>3. h \in Nat /\ h <= e /\ n - h \in Nat /\ n - h <= e
    <3> HIDE DEF n
    <3> QED BY <1>1, <2>1
  <2> HIDE DEF n, h
  <2>4. q * e \in Nat /\ q * (2 * e) = 2 * (q * e)
    BY <1>1
  <2>5. q * h \in Nat /\ q * h <= q * e
    BY <1>1, <2>1, <2>3
  <2>6. q * (n - h) \in Nat /\ q * (n - h) <= q * e
    BY <1>1, <2>1, <2>3
  <2>7. q * n = q * h + q * (n - h)
    BY <1>1, <2>3
  <2>8. q * e <= 64
    BY <2>1, <2>4
  <2> QED BY <1>2, <2>2, <2>4, <2>5, <2>6, <2>7, <2>8
<1> QED BY <1>3, <1>4

(* The latest blocks have that shape.                                      *)
LEMMA Fit == Inv => RowsFit
<1> SUFFICES ASSUME Inv, NEW x \in Latest
             PROVE  /\ RowNum(x) <= 128
                    /\ \A s \in 0..subBlockNum - 1 : rowActualThisSubBlock(x, s) \in 0..64
  BY DEF RowsFit
<1>1. /\ RowNum(x) \in 0..128 /\ rowSplitSubBlock(x) \in 0..64
      /\ RowNum(x) - rowSplitSubBlock(x) \in 0..64
  BY LatestShape, SplitFacts
<1>2. \A s \in 0..subBlockNum - 1 : rowActualThisSubBlock(x, s) \in 0..64
  BY <1>1 DEF rowActualThisSubBlock
<1> QED BY <1>1, <1>2

(* A row of a sub-block: its head and its token are quotient and remainder *)
(* by the tokens of the block, before the split among the sub-blocks and   *)
(* after it.                                                               *)
RowHome(x, s, r) ==
    LET o == ODestination(x, s, r)
    IN  LseDestination(x, s, r) = o /\ QRow(x, o[1], o[2]) = r

(* A block of one head is split by tokens.                                 *)
LEMMA OneHead ==
    ASSUME NEW x, Shape(x), x.qNBlockSize = 1,
           NEW s \in 0..1, NEW r \in 0..RowNum(x) - 1
    PROVE  RowHome(x, s, r)
<1> DEFINE q == x.qSBlockSize
           p == s * rowSplitSubBlock(x)
<1>1. q \in Nat \ {0} /\ RowNum(x) = q /\ x.token \in Nat /\ x.head \in Nat
  BY DEF Shape, RowNum
<1>2. r \in Nat /\ r < q /\ p \in Nat
  <2>1. rowSplitSubBlock(x) \in 0..64
    BY SplitFacts
  <2>2. p \in Nat
    BY <2>1
  <2> QED BY <1>1, <2>2
<1> HIDE DEF p
<1>3. ODestination(x, s, r) = <<x.token + r, x.head>>
  <2>1. ODestination(x, s, r) = <<x.token + p + (r - p), x.head>>
    BY DEF ODestination, p
  <2> QED BY <1>1, <1>2, <2>1
<1>4. LseDestination(x, s, r) = <<x.token + r, x.head>>
  <2>1. r \div q = 0
    <3>1. r \in 0..(q - 1) /\ 0 * q + r = r
      BY <1>1, <1>2
    <3>2. (0 * q + r) \div q = 0
      BY <1>1, <3>1, QuotientUnique
    <3> QED BY <3>1, <3>2
  <2>2. LseDestination(x, s, r) = <<x.token + (r - (r \div q) * q), x.head + (r \div q)>>
    BY DEF LseDestination
  <2>3. r - 0 * q = r /\ x.head + 0 = x.head
    BY <1>1, <1>2
  <2> QED BY <2>1, <2>2, <2>3
<1>5. QRow(x, x.token + r, x.head) = r
  BY <1>1, <1>2 DEF QRow
<1> QED BY <1>3, <1>4, <1>5 DEF RowHome

(* A block of several heads is split by heads.                             *)
LEMMA ManyHeads ==
    ASSUME NEW x, Shape(x), x.qNBlockSize # 1,
           NEW s \in 0..1, NEW i \in Nat
    PROVE  /\ s * rowSplitSubBlock(x) + i \in Nat
           /\ RowHome(x, s, s * rowSplitSubBlock(x) + i)
<1> DEFINE q == x.qSBlockSize
           h == x.qNBlockSize \div 2
           p == s * rowSplitSubBlock(x)
           a == i \div q
           b == i % q
           r == p + i
<1>1. q \in Nat \ {0} /\ h \in Nat /\ x.token \in Nat /\ x.head \in Nat
  <2>1. x.qNBlockSize \in Nat
    BY DEF Shape
  <2> QED BY <2>1 DEF Shape
<1>2. rowSplitSubBlock(x) = q * h
  BY DEF rowSplitSubBlock, subBlockNum
<1>3. a \in Nat /\ b \in 0..(q - 1) /\ i = a * q + b
  BY <1>1, QuotientFacts
<1>4. p \in Nat /\ p = (s * h) * q /\ s * h \in Nat
  <2> HIDE DEF q, h
  <2> QED BY <1>1, <1>2
<1>5. ODestination(x, s, r) = <<x.token + b, x.head + s * h + a>>
  <2>1. r - p = i
    BY <1>4
  <2>2. ODestination(x, s, r) = <<x.token + ((r - p) % q), x.head + s * h + ((r - p) \div q)>>
    BY DEF ODestination, subBlockNum
  <2> QED BY <2>1, <2>2
<1> HIDE DEF q, h, p, a, b
<1>6. r = (s * h + a) * q + b
  <2>1. (s * h + a) * q = (s * h) * q + a * q
    BY <1>1, <1>3, <1>4
  <2> QED BY <1>1, <1>3, <1>4, <2>1
<1>7. r \in Nat /\ r \div q = s * h + a /\ r % q = b
  <2>1. s * h + a \in Nat
    BY <1>3, <1>4
  <2>2. /\ (s * h + a) * q + b \in Nat
        /\ ((s * h + a) * q + b) \div q = s * h + a
        /\ ((s * h + a) * q + b) % q = b
    BY <1>1, <1>3, <2>1, QuotientUnique
  <2> QED BY <1>6, <2>2
<1>8. LseDestination(x, s, r) = <<x.token + b, x.head + s * h + a>>
  <2>1. LseDestination(x, s, r) = <<x.token + (r - (r \div q) * q), x.head + (r \div q)>>
    BY DEF LseDestination, q
  <2>2. r - (s * h + a) * q = b
    BY <1>1, <1>3, <1>4, <1>6
  <2> HIDE DEF r
  <2>3. x.head + (s * h + a) = x.head + s * h + a
    BY <1>1, <1>3, <1>4
  <2> QED BY <1>7, <2>1, <2>2, <2>3
<1>9. QRow(x, x.token + b, x.head + s * h + a) = r
  <2>1. QRow(x, x.token + b, x.head + s * h + a)
        = ((x.head + s * h + a) - x.head) * q + ((x.token + b) - x.token)
    BY DEF QRow, q
  <2>2. (x.head + s * h + a) - x.head = s * h + a /\ (x.token + b) - x.token = b
    BY <1>1, <1>3, <1>4
  <2> QED BY <1>6, <2>1, <2>2
<1> QED BY <1>5, <1>7, <1>8, <1>9 DEF RowHome, p

(* The sub-blocks share the rows out, and each goes home.                  *)
LEMMA GoHome == Inv => RowsGoHome
<1> SUFFICES ASSUME Inv, NEW x \in Latest
             PROVE  /\ UNION {SubBlockRows(x, s) : s \in 0..subBlockNum - 1} = 0..RowNum(x) - 1
                    /\ \A s \in 0..subBlockNum - 1 : \A r \in SubBlockRows(x, s) : RowHome(x, s, r)
  BY DEF RowsGoHome, RowHome
<1> DEFINE n == RowNum(x)
           p == rowSplitSubBlock(x)
<1>1. Shape(x) /\ n \in Nat /\ p \in Nat /\ n - p \in Nat
  <2>1. Shape(x)
    BY LatestShape
  <2>2. n \in 0..128 /\ p \in 0..64 /\ n - p \in 0..64
    BY <2>1, SplitFacts
  <2> QED BY <2>1, <2>2
<1>2. SubBlockRows(x, 0) = {0 * p + i : i \in 0..p - 1}
  BY DEF SubBlockRows, rowActualThisSubBlock
<1>3. SubBlockRows(x, 1) = {1 * p + i : i \in 0..(n - p) - 1}
  BY DEF SubBlockRows, rowActualThisSubBlock
<1> HIDE DEF n, p
<1>4. SubBlockRows(x, 0) = 0..p - 1
  <2>1. 0 * p = 0
    BY <1>1
  <2>2. \A i \in 0..p - 1 : 0 * p + i = i
    BY <1>1, <2>1
  <2> QED BY <1>2, <2>2
<1>5. SubBlockRows(x, 1) = p..n - 1
  <2>1. ASSUME NEW r \in p..n - 1 PROVE r \in SubBlockRows(x, 1)
    <3>1. r - p \in 0..(n - p) - 1 /\ r = 1 * p + (r - p)
      BY <1>1
    <3> QED BY <1>3, <3>1
  <2>2. ASSUME NEW r \in SubBlockRows(x, 1) PROVE r \in p..n - 1
    <3>1. PICK i \in 0..(n - p) - 1 : r = 1 * p + i
      BY <1>3
    <3> QED BY <1>1, <3>1
  <2> QED BY <2>1, <2>2
<1>6. {SubBlockRows(x, s) : s \in 0..subBlockNum - 1} = {SubBlockRows(x, 0), SubBlockRows(x, 1)}
  <2>1. 0..subBlockNum - 1 = {0, 1}
    BY DEF subBlockNum
  <2> QED BY <2>1
<1>7. UNION {SubBlockRows(x, s) : s \in 0..subBlockNum - 1} = 0..n - 1
  <2>1. (0..p - 1) \cup (p..n - 1) = 0..n - 1
    BY <1>1
  <2> QED BY <1>4, <1>5, <1>6, <2>1
<1>8. ASSUME NEW s \in 0..subBlockNum - 1, NEW r \in SubBlockRows(x, s)
      PROVE  RowHome(x, s, r)
  <2>1. s \in 0..1
    BY DEF subBlockNum
  <2>2. r \in 0..n - 1
    BY <1>7
  <2>3. CASE x.qNBlockSize = 1
    BY <1>1, <2>1, <2>2, <2>3, OneHead DEF n
  <2>4. CASE x.qNBlockSize # 1
    <3>1. PICK i \in 0..(rowActualThisSubBlock(x, s) - 1) : r = s * p + i
      BY DEF SubBlockRows, p
    <3>2. i \in Nat
      <4>1. rowActualThisSubBlock(x, s) \in Nat
        BY <1>1 DEF rowActualThisSubBlock, n, p
      <4> QED BY <4>1
    <3> QED BY <1>1, <2>1, <2>4, <3>1, <3>2, ManyHeads DEF p
  <2> QED BY <2>3, <2>4
<1> QED BY <1>7, <1>8 DEF n

-----------------------------------------------------------------------------
(* The theorems, for every call that the host admits.                      *)

(* The inductive invariant: where each of the walks of every core is, and  *)
(* that each block it decoded is the one of its task index                 *)
(* (kernel_fa_fp32_stage1.cpp:213-271 and 526-580).                        *)
THEOREM InvInvariant == Spec => []Inv
  BY InitInv, NextInv, PTL DEF Spec

(* The cube and the vector kernel of a core work on the same blocks in the *)
(* same order, although one starts from the lengths on the device and the  *)
(* other from the host's count (213-271, 526-580).                         *)
THEOREM KernelsAlwaysDecodeAlike == Spec => []KernelsDecodeAlike
  BY InvInvariant, DecodeAlike, PTL

(* The blocks of all cores tile the output: no row in two blocks, and when *)
(* the walks are over no row in none (256-271, 560-580).                   *)
THEOREM BlocksAlwaysTileOutput == Spec => []BlocksTileOutput
  BY InvInvariant, TileOutput, PTL

(* A block has at most 128 rows and a sub-block at most 64                 *)
(* (kernel_common.hpp:88-100, kernel_fa_fp32_stage1.cpp:127-132).          *)
THEOREM RowsAlwaysFit == Spec => []RowsFit
  BY InvInvariant, Fit, PTL

(* A query row's O and lse go to the token and head that its Q came from,  *)
(* whichever sub-block has it (block_epilogue_rescale_o_no_split_row.hpp:  *)
(* 121-141, 318-356, 409-417; block_mmad_fai_qk_normal.hpp:113-134).       *)
THEOREM RowsAlwaysGoHome == Spec => []RowsGoHome
  BY InvInvariant, GoHome, PTL
=============================================================================
