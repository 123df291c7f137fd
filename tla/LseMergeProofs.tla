---------------------------- MODULE LseMergeProofs ----------------------------
(***************************************************************************)
(* Proofs about LseMerge, for every call, every core and all variants.     *)
(*                                                                         *)
(* The code of all tiles, laid end to end, is one program for each pipe: 4 *)
(* loads of a tile for MTE2, 8 steps for V, of which a variant leaves some *)
(* out, and one store for MTE3.  A pipe is at place u, v, w of its own     *)
(* program.  The inductive invariant says that every event counts the      *)
(* difference of two such places (Counted), that every buffer holds the    *)
(* tile of its last write, counted the same way (Held), and that the       *)
(* queues have what is between the places and the scalar unit.  No event   *)
(* goes below zero, and so the places are as far apart as they have to be: *)
(* nothing else is needed to order the pipes.                              *)
(***************************************************************************)
EXTENDS LseMerge, IntegerLemmas, FiniteSetTheorems

-----------------------------------------------------------------------------
(* The programs.  Place p is number p % 4 or p % 8 of its tile.            *)
LoadOf(q, t, sets) == Instruction({free(q)}, {}, {<<tensor(q), t>>}, sets)
LoadCode(k, t) ==
    IF k = 0 THEN LoadOf("inQueLse1", t, {})
    ELSE IF k = 1 THEN LoadOf("inQueLse2", t, {})
    ELSE IF k = 2 THEN LoadOf("inQueO1", t, {ready("inQueO1")})
    ELSE LoadOf("inQueO2", t, {ready("inQueO2"), ready("inQueLse1"), ready("inQueLse2")})

CastO1(t) ==
    IF variant.o1IsF32
    THEN Instruction({ready("inQueO1")}, {}, {}, {})
    ELSE Instruction({ready("inQueO1")}, {<<tensor("inQueO1"), t>>}, {<<o1F32Buf, t>>},
                     {free("inQueO1")})
CastO2(t) ==
    Instruction({ready("inQueO2"), ready("inQueLse1"), ready("inQueLse2")},
                {<<tensor("inQueO2"), t>>}, {<<o2F32Buf, t>>}, {})
FreeStrided(side) == Instruction({}, {}, {}, {free(lseQueue(side))})
WeightsOf(t) == Instruction({}, {<<lse(1), t>>, <<lse(2), t>>}, {<<weightBufs, t>>}, {})
MergeRowsOf(t) ==
    IF variant.outIsF32
    THEN Instruction({free("outQue")}, {<<o1F32, t>>, <<o2F32Buf, t>>},
                     {<<tensor("outQue"), t>>}, {ready("outQue")})
    ELSE Instruction({}, {<<o1F32, t>>, <<o2F32Buf, t>>}, {<<o2F32Buf, t>>}, {})
CastOut(t) ==
    Instruction({free("outQue")}, {<<o2F32Buf, t>>}, {<<tensor("outQue"), t>>},
                {ready("outQue")})
FreeRest ==
    Instruction({}, {}, {},
                {free("inQueO2")} \cup (IF variant.o1IsF32 THEN {free("inQueO1")} ELSE {})
                \cup {free(lseQueue(side)) : side \in {s \in 1..2 : ~strided(s)}})

VectorCode(k, t) ==
    IF k = 0 THEN CastO1(t) ELSE IF k = 1 THEN CastO2(t)
    ELSE IF k = 2 THEN FreeStrided(1) ELSE IF k = 3 THEN FreeStrided(2)
    ELSE IF k = 4 THEN WeightsOf(t) ELSE IF k = 5 THEN MergeRowsOf(t)
    ELSE IF k = 6 THEN CastOut(t) ELSE FreeRest
Present(k) ==
    /\ k \in 0..7
    /\ k = 2 => strided(1)
    /\ k = 3 => strided(2)
    /\ k = 6 => ~variant.outIsF32

StoreOf(t) == Instruction({ready("outQue")}, {<<tensor("outQue"), t>>}, {}, {free("outQue")})

(* How often a pipe has executed number k before place p.                  *)
Loaded(k, u) == (u + 3 - k) \div 4
Times(k, v) == (v + 7 - k) \div 8

-----------------------------------------------------------------------------
(* The inductive invariant.                                                *)
BetweenTiles == pc[1] \in {"load", "done"}

Types ==
    /\ variant \in Variants /\ totalRows \in RowCounts /\ blockIdx \in 0..(blockDim - 1)
    /\ tile \in Nat
    /\ \/ pc \in {<<"load", 0>>, <<"done", 0>>, <<"weights", 0>>, <<"merge", 0>>}
       \/ \E side \in 1..2 : strided(side) /\ pc \in {<<"compact", side>>, <<"compacted", side>>}
    /\ pc[1] = "done" <=> ~(tile * TILE_ROWS < myRows)
    /\ queue = [p \in Pipes |-> queue[p]]
    /\ events \in [Events -> Nat]
    /\ ub = [b \in Buffers |-> ub[b]]

(* The places that the scalar unit has reached.                            *)
LoadEnd == 4 * tile + (IF BetweenTiles THEN 0 ELSE 4)
VectorEnd ==
    8 * tile + (IF BetweenTiles THEN 0
                ELSE IF pc[1] = "merge" THEN 5
                ELSE IF pc[1] = "weights" THEN 4
                ELSE 1 + pc[2])

LoadQueue(u) ==
    /\ u \in Nat /\ u <= LoadEnd
    /\ HasLength(queue["MTE2"], LoadEnd - u)
    /\ \A i \in 1..(LoadEnd - u) :
          queue["MTE2"][i] = LoadCode((u + i - 1) % 4, (u + i - 1) \div 4)

(* todo: the n places that are left, without those the variant omits.      *)
CodeOf(code, n, places) ==
    /\ HasLength(code, n)
    /\ \A i \in 1..n : code[i] = VectorCode(places[i] % 8, places[i] \div 8)
Places == {p \in Nat : Present(p % 8)}
VectorQueue(v, todo, n) ==
    /\ v \in Nat /\ v <= VectorEnd
    /\ Lists(todo, n, v, VectorEnd, Places)
    /\ CodeOf(queue["V"], n, todo)

StoreQueue(w) ==
    /\ w \in Nat /\ w <= tile
    /\ HasLength(queue["MTE3"], tile - w)
    /\ \A i \in 1..(tile - w) : queue["MTE3"][i] = StoreOf(w + i - 1)

(* Who frees a tensor of lse or of o1, and who writes the output tensor.   *)
FreeOfLse(side) == IF strided(side) THEN 1 + side ELSE 7
FreeOfO1 == IF variant.o1IsF32 THEN 7 ELSE 0
WriteOfOut == IF variant.outIsF32 THEN 5 ELSE 6

Counted(u, v, w) ==
    /\ events[free("inQueLse1")] = 1 + Times(FreeOfLse(1), v) - Loaded(0, u)
    /\ events[free("inQueLse2")] = 1 + Times(FreeOfLse(2), v) - Loaded(1, u)
    /\ events[free("inQueO1")] = 1 + Times(FreeOfO1, v) - Loaded(2, u)
    /\ events[free("inQueO2")] = 1 + Times(7, v) - Loaded(3, u)
    /\ events[free("outQue")] = 1 + w - Times(WriteOfOut, v)
    /\ events[ready("inQueLse1")] = Loaded(3, u) - Times(1, v)
    /\ events[ready("inQueLse2")] = Loaded(3, u) - Times(1, v)
    /\ events[ready("inQueO1")] = Loaded(2, u) - Times(0, v)
    /\ events[ready("inQueO2")] = Loaded(3, u) - Times(1, v)
    /\ events[ready("outQue")] = Times(WriteOfOut, v) - w

(* Whether the scalar unit has compacted this lse of the tile.             *)
Compacted(side) ==
    /\ strided(side)
    /\ \/ pc[1] \in {"weights", "merge"}
       \/ pc[1] = "compacted" /\ side <= pc[2]
       \/ pc[1] = "compact" /\ side < pc[2]

Held(u, v) ==
    /\ ub[tensor("inQueLse1")] = Loaded(0, u) - 1
    /\ ub[tensor("inQueLse2")] = Loaded(1, u) - 1
    /\ ub[tensor("inQueO1")] = Loaded(2, u) - 1
    /\ ub[tensor("inQueO2")] = Loaded(3, u) - 1
    /\ ub[tensor("outQue")] = Times(WriteOfOut, v) - 1
    /\ ~variant.o1IsF32 => ub[o1F32Buf] = Times(0, v) - 1
    /\ ub[o2F32Buf] = Times(1, v) - 1
    /\ ub[weightBufs] = Times(4, v) - 1
    /\ DeQueStopsScalar => \A side \in 1..2 : Compacted(side) => ub[lseCBuf(side)] = tile

(* The scalar unit has merged a tile only when V had its weights: it waits *)
(* for V before it reads them.                                             *)
Weighed(v) == tile <= Times(4, v)

Placed(u, v, w, todo, n) ==
    /\ LoadQueue(u) /\ VectorQueue(v, todo, n) /\ StoreQueue(w)
    /\ Counted(u, v, w) /\ Held(u, v) /\ Weighed(v)

Inv == Types /\ \E u, v, w, todo, n : Placed(u, v, w, todo, n)

-----------------------------------------------------------------------------
(* Counting places.                                                        *)
LEMMA LoadedNext ==
    ASSUME NEW u \in Nat, NEW k \in 0..3
    PROVE  /\ Loaded(k, u) \in Nat
           /\ Loaded(k, u + 1) = Loaded(k, u) + (IF u % 4 = k THEN 1 ELSE 0)
           /\ u % 4 = k => Loaded(k, u) = u \div 4
           /\ Loaded(3, u) <= Loaded(k, u)
           /\ \A t \in Nat : u = 4 * t => Loaded(k, u) = t
           /\ u % 4 \in 0..3 /\ u \div 4 \in Nat
<1>1. CASE k = 0
  BY <1>1 DEF Loaded
<1>2. CASE k = 1
  BY <1>2 DEF Loaded
<1>3. CASE k = 2
  BY <1>3 DEF Loaded
<1>4. CASE k = 3
  BY <1>4 DEF Loaded
<1> QED BY <1>1, <1>2, <1>3, <1>4

LEMMA TimesNext ==
    ASSUME NEW v \in Nat, NEW k \in 0..7
    PROVE  /\ Times(k, v) \in Nat
           /\ Times(k, v + 1) = Times(k, v) + (IF v % 8 = k THEN 1 ELSE 0)
           /\ v % 8 = k => Times(k, v) = v \div 8
           /\ v % 8 > k => Times(k, v) = v \div 8 + 1
           /\ v % 8 < k => Times(k, v) = v \div 8
           /\ v % 8 \in 0..7 /\ v \div 8 \in Nat
<1>1. v = 8 * (v \div 8) + (v % 8) /\ v % 8 \in 0..7 /\ v \div 8 \in Nat
  OBVIOUS
<1> PICK q \in Nat, r \in 0..7 : q = v \div 8 /\ r = v % 8 /\ v = 8 * q + r
  BY <1>1
<1>2. Times(k, v) = q + (IF r > k THEN 1 ELSE 0)
  BY DEF Times
<1>3. Times(k, v + 1) = q + (IF r >= k THEN 1 ELSE 0)
  <2>1. v + 1 + 7 - k = 8 * q + (r + 8 - k) /\ r + 8 - k \in 1..15
    OBVIOUS
  <2>2. (v + 1 + 7 - k) \div 8 = q + (IF r + 8 - k >= 8 THEN 1 ELSE 0)
    BY <2>1
  <2> QED BY <2>2 DEF Times
<1> QED BY <1>2, <1>3

(* Places of another kind do not count.                                    *)
LEMMA TimesOverGap ==
    ASSUME NEW v \in Nat, NEW p \in Nat, v <= p, NEW k \in 0..7,
           \A x \in v..(p - 1) : x % 8 # k
    PROVE  Times(k, p) = Times(k, v)
<1> PICK c \in Nat : c = Times(k, v)
  BY TimesNext
<1> PICK d \in Nat : d = Times(k, p)
  BY TimesNext
<1> PICK x \in Nat : x = 8 * c + k
  OBVIOUS
<1>1. x >= v /\ x % 8 = k
  BY DEF Times
<1>2. c <= d
  BY DEF Times
<1>3. ASSUME c < d PROVE FALSE
  <2>1. x < p
    BY <1>3 DEF Times
  <2>2. x \in v..(p - 1)
    BY <1>1, <2>1
  <2> QED BY <1>1, <2>2
<1> QED BY <1>2, <1>3

-----------------------------------------------------------------------------
(* Events and buffers, all different.                                      *)
LEMMA EventsDiffer ==
    \A q, r \in Queues : /\ free(q) \in Events /\ ready(q) \in Events
                         /\ free(q) = free(r) <=> q = r
                         /\ ready(q) = ready(r) <=> q = r
                         /\ free(q) # ready(r)
  BY DEF free, ready, Free, Ready, Events

LEMMA BuffersDiffer ==
    /\ \A q, r \in Queues : /\ tensor(q) \in Buffers
                            /\ tensor(q) = tensor(r) <=> q = r
                            /\ tensor(q) \notin {o1F32Buf, o2F32Buf, weightBufs}
                            /\ \A side \in 1..2 : tensor(q) # lseCBuf(side)
    /\ o1F32Buf \in Buffers /\ o2F32Buf \in Buffers /\ weightBufs \in Buffers
    /\ o1F32Buf # o2F32Buf /\ o1F32Buf # weightBufs /\ o2F32Buf # weightBufs
    /\ \A side \in 1..2 : /\ lseCBuf(side) \in Buffers
                          /\ lseCBuf(side) \notin {o1F32Buf, o2F32Buf, weightBufs}
                          /\ \A other \in 1..2 : lseCBuf(side) = lseCBuf(other) => side = other
  BY DEF tensor, o1F32Buf, o2F32Buf, weightBufs, lseCBuf, Buffers, Queues

LEMMA QueueNames ==
    /\ {"inQueO1", "inQueO2", "inQueLse1", "inQueLse2", "outQue"} \subseteq Queues
    /\ {"MTE2", "V", "MTE3"} \subseteq Pipes
  BY DEF Queues, Pipes

(* What the first instruction of a pipe does, and what is left of a queue. *)
Does(i) ==
    /\ \A e \in i.waits : events[e] > 0
    /\ events' = [e \in Events |-> events[e] - (IF e \in i.waits THEN 1 ELSE 0)
                                             + (IF e \in i.sets THEN 1 ELSE 0)]
    /\ i.writes = {} => ub' = ub
    /\ \A b \in Buffers : \A t : i.writes = {<<b, t>>} => ub' = [ub EXCEPT ![b] = t]

Shortened(p, n) ==
    /\ HasLength(queue'[p], n - 1)
    /\ \A i \in 1..(n - 1) : queue'[p][i] = queue[p][i + 1]
    /\ \A r \in Pipes : r # p => queue'[r] = queue[r]
    /\ queue' = [r \in Pipes |-> queue'[r]]

LEMMA PipeEffect ==
    ASSUME Types, NEW p \in Pipes, RunPipe(p), NEW n, HasLength(queue[p], n)
    PROVE  n # 0 /\ Does(queue[p][1]) /\ Shortened(p, n)
<1> DEFINE i == Head(queue[p])
           written == {w[1] : w \in i.writes}
<1>1. queue[p] # <<>> /\ \A e \in i.waits : events[e] > 0
  BY DEF RunPipe, Execute, CanExecute
<1>2. n # 0
  BY <1>1, SequenceFacts
<1>3. /\ HasLength(Tail(queue[p]), n - 1) /\ Head(queue[p]) = queue[p][1]
      /\ \A k \in 1..(n - 1) : Tail(queue[p])[k] = queue[p][k + 1]
  BY <1>2, Rest
<1>4. queue' = [queue EXCEPT ![p] = Tail(@)] /\ queue = [r \in Pipes |-> queue[r]]
  BY DEF RunPipe, Execute, Types
<1>5. Shortened(p, n)
  <2>1. /\ queue'[p] = Tail(queue[p]) /\ \A r \in Pipes : r # p => queue'[r] = queue[r]
        /\ queue' = [r \in Pipes |-> queue'[r]]
    BY <1>4
  <2> QED BY <1>3, <2>1 DEF Shortened
<1>6. events' = [e \in Events |-> events[e] - (IF e \in i.waits THEN 1 ELSE 0)
                                            + (IF e \in i.sets THEN 1 ELSE 0)]
  BY DEF RunPipe, Execute
<1>7. ub' = IF i.writes = {} THEN ub
            ELSE [b \in Buffers |-> IF b \in written
                                    THEN (CHOOSE w \in i.writes : w[1] = b)[2]
                                    ELSE ub[b]]
  BY DEF RunPipe, Execute
<1>8. ub = [b \in Buffers |-> ub[b]]
  BY DEF Types
<1> HIDE DEF i
<1>9. ASSUME NEW b \in Buffers, NEW t, i.writes = {<<b, t>>} PROVE ub' = [ub EXCEPT ![b] = t]
  <2>1. written = {b} /\ i.writes # {} /\ (CHOOSE w \in i.writes : w[1] = b)[2] = t
    BY <1>9
  <2> HIDE DEF written
  <2> QED BY <1>7, <1>8, <2>1
<1>10. Does(i)
  BY <1>1, <1>6, <1>7, <1>9 DEF Does
<1> QED BY <1>2, <1>3, <1>5, <1>10 DEF i

-----------------------------------------------------------------------------
(* What depends on the call and on the scalar unit alone.                  *)
LEMMA SameCall ==
    ASSUME variant' = variant
    PROVE  /\ \A k, t : VectorCode(k, t)' = VectorCode(k, t)
           /\ Places' = Places
           /\ \A side : strided(side)' = strided(side) /\ FreeOfLse(side)' = FreeOfLse(side)
           /\ FreeOfO1' = FreeOfO1 /\ WriteOfOut' = WriteOfOut
  BY DEF VectorCode, CastO1, CastO2, FreeStrided, WeightsOf, MergeRowsOf, CastOut, FreeRest, o1F32,
         lse, strided, Places, Present, FreeOfLse, FreeOfO1, WriteOfOut

LEMMA SameRows ==
    ASSUME call' = call
    PROVE  myRows' = myRows /\ blockDim' = blockDim
  BY DEF call, myRows, blockDim, RowsOf, rowStart, rowStop, rowsPerCore

LEMMA SameScalar ==
    ASSUME call' = call, pc' = pc, tile' = tile
    PROVE  /\ BetweenTiles' = BetweenTiles /\ LoadEnd' = LoadEnd /\ VectorEnd' = VectorEnd
           /\ \A side : Compacted(side)' = Compacted(side)
           /\ myRows' = myRows /\ blockDim' = blockDim
  BY SameCall, SameRows DEF call, BetweenTiles, LoadEnd, VectorEnd, Compacted

(* A step of a pipe keeps the types.                                       *)
LEMMA TypesOfPipe ==
    ASSUME Types, call' = call, pc' = pc, tile' = tile, queue' = [p \in Pipes |-> queue'[p]],
           ub' = [b \in Buffers |-> ub'[b]], events' \in [Events -> Nat]
    PROVE  Types'
<1>1. /\ variant' = variant /\ totalRows' = totalRows /\ blockIdx' = blockIdx
      /\ \A side : strided(side)' = strided(side)
      /\ myRows' = myRows /\ blockDim' = blockDim
  BY SameCall, SameScalar DEF call
<1> QED BY <1>1 DEF Types

LEMMA Naturals ==
    ASSUME Types, NEW i, Does(i)
    PROVE  events' \in [Events -> Nat]
<1>1. ASSUME NEW e \in Events
      PROVE  events[e] - (IF e \in i.waits THEN 1 ELSE 0) + (IF e \in i.sets THEN 1 ELSE 0) \in Nat
  <2>1. events[e] \in Nat
    BY DEF Types
  <2>2. e \in i.waits => events[e] > 0
    BY DEF Does
  <2> QED BY <2>1, <2>2
<1> QED BY <1>1 DEF Does

LEMMA QueuesFrame ==
    ASSUME variant' = variant, NEW u, NEW v, NEW w, NEW todo, NEW m
    PROVE  /\ queue'["MTE2"] = queue["MTE2"] /\ LoadEnd' = LoadEnd /\ LoadQueue(u) => LoadQueue(u)'
           /\ queue'["V"] = queue["V"] /\ VectorEnd' = VectorEnd /\ VectorQueue(v, todo, m)
              => VectorQueue(v, todo, m)'
           /\ queue'["MTE3"] = queue["MTE3"] /\ tile' = tile /\ StoreQueue(w) => StoreQueue(w)'
<1>1. queue'["MTE2"] = queue["MTE2"] /\ LoadEnd' = LoadEnd /\ LoadQueue(u) => LoadQueue(u)'
  BY DEF LoadQueue, LoadCode, LoadOf
<1>2. queue'["V"] = queue["V"] /\ VectorEnd' = VectorEnd /\ VectorQueue(v, todo, m)
      => VectorQueue(v, todo, m)'
  BY SameCall DEF VectorQueue, CodeOf
<1>3. queue'["MTE3"] = queue["MTE3"] /\ tile' = tile /\ StoreQueue(w) => StoreQueue(w)'
  BY DEF StoreQueue, StoreOf
<1> QED BY <1>1, <1>2, <1>3

-----------------------------------------------------------------------------
(* MTE2 loads a tensor.                                                    *)
LEMMA LoadStep ==
    ASSUME Inv, RunPipe("MTE2")
    PROVE  Inv'
<1> PICK u, v, w, todo, m : Placed(u, v, w, todo, m)
  BY DEF Inv
<1>1. Types /\ call' = call /\ pc' = pc /\ tile' = tile /\ variant' = variant
  BY DEF Inv, RunPipe, call
<1> PICK n \in Nat, k \in 0..3, t \in Nat : n = LoadEnd - u /\ k = u % 4 /\ t = u \div 4
  <2>1. u \in Nat /\ LoadEnd - u \in Nat
    BY DEF Placed, LoadQueue, HasLength
  <2> QED BY <2>1
<1>2. u \in Nat /\ v \in Nat /\ w \in Nat /\ HasLength(queue["MTE2"], n)
  BY DEF Placed, LoadQueue, VectorQueue, StoreQueue
<1>3. n # 0 /\ Does(queue["MTE2"][1]) /\ Shortened("MTE2", n)
  BY <1>1, <1>2, QueueNames, PipeEffect
<1>4. queue["MTE2"][1] = LoadCode(k, t)
  <2>1. 1 \in 1..n /\ u + 1 - 1 = u
    BY <1>2, <1>3
  <2> QED BY <2>1 DEF Placed, LoadQueue
<1>5. Does(LoadCode(k, t))
  BY <1>3, <1>4
<1>6. LoadQueue(u + 1)'
  <2>1. LoadEnd' = LoadEnd /\ LoadEnd \in Nat
    BY <1>1, SameScalar DEF LoadEnd, Types
  <2>2. u + 1 \in Nat /\ u + 1 <= LoadEnd /\ LoadEnd - (u + 1) = n - 1
    BY <1>2, <1>3, <2>1
  <2>3. ASSUME NEW i \in 1..(n - 1)
        PROVE  queue'["MTE2"][i] = LoadCode((u + 1 + i - 1) % 4, (u + 1 + i - 1) \div 4)
    <3>1. i + 1 \in 1..n /\ u + (i + 1) - 1 = u + 1 + i - 1
      BY <1>2
    <3> QED BY <1>3, <3>1 DEF Shortened, Placed, LoadQueue
  <2> QED BY <1>3, <2>1, <2>2, <2>3 DEF LoadQueue, Shortened, LoadCode, LoadOf
<1>7. VectorQueue(v, todo, m)' /\ StoreQueue(w)'
  <2>1. queue'["V"] = queue["V"] /\ queue'["MTE3"] = queue["MTE3"]
    BY <1>3, QueueNames DEF Shortened
  <2> QED BY <1>1, <2>1, SameScalar, QueuesFrame DEF Placed
<1>8. /\ \A j \in 0..3 : Loaded(j, u + 1) = Loaded(j, u) + (IF j = k THEN 1 ELSE 0)
      /\ \A j \in 0..3 : Loaded(j, u) \in Nat
      /\ Loaded(k, u) = t
  BY <1>2, LoadedNext
<1>9. /\ FreeOfO1' = FreeOfO1 /\ WriteOfOut' = WriteOfOut
      /\ \A side : FreeOfLse(side)' = FreeOfLse(side)
  BY <1>1, SameCall
<1>10. Counted(u + 1, v, w)'
  <2>1. /\ \A j \in 0..7 : Times(j, v) \in Nat
        /\ FreeOfO1 \in 0..7 /\ WriteOfOut \in 0..7
        /\ FreeOfLse(1) \in 0..7 /\ FreeOfLse(2) \in 0..7
    BY <1>2, TimesNext DEF FreeOfO1, WriteOfOut, FreeOfLse
  <2>2. \A e \in Events : events'[e] = events[e] - (IF e \in LoadCode(k, t).waits THEN 1 ELSE 0)
                                                  + (IF e \in LoadCode(k, t).sets THEN 1 ELSE 0)
    BY <1>5 DEF Does
  <2>3. events \in [Events -> Nat]
    BY <1>1 DEF Types
  <2>4. Counted(u, v, w)
    BY DEF Placed
  <2>5. CASE k = 0
    <3>1. LoadCode(k, t).waits = {free("inQueLse1")} /\ LoadCode(k, t).sets = {}
      BY <2>5 DEF LoadCode, LoadOf, Instruction
    <3>2. \A q \in Queues :
             /\ events'[free(q)] = events[free(q)] - (IF q = "inQueLse1" THEN 1 ELSE 0)
             /\ events'[ready(q)] = events[ready(q)] + (IF FALSE THEN 1 ELSE 0)
      BY <2>2, <2>3, <3>1, EventsDiffer, QueueNames
    <3> QED BY <1>2, <1>8, <1>9, <2>1, <2>4, <2>5, <3>2, QueueNames DEF Counted
  <2>6. CASE k = 1
    <3>1. LoadCode(k, t).waits = {free("inQueLse2")} /\ LoadCode(k, t).sets = {}
      BY <2>6 DEF LoadCode, LoadOf, Instruction
    <3>2. \A q \in Queues :
             /\ events'[free(q)] = events[free(q)] - (IF q = "inQueLse2" THEN 1 ELSE 0)
             /\ events'[ready(q)] = events[ready(q)] + (IF FALSE THEN 1 ELSE 0)
      BY <2>2, <2>3, <3>1, EventsDiffer, QueueNames
    <3> QED BY <1>2, <1>8, <1>9, <2>1, <2>4, <2>6, <3>2, QueueNames DEF Counted
  <2>7. CASE k = 2
    <3>1. LoadCode(k, t).waits = {free("inQueO1")} /\ LoadCode(k, t).sets = {ready("inQueO1")}
      BY <2>7 DEF LoadCode, LoadOf, Instruction
    <3>2. \A q \in Queues :
             /\ events'[free(q)] = events[free(q)] - (IF q = "inQueO1" THEN 1 ELSE 0)
             /\ events'[ready(q)] = events[ready(q)] + (IF q = "inQueO1" THEN 1 ELSE 0)
      BY <2>2, <2>3, <3>1, EventsDiffer, QueueNames
    <3> QED BY <1>2, <1>8, <1>9, <2>1, <2>4, <2>7, <3>2, QueueNames DEF Counted
  <2>8. CASE k = 3
    <3>1. /\ LoadCode(k, t).waits = {free("inQueO2")}
          /\ LoadCode(k, t).sets = {ready("inQueO2"), ready("inQueLse1"), ready("inQueLse2")}
      BY <2>8 DEF LoadCode, LoadOf, Instruction
    <3>2. \A q \in Queues :
             /\ events'[free(q)] = events[free(q)] - (IF q = "inQueO2" THEN 1 ELSE 0)
             /\ events'[ready(q)] =
                   events[ready(q)] + (IF q \in {"inQueO2", "inQueLse1", "inQueLse2"}
                                       THEN 1 ELSE 0)
      BY <2>2, <2>3, <3>1, EventsDiffer, QueueNames
    <3> QED BY <1>2, <1>8, <1>9, <2>1, <2>4, <2>8, <3>2, QueueNames DEF Counted
  <2> QED BY <2>5, <2>6, <2>7, <2>8
<1> DEFINE q == IF k = 0 THEN "inQueLse1" ELSE IF k = 1 THEN "inQueLse2"
                ELSE IF k = 2 THEN "inQueO1" ELSE "inQueO2"
<1>11. ub' = [ub EXCEPT ![tensor(q)] = t]
  <2>1. LoadCode(k, t).writes = {<<tensor(q), t>>}
    BY DEF LoadCode, LoadOf, Instruction
  <2>2. tensor(q) \in Buffers
    BY BuffersDiffer, QueueNames
  <2> QED BY <1>5, <2>1, <2>2 DEF Does
<1>12. Held(u + 1, v)'
  <2>1. variant' = variant /\ ub = [b \in Buffers |-> ub[b]]
    BY <1>1 DEF Types
  <2>2. \A side : Compacted(side)' = Compacted(side)
    BY <1>1, SameScalar
  <2>3. Held(u, v)
    BY DEF Placed
  <2> QED BY <1>1, <1>2, <1>8, <1>9, <1>11, <2>1, <2>2, <2>3, BuffersDiffer, QueueNames DEF Held
<1>13. Types'
  <2>1. /\ queue' = [p \in Pipes |-> queue'[p]] /\ events' \in [Events -> Nat]
    BY <1>1, <1>3, Naturals DEF Shortened
  <2>2. ub' = [b \in Buffers |-> ub'[b]]
    BY <1>1, <1>11 DEF Types
  <2> QED BY <1>1, <2>1, <2>2, TypesOfPipe
<1>14. Placed(u + 1, v, w, todo, m)'
  BY <1>1, <1>6, <1>7, <1>10, <1>12 DEF Placed, Weighed
<1> QED BY <1>13, <1>14 DEF Inv

(* MTE3 stores a tile.                                                     *)
LEMMA StoreStep ==
    ASSUME Inv, RunPipe("MTE3")
    PROVE  Inv'
<1> PICK u, v, w, todo, m : Placed(u, v, w, todo, m)
  BY DEF Inv
<1>1. Types /\ call' = call /\ pc' = pc /\ tile' = tile /\ variant' = variant
  BY DEF Inv, RunPipe, call
<1> PICK n \in Nat : n = tile - w
  BY DEF Placed, StoreQueue, HasLength
<1>2. u \in Nat /\ v \in Nat /\ w \in Nat /\ tile \in Nat /\ HasLength(queue["MTE3"], n)
  BY <1>1 DEF Placed, LoadQueue, VectorQueue, StoreQueue, Types
<1>3. n # 0 /\ Does(queue["MTE3"][1]) /\ Shortened("MTE3", n)
  BY <1>1, <1>2, QueueNames, PipeEffect
<1>4. queue["MTE3"][1] = StoreOf(w)
  <2>1. 1 \in 1..n /\ w + 1 - 1 = w
    BY <1>2, <1>3
  <2> QED BY <2>1 DEF Placed, StoreQueue
<1>5. Does(StoreOf(w))
  BY <1>3, <1>4
<1>6. StoreQueue(w + 1)'
  <2>1. w + 1 \in Nat /\ w + 1 <= tile /\ tile - (w + 1) = n - 1
    BY <1>2, <1>3
  <2>2. ASSUME NEW i \in 1..(n - 1) PROVE queue'["MTE3"][i] = StoreOf(w + 1 + i - 1)
    <3>1. i + 1 \in 1..n /\ w + (i + 1) - 1 = w + 1 + i - 1
      BY <1>2
    <3> QED BY <1>3, <3>1 DEF Shortened, Placed, StoreQueue
  <2> QED BY <1>1, <1>3, <2>1, <2>2 DEF StoreQueue, Shortened, StoreOf
<1>7. LoadQueue(u)' /\ VectorQueue(v, todo, m)'
  <2>1. queue'["V"] = queue["V"] /\ queue'["MTE2"] = queue["MTE2"]
    BY <1>3, QueueNames DEF Shortened
  <2> QED BY <1>1, <2>1, SameScalar, QueuesFrame DEF Placed
<1>8. /\ FreeOfO1' = FreeOfO1 /\ WriteOfOut' = WriteOfOut
      /\ \A side : FreeOfLse(side)' = FreeOfLse(side)
  BY <1>1, SameCall
<1>9. Counted(u, v, w + 1)'
  <2>1. /\ \A j \in 0..7 : Times(j, v) \in Nat
        /\ WriteOfOut \in 0..7
    BY <1>2, TimesNext DEF WriteOfOut
  <2>2. /\ \A e \in Events : events'[e] = events[e] - (IF e = ready("outQue") THEN 1 ELSE 0)
                                                  + (IF e = free("outQue") THEN 1 ELSE 0)
        /\ events \in [Events -> Nat]
    BY <1>1, <1>5 DEF Does, StoreOf, Instruction, Types
  <2>3. Counted(u, v, w)
    BY DEF Placed
  <2> QED BY <1>2, <1>8, <2>1, <2>2, <2>3, EventsDiffer, QueueNames DEF Counted
<1>10. ub' = ub
  BY <1>5 DEF Does, StoreOf, Instruction
<1>11. Held(u, v)'
  BY <1>1, <1>8, <1>10, SameScalar DEF Placed, Held
<1>12. Types'
  <2>1. /\ queue' = [p \in Pipes |-> queue'[p]] /\ events' \in [Events -> Nat]
    BY <1>1, <1>3, <1>5, Naturals DEF Shortened
  <2>2. ub' = [b \in Buffers |-> ub'[b]]
    BY <1>1, <1>10 DEF Types
  <2> QED BY <1>1, <2>1, <2>2, TypesOfPipe
<1>13. Placed(u, v, w + 1, todo, m)'
  BY <1>1, <1>6, <1>7, <1>9, <1>11 DEF Placed, Weighed
<1> QED BY <1>12, <1>13 DEF Inv

-----------------------------------------------------------------------------
(* V is at place v, and executes number k of tile t, if it has one.        *)
Reaches(v, k, t) ==
    \A j : Present(j) => Times(j, v) = t + (IF j < k THEN 1 ELSE 0)
Passes(v, x, k) ==
    \A j : Present(j) => Times(j, x) = Times(j, v) + (IF j = k THEN 1 ELSE 0)

(* The first place that is left, and what is counted there.                *)
LEMMA NextPlace ==
    ASSUME Types, NEW v, NEW todo, NEW n, VectorQueue(v, todo, n), n # 0,
           NEW p, p = todo[1], NEW rest, rest = AllButFirst(todo, n)
    PROVE  /\ p \in Nat /\ p < VectorEnd /\ VectorEnd \in Nat
           /\ Present(p % 8) /\ queue["V"][1] = VectorCode(p % 8, p \div 8)
           /\ Lists(rest, n - 1, p + 1, VectorEnd, Places)
           /\ Reaches(v, p % 8, p \div 8) /\ Passes(v, p + 1, p % 8)
<1>1. v \in Nat /\ n \in Nat /\ 1 \in 1..n
  BY DEF VectorQueue, CodeOf, HasLength
<1>2. VectorEnd \in Nat /\ Places \subseteq Nat
  BY DEF VectorEnd, Types, Places
<1>3. /\ p \in Places /\ p \in Nat /\ v <= p /\ p < VectorEnd
      /\ \A x \in Places : v <= x => ~(x < p)
      /\ Lists(rest, n - 1, p + 1, VectorEnd, Places)
  <2>1. /\ v \in Nat /\ n \in Nat /\ n # 0 /\ VectorEnd \in Nat /\ Places \subseteq Nat
        /\ Lists(todo, n, v, VectorEnd, Places)
    BY <1>1, <1>2 DEF VectorQueue
  <2>2. /\ todo[1] \in Places /\ todo[1] \in Nat /\ v <= todo[1] /\ todo[1] < VectorEnd
        /\ \A x \in Places : v <= x => ~(x < todo[1])
        /\ Lists(AllButFirst(todo, n), n - 1, todo[1] + 1, VectorEnd, Places)
    BY <2>1, RestOfList, Zenon
  <2> QED BY <2>2
<1>4. Present(p % 8) /\ queue["V"][1] = VectorCode(p % 8, p \div 8)
  BY <1>1, <1>3 DEF VectorQueue, CodeOf, Places
<1>6. ASSUME NEW x \in v..(p - 1), Present(x % 8) PROVE FALSE
  <2>1. x \in Nat /\ v <= x /\ x < p
    BY <1>1, <1>3
  <2> QED BY <1>3, <1>6, <2>1 DEF Places
<1>7. ASSUME NEW j, Present(j)
      PROVE  /\ Times(j, v) = p \div 8 + (IF j < p % 8 THEN 1 ELSE 0)
             /\ Times(j, p + 1) = Times(j, v) + (IF j = p % 8 THEN 1 ELSE 0)
  <2>1. j \in 0..7
    BY <1>7 DEF Present
  <2>2. \A x \in v..(p - 1) : x % 8 # j
    BY <1>6, <1>7
  <2>3. Times(j, p) = Times(j, v)
    BY <1>1, <1>3, <2>1, <2>2, TimesOverGap
  <2> PICK r \in 0..7 : r = p % 8
    BY <1>3
  <2>4. /\ Times(j, p + 1) = Times(j, p) + (IF r = j THEN 1 ELSE 0)
        /\ Times(j, p) = p \div 8 + (IF r > j THEN 1 ELSE 0)
    <3>1. /\ Times(j, p + 1) = Times(j, p) + (IF r = j THEN 1 ELSE 0)
          /\ r = j => Times(j, p) = p \div 8
          /\ r > j => Times(j, p) = p \div 8 + 1
          /\ r < j => Times(j, p) = p \div 8
          /\ p \div 8 \in Nat
      BY <1>3, <2>1, TimesNext
    <3> QED BY <2>1, <3>1
  <2> QED BY <2>1, <2>3, <2>4
<1>8. Reaches(v, p % 8, p \div 8) /\ Passes(v, p + 1, p % 8)
  BY <1>7 DEF Reaches, Passes
<1> QED BY <1>2, <1>3, <1>4, <1>8

(* What V does to the events, for every step of a tile.                    *)
LEMMA VectorEvents ==
    ASSUME Types, NEW u \in Nat, NEW v \in Nat, NEW w \in Nat, NEW x \in Nat, Counted(u, v, w),
           variant' = variant, NEW k, Present(k), NEW t, Does(VectorCode(k, t)),
           Passes(v, x, k)
    PROVE  Counted(u, x, w)'
<1> DEFINE waits == VectorCode(k, t).waits
           sets == VectorCode(k, t).sets
<1>1. /\ \A e \in Events : events'[e] = events[e] - (IF e \in waits THEN 1 ELSE 0)
                                                + (IF e \in sets THEN 1 ELSE 0)
      /\ events \in [Events -> Nat]
  BY DEF Does, Types
<1>2. /\ FreeOfO1' = FreeOfO1 /\ WriteOfOut' = WriteOfOut
      /\ \A side : FreeOfLse(side)' = FreeOfLse(side)
  BY SameCall
<1>3. \A j \in 0..3 : Loaded(j, u) \in Nat
  BY LoadedNext
<1>4. \A j \in 0..7 : Times(j, v) \in Nat
  BY TimesNext
<1>5. /\ Present(0) /\ Present(1) /\ Present(7)
      /\ Present(FreeOfO1) /\ Present(WriteOfOut) /\ Present(FreeOfLse(1)) /\ Present(FreeOfLse(2))
  BY DEF Present, FreeOfO1, WriteOfOut, FreeOfLse
<1>6. \A j \in {0, 1, 7, FreeOfO1, WriteOfOut, FreeOfLse(1), FreeOfLse(2)} :
         /\ Times(j, v) \in Nat
         /\ Times(j, x) = Times(j, v) + (IF j = k THEN 1 ELSE 0)
  BY <1>4, <1>5 DEF Present, Passes
<1> HIDE DEF waits, sets
<1>7. CASE k = 0
  <2>1. waits = {ready("inQueO1")} /\ sets = IF variant.o1IsF32 THEN {} ELSE {free("inQueO1")}
    BY <1>7 DEF waits, sets, VectorCode, CastO1, Instruction
  <2>2. \A q \in Queues : /\ free(q) \in Events /\ ready(q) \in Events
                          /\ free(q) \notin waits /\ ready(q) \notin sets
                          /\ ready(q) \in waits <=> q = "inQueO1"
                          /\ free(q) \in sets <=> q = "inQueO1" /\ ~variant.o1IsF32
    BY <2>1, EventsDiffer, QueueNames
  <2> QED BY <1>1, <1>2, <1>3, <1>6, <1>7, <2>2, QueueNames
          DEF Counted, FreeOfO1, WriteOfOut, FreeOfLse
<1>8. CASE k = 1
  <2>1. waits = {ready("inQueO2"), ready("inQueLse1"), ready("inQueLse2")} /\ sets = {}
    BY <1>8 DEF waits, sets, VectorCode, CastO2, Instruction
  <2>2. /\ \A q \in Queues : free(q) \notin waits /\ free(q) \notin sets /\ ready(q) \notin sets
        /\ ready("inQueO2") \in waits /\ ready("inQueLse1") \in waits
        /\ ready("inQueLse2") \in waits
        /\ ready("inQueO1") \notin waits /\ ready("outQue") \notin waits
    BY <2>1, EventsDiffer, QueueNames
  <2>3. \A q \in Queues : free(q) \in Events /\ ready(q) \in Events
    BY EventsDiffer
  <2> QED BY <1>1, <1>2, <1>3, <1>6, <1>8, <2>2, <2>3, QueueNames
          DEF Counted, FreeOfO1, WriteOfOut, FreeOfLse
<1>9. CASE k = 2
  <2>1. waits = {} /\ sets = {free("inQueLse1")} /\ strided(1)
    BY <1>9 DEF waits, sets, VectorCode, FreeStrided, lseQueue, Instruction, Present
  <2> QED BY <1>1, <1>2, <1>3, <1>6, <1>9, <2>1, EventsDiffer, QueueNames
          DEF Counted, FreeOfO1, WriteOfOut, FreeOfLse
<1>10. CASE k = 3
  <2>1. waits = {} /\ sets = {free("inQueLse2")} /\ strided(2)
    BY <1>10 DEF waits, sets, VectorCode, FreeStrided, lseQueue, Instruction, Present
  <2> QED BY <1>1, <1>2, <1>3, <1>6, <1>10, <2>1, EventsDiffer, QueueNames
          DEF Counted, FreeOfO1, WriteOfOut, FreeOfLse
<1>11. CASE k = 4
  <2>1. waits = {} /\ sets = {}
    BY <1>11 DEF waits, sets, VectorCode, WeightsOf, Instruction
  <2> QED BY <1>1, <1>2, <1>3, <1>6, <1>11, <2>1, EventsDiffer, QueueNames
          DEF Counted, FreeOfO1, WriteOfOut, FreeOfLse
<1>12. CASE k = 5
  <2>1. /\ waits = IF variant.outIsF32 THEN {free("outQue")} ELSE {}
        /\ sets = IF variant.outIsF32 THEN {ready("outQue")} ELSE {}
    BY <1>12 DEF waits, sets, VectorCode, MergeRowsOf, Instruction
  <2> QED BY <1>1, <1>2, <1>3, <1>6, <1>12, <2>1, EventsDiffer, QueueNames
          DEF Counted, FreeOfO1, WriteOfOut, FreeOfLse
<1>13. CASE k = 6
  <2>1. waits = {free("outQue")} /\ sets = {ready("outQue")} /\ ~variant.outIsF32
    BY <1>13 DEF waits, sets, VectorCode, CastOut, Instruction, Present
  <2> QED BY <1>1, <1>2, <1>3, <1>6, <1>13, <2>1, EventsDiffer, QueueNames
          DEF Counted, FreeOfO1, WriteOfOut, FreeOfLse
<1>14. CASE k = 7
  <2>1. /\ waits = {}
        /\ sets = {free("inQueO2")} \cup (IF variant.o1IsF32 THEN {free("inQueO1")} ELSE {})
                  \cup {free(lseQueue(side)) : side \in {s \in 1..2 : ~strided(s)}}
    BY <1>14 DEF waits, sets, VectorCode, FreeRest, Instruction
  <2>2. /\ lseQueue(1) = "inQueLse1" /\ lseQueue(2) = "inQueLse2"
    BY DEF lseQueue
  <2>3. /\ free("inQueLse1") \in sets <=> ~strided(1)
        /\ free("inQueLse2") \in sets <=> ~strided(2)
        /\ free("inQueO1") \in sets <=> variant.o1IsF32
        /\ free("inQueO2") \in sets
        /\ free("outQue") \notin sets
        /\ \A q \in Queues : ready(q) \notin sets
    BY <2>1, <2>2, EventsDiffer, QueueNames
  <2>4. \A q \in Queues : free(q) \in Events /\ ready(q) \in Events
    BY EventsDiffer
  <2>5. \A q \in Queues :
           /\ events'[free(q)] = events[free(q)] + (IF free(q) \in sets THEN 1 ELSE 0)
           /\ events'[ready(q)] = events[ready(q)]
    BY <1>1, <2>1, <2>3, <2>4
  <2> QED BY <1>2, <1>3, <1>6, <1>14, <2>3, <2>5, QueueNames
          DEF Counted, FreeOfO1, WriteOfOut, FreeOfLse
<1> QED BY <1>7, <1>8, <1>9, <1>10, <1>11, <1>12, <1>13, <1>14 DEF Present

(* What V does to the buffers.                                             *)
LEMMA VectorMemory ==
    ASSUME Types, NEW u \in Nat, NEW v \in Nat, NEW x \in Nat, Held(u, v),
           variant' = variant, pc' = pc, tile' = tile,
           NEW k, Present(k), NEW t \in Nat, Does(VectorCode(k, t)),
           Reaches(v, k, t), Passes(v, x, k)
    PROVE  Held(u, x)' /\ ub' = [b \in Buffers |-> ub'[b]]
<1>1. /\ WriteOfOut' = WriteOfOut
      /\ \A side : Compacted(side)' = Compacted(side)
  BY SameCall DEF Compacted
<1>2. /\ Present(0) /\ Present(1) /\ Present(4) /\ Present(5) /\ Present(WriteOfOut)
  BY DEF Present, WriteOfOut
<1>3. ub = [b \in Buffers |-> ub[b]]
  BY DEF Types
<1>4. \A j \in {0, 1, 4, WriteOfOut} :
         /\ Times(j, v) = t + (IF j < k THEN 1 ELSE 0)
         /\ Times(j, x) = Times(j, v) + (IF j = k THEN 1 ELSE 0)
  BY <1>2 DEF Reaches, Passes
<1>5. CASE k \in {2, 3, 7} \/ (k = 0 /\ variant.o1IsF32)
  <2>1. VectorCode(k, t).writes = {}
    BY <1>5 DEF VectorCode, FreeStrided, FreeRest, CastO1, Instruction
  <2>2. ub' = ub
    BY <2>1 DEF Does
  <2>3. /\ Times(WriteOfOut, x) = Times(WriteOfOut, v) /\ Times(1, x) = Times(1, v)
        /\ Times(4, x) = Times(4, v)
        /\ ~variant.o1IsF32 => Times(0, x) = Times(0, v)
    BY <1>4, <1>5 DEF WriteOfOut
  <2> QED BY <1>1, <1>3, <2>2, <2>3 DEF Held
<1>6. CASE k = 0 /\ ~variant.o1IsF32
  <2>1. VectorCode(k, t).writes = {<<o1F32Buf, t>>}
    BY <1>6 DEF VectorCode, CastO1, Instruction
  <2>2. ub' = [ub EXCEPT ![o1F32Buf] = t]
    BY <2>1, BuffersDiffer DEF Does
  <2>3. /\ Times(WriteOfOut, x) = Times(WriteOfOut, v) /\ Times(1, x) = Times(1, v)
        /\ Times(4, x) = Times(4, v) /\ Times(0, x) = t + 1
    BY <1>4, <1>6 DEF WriteOfOut
  <2> QED BY <1>1, <1>3, <2>2, <2>3, BuffersDiffer, QueueNames DEF Held
<1>7. CASE k = 1
  <2>1. VectorCode(k, t).writes = {<<o2F32Buf, t>>}
    BY <1>7 DEF VectorCode, CastO2, Instruction
  <2>2. ub' = [ub EXCEPT ![o2F32Buf] = t]
    BY <2>1, BuffersDiffer DEF Does
  <2>3. /\ Times(WriteOfOut, x) = Times(WriteOfOut, v) /\ Times(0, x) = Times(0, v)
        /\ Times(4, x) = Times(4, v) /\ Times(1, x) = t + 1
    BY <1>4, <1>7 DEF WriteOfOut
  <2> QED BY <1>1, <1>3, <2>2, <2>3, BuffersDiffer, QueueNames DEF Held
<1>8. CASE k = 4
  <2>1. VectorCode(k, t).writes = {<<weightBufs, t>>}
    BY <1>8 DEF VectorCode, WeightsOf, Instruction
  <2>2. ub' = [ub EXCEPT ![weightBufs] = t]
    BY <2>1, BuffersDiffer DEF Does
  <2>3. /\ Times(WriteOfOut, x) = Times(WriteOfOut, v) /\ Times(0, x) = Times(0, v)
        /\ Times(1, x) = Times(1, v) /\ Times(4, x) = t + 1
    BY <1>4, <1>8 DEF WriteOfOut
  <2> QED BY <1>1, <1>3, <2>2, <2>3, BuffersDiffer, QueueNames DEF Held
<1>9. CASE k = 6 \/ (k = 5 /\ variant.outIsF32)
  <2>1. VectorCode(k, t).writes = {<<tensor("outQue"), t>>} /\ WriteOfOut = k
    BY <1>9 DEF VectorCode, CastOut, MergeRowsOf, Instruction, Present, WriteOfOut
  <2>2. ub' = [ub EXCEPT ![tensor("outQue")] = t]
    BY <2>1, BuffersDiffer, QueueNames DEF Does
  <2>3. /\ Times(0, x) = Times(0, v) /\ Times(1, x) = Times(1, v)
        /\ Times(4, x) = Times(4, v) /\ Times(WriteOfOut, x) = t + 1
    BY <1>4, <1>9, <2>1
  <2> QED BY <1>1, <1>3, <2>2, <2>3, BuffersDiffer, QueueNames DEF Held
<1>10. CASE k = 5 /\ ~variant.outIsF32
  <2>1. VectorCode(k, t).writes = {<<o2F32Buf, t>>}
    BY <1>10 DEF VectorCode, MergeRowsOf, Instruction
  <2>2. ub' = [ub EXCEPT ![o2F32Buf] = t]
    BY <2>1, BuffersDiffer DEF Does
  <2>3. /\ Times(WriteOfOut, x) = Times(WriteOfOut, v) /\ Times(0, x) = Times(0, v)
        /\ Times(1, x) = t + 1 /\ Times(4, x) = Times(4, v)
    BY <1>4, <1>10 DEF WriteOfOut
  <2> QED BY <1>1, <1>3, <2>2, <2>3, BuffersDiffer, QueueNames DEF Held
<1> QED BY <1>5, <1>6, <1>7, <1>8, <1>9, <1>10 DEF Present

(* V executes an instruction.                                              *)
LEMMA VectorStep ==
    ASSUME Inv, RunPipe("V")
    PROVE  Inv'
<1> PICK u, v, w, todo, n : Placed(u, v, w, todo, n)
  BY DEF Inv
<1>1. Types /\ call' = call /\ pc' = pc /\ tile' = tile /\ variant' = variant
  BY DEF Inv, RunPipe, call
<1>2. /\ u \in Nat /\ v \in Nat /\ w \in Nat /\ HasLength(queue["V"], n)
      /\ n \in Nat /\ VectorQueue(v, todo, n)
  BY DEF Placed, LoadQueue, VectorQueue, CodeOf, StoreQueue, HasLength
<1>3. n # 0 /\ Does(queue["V"][1]) /\ Shortened("V", n)
  BY <1>1, <1>2, QueueNames, PipeEffect
<1> PICK p, rest : p = todo[1] /\ rest = AllButFirst(todo, n)
  OBVIOUS
<1>4. /\ p \in Nat /\ p < VectorEnd /\ VectorEnd \in Nat
      /\ Present(p % 8) /\ queue["V"][1] = VectorCode(p % 8, p \div 8)
      /\ Lists(rest, n - 1, p + 1, VectorEnd, Places)
      /\ Reaches(v, p % 8, p \div 8) /\ Passes(v, p + 1, p % 8)
  BY <1>1, <1>2, <1>3, NextPlace
<1> PICK k, t \in Nat : k = p % 8 /\ t = p \div 8
  BY <1>4
<1>5. /\ Present(k) /\ Does(VectorCode(k, t)) /\ p + 1 \in Nat
      /\ Reaches(v, k, t) /\ Passes(v, p + 1, k)
  BY <1>3, <1>4
<1>6. Counted(u, p + 1, w)'
  <2>1. Counted(u, v, w)
    BY DEF Placed
  <2> QED BY <1>1, <1>2, <1>5, <2>1, VectorEvents
<1>7. Held(u, p + 1)' /\ ub' = [b \in Buffers |-> ub'[b]]
  <2>1. Held(u, v)
    BY DEF Placed
  <2>2. Types /\ u \in Nat /\ v \in Nat /\ variant' = variant /\ pc' = pc /\ tile' = tile
    BY <1>1, <1>2
  <2> QED BY <1>5, <2>1, <2>2, VectorMemory
<1>8. LoadQueue(u)' /\ StoreQueue(w)'
  <2>1. queue'["MTE3"] = queue["MTE3"] /\ queue'["MTE2"] = queue["MTE2"]
    BY <1>3, QueueNames DEF Shortened
  <2> QED BY <1>1, <2>1, SameScalar, QueuesFrame DEF Placed
<1>9. VectorQueue(p + 1, rest, n - 1)'
  <2>1. VectorEnd' = VectorEnd /\ Places' = Places /\ \A j, y : VectorCode(j, y)' = VectorCode(j, y)
    BY <1>1, SameScalar, SameCall
  <2>2. HasLength(queue'["V"], n - 1)
    BY <1>3 DEF Shortened
  <2>3. ASSUME NEW i \in 1..(n - 1)
        PROVE  queue'["V"][i] = VectorCode(rest[i] % 8, rest[i] \div 8)
    <3>1. i + 1 \in 1..n
      BY <1>2
    <3>2. queue["V"][i + 1] = VectorCode(todo[i + 1] % 8, todo[i + 1] \div 8)
      BY <1>2, <3>1 DEF VectorQueue, CodeOf
    <3>3. rest[i] = todo[i + 1] /\ queue'["V"][i] = queue["V"][i + 1]
      BY <1>3 DEF Shortened, AllButFirst
    <3> QED BY <3>2, <3>3
  <2>4. p + 1 \in Nat /\ p + 1 <= VectorEnd /\ Lists(rest, n - 1, p + 1, VectorEnd, Places)
    BY <1>4
  <2> QED BY <2>1, <2>2, <2>3, <2>4 DEF VectorQueue, CodeOf
<1>10. Types'
  <2>1. /\ queue' = [q \in Pipes |-> queue'[q]] /\ events' \in [Events -> Nat]
    BY <1>1, <1>3, <1>5, Naturals DEF Shortened
  <2> QED BY <1>1, <1>7, <2>1, TypesOfPipe
<1>11. Weighed(p + 1)'
  <2>1. Times(4, p + 1) = Times(4, v) + (IF 4 = k THEN 1 ELSE 0) /\ Times(4, v) \in Nat
    <3>1. Present(4) /\ 4 \in 0..7
      BY DEF Present
    <3>2. Times(4, p + 1) = Times(4, v) + (IF 4 = k THEN 1 ELSE 0)
      BY <1>5, <3>1 DEF Passes
    <3>3. Times(4, v) \in Nat
      BY <1>2, <3>1, TimesNext
    <3> QED BY <3>2, <3>3
  <2>2. tile \in Nat /\ tile <= Times(4, v)
    BY <1>1 DEF Placed, Weighed, Types
  <2>3. tile <= Times(4, p + 1)
    BY <2>1, <2>2
  <2> QED BY <1>1, <2>3 DEF Weighed
<1>12. Placed(u, p + 1, w, rest, n - 1)'
  BY <1>6, <1>7, <1>8, <1>9, <1>11 DEF Placed
<1> QED BY <1>10, <1>12 DEF Inv

-----------------------------------------------------------------------------
(* The scalar unit issues code.                                            *)
Lengthened(p, n, code, m) ==
    /\ HasLength(queue'[p], n + m)
    /\ \A i \in 1..n : queue'[p][i] = queue[p][i]
    /\ \A i \in 1..m : queue'[p][n + i] = code[i]

LEMMA IssueEffect ==
    ASSUME NEW program, Issue(program)
    PROVE  /\ queue' = [p \in Pipes |-> queue'[p]]
           /\ \A p \in Pipes : p \notin DOMAIN program => queue'[p] = queue[p]
           /\ \A p \in Pipes : \A n, m :
                 /\ p \in DOMAIN program /\ HasLength(queue[p], n) /\ HasLength(program[p], m)
                 => Lengthened(p, n, program[p], m)
<1>1. queue' = [p \in Pipes |-> IF p \in DOMAIN program THEN queue[p] \o program[p]
                                ELSE queue[p]]
  BY DEF Issue
<1>2. ASSUME NEW p \in Pipes, NEW n, NEW m,
             p \in DOMAIN program, HasLength(queue[p], n), HasLength(program[p], m)
      PROVE  Lengthened(p, n, program[p], m)
  <2>1. queue'[p] = Joined(queue[p], program[p])
    BY <1>1, <1>2 DEF Joined
  <2>2. /\ HasLength(queue'[p], n + m)
        /\ \A i \in 1..n : queue'[p][i] = queue[p][i]
        /\ \A i \in 1..m : queue'[p][n + i] = program[p][i]
    BY <1>2, <2>1, Appended
  <2> QED BY <2>2 DEF Lengthened
<1> QED BY <1>1, <1>2

(* V is given the code of all places up to the new end.                    *)
LEMMA VectorExtended ==
    ASSUME NEW v, NEW todo, NEW n, VectorQueue(v, todo, n), variant' = variant,
           NEW code, NEW m, Lengthened("V", n, code, m),
           VectorEnd \in Nat, VectorEnd' \in Nat, VectorEnd <= VectorEnd',
           NEW new, Lists(new, m, VectorEnd, VectorEnd', Places),
           CodeOf(code, m, new)
    PROVE  VectorQueue(v, Joined(todo, new), n + m)'
<1> PICK all : all = Joined(todo, new)
  OBVIOUS
<1> PICK e \in Nat, f \in Nat : e = VectorEnd /\ f = VectorEnd'
  OBVIOUS
<1>1. /\ v \in Nat /\ v <= e /\ Lists(todo, n, v, e, Places) /\ Lists(new, m, e, f, Places)
      /\ HasLength(todo, n) /\ HasLength(new, m) /\ n \in Nat /\ m \in Nat
  BY DEF VectorQueue, HasLength, Lists
<1>2. Lists(all, n + m, v, f, Places)
  <2>1. Places \subseteq Nat /\ e <= f
    BY DEF Places
  <2> QED BY <1>1, <2>1, ListsJoined
<1>3. /\ \A i \in 1..n : all[i] = todo[i]
      /\ \A i \in 1..m : all[n + i] = new[i]
  <2>1. HasLength(todo, n) /\ HasLength(new, m) /\ n \in Nat /\ m \in Nat
    BY <1>1
  <2> QED BY <2>1, Appended
<1>4. HasLength(queue'["V"], n + m)
  BY DEF Lengthened
<1>5. Places' = Places /\ \A k, t : VectorCode(k, t)' = VectorCode(k, t)
  BY SameCall
<1>6. ASSUME NEW i \in 1..(n + m)
      PROVE  queue'["V"][i] = VectorCode(all[i] % 8, all[i] \div 8)
  <2>1. CASE i \in 1..n
    BY <1>3, <2>1 DEF VectorQueue, CodeOf, Lengthened
  <2>2. CASE i > n
    <3> PICK j \in 1..m : i = n + j
      <4>1. i - n \in 1..m /\ i = n + (i - n)
        BY <1>1, <2>2
      <4> QED BY <4>1
    <3>1. queue'["V"][n + j] = code[j] /\ all[n + j] = new[j]
      BY <1>1, <1>3 DEF Lengthened
    <3>2. code[j] = VectorCode(new[j] % 8, new[j] \div 8)
      BY DEF CodeOf
    <3> QED BY <3>1, <3>2
  <2> QED BY <1>1, <2>1, <2>2
<1>7. VectorQueue(v, all, n + m)'
  <2>1. v <= f
    BY <1>1
  <2> QED BY <1>1, <1>2, <1>4, <1>5, <1>6, <2>1 DEF VectorQueue, CodeOf
<1> QED BY <1>7

(* Where a place of a tile is.                                             *)
LEMMA PlaceOf ==
    ASSUME NEW t \in Nat
    PROVE  /\ \A k \in 0..7 : (8 * t + k) % 8 = k /\ (8 * t + k) \div 8 = t
           /\ \A k \in 0..3 : (4 * t + k) % 4 = k /\ (4 * t + k) \div 4 = t
  OBVIOUS

(* The next strided lse, if there is one.                                  *)
LEMMA AfterFacts ==
    ASSUME NEW s \in 0..2
    PROVE  \/ After(s) = <<"weights", 0>> /\ \A x \in 1..2 : strided(x) => x <= s
           \/ \E m \in 1..2 : /\ After(s) = <<"compact", m>> /\ strided(m) /\ m > s
                              /\ \A x \in 1..2 : strided(x) /\ x > s => x >= m
<1> DEFINE next == {x \in 1..2 : strided(x) /\ x > s}
<1>1. CASE next = {}
  <2>1. After(s) = <<"weights", 0>>
    BY <1>1 DEF After
  <2>2. ASSUME NEW x \in 1..2, strided(x) PROVE x <= s
    <3>1. x \notin next
      BY <1>1
    <3> QED BY <2>2, <3>1
  <2> QED BY <2>1, <2>2
<1>2. CASE next # {}
  <2>1. \E m \in next : \A x \in next : m <= x
    BY <1>2
  <2>2. Min(next) = CHOOSE m \in next : \A x \in next : m <= x
    BY DEF Min
  <2> PICK m : m = Min(next)
    OBVIOUS
  <2>3. m \in next /\ \A x \in next : m <= x
    BY <2>1, <2>2
  <2>4. After(s) = <<"compact", m>>
    BY <1>2 DEF After
  <2>5. m \in 1..2 /\ strided(m) /\ m > s /\ \A x \in 1..2 : strided(x) /\ x > s => x >= m
    BY <2>3
  <2> QED BY <2>4, <2>5
<1> QED BY <1>1, <1>2

-----------------------------------------------------------------------------
(* Short sequences, one behind the other.                                 *)
LEMMA ShortJoined ==
    ASSUME NEW x, NEW y
    PROVE  /\ HasLength(<<x>> \o <<y>>, 2)
           /\ (<<x>> \o <<y>>)[1] = x /\ (<<x>> \o <<y>>)[2] = y
<1> PICK q, r, j : q = <<x>> /\ r = <<y>> /\ j = Joined(q, r)
  OBVIOUS
<1>1. HasLength(q, 1) /\ HasLength(r, 1) /\ q[1] = x /\ r[1] = y
  BY ShortSequences
<1>2. /\ HasLength(j, 1 + 1) /\ \A i \in 1..1 : j[i] = q[i]
      /\ \A i \in 1..1 : j[1 + i] = r[i]
  BY <1>1, Appended
<1>3. HasLength(j, 2) /\ j[1] = x /\ j[2] = y
  BY <1>1, <1>2
<1> QED BY <1>3 DEF Joined

LEMMA OneMore ==
    ASSUME NEW q, NEW n \in Nat, HasLength(q, n), NEW x
    PROVE  /\ HasLength(q \o <<x>>, n + 1) /\ (q \o <<x>>)[n + 1] = x
           /\ \A i \in 1..n : (q \o <<x>>)[i] = q[i]
<1> PICK r, j : r = <<x>> /\ j = Joined(q, r)
  OBVIOUS
<1>1. HasLength(r, 1) /\ r[1] = x
  BY ShortSequences
<1>2. /\ HasLength(j, n + 1) /\ \A i \in 1..n : j[i] = q[i]
      /\ \A i \in 1..1 : j[n + i] = r[i]
  BY <1>1, Appended
<1>3. HasLength(j, n + 1) /\ j[n + 1] = x /\ \A i \in 1..n : j[i] = q[i]
  BY <1>1, <1>2
<1> QED BY <1>3 DEF Joined

LEMMA NothingMore ==
    ASSUME NEW q, NEW n \in Nat, HasLength(q, n)
    PROVE  q \o <<>> = q
<1> PICK S : S = {q[i] : i \in 1..n}
  OBVIOUS
<1>1. q \in Seq(S)
  BY SequenceFacts
<1> QED BY <1>1, ConcatEmptySeq, Zenon

(* The steps that this variant has of a tile, as places of the tile and of *)
(* the whole program.                                                      *)
Steps == {k \in 0..7 : Present(k)}

LEMMA ListsOfTile ==
    ASSUME NEW t \in Nat, NEW a \in 0..8, NEW b \in 0..8, NEW s, NEW n \in Nat,
           Lists(s, n, a, b, Steps), NEW new, new = [i \in 1..n |-> 8 * t + s[i]]
    PROVE  Lists(new, n, 8 * t + a, 8 * t + b, Places)
<1>1. ASSUME NEW i \in 1..n
      PROVE  /\ s[i] \in 0..7 /\ Present(s[i]) /\ a <= s[i] /\ s[i] < b
             /\ new[i] = 8 * t + s[i]
  BY DEF Lists, Steps
<1>2. ASSUME NEW k \in 0..7 PROVE (8 * t + k) % 8 = k /\ 8 * t + k \in Nat
  OBVIOUS
<1>3. HasLength(new, n)
  BY DEF HasLength
<1>4. ASSUME NEW i \in 1..n
      PROVE  new[i] \in Places /\ 8 * t + a <= new[i] /\ new[i] < 8 * t + b
  <2> PICK k \in 0..7 : k = s[i]
    BY <1>1
  <2>1. new[i] \in Nat /\ new[i] % 8 = s[i]
    BY <1>1, <1>2
  <2>2. new[i] \in Places
    BY <1>1, <2>1 DEF Places
  <2>3. 8 * t + a <= 8 * t + k /\ 8 * t + k < 8 * t + b
    BY <1>1
  <2> QED BY <1>1, <2>2, <2>3
<1>5. ASSUME NEW i \in 1..n, NEW j \in 1..n, i < j PROVE new[i] < new[j]
  <2> PICK k \in 0..7, l \in 0..7 : k = s[i] /\ l = s[j]
    BY <1>1
  <2>1. k < l
    BY <1>5 DEF Lists
  <2>2. new[i] = 8 * t + k /\ new[j] = 8 * t + l
    BY <1>1
  <2> QED BY <2>1, <2>2
<1>6. ASSUME NEW p \in Places, 8 * t + a <= p, p < 8 * t + b PROVE \E i \in 1..n : new[i] = p
  <2>1. p \in Nat /\ Present(p % 8)
    BY DEF Places
  <2> PICK k \in 0..7 : k = p - 8 * t
    <3>1. p - 8 * t \in 0..7
      BY <1>6, <2>1
    <3> QED BY <3>1
  <2>2. p = 8 * t + k /\ p % 8 = k /\ a <= k /\ k < b
    BY <1>2, <1>6, <2>1
  <2>3. k \in Steps
    BY <2>1, <2>2 DEF Steps
  <2>4. PICK i \in 1..n : s[i] = k
    BY <2>2, <2>3 DEF Lists
  <2> QED BY <1>1, <2>2, <2>4
<1> QED BY <1>3, <1>4, <1>5, <1>6 DEF Lists

LEMMA TileExtended ==
    ASSUME NEW v, NEW todo, NEW n, VectorQueue(v, todo, n), variant' = variant,
           NEW t \in Nat, NEW a \in 0..8, NEW b \in 0..8, a <= b,
           VectorEnd = 8 * t + a, VectorEnd' = 8 * t + b,
           NEW code, NEW m \in Nat, HasLength(code, m), Lengthened("V", n, code, m),
           NEW s, Lists(s, m, a, b, Steps), \A i \in 1..m : code[i] = VectorCode(s[i], t)
    PROVE  \E rest, l : VectorQueue(v, rest, l)'
<1> PICK new : new = [i \in 1..m |-> 8 * t + s[i]]
  OBVIOUS
<1>1. Lists(new, m, VectorEnd, VectorEnd', Places)
  <2>1. Lists(new, m, 8 * t + a, 8 * t + b, Places)
    BY ListsOfTile
  <2> QED BY <2>1
<1>2. CodeOf(code, m, new)
  <2>1. ASSUME NEW i \in 1..m PROVE code[i] = VectorCode(new[i] % 8, new[i] \div 8)
    <3> PICK k \in 0..7 : k = s[i]
      BY DEF Lists, Steps
    <3>1. new[i] % 8 = k /\ new[i] \div 8 = t
      <4>1. new[i] = 8 * t + k
        OBVIOUS
      <4> QED BY <4>1, PlaceOf
    <3>2. code[i] = VectorCode(k, t)
      OBVIOUS
    <3> QED BY <3>1, <3>2
  <2> QED BY <2>1 DEF CodeOf
<1> PICK all : all = Joined(todo, new)
  OBVIOUS
<1>3. VectorEnd \in Nat /\ VectorEnd' \in Nat /\ VectorEnd <= VectorEnd'
  OBVIOUS
<1>4. VectorQueue(v, all, n + m)'
  BY <1>1, <1>2, <1>3, VectorExtended
<1> QED BY <1>4

-----------------------------------------------------------------------------
(* The code that the scalar unit issues is that of the programs.           *)
LEMMA LoadTileCode ==
    ASSUME NEW t
    PROVE  /\ HasLength(LoadTile(t), 4)
           /\ \A k \in 0..3 : LoadTile(t)[k + 1] = LoadCode(k, t)
<1> PICK a, b, c, d : /\ a = LoadCode(0, t) /\ b = LoadCode(1, t)
                      /\ c = LoadCode(2, t) /\ d = LoadCode(3, t)
  OBVIOUS
<1> PICK q, r, s : q = <<a>> \o <<b>> /\ r = q \o <<c>> /\ s = r \o <<d>>
  OBVIOUS
<1>1. LoadTile(t) = s
  <2>1. /\ a = LoadOf("inQueLse1", t, {}) /\ b = LoadOf("inQueLse2", t, {})
        /\ c = LoadOf("inQueO1", t, {ready("inQueO1")})
        /\ d = LoadOf("inQueO2", t, {ready("inQueO2"), ready("inQueLse1"), ready("inQueLse2")})
    BY DEF LoadCode
  <2> QED BY <2>1, Zenon DEF LoadTile, Load, LoadOf
<1>2. HasLength(q, 2) /\ q[1] = a /\ q[2] = b
  BY ShortJoined, Zenon
<1>3. HasLength(r, 3) /\ r[1] = a /\ r[2] = b /\ r[3] = c
  <2>1. HasLength(r, 2 + 1) /\ r[2 + 1] = c /\ \A i \in 1..2 : r[i] = q[i]
    BY <1>2, OneMore
  <2> QED BY <1>2, <2>1
<1>4. HasLength(s, 4) /\ s[1] = a /\ s[2] = b /\ s[3] = c /\ s[4] = d
  <2>1. HasLength(s, 3 + 1) /\ s[3 + 1] = d /\ \A i \in 1..3 : s[i] = r[i]
    BY <1>3, OneMore
  <2> QED BY <1>3, <2>1
<1> QED BY <1>1, <1>4

LEMMA CastTileCode ==
    ASSUME NEW t
    PROVE  /\ HasLength(CastTile(t), 2)
           /\ CastTile(t)[1] = VectorCode(0, t) /\ CastTile(t)[2] = VectorCode(1, t)
<1> PICK a, b : a = VectorCode(0, t) /\ b = VectorCode(1, t)
  OBVIOUS
<1>1. a = CastO1(t) /\ b = CastO2(t)
  BY DEF VectorCode
<1>2. CastTile(t) = <<a>> \o <<b>>
  <2>1. CASE variant.o1IsF32
    BY <1>1, <2>1, Zenon DEF CastTile, Vector, CastO1, CastO2
  <2>2. CASE ~variant.o1IsF32
    BY <1>1, <2>2, Zenon DEF CastTile, Vector, CastO1, CastO2
  <2> QED BY <2>1, <2>2
<1> PICK q : q = <<a>> \o <<b>>
  OBVIOUS
<1>3. HasLength(q, 2) /\ q[1] = a /\ q[2] = b
  BY ShortJoined, Zenon
<1> QED BY <1>2, <1>3, Zenon

LEMMA MergeRowsCode ==
    ASSUME NEW t, NEW code, code = MergeRows(t)
    PROVE  /\ variant.outIsF32 => /\ HasLength(code, 2)
                                  /\ code[1] = VectorCode(5, t) /\ code[2] = VectorCode(7, t)
           /\ ~variant.outIsF32 => /\ HasLength(code, 3)
                                   /\ code[1] = VectorCode(5, t) /\ code[2] = VectorCode(6, t)
                                   /\ code[3] = VectorCode(7, t)
<1> PICK a, b, c : a = VectorCode(5, t) /\ b = VectorCode(6, t) /\ c = VectorCode(7, t)
  OBVIOUS
<1>1. a = MergeRowsOf(t) /\ b = CastOut(t) /\ c = FreeRest
  BY DEF VectorCode
<1>2. ASSUME variant.outIsF32 PROVE HasLength(code, 2) /\ code[1] = a /\ code[2] = c
  <2>1. code = (<<a>> \o <<>>) \o <<c>>
    BY <1>1, <1>2, Zenon DEF MergeRows, Vector, If, MergeRowsOf, FreeRest
  <2>2. <<a>> \o <<>> = <<a>>
    BY ShortSequences, NothingMore
  <2> PICK q : q = <<a>> \o <<c>>
    OBVIOUS
  <2>3. HasLength(q, 2) /\ q[1] = a /\ q[2] = c
    BY ShortJoined, Zenon
  <2> QED BY <2>1, <2>2, <2>3, Zenon
<1>3. ASSUME ~variant.outIsF32
      PROVE  HasLength(code, 3) /\ code[1] = a /\ code[2] = b /\ code[3] = c
  <2> PICK q : q = <<a>> \o <<b>>
    OBVIOUS
  <2>1. code = q \o <<c>>
    BY <1>1, <1>3, Zenon DEF MergeRows, Vector, If, MergeRowsOf, CastOut, FreeRest
  <2>2. HasLength(q, 2) /\ q[1] = a /\ q[2] = b
    BY ShortJoined, Zenon
  <2>3. HasLength(code, 2 + 1) /\ code[2 + 1] = c /\ \A i \in 1..2 : code[i] = q[i]
    BY <2>1, <2>2, OneMore
  <2> QED BY <2>2, <2>3
<1> QED BY <1>2, <1>3

(* The steps of a tile that an action of the scalar unit issues to V.      *)
LEMMA OneStep ==
    ASSUME NEW s, HasLength(s, 1), NEW k \in Steps, s[1] = k, NEW b \in 0..8, k < b,
           \A j \in Steps : ~(k < j /\ j < b)
    PROVE  Lists(s, 1, k, b, Steps)
  BY DEF Lists, Steps

LEMMA TwoSteps ==
    ASSUME NEW s, HasLength(s, 2), NEW k \in Steps, s[1] = k, NEW l \in Steps, s[2] = l,
           NEW b \in 0..8, k < l, l < b, \A j \in Steps : j = l \/ ~(k < j /\ j < b)
    PROVE  Lists(s, 2, k, b, Steps)
  BY DEF Lists, Steps

-----------------------------------------------------------------------------
(* What an action of the scalar unit keeps.                                *)
LEMMA TypesOfScalar ==
    ASSUME Types, call' = call, tile' \in Nat,
           \/ pc' \in {<<"load", 0>>, <<"done", 0>>, <<"weights", 0>>, <<"merge", 0>>}
           \/ \E side \in 1..2 :
                 strided(side) /\ pc' \in {<<"compact", side>>, <<"compacted", side>>},
           pc'[1] = "done" <=> ~(tile' * TILE_ROWS < myRows),
           queue' = [p \in Pipes |-> queue'[p]], events' = events,
           ub' = [b \in Buffers |-> ub'[b]]
    PROVE  Types'
<1>1. /\ variant' = variant /\ totalRows' = totalRows /\ blockIdx' = blockIdx
      /\ \A side : strided(side)' = strided(side)
      /\ myRows' = myRows /\ blockDim' = blockDim
  BY SameCall, SameRows DEF call
<1> QED BY <1>1 DEF Types

LEMMA ScalarKeeps ==
    ASSUME variant' = variant, NEW u, NEW v, NEW w
    PROVE  /\ events' = events /\ Counted(u, v, w) => Counted(u, v, w)'
           /\ /\ ub' = ub /\ Held(u, v)
              /\ \A side \in 1..2 : Compacted(side)' => Compacted(side) /\ tile' = tile
              => Held(u, v)'
<1>1. /\ FreeOfO1' = FreeOfO1 /\ WriteOfOut' = WriteOfOut
      /\ \A side : FreeOfLse(side)' = FreeOfLse(side)
  BY SameCall
<1>2. events' = events /\ Counted(u, v, w) => Counted(u, v, w)'
  BY <1>1 DEF Counted
<1>3. ASSUME ub' = ub, Held(u, v),
             \A side \in 1..2 : Compacted(side)' => Compacted(side) /\ tile' = tile
      PROVE  Held(u, v)'
  BY <1>1, <1>3 DEF Held
<1> QED BY <1>2, <1>3

(* Where the scalar unit is after lse number s.                            *)
LEMMA AfterScalar ==
    ASSUME tile \in Nat, NEW s \in 0..2, pc' = After(s), variant' = variant, tile' = tile
    PROVE  /\ \/ pc' = <<"weights", 0>>
              \/ \E side \in 1..2 : strided(side) /\ pc' = <<"compact", side>>
           /\ LoadEnd' = 4 * tile + 4
           /\ \E b \in (s + 2)..4 : /\ VectorEnd' = 8 * tile + b
                                    /\ \A j \in Steps : 1 < j => ~(s + 1 < j /\ j < b)
           /\ \A side \in 1..2 : Compacted(side)' => side <= s
<1>1. \A side : strided(side)' = strided(side)
  BY SameCall
<1>2. \A j \in Steps : j \in 0..7 /\ (j = 2 => strided(1)) /\ (j = 3 => strided(2))
  BY DEF Steps, Present
<1>3. CASE After(s) = <<"weights", 0>> /\ \A x \in 1..2 : strided(x) => x <= s
  <2>1. /\ LoadEnd' = 4 * tile + 4 /\ VectorEnd' = 8 * tile + 4
        /\ \A side : Compacted(side)' => strided(side)
    BY <1>1, <1>3 DEF LoadEnd, VectorEnd, BetweenTiles, Compacted
  <2>2. \A j \in Steps : 1 < j => ~(s + 1 < j /\ j < 4)
    BY <1>2, <1>3
  <2> QED BY <1>3, <2>1, <2>2
<1>4. ASSUME NEW m \in 1..2, After(s) = <<"compact", m>>, strided(m), m > s,
             \A x \in 1..2 : strided(x) /\ x > s => x >= m
      PROVE  /\ \E side \in 1..2 : strided(side) /\ pc' = <<"compact", side>>
             /\ LoadEnd' = 4 * tile + 4
             /\ VectorEnd' = 8 * tile + (1 + m) /\ 1 + m \in (s + 2)..4
             /\ \A j \in Steps : 1 < j => ~(s + 1 < j /\ j < 1 + m)
             /\ \A side \in 1..2 : Compacted(side)' => side <= s
  <2>1. pc' = <<"compact", m>>
    BY <1>4
  <2>2. /\ LoadEnd' = 4 * tile + 4 /\ VectorEnd' = 8 * tile + (1 + m)
        /\ \A side : Compacted(side)' => strided(side) /\ side < m
    BY <1>1, <2>1 DEF LoadEnd, VectorEnd, BetweenTiles, Compacted
  <2>3. ASSUME NEW j \in Steps, 1 < j, s + 1 < j, j < 1 + m PROVE FALSE
    <3>1. j = 2 /\ m = 2 /\ s = 0 /\ strided(1)
      BY <1>2, <2>3
    <3> QED BY <1>4, <3>1
  <2>4. ASSUME NEW side \in 1..2, Compacted(side)' PROVE side <= s
    BY <1>4, <2>2, <2>4
  <2>5. 1 + m \in (s + 2)..4
    BY <1>4
  <2> QED BY <1>4, <2>1, <2>2, <2>3, <2>4, <2>5
<1> QED BY <1>3, <1>4, AfterFacts

(* What MTE2 is given: the loads of a tile.                                *)
LEMMA LoadExtended ==
    ASSUME NEW u, LoadQueue(u), variant' = variant, tile \in Nat,
           LoadEnd = 4 * tile, LoadEnd' = 4 * tile + 4,
           NEW n, n = LoadEnd - u, Lengthened("MTE2", n, LoadTile(tile), 4)
    PROVE  LoadQueue(u)'
<1> PICK t \in Nat : t = tile
  OBVIOUS
<1>1. u \in Nat /\ u <= 4 * t /\ n \in Nat /\ u + n = 4 * t
  BY DEF LoadQueue
<1>2. HasLength(queue'["MTE2"], n + 4)
  BY DEF Lengthened
<1>3. \A k, y : LoadCode(k, y)' = LoadCode(k, y)
  BY DEF LoadCode, LoadOf
<1>4. ASSUME NEW i \in 1..(n + 4)
      PROVE  queue'["MTE2"][i] = LoadCode((u + i - 1) % 4, (u + i - 1) \div 4)
  <2>1. CASE i \in 1..n
    BY <1>1, <2>1 DEF LoadQueue, Lengthened
  <2>2. CASE i \notin 1..n
    <3> PICK k \in 0..3 : i = n + (k + 1)
      <4>1. i - n - 1 \in 0..3
        BY <1>1, <2>2
      <4>2. i = n + ((i - n - 1) + 1)
        BY <1>1
      <4> QED BY <4>1, <4>2
    <3>1. queue'["MTE2"][n + (k + 1)] = LoadCode(k, t)
      <4>1. k + 1 \in 1..4
        OBVIOUS
      <4> QED BY <4>1, LoadTileCode DEF Lengthened
    <3>2. u + i - 1 = 4 * t + k
      BY <1>1
    <3>3. (u + i - 1) % 4 = k /\ (u + i - 1) \div 4 = t
      BY <3>2, PlaceOf
    <3> QED BY <3>1, <3>3
  <2> QED BY <2>1, <2>2
<1>5. LoadEnd' - u = n + 4 /\ u <= LoadEnd'
  BY <1>1
<1> QED BY <1>1, <1>2, <1>3, <1>4, <1>5 DEF LoadQueue

-----------------------------------------------------------------------------
(* The scalar unit begins a tile.                                          *)
LEMMA BeginTileStep ==
    ASSUME Inv, BeginTile
    PROVE  Inv'
<1> PICK u, v, w, todo, n : Placed(u, v, w, todo, n)
  BY DEF Inv
<1>1. /\ Types /\ call' = call /\ tile' = tile /\ variant' = variant /\ tile \in Nat
      /\ pc[1] = "load" /\ pc' = After(0) /\ events' = events /\ ub' = ub
      /\ ub = [b \in Buffers |-> ub[b]]
  BY DEF Inv, BeginTile, call, Types
<1>2. LoadEnd = 4 * tile /\ VectorEnd = 8 * tile + 0 /\ tile * TILE_ROWS < myRows
  BY <1>1 DEF LoadEnd, VectorEnd, BetweenTiles, Types
<1>3. /\ queue' = [p \in Pipes |-> queue'[p]] /\ queue'["MTE3"] = queue["MTE3"]
      /\ Lengthened("MTE2", LoadEnd - u, LoadTile(tile), 4)
      /\ Lengthened("V", n, CastTile(tile), 2)
  <2> PICK program : program = [MTE2 |-> LoadTile(tile), V |-> CastTile(tile)]
    OBVIOUS
  <2>1. /\ Issue(program) /\ program["MTE2"] = LoadTile(tile) /\ program["V"] = CastTile(tile)
        /\ "MTE2" \in DOMAIN program /\ "V" \in DOMAIN program /\ "MTE3" \notin DOMAIN program
    BY DEF BeginTile
  <2>2. HasLength(queue["MTE2"], LoadEnd - u) /\ HasLength(queue["V"], n)
    BY DEF Placed, LoadQueue, VectorQueue, CodeOf
  <2>3. HasLength(LoadTile(tile), 4) /\ HasLength(CastTile(tile), 2)
    BY LoadTileCode, CastTileCode
  <2>4. /\ queue' = [p \in Pipes |-> queue'[p]]
        /\ \A p \in Pipes : p \notin DOMAIN program => queue'[p] = queue[p]
    BY <2>1, IssueEffect
  <2>5. Lengthened("MTE2", LoadEnd - u, program["MTE2"], 4)
    BY <2>1, <2>2, <2>3, QueueNames, IssueEffect
  <2>6. Lengthened("V", n, program["V"], 2)
    BY <2>1, <2>2, <2>3, QueueNames, IssueEffect
  <2> QED BY <2>1, <2>4, <2>5, <2>6, QueueNames
<1>4. /\ \/ pc' = <<"weights", 0>>
         \/ \E side \in 1..2 : strided(side) /\ pc' = <<"compact", side>>
      /\ LoadEnd' = 4 * tile + 4
      /\ \E b \in 2..4 : /\ VectorEnd' = 8 * tile + b
                         /\ \A j \in Steps : 1 < j => ~(1 < j /\ j < b)
      /\ \A side \in 1..2 : ~Compacted(side)'
  <2>1. /\ \/ pc' = <<"weights", 0>>
           \/ \E side \in 1..2 : strided(side) /\ pc' = <<"compact", side>>
        /\ LoadEnd' = 4 * tile + 4
        /\ \E b \in (0 + 2)..4 : /\ VectorEnd' = 8 * tile + b
                                 /\ \A j \in Steps : 1 < j => ~(0 + 1 < j /\ j < b)
        /\ \A side \in 1..2 : Compacted(side)' => side <= 0
    BY <1>1, AfterScalar
  <2>2. \A side \in 1..2 : ~Compacted(side)'
    BY <2>1
  <2> QED BY <2>1, <2>2
<1>5. LoadQueue(u)'
  BY <1>1, <1>2, <1>3, <1>4, LoadExtended DEF Placed
<1>6. \E rest, l : VectorQueue(v, rest, l)'
  <2> PICK b \in 2..4 : /\ VectorEnd' = 8 * tile + b
                        /\ \A j \in Steps : 1 < j => ~(1 < j /\ j < b)
    BY <1>4
  <2> PICK s : s = <<0, 1>>
    OBVIOUS
  <2>1. HasLength(s, 2) /\ s[1] = 0 /\ s[2] = 1
    BY ShortSequences
  <2>2. 0 \in Steps /\ 1 \in Steps
    BY DEF Steps, Present
  <2>3. Lists(s, 2, 0, b, Steps)
    <3>1. \A j \in Steps : j \in 0..7
      BY DEF Steps
    <3>2. \A j \in Steps : j = 1 \/ ~(0 < j /\ j < b)
      BY <3>1
    <3> QED BY <2>1, <2>2, <3>2, TwoSteps
  <2>4. HasLength(CastTile(tile), 2) /\ \A i \in 1..2 : CastTile(tile)[i] = VectorCode(s[i], tile)
    BY <2>1, CastTileCode
  <2>5. VectorQueue(v, todo, n)
    BY DEF Placed
  <2> QED BY <1>1, <1>2, <1>3, <2>3, <2>4, <2>5, TileExtended
<1>7. StoreQueue(w)'
  BY <1>1, <1>3, QueuesFrame DEF Placed
<1>8. Counted(u, v, w)' /\ Held(u, v)'
  BY <1>1, <1>4, ScalarKeeps DEF Placed
<1>9. Types'
  <2>1. pc'[1] # "done"
    BY <1>4
  <2> QED BY <1>1, <1>2, <1>3, <1>4, <2>1, TypesOfScalar
<1> QED BY <1>1, <1>5, <1>6, <1>7, <1>8, <1>9 DEF Inv, Placed, Weighed

(* It compacts an lse, which MTE2 has loaded if DeQue stops the scalar     *)
(* unit: the queue of MTE2 is empty.                                       *)
LEMMA CompactLseStep ==
    ASSUME Inv, CompactLse
    PROVE  Inv'
<1> PICK u, v, w, todo, n : Placed(u, v, w, todo, n)
  BY DEF Inv
<1>1. /\ Types /\ call' = call /\ tile' = tile /\ variant' = variant /\ tile \in Nat
      /\ queue' = queue /\ events' = events /\ ub = [b \in Buffers |-> ub[b]]
  BY DEF Inv, CompactLse, call, Types
<1> PICK s \in 1..2 : pc = <<"compact", s>> /\ strided(s)
  <2>1. pc[1] = "compact"
    BY DEF CompactLse
  <2> QED BY <1>1, <2>1 DEF Types
<1>2. pc' = <<"compacted", s>> /\ (DeQueStopsScalar => queue["MTE2"] = <<>>)
  BY DEF CompactLse, Barrier
<1>3. ub' = [ub EXCEPT ![lseCBuf(s)] = ub[tensor(lseQueue(s))]]
  BY DEF CompactLse
<1>4. LoadEnd' = LoadEnd /\ VectorEnd' = VectorEnd /\ LoadEnd = 4 * tile + 4
  BY <1>1, <1>2 DEF LoadEnd, VectorEnd, BetweenTiles
<1>5. ASSUME DeQueStopsScalar PROVE ub[tensor(lseQueue(s))] = tile
  <2>1. u \in Nat /\ u = 4 * tile + 4
    <3>1. u \in Nat /\ HasLength(queue["MTE2"], LoadEnd - u)
      BY DEF Placed, LoadQueue
    <3>2. LoadEnd - u = 0
      BY <1>2, <1>5, <3>1, EmptyLength
    <3> QED BY <1>1, <1>4, <3>1, <3>2
  <2>2. Loaded(0, u) = tile + 1 /\ Loaded(1, u) = tile + 1
    BY <1>1, <2>1 DEF Loaded
  <2>3. lseQueue(s) = IF s = 1 THEN "inQueLse1" ELSE "inQueLse2"
    BY DEF lseQueue
  <2> QED BY <1>1, <2>2, <2>3 DEF Placed, Held
<1>6. LoadQueue(u)' /\ VectorQueue(v, todo, n)' /\ StoreQueue(w)'
  BY <1>1, <1>4, QueuesFrame DEF Placed
<1>7. Counted(u, v, w)'
  BY <1>1, ScalarKeeps DEF Placed
<1>8. Held(u, v)'
  <2>1. \A b \in Buffers : b # lseCBuf(s) => ub'[b] = ub[b]
    BY <1>1, <1>3
  <2>2. DeQueStopsScalar => ub'[lseCBuf(s)] = tile
    BY <1>1, <1>3, <1>5, BuffersDiffer
  <2>3. WriteOfOut' = WriteOfOut
    BY <1>1, SameCall
  <2>4. ASSUME DeQueStopsScalar, NEW side \in 1..2, Compacted(side)'
        PROVE  ub'[lseCBuf(side)] = tile
    <3>1. side # s => Compacted(side)
      BY <1>1, <1>2, <2>4, SameCall DEF Compacted
    <3>2. side # s => ub[lseCBuf(side)] = tile
      BY <2>4, <3>1 DEF Placed, Held
    <3>3. side # s => lseCBuf(side) # lseCBuf(s) /\ lseCBuf(side) \in Buffers
      BY BuffersDiffer
    <3> QED BY <2>1, <2>2, <2>4, <3>2, <3>3
  <2>5. \A q \in Queues : ub'[tensor(q)] = ub[tensor(q)]
    BY <2>1, BuffersDiffer
  <2>6. /\ ub'[o1F32Buf] = ub[o1F32Buf] /\ ub'[o2F32Buf] = ub[o2F32Buf]
        /\ ub'[weightBufs] = ub[weightBufs]
    BY <2>1, BuffersDiffer
  <2> QED BY <1>1, <2>3, <2>4, <2>5, <2>6, QueueNames DEF Placed, Held
<1>9. Types'
  <2>1. ub' = [b \in Buffers |-> ub'[b]] /\ queue' = [p \in Pipes |-> queue'[p]]
    BY <1>1, <1>3 DEF Types
  <2>2. pc'[1] = "done" <=> ~(tile' * TILE_ROWS < myRows)
    BY <1>1, <1>2 DEF Types
  <2> QED BY <1>1, <1>2, <2>1, <2>2, TypesOfScalar
<1> QED BY <1>1, <1>6, <1>7, <1>8, <1>9 DEF Inv, Placed, Weighed

(* It lets V free the lse that it has compacted.                           *)
LEMMA FreeLseStep ==
    ASSUME Inv, FreeLse
    PROVE  Inv'
<1> PICK u, v, w, todo, n : Placed(u, v, w, todo, n)
  BY DEF Inv
<1>1. /\ Types /\ call' = call /\ tile' = tile /\ variant' = variant /\ tile \in Nat
      /\ events' = events /\ ub' = ub /\ ub = [b \in Buffers |-> ub[b]]
  BY DEF Inv, FreeLse, call, Types
<1> PICK s \in 1..2 : pc = <<"compacted", s>> /\ strided(s)
  <2>1. pc[1] = "compacted"
    BY DEF FreeLse
  <2> QED BY <1>1, <2>1 DEF Types
<1>2. pc' = After(s)
  BY DEF FreeLse
<1>3. /\ LoadEnd = 4 * tile + 4 /\ VectorEnd = 8 * tile + (1 + s)
      /\ tile * TILE_ROWS < myRows
  BY <1>1 DEF LoadEnd, VectorEnd, BetweenTiles, Types
<1> PICK code : code = Vector({}, {}, {}, {free(lseQueue(s))})
  OBVIOUS
<1>4. code = <<VectorCode(1 + s, tile)>>
  BY DEF Vector, VectorCode, FreeStrided
<1>5. HasLength(code, 1) /\ code[1] = VectorCode(1 + s, tile)
  BY <1>4, ShortSequences
<1>6. /\ queue' = [p \in Pipes |-> queue'[p]] /\ queue'["MTE3"] = queue["MTE3"]
      /\ queue'["MTE2"] = queue["MTE2"] /\ Lengthened("V", n, code, 1)
  <2> PICK program : program = [V |-> code]
    OBVIOUS
  <2>1. /\ Issue(program) /\ program["V"] = code
        /\ "V" \in DOMAIN program /\ "MTE2" \notin DOMAIN program /\ "MTE3" \notin DOMAIN program
    BY DEF FreeLse
  <2>2. HasLength(queue["V"], n)
    BY DEF Placed, VectorQueue, CodeOf
  <2>3. /\ queue' = [p \in Pipes |-> queue'[p]]
        /\ \A p \in Pipes : p \notin DOMAIN program => queue'[p] = queue[p]
    BY <2>1, IssueEffect
  <2>4. Lengthened("V", n, program["V"], 1)
    BY <1>5, <2>1, <2>2, QueueNames, IssueEffect
  <2> QED BY <2>1, <2>3, <2>4, QueueNames
<1>7. /\ \/ pc' = <<"weights", 0>>
         \/ \E side \in 1..2 : strided(side) /\ pc' = <<"compact", side>>
      /\ LoadEnd' = 4 * tile + 4
      /\ \E b \in (s + 2)..4 : /\ VectorEnd' = 8 * tile + b
                               /\ \A j \in Steps : 1 < j => ~(s + 1 < j /\ j < b)
      /\ \A side \in 1..2 : Compacted(side)' => side <= s
  BY <1>1, <1>2, AfterScalar
<1>8. LoadQueue(u)' /\ StoreQueue(w)'
  BY <1>1, <1>3, <1>6, <1>7, QueuesFrame DEF Placed
<1>9. \E rest, l : VectorQueue(v, rest, l)'
  <2> PICK b \in (s + 2)..4 : /\ VectorEnd' = 8 * tile + b
                              /\ \A j \in Steps : 1 < j => ~(s + 1 < j /\ j < b)
    BY <1>7
  <2> PICK k \in 2..3, c \in 0..8 : k = 1 + s /\ c = b
    OBVIOUS
  <2> PICK list : list = <<k>>
    OBVIOUS
  <2>1. HasLength(list, 1) /\ list[1] = k
    BY ShortSequences
  <2>2. k \in Steps /\ k < c /\ \A j \in Steps : ~(k < j /\ j < c)
    <3>1. k \in Steps
      BY DEF Steps, Present
    <3>2. \A j \in Steps : j \in 0..7
      BY DEF Steps
    <3> QED BY <3>1, <3>2
  <2>3. Lists(list, 1, k, c, Steps)
    BY <2>1, <2>2, OneStep
  <2>4. \A i \in 1..1 : code[i] = VectorCode(list[i], tile)
    BY <1>5, <2>1
  <2>5. VectorQueue(v, todo, n)
    BY DEF Placed
  <2>6. k \in 0..8 /\ k <= c /\ VectorEnd = 8 * tile + k /\ VectorEnd' = 8 * tile + c
    BY <1>3, <2>2
  <2> QED BY <1>1, <1>5, <1>6, <2>3, <2>4, <2>5, <2>6, TileExtended
<1>10. Counted(u, v, w)' /\ Held(u, v)'
  <2>1. ASSUME NEW side \in 1..2, Compacted(side)' PROVE Compacted(side)
    <3>1. strided(side)
      BY <1>1, <2>1, SameCall DEF Compacted
    <3> QED BY <1>7, <2>1, <3>1 DEF Compacted
  <2> QED BY <1>1, <2>1, ScalarKeeps DEF Placed
<1>11. Types'
  <2>1. pc'[1] # "done"
    BY <1>7
  <2> QED BY <1>1, <1>3, <1>6, <1>7, <2>1, TypesOfScalar
<1> QED BY <1>1, <1>8, <1>9, <1>10, <1>11 DEF Inv, Placed, Weighed

(* It issues the weights.                                                  *)
LEMMA WeighStep ==
    ASSUME Inv, Weigh
    PROVE  Inv'
<1> PICK u, v, w, todo, n : Placed(u, v, w, todo, n)
  BY DEF Inv
<1>1. /\ Types /\ call' = call /\ tile' = tile /\ variant' = variant /\ tile \in Nat
      /\ pc[1] = "weights" /\ pc' = <<"merge", 0>>
      /\ events' = events /\ ub' = ub /\ ub = [b \in Buffers |-> ub[b]]
  BY DEF Inv, Weigh, call, Types
<1>2. /\ LoadEnd = 4 * tile + 4 /\ LoadEnd' = 4 * tile + 4 /\ VectorEnd = 8 * tile + 4
      /\ VectorEnd' = 8 * tile + 5 /\ tile * TILE_ROWS < myRows
  BY <1>1 DEF LoadEnd, VectorEnd, BetweenTiles, Types
<1> PICK code : code = ComputeWeights(tile)
  OBVIOUS
<1>3. code = <<VectorCode(4, tile)>>
  BY DEF ComputeWeights, Vector, VectorCode, WeightsOf
<1>4. HasLength(code, 1) /\ code[1] = VectorCode(4, tile)
  BY <1>3, ShortSequences
<1>5. /\ queue' = [p \in Pipes |-> queue'[p]] /\ queue'["MTE3"] = queue["MTE3"]
      /\ queue'["MTE2"] = queue["MTE2"] /\ Lengthened("V", n, code, 1)
  <2> PICK program : program = [V |-> code]
    OBVIOUS
  <2>1. /\ Issue(program) /\ program["V"] = code
        /\ "V" \in DOMAIN program /\ "MTE2" \notin DOMAIN program /\ "MTE3" \notin DOMAIN program
    BY DEF Weigh
  <2>2. HasLength(queue["V"], n)
    BY DEF Placed, VectorQueue, CodeOf
  <2>3. /\ queue' = [p \in Pipes |-> queue'[p]]
        /\ \A p \in Pipes : p \notin DOMAIN program => queue'[p] = queue[p]
    BY <2>1, IssueEffect
  <2>4. Lengthened("V", n, program["V"], 1)
    BY <1>4, <2>1, <2>2, QueueNames, IssueEffect
  <2> QED BY <2>1, <2>3, <2>4, QueueNames
<1>6. LoadQueue(u)' /\ StoreQueue(w)'
  BY <1>1, <1>2, <1>5, QueuesFrame DEF Placed
<1>7. \E rest, l : VectorQueue(v, rest, l)'
  <2> PICK list : list = <<4>>
    OBVIOUS
  <2>1. HasLength(list, 1) /\ list[1] = 4
    BY ShortSequences
  <2>2. 4 \in Steps /\ \A j \in Steps : ~(4 < j /\ j < 5)
    BY DEF Steps, Present
  <2>3. Lists(list, 1, 4, 5, Steps)
    BY <2>1, <2>2, OneStep
  <2>4. \A i \in 1..1 : code[i] = VectorCode(list[i], tile)
    BY <1>4, <2>1
  <2>5. VectorQueue(v, todo, n)
    BY DEF Placed
  <2> QED BY <1>1, <1>2, <1>4, <1>5, <2>3, <2>4, <2>5, TileExtended
<1>8. Counted(u, v, w)' /\ Held(u, v)'
  <2>1. \A side \in 1..2 : Compacted(side)' => Compacted(side)
    BY <1>1, SameCall DEF Compacted
  <2> QED BY <1>1, <2>1, ScalarKeeps DEF Placed
<1>9. Types'
  BY <1>1, <1>2, <1>5, TypesOfScalar
<1> QED BY <1>1, <1>6, <1>7, <1>8, <1>9 DEF Inv, Placed, Weighed

(* V has computed the weights of a tile when the scalar unit reads them.   *)
LEMMA WeightsDone ==
    ASSUME tile \in Nat, pc[1] = "merge", queue["V"] = <<>>,
           NEW v, NEW todo, NEW n, VectorQueue(v, todo, n)
    PROVE  Times(4, v) = tile + 1
<1> PICK t \in Nat : t = tile
  OBVIOUS
<1>1. VectorEnd = 8 * t + 5
  BY DEF VectorEnd, BetweenTiles
<1>2. v \in Nat /\ v <= 8 * t + 5 /\ HasLength(<<>>, n) /\ Lists(todo, n, v, 8 * t + 5, Places)
  BY <1>1 DEF VectorQueue, CodeOf
<1>3. n = 0
  BY <1>2, EmptyLength
<1>4. 8 * t + 4 \in Places
  <2>1. (8 * t + 4) % 8 = 4 /\ 8 * t + 4 \in Nat
    OBVIOUS
  <2> QED BY <2>1 DEF Places, Present
<1>5. v = 8 * t + 5
  <2> PICK p \in Places : p = 8 * t + 4
    BY <1>4
  <2>1. ~(v <= p)
    BY <1>2, <1>3 DEF Lists
  <2> QED BY <1>2, <2>1
<1> QED BY <1>5 DEF Times

(* It issues the merge of the rows, and goes on to the next tile.          *)
LEMMA MergeTileStep ==
    ASSUME Inv, MergeTile
    PROVE  Inv'
<1> PICK u, v, w, todo, n : Placed(u, v, w, todo, n)
  BY DEF Inv
<1> PICK t \in Nat : t = tile
  BY DEF Inv, Types
<1>1. /\ Types /\ call' = call /\ tile' = t + 1 /\ variant' = variant
      /\ pc[1] = "merge" /\ pc' = NextTile(t + 1)
      /\ events' = events /\ ub' = ub /\ ub = [b \in Buffers |-> ub[b]]
  BY DEF Inv, MergeTile, ReadsWeights, call, Types
<1>2. /\ pc' = <<"load", 0>> \/ pc' = <<"done", 0>>
      /\ pc'[1] = "done" <=> ~((t + 1) * TILE_ROWS < myRows)
  BY <1>1 DEF NextTile
<1>3. /\ LoadEnd = 4 * t + 4 /\ LoadEnd' = 4 * t + 4 /\ VectorEnd = 8 * t + 5
      /\ VectorEnd' = 8 * t + 8
  BY <1>1, <1>2 DEF LoadEnd, VectorEnd, BetweenTiles
<1> PICK code, store : code = MergeRows(t) /\ store = CopyOut("outQue", 0, t)
  OBVIOUS
<1>4. HasLength(store, 1) /\ store[1] = StoreOf(t)
  <2>1. store = <<StoreOf(t)>>
    BY DEF CopyOut, StoreOf, ready, free, tensor, Tensor
  <2> QED BY <2>1, ShortSequences
<1> PICK m \in 2..3 : m = IF variant.outIsF32 THEN 2 ELSE 3
  OBVIOUS
<1>5. HasLength(code, m)
  BY MergeRowsCode
<1>6. /\ queue' = [p \in Pipes |-> queue'[p]] /\ queue'["MTE2"] = queue["MTE2"]
      /\ Lengthened("V", n, code, m) /\ Lengthened("MTE3", t - w, store, 1)
  <2> PICK program : program = [V |-> code, MTE3 |-> store]
    OBVIOUS
  <2>1. /\ Issue(program) /\ program["V"] = code /\ program["MTE3"] = store
        /\ "V" \in DOMAIN program /\ "MTE3" \in DOMAIN program /\ "MTE2" \notin DOMAIN program
    BY DEF MergeTile
  <2>2. HasLength(queue["V"], n) /\ HasLength(queue["MTE3"], t - w)
    BY DEF Placed, VectorQueue, CodeOf, StoreQueue
  <2>3. /\ queue' = [p \in Pipes |-> queue'[p]]
        /\ \A p \in Pipes : p \notin DOMAIN program => queue'[p] = queue[p]
    BY <2>1, IssueEffect
  <2>4. Lengthened("V", n, program["V"], m)
    BY <1>5, <2>1, <2>2, QueueNames, IssueEffect
  <2>5. Lengthened("MTE3", t - w, program["MTE3"], 1)
    BY <1>4, <2>1, <2>2, QueueNames, IssueEffect
  <2> QED BY <2>1, <2>3, <2>4, <2>5, QueueNames
<1>7. LoadQueue(u)'
  BY <1>1, <1>3, <1>6, QueuesFrame DEF Placed
<1>8. \E rest, l : VectorQueue(v, rest, l)'
  <2>1. VectorQueue(v, todo, n)
    BY DEF Placed
  <2>2. CASE variant.outIsF32
    <3> PICK list : list = <<5, 7>>
      OBVIOUS
    <3>1. HasLength(list, 2) /\ list[1] = 5 /\ list[2] = 7
      BY ShortSequences
    <3>2. 5 \in Steps /\ 7 \in Steps /\ \A j \in Steps : j = 7 \/ ~(5 < j /\ j < 8)
      BY <2>2 DEF Steps, Present
    <3>3. Lists(list, 2, 5, 8, Steps)
      BY <3>1, <3>2, TwoSteps
    <3>4. \A i \in 1..2 : code[i] = VectorCode(list[i], t)
      BY <2>2, <3>1, MergeRowsCode
    <3>5. m = 2
      BY <2>2
    <3> QED BY <1>1, <1>3, <1>5, <1>6, <2>1, <3>3, <3>4, <3>5, TileExtended
  <2>3. CASE ~variant.outIsF32
    <3> PICK list : list = <<5, 6, 7>>
      OBVIOUS
    <3>1. HasLength(list, 3) /\ list[1] = 5 /\ list[2] = 6 /\ list[3] = 7
      BY ShortSequences
    <3>2. 5 \in Steps /\ 6 \in Steps /\ 7 \in Steps /\ \A j \in Steps : j \in 0..7
      BY <2>3 DEF Steps, Present
    <3>3. Lists(list, 3, 5, 8, Steps)
      BY <3>1, <3>2 DEF Lists
    <3>4. \A i \in 1..3 : code[i] = VectorCode(list[i], t)
      BY <2>3, <3>1, MergeRowsCode
    <3>5. m = 3
      BY <2>3
    <3> QED BY <1>1, <1>3, <1>5, <1>6, <2>1, <3>3, <3>4, <3>5, TileExtended
  <2> QED BY <2>2, <2>3
<1>9. StoreQueue(w)'
  <2>1. w \in Nat /\ w <= t /\ t - w \in Nat
    BY DEF Placed, StoreQueue
  <2>2. HasLength(queue'["MTE3"], t + 1 - w) /\ w <= t + 1
    <3>1. HasLength(queue'["MTE3"], t - w + 1)
      BY <1>6 DEF Lengthened
    <3>2. t - w + 1 = t + 1 - w
      BY <2>1
    <3> QED BY <2>1, <3>1, <3>2
  <2>3. ASSUME NEW i \in 1..(t + 1 - w) PROVE queue'["MTE3"][i] = StoreOf(w + i - 1)
    <3>1. CASE i \in 1..(t - w)
      BY <1>6, <3>1 DEF Placed, StoreQueue, Lengthened
    <3>2. CASE i \notin 1..(t - w)
      <4>1. i = (t - w) + 1 /\ w + i - 1 = t
        BY <2>1, <3>2
      <4>2. queue'["MTE3"][(t - w) + 1] = store[1]
        BY <1>6 DEF Lengthened
      <4> QED BY <1>4, <4>1, <4>2
    <3> QED BY <3>1, <3>2
  <2>4. \A x : StoreOf(x)' = StoreOf(x)
    BY DEF StoreOf
  <2> PICK l \in Nat : l = t + 1 - w
    BY <2>1
  <2>5. tile' - w = l /\ w <= tile'
    BY <1>1, <2>1
  <2>6. HasLength(queue'["MTE3"], l) /\ \A i \in 1..l : queue'["MTE3"][i] = StoreOf(w + i - 1)
    BY <2>2, <2>3
  <2> QED BY <2>1, <2>4, <2>5, <2>6 DEF StoreQueue
<1>10. Counted(u, v, w)' /\ Held(u, v)'
  <2>1. \A side \in 1..2 : ~Compacted(side)'
    BY <1>2 DEF Compacted
  <2> QED BY <1>1, <2>1, ScalarKeeps DEF Placed
<1>11. Types'
  BY <1>1, <1>2, <1>6, TypesOfScalar
<1>12. Weighed(v)'
  <2>1. queue["V"] = <<>> /\ pc[1] = "merge" /\ VectorQueue(v, todo, n)
    BY DEF MergeTile, ReadsWeights, Barrier, Placed
  <2>2. Times(4, v) = t + 1
    BY <2>1, WeightsDone
  <2> QED BY <1>1, <2>2 DEF Weighed
<1> QED BY <1>7, <1>8, <1>9, <1>10, <1>11, <1>12 DEF Inv, Placed

-----------------------------------------------------------------------------
(* The invariant is inductive.                                             *)
LEMMA InitInv ==
    ASSUME Init
    PROVE  Inv
<1>1. /\ BetweenTiles /\ tile = 0 /\ variant \in Variants
      /\ pc = <<"load", 0>> \/ pc = <<"done", 0>>
      /\ pc[1] = "done" <=> ~(0 * TILE_ROWS < myRows)
  BY DEF Init, BetweenTiles, NextTile
<1>2. LoadEnd = 0 /\ VectorEnd = 0
  BY <1>1 DEF LoadEnd, VectorEnd
<1>3. \A q \in Queues : events[free(q)] = 1 /\ events[ready(q)] = 0
  <2>1. \A q \in Queues : free(q) \in Events /\ ready(q) \in Events
    BY EventsDiffer
  <2>2. \A q \in Queues : free(q)[1] = "Free" /\ ready(q)[1] # "Free"
    BY DEF free, ready, Free, Ready
  <2> QED BY <2>1, <2>2 DEF Init
<1>4. events \in [Events -> Nat]
  BY DEF Init
<1>5. ub = [b \in Buffers |-> ub[b]] /\ \A b \in Buffers : ub[b] = -1
  BY DEF Init
<1>6. queue = [p \in Pipes |-> queue[p]] /\ \A p \in Pipes : queue[p] = <<>>
  BY DEF Init
<1>7. Types
  BY <1>1, <1>4, <1>5, <1>6 DEF Types, Init
<1>8. /\ \A k \in 0..3 : Loaded(k, 0) = 0
      /\ \A k \in 0..7 : Times(k, 0) = 0
  BY DEF Loaded, Times
<1>9. FreeOfO1 \in 0..7 /\ WriteOfOut \in 0..7 /\ FreeOfLse(1) \in 0..7 /\ FreeOfLse(2) \in 0..7
  BY DEF FreeOfLse, FreeOfO1, WriteOfOut
<1>10. Counted(0, 0, 0)
  BY <1>3, <1>8, <1>9, QueueNames DEF Counted
<1>11. Held(0, 0)
  <2>1. \A side \in 1..2 : ~Compacted(side)
    BY <1>1 DEF Compacted
  <2>2. \A q \in Queues : ub[tensor(q)] = -1
    BY <1>5, BuffersDiffer
  <2>3. ub[o1F32Buf] = -1 /\ ub[o2F32Buf] = -1 /\ ub[weightBufs] = -1
    BY <1>5, BuffersDiffer
  <2> QED BY <1>8, <1>9, <2>1, <2>2, <2>3, QueueNames DEF Held
<1>12. LoadQueue(0) /\ VectorQueue(0, <<>>, 0) /\ StoreQueue(0)
  <2>1. HasLength(<<>>, 0)
    BY ShortSequences
  <2>2. queue["MTE2"] = <<>> /\ queue["V"] = <<>> /\ queue["MTE3"] = <<>>
    BY <1>6, QueueNames
  <2>3. Lists(<<>>, 0, 0, 0, Places)
    BY <2>1 DEF Lists, Places
  <2> QED BY <1>1, <1>2, <2>1, <2>2, <2>3 DEF LoadQueue, VectorQueue, CodeOf, StoreQueue
<1>13. Weighed(0)
  BY <1>1, <1>8 DEF Weighed
<1> QED BY <1>7, <1>10, <1>11, <1>12, <1>13 DEF Inv, Placed

LEMMA NextInv ==
    ASSUME Inv, [Next]_vars
    PROVE  Inv'
<1>1. CASE Scalar
  BY <1>1, BeginTileStep, CompactLseStep, FreeLseStep, WeighStep, MergeTileStep DEF Scalar
<1>2. ASSUME NEW p \in Pipes, RunPipe(p) PROVE Inv'
  BY <1>2, LoadStep, VectorStep, StoreStep DEF Pipes
<1>3. CASE UNCHANGED vars
  <2> PICK u, v, w, todo, n : Placed(u, v, w, todo, n)
    BY DEF Inv
  <2>1. /\ Types /\ call' = call /\ pc' = pc /\ tile' = tile /\ variant' = variant
        /\ queue' = queue /\ events' = events /\ ub' = ub
    BY <1>3 DEF Inv, vars, call
  <2>2. LoadQueue(u)' /\ VectorQueue(v, todo, n)' /\ StoreQueue(w)'
    BY <2>1, SameScalar, QueuesFrame DEF Placed
  <2>3. Counted(u, v, w)' /\ Held(u, v)'
    BY <2>1, SameScalar, ScalarKeeps DEF Placed
  <2>4. Types'
    BY <2>1, TypesOfPipe DEF Types
  <2>5. Weighed(v)'
    BY <2>1 DEF Placed, Weighed
  <2> QED BY <2>2, <2>3, <2>4, <2>5 DEF Inv, Placed
<1> QED BY <1>1, <1>2, <1>3 DEF Next, Terminated

(* Every behaviour keeps the places of the pipes as far apart as events    *)
(* and buffers say (kernel_lse_merge.cpp:111-310), whatever DeQue does.    *)
THEOREM PlacesKept == Spec => []Inv
<1>1. Init => Inv
  BY InitInv
<1>2. Inv /\ [Next]_vars => Inv'
  BY NextInv
<1> QED BY <1>1, <1>2, PTL DEF Spec

-----------------------------------------------------------------------------
(* A pipe that can execute executes its first instruction, whose events    *)
(* are all raised.                                                         *)
LEMMA FirstOf ==
    ASSUME NEW p, CanExecute(p), NEW n, HasLength(queue[p], n)
    PROVE  n # 0 /\ Head(queue[p]) = queue[p][1] /\ \A e \in queue[p][1].waits : events[e] > 0
<1>1. queue[p] # <<>> /\ \A e \in Head(queue[p]).waits : events[e] > 0
  BY DEF CanExecute
<1>2. n # 0
  BY <1>1, SequenceFacts
<1>3. Head(queue[p]) = queue[p][1]
  BY <1>2, Rest
<1> QED BY <1>1, <1>2, <1>3

(* No event is below zero: what this says of the places.                   *)
LEMMA Apart ==
    ASSUME Types, NEW u \in Nat, NEW v \in Nat, NEW w \in Nat, Counted(u, v, w)
    PROVE  /\ Loaded(0, u) <= 1 + Times(FreeOfLse(1), v)
           /\ Loaded(1, u) <= 1 + Times(FreeOfLse(2), v)
           /\ Loaded(2, u) <= 1 + Times(FreeOfO1, v)
           /\ Loaded(3, u) <= 1 + Times(7, v)
           /\ Times(WriteOfOut, v) <= 1 + w /\ w <= Times(WriteOfOut, v)
           /\ Times(1, v) <= Loaded(3, u)
           /\ Times(0, v) <= Loaded(2, u)
           /\ \A j \in 0..3 : Loaded(j, u) \in Nat /\ Loaded(3, u) <= Loaded(j, u)
           /\ \A j \in 0..7 : Times(j, v) \in Nat
<1>1. \A q \in Queues : events[free(q)] \in Nat /\ events[ready(q)] \in Nat
  BY EventsDiffer DEF Types
<1>2. /\ \A j \in 0..3 : Loaded(j, u) \in Nat /\ Loaded(3, u) <= Loaded(j, u)
      /\ \A j \in 0..7 : Times(j, v) \in Nat
  BY LoadedNext, TimesNext
<1>3. FreeOfO1 \in 0..7 /\ WriteOfOut \in 0..7 /\ FreeOfLse(1) \in 0..7 /\ FreeOfLse(2) \in 0..7
  BY DEF FreeOfLse, FreeOfO1, WriteOfOut
<1> QED BY <1>1, <1>2, <1>3, QueueNames DEF Counted

(* Every step of V finds the tile it is of.                                *)
LEMMA CodeFinds ==
    ASSUME DeQueStopsScalar, Types, NEW u \in Nat, NEW v \in Nat, NEW w \in Nat,
           Counted(u, v, w), Held(u, v), Weighed(v), NEW k, Present(k), NEW t \in Nat, Reaches(v, k, t), 8 * t + k < VectorEnd,
           NEW i, i = VectorCode(k, t), NEW r \in i.reads, \A e \in i.waits : events[e] > 0
    PROVE  ub[r[1]] = r[2]
<1>1. tile \in Nat /\ k \in 0..7
  BY DEF Types, Present
<1>6. /\ Present(0) /\ Present(1) /\ Present(4) /\ Present(7) /\ Present(FreeOfO1)
      /\ Present(FreeOfLse(1)) /\ Present(FreeOfLse(2))
  BY DEF Present, FreeOfO1, FreeOfLse
<1>7. /\ Times(0, v) = t + (IF 0 < k THEN 1 ELSE 0)
      /\ Times(1, v) = t + (IF 1 < k THEN 1 ELSE 0)
      /\ Times(4, v) = t + (IF 4 < k THEN 1 ELSE 0)
      /\ Times(7, v) = t + (IF 7 < k THEN 1 ELSE 0)
      /\ Times(FreeOfO1, v) = t + (IF FreeOfO1 < k THEN 1 ELSE 0)
      /\ Times(FreeOfLse(1), v) = t + (IF FreeOfLse(1) < k THEN 1 ELSE 0)
      /\ Times(FreeOfLse(2), v) = t + (IF FreeOfLse(2) < k THEN 1 ELSE 0)
  BY <1>6 DEF Reaches
<1>8. /\ Loaded(0, u) <= 1 + Times(FreeOfLse(1), v)
      /\ Loaded(1, u) <= 1 + Times(FreeOfLse(2), v)
      /\ Loaded(2, u) <= 1 + Times(FreeOfO1, v)
      /\ Loaded(3, u) <= 1 + Times(7, v)
      /\ Times(1, v) <= Loaded(3, u) /\ Times(0, v) <= Loaded(2, u)
      /\ \A j \in 0..3 : Loaded(j, u) \in Nat /\ Loaded(3, u) <= Loaded(j, u)
  BY Apart
<1>9. CASE k = 0
  <2>1. ~variant.o1IsF32 /\ r = <<tensor("inQueO1"), t>> /\ ready("inQueO1") \in i.waits
    BY <1>9 DEF VectorCode, CastO1, Instruction
  <2>2. FreeOfO1 = 0 /\ events[ready("inQueO1")] > 0
    BY <2>1 DEF FreeOfO1
  <2>3. Loaded(2, u) = t + 1
    BY <1>1, <1>7, <1>8, <1>9, <2>2 DEF Counted
  <2> QED BY <1>1, <2>1, <2>3 DEF Held
<1>10. CASE k = 1
  <2>1. r = <<tensor("inQueO2"), t>> /\ ready("inQueO2") \in i.waits
    BY <1>10 DEF VectorCode, CastO2, Instruction
  <2>2. events[ready("inQueO2")] > 0
    BY <2>1
  <2>3. Loaded(3, u) = t + 1
    BY <1>1, <1>7, <1>8, <1>10, <2>2 DEF Counted
  <2> QED BY <1>1, <2>1, <2>3 DEF Held
<1>11. CASE k \in {2, 3, 7}
  BY <1>11 DEF VectorCode, FreeStrided, FreeRest, Instruction
<1>12. CASE k = 4
  <2>1. r = <<lse(1), t>> \/ r = <<lse(2), t>>
    BY <1>12 DEF VectorCode, WeightsOf, Instruction
  <2>2. ASSUME NEW side \in 1..2, strided(side) PROVE ub[lse(side)] = t
    <3>1. lse(side) = lseCBuf(side)
      BY <2>2 DEF lse
    <3>2. tile <= t
      BY <1>1, <1>7, <1>12 DEF Weighed
    <3>3. pc[1] = "merge" /\ t = tile
      <4>1. \/ pc[1] \in {"load", "done"} /\ VectorEnd = 8 * tile
            \/ pc[1] = "weights" /\ VectorEnd = 8 * tile + 4
            \/ pc[1] = "merge" /\ VectorEnd = 8 * tile + 5
            \/ \E s \in 1..2 : VectorEnd = 8 * tile + (1 + s)
        BY <1>1 DEF Types, VectorEnd, BetweenTiles
      <4> QED BY <1>1, <1>12, <3>2, <4>1
    <3>4. Compacted(side)
      BY <2>2, <3>3 DEF Compacted
    <3> QED BY <1>1, <3>1, <3>3, <3>4 DEF Held
  <2>3. ASSUME NEW side \in 1..2, ~strided(side) PROVE ub[lse(side)] = t
    <3>1. lse(side) = tensor(IF side = 1 THEN "inQueLse1" ELSE "inQueLse2")
      BY <2>3 DEF lse, lseQueue
    <3>2. FreeOfLse(side) = 7
      BY <2>3 DEF FreeOfLse
    <3>3. CASE side = 1
      <4>1. Loaded(0, u) = t + 1
        BY <1>7, <1>8, <1>12, <3>2, <3>3
      <4> QED BY <1>1, <3>1, <3>3, <4>1 DEF Held
    <3>4. CASE side = 2
      <4>1. Loaded(1, u) = t + 1
        BY <1>7, <1>8, <1>12, <3>2, <3>4
      <4> QED BY <1>1, <3>1, <3>4, <4>1 DEF Held
    <3> QED BY <3>3, <3>4
  <2>4. ub[lse(1)] = t /\ ub[lse(2)] = t
    BY <2>2, <2>3
  <2> QED BY <2>1, <2>4
<1>13. (ub[o1F32] = t /\ ub[o2F32Buf] = t) \/ ~(k \in {5, 6})
  <2>1. ASSUME k \in {5, 6} PROVE ub[o2F32Buf] = t
    BY <1>1, <1>7, <2>1 DEF Held
  <2>2. ASSUME k \in {5, 6}, variant.o1IsF32 PROVE ub[o1F32] = t
    <3>1. o1F32 = tensor("inQueO1") /\ FreeOfO1 = 7
      BY <2>2 DEF o1F32, FreeOfO1
    <3>2. Loaded(2, u) = t + 1
      BY <1>7, <1>8, <2>2, <3>1
    <3> QED BY <1>1, <3>1, <3>2 DEF Held
  <2>3. ASSUME k \in {5, 6}, ~variant.o1IsF32 PROVE ub[o1F32] = t
    BY <1>1, <1>7, <2>3 DEF Held, o1F32
  <2> QED BY <2>1, <2>2, <2>3
<1>14. CASE k = 5
  <2>1. r = <<o1F32, t>> \/ r = <<o2F32Buf, t>>
    BY <1>14 DEF VectorCode, MergeRowsOf, Instruction
  <2> QED BY <1>13, <1>14, <2>1
<1>15. CASE k = 6
  <2>1. r = <<o2F32Buf, t>>
    BY <1>15 DEF VectorCode, CastOut, Instruction
  <2> QED BY <1>13, <1>15, <2>1
<1> QED BY <1>1, <1>9, <1>10, <1>11, <1>12, <1>14, <1>15

LEMMA VectorFinds ==
    ASSUME Inv, DeQueStopsScalar
    PROVE  Finds("V", Buffers)
<1> SUFFICES ASSUME CanExecute("V"), NEW r \in Head(queue["V"]).reads
             PROVE  ub[r[1]] = r[2]
  BY DEF Finds
<1> PICK u, v, w, todo, n : Placed(u, v, w, todo, n)
  BY DEF Inv
<1>1. /\ Types /\ u \in Nat /\ v \in Nat /\ w \in Nat /\ VectorQueue(v, todo, n)
      /\ HasLength(queue["V"], n) /\ Counted(u, v, w) /\ Held(u, v) /\ Weighed(v)
  BY DEF Inv, Placed, LoadQueue, VectorQueue, CodeOf, StoreQueue
<1>2. /\ n # 0 /\ Head(queue["V"]) = queue["V"][1]
      /\ \A e \in queue["V"][1].waits : events[e] > 0
  BY <1>1, FirstOf
<1> PICK k, t \in Nat : /\ Present(k) /\ Reaches(v, k, t) /\ 8 * t + k < VectorEnd
                        /\ queue["V"][1] = VectorCode(k, t)
  <2> PICK p, rest : p = todo[1] /\ rest = AllButFirst(todo, n)
    OBVIOUS
  <2>1. /\ p \in Nat /\ p < VectorEnd
        /\ Present(p % 8) /\ queue["V"][1] = VectorCode(p % 8, p \div 8)
        /\ Reaches(v, p % 8, p \div 8)
    BY <1>1, <1>2, NextPlace
  <2>2. p % 8 \in Nat /\ p \div 8 \in Nat /\ p = 8 * (p \div 8) + (p % 8)
    BY <2>1
  <2> QED BY <2>1, <2>2
<1> PICK i : i = VectorCode(k, t)
  OBVIOUS
<1>3. r \in i.reads /\ \A e \in i.waits : events[e] > 0
  BY <1>2
<1> QED BY <1>1, <1>3, CodeFinds

(* The store finds the tile it is of.                                      *)
LEMMA StoreFinds ==
    ASSUME Inv
    PROVE  Finds("MTE3", Buffers)
<1> SUFFICES ASSUME CanExecute("MTE3"), NEW r \in Head(queue["MTE3"]).reads
             PROVE  ub[r[1]] = r[2]
  BY DEF Finds
<1> PICK u, v, w, todo, m : Placed(u, v, w, todo, m)
  BY DEF Inv
<1> PICK n \in Nat : n = tile - w
  BY DEF Placed, StoreQueue, HasLength
<1>1. /\ Types /\ u \in Nat /\ v \in Nat /\ w \in Nat /\ HasLength(queue["MTE3"], n)
      /\ Counted(u, v, w) /\ Held(u, v)
  BY DEF Inv, Placed, LoadQueue, VectorQueue, StoreQueue
<1>2. /\ n # 0 /\ Head(queue["MTE3"]) = queue["MTE3"][1]
      /\ \A e \in queue["MTE3"][1].waits : events[e] > 0
  BY <1>1, FirstOf
<1>3. queue["MTE3"][1] = StoreOf(w)
  <2>1. 1 \in 1..n /\ w + 1 - 1 = w
    BY <1>1, <1>2
  <2> QED BY <2>1 DEF Placed, StoreQueue
<1>4. r = <<tensor("outQue"), w>> /\ events[ready("outQue")] > 0
  BY <1>2, <1>3 DEF StoreOf, Instruction
<1>5. Times(WriteOfOut, v) <= 1 + w /\ Times(WriteOfOut, v) \in Nat
  <2>1. WriteOfOut \in 0..7
    BY DEF WriteOfOut
  <2> QED BY <1>1, <2>1, Apart
<1>6. Times(WriteOfOut, v) = w + 1
  BY <1>1, <1>4, <1>5 DEF Counted
<1> QED BY <1>1, <1>4, <1>6 DEF Held

LEMMA InvTiles ==
    ASSUME Inv, DeQueStopsScalar
    PROVE  TilesIntact
<1> PICK u, v, w, todo, n : Placed(u, v, w, todo, n)
  BY DEF Inv
<1>1. Types /\ tile \in Nat /\ VectorQueue(v, todo, n) /\ Held(u, v)
  BY DEF Inv, Placed, Types
<1>2. ASSUME pc[1] = "compacted" PROVE ub[lseCBuf(pc[2])] = tile
  <2> PICK s \in 1..2 : pc = <<"compacted", s>> /\ strided(s)
    BY <1>1, <1>2 DEF Types
  <2>1. Compacted(s)
    BY DEF Compacted
  <2> QED BY <1>1, <2>1 DEF Held
<1>3. ASSUME ReadsWeights PROVE ub[weightBufs] = tile
  <2>1. pc[1] = "merge" /\ queue["V"] = <<>>
    BY <1>3 DEF ReadsWeights, Barrier
  <2>2. Times(4, v) = tile + 1
    BY <1>1, <2>1, WeightsDone
  <2> QED BY <1>1, <2>2 DEF Held
<1> QED BY <1>2, <1>3, VectorFinds, StoreFinds DEF TilesIntact

(* The end: no queue has a tensor in use.                                  *)
ReturnsClean == pc[1] = "done" /\ Drained => NoneInUse

LEMMA InvReturns ==
    ASSUME Inv
    PROVE  ReturnsClean
<1> SUFFICES ASSUME pc[1] = "done", Drained
             PROVE  NoneInUse
  BY DEF ReturnsClean
<1> PICK u, v, w, todo, n : Placed(u, v, w, todo, n)
  BY DEF Inv
<1> PICK t \in Nat : t = tile
  BY DEF Inv, Types
<1>1. /\ queue["MTE2"] = <<>> /\ queue["V"] = <<>> /\ queue["MTE3"] = <<>>
      /\ LoadEnd = 4 * t /\ VectorEnd = 8 * t
  BY QueueNames DEF Drained, LoadEnd, VectorEnd, BetweenTiles
<1>2. u = 4 * t
  <2>1. u \in Nat /\ HasLength(<<>>, 4 * t - u) /\ 4 * t - u \in Nat
    BY <1>1 DEF Placed, LoadQueue, HasLength
  <2>2. 4 * t - u = 0
    BY <2>1, EmptyLength
  <2> QED BY <2>1, <2>2
<1>3. w = t
  <2>1. w \in Nat /\ HasLength(<<>>, t - w) /\ t - w \in Nat
    BY <1>1 DEF Placed, StoreQueue, HasLength
  <2>2. t - w = 0
    BY <2>1, EmptyLength
  <2> QED BY <2>1, <2>2
<1>4. v = 8 * t
  <2>1. v \in Nat /\ v <= 8 * t /\ HasLength(<<>>, n) /\ Lists(todo, n, v, 8 * t, Places)
    BY <1>1 DEF Placed, VectorQueue, CodeOf
  <2>2. n = 0
    BY <2>1, EmptyLength
  <2>3. ASSUME v < 8 * t PROVE FALSE
    <3> PICK p \in Nat : p = 8 * t - 1
      BY <2>1, <2>3
    <3>1. p % 8 = 7
      OBVIOUS
    <3>2. p \in Places
      BY <3>1 DEF Places, Present
    <3>3. v <= p /\ p < 8 * t
      BY <2>1, <2>3
    <3> QED BY <2>1, <2>2, <3>2, <3>3 DEF Lists
  <2> QED BY <2>1, <2>3
<1>5. /\ \A j \in 0..3 : Loaded(j, u) = t
      /\ \A j \in 0..7 : Times(j, v) = t
  <2>1. ASSUME NEW j \in 0..3 PROVE (4 * t + 3 - j) \div 4 = t
    <3> PICK r \in 0..3 : r = 3 - j
      OBVIOUS
    <3>1. 4 * t + 3 - j = 4 * t + r
      OBVIOUS
    <3> QED BY <3>1, PlaceOf
  <2>2. ASSUME NEW j \in 0..7 PROVE (8 * t + 7 - j) \div 8 = t
    <3> PICK r \in 0..7 : r = 7 - j
      OBVIOUS
    <3>1. 8 * t + 7 - j = 8 * t + r
      OBVIOUS
    <3> QED BY <3>1, PlaceOf
  <2> QED BY <1>2, <1>4, <2>1, <2>2 DEF Times, Loaded
<1>6. FreeOfO1 \in 0..7 /\ WriteOfOut \in 0..7 /\ FreeOfLse(1) \in 0..7 /\ FreeOfLse(2) \in 0..7
  BY DEF FreeOfLse, FreeOfO1, WriteOfOut
<1>7. \A q \in Queues : events[free(q)] = 1 /\ events[ready(q)] = 0
  BY <1>3, <1>5, <1>6 DEF Placed, Counted, Queues
<1>8. ASSUME NEW e \in QueueEvents
      PROVE  \E q \in Queues : e = free(q) \/ e = ready(q)
  BY <1>8 DEF QueueEvents, OfTensors, Depth, free, ready
<1>9. \A q : free(q)[1] = "Free" /\ ready(q)[1] # "Free"
  BY DEF free, ready, Free, Ready
<1> QED BY <1>7, <1>8, <1>9 DEF NoneInUse

-----------------------------------------------------------------------------
(* Someone can go on.                                                      *)

(* When the scalar unit is not waiting at a barrier: the guards of its     *)
(* actions.                                                                *)
ScalarGoesOn ==
    \/ pc[1] \in {"load", "weights"}
    \/ pc[1] = "compact" /\ (DeQueStopsScalar => Barrier({"MTE2"}))
    \/ pc[1] \in {"compacted", "merge"} /\ Barrier({"V"})
PipeGoesOn == \E p \in Pipes : CanExecute(p)
NeverStuck == (pc[1] = "done" /\ Drained) \/ ScalarGoesOn \/ PipeGoesOn

(* A pipe can execute what is at the head of its queue when the events are *)
(* raised.                                                                 *)
LEMMA HeadExecutes ==
    ASSUME NEW p, NEW n, HasLength(queue[p], n), n # 0, NEW i, queue[p][1] = i,
           \A e \in i.waits : events[e] > 0
    PROVE  CanExecute(p)
<1>1. queue[p] # <<>>
  BY EmptyLength
<1>2. Head(queue[p]) = queue[p][1]
  BY Rest
<1> QED BY <1>1, <1>2 DEF CanExecute

(* The places of the scalar unit are of tile, or at its start.             *)
LEMMA ScalarPlaces ==
    ASSUME Types
    PROVE  /\ tile \in Nat /\ LoadEnd \in Nat /\ VectorEnd \in Nat
           /\ LoadEnd <= 4 * tile + 4
           /\ 8 * tile <= VectorEnd /\ VectorEnd <= 8 * tile + 5
           /\ LoadEnd < 4 * tile + 4 => LoadEnd = 4 * tile /\ VectorEnd = 8 * tile
<1>1. tile \in Nat
  BY DEF Types
<1>2. CASE BetweenTiles
  BY <1>1, <1>2 DEF LoadEnd, VectorEnd
<1>3. CASE ~BetweenTiles
  <2>1. pc[1] \in {"weights", "merge"} \/ pc[2] \in 1..2
    BY <1>3 DEF Types, BetweenTiles
  <2>2. LoadEnd = 4 * tile + 4
    BY <1>3 DEF LoadEnd
  <2>3. VectorEnd \in {8 * tile + 5, 8 * tile + 4, 8 * tile + 2, 8 * tile + 3}
    BY <1>1, <1>3, <2>1 DEF VectorEnd
  <2> QED BY <1>1, <2>2, <2>3
<1> QED BY <1>2, <1>3

(* MTE2 loads when V has freed every tensor of the x tiles before.         *)
FreedBy(v, x) == \A j : Present(j) => x <= Times(j, v)

LEMMA LoadGoesOn ==
    ASSUME Types, NEW u \in Nat, NEW v \in Nat, NEW w, LoadQueue(u), Counted(u, v, w),
           u < LoadEnd, NEW x \in Nat, u \div 4 <= x, FreedBy(v, x)
    PROVE  CanExecute("MTE2")
<1> PICK n \in Nat, k \in 0..3, t \in Nat : n = LoadEnd - u /\ k = u % 4 /\ t = u \div 4
  <2>1. LoadEnd - u \in Nat
    BY DEF LoadQueue, HasLength
  <2> QED BY <2>1
<1>1. HasLength(queue["MTE2"], n) /\ n # 0
  <2>1. LoadEnd \in Nat
    BY ScalarPlaces
  <2> QED BY <2>1 DEF LoadQueue
<1>2. queue["MTE2"][1] = LoadCode(k, t)
  <2>1. 1 \in 1..n /\ u + 1 - 1 = u
    BY <1>1
  <2> QED BY <2>1 DEF LoadQueue
<1>3. Loaded(k, u) = t /\ t <= x
  BY LoadedNext
<1>4. /\ x <= Times(FreeOfLse(1), v) /\ Times(FreeOfLse(1), v) \in Nat
      /\ x <= Times(FreeOfLse(2), v) /\ Times(FreeOfLse(2), v) \in Nat
      /\ x <= Times(FreeOfO1, v) /\ Times(FreeOfO1, v) \in Nat
      /\ x <= Times(7, v) /\ Times(7, v) \in Nat
  <2>1. /\ Present(7) /\ Present(FreeOfO1)
        /\ Present(FreeOfLse(1)) /\ Present(FreeOfLse(2))
    BY DEF Present, FreeOfO1, FreeOfLse
  <2>2. \A j : Present(j) => Times(j, v) \in Nat
    BY TimesNext DEF Present
  <2> QED BY <2>1, <2>2 DEF FreedBy
<1>5. \A e \in LoadCode(k, t).waits : events[e] > 0
  <2>1. CASE k = 0
    <3>1. LoadCode(k, t).waits = {free("inQueLse1")}
      BY <2>1 DEF LoadCode, LoadOf, Instruction
    <3>2. events[free("inQueLse1")] > 0
      BY <1>3, <1>4, <2>1 DEF Counted
    <3> QED BY <3>1, <3>2
  <2>2. CASE k = 1
    <3>1. LoadCode(k, t).waits = {free("inQueLse2")}
      BY <2>2 DEF LoadCode, LoadOf, Instruction
    <3>2. events[free("inQueLse2")] > 0
      BY <1>3, <1>4, <2>2 DEF Counted
    <3> QED BY <3>1, <3>2
  <2>3. CASE k = 2
    <3>1. LoadCode(k, t).waits = {free("inQueO1")}
      BY <2>3 DEF LoadCode, LoadOf, Instruction
    <3>2. events[free("inQueO1")] > 0
      BY <1>3, <1>4, <2>3 DEF Counted
    <3> QED BY <3>1, <3>2
  <2>4. CASE k = 3
    <3>1. LoadCode(k, t).waits = {free("inQueO2")}
      BY <2>4 DEF LoadCode, LoadOf, Instruction
    <3>2. events[free("inQueO2")] > 0
      BY <1>3, <1>4, <2>4 DEF Counted
    <3> QED BY <3>1, <3>2
  <2> QED BY <2>1, <2>2, <2>3, <2>4
<1> QED BY <1>1, <1>2, <1>5, HeadExecutes

(* MTE3 stores when V has merged the next tile.                            *)
LEMMA StoreGoesOn ==
    ASSUME Types, NEW u, NEW v \in Nat, NEW w \in Nat, StoreQueue(w), Counted(u, v, w),
           w < tile, w < Times(WriteOfOut, v)
    PROVE  CanExecute("MTE3")
<1> PICK n \in Nat : n = tile - w
  BY DEF StoreQueue, HasLength
<1>1. HasLength(queue["MTE3"], n) /\ n # 0
  BY DEF StoreQueue, Types
<1>2. queue["MTE3"][1] = StoreOf(w)
  <2>1. 1 \in 1..n /\ w + 1 - 1 = w
    BY <1>1
  <2> QED BY <2>1 DEF StoreQueue
<1>3. StoreOf(w).waits = {ready("outQue")}
  BY DEF StoreOf, Instruction
<1>4. events[ready("outQue")] > 0
  <2>1. WriteOfOut \in 0..7
    BY DEF WriteOfOut
  <2>2. Times(WriteOfOut, v) \in Nat
    BY <2>1, TimesNext
  <2> QED BY <2>2 DEF Counted
<1> QED BY <1>1, <1>2, <1>3, <1>4, HeadExecutes

(* V never waits in vain: where it casts, the load it waits for can go on, *)
(* and where it takes the output tensor, the store of the tile before.     *)
LEMMA VectorGoesOn ==
    ASSUME Types, NEW u, NEW v, NEW w, NEW todo, NEW n, Placed(u, v, w, todo, n), n # 0
    PROVE  PipeGoesOn
<1>1. /\ u \in Nat /\ v \in Nat /\ w \in Nat /\ w <= tile
      /\ LoadQueue(u) /\ VectorQueue(v, todo, n) /\ StoreQueue(w)
      /\ HasLength(queue["V"], n) /\ Counted(u, v, w)
  BY DEF Placed, LoadQueue, VectorQueue, CodeOf, StoreQueue
<1> PICK k, t \in Nat : /\ Present(k) /\ Reaches(v, k, t) /\ 8 * t + k < VectorEnd
                        /\ queue["V"][1] = VectorCode(k, t)
  <2> PICK p, rest : p = todo[1] /\ rest = AllButFirst(todo, n)
    OBVIOUS
  <2>1. /\ p \in Nat /\ p < VectorEnd
        /\ Present(p % 8) /\ queue["V"][1] = VectorCode(p % 8, p \div 8)
        /\ Reaches(v, p % 8, p \div 8)
    BY <1>1, NextPlace
  <2>2. p % 8 \in Nat /\ p \div 8 \in Nat /\ p = 8 * (p \div 8) + (p % 8)
    BY <2>1
  <2> QED BY <2>1, <2>2
<1>2. k \in 0..7
  BY DEF Present
<1>3. t <= tile /\ 4 * t + 4 <= LoadEnd
  BY <1>2, ScalarPlaces
<1>4. FreedBy(v, t)
  <2> SUFFICES ASSUME NEW j, Present(j) PROVE t <= Times(j, v)
    BY DEF FreedBy
  <2>1. j \in Nat /\ Times(j, v) = t + (IF j < k THEN 1 ELSE 0)
    BY DEF Reaches, Present
  <2> QED BY <2>1
<1>5. ASSUME u \div 4 <= t PROVE PipeGoesOn
  <2>1. u < LoadEnd
    <3>1. u < 4 * t + 4
      BY <1>1, <1>5
    <3> QED BY <1>1, <1>3, <3>1, ScalarPlaces
  <2>2. CanExecute("MTE2")
    BY <1>1, <1>4, <1>5, <2>1, LoadGoesOn
  <2> QED BY <2>2, QueueNames DEF PipeGoesOn
<1>6. ASSUME w < t, Times(WriteOfOut, v) = t PROVE PipeGoesOn
  <2>1. w < tile
    BY <1>1, <1>3, <1>6, ScalarPlaces
  <2>2. CanExecute("MTE3")
    BY <1>1, <1>6, <2>1, StoreGoesOn
  <2> QED BY <2>2, QueueNames DEF PipeGoesOn
<1>7. ASSUME \A e \in VectorCode(k, t).waits : events[e] > 0 PROVE PipeGoesOn
  <2>1. CanExecute("V")
    BY <1>1, <1>7, HeadExecutes
  <2> QED BY <2>1, QueueNames DEF PipeGoesOn
<1>8. CASE k = 0
  <2>1. VectorCode(k, t).waits = {ready("inQueO1")}
    BY <1>8 DEF VectorCode, CastO1, Instruction
  <2>2. Times(0, v) = t
    <3>1. Present(0)
      BY DEF Present
    <3> QED BY <1>8, <3>1 DEF Reaches
  <2>3. events[ready("inQueO1")] = Loaded(2, u) - t /\ Loaded(2, u) \in Nat
    BY <1>1, <2>2, LoadedNext DEF Counted
  <2>4. CASE Loaded(2, u) > t
    BY <1>7, <2>1, <2>3, <2>4
  <2>5. CASE ~(Loaded(2, u) > t)
    <3>1. u \div 4 <= t
      BY <1>1, <2>5 DEF Loaded
    <3> QED BY <1>5, <3>1
  <2> QED BY <2>4, <2>5
<1>9. CASE k = 1
  <2>1. VectorCode(k, t).waits = {ready("inQueO2"), ready("inQueLse1"), ready("inQueLse2")}
    BY <1>9 DEF VectorCode, CastO2, Instruction
  <2>2. Times(1, v) = t
    <3>1. Present(1)
      BY DEF Present
    <3> QED BY <1>9, <3>1 DEF Reaches
  <2>3. /\ events[ready("inQueO2")] = Loaded(3, u) - t
        /\ events[ready("inQueLse1")] = Loaded(3, u) - t
        /\ events[ready("inQueLse2")] = Loaded(3, u) - t
        /\ Loaded(3, u) \in Nat
    BY <1>1, <2>2, LoadedNext DEF Counted
  <2>4. CASE Loaded(3, u) > t
    BY <1>7, <2>1, <2>3, <2>4
  <2>5. CASE ~(Loaded(3, u) > t)
    <3>1. u \div 4 <= t
      BY <1>1, <2>5 DEF Loaded
    <3> QED BY <1>5, <3>1
  <2> QED BY <2>4, <2>5
<1>10. CASE k \in {2, 3, 4, 7}
  <2>1. VectorCode(k, t).waits = {}
    BY <1>10 DEF VectorCode, FreeStrided, WeightsOf, FreeRest, Instruction
  <2> QED BY <1>7, <2>1
<1>11. CASE k \in {5, 6}
  <2>1. CASE k = WriteOfOut
    <3>1. VectorCode(k, t).waits = {free("outQue")}
      BY <2>1 DEF VectorCode, MergeRowsOf, CastOut, WriteOfOut, Instruction
    <3>2. Times(WriteOfOut, v) = t
      BY <1>11, <2>1 DEF Reaches
    <3>3. events[free("outQue")] = 1 + w - t
      BY <3>2 DEF Placed, Counted
    <3>4. CASE w < t
      BY <1>6, <3>2, <3>4
    <3>5. CASE ~(w < t)
      <4>1. events[free("outQue")] > 0
        BY <1>1, <3>3, <3>5
      <4> QED BY <1>7, <3>1, <4>1
    <3> QED BY <3>4, <3>5
  <2>2. CASE k # WriteOfOut
    <3>1. VectorCode(k, t).waits = {}
      BY <1>11, <2>2 DEF VectorCode, MergeRowsOf, WriteOfOut, Present, Instruction
    <3> QED BY <1>7, <3>1
  <2> QED BY <2>1, <2>2
<1> QED BY <1>2, <1>8, <1>9, <1>10, <1>11

(* When V has run dry it has freed the tensors of all tiles before and     *)
(* merged them, and MTE2 and MTE3 can go on until they have run dry too.   *)
LEMMA PipesRunDry ==
    ASSUME Inv, ~PipeGoesOn
    PROVE  queue["MTE2"] = <<>> /\ queue["V"] = <<>> /\ queue["MTE3"] = <<>>
<1> PICK u, v, w, todo, n : Placed(u, v, w, todo, n)
  BY DEF Inv
<1>1. /\ Types /\ u \in Nat /\ v \in Nat /\ w \in Nat /\ w <= tile /\ u <= LoadEnd
      /\ v <= VectorEnd
      /\ LoadQueue(u) /\ Lists(todo, n, v, VectorEnd, Places) /\ StoreQueue(w)
      /\ HasLength(queue["V"], n) /\ Counted(u, v, w)
  BY DEF Inv, Placed, LoadQueue, VectorQueue, CodeOf, StoreQueue
<1>2. n = 0
  BY <1>1, VectorGoesOn
<1>3. /\ tile \in Nat /\ LoadEnd \in Nat /\ VectorEnd \in Nat
      /\ LoadEnd <= 4 * tile + 4 /\ 8 * tile <= VectorEnd
  BY <1>1, ScalarPlaces
<1>4. ASSUME NEW j, Present(j) PROVE tile <= Times(j, v) /\ Times(j, v) \in Nat
  <2>1. j \in 0..7
    BY <1>4 DEF Present
  <2>2. ASSUME NEW x \in v..(VectorEnd - 1), x % 8 = j PROVE FALSE
    <3>1. x \in Places /\ v <= x /\ x < VectorEnd
      BY <1>1, <1>3, <1>4, <2>2 DEF Places
    <3> QED BY <1>1, <1>2, <3>1 DEF Lists
  <2>3. Times(j, VectorEnd) = Times(j, v)
    BY <1>1, <1>3, <2>1, <2>2, TimesOverGap
  <2>4. tile <= Times(j, VectorEnd)
    BY <1>3, <2>1 DEF Times
  <2> QED BY <1>1, <2>1, <2>3, <2>4, TimesNext
<1>5. FreedBy(v, tile)
  BY <1>4 DEF FreedBy
<1>6. ~(u < LoadEnd)
  <2> SUFFICES ASSUME u < LoadEnd PROVE FALSE
    OBVIOUS
  <2>1. u \div 4 <= tile
    BY <1>1, <1>3
  <2>2. CanExecute("MTE2")
    BY <1>1, <1>3, <1>5, <2>1, LoadGoesOn
  <2> QED BY <2>2, QueueNames DEF PipeGoesOn
<1>7. ~(w < tile)
  <2> SUFFICES ASSUME w < tile PROVE FALSE
    OBVIOUS
  <2>1. tile <= Times(WriteOfOut, v) /\ Times(WriteOfOut, v) \in Nat
    <3>1. Present(WriteOfOut)
      BY DEF Present, WriteOfOut
    <3> QED BY <1>4, <3>1
  <2>2. w < Times(WriteOfOut, v)
    BY <1>1, <1>3, <2>1
  <2>3. CanExecute("MTE3")
    BY <1>1, <2>2, StoreGoesOn
  <2> QED BY <2>3, QueueNames DEF PipeGoesOn
<1>8. HasLength(queue["MTE2"], 0) /\ HasLength(queue["MTE3"], 0)
  <2>1. LoadEnd - u = 0 /\ tile - w = 0
    BY <1>1, <1>3, <1>6, <1>7
  <2> QED BY <1>1, <2>1 DEF LoadQueue, StoreQueue
<1> QED BY <1>1, <1>2, <1>8, SequenceFacts

(* With no pipe left to wait for, the scalar unit goes on.                 *)
LEMMA InvGoesOn == Inv => NeverStuck
<1> SUFFICES ASSUME Inv, ~PipeGoesOn
             PROVE  (pc[1] = "done" /\ Drained) \/ ScalarGoesOn
  BY DEF NeverStuck
<1>1. queue["MTE2"] = <<>> /\ queue["V"] = <<>> /\ queue["MTE3"] = <<>>
  BY PipesRunDry
<1>2. Drained /\ Barrier({"MTE2"}) /\ Barrier({"V"})
  BY <1>1 DEF Drained, Barrier, Pipes
<1>3. pc[1] \in {"load", "done", "weights", "merge", "compact", "compacted"}
  BY DEF Inv, Types
<1> QED BY <1>2, <1>3 DEF ScalarGoesOn

-----------------------------------------------------------------------------
(* The rows of the cores.                                                  *)
LEMMA MinOfTwo ==
    ASSUME NEW x \in Nat, NEW y \in Nat, NEW m, m = Min({x, y})
    PROVE  m \in Nat /\ m <= x /\ m <= y /\ (m = x \/ m = y)
<1>1. \E l \in {x, y} : \A z \in {x, y} : l <= z
  OBVIOUS
<1>2. m \in {x, y} /\ \A z \in {x, y} : m <= z
  BY <1>1 DEF Min
<1> QED BY <1>2

LEMMA CeilDivFacts ==
    ASSUME NEW a \in Nat \ {0}, NEW n \in Nat \ {0}
    PROVE  CeilDiv(a, n) \in Nat \ {0} /\ a <= CeilDiv(a, n) * n
<1> PICK q : q = (a + n - 1) \div n
  OBVIOUS
<1>1. q \in Nat /\ a <= q * n /\ (q = 0) <=> (a = 0)
  BY CeilingFacts
<1> QED BY <1>1 DEF CeilDiv

(* Each core has a multiple of 8 rows, the last one what is left.          *)
LEMMA GridFacts ==
    ASSUME totalRows \in Nat \ {0}
    PROVE  /\ blockDim \in Nat \ {0}
           /\ \E m \in Nat \ {0} : rowsPerCore = 8 * m
           /\ rowsPerCore \in Nat \ {0} /\ totalRows <= blockDim * rowsPerCore
<1> PICK b, c, m, r : /\ b = blockDim /\ c = CeilDiv(totalRows, b)
                      /\ m = CeilDiv(c, LANES) /\ r = rowsPerCore
  OBVIOUS
<1>1. b \in Nat \ {0}
  <2>1. b \in Nat /\ (b = totalRows \/ b = 8)
    BY MinOfTwo DEF blockDim
  <2> QED BY <2>1
<1>2. c \in Nat /\ totalRows <= c * b /\ c # 0
  BY <1>1, CeilDivFacts
<1>3. m \in Nat /\ c <= m * 8 /\ m # 0
  <2>1. m = (c + 8 - 1) \div 8
    BY DEF CeilDiv, LANES
  <2> QED BY <1>2, <2>1
<1>4. r = m * 8
  BY DEF rowsPerCore, LANES
<1>5. r \in Nat \ {0} /\ c <= r /\ r = 8 * m
  BY <1>2, <1>3, <1>4
<1>6. totalRows <= b * r
  <2>1. c * b <= r * b /\ c * b \in Int /\ r * b \in Int
    BY <1>1, <1>2, <1>5, ProductMonotone
  <2>2. r * b = b * r
    BY <1>1, <1>5
  <2> QED BY <1>2, <2>1, <2>2
<1> QED BY <1>1, <1>3, <1>5, <1>6

LEMMA RowsFacts ==
    ASSUME totalRows \in Nat \ {0}, NEW b \in Nat, NEW s, s = b * rowsPerCore
    PROVE  /\ s \in Nat
           /\ RowsOf(b) = {r \in Nat : s <= r /\ r < s + rowsPerCore /\ r < totalRows}
           /\ \A n \in Nat : n < Cardinality(RowsOf(b)) => s + n \in RowsOf(b)
<1> PICK p \in Nat \ {0} : p = rowsPerCore
  BY GridFacts
<1>1. s \in Nat
  BY ProductClosed
<1> PICK e : e = Min({s + p, totalRows})
  OBVIOUS
<1>2. e \in Nat /\ e <= s + p /\ e <= totalRows /\ (e = s + p \/ e = totalRows)
  BY <1>1, MinOfTwo
<1>3. RowsOf(b) = s..(e - 1)
  BY DEF RowsOf, rowStart, rowStop
<1>4. s..(e - 1) = {r \in Nat : s <= r /\ r < s + p /\ r < totalRows}
  BY <1>1, <1>2
<1>5. Cardinality(s..(e - 1)) = IF s > e - 1 THEN 0 ELSE (e - 1) - s + 1
  <2> PICK z \in Int : z = e - 1
    BY <1>2
  <2>1. Cardinality(s..z) = IF s > z THEN 0 ELSE z - s + 1
    <3>1. s \in Int
      BY <1>1
    <3> QED BY <3>1, FS_Interval, Zenon
  <2> QED BY <2>1
<1>6. ASSUME NEW n \in Nat, n < Cardinality(s..(e - 1)) PROVE s + n \in s..(e - 1)
  BY <1>1, <1>2, <1>5, <1>6
<1> QED BY <1>1, <1>3, <1>4, <1>6

(* A tile that is begun has rows of this core and of no other.             *)
Begun ==
    /\ totalRows \in Nat \ {0} /\ blockIdx \in 0..(blockDim - 1) /\ tile \in Nat
    /\ \/ pc \in {<<"load", 0>>, <<"done", 0>>, <<"weights", 0>>, <<"merge", 0>>}
       \/ \E side \in 1..2 : pc \in {<<"compact", side>>, <<"compacted", side>>}
    /\ pc[1] = "load" => tile * TILE_ROWS < myRows

LEMMA InitBegun ==
    ASSUME Init
    PROVE  Begun
  BY ParametersAssumption DEF Init, Begun, NextTile

LEMMA NextBegun ==
    ASSUME Begun, [Next]_vars
    PROVE  Begun'
<1>1. /\ \A s \in 0..2 : \/ After(s) = <<"weights", 0>>
                         \/ \E side \in 1..2 : After(s) = <<"compact", side>>
  BY AfterFacts
<1>2. ASSUME call' = call, tile' = tile, pc' = pc PROVE Begun'
  BY <1>2, SameRows DEF Begun, call
<1>3. ASSUME call' = call, tile' \in Nat,
             \/ pc' \in {<<"load", 0>>, <<"done", 0>>, <<"weights", 0>>, <<"merge", 0>>}
             \/ \E side \in 1..2 : pc' \in {<<"compact", side>>, <<"compacted", side>>},
             pc'[1] = "load" => tile' * TILE_ROWS < myRows
      PROVE  Begun'
  BY <1>3, SameRows DEF Begun, call
<1>4. CASE BeginTile
  <2>1. call' = call /\ tile' = tile /\ pc' = After(0)
    BY <1>4 DEF BeginTile, call
  <2> QED BY <1>1, <1>3, <2>1 DEF Begun
<1>5. CASE CompactLse
  <2>1. call' = call /\ tile' = tile /\ pc' = <<"compacted", pc[2]>> /\ pc[1] = "compact"
    BY <1>5 DEF CompactLse, call
  <2> QED BY <1>3, <2>1 DEF Begun
<1>6. CASE FreeLse
  <2>1. call' = call /\ tile' = tile /\ pc' = After(pc[2]) /\ pc[1] = "compacted"
    BY <1>6 DEF FreeLse, call
  <2>2. pc[2] \in 0..2
    BY <2>1 DEF Begun
  <2> QED BY <1>1, <1>3, <2>1, <2>2 DEF Begun
<1>7. CASE Weigh
  <2>1. call' = call /\ tile' = tile /\ pc' = <<"merge", 0>>
    BY <1>7 DEF Weigh, call
  <2> QED BY <1>3, <2>1 DEF Begun
<1>8. CASE MergeTile
  <2>1. call' = call /\ tile' = tile + 1 /\ pc' = NextTile(tile + 1)
    BY <1>8 DEF MergeTile, call
  <2> QED BY <1>3, <2>1 DEF Begun, NextTile
<1>9. CASE \E p \in Pipes : RunPipe(p)
  BY <1>2, <1>9 DEF RunPipe
<1>10. CASE UNCHANGED vars
  BY <1>2, <1>10 DEF vars, call
<1> QED BY <1>4, <1>5, <1>6, <1>7, <1>8, <1>9, <1>10 DEF Next, Scalar, Terminated

LEMMA BegunHits ==
    ASSUME Begun
    PROVE  TileHitsOwnRows
<1> DEFINE others == UNION {RowsOf(b) : b \in (0..(blockDim - 1)) \ {blockIdx}}
<1> SUFFICES ASSUME pc[1] = "load"
             PROVE  /\ RowsOfTile(tile) # {}
                    /\ RowsOfTile(tile) \cap others = {}
                    /\ Min(RowsOfTile(tile)) % LANES = 0
                    /\ RowsOf(blockIdx) \cup others = 0..(totalRows - 1)
  BY DEF TileHitsOwnRows
<1> PICK d \in Nat \ {0}, p \in Nat \ {0}, m \in Nat \ {0} :
       d = blockDim /\ p = rowsPerCore /\ p = 8 * m /\ totalRows <= d * p
  BY GridFacts DEF Begun
<1> PICK b \in 0..(d - 1), t \in Nat, s \in Nat : b = blockIdx /\ t = tile /\ s = b * p
  <2>1. blockIdx * p \in Nat
    BY ProductClosed DEF Begun
  <2> QED BY <2>1 DEF Begun
<1>1. totalRows \in Nat \ {0}
  BY DEF Begun
<1>2. \A r, c : c \in Nat => (r \in RowsOf(c) <=> /\ r \in Nat /\ c * p <= r
                                                  /\ r < c * p + p /\ r < totalRows)
  BY <1>1, RowsFacts
<1>3. s + 32 * t \in RowsOf(b)
  <2>1. 32 * t < Cardinality(RowsOf(b))
    BY DEF Begun, myRows, TILE_ROWS
  <2> PICK n \in Nat : n = 32 * t
    OBVIOUS
  <2>2. s + n \in RowsOf(b)
    BY <1>1, <2>1, RowsFacts
  <2> QED BY <2>2
<1>4. RowsOfTile(t) = {r \in RowsOf(b) : (r - s) \div 32 = t}
  BY DEF RowsOfTile, rowStart, TILE_ROWS
<1>5. s + 32 * t \in RowsOfTile(t)
  <2>1. ((s + 32 * t) - s) \div 32 = t
    OBVIOUS
  <2> QED BY <1>3, <1>4, <2>1
<1>6. ASSUME NEW r \in RowsOfTile(t) PROVE r \in Nat /\ s + 32 * t <= r
  <2>1. r \in Nat /\ s <= r /\ (r - s) \div 32 = t
    BY <1>2, <1>4
  <2> QED BY <2>1
<1>7. Min(RowsOfTile(t)) = s + 32 * t
  <2>1. \A l \in RowsOfTile(t) : (\A r \in RowsOfTile(t) : l <= r) => l = s + 32 * t
    <3>1. ASSUME NEW l \in RowsOfTile(t), \A r \in RowsOfTile(t) : l <= r
          PROVE  l = s + 32 * t
      <4>1. l <= s + 32 * t
        BY <1>5, <3>1
      <4>2. l \in Nat /\ s + 32 * t <= l
        BY <1>6
      <4> QED BY <4>1, <4>2
    <3> QED BY <3>1
  <2>2. \A r \in RowsOfTile(t) : s + 32 * t <= r
    BY <1>6
  <2> QED BY <1>5, <2>1, <2>2 DEF Min
<1>8. (s + 32 * t) % LANES = 0
  <2>1. s = 8 * (b * m)
    BY ProductClosed
  <2> PICK x \in Nat : x = b * m
    BY ProductClosed
  <2>2. s + 32 * t = 8 * (x + 4 * t)
    BY <2>1
  <2>3. (8 * (x + 4 * t)) % 8 = 0
    OBVIOUS
  <2> QED BY <2>2, <2>3 DEF LANES
<1>9. ASSUME NEW c \in Nat, NEW r \in RowsOf(c) PROVE r \div p = c
  <2>1. r \in Nat /\ c * p <= r /\ r < c * p + p
    BY <1>2, <1>9
  <2> PICK e \in 0..(p - 1) : r = c * p + e
    <3>1. c * p \in Nat
      BY ProductClosed
    <3>2. r - c * p \in 0..(p - 1) /\ r = c * p + (r - c * p)
      BY <2>1, <3>1
    <3> QED BY <3>2
  <2> QED BY QuotientUnique
<1>10. RowsOfTile(t) \cap others = {}
  <2> SUFFICES ASSUME NEW r \in RowsOfTile(t), r \in others PROVE FALSE
    OBVIOUS
  <2>1. PICK c \in (0..(d - 1)) \ {b} : r \in RowsOf(c)
    OBVIOUS
  <2>2. r \in RowsOf(b)
    BY <1>4
  <2> QED BY <1>9, <2>1, <2>2
<1>11. RowsOf(b) \cup others = 0..(totalRows - 1)
  <2>1. RowsOf(b) \cup others = UNION {RowsOf(c) : c \in 0..(d - 1)}
    OBVIOUS
  <2>2. ASSUME NEW c \in 0..(d - 1), NEW r \in RowsOf(c) PROVE r \in 0..(totalRows - 1)
    BY <1>1, <1>2
  <2>3. ASSUME NEW r \in 0..(totalRows - 1) PROVE \E c \in 0..(d - 1) : r \in RowsOf(c)
    <3>1. r \in Nat /\ r < d * p /\ r < totalRows
      BY <1>1, ProductClosed
    <3>2. /\ r \div p \in 0..(d - 1) /\ (r \div p) * p <= r /\ r < (r \div p) * p + p
      BY <3>1, QuotientBelow
    <3>3. r \in RowsOf(r \div p)
      BY <1>2, <3>1, <3>2
    <3> QED BY <3>2, <3>3
  <2> QED BY <2>1, <2>2, <2>3
<1> QED BY <1>5, <1>7, <1>8, <1>10, <1>11

-----------------------------------------------------------------------------
(* In every variant every pipe, and the scalar unit where it reads, finds  *)
(* the tile it works on (kernel_lse_merge.cpp:157-310), provided that the  *)
(* scalar unit too waits for a tensor that it has taken from a queue.      *)
THEOREM TilesAlwaysIntact ==
    ASSUME DeQueStopsScalar
    PROVE  Spec => []TilesIntact
<1>1. Inv => TilesIntact
  BY InvTiles
<1> QED BY <1>1, PlacesKept, PTL

(* When the core is done and the pipes have run dry, every tensor is free  *)
(* and no event is left: EnQue, DeQue and FreeTensor are balanced in every *)
(* variant, across tiles (kernel_lse_merge.cpp:180-202, 222-229, 284-309). *)
THEOREM AlwaysReturnsClean == Spec => []ReturnsClean
<1>1. Inv => ReturnsClean
  BY InvReturns
<1> QED BY <1>1, PlacesKept, PTL

(* Until the core is done and its pipes have run dry, the scalar unit or a *)
(* pipe can go on: no variant has a pipe wait for a tensor that is neither *)
(* freed nor enqueued (kernel_lse_merge.cpp:157-310), nor a barrier for a  *)
(* pipe that waits for ever.                                               *)
THEOREM CoreNeverStuck == Spec => []NeverStuck
<1>1. Inv => NeverStuck
  BY InvGoesOn
<1> QED BY <1>1, PlacesKept, PTL

(* The tiles are cut from the rows of this core alone, from a multiple of  *)
(* eight rows on, and every row is of some core (kernel_lse_merge.cpp:     *)
(* 80-91, 134-137; op_host/lse_merge.cpp:62), whatever DeQue does.         *)
THEOREM TilesAlwaysHitOwnRows == Spec => []TileHitsOwnRows
<1>1. Init => Begun
  BY InitBegun
<1>2. Begun /\ [Next]_vars => Begun'
  BY NextBegun
<1>3. Begun => TileHitsOwnRows
  BY BegunHits
<1> QED BY <1>1, <1>2, <1>3, PTL DEF Spec

=============================================================================
