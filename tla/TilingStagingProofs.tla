------------------------- MODULE TilingStagingProofs -------------------------
(***************************************************************************)
(* Proofs about TilingStaging, for any number of threads, streams, tilings,*)
(* calls and replays.                                                      *)
(*                                                                         *)
(* The argument: a pair's host bytes are never rewritten (PairsKept), so   *)
(* its device buffer holds nothing or the bytes the pair was made for; a   *)
(* call, a command and a graph name a pair made for their tiling           *)
(* (CallsRight, QueueRight, GraphRight); and a kernel is always behind a   *)
(* copy of its pair, or that copy has been executed (Covered).             *)
(***************************************************************************)
EXTENDS TilingStaging, SequenceTheorems, IntegerLemmas

-----------------------------------------------------------------------------
(* The inductive invariant.  Pairs are passed as st, so that the lemmas    *)
(* can speak of the pairs before and after a step.                         *)

StagingPair == [host : Bytes, content : Bytes, device : Bytes \cup {Null}]
Command == [op : {"copy", "kernel"}, entry : Nat, own : Tilings \cup {Null}]
Call == [at : {"lock", "lookup", "alloc", "copy", "launch"}, bytes : Bytes,
         stream : Streams, capture : BOOLEAN, entry : Nat]

TypeOK ==
    /\ mutex \in Callers \cup {Nobody}
    /\ registry \in Seq(Nat)
    /\ staging \in Seq(StagingPair)
    /\ call \in [Callers -> {Idle} \cup Call]
    /\ stream \in [Streams -> Seq(Command)]
    /\ graphs \subseteq Seq(Command)

Uploaded(st, e) == st[e].device # Null
CopyAt(q, m, e) == q[m].op = "copy" /\ q[m].entry = e

(* The first n commands of q, or what was executed before them, fill the   *)
(* device buffer of pair e.                                                *)
Covered(st, q, n, e) == Uploaded(st, e) \/ \E m \in 1..n : CopyAt(q, m, e)

Names(st, command) ==
    /\ command.entry \in 1..Len(st)
    /\ command.op = "kernel" => command.own = st[command.entry].content.tiling

QueueRight(st, q) ==
    \A n \in 1..Len(q) :
        /\ Names(st, q[n])
        /\ q[n].op = "kernel" => Covered(st, q, n - 1, q[n].entry)

GraphRight(st, g) ==
    /\ Len(g) = 2
    /\ g[1].op = "copy" /\ g[2].op = "kernel" /\ g[1].entry = g[2].entry
    /\ Names(st, g[1]) /\ Names(st, g[2])

PairsKept ==
    \A e \in 1..Len(staging) :
        /\ staging[e].host = staging[e].content
        /\ staging[e].device \in {Null, staging[e].content}

SlotsNamePairs == \A i \in 1..Len(registry) : registry[i] \in 1..Len(staging)

CallsRight ==
    \A c \in Callers :
        /\ call[c].at \in {"copy", "launch"} =>
              /\ call[c].entry \in 1..Len(staging)
              /\ staging[call[c].entry].content = call[c].bytes
        /\ call[c].at = "launch" /\ ~call[c].capture =>
              Covered(staging, stream[call[c].stream],
                      Len(stream[call[c].stream]), call[c].entry)

StreamsRight == \A s \in Streams : QueueRight(staging, stream[s])
GraphsRight == \A g \in graphs : GraphRight(staging, g)

(* The critical section: one thread at a time, and it allocates only what  *)
(* no slot has.                                                            *)
LockHeld ==
    \A c \in Callers :
        /\ call[c].at \in {"lookup", "alloc"} => mutex = c
        /\ call[c].at = "alloc" =>
              \A i \in 1..Len(registry) : staging[registry[i]].content # call[c].bytes

IInv ==
    /\ TypeOK /\ PairsKept /\ SlotsNamePairs
    /\ CallsRight /\ StreamsRight /\ GraphsRight /\ LockHeld
    /\ KernelReadsOwnTiling /\ NoDuplicateBytes

-----------------------------------------------------------------------------
(* Facts about pairs, queues and graphs.                                   *)

(* What every step leaves of the pairs: none disappears, none changes what *)
(* it was made for, none loses its upload.                                 *)
Keeps(st, st2) ==
    /\ Len(st) \in Nat /\ Len(st2) \in Nat /\ Len(st) <= Len(st2)
    /\ \A e \in 1..Len(st) :
          /\ st2[e].content = st[e].content
          /\ Uploaded(st, e) => Uploaded(st2, e)

LEMMA NamesKept ==
    ASSUME NEW st, NEW st2, Keeps(st, st2), NEW command, Names(st, command)
    PROVE  Names(st2, command)
<1>1. command.entry \in 1..Len(st) /\ command.entry \in 1..Len(st2)
  BY DEF Keeps, Names
<1>2. st2[command.entry].content = st[command.entry].content
  BY <1>1 DEF Keeps
<1> QED BY <1>1, <1>2 DEF Names

LEMMA CoveredKept ==
    ASSUME NEW st, NEW st2, Keeps(st, st2), NEW q, NEW n,
           NEW e \in 1..Len(st), Covered(st, q, n, e)
    PROVE  Covered(st2, q, n, e)
  BY DEF Keeps, Covered

LEMMA QueueKept ==
    ASSUME NEW st, NEW st2, Keeps(st, st2), NEW q, QueueRight(st, q)
    PROVE  QueueRight(st2, q)
<1> SUFFICES ASSUME NEW n \in 1..Len(q)
             PROVE  /\ Names(st2, q[n])
                    /\ q[n].op = "kernel" => Covered(st2, q, n - 1, q[n].entry)
  BY DEF QueueRight
<1>1. Names(st, q[n]) /\ (q[n].op = "kernel" => Covered(st, q, n - 1, q[n].entry))
  BY DEF QueueRight
<1>2. q[n].entry \in 1..Len(st)
  BY <1>1 DEF Names
<1> QED BY <1>1, <1>2, NamesKept, CoveredKept

LEMMA GraphKept ==
    ASSUME NEW st, NEW st2, Keeps(st, st2), NEW g, GraphRight(st, g)
    PROVE  GraphRight(st2, g)
  BY NamesKept DEF GraphRight

(* A command may join a queue if it names its pair and, for a kernel, the  *)
(* queue covers the pair.                                                  *)
LEMMA QueueExtended ==
    ASSUME NEW st, NEW q \in Seq(Command), QueueRight(st, q),
           NEW command \in Command, Names(st, command),
           command.op = "kernel" => Covered(st, q, Len(q), command.entry)
    PROVE  QueueRight(st, q \o <<command>>)
<1> DEFINE long == q \o <<command>>
<1>1. /\ Len(q) \in Nat /\ Len(long) = Len(q) + 1
      /\ \A i \in 1..Len(q) : long[i] = q[i]
      /\ long[Len(q) + 1] = command
  <2>1. <<command>> \in Seq(Command) /\ Len(<<command>>) = 1 /\ <<command>>[1] = command
    OBVIOUS
  <2>2. Len(q) \in Nat
    OBVIOUS
  <2> QED BY <2>1, <2>2, ConcatProperties
<1> HIDE DEF long
<1> SUFFICES ASSUME NEW n \in 1..Len(long)
             PROVE  /\ Names(st, long[n])
                    /\ long[n].op = "kernel" => Covered(st, long, n - 1, long[n].entry)
  BY DEF QueueRight, long
<1>2. CASE n \in 1..Len(q)
  <2>1. long[n] = q[n] /\ \A m \in 1..(n - 1) : long[m] = q[m]
    BY <1>1, <1>2
  <2>2. Names(st, q[n]) /\ (q[n].op = "kernel" => Covered(st, q, n - 1, q[n].entry))
    BY <1>2 DEF QueueRight
  <2> QED BY <2>1, <2>2 DEF Covered, CopyAt
<1>3. CASE n = Len(q) + 1
  <2>1. n - 1 = Len(q) /\ long[n] = command /\ \A m \in 1..(n - 1) : long[m] = q[m]
    BY <1>1, <1>3
  <2> QED BY <2>1 DEF Covered, CopyAt
<1> QED BY <1>1, <1>2, <1>3

LEMMA CoveredExtended ==
    ASSUME NEW st, NEW q \in Seq(Command), NEW r \in Seq(Command), NEW e,
           Covered(st, q, Len(q), e)
    PROVE  Covered(st, q \o r, Len(q \o r), e)
<1>1. /\ Len(q) \in Nat /\ Len(r) \in Nat /\ Len(q \o r) = Len(q) + Len(r)
      /\ \A i \in 1..Len(q) : i \in 1..Len(q \o r) /\ (q \o r)[i] = q[i]
  BY ConcatProperties
<1> QED BY <1>1 DEF Covered, CopyAt

(* The copy that was just enqueued covers its pair.                        *)
LEMMA CopyCovers ==
    ASSUME NEW st, NEW q \in Seq(Command), NEW command \in Command, command.op = "copy"
    PROVE  Covered(st, q \o <<command>>, Len(q \o <<command>>), command.entry)
<1>1. <<command>> \in Seq(Command) /\ Len(<<command>>) = 1 /\ <<command>>[1] = command
  OBVIOUS
<1>2. Len(q) \in Nat
  OBVIOUS
<1>3. Len(q \o <<command>>) = Len(q) + 1 /\ (q \o <<command>>)[Len(q) + 1] = command
  BY <1>1, <1>2, ConcatProperties
<1> QED BY <1>2, <1>3 DEF Covered, CopyAt

LEMMA GraphQueued ==
    ASSUME NEW st, NEW q \in Seq(Command), QueueRight(st, q),
           NEW g \in Seq(Command), GraphRight(st, g)
    PROVE  QueueRight(st, q \o g)
<1> DEFINE withCopy == q \o <<g[1]>>
<1>1. Len(g) = 2 /\ g[1] \in Command /\ g[2] \in Command
  <2>1. Len(g) = 2
    BY DEF GraphRight
  <2>2. 1 \in 1..Len(g) /\ 2 \in 1..Len(g)
    BY <2>1
  <2> QED BY <2>1, <2>2, ElementOfSeq
<1>2. withCopy \in Seq(Command) /\ QueueRight(st, withCopy)
  <2>1. <<g[1]>> \in Seq(Command)
    BY <1>1
  <2> QED BY <1>1, <2>1, QueueExtended, ConcatProperties DEF GraphRight
<1>3. Covered(st, withCopy, Len(withCopy), g[2].entry)
  BY <1>1, CopyCovers DEF GraphRight
<1>4. QueueRight(st, withCopy \o <<g[2]>>)
  BY <1>1, <1>2, <1>3, QueueExtended DEF GraphRight
<1>5. withCopy \o <<g[2]>> = q \o g
  <2>1. g = <<g[1]>> \o <<g[2]>>
    BY <1>1
  <2>2. <<g[1]>> \in Seq(Command) /\ <<g[2]>> \in Seq(Command)
    BY <1>1
  <2>3. (q \o <<g[1]>>) \o <<g[2]>> = q \o (<<g[1]>> \o <<g[2]>>)
    BY <2>2, ConcatAssociative
  <2> QED BY <2>1, <2>3
<1> QED BY <1>4, <1>5

(* Executing the head of a queue leaves the rest right, if the head was no *)
(* copy or its pair now has its upload.                                    *)
LEMMA CoveredAfterHead ==
    ASSUME NEW st, NEW st2, Keeps(st, st2), NEW q \in Seq(Command), q # <<>>,
           Names(st, Head(q)),
           Head(q).op = "copy" => Uploaded(st2, Head(q).entry),
           NEW n \in 0..(Len(q) - 1), NEW e \in 1..Len(st), Covered(st, q, n + 1, e)
    PROVE  Covered(st2, Tail(q), n, e)
<1>1. /\ Head(q) = q[1] /\ Len(q) \in Nat /\ Len(Tail(q)) = Len(q) - 1
      /\ \A i \in 1..(Len(q) - 1) : Tail(q)[i] = q[i + 1]
  BY HeadTailProperties
<1>2. CASE Uploaded(st, e)
  BY <1>2 DEF Keeps, Covered
<1>3. CASE \E m \in 1..(n + 1) : CopyAt(q, m, e)
  <2>1. PICK m \in 1..(n + 1) : CopyAt(q, m, e)
    BY <1>3
  <2>2. CASE m = 1
    BY <1>1, <2>1, <2>2 DEF Covered, CopyAt
  <2>3. CASE m # 1
    <3>1. m - 1 \in 1..n /\ m - 1 \in 1..(Len(q) - 1) /\ (m - 1) + 1 = m
      BY <1>1, <2>3
    <3>2. Tail(q)[m - 1] = q[m]
      BY <1>1, <3>1
    <3> QED BY <2>1, <3>1, <3>2 DEF Covered, CopyAt
  <2> QED BY <2>2, <2>3
<1> QED BY <1>2, <1>3 DEF Covered

LEMMA QueueAfterHead ==
    ASSUME NEW st, NEW st2, Keeps(st, st2), NEW q \in Seq(Command), q # <<>>,
           QueueRight(st, q),
           Head(q).op = "copy" => Uploaded(st2, Head(q).entry)
    PROVE  QueueRight(st2, Tail(q))
<1>1. /\ Head(q) = q[1] /\ Len(q) \in Nat /\ Len(q) >= 1 /\ Len(Tail(q)) = Len(q) - 1
      /\ \A i \in 1..(Len(q) - 1) : Tail(q)[i] = q[i + 1]
  BY HeadTailProperties, EmptySeq
<1>2. Names(st, Head(q))
  BY <1>1 DEF QueueRight
<1> SUFFICES ASSUME NEW n \in 1..(Len(q) - 1)
             PROVE  /\ Names(st2, Tail(q)[n])
                    /\ Tail(q)[n].op = "kernel" => Covered(st2, Tail(q), n - 1, Tail(q)[n].entry)
  BY <1>1 DEF QueueRight
<1>3. /\ n + 1 \in 1..Len(q) /\ (n + 1) - 1 = (n - 1) + 1 /\ n - 1 \in 0..(Len(q) - 1)
      /\ Tail(q)[n] = q[n + 1]
  BY <1>1
<1>4. /\ Names(st, Tail(q)[n])
      /\ Tail(q)[n].op = "kernel" => Covered(st, q, (n - 1) + 1, Tail(q)[n].entry)
  BY <1>3 DEF QueueRight
<1>5. Tail(q)[n].entry \in 1..Len(st)
  BY <1>4 DEF Names
<1> QED BY <1>2, <1>3, <1>4, <1>5, NamesKept, CoveredAfterHead

-----------------------------------------------------------------------------
(* The invariant holds at first and every action preserves it.             *)

LEMMA InitRight == Init => IInv
<1> SUFFICES ASSUME Init PROVE IInv
  OBVIOUS
<1>1. TypeOK
  BY DEF Init, TypeOK
<1>2. PairsKept /\ SlotsNamePairs /\ StreamsRight
  BY DEF Init, PairsKept, SlotsNamePairs, StreamsRight, QueueRight
<1>3. CallsRight /\ LockHeld
  BY DEF Init, CallsRight, LockHeld, Idle
<1>4. GraphsRight /\ KernelReadsOwnTiling /\ NoDuplicateBytes
  BY DEF Init, GraphsRight, KernelReadsOwnTiling, NoDuplicateBytes
<1> QED BY <1>1, <1>2, <1>3, <1>4 DEF IInv

LEMMA InACall ==
    ASSUME TypeOK, NEW c \in Callers, call[c] # Idle
    PROVE  call[c] \in Call
  BY DEF TypeOK

LEMMA AtMeansCall ==
    ASSUME TypeOK, NEW c \in Callers, NEW place, place # "idle", At(c, place)
    PROVE  call[c] \in Call /\ call \in [Callers -> {Idle} \cup Call]
  BY InACall DEF TypeOK, At, Idle

LEMMA BeginRight ==
    ASSUME IInv, NEW c \in Callers, Begin(c)
    PROVE  IInv'
<1> USE DEF Begin
<1>1. PICK b \in Bytes, s \in Streams, capture \in BOOLEAN :
          call' = [call EXCEPT ![c] = [at |-> "lock", bytes |-> b, stream |-> s,
                                       capture |-> capture, entry |-> 0]]
  OBVIOUS
<1>2. TypeOK'
  BY <1>1 DEF IInv, TypeOK, Call
<1>3. \A d \in Callers : IF d = c THEN call'[d].at = "lock" ELSE call'[d] = call[d]
  BY <1>1 DEF IInv, TypeOK
<1>4. CallsRight' /\ LockHeld'
  BY <1>3 DEF IInv, CallsRight, LockHeld
<1>5. PairsKept' /\ SlotsNamePairs' /\ StreamsRight' /\ GraphsRight'
  BY DEF IInv, PairsKept, SlotsNamePairs, StreamsRight, GraphsRight
<1>6. KernelReadsOwnTiling' /\ NoDuplicateBytes'
  BY DEF IInv, KernelReadsOwnTiling, NoDuplicateBytes
<1> QED BY <1>2, <1>4, <1>5, <1>6 DEF IInv

LEMMA LockRight ==
    ASSUME IInv, NEW c \in Callers, Lock(c)
    PROVE  IInv'
<1> USE DEF Lock
<1>1. call[c] \in Call /\ call \in [Callers -> {Idle} \cup Call]
  BY AtMeansCall DEF IInv
<1>2. \A d \in Callers : IF d = c THEN call'[d].at = "lookup" ELSE call'[d] = call[d]
  BY <1>1 DEF Move
<1>3. TypeOK'
  BY <1>1 DEF IInv, TypeOK, Move, Call
<1>4. CallsRight'
  BY <1>2 DEF IInv, CallsRight
<1>5. LockHeld'
  BY <1>2, StagingAssumption DEF IInv, LockHeld
<1>6. PairsKept' /\ SlotsNamePairs' /\ StreamsRight' /\ GraphsRight'
  BY DEF IInv, PairsKept, SlotsNamePairs, StreamsRight, GraphsRight
<1>7. KernelReadsOwnTiling' /\ NoDuplicateBytes'
  BY DEF IInv, KernelReadsOwnTiling, NoDuplicateBytes
<1> QED BY <1>3, <1>4, <1>5, <1>6, <1>7 DEF IInv

LEMMA LookupRight ==
    ASSUME IInv, NEW c \in Callers, Lookup(c)
    PROVE  IInv'
<1>0. UNCHANGED <<registry, staging, stream, graphs, ran>>
  BY DEF Lookup
<1>1. call[c] \in Call /\ call \in [Callers -> {Idle} \cup Call] /\ registry \in Seq(Nat)
  BY AtMeansCall DEF IInv, Lookup, TypeOK
<1>2. PairsKept' /\ SlotsNamePairs' /\ StreamsRight' /\ GraphsRight'
  BY <1>0 DEF IInv, PairsKept, SlotsNamePairs, StreamsRight, GraphsRight
<1>3. KernelReadsOwnTiling' /\ NoDuplicateBytes'
  BY <1>0 DEF IInv, KernelReadsOwnTiling, NoDuplicateBytes
<1>4. CASE Hits(c) = {} /\ Move(c, "alloc") /\ UNCHANGED mutex
  <2>1. \A d \in Callers : IF d = c THEN call'[d] = [call[c] EXCEPT !.at = "alloc"]
                                    ELSE call'[d] = call[d]
    BY <1>1, <1>4 DEF Move
  <2>2. TypeOK'
    BY <1>0, <1>1, <1>4 DEF IInv, TypeOK, Move, Call
  <2>3. CallsRight'
    BY <1>0, <1>1, <2>1 DEF IInv, CallsRight, Call
  <2>4. \A i \in 1..Len(registry) : staging[registry[i]].content # call[c].bytes
    BY <1>1, <1>4 DEF Hits
  <2>5. LockHeld'
    BY <1>0, <1>1, <1>4, <2>1, <2>4 DEF IInv, LockHeld, Lookup, At, Call
  <2> QED BY <1>2, <1>3, <2>2, <2>3, <2>5 DEF IInv
<1>5. ASSUME NEW first \in Hits(c), mutex' = Nobody,
             call' = [call EXCEPT ![c].at = "copy", ![c].entry = registry[first]]
      PROVE  IInv'
  <2>1. first \in 1..Len(registry) /\ staging[registry[first]].content = call[c].bytes
    BY <1>1 DEF Hits
  <2>2. registry[first] \in 1..Len(staging) /\ registry[first] \in Nat
    BY <1>1, <2>1 DEF IInv, SlotsNamePairs
  <2>3. \A d \in Callers :
           IF d = c THEN /\ call'[d].at = "copy" /\ call'[d].entry = registry[first]
                         /\ call'[d].bytes = call[c].bytes
                    ELSE call'[d] = call[d]
    BY <1>1, <1>5 DEF Call
  <2>4. TypeOK'
    BY <1>0, <1>1, <1>5, <2>2 DEF IInv, TypeOK, Call
  <2>5. CallsRight'
    BY <1>0, <2>1, <2>2, <2>3 DEF IInv, CallsRight
  <2>6. \A d \in Callers : d # c => call[d].at \notin {"lookup", "alloc"}
    BY DEF IInv, LockHeld, Lookup, At
  <2>7. LockHeld'
    BY <1>0, <2>3, <2>6 DEF LockHeld
  <2> QED BY <1>2, <1>3, <2>4, <2>5, <2>7 DEF IInv
<1> QED BY <1>4, <1>5 DEF Lookup

LEMMA AllocateRight ==
    ASSUME IInv, NEW c \in Callers, Allocate(c)
    PROVE  IInv'
<1> DEFINE id == Len(staging) + 1
           new == Pair(call[c].bytes, Null)
<1>0. UNCHANGED <<stream, graphs, ran>>
  BY DEF Allocate
<1>1. /\ call[c] \in Call /\ call \in [Callers -> {Idle} \cup Call]
      /\ registry \in Seq(Nat) /\ staging \in Seq(StagingPair)
  BY AtMeansCall DEF IInv, Allocate, TypeOK
<1>2. new \in StagingPair
  BY <1>1 DEF Pair, StagingPair, Call
<1>3. /\ staging' = Append(staging, new)
      /\ registry' = Append(registry, id)
      /\ call' = [call EXCEPT ![c].at = "copy", ![c].entry = id]
      /\ mutex' = Nobody
  BY DEF Allocate
<1>4. /\ Len(staging) \in Nat /\ id \in Nat /\ staging' \in Seq(StagingPair)
      /\ Len(staging') = id /\ staging'[id] = new
      /\ \A e \in 1..Len(staging) : staging'[e] = staging[e]
  BY <1>1, <1>2, <1>3, AppendProperties
<1>5. /\ Len(registry) \in Nat /\ registry' \in Seq(Nat)
      /\ Len(registry') = Len(registry) + 1 /\ registry'[Len(registry) + 1] = id
      /\ \A i \in 1..Len(registry) : registry'[i] = registry[i]
  BY <1>1, <1>3, <1>4, AppendProperties
<1>6. new.host = call[c].bytes /\ new.content = call[c].bytes /\ new.device = Null
  BY DEF Pair
<1> HIDE DEF id, new
<1>7. Keeps(staging, staging')
  BY <1>4 DEF Keeps, Uploaded, id
<1>8. \A d \in Callers :
         IF d = c THEN /\ call'[d].at = "copy" /\ call'[d].entry = id
                       /\ call'[d].bytes = call[c].bytes
                  ELSE call'[d] = call[d]
  BY <1>1, <1>3 DEF Call
<1>9. TypeOK'
  <2>1. call' \in [Callers -> {Idle} \cup Call]
    BY <1>1, <1>3, <1>4 DEF Call
  <2> QED BY <1>0, <1>3, <1>4, <1>5, <2>1 DEF IInv, TypeOK
<1>10. PairsKept'
  BY <1>4, <1>6 DEF IInv, PairsKept, id
<1>11. SlotsNamePairs'
  BY <1>4, <1>5 DEF IInv, SlotsNamePairs, id
<1>12. CallsRight'
  <2> SUFFICES ASSUME NEW d \in Callers
               PROVE  /\ call'[d].at \in {"copy", "launch"} =>
                             /\ call'[d].entry \in 1..Len(staging')
                             /\ staging'[call'[d].entry].content = call'[d].bytes
                      /\ call'[d].at = "launch" /\ ~call'[d].capture =>
                             Covered(staging', stream[call'[d].stream],
                                     Len(stream[call'[d].stream]), call'[d].entry)
    BY <1>0 DEF CallsRight
  <2>1. CASE d = c
    BY <2>1, <1>4, <1>6, <1>8 DEF id
  <2>2. CASE d # c
    <3>1. call'[d] = call[d]
      BY <2>2, <1>8
    <3>2. call[d].at \in {"copy", "launch"} =>
             /\ call[d].entry \in 1..Len(staging)
             /\ staging[call[d].entry].content = call[d].bytes
      BY DEF IInv, CallsRight
    <3>3. call[d].at = "launch" /\ ~call[d].capture =>
             Covered(staging, stream[call[d].stream],
                     Len(stream[call[d].stream]), call[d].entry)
      BY DEF IInv, CallsRight
    <3>4. call[d].at = "launch" /\ ~call[d].capture =>
             Covered(staging', stream[call[d].stream],
                     Len(stream[call[d].stream]), call[d].entry)
      BY <1>7, <3>2, <3>3, CoveredKept
    <3>5. call[d].at \in {"copy", "launch"} =>
             /\ call[d].entry \in 1..Len(staging')
             /\ staging'[call[d].entry].content = call[d].bytes
      BY <1>4, <3>2 DEF id
    <3> QED BY <3>1, <3>4, <3>5
  <2> QED BY <2>1, <2>2
<1>13. StreamsRight' /\ GraphsRight'
  BY <1>0, <1>7, QueueKept, GraphKept DEF IInv, StreamsRight, GraphsRight
<1>14. LockHeld'
  <2>1. \A d \in Callers : d # c => call[d].at \notin {"lookup", "alloc"}
    BY DEF IInv, LockHeld, Allocate, At
  <2> QED BY <1>8, <2>1 DEF LockHeld
<1>15. KernelReadsOwnTiling'
  BY <1>0 DEF IInv, KernelReadsOwnTiling
<1>16. NoDuplicateBytes'
  <2>1. \A i \in 1..Len(registry) :
           /\ staging'[registry'[i]].content = staging[registry[i]].content
           /\ staging[registry[i]].content # call[c].bytes
    BY <1>4, <1>5 DEF IInv, SlotsNamePairs, LockHeld, Allocate, At
  <2>2. staging'[registry'[Len(registry) + 1]].content = call[c].bytes
    BY <1>4, <1>5, <1>6
  <2>3. \A i, j \in 1..Len(registry) :
           staging[registry[i]].content = staging[registry[j]].content => i = j
    BY <1>1 DEF IInv, NoDuplicateBytes
  <2>4. DOMAIN registry' = 1..(Len(registry) + 1)
    BY <1>5
  <2> QED BY <1>5, <2>1, <2>2, <2>3, <2>4 DEF NoDuplicateBytes
<1> QED BY <1>9, <1>10, <1>11, <1>12, <1>13, <1>14, <1>15, <1>16 DEF IInv

LEMMA AllocateFailsRight ==
    ASSUME IInv, NEW c \in Callers, AllocateFails(c)
    PROVE  IInv'
<1> USE DEF AllocateFails
<1>1. \A d \in Callers : IF d = c THEN call'[d].at = "idle" ELSE call'[d] = call[d]
  BY DEF IInv, TypeOK, Idle
<1>2. TypeOK'
  BY DEF IInv, TypeOK
<1>3. CallsRight'
  BY <1>1 DEF IInv, CallsRight
<1>4. LockHeld'
  BY <1>1 DEF IInv, LockHeld, At
<1>5. PairsKept' /\ SlotsNamePairs' /\ StreamsRight' /\ GraphsRight'
  BY DEF IInv, PairsKept, SlotsNamePairs, StreamsRight, GraphsRight
<1>6. KernelReadsOwnTiling' /\ NoDuplicateBytes'
  BY DEF IInv, KernelReadsOwnTiling, NoDuplicateBytes
<1> QED BY <1>2, <1>3, <1>4, <1>5, <1>6 DEF IInv

(* Commands appended to one stream take nothing from what covers a call.   *)
LEMMA CallCoveredStill ==
    ASSUME IInv, NEW s \in Streams, NEW r \in Seq(Command),
           Enqueue(s, r), staging' = staging,
           NEW d \in Callers, call[d].at = "launch", ~call[d].capture
    PROVE  Covered(staging, stream'[call[d].stream],
                   Len(stream'[call[d].stream]), call[d].entry)
<1>1. Covered(staging, stream[call[d].stream],
              Len(stream[call[d].stream]), call[d].entry)
  BY DEF IInv, CallsRight
<1>2. call[d].stream \in Streams /\ stream \in [Streams -> Seq(Command)]
  <2>1. call[d] \in Call
    BY InACall DEF IInv, Idle
  <2> QED BY <2>1 DEF IInv, TypeOK, Call
<1>3. stream' = [stream EXCEPT ![s] = stream[s] \o r]
  BY DEF Enqueue
<1>4. CASE call[d].stream = s
  <2>1. stream'[call[d].stream] = stream[call[d].stream] \o r
    BY <1>2, <1>3, <1>4
  <2>2. stream[call[d].stream] \in Seq(Command)
    BY <1>2
  <2> QED BY <1>1, <2>1, <2>2, CoveredExtended
<1>5. CASE call[d].stream # s
  BY <1>1, <1>2, <1>3, <1>5
<1> QED BY <1>4, <1>5

LEMMA IssueCopyRight ==
    ASSUME IInv, NEW c \in Callers, IssueCopy(c)
    PROVE  IInv'
<1> DEFINE s == call[c].stream
<1>0. UNCHANGED <<mutex, registry, staging, graphs, ran>>
  BY DEF IssueCopy
<1>1. /\ call[c] \in Call /\ call \in [Callers -> {Idle} \cup Call]
      /\ stream \in [Streams -> Seq(Command)]
  BY AtMeansCall DEF IInv, IssueCopy, TypeOK
<1>2. \A d \in Callers : IF d = c THEN call'[d] = [call[c] EXCEPT !.at = "launch"]
                                  ELSE call'[d] = call[d]
  BY <1>1 DEF IssueCopy, Move
<1>3. call' \in [Callers -> {Idle} \cup Call]
  BY <1>1 DEF IssueCopy, Move, Call
<1>4. /\ call[c].entry \in 1..Len(staging)
      /\ staging[call[c].entry].content = call[c].bytes
  BY DEF IInv, CallsRight, IssueCopy, At
<1>5. LockHeld'
  BY <1>0, <1>1, <1>2 DEF IInv, LockHeld, Call
<1>6. PairsKept' /\ SlotsNamePairs' /\ GraphsRight'
  BY <1>0 DEF IInv, PairsKept, SlotsNamePairs, GraphsRight
<1>7. KernelReadsOwnTiling' /\ NoDuplicateBytes'
  BY <1>0 DEF IInv, KernelReadsOwnTiling, NoDuplicateBytes
<1>8. \A d \in Callers : call'[d].at \in {"copy", "launch"} =>
         /\ call'[d].entry \in 1..Len(staging)
         /\ staging[call'[d].entry].content = call'[d].bytes
  BY <1>1, <1>2, <1>4 DEF IInv, CallsRight, Call
<1>9. CASE call[c].capture
  <2>1. stream' = stream
    BY <1>9 DEF IssueCopy
  <2>2. CallsRight'
    BY <1>0, <1>1, <1>2, <1>8, <1>9, <2>1 DEF IInv, CallsRight, Call
  <2>3. StreamsRight' /\ TypeOK'
    BY <1>0, <1>3, <2>1 DEF IInv, StreamsRight, TypeOK
  <2> QED BY <1>5, <1>6, <1>7, <2>2, <2>3 DEF IInv
<1>10. CASE ~call[c].capture
  <2>1. s \in Streams /\ stream[s] \in Seq(Command)
    BY <1>1 DEF Call
  <2>2. Enqueue(s, <<CopyOf(c)>>) /\ stream' = [stream EXCEPT ![s] = stream[s] \o <<CopyOf(c)>>]
    BY <1>10 DEF IssueCopy, Enqueue
  <2>3. /\ CopyOf(c) \in Command /\ CopyOf(c).op = "copy" /\ CopyOf(c).entry = call[c].entry
        /\ <<CopyOf(c)>> \in Seq(Command)
    BY <1>1 DEF CopyOf, Command, Call
  <2>4. Names(staging, CopyOf(c))
    BY <1>4, <2>3 DEF Names
  <2>5. \A t \in Streams : IF t = s THEN stream'[t] = stream[s] \o <<CopyOf(c)>>
                                    ELSE stream'[t] = stream[t]
    BY <1>1, <2>2
  <2>6. stream' \in [Streams -> Seq(Command)]
    BY <1>1, <2>1, <2>2, <2>3, ConcatProperties
  <2>7. TypeOK'
    BY <1>0, <1>3, <2>6 DEF IInv, TypeOK
  <2>8. QueueRight(staging, stream[s] \o <<CopyOf(c)>>)
    BY <2>1, <2>3, <2>4, QueueExtended DEF IInv, StreamsRight
  <2>9. StreamsRight'
    BY <1>0, <2>5, <2>8 DEF IInv, StreamsRight
  <2>10. CallsRight'
    <3> SUFFICES ASSUME NEW d \in Callers, call'[d].at = "launch", ~call'[d].capture
                 PROVE  Covered(staging, stream'[call'[d].stream],
                                Len(stream'[call'[d].stream]), call'[d].entry)
      BY <1>0, <1>8 DEF CallsRight
    <3>1. CASE d = c
      <4>1. call'[d].stream = s /\ call'[d].entry = call[c].entry
        BY <1>1, <1>2, <3>1 DEF Call
      <4>2. Covered(staging, stream'[s], Len(stream'[s]), CopyOf(c).entry)
        BY <2>1, <2>3, <2>5, CopyCovers
      <4> QED BY <2>3, <4>1, <4>2
    <3>2. CASE d # c
      <4>1. call'[d] = call[d]
        BY <1>2, <3>2
      <4> QED BY <1>0, <2>1, <2>2, <2>3, <4>1, CallCoveredStill
    <3> QED BY <3>1, <3>2
  <2> QED BY <1>5, <1>6, <1>7, <2>7, <2>9, <2>10 DEF IInv
<1> QED BY <1>9, <1>10

LEMMA IssueKernelRight ==
    ASSUME IInv, NEW c \in Callers, IssueKernel(c)
    PROVE  IInv'
<1> DEFINE s == call[c].stream
<1>0. UNCHANGED <<mutex, registry, staging, ran>> /\ call' = [call EXCEPT ![c] = Idle]
  BY DEF IssueKernel
<1>1. /\ call[c] \in Call /\ call \in [Callers -> {Idle} \cup Call]
      /\ stream \in [Streams -> Seq(Command)]
  BY AtMeansCall DEF IInv, IssueKernel, TypeOK
<1>2. \A d \in Callers : IF d = c THEN call'[d].at = "idle" ELSE call'[d] = call[d]
  BY <1>0, <1>1 DEF Idle
<1>3. call' \in [Callers -> {Idle} \cup Call]
  BY <1>0, <1>1
<1>4. /\ call[c].entry \in 1..Len(staging)
      /\ staging[call[c].entry].content = call[c].bytes
  BY DEF IInv, CallsRight, IssueKernel, At
<1>5. LockHeld'
  BY <1>0, <1>2 DEF IInv, LockHeld
<1>6. PairsKept' /\ SlotsNamePairs'
  BY <1>0 DEF IInv, PairsKept, SlotsNamePairs
<1>7. KernelReadsOwnTiling' /\ NoDuplicateBytes'
  BY <1>0 DEF IInv, KernelReadsOwnTiling, NoDuplicateBytes
<1>8. /\ CopyOf(c) \in Command /\ CopyOf(c).op = "copy"
      /\ KernelOf(c) \in Command /\ KernelOf(c).op = "kernel"
      /\ CopyOf(c).entry = call[c].entry /\ KernelOf(c).entry = call[c].entry
      /\ KernelOf(c).own = call[c].bytes.tiling
  BY <1>1 DEF CopyOf, KernelOf, Command, Call, Bytes
<1>9. Names(staging, CopyOf(c)) /\ Names(staging, KernelOf(c))
  BY <1>4, <1>8 DEF Names
<1>10. CASE call[c].capture
  <2>1. stream' = stream /\ graphs' = graphs \cup {<<CopyOf(c), KernelOf(c)>>}
    BY <1>10 DEF IssueKernel
  <2>2. GraphRight(staging, <<CopyOf(c), KernelOf(c)>>)
    BY <1>8, <1>9 DEF GraphRight
  <2>3. GraphsRight'
    BY <1>0, <2>1, <2>2 DEF IInv, GraphsRight
  <2>4. TypeOK'
    <3>1. <<CopyOf(c), KernelOf(c)>> \in Seq(Command)
      BY <1>8
    <3> QED BY <1>0, <1>3, <2>1, <3>1 DEF IInv, TypeOK
  <2>5. CallsRight' /\ StreamsRight'
    BY <1>0, <1>2, <2>1 DEF IInv, CallsRight, StreamsRight
  <2> QED BY <1>5, <1>6, <1>7, <2>3, <2>4, <2>5 DEF IInv
<1>11. CASE ~call[c].capture
  <2>1. s \in Streams /\ stream[s] \in Seq(Command)
    BY <1>1 DEF Call
  <2>2. /\ Enqueue(s, <<KernelOf(c)>>) /\ graphs' = graphs
        /\ stream' = [stream EXCEPT ![s] = stream[s] \o <<KernelOf(c)>>]
    BY <1>11 DEF IssueKernel, Enqueue
  <2>3. <<KernelOf(c)>> \in Seq(Command)
    BY <1>8
  <2>4. Covered(staging, stream[s], Len(stream[s]), KernelOf(c).entry)
    BY <1>8, <1>11 DEF IInv, CallsRight, IssueKernel, At
  <2>5. QueueRight(staging, stream[s] \o <<KernelOf(c)>>)
    BY <1>8, <1>9, <2>1, <2>4, QueueExtended DEF IInv, StreamsRight
  <2>6. \A t \in Streams : IF t = s THEN stream'[t] = stream[s] \o <<KernelOf(c)>>
                                    ELSE stream'[t] = stream[t]
    BY <1>1, <2>2
  <2>7. StreamsRight' /\ GraphsRight'
    BY <1>0, <2>2, <2>5, <2>6 DEF IInv, StreamsRight, GraphsRight
  <2>8. stream' \in [Streams -> Seq(Command)]
    BY <1>1, <2>1, <2>2, <2>3, ConcatProperties
  <2>9. TypeOK'
    BY <1>0, <1>3, <2>2, <2>8 DEF IInv, TypeOK
  <2>10. CallsRight'
    <3> SUFFICES ASSUME NEW d \in Callers, call'[d].at \in {"copy", "launch"}
                 PROVE  /\ call'[d].entry \in 1..Len(staging)
                        /\ staging[call'[d].entry].content = call'[d].bytes
                        /\ call'[d].at = "launch" /\ ~call'[d].capture =>
                              Covered(staging, stream'[call'[d].stream],
                                      Len(stream'[call'[d].stream]), call'[d].entry)
      BY <1>0 DEF CallsRight
    <3>1. d # c /\ call'[d] = call[d]
      BY <1>2
    <3>2. call[d].entry \in 1..Len(staging) /\ staging[call[d].entry].content = call[d].bytes
      BY <3>1 DEF IInv, CallsRight
    <3> QED BY <1>0, <2>1, <2>2, <2>3, <3>1, <3>2, CallCoveredStill
  <2> QED BY <1>5, <1>6, <1>7, <2>7, <2>9, <2>10 DEF IInv
<1> QED BY <1>10, <1>11

LEMMA ReplayRight ==
    ASSUME IInv, NEW s \in Streams, Replay(s)
    PROVE  IInv'
<1>0. UNCHANGED <<mutex, registry, staging, call, graphs, ran>>
  BY DEF Replay
<1>1. PICK g \in graphs : Enqueue(s, g)
  BY DEF Replay
<1>2. g \in Seq(Command) /\ stream \in [Streams -> Seq(Command)] /\ stream[s] \in Seq(Command)
  BY DEF IInv, TypeOK
<1>3. stream' = [stream EXCEPT ![s] = stream[s] \o g]
  BY <1>1 DEF Enqueue
<1>4. stream' \in [Streams -> Seq(Command)]
  BY <1>2, <1>3, ConcatProperties
<1>5. TypeOK'
  BY <1>0, <1>4 DEF IInv, TypeOK
<1>6. QueueRight(staging, stream[s] \o g)
  BY <1>2, GraphQueued DEF IInv, StreamsRight, GraphsRight
<1>7. StreamsRight' /\ GraphsRight'
  BY <1>0, <1>2, <1>3, <1>6 DEF IInv, StreamsRight, GraphsRight
<1>8. CallsRight'
  <2>1. \A d \in Callers : call[d].at = "launch" /\ ~call[d].capture =>
           Covered(staging, stream'[call[d].stream],
                   Len(stream'[call[d].stream]), call[d].entry)
    BY <1>0, <1>1, <1>2, CallCoveredStill
  <2> QED BY <1>0, <2>1 DEF IInv, CallsRight
<1>9. PairsKept' /\ SlotsNamePairs' /\ LockHeld'
  BY <1>0 DEF IInv, PairsKept, SlotsNamePairs, LockHeld
<1>10. KernelReadsOwnTiling' /\ NoDuplicateBytes'
  BY <1>0 DEF IInv, KernelReadsOwnTiling, NoDuplicateBytes
<1> QED BY <1>5, <1>7, <1>8, <1>9, <1>10 DEF IInv

(* Executing the head of a stream leaves calls, queues and graphs right,   *)
(* if the pairs keep their uploads and a copy has made its own.            *)
LEMMA AfterExecution ==
    ASSUME IInv, NEW s \in Streams, stream[s] # <<>>,
           Keeps(staging, staging'),
           Head(stream[s]).op = "copy" => Uploaded(staging', Head(stream[s]).entry),
           stream' = [stream EXCEPT ![s] = Tail(stream[s])],
           UNCHANGED <<call, graphs>>
    PROVE  CallsRight' /\ StreamsRight' /\ GraphsRight'
<1> DEFINE q == stream[s]
<1>1. q \in Seq(Command) /\ stream \in [Streams -> Seq(Command)]
  BY DEF IInv, TypeOK
<1>2. /\ Head(q) = q[1] /\ Len(q) \in Nat /\ Len(q) >= 1
      /\ Len(Tail(q)) = Len(q) - 1 /\ Len(Tail(q)) \in 0..(Len(q) - 1)
  BY <1>1, HeadTailProperties, EmptySeq
<1>3. QueueRight(staging, q)
  BY DEF IInv, StreamsRight
<1>4. Names(staging, Head(q))
  BY <1>2, <1>3 DEF QueueRight
<1>5. StreamsRight'
  <2>1. QueueRight(staging', Tail(q))
    BY <1>1, <1>3, QueueAfterHead
  <2>2. \A t \in Streams : t # s => QueueRight(staging', stream[t])
    BY QueueKept DEF IInv, StreamsRight
  <2> QED BY <1>1, <2>1, <2>2 DEF StreamsRight
<1>6. GraphsRight'
  BY GraphKept DEF IInv, GraphsRight
<1>7. CallsRight'
  <2> SUFFICES ASSUME NEW d \in Callers, call[d].at \in {"copy", "launch"}
               PROVE  /\ call[d].entry \in 1..Len(staging')
                      /\ staging'[call[d].entry].content = call[d].bytes
                      /\ call[d].at = "launch" /\ ~call[d].capture =>
                            Covered(staging', stream'[call[d].stream],
                                    Len(stream'[call[d].stream]), call[d].entry)
    BY DEF CallsRight
  <2>1. call[d].entry \in 1..Len(staging) /\ staging[call[d].entry].content = call[d].bytes
    BY DEF IInv, CallsRight
  <2>2. call[d].entry \in 1..Len(staging') /\ staging'[call[d].entry].content = call[d].bytes
    BY <2>1 DEF Keeps
  <2>3. ASSUME call[d].at = "launch", ~call[d].capture
        PROVE  Covered(staging', stream'[call[d].stream],
                       Len(stream'[call[d].stream]), call[d].entry)
    <3>1. Covered(staging, stream[call[d].stream],
                  Len(stream[call[d].stream]), call[d].entry)
      BY <2>3 DEF IInv, CallsRight
    <3>2. CASE call[d].stream = s
      <4>1. stream'[call[d].stream] = Tail(q) /\ Len(Tail(q)) + 1 = Len(q)
        BY <1>1, <1>2, <3>2
      <4>2. Covered(staging, q, Len(Tail(q)) + 1, call[d].entry)
        BY <3>1, <3>2, <4>1
      <4>3. Covered(staging', Tail(q), Len(Tail(q)), call[d].entry)
        BY <1>1, <1>2, <1>4, <2>1, <4>2, CoveredAfterHead
      <4> QED BY <4>1, <4>3
    <3>3. CASE call[d].stream # s
      <4>1. stream'[call[d].stream] = stream[call[d].stream]
        <5>1. call[d].stream \in Streams
          BY InACall DEF IInv, Idle, Call
        <5> QED BY <1>1, <3>3, <5>1
      <4> QED BY <2>1, <3>1, <4>1, CoveredKept
    <3> QED BY <3>2, <3>3
  <2> QED BY <2>2, <2>3
<1> QED BY <1>5, <1>6, <1>7

LEMMA ExecuteRight ==
    ASSUME IInv, NEW s \in Streams, Execute(s)
    PROVE  IInv'
<1> DEFINE q == stream[s]
           e == Head(q).entry
<1>0. UNCHANGED <<mutex, registry, call, graphs>> /\ stream' = [stream EXCEPT ![s] = Tail(q)]
  BY DEF Execute
<1>1. /\ q \in Seq(Command) /\ q # <<>> /\ stream \in [Streams -> Seq(Command)]
      /\ staging \in Seq(StagingPair) /\ call \in [Callers -> {Idle} \cup Call]
  BY DEF IInv, TypeOK, Execute
<1>2. /\ Head(q) \in Command /\ Tail(q) \in Seq(Command) /\ Head(q) = q[1]
      /\ Len(q) \in Nat /\ Len(q) >= 1 /\ Len(Tail(q)) = Len(q) - 1
  BY <1>1, HeadTailProperties, EmptySeq
<1>3. QueueRight(staging, q)
  BY DEF IInv, StreamsRight
<1>4. /\ Names(staging, Head(q)) /\ e \in 1..Len(staging)
      /\ Head(q).op = "kernel" => Covered(staging, q, 0, e)
  <2>1. 1 \in 1..Len(q) /\ 1 - 1 = 0
    BY <1>2
  <2> QED BY <1>2, <1>3, <2>1 DEF QueueRight, Names
<1>5. /\ staging[e] \in StagingPair
      /\ staging[e].host = staging[e].content
      /\ staging[e].device \in {Null, staging[e].content}
      /\ staging[e].content \in Bytes /\ staging[e].content # Null
  <2>1. staging[e] \in StagingPair
    BY <1>1, <1>4
  <2> QED BY <1>4, <2>1, NullAssumption DEF IInv, PairsKept, StagingPair
<1>6. stream' \in [Streams -> Seq(Command)]
  BY <1>0, <1>1, <1>2
<1>7. CASE Head(q).op = "copy"
  <2>1. staging' = [staging EXCEPT ![e].device = staging[e].host] /\ ran' = ran
    BY <1>7 DEF Execute
  <2>2. staging' \in Seq(StagingPair) /\ Len(staging') = Len(staging)
    <3>1. [staging[e] EXCEPT !.device = staging[e].host] \in StagingPair
      BY <1>5 DEF StagingPair
    <3> QED BY <1>1, <1>4, <2>1, <3>1
  <2>3. \A i \in 1..Len(staging) :
           /\ i # e => staging'[i] = staging[i]
           /\ staging'[i].host = staging[i].host /\ staging'[i].content = staging[i].content
    BY <1>1, <1>4, <2>1 DEF StagingPair
  <2>4. staging'[e].device = staging[e].content
    BY <1>1, <1>4, <1>5, <2>1 DEF StagingPair
  <2>5. Keeps(staging, staging') /\ Uploaded(staging', e)
    <3>1. \A i \in 1..Len(staging) : Uploaded(staging, i) => Uploaded(staging', i)
      BY <1>5, <2>3, <2>4 DEF Uploaded
    <3>2. Len(staging) \in Nat
      BY <1>1
    <3> QED BY <1>5, <2>2, <2>3, <2>4, <3>1, <3>2 DEF Keeps, Uploaded
  <2>6. PairsKept'
    BY <1>5, <2>2, <2>3, <2>4 DEF IInv, PairsKept
  <2>7. NoDuplicateBytes' /\ SlotsNamePairs' /\ LockHeld'
    <3>1. \A i \in 1..Len(registry) :
             staging'[registry[i]].content = staging[registry[i]].content
      BY <2>3 DEF IInv, SlotsNamePairs
    <3>2. DOMAIN registry = 1..Len(registry)
      BY DEF IInv, TypeOK
    <3>3. NoDuplicateBytes'
      BY <1>0, <3>1, <3>2 DEF IInv, NoDuplicateBytes
    <3>4. SlotsNamePairs' /\ LockHeld'
      BY <1>0, <2>2, <3>1 DEF IInv, SlotsNamePairs, LockHeld
    <3> QED BY <3>3, <3>4
  <2>8. KernelReadsOwnTiling'
    BY <2>1 DEF IInv, KernelReadsOwnTiling
  <2>9. CallsRight' /\ StreamsRight' /\ GraphsRight'
    BY <1>0, <1>1, <2>5, AfterExecution
  <2>10. TypeOK'
    BY <1>0, <1>6, <2>2 DEF IInv, TypeOK
  <2> QED BY <2>6, <2>7, <2>8, <2>9, <2>10 DEF IInv
<1>8. CASE Head(q).op = "kernel"
  <2>1. staging' = staging
    BY <1>8 DEF Execute
  <2>2. ran' = ran \cup {[own |-> Head(q).own, read |-> staging[e].device]}
    BY <1>8 DEF Execute
  <2>3. Head(q).own = staging[e].content.tiling /\ staging[e].device = staging[e].content
    BY <1>4, <1>5, <1>8 DEF Names, Covered, Uploaded
  <2>4. KernelReadsOwnTiling'
    BY <1>5, <2>2, <2>3 DEF IInv, KernelReadsOwnTiling
  <2>5. Keeps(staging, staging')
    <3>1. Len(staging) \in Nat
      BY <1>1
    <3> QED BY <2>1, <3>1 DEF Keeps
  <2>6. CallsRight' /\ StreamsRight' /\ GraphsRight'
    BY <1>0, <1>1, <1>8, <2>5, AfterExecution
  <2>7. PairsKept' /\ SlotsNamePairs' /\ LockHeld' /\ NoDuplicateBytes'
    BY <1>0, <2>1 DEF IInv, PairsKept, SlotsNamePairs, LockHeld, NoDuplicateBytes
  <2>8. TypeOK'
    BY <1>0, <1>6, <2>1 DEF IInv, TypeOK
  <2> QED BY <2>4, <2>6, <2>7, <2>8 DEF IInv
<1> QED BY <1>2, <1>7, <1>8 DEF Command

-----------------------------------------------------------------------------

(* The invariant is preserved by every step, of the callers, of the        *)
(* application that replays graphs and of the device.                      *)
LEMMA StepRight == IInv /\ [Next]_vars => IInv'
<1> SUFFICES ASSUME IInv, [Next]_vars PROVE IInv'
  OBVIOUS
<1>1. ASSUME NEW c \in Callers, Begin(c) \/ CallStep(c) PROVE IInv'
  BY <1>1, BeginRight, LockRight, LookupRight, AllocateRight, AllocateFailsRight,
     IssueCopyRight, IssueKernelRight DEF CallStep
<1>2. ASSUME NEW s \in Streams, Replay(s) \/ Execute(s) PROVE IInv'
  BY <1>2, ReplayRight, ExecuteRight
<1>3. CASE UNCHANGED vars
  <2>1. TypeOK' /\ PairsKept' /\ SlotsNamePairs' /\ CallsRight' /\ StreamsRight'
    BY <1>3 DEF IInv, vars, TypeOK, PairsKept, SlotsNamePairs, CallsRight, StreamsRight
  <2>2. GraphsRight' /\ LockHeld' /\ KernelReadsOwnTiling' /\ NoDuplicateBytes'
    BY <1>3 DEF IInv, vars, GraphsRight, LockHeld, KernelReadsOwnTiling, NoDuplicateBytes
  <2> QED BY <2>1, <2>2 DEF IInv
<1> QED BY <1>1, <1>2, <1>3 DEF Next, Resting

(* Whatever the threads, captures and replays, the inductive invariant     *)
(* holds: pairs keep the bytes they were made for, and every call, queue   *)
(* and graph names a pair of its own tiling (op_host 138-175, 305-328).    *)
THEOREM Invariance == Spec => []IInv
<1>1. Init => IInv
  BY InitRight
<1>2. IInv /\ [Next]_vars => IInv'
  BY StepRight
<1> QED BY <1>1, <1>2, PTL DEF Spec

(* A kernel, eager or replayed, reads the tiling its own call computed     *)
(* (op_host 305-328).                                                      *)
THEOREM OwnTiling == Spec => []KernelReadsOwnTiling
<1>1. IInv => KernelReadsOwnTiling
  BY DEF IInv
<1> QED BY <1>1, Invariance, PTL

(* No two slots hold the same bytes, however calls race (op_host 145-171). *)
THEOREM BytesUnique == Spec => []NoDuplicateBytes
<1>1. IInv => NoDuplicateBytes
  BY DEF IInv
<1> QED BY <1>1, Invariance, PTL

-----------------------------------------------------------------------------
(* The critical section is never stuck.                                    *)

(* The guards of the steps inside the operator.                            *)
CanGoOn(c) ==
    \/ At(c, "lock") /\ mutex = Nobody
    \/ /\ At(c, "lookup")
       /\ Hits(c) = {} \/ \E first \in Hits(c) : \A i \in Hits(c) : first <= i
    \/ call[c].at \in {"alloc", "copy", "launch"}

(* Who holds mu is between the lookup and the end of the block.            *)
HolderInside == mutex # Nobody => call[mutex].at \in {"lookup", "alloc"}
HolderGoesOn == mutex # Nobody => HolderInside /\ CanGoOn(mutex)
NobodyBlocked ==
    \A c \in Callers : call[c] # Idle => CanGoOn(c) \/ (mutex \in Callers /\ CanGoOn(mutex))

(* There is a first hit.                                                   *)
LEMMA FirstHit ==
    ASSUME IInv, NEW c, Hits(c) # {}
    PROVE  \E first \in Hits(c) : \A i \in Hits(c) : first <= i
<1>1. Hits(c) \subseteq Nat
  BY DEF Hits, IInv, TypeOK
<1>2. PICK n \in Hits(c) : TRUE
  OBVIOUS
<1> QED BY <1>1, <1>2, LeastNumber

(* Only the holder is inside, so only the holder leaves, and it gives mu   *)
(* back when it does.                                                      *)
LEMMA HolderStays ==
    ASSUME IInv, HolderInside, [Next]_vars
    PROVE  HolderInside'
<1>1. /\ mutex \in Callers \cup {Nobody} /\ call \in [Callers -> {Idle} \cup Call]
      /\ Nobody \notin Callers
  BY StagingAssumption DEF IInv, TypeOK
<1>2. ASSUME NEW c \in Callers, Begin(c) PROVE HolderInside'
  <2>1. mutex' = mutex /\ call[c] = Idle /\ \A d \in Callers : d # c => call'[d] = call[d]
    BY <1>1, <1>2 DEF Begin
  <2>2. mutex # c
    <3>1. call[c].at = "idle"
      BY <2>1 DEF Idle
    <3> QED BY <1>1, <3>1 DEF HolderInside
  <2> QED BY <1>1, <2>1, <2>2 DEF HolderInside
<1>3. ASSUME NEW c \in Callers, Lock(c) PROVE HolderInside'
  <2>1. mutex' = c /\ call'[c].at = "lookup"
    <3>1. call[c] \in Call
      BY <1>1, <1>3 DEF Lock, At, Idle
    <3> QED BY <1>1, <1>3, <3>1 DEF Lock, Move, Call
  <2> QED BY <2>1 DEF HolderInside
<1>4. ASSUME NEW c \in Callers, Lookup(c) PROVE HolderInside'
  <2>1. CASE Move(c, "alloc") /\ mutex' = mutex
    <3>1. call[c] \in Call
      BY <1>1, <1>4 DEF Lookup, At, Idle
    <3>2. call'[c].at = "alloc" /\ \A d \in Callers : d # c => call'[d] = call[d]
      BY <1>1, <2>1, <3>1 DEF Move, Call
    <3> QED BY <1>1, <2>1, <3>2 DEF HolderInside
  <2>2. CASE mutex' = Nobody
    BY <2>2 DEF HolderInside
  <2> QED BY <1>4, <2>1, <2>2 DEF Lookup
<1>5. ASSUME NEW c \in Callers, Allocate(c) \/ AllocateFails(c) PROVE HolderInside'
  BY <1>5 DEF Allocate, AllocateFails, HolderInside
<1>6. ASSUME NEW c \in Callers, IssueCopy(c) \/ IssueKernel(c) PROVE HolderInside'
  <2>1. mutex' = mutex /\ call[c].at \in {"copy", "launch"}
        /\ \A d \in Callers : d # c => call'[d] = call[d]
    BY <1>1, <1>6 DEF IssueCopy, IssueKernel, At, Move
  <2>2. mutex # c
    BY <1>1, <2>1 DEF HolderInside
  <2> QED BY <1>1, <2>1, <2>2 DEF HolderInside
<1>7. ASSUME NEW s \in Streams, Replay(s) \/ Execute(s) PROVE HolderInside'
  BY <1>7 DEF Replay, Execute, HolderInside
<1>8. CASE UNCHANGED vars
  BY <1>8 DEF vars, HolderInside
<1> QED BY <1>2, <1>3, <1>4, <1>5, <1>6, <1>7, <1>8 DEF Next, CallStep, Resting

(* The holder of mu never waits: the safety half of MutexIsReleased; and a *)
(* thread inside the operator waits for nobody but the holder (op_host     *)
(* 145-171).                                                               *)
THEOREM HolderNeverStuck == Spec => [](HolderGoesOn /\ NobodyBlocked)
<1>1. Init => HolderInside
  BY DEF Init, HolderInside
<1>2. IInv /\ HolderInside => HolderGoesOn
  <2> SUFFICES ASSUME IInv, HolderInside, mutex # Nobody PROVE CanGoOn(mutex)
    BY DEF HolderGoesOn
  <2>1. call[mutex].at \in {"lookup", "alloc"}
    BY DEF HolderInside
  <2> QED BY <2>1, FirstHit DEF CanGoOn, At
<1>3. IInv /\ HolderGoesOn => NobodyBlocked
  <2> SUFFICES ASSUME IInv, HolderGoesOn, NEW c \in Callers, call[c] # Idle
               PROVE  CanGoOn(c) \/ (mutex \in Callers /\ CanGoOn(mutex))
    BY DEF NobodyBlocked
  <2>1. mutex \in Callers \cup {Nobody} /\ call[c] \in Call
    BY DEF IInv, TypeOK
  <2>2. call[c].at \in {"lock", "lookup", "alloc", "copy", "launch"}
    BY <2>1 DEF Call
  <2>3. CASE mutex = Nobody
    BY <2>2, <2>3, FirstHit DEF CanGoOn, At
  <2>4. CASE mutex # Nobody
    BY <2>1, <2>4 DEF HolderGoesOn
  <2> QED BY <2>3, <2>4
<1> QED BY <1>1, <1>2, <1>3, HolderStays, Invariance, PTL DEF Spec

=============================================================================
