---------------------------- MODULE TilingStaging ----------------------------
(***************************************************************************)
(* How fa_fp32_stage1 hands its tiling to the kernel (op_host).  A call    *)
(* fills an FATilingData on the stack, looks for a staging pair - a pinned *)
(* host buffer and a device buffer - that already holds these bytes, makes *)
(* one if there is none, and enqueues on its stream a host-to-device copy  *)
(* of the pair and the kernel, which reads the device buffer.  Pairs live  *)
(* as long as the process and calls share them.  A call made while its     *)
(* stream is being captured records the copy and the kernel in a graph,    *)
(* which may be replayed at any later time, any number of times.           *)
(*                                                                         *)
(* The registry is one device's (devices share the mutex and nothing       *)
(* else).  A stream executes its commands in order; streams run at their   *)
(* own pace, and several threads may share one.  Device memory allocation  *)
(* may fail.  A tiling is one value; the bytes compared are that value and *)
(* the padding, which nobody initialises.                                  *)
(***************************************************************************)
EXTENDS Integers, Sequences, SequencesExt

CONSTANTS Callers,      (* threads that call the operator                  *)
          Streams,
          Tilings,      (* values of the fields of FATilingData            *)
          Garbage,      (* what padding bytes of a stack variable may hold *)
          Nobody, Null,
          MaxCalls, MaxReplays, MaxFailures     (* bounds of the model     *)

ASSUME StagingAssumption ==
    /\ Nobody \notin Callers /\ Garbage # {}
    /\ {MaxCalls, MaxReplays, MaxFailures} \subseteq Nat

(* FATilingData: eleven uint32_t, five uint64_t, a float, each aligned to  *)
(* its width and the whole to eight bytes.                                 *)
FieldWidths == [i \in 1..11 |-> 4] \o [i \in 1..5 |-> 8] \o <<4>>

Aligned(n, w) == ((n + w - 1) \div w) * w
SizeOf == Aligned(FoldLeft(LAMBDA end, w : Aligned(end, w) + w, 0, FieldWidths), 8)
PaddingBytes == SizeOf - FoldLeft(LAMBDA sum, w : sum + w, 0, FieldWidths)

(* What memcmp over sizeof(FATilingData) sees of a tiling.                 *)
Bytes == [tiling : Tilings, padding : IF PaddingBytes > 0 THEN Garbage ELSE {Null}]

ASSUME NullAssumption == Null \notin Tilings /\ Null \notin Bytes

VARIABLES
    mutex,      (* who holds mu                                            *)
    registry,   (* slots of the device: sequence of staging ids            *)
    staging,    (* staging pairs ever allocated: host, content, device     *)
    call,       (* per caller: where it is and with what                   *)
    stream,     (* per stream: commands enqueued and not executed          *)
    graphs,     (* captured graphs                                         *)
    ran,        (* kernels executed: the tiling meant, the tiling read     *)
    calls, replays, failures    (* counted for the bounds                  *)

counters == <<calls, replays, failures>>
vars == <<mutex, registry, staging, call, stream, graphs, ran, counters>>

Idle == [at |-> "idle"]
Pair(host, device) == [host |-> host, content |-> host, device |-> device]

Init ==
    /\ mutex = Nobody
    /\ registry = <<>>
    /\ staging = <<>>
    /\ call = [c \in Callers |-> Idle]
    /\ stream = [s \in Streams |-> <<>>]
    /\ graphs = {}
    /\ ran = {}
    /\ calls = 0 /\ replays = 0 /\ failures = 0

-----------------------------------------------------------------------------
(* The caller.  It holds mu from the lookup to the end of the block.       *)

Begin(c) ==
    /\ call[c] = Idle
    /\ calls < MaxCalls
    /\ \E b \in Bytes, s \in Streams, capture \in BOOLEAN :
          call' = [call EXCEPT ![c] = [at |-> "lock", bytes |-> b, stream |-> s,
                                       capture |-> capture, entry |-> 0]]
    /\ calls' = calls + 1
    /\ UNCHANGED <<mutex, registry, staging, stream, graphs, ran, replays, failures>>

At(c, place) == call[c].at = place
Move(c, place) == call' = [call EXCEPT ![c].at = place]

LockFreely(c) ==                        (* mutant: no mutex                *)
    /\ At(c, "lock")
    /\ mutex' = c
    /\ Move(c, "lookup")
    /\ UNCHANGED <<registry, staging, stream, graphs, ran, counters>>

Lock(c) ==
    /\ At(c, "lock")
    /\ mutex = Nobody
    /\ mutex' = c
    /\ Move(c, "lookup")
    /\ UNCHANGED <<registry, staging, stream, graphs, ran, counters>>

LookupShared(c) ==                      (* mutant: one pair, rewritten     *)
    /\ At(c, "lookup")
    /\ IF registry = <<>>
       THEN Move(c, "alloc") /\ UNCHANGED <<mutex, staging>>
       ELSE /\ call' = [call EXCEPT ![c].at = "copy", ![c].entry = registry[1]]
            /\ staging' = [staging EXCEPT ![registry[1]].host = call[c].bytes]
            /\ mutex' = Nobody
    /\ UNCHANGED <<registry, stream, graphs, ran, counters>>

(* The first slot whose content compares equal.                            *)
Hits(c) == {i \in DOMAIN registry : staging[registry[i]].content = call[c].bytes}

Lookup(c) ==
    /\ At(c, "lookup")
    /\ \/ /\ Hits(c) = {}
          /\ Move(c, "alloc")
          /\ UNCHANGED mutex
       \/ \E first \in Hits(c) :
             /\ \A i \in Hits(c) : first <= i
             /\ call' = [call EXCEPT ![c].at = "copy", ![c].entry = registry[first]]
             /\ mutex' = Nobody
    /\ UNCHANGED <<registry, staging, stream, graphs, ran, counters>>

(* A miss: pinned host buffer and device buffer, the bytes into the host   *)
(* buffer and content, and the pair joins the slots.                       *)
Allocate(c) ==
    LET id == Len(staging) + 1
    IN  /\ At(c, "alloc")
        /\ staging' = Append(staging, Pair(call[c].bytes, Null))
        /\ registry' = Append(registry, id)
        /\ call' = [call EXCEPT ![c].at = "copy", ![c].entry = id]
        /\ mutex' = Nobody
        /\ UNCHANGED <<stream, graphs, ran, counters>>

AllocateFailsLocked(c) ==               (* mutant: the throw keeps mu      *)
    /\ At(c, "alloc")
    /\ failures < MaxFailures
    /\ failures' = failures + 1
    /\ call' = [call EXCEPT ![c] = Idle]
    /\ UNCHANGED <<mutex, registry, staging, stream, graphs, ran, calls, replays>>

(* aclrtMalloc fails: TORCH_CHECK throws out of the block, the pair and    *)
(* its pinned buffer are lost, the slots are as before.                    *)
AllocateFails(c) ==
    /\ At(c, "alloc")
    /\ failures < MaxFailures
    /\ failures' = failures + 1
    /\ call' = [call EXCEPT ![c] = Idle]
    /\ mutex' = Nobody
    /\ UNCHANGED <<registry, staging, stream, graphs, ran, calls, replays>>

(* copy_(..., non_blocking) and the launch go to the stream, one after the *)
(* other; under capture both become nodes of a graph.                      *)
CopyOf(c) == [op |-> "copy", entry |-> call[c].entry, own |-> Null]
KernelOf(c) == [op |-> "kernel", entry |-> call[c].entry, own |-> call[c].bytes.tiling]
Enqueue(s, commands) == stream' = [stream EXCEPT ![s] = @ \o commands]

IssueCopy(c) ==
    /\ At(c, "copy")
    /\ IF call[c].capture THEN UNCHANGED stream
                          ELSE Enqueue(call[c].stream, <<CopyOf(c)>>)
    /\ Move(c, "launch")
    /\ UNCHANGED <<mutex, registry, staging, graphs, ran, counters>>

IssueKernel(c) ==
    /\ At(c, "launch")
    /\ IF call[c].capture
       THEN /\ graphs' = graphs \cup {<<CopyOf(c), KernelOf(c)>>}
            /\ UNCHANGED stream
       ELSE Enqueue(call[c].stream, <<KernelOf(c)>>) /\ UNCHANGED graphs
    /\ call' = [call EXCEPT ![c] = Idle]
    /\ UNCHANGED <<mutex, registry, staging, ran, counters>>

-----------------------------------------------------------------------------
(* The application replays a graph; the device executes its streams.       *)

Replay(s) ==
    /\ replays < MaxReplays
    /\ \E g \in graphs : Enqueue(s, g)
    /\ replays' = replays + 1
    /\ UNCHANGED <<mutex, registry, staging, call, graphs, ran, calls, failures>>

Execute(s) ==
    LET command == Head(stream[s])
        pair == staging[command.entry]
    IN  /\ stream[s] # <<>>
        /\ stream' = [stream EXCEPT ![s] = Tail(@)]
        /\ IF command.op = "copy"
           THEN /\ staging' = [staging EXCEPT ![command.entry].device = pair.host]
                /\ UNCHANGED ran
           ELSE /\ ran' = ran \cup {[own |-> command.own, read |-> pair.device]}
                /\ UNCHANGED staging
        /\ UNCHANGED <<mutex, registry, call, graphs, counters>>

-----------------------------------------------------------------------------
CallStep(c) ==
    \/ Lock(c) \/ Lookup(c) \/ Allocate(c) \/ AllocateFails(c)
    \/ IssueCopy(c) \/ IssueKernel(c)

(* Nobody has to call or to replay.                                        *)
Quiet ==
    /\ \A c \in Callers : call[c] = Idle
    /\ \A s \in Streams : stream[s] = <<>>
Resting == Quiet /\ UNCHANGED vars

Next ==
    \/ \E c \in Callers : Begin(c) \/ CallStep(c)
    \/ \E s \in Streams : Replay(s) \/ Execute(s)
    \/ Resting

Spec == Init /\ [][Next]_vars

(* A thread inside the operator goes on; a device executes its streams.    *)
FairSpec ==
    /\ Spec
    /\ \A c \in Callers : WF_vars(CallStep(c))
    /\ \A s \in Streams : WF_vars(Execute(s))

-----------------------------------------------------------------------------

(* A kernel reads the tiling of its own call, whatever other calls,        *)
(* captures and replays did in between, on this stream or another          *)
(* (fa_fp32_stage1.cpp op_host 121-129, 305-320).                          *)
KernelReadsOwnTiling ==
    \A k \in ran : k.read # Null /\ k.read.tiling = k.own

(* Two calls that race for the same bytes end up with one pair: lookup and *)
(* registration are one critical section (op_host 145-171).                *)
NoDuplicateBytes ==
    \A i, j \in DOMAIN registry :
        staging[registry[i]].content = staging[registry[j]].content => i = j

(* Whoever enters the critical section leaves it, also when the allocation *)
(* throws, so one failed call does not block the next (op_host 145-170).   *)
MutexIsReleased == (mutex # Nobody) ~> (mutex = Nobody)

(* What the source says of the registry: "equal contents never duplicate"  *)
(* (op_host 73-76), so a shape has one staging pair however often it is    *)
(* called.                                                                 *)
EqualTilingsShareStaging ==
    \A i, j \in DOMAIN registry :
        staging[registry[i]].content.tiling = staging[registry[j]].content.tiling
            => i = j
=============================================================================
