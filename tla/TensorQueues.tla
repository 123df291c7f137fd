----------------------------- MODULE TensorQueues -----------------------------
(***************************************************************************)
(* Queues of tensors, by which the pipes of a vector core meet where a     *)
(* kernel does not handle events itself: TQue of AscendC, as the kernels   *)
(* use it.  A queue owns Depth[q] tensors and hands them out in turn.      *)
(* AllocTensor makes the writing pipe wait until FreeTensor of the last    *)
(* user, EnQue and DeQue make the reading pipe wait for the writer; each   *)
(* of them is an event, and none stops the scalar unit.                    *)
(*                                                                         *)
(* A barrier stops the scalar unit until pipes have run dry.               *)
(***************************************************************************)
EXTENDS HardwarePipes

CONSTANT Depth     (* Depth[q]: number of tensors of queue q               *)

Tensor(q, i) == <<q, i>>
Free(q, i) == <<"Free", q, i>>
Ready(q, i) == <<"Ready", q, i>>

OfTensors(Of(_, _)) == UNION {{Of(q, i) : i \in 0..Depth[q] - 1} : q \in DOMAIN Depth}
QueueBuffers == OfTensors(Tensor)
QueueEvents == OfTensors(Free) \cup OfTensors(Ready)

(* The tensor that AllocTensor number n gives, counting from 0.            *)
Turn(q, n) == n % Depth[q]

(* DataCopy from global memory into a tensor, and from it: MTE2 and MTE3.  *)
CopyIn(q, i, data) ==
    << Instruction({Free(q, i)}, {}, {<<Tensor(q, i), data>>}, {Ready(q, i)}) >>
CopyOut(q, i, data) ==
    << Instruction({Ready(q, i)}, {<<Tensor(q, i), data>>}, {}, {Free(q, i)}) >>

NoneInUse == \A e \in QueueEvents : events[e] = IF e[1] = "Free" THEN 1 ELSE 0

Barrier(pipes) == \A p \in pipes : queue[p] = <<>>
=============================================================================
