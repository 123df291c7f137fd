------------------------------- MODULE KvStacks -------------------------------
(***************************************************************************)
(* The KV stacks one core of fa_fp32_stage1 works through, and the order   *)
(* in which it takes them.                                                 *)
(*                                                                         *)
(* A core runs its tasks one after the other; a task cuts its KV sequence  *)
(* into stacks of four 128-row pages.  Number the stacks of all the tasks  *)
(* of the core 0, 1, 2, ...; First[g] is the first stack of g's task.       *)
(*                                                                         *)
(* Every stack goes through two stages: stage 1 is Q*K^T on the cube core  *)
(* and the online softmax on the vector core, stage 2 is P*V on the cube   *)
(* core and the rescale of O on the vector core.  Both kernels run stage 2 *)
(* `preLaunch' stacks behind stage 1 inside a task and drain the rest      *)
(* before the next task.  Each kernel spells that order out in two nested  *)
(* loops; FaiTaskLoop shows the loops produce the order defined here.      *)
(***************************************************************************)
EXTENDS Integers

CONSTANTS NumStacks,  (* stacks of all the tasks of the core               *)
          First       (* First[g]: first stack of the task stack g is in    *)

Stacks == 0..NumStacks-1

ASSUME StackAssumption ==
    /\ NumStacks \in Nat
    /\ First \in [Stacks -> Stacks]
    /\ \A g \in Stacks : First[g] <= g /\ \A h \in First[g]..g : First[h] = First[g]

(* preLaunch: how far stage 1 runs ahead; the workspace has one slot more. *)
PreLaunch == 2
Slots == PreLaunch + 1

SlotOfTwo(g) == (g - First[g]) % PreLaunch   (* mutant: a slot short     *)

(* The workspace slot of a stack: its rank inside its task, modulo the     *)
(* number of slots.                                                        *)
Slot(g) == (g - First[g]) % Slots

(* Last stack of its task.                                                 *)
IsLast(g) == g + 1 = NumStacks \/ First[g+1] = g + 1

(* Stacks are handed out in order, so whoever walks them is two counters:  *)
(* how many stacks have had stage 1 and how many have had stage 2.         *)
Walker == [one : 0..NumStacks, two : 0..NumStacks]
Start == [one |-> 0, two |-> 0]

(* Mutants: the next task starts while this one is being drained; stage 1  *)
(* runs one stack further ahead than there are slots.                      *)
Stage1DueUndrained(w) == w.one < NumStacks /\ w.one - w.two <= PreLaunch
Stage1DueTooFar(w) ==
    /\ w.one < NumStacks
    /\ First[w.one] <= w.two
    /\ w.one - w.two <= PreLaunch + 1

(* Stage 1 of stack w.one comes next: all the earlier tasks are drained    *)
(* and at most preLaunch stacks of this task wait for their stage 2.       *)
Stage1Due(w) ==
    /\ w.one < NumStacks
    /\ First[w.one] <= w.two
    /\ w.one - w.two <= PreLaunch

(* Otherwise it is stage 2 of the oldest stack that had stage 1 only.      *)
Stage2Due(w) ==
    /\ w.two < w.one
    /\ ~Stage1Due(w)

Finished(w) == w.two = NumStacks
=============================================================================
