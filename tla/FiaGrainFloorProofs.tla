------------------------- MODULE FiaGrainFloorProofs -------------------------
(***************************************************************************)
(* Proofs about FiaGrainFloor, and so about the task loops (FaiTaskLoop),  *)
(* for all KV lengths and all depths.                                      *)
(*                                                                         *)
(* The kernels keep kvSIdx, stackSeqCount and the place in the loops       *)
(* apart. The inductive invariant ties them together: with c =             *)
(* stackSeqCount in task t, kvSIdx is c times the depth, and the calls     *)
(* made of each stage are the stacks of the tasks before t plus c or a     *)
(* little less (PlaceIn). Then a call is about stack c, or c - 2, of its   *)
(* task, and what it is given follows from c alone (About). The pipes and  *)
(* the flags play no part: without them a kernel could go on sooner, never *)
(* elsewhere.                                                              *)
(***************************************************************************)
EXTENDS FiaGrainFloor, IntegerLemmas

(* The depth is positive for every value of the environment variable,      *)
(* since 0 stands for the default.                                         *)
LEMMA LaunchFacts ==
    ASSUME NEW l \in Launches
    PROVE  l.kv \in Seq(Nat) /\ depth(l) \in Nat \ {0}
  BY LaunchesAssumption DEF depth, B1_GRAIN_STACK_NUM

-----------------------------------------------------------------------------
(* The arithmetic of the schedule.  pages: of the KV length of a task; a   *)
(* count of stacks times the depth is below it as long as there are stacks *)
(* left, although the two are rounded up one after the other.              *)
Stacks(l, t) == Loops(l)!StacksOf(t)
Before(l, t) == Loops(l)!StacksBefore(t)
Total(l) == Loops(l)!TotalStacks
Pages(l, t) == (l.kv[t] + 128 - 1) \div 128

(* A task has as many stacks as the loops step by the depth below its      *)
(* pages, although both are rounded up from the KV length on their own.    *)
LEMMA StacksFacts ==
    ASSUME NEW l \in Launches, NEW t \in 1..Len(l.kv)
    PROVE  /\ Stacks(l, t) \in Nat /\ Pages(l, t) \in Nat
           /\ \A c \in Int : c * depth(l) < Pages(l, t) <=> c < Stacks(l, t)
<1> DEFINE kv == l.kv[t]  N == depth(l)
<1>1. kv \in Nat /\ N \in Nat \ {0} /\ N * 128 \in Nat \ {0}
  BY LaunchFacts
<1>2. Stacks(l, t) = (kv + N * 128 - 1) \div (N * 128)
  BY DEF Stacks, Loops!StacksOf, Loops!CeilDiv, Loops!pagedBlockSize
<1>3. Pages(l, t) = (kv + 128 - 1) \div 128
  BY <1>1 DEF Pages
<1> HIDE DEF kv, N
<1>4. Stacks(l, t) \in Nat /\ Pages(l, t) \in Nat
  BY <1>1, <1>2, <1>3
<1>5. ASSUME NEW c \in Int PROVE c * N < Pages(l, t) <=> c < Stacks(l, t)
  <2>1. c * (N * 128) < kv <=> c < Stacks(l, t)
    BY <1>1, <1>2, StepsBelow
  <2>2. (c * N) * 128 < kv <=> c * N < Pages(l, t)
    BY <1>1, <1>3, StepsBelow
  <2>3. (c * N) * 128 = c * (N * 128)
    BY <1>1
  <2> QED BY <2>1, <2>2, <2>3
<1> QED BY <1>4, <1>5 DEF N

(* RunningTotal in FaiTaskLoop is the RunningTotal of the lemmas.          *)
LEMMA SameTotals ==
    ASSUME NEW l \in Launches
    PROVE  \A s : Loops(l)!RunningTotal(s) = RunningTotal(s)
  BY DEF Loops!RunningTotal, RunningTotal

(* StacksBefore is a running total: it starts at 0, grows by the stacks of *)
(* each task and ends at the total.                                        *)
LEMMA BeforeFacts ==
    ASSUME NEW l \in Launches
    PROVE  /\ Loops(l)!AllStacks \in Seq(Nat) /\ Len(Loops(l)!AllStacks) = Len(l.kv)
           /\ Len(l.kv) \in Nat
           /\ Total(l) = Before(l, Len(l.kv) + 1)
           /\ Before(l, 1) = 0
           /\ \A t \in 1..(Len(l.kv) + 1) : /\ Before(l, t) \in Nat
                                             /\ Before(l, t) <= Total(l)
           /\ \A t \in 1..Len(l.kv) : Before(l, t + 1) = Before(l, t) + Stacks(l, t)
<1> DEFINE s == Loops(l)!AllStacks
<1>1. Len(l.kv) \in Nat
  BY LaunchFacts
<1>2. s = [t \in 1..Len(l.kv) |-> Stacks(l, t)]
  BY DEF Loops!AllStacks, Loops!NumTasks, Stacks
<1>3. s \in Seq(Nat) /\ Len(s) = Len(l.kv)
  BY <1>1, <1>2, StacksFacts
<1>4. \A t : Before(l, t) = RunningTotal(s)[t - 1]
  BY SameTotals DEF Before, Loops!StacksBefore
<1>5. Total(l) = Before(l, Len(l.kv) + 1)
  BY DEF Total, Before, Loops!TotalStacks, Loops!NumTasks
<1>6. Total(l) = RunningTotal(s)[Len(s)]
  BY <1>1, <1>3, <1>4, <1>5
<1>7. /\ RunningTotal(s) \in [0..Len(s) -> Nat] /\ RunningTotal(s)[0] = 0
      /\ \A i \in 1..Len(s) : RunningTotal(s)[i] = RunningTotal(s)[i - 1] + s[i]
  BY <1>3, RunningTotalFacts
<1> HIDE DEF s
<1>8. ASSUME NEW t \in 1..(Len(l.kv) + 1)
      PROVE  Before(l, t) \in Nat /\ Before(l, t) <= Total(l)
  <2>1. t - 1 \in 0..Len(s) /\ Len(s) \in (t - 1)..Len(s)
    BY <1>1, <1>3
  <2> QED BY <1>3, <1>4, <1>6, <1>7, <2>1, RunningTotalMonotone
<1>9. ASSUME NEW t \in 1..Len(l.kv)
      PROVE  Before(l, t + 1) = Before(l, t) + Stacks(l, t)
  <2>1. RunningTotal(s)[t] = RunningTotal(s)[t - 1] + s[t]
    BY <1>3, <1>7
  <2>2. Before(l, t + 1) = RunningTotal(s)[t]
    BY <1>1, <1>4
  <2> QED BY <1>2, <1>4, <2>1, <2>2
<1>10. Before(l, 1) = 0
  BY <1>4, <1>7
<1> QED BY <1>1, <1>3, <1>5, <1>8, <1>9, <1>10 DEF s

(* The types of what the proofs below use of a task.                       *)
LEMMA TaskFacts ==
    ASSUME NEW l \in Launches, NEW t \in 1..Len(l.kv)
    PROVE  /\ depth(l) \in Nat \ {0} /\ l.kv[t] \in Nat /\ Len(l.kv) \in Nat
           /\ t \in Nat /\ t \in 1..(Len(l.kv) + 1)
           /\ Stacks(l, t) \in Nat /\ Pages(l, t) \in Nat /\ Before(l, t) \in Nat
<1>1. l.kv \in Seq(Nat) /\ depth(l) \in Nat \ {0}
  BY LaunchFacts
<1>2. l.kv[t] \in Nat /\ Len(l.kv) \in Nat
  BY <1>1
<1>3. t \in Nat /\ t \in 1..(Len(l.kv) + 1)
  BY <1>2
<1>4. Stacks(l, t) \in Nat /\ Pages(l, t) \in Nat
  BY StacksFacts
<1>5. Before(l, t) \in Nat
  BY <1>3, BeforeFacts
<1> QED BY <1>1, <1>2, <1>3, <1>4, <1>5

(* StacksBefore does not fall.                                             *)
LEMMA BeforeMonotone ==
    ASSUME NEW l \in Launches, NEW i \in 1..(Len(l.kv) + 1), NEW j \in i..(Len(l.kv) + 1)
    PROVE  Before(l, i) <= Before(l, j)
<1> DEFINE s == Loops(l)!AllStacks
<1>1. s \in Seq(Nat) /\ Len(s) = Len(l.kv) /\ Len(s) \in Nat
  BY BeforeFacts
<1>2. \A u : Before(l, u) = RunningTotal(s)[u - 1]
  BY SameTotals DEF Before, Loops!StacksBefore
<1> HIDE DEF s
<1>3. i - 1 \in 0..Len(s) /\ j - 1 \in (i - 1)..Len(s)
  BY <1>1
<1> QED BY <1>1, <1>2, <1>3, RunningTotalMonotone

(* A stack in the interval of task t is of that task.                      *)
LEMMA TaskOfStack ==
    ASSUME NEW l \in Launches, NEW t \in 1..Len(l.kv), NEW g \in Nat,
           Before(l, t) <= g, g < Before(l, t + 1)
    PROVE  /\ Loops(l)!TaskOf(g) = t
           /\ g \in 0..(Total(l) - 1)
           /\ Loops(l)!FirstStack[g] = Before(l, t)
<1> DEFINE s == Loops(l)!AllStacks
<1>1. s \in Seq(Nat) /\ Len(s) = Len(l.kv) /\ Len(s) \in Nat
  BY BeforeFacts
<1>2. \A u \in 1..Len(s) : /\ Before(l, u) = RunningTotal(s)[u - 1]
                           /\ Before(l, u + 1) = RunningTotal(s)[u]
  <2>1. \A u : Before(l, u) = RunningTotal(s)[u - 1]
    BY SameTotals DEF Before, Loops!StacksBefore
  <2>2. \A u \in 1..Len(s) : (u + 1) - 1 = u
    BY <1>1
  <2> HIDE DEF s
  <2> QED BY <2>1, <2>2
<1>3. \A u \in 1..Len(l.kv) :
         (Before(l, u) <= g /\ g < Before(l, u + 1)) => u = t
  <2> HIDE DEF s
  <2> SUFFICES ASSUME NEW u \in 1..Len(s), Before(l, u) <= g, g < Before(l, u + 1)
               PROVE  u = t
    BY <1>1
  <2>1. /\ RunningTotal(s)[u - 1] <= g /\ g < RunningTotal(s)[u]
        /\ RunningTotal(s)[t - 1] <= g /\ g < RunningTotal(s)[t]
    BY <1>1, <1>2
  <2> QED BY <1>1, <2>1, TermUnique
<1>4. Loops(l)!TaskOf(g) = CHOOSE u \in 1..Len(l.kv) :
                              Before(l, u) <= g /\ g < Before(l, u + 1)
  BY DEF Loops!TaskOf, Loops!NumTasks, Before
<1>5. Loops(l)!TaskOf(g) = t
  BY <1>3, <1>4
<1>6. g \in 0..(Total(l) - 1)
  <2>1. t + 1 \in 1..(Len(l.kv) + 1)
    BY <1>1
  <2>2. Before(l, t + 1) \in Nat /\ Before(l, t + 1) <= Total(l)
    BY <2>1, BeforeFacts
  <2>3. Total(l) \in Nat
    BY <1>1, BeforeFacts
  <2> QED BY <2>2, <2>3
<1> QED BY <1>5, <1>6 DEF Loops!FirstStack, Total, Before

(* Every stack is of some task.                                            *)
LEMMA SomeTask ==
    ASSUME NEW l \in Launches, NEW g \in Nat, g < Total(l)
    PROVE  \E t \in 1..Len(l.kv) : Before(l, t) <= g /\ g < Before(l, t + 1)
<1> DEFINE s == Loops(l)!AllStacks
           T == Len(l.kv)
<1>1. T \in Nat /\ s \in Seq(Nat) /\ Len(s) = T
  BY BeforeFacts
<1>2. \A u : Before(l, u) = RunningTotal(s)[u - 1]
  BY SameTotals DEF Before, Loops!StacksBefore
<1> HIDE DEF s
<1>3. g < RunningTotal(s)[Len(s)]
  <2>1. Total(l) = Before(l, T + 1) /\ (T + 1) - 1 = Len(s)
    BY <1>1, BeforeFacts
  <2> QED BY <1>2, <2>1
<1>4. PICK u \in 1..Len(s) : RunningTotal(s)[u - 1] <= g /\ g < RunningTotal(s)[u]
  BY <1>1, <1>3, TermOfNumber
<1>5. (u + 1) - 1 = u
  OBVIOUS
<1> QED BY <1>1, <1>2, <1>4, <1>5

(* The stack after the last one of a task is the first one of its own task *)
(* (tasks without stacks may lie between).                                 *)
LEMMA TaskEndPlace ==
    ASSUME NEW l \in Launches, NEW t \in 1..Len(l.kv),
           Before(l, t + 1) < Total(l)
    PROVE  Loops(l)!FirstStack[Before(l, t + 1)] = Before(l, t + 1)
<1> DEFINE g == Before(l, t + 1)
           T == Len(l.kv)
<1>1. T \in Nat /\ t + 1 \in 1..(T + 1) /\ g \in Nat
  BY BeforeFacts
<1>2. PICK u \in 1..T : Before(l, u) <= g /\ g < Before(l, u + 1)
  BY <1>1, SomeTask
<1>3. u + 1 \in 1..(T + 1) /\ Before(l, u) \in Nat /\ Before(l, u + 1) \in Nat
  BY <1>1, BeforeFacts
<1>4. u >= t + 1
  <2> SUFFICES ASSUME ~ (u >= t + 1) PROVE FALSE
    OBVIOUS
  <2>1. t + 1 \in (u + 1)..(T + 1)
    BY <1>1
  <2>2. Before(l, u + 1) <= g
    BY <1>3, <2>1, BeforeMonotone
  <2> HIDE DEF g
  <2> QED BY <1>1, <1>2, <1>3, <2>2
<1>5. Before(l, u) = g
  <2>1. u \in (t + 1)..(T + 1)
    BY <1>1, <1>4
  <2>2. g <= Before(l, u)
    BY <1>1, <2>1, BeforeMonotone
  <2> HIDE DEF g
  <2> QED BY <1>1, <1>2, <1>3, <2>2
<1> QED BY <1>1, <1>2, <1>5, TaskOfStack

(* Each stack but the last of a task is followed by one of the same task,  *)
(* the last by one of a later task or by none.                             *)
LEMMA StackPlace ==
    ASSUME NEW l \in Launches, NEW t \in 1..Len(l.kv), NEW c \in 0..(Stacks(l, t) - 1),
           NEW g, g = Before(l, t) + c
    PROVE  /\ g \in Nat /\ g < Total(l)
           /\ Loops(l)!TaskOf(g) = t
           /\ Loops(l)!FirstStack[g] = Before(l, t)
           /\ Loops(l)!AIC!IsLast(g) <=> c + 1 = Stacks(l, t)
           /\ Loops(l)!AIC!Slot(g) = c % 3
<1> DEFINE S == Stacks(l, t)
           B == Before(l, t)
<1>1. /\ t + 1 \in 1..(Len(l.kv) + 1) /\ t \in 1..(Len(l.kv) + 1)
      /\ B \in Nat /\ S \in Nat /\ Total(l) \in Nat
      /\ Before(l, t + 1) = B + S /\ B + S <= Total(l)
  <2>1. t + 1 \in 1..(Len(l.kv) + 1) /\ t \in 1..(Len(l.kv) + 1)
    BY BeforeFacts
  <2>2. S \in Nat
    BY StacksFacts
  <2>3. B \in Nat /\ Before(l, t + 1) = B + S
    BY <2>1, BeforeFacts
  <2>4. Before(l, t + 1) <= Total(l)
    BY <2>1, BeforeFacts
  <2>5. Total(l) \in Nat
    <3>1. Len(l.kv) + 1 \in 1..(Len(l.kv) + 1)
      BY BeforeFacts
    <3> QED BY <3>1, BeforeFacts
  <2> QED BY <2>1, <2>2, <2>3, <2>4, <2>5
<1> HIDE DEF S, B
<1>2. g \in Nat /\ B <= g /\ g < B + S /\ g = B + c
  BY <1>1 DEF S, B
<1>3. Loops(l)!TaskOf(g) = t /\ Loops(l)!FirstStack[g] = B
  BY <1>1, <1>2, TaskOfStack DEF B
<1>4. Loops(l)!AIC!IsLast(g) <=> g + 1 = Total(l) \/ Loops(l)!FirstStack[g + 1] = g + 1
  BY DEF Loops!AIC!IsLast, Total
<1>5. Loops(l)!AIC!IsLast(g) <=> c + 1 = S
  <2>1. CASE c + 1 = S
    <3>1. g + 1 = Before(l, t + 1)
      BY <1>1, <1>2, <2>1
    <3>2. CASE g + 1 = Total(l)
      BY <1>4, <2>1, <3>2
    <3>3. CASE g + 1 < Total(l)
      BY <1>4, <2>1, <3>1, <3>3, TaskEndPlace
    <3> QED BY <1>1, <3>1, <3>2, <3>3
  <2>2. CASE c + 1 < S
    <3>1. B <= g + 1 /\ g + 1 < B + S /\ g + 1 \in Nat
      BY <1>1, <1>2, <2>2
    <3>2. Loops(l)!FirstStack[g + 1] = B
      BY <1>1, <3>1, TaskOfStack DEF B
    <3> QED BY <1>1, <1>2, <1>4, <2>2, <3>1, <3>2
  <2> QED BY <1>1, <2>1, <2>2 DEF S
<1>6. Loops(l)!AIC!Slot(g) = (g - B) % 3
  BY <1>3 DEF Loops!AIC!Slot, Loops!AIC!Slots, Loops!AIC!PreLaunch
<1>7. g < Total(l) /\ (g - B) % 3 = c % 3
  BY <1>1, <1>2
<1> QED BY <1>2, <1>3, <1>5, <1>6, <1>7 DEF S, B

-----------------------------------------------------------------------------
(* Where a kernel is: its counters follow from its task, its loop and      *)
(* stackSeqCount.                                                          *)
BothKernels == {"aic", "aiv"}

LoopTypes ==
    /\ task \in [BothKernels -> Nat]
    /\ loop \in [BothKernels -> {"main", "secondary"}]
    /\ kvSIdx \in [BothKernels -> Nat]
    /\ stackSeqCount \in [BothKernels -> Nat]
    /\ stage2Next \in [BothKernels -> BOOLEAN]
    /\ issued \in [BothKernels -> [one : Nat, two : Nat]]
    /\ call = [k \in BothKernels |-> call[k]]

(* T tasks; task t has S stacks, and B come before it; c: stackSeqCount;   *)
(* one, two: calls issued of each stage.                                   *)
PlaceIn(T, N, S, B, t, where, idx, c, between, one, two) ==
    /\ t \in 1..(T + 1)
    /\ idx = c * N
    /\ two = B + (IF c < 2 THEN 0 ELSE c - 2)
    /\ one = B + (IF where = "secondary" THEN S ELSE IF between THEN c + 1 ELSE c)
    /\ t = T + 1 => where = "main" /\ c = 0 /\ ~between
    /\ t <= T /\ where = "main" => c <= S
    /\ between => where = "main" /\ 2 <= c /\ c < S
    /\ where = "secondary" => S <= c /\ c <= S + 2

Place(l, t, where, idx, c, between, one, two) ==
    PlaceIn(Len(l.kv), depth(l), Stacks(l, t), Before(l, t),
            t, where, idx, c, between, one, two)

LoopPlace(l, k) ==
    Place(l, task[k], loop[k], kvSIdx[k], stackSeqCount[k], stage2Next[k],
          issued[k].one, issued[k].two)

(* What a step of kernel k leaves alone of the other.                      *)
Same(k) ==
    /\ task'[k] = task[k] /\ loop'[k] = loop[k] /\ kvSIdx'[k] = kvSIdx[k]
    /\ stackSeqCount'[k] = stackSeqCount[k] /\ stage2Next'[k] = stage2Next[k]
    /\ issued'[k] = issued[k] /\ call'[k] = call[k]

(* A kernel that did not move keeps its place.                             *)
LEMMA SamePlace ==
    ASSUME NEW l \in Launches, NEW k \in BothKernels, Same(k), LoopPlace(l, k)
    PROVE  LoopPlace(l, k)'
  BY DEF Same, LoopPlace

(* What can be said of the numbers at a place.                             *)
LEMMA PlaceFacts ==
    ASSUME NEW l \in Launches, NEW t \in Nat, NEW where, NEW idx, NEW c \in Nat,
           NEW between \in BOOLEAN, NEW one, NEW two,
           Place(l, t, where, idx, c, between, one, two), t <= Len(l.kv)
    PROVE  /\ t \in 1..Len(l.kv) /\ depth(l) \in Nat \ {0} /\ Len(l.kv) \in Nat
           /\ Stacks(l, t) \in Nat /\ Before(l, t) \in Nat /\ Pages(l, t) \in Nat
           /\ idx < Pages(l, t) <=> c < Stacks(l, t)
           /\ idx < 2 * depth(l) <=> c < 2
           /\ idx < Pages(l, t) + 2 * depth(l) <=> c < Stacks(l, t) + 2
<1> DEFINE N == depth(l)
<1>1. /\ t \in 1..Len(l.kv) /\ t \in 1..(Len(l.kv) + 1) /\ Len(l.kv) \in Nat
      /\ N \in Nat \ {0} /\ idx = c * N
  <2>1. l.kv \in Seq(Nat) /\ N \in Nat \ {0}
    BY LaunchFacts
  <2>2. t \in 1..(Len(l.kv) + 1) /\ idx = c * N
    BY DEF Place, PlaceIn
  <2> HIDE DEF N
  <2> QED BY <2>1, <2>2
<1>2. Stacks(l, t) \in Nat /\ Before(l, t) \in Nat /\ Pages(l, t) \in Nat
  BY <1>1, StacksFacts, BeforeFacts
<1>3. \A d \in Int : d * N < Pages(l, t) <=> d < Stacks(l, t)
  BY <1>1, StacksFacts
<1> HIDE DEF N
<1>4. idx < Pages(l, t) <=> c < Stacks(l, t)
  BY <1>1, <1>3
<1>5. idx < 2 * N <=> c < 2
  BY <1>1, ProductCompare
<1>6. idx < Pages(l, t) + 2 * N <=> c < Stacks(l, t) + 2
  <2>1. c - 2 \in Int /\ (c - 2) * N = idx - 2 * N /\ idx \in Nat
    BY <1>1
  <2>2. (c - 2) * N < Pages(l, t) <=> c - 2 < Stacks(l, t)
    BY <1>3, <2>1
  <2> QED BY <1>1, <1>2, <2>1, <2>2
<1> QED BY <1>1, <1>2, <1>4, <1>5, <1>6 DEF N

(* A step of kernel k, by what it makes of each of k's variables.          *)
Becomes(k, t, where, idx, c, between, one, two, cl) ==
    /\ task' = [task EXCEPT ![k] = t]
    /\ loop' = [loop EXCEPT ![k] = where]
    /\ kvSIdx' = [kvSIdx EXCEPT ![k] = idx]
    /\ stackSeqCount' = [stackSeqCount EXCEPT ![k] = c]
    /\ stage2Next' = [stage2Next EXCEPT ![k] = between]
    /\ issued' = [issued EXCEPT ![k] = [one |-> one, two |-> two]]
    /\ call' = [call EXCEPT ![k] = cl]

(* A step described by Becomes keeps the types, leaves the other kernel    *)
(* alone and gives k what it says.                                         *)
LEMMA BecomesFacts ==
    ASSUME NEW k \in BothKernels, LoopTypes,
           NEW t \in Nat, NEW where \in {"main", "secondary"}, NEW idx \in Nat, NEW c \in Nat,
           NEW between \in BOOLEAN, NEW one \in Nat, NEW two \in Nat, NEW cl,
           Becomes(k, t, where, idx, c, between, one, two, cl)
    PROVE  /\ LoopTypes'
           /\ \A j \in BothKernels : j # k => Same(j)
           /\ task'[k] = t /\ loop'[k] = where /\ kvSIdx'[k] = idx
           /\ stackSeqCount'[k] = c /\ stage2Next'[k] = between
           /\ issued'[k] = [one |-> one, two |-> two] /\ call'[k] = cl
<1>1. task' \in [BothKernels -> Nat] /\ loop' \in [BothKernels -> {"main", "secondary"}]
  BY DEF LoopTypes, Becomes
<1>2. kvSIdx' \in [BothKernels -> Nat] /\ stackSeqCount' \in [BothKernels -> Nat]
  BY DEF LoopTypes, Becomes
<1>3. stage2Next' \in [BothKernels -> BOOLEAN]
  BY DEF LoopTypes, Becomes
<1>4. issued' \in [BothKernels -> [one : Nat, two : Nat]]
  BY DEF LoopTypes, Becomes
<1>5. call' = [j \in BothKernels |-> call'[j]]
  BY DEF LoopTypes, Becomes
<1>6. \A j \in BothKernels : j # k => Same(j)
  BY DEF LoopTypes, Becomes, Same
<1>7. /\ task'[k] = t /\ loop'[k] = where /\ kvSIdx'[k] = idx
      /\ stackSeqCount'[k] = c /\ stage2Next'[k] = between
  BY DEF LoopTypes, Becomes
<1>8. issued'[k] = [one |-> one, two |-> two] /\ call'[k] = cl
  BY DEF LoopTypes, Becomes
<1> QED BY <1>1, <1>2, <1>3, <1>4, <1>5, <1>6, <1>7, <1>8 DEF LoopTypes

(* Setting a variable of k to its own value changes nothing.               *)
LEMMA OwnValues ==
    ASSUME NEW k \in BothKernels, LoopTypes
    PROVE  /\ task = [task EXCEPT ![k] = task[k]]
           /\ loop = [loop EXCEPT ![k] = loop[k]]
           /\ kvSIdx = [kvSIdx EXCEPT ![k] = kvSIdx[k]]
           /\ stackSeqCount = [stackSeqCount EXCEPT ![k] = stackSeqCount[k]]
           /\ stage2Next = [stage2Next EXCEPT ![k] = stage2Next[k]]
           /\ call = [call EXCEPT ![k] = call[k]]
           /\ issued = [issued EXCEPT ![k] = [one |-> issued[k].one, two |-> issued[k].two]]
           /\ task[k] \in Nat /\ loop[k] \in {"main", "secondary"} /\ kvSIdx[k] \in Nat
           /\ stackSeqCount[k] \in Nat /\ stage2Next[k] \in BOOLEAN
           /\ issued[k].one \in Nat /\ issued[k].two \in Nat
<1>1. /\ task = [task EXCEPT ![k] = task[k]]
      /\ loop = [loop EXCEPT ![k] = loop[k]]
      /\ kvSIdx = [kvSIdx EXCEPT ![k] = kvSIdx[k]]
      /\ stackSeqCount = [stackSeqCount EXCEPT ![k] = stackSeqCount[k]]
      /\ stage2Next = [stage2Next EXCEPT ![k] = stage2Next[k]]
  BY DEF LoopTypes
<1>2. call = [call EXCEPT ![k] = call[k]]
  BY DEF LoopTypes
<1>3. issued = [issued EXCEPT ![k] = [one |-> issued[k].one, two |-> issued[k].two]]
  BY DEF LoopTypes
<1>4. /\ task[k] \in Nat /\ loop[k] \in {"main", "secondary"} /\ kvSIdx[k] \in Nat
      /\ stackSeqCount[k] \in Nat /\ stage2Next[k] \in BOOLEAN
      /\ issued[k].one \in Nat /\ issued[k].two \in Nat
  BY DEF LoopTypes
<1> QED BY <1>1, <1>2, <1>3, <1>4

(* A record update of one of the two counts, written out.                  *)
LEMMA CountedCalls ==
    ASSUME NEW k \in BothKernels, LoopTypes
    PROVE  /\ [issued EXCEPT ![k].one = @ + 1]
              = [issued EXCEPT ![k] = [one |-> issued[k].one + 1, two |-> issued[k].two]]
           /\ [issued EXCEPT ![k].two = @ + 1]
              = [issued EXCEPT ![k] = [one |-> issued[k].one, two |-> issued[k].two + 1]]
<1>1. issued[k] \in [one : Nat, two : Nat]
  BY DEF LoopTypes
<1>2. [issued[k] EXCEPT !.one = @ + 1] = [one |-> issued[k].one + 1, two |-> issued[k].two]
  BY <1>1
<1>3. [issued[k] EXCEPT !.two = @ + 1] = [one |-> issued[k].one, two |-> issued[k].two + 1]
  BY <1>1
<1> QED BY <1>2, <1>3

(* What each step of the loops does, as a case of Becomes, and where it    *)
(* can only be taken. Stage 1 in the main loop: with two stacks behind it, *)
(* its stage 2 is next; else the iteration ends.                           *)
LEMMA MainStage1Effect ==
    ASSUME NEW l \in Launches, NEW k \in BothKernels, LoopTypes, LoopPlace(l, k),
           Loops(l)!MainStage1(k)
    PROVE  LET t == task[k]
               c == stackSeqCount[k]
           IN  /\ t <= Len(l.kv) /\ loop[k] = "main" /\ ~stage2Next[k] /\ c < Stacks(l, t)
               /\ c >= 2 =>
                    Becomes(k, t, "main", kvSIdx[k], c, TRUE,
                            issued[k].one + 1, issued[k].two, Loops(l)!Stage1Call(k))
               /\ c < 2 =>
                    Becomes(k, t, "main", kvSIdx[k] + depth(l), c + 1, FALSE,
                            issued[k].one + 1, issued[k].two, Loops(l)!Stage1Call(k))
<1> DEFINE t == task[k]
           c == stackSeqCount[k]
           N == depth(l)
<1>1. /\ t \in Nat /\ t <= Len(l.kv) /\ loop[k] = "main" /\ ~stage2Next[k]
      /\ kvSIdx[k] < Pages(l, t)
      /\ call' = [call EXCEPT ![k] = Loops(l)!Stage1Call(k)]
      /\ issued' = [issued EXCEPT ![k].one = @ + 1]
      /\ task' = task /\ loop' = loop
      /\ IF kvSIdx[k] >= 2 * N
         THEN /\ stage2Next' = [stage2Next EXCEPT ![k] = TRUE]
              /\ kvSIdx' = kvSIdx /\ stackSeqCount' = stackSeqCount
         ELSE /\ kvSIdx' = [kvSIdx EXCEPT ![k] = @ + N]
              /\ stackSeqCount' = [stackSeqCount EXCEPT ![k] = @ + 1]
              /\ stage2Next' = stage2Next
  BY DEF Loops!MainStage1, Loops!Running, Loops!NumTasks, Loops!kvSLoopNum, Loops!CeilDiv,
         Loops!kvSeqlen, Loops!pagedBlockSize, Loops!preLaunch, Loops!NextIteration,
         Pages, LoopTypes
<1>2. c \in Nat /\ kvSIdx[k] \in Nat /\ stage2Next[k] \in BOOLEAN
  BY OwnValues
<1>3. /\ kvSIdx[k] < Pages(l, t) <=> c < Stacks(l, t)
      /\ kvSIdx[k] < 2 * N <=> c < 2
      /\ N \in Nat
  BY <1>1, <1>2, PlaceFacts DEF LoopPlace
<1>4. c < Stacks(l, t) /\ (kvSIdx[k] >= 2 * N <=> c >= 2)
  <2> HIDE DEF c, N
  <2> QED BY <1>1, <1>2, <1>3
<1>5. /\ task' = [task EXCEPT ![k] = t]
      /\ loop' = [loop EXCEPT ![k] = "main"]
      /\ issued' = [issued EXCEPT ![k] = [one |-> issued[k].one + 1, two |-> issued[k].two]]
  BY <1>1, OwnValues, CountedCalls
<1>6. c >= 2 => Becomes(k, t, "main", kvSIdx[k], c, TRUE,
                        issued[k].one + 1, issued[k].two, Loops(l)!Stage1Call(k))
  BY <1>1, <1>4, <1>5, OwnValues DEF Becomes
<1>7. c < 2 => Becomes(k, t, "main", kvSIdx[k] + N, c + 1, FALSE,
                       issued[k].one + 1, issued[k].two, Loops(l)!Stage1Call(k))
  <2> SUFFICES ASSUME c < 2
               PROVE  /\ kvSIdx' = [kvSIdx EXCEPT ![k] = kvSIdx[k] + N]
                      /\ stackSeqCount' = [stackSeqCount EXCEPT ![k] = c + 1]
                      /\ stage2Next' = [stage2Next EXCEPT ![k] = FALSE]
    BY <1>1, <1>5 DEF Becomes
  <2>1. ~ (kvSIdx[k] >= 2 * N)
    BY <1>2, <1>4
  <2>2. stage2Next[k] = FALSE
    BY <1>1, <1>2
  <2> QED BY <1>1, <2>1, <2>2, OwnValues
<1> QED BY <1>1, <1>4, <1>6, <1>7

(* Stage 2 in the main loop ends the iteration.                            *)
LEMMA MainStage2Effect ==
    ASSUME NEW l \in Launches, NEW k \in BothKernels, LoopTypes, LoopPlace(l, k),
           Loops(l)!MainStage2(k)
    PROVE  LET t == task[k]
               c == stackSeqCount[k]
           IN  /\ t <= Len(l.kv) /\ loop[k] = "main" /\ stage2Next[k]
               /\ 2 <= c /\ c < Stacks(l, t)
               /\ Becomes(k, t, "main", kvSIdx[k] + depth(l), c + 1, FALSE,
                          issued[k].one, issued[k].two + 1, Loops(l)!Stage2Call(k))
<1> DEFINE t == task[k]
           c == stackSeqCount[k]
           N == depth(l)
<1>1. /\ stage2Next[k]
      /\ call' = [call EXCEPT ![k] = Loops(l)!Stage2Call(k)]
      /\ issued' = [issued EXCEPT ![k].two = @ + 1]
      /\ stage2Next' = [stage2Next EXCEPT ![k] = FALSE]
      /\ kvSIdx' = [kvSIdx EXCEPT ![k] = @ + N]
      /\ stackSeqCount' = [stackSeqCount EXCEPT ![k] = @ + 1]
      /\ task' = task /\ loop' = loop
  BY DEF Loops!MainStage2, Loops!NextIteration
<1>2. Len(l.kv) \in Nat /\ t \in Nat
  BY LaunchFacts, OwnValues
<1>3. t <= Len(l.kv) /\ loop[k] = "main" /\ 2 <= c /\ c < Stacks(l, t)
  BY <1>1, <1>2 DEF LoopPlace, Place, PlaceIn
<1>4. Becomes(k, t, "main", kvSIdx[k] + N, c + 1, FALSE,
              issued[k].one, issued[k].two + 1, Loops(l)!Stage2Call(k))
  BY <1>1, <1>3, OwnValues, CountedCalls DEF Becomes
<1> QED BY <1>1, <1>3, <1>4

(* The main loop ends after the last stack: the aligned start of the       *)
(* secondary loop is where kvSIdx is already.                              *)
LEMMA EnterSecondaryEffect ==
    ASSUME NEW l \in Launches, NEW k \in BothKernels, LoopTypes, LoopPlace(l, k),
           Loops(l)!EnterSecondary(k)
    PROVE  LET t == task[k]
               c == stackSeqCount[k]
           IN  /\ t <= Len(l.kv) /\ loop[k] = "main" /\ ~stage2Next[k] /\ c = Stacks(l, t)
               /\ Becomes(k, t, "secondary", kvSIdx[k], c, FALSE,
                          issued[k].one, issued[k].two, call[k])
<1> DEFINE t == task[k]
           c == stackSeqCount[k]
           N == depth(l)
<1>1. /\ t \in Nat /\ t <= Len(l.kv) /\ loop[k] = "main" /\ ~stage2Next[k]
      /\ kvSIdx[k] >= Pages(l, t)
      /\ loop' = [loop EXCEPT ![k] = "secondary"]
      /\ kvSIdx' = [kvSIdx EXCEPT ![k] = IF N = 0 THEN 0
                                         ELSE ((Pages(l, t) + N - 1) \div N) * N]
      /\ task' = task /\ stackSeqCount' = stackSeqCount /\ stage2Next' = stage2Next
      /\ issued' = issued /\ call' = call
  BY DEF Loops!EnterSecondary, Loops!AlignUp, Loops!Running, Loops!NumTasks, Loops!kvSLoopNum, Loops!CeilDiv,
         Loops!kvSeqlen, Loops!pagedBlockSize, Loops!preLaunch, Loops!NextIteration,
         Loops!preLaunchStackNum, Pages, LoopTypes
<1>2. c \in Nat /\ kvSIdx[k] \in Nat /\ stage2Next[k] \in BOOLEAN
  BY OwnValues
<1>3. /\ kvSIdx[k] < Pages(l, t) <=> c < Stacks(l, t)
      /\ kvSIdx[k] < 2 * N <=> c < 2
      /\ kvSIdx[k] < Pages(l, t) + 2 * N <=> c < Stacks(l, t) + 2
      /\ N \in Nat \ {0} /\ Stacks(l, t) \in Nat /\ Pages(l, t) \in Nat
      /\ t \in 1..Len(l.kv)
  <2>1. t \in Nat /\ t <= Len(l.kv)
    BY <1>1
  <2>2. Place(l, t, loop[k], kvSIdx[k], c, stage2Next[k], issued[k].one, issued[k].two)
    BY DEF LoopPlace
  <2> HIDE DEF t, c
  <2> QED BY <1>2, <2>1, <2>2, PlaceFacts
<1>4. c <= Stacks(l, t) /\ kvSIdx[k] = c * N
  BY <1>1 DEF LoopPlace, Place, PlaceIn
<1>5. c = Stacks(l, t)
  <2> HIDE DEF c, N
  <2> QED BY <1>1, <1>2, <1>3, <1>4
<1>6. ((Pages(l, t) + N - 1) \div N) * N = kvSIdx[k]
  <2>1. (c - 1) * N < Pages(l, t)
    <3>1. t \in 1..Len(l.kv) /\ c - 1 \in Int /\ c - 1 < Stacks(l, t)
      BY <1>2, <1>3, <1>5
    <3> QED BY <3>1, StacksFacts
  <2>2. Pages(l, t) <= c * N
    BY <1>1, <1>4
  <2> HIDE DEF c, N
  <2>3. (Pages(l, t) + N - 1) \div N = c
    BY <1>2, <1>3, <2>1, <2>2, CeilingUnique
  <2> QED BY <1>4, <2>3
<1>7. stage2Next[k] = FALSE
  BY <1>1, <1>2
<1>8. Becomes(k, t, "secondary", kvSIdx[k], c, FALSE, issued[k].one, issued[k].two, call[k])
  BY <1>1, <1>3, <1>6, <1>7, OwnValues DEF Becomes
<1> QED BY <1>1, <1>5, <1>8

(* Stage 2 in the secondary loop, of the stack two before.                 *)
LEMMA SecondaryStage2Effect ==
    ASSUME NEW l \in Launches, NEW k \in BothKernels, LoopTypes, LoopPlace(l, k),
           Loops(l)!SecondaryStage2(k)
    PROVE  LET t == task[k]
               c == stackSeqCount[k]
           IN  /\ t <= Len(l.kv) /\ loop[k] = "secondary" /\ ~stage2Next[k]
               /\ 2 <= c /\ Stacks(l, t) <= c /\ c < Stacks(l, t) + 2
               /\ Becomes(k, t, "secondary", kvSIdx[k] + depth(l), c + 1, FALSE,
                          issued[k].one, issued[k].two + 1, Loops(l)!Stage2Call(k))
<1> DEFINE t == task[k]
           c == stackSeqCount[k]
           N == depth(l)
<1>1. /\ t \in Nat /\ t <= Len(l.kv) /\ loop[k] = "secondary"
      /\ kvSIdx[k] < Pages(l, t) + 2 * N /\ kvSIdx[k] >= 2 * N
      /\ call' = [call EXCEPT ![k] = Loops(l)!Stage2Call(k)]
      /\ issued' = [issued EXCEPT ![k].two = @ + 1]
      /\ kvSIdx' = [kvSIdx EXCEPT ![k] = @ + N]
      /\ stackSeqCount' = [stackSeqCount EXCEPT ![k] = @ + 1]
      /\ task' = task /\ loop' = loop /\ stage2Next' = stage2Next
  BY DEF Loops!SecondaryStage2, Loops!Running, Loops!NumTasks, Loops!kvSLoopNum, Loops!CeilDiv,
         Loops!kvSeqlen, Loops!pagedBlockSize, Loops!preLaunch, Loops!NextIteration,
         Loops!preLaunchStackNum, Pages, LoopTypes
<1>2. c \in Nat /\ kvSIdx[k] \in Nat /\ stage2Next[k] \in BOOLEAN
  BY OwnValues
<1>3. /\ kvSIdx[k] < Pages(l, t) <=> c < Stacks(l, t)
      /\ kvSIdx[k] < 2 * N <=> c < 2
      /\ kvSIdx[k] < Pages(l, t) + 2 * N <=> c < Stacks(l, t) + 2
      /\ N \in Nat \ {0} /\ Stacks(l, t) \in Nat /\ Pages(l, t) \in Nat
      /\ t \in 1..Len(l.kv)
  <2>1. t \in Nat /\ t <= Len(l.kv)
    BY <1>1
  <2>2. Place(l, t, loop[k], kvSIdx[k], c, stage2Next[k], issued[k].one, issued[k].two)
    BY DEF LoopPlace
  <2> HIDE DEF t, c
  <2> QED BY <1>2, <2>1, <2>2, PlaceFacts
<1>4. Stacks(l, t) <= c /\ stage2Next[k] = FALSE
  BY <1>1, <1>2 DEF LoopPlace, Place, PlaceIn
<1>5. 2 <= c /\ c < Stacks(l, t) + 2
  <2> HIDE DEF c, N
  <2> QED BY <1>1, <1>2, <1>3
<1>6. Becomes(k, t, "secondary", kvSIdx[k] + N, c + 1, FALSE,
              issued[k].one, issued[k].two + 1, Loops(l)!Stage2Call(k))
  BY <1>1, <1>4, OwnValues, CountedCalls DEF Becomes
<1> QED BY <1>1, <1>4, <1>5, <1>6

(* An iteration of the secondary loop without a stack to drain.            *)
LEMMA SecondaryIdleEffect ==
    ASSUME NEW l \in Launches, NEW k \in BothKernels, LoopTypes, LoopPlace(l, k),
           Loops(l)!SecondaryIdle(k)
    PROVE  LET t == task[k]
               c == stackSeqCount[k]
           IN  /\ t <= Len(l.kv) /\ loop[k] = "secondary" /\ ~stage2Next[k]
               /\ c < 2 /\ Stacks(l, t) <= c
               /\ Becomes(k, t, "secondary", kvSIdx[k] + depth(l), c + 1, FALSE,
                          issued[k].one, issued[k].two, call[k])
<1> DEFINE t == task[k]
           c == stackSeqCount[k]
           N == depth(l)
<1>1. /\ t \in Nat /\ t <= Len(l.kv) /\ loop[k] = "secondary"
      /\ kvSIdx[k] < 2 * N
      /\ kvSIdx' = [kvSIdx EXCEPT ![k] = @ + N]
      /\ stackSeqCount' = [stackSeqCount EXCEPT ![k] = @ + 1]
      /\ task' = task /\ loop' = loop /\ stage2Next' = stage2Next
      /\ issued' = issued /\ call' = call
  BY DEF Loops!SecondaryIdle, Loops!Running, Loops!NumTasks, Loops!kvSLoopNum, Loops!CeilDiv,
         Loops!kvSeqlen, Loops!pagedBlockSize, Loops!preLaunch, Loops!NextIteration,
         Loops!preLaunchStackNum, Pages, LoopTypes
<1>2. c \in Nat /\ kvSIdx[k] \in Nat /\ stage2Next[k] \in BOOLEAN
  BY OwnValues
<1>3. /\ kvSIdx[k] < Pages(l, t) <=> c < Stacks(l, t)
      /\ kvSIdx[k] < 2 * N <=> c < 2
      /\ kvSIdx[k] < Pages(l, t) + 2 * N <=> c < Stacks(l, t) + 2
      /\ N \in Nat \ {0} /\ Stacks(l, t) \in Nat /\ Pages(l, t) \in Nat
      /\ t \in 1..Len(l.kv)
  <2>1. t \in Nat /\ t <= Len(l.kv)
    BY <1>1
  <2>2. Place(l, t, loop[k], kvSIdx[k], c, stage2Next[k], issued[k].one, issued[k].two)
    BY DEF LoopPlace
  <2> HIDE DEF t, c
  <2> QED BY <1>2, <2>1, <2>2, PlaceFacts
<1>4. Stacks(l, t) <= c /\ stage2Next[k] = FALSE
  BY <1>1, <1>2 DEF LoopPlace, Place, PlaceIn
<1>5. c < 2
  <2> HIDE DEF c, N
  <2> QED BY <1>1, <1>2, <1>3
<1>6. Becomes(k, t, "secondary", kvSIdx[k] + N, c + 1, FALSE,
              issued[k].one, issued[k].two, call[k])
  BY <1>1, <1>4, OwnValues DEF Becomes
<1> QED BY <1>1, <1>4, <1>5, <1>6

(* A task is left two iterations behind its last stack.                    *)
LEMMA NextTaskEffect ==
    ASSUME NEW l \in Launches, NEW k \in BothKernels, LoopTypes, LoopPlace(l, k),
           Loops(l)!NextTask(k)
    PROVE  LET t == task[k]
               c == stackSeqCount[k]
           IN  /\ t <= Len(l.kv) /\ loop[k] = "secondary" /\ ~stage2Next[k]
               /\ c = Stacks(l, t) + 2
               /\ Becomes(k, t + 1, "main", 0, 0, FALSE,
                          issued[k].one, issued[k].two, call[k])
<1> DEFINE t == task[k]
           c == stackSeqCount[k]
           N == depth(l)
<1>1. /\ t \in Nat /\ t <= Len(l.kv) /\ loop[k] = "secondary"
      /\ kvSIdx[k] >= Pages(l, t) + 2 * N
      /\ task' = [task EXCEPT ![k] = @ + 1]
      /\ loop' = [loop EXCEPT ![k] = "main"]
      /\ kvSIdx' = [kvSIdx EXCEPT ![k] = 0]
      /\ stackSeqCount' = [stackSeqCount EXCEPT ![k] = 0]
      /\ stage2Next' = stage2Next /\ issued' = issued /\ call' = call
  BY DEF Loops!NextTask, Loops!Running, Loops!NumTasks, Loops!kvSLoopNum, Loops!CeilDiv,
         Loops!kvSeqlen, Loops!pagedBlockSize, Loops!preLaunch, Loops!NextIteration,
         Loops!preLaunchStackNum, Pages, LoopTypes
<1>2. c \in Nat /\ kvSIdx[k] \in Nat /\ stage2Next[k] \in BOOLEAN
  BY OwnValues
<1>3. /\ kvSIdx[k] < Pages(l, t) <=> c < Stacks(l, t)
      /\ kvSIdx[k] < 2 * N <=> c < 2
      /\ kvSIdx[k] < Pages(l, t) + 2 * N <=> c < Stacks(l, t) + 2
      /\ N \in Nat \ {0} /\ Stacks(l, t) \in Nat /\ Pages(l, t) \in Nat
      /\ t \in 1..Len(l.kv)
  <2>1. t \in Nat /\ t <= Len(l.kv)
    BY <1>1
  <2>2. Place(l, t, loop[k], kvSIdx[k], c, stage2Next[k], issued[k].one, issued[k].two)
    BY DEF LoopPlace
  <2> HIDE DEF t, c
  <2> QED BY <1>2, <2>1, <2>2, PlaceFacts
<1>4. c <= Stacks(l, t) + 2 /\ stage2Next[k] = FALSE
  BY <1>1, <1>2 DEF LoopPlace, Place, PlaceIn
<1>5. c = Stacks(l, t) + 2
  <2> HIDE DEF c, N
  <2> QED BY <1>1, <1>2, <1>3, <1>4
<1>6. Becomes(k, t + 1, "main", 0, 0, FALSE, issued[k].one, issued[k].two, call[k])
  BY <1>1, <1>4, OwnValues DEF Becomes
<1> QED BY <1>1, <1>4, <1>5, <1>6

(* A kernel that takes any of its steps is at its place again, and the     *)
(* other one is where it was.                                              *)
LoopStep(l, k) ==
    \/ Loops(l)!MainStage1(k) \/ Loops(l)!MainStage2(k)
    \/ Loops(l)!SecondaryStage2(k) \/ Loops(l)!Quiet(k)

(* A step into a place of the schedule keeps what LoopPlace says.          *)
LEMMA PlaceBecomes ==
    ASSUME NEW l \in Launches, NEW k \in BothKernels, LoopTypes,
           NEW t \in Nat, NEW where \in {"main", "secondary"}, NEW idx \in Nat, NEW c \in Nat,
           NEW between \in BOOLEAN, NEW one \in Nat, NEW two \in Nat, NEW cl,
           Becomes(k, t, where, idx, c, between, one, two, cl),
           Place(l, t, where, idx, c, between, one, two)
    PROVE  /\ LoopTypes' /\ LoopPlace(l, k)'
           /\ \A j \in BothKernels : j # k => Same(j)
<1>1. /\ LoopTypes'
      /\ \A j \in BothKernels : j # k => Same(j)
      /\ task'[k] = t /\ loop'[k] = where /\ kvSIdx'[k] = idx
      /\ stackSeqCount'[k] = c /\ stage2Next'[k] = between
      /\ issued'[k] = [one |-> one, two |-> two]
  BY BecomesFacts
<1>2. LoopPlace(l, k)'
  BY <1>1 DEF LoopPlace
<1> QED BY <1>1, <1>2

(* Each step of a kernel leads from a place to a place.                    *)
LEMMA KernelStep ==
    ASSUME NEW l \in Launches, NEW k \in BothKernels, LoopTypes, LoopPlace(l, k),
           LoopStep(l, k)
    PROVE  /\ LoopTypes' /\ LoopPlace(l, k)'
           /\ \A j \in BothKernels : j # k => Same(j)
<1> DEFINE t == task[k]
           c == stackSeqCount[k]
           idx == kvSIdx[k]
           one == issued[k].one
           two == issued[k].two
           N == depth(l)
           S == Stacks(l, t)
           B == Before(l, t)
           T == Len(l.kv)
<1>1. /\ t \in Nat /\ c \in Nat /\ idx \in Nat /\ one \in Nat /\ two \in Nat
      /\ N \in Nat \ {0} /\ T \in Nat /\ idx + N \in Nat
      /\ PlaceIn(T, N, S, B, t, loop[k], idx, c, stage2Next[k], one, two)
  BY OwnValues, LaunchFacts DEF LoopPlace, Place
<1>2. t <= T => B \in Nat /\ S \in Nat /\ t \in 1..T /\ Before(l, t + 1) = B + S
                /\ (c + 1) * N = c * N + N
  <2> SUFFICES ASSUME t <= T
               PROVE  B \in Nat /\ S \in Nat /\ t \in 1..T /\ Before(l, t + 1) = B + S
                      /\ (c + 1) * N = c * N + N
    OBVIOUS
  <2>1. t \in 1..T /\ t \in 1..(T + 1)
    BY <1>1 DEF PlaceIn
  <2>2. B \in Nat /\ S \in Nat /\ Before(l, t + 1) = B + S
    BY <2>1, BeforeFacts, StacksFacts
  <2> HIDE DEF c, N
  <2> QED BY <1>1, <2>1, <2>2
<1> DEFINE Goal == /\ LoopTypes' /\ LoopPlace(l, k)'
                   /\ \A j \in BothKernels : j # k => Same(j)
<1>3. ASSUME Loops(l)!MainStage1(k), c >= 2 PROVE Goal
  <2>1. /\ t <= T /\ loop[k] = "main" /\ ~stage2Next[k] /\ c < S
        /\ Becomes(k, t, "main", idx, c, TRUE, one + 1, two, Loops(l)!Stage1Call(k))
    BY <1>3, MainStage1Effect
  <2> HIDE DEF t, c, idx, one, two, N, S, B, T, Goal
  <2>2. PlaceIn(T, N, S, B, t, "main", idx, c, TRUE, one + 1, two)
    BY <1>1, <1>2, <1>3, <2>1 DEF PlaceIn
  <2> QED
    <3>1. Place(l, t, "main", idx, c, TRUE, one + 1, two)
      BY <2>2 DEF Place, T, N, S, B
    <3>2. t \in Nat /\ idx \in Nat /\ c \in Nat /\ one + 1 \in Nat /\ two \in Nat
      BY <1>1
    <3> QED BY <2>1, <3>1, <3>2, PlaceBecomes DEF Goal
<1>4. ASSUME Loops(l)!MainStage1(k), c < 2 PROVE Goal
  <2>1. /\ t <= T /\ loop[k] = "main" /\ ~stage2Next[k] /\ c < S
        /\ Becomes(k, t, "main", idx + N, c + 1, FALSE, one + 1, two, Loops(l)!Stage1Call(k))
    BY <1>4, MainStage1Effect
  <2> HIDE DEF t, c, idx, one, two, N, S, B, T, Goal
  <2>2. PlaceIn(T, N, S, B, t, "main", idx + N, c + 1, FALSE, one + 1, two)
    BY <1>1, <1>2, <1>4, <2>1 DEF PlaceIn
  <2> QED
    <3>1. Place(l, t, "main", idx + N, c + 1, FALSE, one + 1, two)
      BY <2>2 DEF Place, T, N, S, B
    <3>2. t \in Nat /\ idx + N \in Nat /\ c + 1 \in Nat /\ one + 1 \in Nat /\ two \in Nat
      BY <1>1
    <3> QED BY <2>1, <3>1, <3>2, PlaceBecomes DEF Goal
<1>5. ASSUME Loops(l)!MainStage2(k) PROVE Goal
  <2>1. /\ t <= T /\ loop[k] = "main" /\ stage2Next[k] /\ 2 <= c /\ c < S
        /\ Becomes(k, t, "main", idx + N, c + 1, FALSE, one, two + 1, Loops(l)!Stage2Call(k))
    BY <1>5, MainStage2Effect
  <2> HIDE DEF t, c, idx, one, two, N, S, B, T, Goal
  <2>2. PlaceIn(T, N, S, B, t, "main", idx + N, c + 1, FALSE, one, two + 1)
    BY <1>1, <1>2, <1>5, <2>1 DEF PlaceIn
  <2> QED
    <3>1. Place(l, t, "main", idx + N, c + 1, FALSE, one, two + 1)
      BY <2>2 DEF Place, T, N, S, B
    <3>2. t \in Nat /\ idx + N \in Nat /\ c + 1 \in Nat /\ one \in Nat /\ two + 1 \in Nat
      BY <1>1
    <3> QED BY <2>1, <3>1, <3>2, PlaceBecomes DEF Goal
<1>6. ASSUME Loops(l)!EnterSecondary(k) PROVE Goal
  <2>1. /\ t <= T /\ loop[k] = "main" /\ ~stage2Next[k] /\ c = S
        /\ Becomes(k, t, "secondary", idx, c, FALSE, one, two, call[k])
    BY <1>6, EnterSecondaryEffect
  <2> HIDE DEF t, c, idx, one, two, N, S, B, T, Goal
  <2>2. PlaceIn(T, N, S, B, t, "secondary", idx, c, FALSE, one, two)
    BY <1>1, <1>2, <1>6, <2>1 DEF PlaceIn
  <2> QED
    <3>1. Place(l, t, "secondary", idx, c, FALSE, one, two)
      BY <2>2 DEF Place, T, N, S, B
    <3>2. t \in Nat /\ idx \in Nat /\ c \in Nat /\ one \in Nat /\ two \in Nat
      BY <1>1
    <3> QED BY <2>1, <3>1, <3>2, PlaceBecomes DEF Goal
<1>7. ASSUME Loops(l)!SecondaryStage2(k) PROVE Goal
  <2>1. /\ t <= T /\ loop[k] = "secondary" /\ 2 <= c /\ S <= c /\ c < S + 2
        /\ Becomes(k, t, "secondary", idx + N, c + 1, FALSE, one, two + 1, Loops(l)!Stage2Call(k))
    BY <1>7, SecondaryStage2Effect
  <2> HIDE DEF t, c, idx, one, two, N, S, B, T, Goal
  <2>2. PlaceIn(T, N, S, B, t, "secondary", idx + N, c + 1, FALSE, one, two + 1)
    BY <1>1, <1>2, <1>7, <2>1 DEF PlaceIn
  <2> QED
    <3>1. Place(l, t, "secondary", idx + N, c + 1, FALSE, one, two + 1)
      BY <2>2 DEF Place, T, N, S, B
    <3>2. t \in Nat /\ idx + N \in Nat /\ c + 1 \in Nat /\ one \in Nat /\ two + 1 \in Nat
      BY <1>1
    <3> QED BY <2>1, <3>1, <3>2, PlaceBecomes DEF Goal
<1>8. ASSUME Loops(l)!SecondaryIdle(k) PROVE Goal
  <2>1. /\ t <= T /\ loop[k] = "secondary" /\ c < 2 /\ S <= c
        /\ Becomes(k, t, "secondary", idx + N, c + 1, FALSE, one, two, call[k])
    BY <1>8, SecondaryIdleEffect
  <2> HIDE DEF t, c, idx, one, two, N, S, B, T, Goal
  <2>2. PlaceIn(T, N, S, B, t, "secondary", idx + N, c + 1, FALSE, one, two)
    BY <1>1, <1>2, <1>8, <2>1 DEF PlaceIn
  <2> QED
    <3>1. Place(l, t, "secondary", idx + N, c + 1, FALSE, one, two)
      BY <2>2 DEF Place, T, N, S, B
    <3>2. t \in Nat /\ idx + N \in Nat /\ c + 1 \in Nat /\ one \in Nat /\ two \in Nat
      BY <1>1
    <3> QED BY <2>1, <3>1, <3>2, PlaceBecomes DEF Goal
<1>9. ASSUME Loops(l)!NextTask(k) PROVE Goal
  <2>1. /\ t <= T /\ loop[k] = "secondary" /\ c = S + 2
        /\ Becomes(k, t + 1, "main", 0, 0, FALSE, one, two, call[k])
    BY <1>9, NextTaskEffect
  <2>3. t + 1 <= T => Stacks(l, t + 1) \in Nat
    <3>1. t + 1 <= T => t + 1 \in 1..T
      BY <1>1
    <3> QED BY <3>1, StacksFacts
  <2> HIDE DEF t, c, idx, one, two, N, S, B, T, Goal
  <2>2. PlaceIn(T, N, Stacks(l, t + 1), Before(l, t + 1), t + 1, "main", 0, 0, FALSE, one, two)
    BY <1>1, <1>2, <1>9, <2>1, <2>3 DEF PlaceIn
  <2> QED
    <3>1. Place(l, t + 1, "main", 0, 0, FALSE, one, two)
      BY <2>2 DEF Place, T, N, S, B
    <3>2. t + 1 \in Nat /\ 0 \in Nat /\ 0 \in Nat /\ one \in Nat /\ two \in Nat
      BY <1>1
    <3> QED BY <2>1, <3>1, <3>2, PlaceBecomes DEF Goal
<1>10. c >= 2 \/ c < 2
  BY <1>1
<1> QED
  <2> HIDE DEF Goal, c
  <2>1. Goal
    BY <1>3, <1>4, <1>5, <1>6, <1>7, <1>8, <1>9, <1>10 DEF LoopStep, Loops!Quiet
  <2> QED BY <2>1 DEF Goal

-----------------------------------------------------------------------------
(* The order of the calls.                                                 *)
Scheduled(l, k) ==
    \/ issued'[k] = issued[k]
    \/ /\ Loops(l)!AIC!Stage1Due(issued[k])
       /\ issued'[k] = [issued[k] EXCEPT !.one = @ + 1]
    \/ /\ Loops(l)!AIC!Stage2Due(issued[k])
       /\ issued'[k] = [issued[k] EXCEPT !.two = @ + 1]

(* Each step of a kernel issues no call or the one that is due in          *)
(* StackSchedule.                                                          *)
LEMMA KernelScheduled ==
    ASSUME NEW l \in Launches, NEW k \in BothKernels, LoopTypes, LoopPlace(l, k),
           LoopStep(l, k)
    PROVE  Scheduled(l, k)
<1> DEFINE t == task[k]
           c == stackSeqCount[k]
           one == issued[k].one
           two == issued[k].two
           S == Stacks(l, t)
           B == Before(l, t)
           T == Len(l.kv)
           w == issued[k]
<1>1. /\ t \in Nat /\ c \in Nat /\ one \in Nat /\ two \in Nat /\ T \in Nat
      /\ PlaceIn(T, depth(l), S, B, t, loop[k], kvSIdx[k], c, stage2Next[k], one, two)
      /\ w \in [one : Nat, two : Nat] /\ stage2Next[k] \in BOOLEAN
  BY OwnValues, LaunchFacts DEF LoopPlace, Place, LoopTypes
<1>2. t <= T => B \in Nat /\ S \in Nat /\ t \in 1..T
  <2> SUFFICES ASSUME t <= T PROVE B \in Nat /\ S \in Nat /\ t \in 1..T
    OBVIOUS
  <2>1. t \in 1..T /\ t \in 1..(T + 1)
    BY <1>1 DEF PlaceIn
  <2> QED BY <2>1, BeforeFacts, StacksFacts
<1>3. /\ Loops(l)!AIC!Stage1Due(w) <=> /\ one < Total(l)
                                       /\ Loops(l)!FirstStack[one] <= two
                                       /\ one - two <= 2
      /\ Loops(l)!AIC!Stage2Due(w) <=> two < one /\ ~Loops(l)!AIC!Stage1Due(w)
  BY DEF Loops!AIC!Stage1Due, Loops!AIC!Stage2Due, Loops!AIC!PreLaunch, Total
<1>4. ASSUME Loops(l)!MainStage1(k) PROVE Scheduled(l, k)
  <2>1. /\ t <= T /\ loop[k] = "main" /\ ~stage2Next[k] /\ c < S
        /\ issued'[k] = [one |-> one + 1, two |-> two]
    <3>1. /\ t <= T /\ loop[k] = "main" /\ ~stage2Next[k] /\ c < S
          /\ issued' = [issued EXCEPT ![k] = [one |-> one + 1, two |-> two]]
      BY <1>1, <1>4, MainStage1Effect DEF Becomes
    <3> QED BY <3>1 DEF LoopTypes
  <2>2. one = B + c /\ two = B + (IF c < 2 THEN 0 ELSE c - 2)
    BY <1>1, <2>1 DEF PlaceIn
  <2>3. one < Total(l) /\ Loops(l)!FirstStack[one] = B
    <3> HIDE DEF c, one, B, S, t
    <3>1. t \in 1..Len(l.kv) /\ c \in 0..(Stacks(l, t) - 1) /\ one = Before(l, t) + c
      BY <1>1, <1>2, <2>1, <2>2 DEF S, B, T
    <3> QED BY <3>1, StackPlace DEF B
  <2>4. Loops(l)!FirstStack[one] <= two /\ one - two <= 2
    <3> HIDE DEF c, one, two, B, S, t
    <3> QED BY <1>1, <1>2, <2>1, <2>2, <2>3
  <2>5. [w EXCEPT !.one = @ + 1] = [one |-> one + 1, two |-> two]
    BY <1>1
  <2> QED BY <1>3, <2>1, <2>3, <2>4, <2>5 DEF Scheduled
<1>5. ASSUME Loops(l)!MainStage2(k) PROVE Scheduled(l, k)
  <2>1. /\ t <= T /\ loop[k] = "main" /\ stage2Next[k] /\ 2 <= c /\ c < S
        /\ issued'[k] = [one |-> one, two |-> two + 1]
    <3>1. /\ t <= T /\ loop[k] = "main" /\ stage2Next[k] /\ 2 <= c /\ c < S
          /\ issued' = [issued EXCEPT ![k] = [one |-> one, two |-> two + 1]]
      BY <1>1, <1>5, MainStage2Effect DEF Becomes
    <3> QED BY <3>1 DEF LoopTypes
  <2>2. one = B + c + 1 /\ two = B + c - 2
    BY <1>1, <1>2, <2>1 DEF PlaceIn
  <2>3. two < one /\ ~ (one - two <= 2)
    <3> HIDE DEF c, one, two, B, S, t
    <3> QED BY <1>1, <1>2, <2>1, <2>2
  <2>4. [w EXCEPT !.two = @ + 1] = [one |-> one, two |-> two + 1]
    BY <1>1
  <2> QED BY <1>3, <2>1, <2>3, <2>4 DEF Scheduled
<1>6. ASSUME Loops(l)!SecondaryStage2(k) PROVE Scheduled(l, k)
  <2>1. /\ t <= T /\ loop[k] = "secondary" /\ 2 <= c /\ S <= c /\ c < S + 2
        /\ issued'[k] = [one |-> one, two |-> two + 1]
    <3>1. /\ t <= T /\ loop[k] = "secondary" /\ 2 <= c /\ S <= c /\ c < S + 2
          /\ issued' = [issued EXCEPT ![k] = [one |-> one, two |-> two + 1]]
      BY <1>1, <1>6, SecondaryStage2Effect DEF Becomes
    <3> QED BY <3>1 DEF LoopTypes
  <2>2. one = B + S /\ two = B + c - 2
    BY <1>1, <1>2, <2>1 DEF PlaceIn
  <2>3. two < one
    <3> HIDE DEF c, one, two, B, S, t
    <3> QED BY <1>1, <1>2, <2>1, <2>2
  <2>4. one < Total(l) => Loops(l)!FirstStack[one] = one
    <3> HIDE DEF c, one, B, S, t
    <3>1. t \in 1..Len(l.kv) /\ Before(l, t + 1) = one
      BY <1>2, <2>1, <2>2, BeforeFacts DEF S, B, T
    <3> QED BY <3>1, TaskEndPlace
  <2>5. [w EXCEPT !.two = @ + 1] = [one |-> one, two |-> two + 1]
    BY <1>1
  <2>6. ~Loops(l)!AIC!Stage1Due(w)
    <3> HIDE DEF one, two, w
    <3> QED BY <1>1, <1>3, <2>3, <2>4
  <2> QED BY <1>3, <2>1, <2>3, <2>5, <2>6 DEF Scheduled
<1>7. ASSUME Loops(l)!Quiet(k) PROVE Scheduled(l, k)
  <2>1. issued' = issued
    BY <1>7 DEF Loops!Quiet, Loops!EnterSecondary, Loops!SecondaryIdle, Loops!NextTask
  <2> QED BY <2>1 DEF Scheduled
<1> QED BY <1>4, <1>5, <1>6, <1>7 DEF LoopStep

-----------------------------------------------------------------------------
(* What a call is given.  A call about stack c of task t, from page        *)
(* c * depth on; the rows that a block matmul takes from there.            *)
Tile(l, t, c) ==
    IF c + 1 = Stacks(l, t) THEN l.kv[t] - (c * depth(l)) * 128 ELSE 128 * depth(l)

PageRows(l, t, p) == IF p = Pages(l, t) - 1 THEN l.kv[t] - p * 128 ELSE 128

FourPages(l, t, n) ==
    [i \in 1..4 |-> IF n + i - 1 < Pages(l, t) THEN PageRows(l, t, n + i - 1) ELSE 0]

About(l, t, c, cl) ==
    /\ cl.stage \in {1, 2}
    /\ cl.page = c * depth(l)
    /\ cl.slot = c % 3
    /\ cl.tile = Tile(l, t, c)
    /\ cl.rows = RunningTotal(FourPages(l, t, c * depth(l)))[4]
    /\ cl.first = (c = 0)
    /\ cl.stage = 2 => cl.last = (c + 1 = Stacks(l, t))

(* CallFitsItsStack and PagesFillTile for one call.                        *)
Called(cl, one, two) == IF cl.stage = 1 THEN one - 1 ELSE two - 1

Fits(l, cl, one, two) ==
    LET g == Called(cl, one, two)
        kv == l.kv[Loops(l)!TaskOf(g)]
        row == (g - Loops(l)!FirstStack[g]) * depth(l) * 128
    IN  /\ cl.slot = Loops(l)!AIC!Slot(g)
        /\ cl.page * 128 = row
        /\ cl.tile = IF Loops(l)!AIC!IsLast(g) THEN kv - row ELSE depth(l) * 128
        /\ cl.first = (Loops(l)!FirstStack[g] = g)
        /\ cl.stage = 2 => cl.last = Loops(l)!AIC!IsLast(g)

Fills(l, cl, one, two) ==
    LET g == Called(cl, one, two)
        left == Pages(l, Loops(l)!TaskOf(g)) - cl.page
    IN  cl.rows = cl.tile <=> depth(l) = 4 \/ left <= Min({depth(l), 4})

(* A call about stack c of task t fits this stack.                         *)
LEMMA AboutFits ==
    ASSUME NEW l \in Launches, NEW t \in 1..Len(l.kv), NEW c \in 0..(Stacks(l, t) - 1),
           NEW cl, About(l, t, c, cl), NEW one, NEW two,
           Called(cl, one, two) = Before(l, t) + c
    PROVE  Fits(l, cl, one, two)
<1> DEFINE g == Before(l, t) + c
           N == depth(l)
           B == Before(l, t)
           row == (g - Loops(l)!FirstStack[g]) * depth(l) * 128
<1>1. /\ g \in Nat /\ g < Total(l)
      /\ Loops(l)!TaskOf(g) = t
      /\ Loops(l)!FirstStack[g] = B
      /\ Loops(l)!AIC!IsLast(g) <=> c + 1 = Stacks(l, t)
      /\ Loops(l)!AIC!Slot(g) = c % 3
  BY StackPlace
<1>2. /\ N \in Nat \ {0} /\ Stacks(l, t) \in Nat /\ c \in Nat /\ B \in Nat
      /\ l.kv[t] \in Nat
  <2>1. N \in Nat \ {0} /\ Stacks(l, t) \in Nat /\ B \in Nat /\ l.kv[t] \in Nat
    BY TaskFacts
  <2> QED BY <2>1
<1>3. row = (c * N) * 128
  <2> DEFINE d == g - Loops(l)!FirstStack[g]
  <2>1. d = c
    BY <1>1, <1>2
  <2>2. row = (d * N) * 128
    OBVIOUS
  <2> HIDE DEF d, row
  <2> QED BY <2>1, <2>2
<1>4. cl.slot = Loops(l)!AIC!Slot(g) /\ cl.page * 128 = row
  BY <1>1, <1>3 DEF About
<1>5. cl.tile = IF Loops(l)!AIC!IsLast(g) THEN l.kv[t] - row ELSE N * 128
  BY <1>1, <1>2, <1>3 DEF About, Tile
<1>6. cl.first = (Loops(l)!FirstStack[g] = g)
  <2>1. (c = 0) = (Loops(l)!FirstStack[g] = g)
    BY <1>1, <1>2
  <2> HIDE DEF g
  <2> QED BY <2>1 DEF About
<1>7. cl.stage = 2 => cl.last = Loops(l)!AIC!IsLast(g)
  <2>1. (c + 1 = Stacks(l, t)) = Loops(l)!AIC!IsLast(g)
    <3>1. Loops(l)!AIC!IsLast(g) \in BOOLEAN
      BY DEF Loops!AIC!IsLast
    <3> QED BY <1>1, <3>1
  <2> HIDE DEF g
  <2> QED BY <2>1 DEF About
<1>8. Called(cl, one, two) = g
  OBVIOUS
<1> HIDE DEF g, N, B
<1> QED BY <1>1, <1>4, <1>5, <1>6, <1>7, <1>8 DEF Fits, N

(* Up to four pages, of which the last of the task may be shorter.         *)
LEMMA RowsFacts ==
    ASSUME NEW l \in Launches, NEW t \in 1..Len(l.kv), NEW n \in Nat, n < Pages(l, t)
    PROVE  /\ RunningTotal(FourPages(l, t, n))[4]
                 = IF Pages(l, t) - n <= 4 THEN l.kv[t] - n * 128 ELSE 512
           /\ (Pages(l, t) - 1) * 128 < l.kv[t]
<1> DEFINE s == FourPages(l, t, n)
           kv == l.kv[t]
           P == Pages(l, t)
<1>1. kv \in Nat /\ P \in Nat
  BY TaskFacts
<1>2. (P - 1) * 128 < kv
  <2>1. P = (kv + 128 - 1) \div 128
    BY <1>1 DEF Pages
  <2> HIDE DEF P, kv
  <2> QED BY <1>1, <2>1, CeilingFacts
<1>3. /\ s = [i \in 1..4 |-> IF n + i - 1 < P
                             THEN IF n + i - 1 = P - 1 THEN kv - (n + i - 1) * 128 ELSE 128
                             ELSE 0]
  BY DEF FourPages, PageRows
<1> HIDE DEF s, kv, P
<1>4. RunningTotal(s)[4] = s[1] + s[2] + s[3] + s[4]
  <2>1. ASSUME NEW i \in 1..4 PROVE s[i] \in Nat
    <3> DEFINE p == n + i - 1
    <3>1. s[i] = IF p < P THEN IF p = P - 1 THEN kv - p * 128 ELSE 128 ELSE 0
      BY <1>3
    <3>2. p \in Nat
      OBVIOUS
    <3> HIDE DEF p
    <3> QED BY <1>1, <1>2, <3>1, <3>2
  <2>2. s \in [1..4 -> Nat]
    BY <1>3, <2>1
  <2> QED BY <2>2, FourTotal
<1>5. RunningTotal(s)[4] = IF P - n <= 4 THEN kv - n * 128 ELSE 512
  <2> DEFINE Size(p) == IF p < P THEN IF p = P - 1 THEN kv - p * 128 ELSE 128 ELSE 0
  <2>1. \A i \in 1..4 : s[i] = Size(n + i - 1)
    BY <1>3
  <2>2. n + 1 - 1 = n /\ n + 2 - 1 = n + 1 /\ n + 3 - 1 = n + 2 /\ n + 4 - 1 = n + 3
    OBVIOUS
  <2>3. s[1] = Size(n) /\ s[2] = Size(n + 1) /\ s[3] = Size(n + 2) /\ s[4] = Size(n + 3)
    <3> HIDE DEF Size
    <3>1. /\ s[1] = Size(n + 1 - 1) /\ s[2] = Size(n + 2 - 1)
          /\ s[3] = Size(n + 3 - 1) /\ s[4] = Size(n + 4 - 1)
      BY <2>1
    <3> QED BY <2>2, <3>1
  <2>5. n < P
    BY DEF P
  <2> QED BY <1>1, <1>4, <2>3, <2>5
<1> QED BY <1>2, <1>5 DEF s, kv, P

(* The pages of a call about stack c of task t add up to its width for the *)
(* depths that PagesFillTile says, and for no others.                      *)
LEMMA AboutFills ==
    ASSUME NEW l \in Launches, NEW t \in 1..Len(l.kv), NEW c \in 0..(Stacks(l, t) - 1),
           NEW cl, About(l, t, c, cl), NEW one, NEW two,
           Called(cl, one, two) = Before(l, t) + c
    PROVE  Fills(l, cl, one, two)
<1> DEFINE N == depth(l)
           P == Pages(l, t)
           S == Stacks(l, t)
           kv == l.kv[t]
           n == c * N
<1>1. Loops(l)!TaskOf(Called(cl, one, two)) = t
  BY StackPlace
<1>2. N \in Nat \ {0} /\ S \in Nat /\ P \in Nat /\ c \in Nat /\ c < S /\ kv \in Nat
  <2>1. N \in Nat \ {0} /\ S \in Nat /\ P \in Nat /\ kv \in Nat
    BY TaskFacts
  <2> QED BY <2>1
<1>3. \A d \in Int : d * N < P <=> d < S
  BY StacksFacts
<1> HIDE DEF N, P, S, kv
<1>4. n \in Nat /\ n < P /\ (n + N < P <=> c + 1 < S)
  <2>1. c \in Int /\ c + 1 \in Int /\ n \in Nat /\ (c + 1) * N = n + N
    BY <1>2
  <2>2. n < P <=> c < S
    BY <1>3, <2>1
  <2>3. (c + 1) * N < P <=> c + 1 < S
    BY <1>3, <2>1
  <2> HIDE DEF n
  <2> QED BY <1>2, <2>1, <2>2, <2>3
<1>5. /\ cl.rows = (IF P - n <= 4 THEN kv - n * 128 ELSE 512)
      /\ (P - 1) * 128 < kv
  <2>1. cl.rows = RunningTotal(FourPages(l, t, n))[4]
    BY DEF About, N
  <2>2. n < Pages(l, t)
    BY <1>4 DEF P
  <2> HIDE DEF n
  <2> QED BY <1>4, <2>1, <2>2, RowsFacts DEF P, kv
<1>6. cl.tile = (IF P - n <= N THEN kv - n * 128 ELSE 128 * N)
  <2>1. cl.tile = (IF c + 1 = S THEN kv - n * 128 ELSE 128 * N)
    BY DEF About, Tile, N, S, kv
  <2>2. c + 1 = S <=> P - n <= N
    <3> HIDE DEF n
    <3> QED BY <1>2, <1>4
  <2> QED BY <2>1, <2>2
<1>7. cl.page = n
  BY DEF About, N
<1> HIDE DEF n
<1>8. Min({N, 4}) = IF N <= 4 THEN N ELSE 4
  BY <1>2 DEF Min
<1>9. cl.rows = cl.tile <=> N = 4 \/ P - n <= Min({N, 4})
  BY <1>2, <1>4, <1>5, <1>6, <1>8
<1> QED BY <1>1, <1>7, <1>9 DEF Fills, N, P

(* The last stack is the one that reaches the last page.                   *)
LEMMA LastStack ==
    ASSUME NEW l \in Launches, NEW t \in 1..Len(l.kv), NEW c \in 0..(Stacks(l, t) - 1)
    PROVE  c * depth(l) + depth(l) > Pages(l, t) - 1 <=> c + 1 = Stacks(l, t)
<1> DEFINE N == depth(l)
           P == Pages(l, t)
           S == Stacks(l, t)
<1>1. N \in Nat \ {0} /\ P \in Nat /\ S \in Nat
  BY TaskFacts
<1>2. \A d \in Int : d * N < P <=> d < S
  BY StacksFacts
<1>3. c \in Nat /\ c < S
  BY <1>1
<1> HIDE DEF N, P, S
<1>4. (c + 1) * N = c * N + N /\ c * N \in Nat /\ c + 1 \in Int
  BY <1>1, <1>3
<1>5. (c + 1) * N < P <=> c + 1 < S
  BY <1>2, <1>4
<1> QED BY <1>1, <1>3, <1>4, <1>5 DEF N, P, S

(* A step of a kernel makes no call or one about a stack of the task, the  *)
(* one that its count of calls stands for.                                 *)
LEMMA CallMade ==
    ASSUME NEW l \in Launches, NEW k \in BothKernels, LoopTypes, LoopPlace(l, k),
           LoopStep(l, k)
    PROVE  \/ call'[k] = call[k] /\ issued'[k] = issued[k]
           \/ \E t \in 1..Len(l.kv) : \E c \in 0..(Stacks(l, t) - 1) :
                 /\ About(l, t, c, call'[k])
                 /\ Called(call'[k], issued'[k].one, issued'[k].two) = Before(l, t) + c
<1> DEFINE t == task[k]
           c == stackSeqCount[k]
           one == issued[k].one
           two == issued[k].two
           N == depth(l)
           S == Stacks(l, t)
           P == Pages(l, t)
           B == Before(l, t)
           T == Len(l.kv)
           kv == l.kv[t]
           Made == \E u \in 1..T : \E d \in 0..(Stacks(l, u) - 1) :
                      /\ About(l, u, d, call'[k])
                      /\ Called(call'[k], issued'[k].one, issued'[k].two) = Before(l, u) + d
<1>1. /\ t \in Nat /\ c \in Nat /\ one \in Nat /\ two \in Nat /\ T \in Nat
      /\ PlaceIn(T, N, S, B, t, loop[k], kvSIdx[k], c, stage2Next[k], one, two)
      /\ kvSIdx[k] = c * N
  BY OwnValues, LaunchFacts DEF LoopPlace, Place, PlaceIn
<1>2. t <= T => /\ t \in 1..T /\ N \in Nat \ {0} /\ S \in Nat /\ P \in Nat /\ B \in Nat
                /\ kv \in Nat
  <2> SUFFICES ASSUME t <= T
               PROVE  /\ t \in 1..T /\ N \in Nat \ {0} /\ S \in Nat /\ P \in Nat /\ B \in Nat
                      /\ kv \in Nat
    OBVIOUS
  <2>1. t \in 1..T
    BY <1>1 DEF PlaceIn
  <2> QED BY <2>1, TaskFacts
<1>3. \A n : Loops(l)!MatmulRows(k, n) = RunningTotal(FourPages(l, t, n))[4]
  BY SameTotals DEF Loops!MatmulRows, Loops!nSplitSize, Loops!kvSLoopNum, Loops!kvSeqlen,
     Loops!CeilDiv, Loops!pagedBlockSize, Loops!UNIT_BLOCK_STACK_NUM, FourPages, PageRows, Pages
<1>4. /\ Loops(l)!kvSLoopNum(k) = P /\ Loops(l)!kvSeqlen(k) = kv
      /\ Loops(l)!totalStackSeqNum(k) = S
      /\ \A n, from : Loops(l)!stackSeqTile(k, n, from) =
            IF n + N > P - 1 THEN kv - from * 128 ELSE 128 * N
  BY DEF Loops!kvSLoopNum, Loops!kvSeqlen, Loops!totalStackSeqNum, Loops!stackSeqTile,
     Loops!StacksOf, Loops!CeilDiv, Loops!pagedBlockSize, Pages, Stacks
<1>5. Loops(l)!Stage1Call(k) =
        [stage |-> 1, page |-> kvSIdx[k], slot |-> c % 3,
         tile |-> IF kvSIdx[k] + N > P - 1 THEN kv - kvSIdx[k] * 128 ELSE 128 * N,
         rows |-> RunningTotal(FourPages(l, t, kvSIdx[k]))[4],
         first |-> c = 0, last |-> FALSE]
  <2>1. c % (2 + 1) = c % 3
    BY <1>1
  <2> HIDE DEF P, kv, N
  <2> QED BY <1>3, <1>4, <2>1 DEF Loops!Stage1Call, Loops!preLaunch
<1> DEFINE delayed == kvSIdx[k] - 2 * N
<1>6. Loops(l)!Stage2Call(k) =
        [stage |-> 2, page |-> delayed, slot |-> (c - 2) % 3,
         tile |-> IF delayed + N > P - 1
                  THEN kv - (IF loop[k] = "main" /\ k = "aiv" THEN kvSIdx[k] ELSE delayed) * 128
                  ELSE 128 * N,
         rows |-> RunningTotal(FourPages(l, t, delayed))[4],
         first |-> c - 2 = 0, last |-> loop[k] = "secondary" /\ c - 2 = S - 1]
  <2> HIDE DEF P, kv, S, N
  <2>1. Loops(l)!delayedKvSIdx(k) = delayed
    BY DEF Loops!delayedKvSIdx, Loops!preLaunchStackNum, Loops!preLaunch, N
  <2>2. (c - 2) % (2 + 1) = (c - 2) % 3
    BY <1>1
  <2> HIDE DEF delayed
  <2> QED BY <1>3, <1>4, <2>1, <2>2 DEF Loops!Stage2Call, Loops!preLaunch
<1>7. ASSUME Loops(l)!MainStage1(k) PROVE Made
  <2>1. /\ t <= T /\ loop[k] = "main" /\ ~stage2Next[k] /\ c < S
        /\ issued' = [issued EXCEPT ![k] = [one |-> one + 1, two |-> two]]
        /\ call' = [call EXCEPT ![k] = Loops(l)!Stage1Call(k)]
    BY <1>1, <1>7, MainStage1Effect DEF Becomes
  <2>2. issued'[k] = [one |-> one + 1, two |-> two] /\ call'[k] = Loops(l)!Stage1Call(k)
    BY <2>1 DEF LoopTypes
  <2>3. c \in 0..(S - 1) /\ t \in 1..T
    BY <1>1, <1>2, <2>1
  <2>4. one = B + c
    BY <1>1, <2>1 DEF PlaceIn
  <2>5. Called(call'[k], issued'[k].one, issued'[k].two) = B + c
    <3>1. call'[k].stage = 1 /\ issued'[k].one = one + 1
      BY <1>5, <2>2
    <3> HIDE DEF one, c, B
    <3> QED BY <1>1, <1>2, <2>1, <2>3, <2>4, <3>1 DEF Called
  <2>6. c * N + N > P - 1 <=> c + 1 = S
    BY <2>3, LastStack
  <2>7. About(l, t, c, call'[k])
    <3>1. call'[k] =
        [stage |-> 1, page |-> c * N, slot |-> c % 3,
         tile |-> IF c * N + N > P - 1 THEN kv - (c * N) * 128 ELSE 128 * N,
         rows |-> RunningTotal(FourPages(l, t, c * N))[4],
         first |-> c = 0, last |-> FALSE]
      BY <1>1, <1>5, <2>2
    <3>2. Tile(l, t, c) = IF c * N + N > P - 1 THEN kv - (c * N) * 128 ELSE 128 * N
      BY <2>6 DEF Tile
    <3> HIDE DEF c, t, P, kv
    <3> QED BY <3>1, <3>2 DEF About
  <2> HIDE DEF t, c, T, S, B
  <2> QED BY <2>3, <2>5, <2>7 DEF T, S, B
<1> DEFINE d == c - 2
<1>8. ASSUME Loops(l)!MainStage2(k) \/ Loops(l)!SecondaryStage2(k) PROVE Made
  <2>1. /\ t <= T /\ 2 <= c /\ c < S + 2 /\ (loop[k] = "main" => c < S)
        /\ (loop[k] = "main" \/ loop[k] = "secondary")
        /\ issued' = [issued EXCEPT ![k] = [one |-> one, two |-> two + 1]]
        /\ call' = [call EXCEPT ![k] = Loops(l)!Stage2Call(k)]
    <3>1. CASE Loops(l)!MainStage2(k)
      <4>1. c < S => c < S + 2
        <5>1. t <= T
          BY <1>1, <3>1, MainStage2Effect
        <5> HIDE DEF c, S
        <5> QED BY <1>1, <1>2, <5>1
      <4> QED BY <1>1, <3>1, <4>1, MainStage2Effect DEF Becomes
    <3>2. CASE Loops(l)!SecondaryStage2(k)
      BY <1>1, <3>2, SecondaryStage2Effect DEF Becomes
    <3> QED BY <1>8, <3>1, <3>2
  <2>2. issued'[k] = [one |-> one, two |-> two + 1] /\ call'[k] = Loops(l)!Stage2Call(k)
    BY <2>1 DEF LoopTypes
  <2>3. d \in 0..(S - 1) /\ t \in 1..T
    <3> HIDE DEF c, S, t
    <3> QED BY <1>1, <1>2, <2>1
  <2>4. two = B + d
    BY <1>1, <2>1 DEF PlaceIn
  <2>5. Called(call'[k], issued'[k].one, issued'[k].two) = B + d
    <3>1. call'[k].stage = 2 /\ issued'[k].two = two + 1
      BY <1>6, <2>2
    <3>2. (two + 1) - 1 = two
      BY <1>1
    <3> HIDE DEF two, d, B
    <3> QED BY <2>4, <3>1, <3>2 DEF Called
  <2>6. d * N + N > P - 1 <=> d + 1 = S
    BY <2>3, LastStack
  <2>7. delayed = d * N
    <3> HIDE DEF c, N
    <3> QED BY <1>1, <1>2, <2>1
  <2>8. About(l, t, d, call'[k])
    <3>1. loop[k] = "main" => ~ (d + 1 = S)
      <4> HIDE DEF c, S
      <4> QED BY <1>1, <1>2, <2>1
    <3>2. call'[k].tile = Tile(l, t, d)
      BY <1>6, <2>2, <2>6, <2>7, <3>1 DEF Tile
    <3>3. (loop[k] = "secondary" /\ d = S - 1) = (d + 1 = S)
      <4> HIDE DEF d, S
      <4> QED BY <1>2, <2>1, <2>3, <3>1
    <3>4. /\ call'[k].stage = 2 /\ call'[k].page = d * N /\ call'[k].slot = d % 3
          /\ call'[k].rows = RunningTotal(FourPages(l, t, d * N))[4]
          /\ call'[k].first = (d = 0) /\ call'[k].last = (d + 1 = S)
      BY <1>6, <2>2, <2>7, <3>3
    <3> HIDE DEF d, t
    <3> QED BY <3>2, <3>4 DEF About
  <2> HIDE DEF t, d, T, S, B
  <2> QED BY <2>3, <2>5, <2>8 DEF T, S, B
<1>9. ASSUME Loops(l)!Quiet(k) PROVE call'[k] = call[k] /\ issued'[k] = issued[k]
  BY <1>9 DEF Loops!Quiet, Loops!EnterSecondary, Loops!SecondaryIdle, Loops!NextTask
<1> HIDE DEF Made
<1> QED BY <1>7, <1>8, <1>9 DEF LoopStep, Made

-----------------------------------------------------------------------------
(* The inductive invariant: of each kernel its place, and what its last    *)
(* call was given.                                                         *)
CallRight(l, k) ==
    call[k] # [stage |-> 0] =>
        /\ Fits(l, call[k], issued[k].one, issued[k].two)
        /\ Fills(l, call[k], issued[k].one, issued[k].two)

Inv ==
    /\ launch \in Launches
    /\ LoopTypes
    /\ \A l \in Launches : launch = l =>
          \A k \in BothKernels : LoopPlace(l, k) /\ CallRight(l, k)

(* Both kernels start at the first place, having made no call.             *)
LEMMA InitInv == Init => Inv
<1> SUFFICES ASSUME Init PROVE Inv
  OBVIOUS
<1>1. PICK l \in Launches : launch = l /\ Loops(l)!Init
  BY DEF Init
<1>2. /\ task = [k \in BothKernels |-> 1] /\ loop = [k \in BothKernels |-> "main"]
      /\ kvSIdx = [k \in BothKernels |-> 0] /\ stackSeqCount = [k \in BothKernels |-> 0]
      /\ stage2Next = [k \in BothKernels |-> FALSE]
      /\ issued = [k \in BothKernels |-> [one |-> 0, two |-> 0]]
      /\ call = [k \in BothKernels |-> [stage |-> 0]]
  BY <1>1 DEF Loops!Init, Loops!Kernels, Loops!NoCall, BothKernels
<1>3. LoopTypes
  BY <1>2 DEF LoopTypes
<1>4. ASSUME NEW k \in BothKernels PROVE LoopPlace(l, k) /\ CallRight(l, k)
  <2>1. PlaceIn(Len(l.kv), depth(l), Stacks(l, 1), Before(l, 1), 1, "main", 0, 0, FALSE, 0, 0)
    <3>1. Before(l, 1) = 0 /\ Len(l.kv) \in Nat /\ depth(l) \in Nat
      BY BeforeFacts, LaunchFacts
    <3>2. 1 <= Len(l.kv) => Stacks(l, 1) \in Nat
      <4>1. 1 <= Len(l.kv) => 1 \in 1..Len(l.kv)
        BY <3>1
      <4> QED BY <4>1, StacksFacts
    <3> QED BY <3>1, <3>2 DEF PlaceIn
  <2> QED BY <1>2, <2>1 DEF LoopPlace, Place, CallRight
<1> QED BY <1>1, <1>3, <1>4 DEF Inv

(* What a step of the composed module is to the loops.                     *)
LEMMA StepsOfLoops ==
    ASSUME NEW l \in Launches, launch = l, Next
    PROVE  /\ launch' = l
           /\ UNCHANGED loopVars \/ \E k \in BothKernels : LoopStep(l, k)
<1>1. CASE Step(l)
  <2>1. CASE LoadQGM(l) \/ CubeEnd(l)
    BY <2>1 DEF LoadQGM, CubeEnd
  <2>2. CASE CubeQK(l) \/ CubePV(l) \/ CubeQuiet(l)
    BY <2>2 DEF CubeQK, CubePV, CubeQuiet, LoopStep, BothKernels
  <2>3. CASE VectorSoftmax(l) \/ VectorRescale(l) \/ VectorQuiet(l)
    BY <2>3 DEF VectorSoftmax, VectorRescale, VectorQuiet, LoopStep, BothKernels
  <2> QED BY <1>1, <2>1, <2>2, <2>3 DEF Step
<1>2. ASSUME NEW p \in Pipes, RunPipe(p)
      PROVE  launch' = launch /\ UNCHANGED loopVars
  BY <1>2 DEF RunPipe
<1> QED BY <1>1, <1>2 DEF Next

(* Every step of the cube core, the vector core and the pipes keeps Inv.   *)
LEMMA NextInv == Inv /\ [Next]_vars => Inv'
<1> SUFFICES ASSUME Inv, [Next]_vars PROVE Inv'
  OBVIOUS
<1>1. PICK l \in Launches : launch = l
  BY DEF Inv
<1>2. LoopTypes /\ \A k \in BothKernels : LoopPlace(l, k) /\ CallRight(l, k)
  BY <1>1 DEF Inv
<1>3. /\ launch' = l
      /\ UNCHANGED loopVars \/ \E k \in BothKernels : LoopStep(l, k)
  <2>1. CASE Next
    BY <1>1, <2>1, StepsOfLoops
  <2>2. CASE UNCHANGED vars
    BY <1>1, <2>2 DEF vars
  <2> QED BY <2>1, <2>2
<1>4. SUFFICES LoopTypes' /\ \A k \in BothKernels : LoopPlace(l, k)' /\ CallRight(l, k)'
  BY <1>3 DEF Inv
<1>5. CASE UNCHANGED loopVars
  BY <1>2, <1>5 DEF loopVars, LoopTypes, LoopPlace, CallRight
<1>6. ASSUME NEW k \in BothKernels, LoopStep(l, k)
      PROVE  LoopTypes' /\ \A j \in BothKernels : LoopPlace(l, j)' /\ CallRight(l, j)'
  <2>1. /\ LoopTypes' /\ LoopPlace(l, k)'
        /\ \A j \in BothKernels : j # k => Same(j)
    BY <1>2, <1>6, KernelStep
  <2>2. CallRight(l, k)'
    <3>1. CASE call'[k] = call[k] /\ issued'[k] = issued[k]
      BY <1>2, <3>1 DEF CallRight
    <3>2. ASSUME NEW t \in 1..Len(l.kv), NEW c \in 0..(Stacks(l, t) - 1),
                 About(l, t, c, call'[k]),
                 Called(call'[k], issued'[k].one, issued'[k].two) = Before(l, t) + c
          PROVE  CallRight(l, k)'
      <4>1. /\ Fits(l, call'[k], issued'[k].one, issued'[k].two)
            /\ Fills(l, call'[k], issued'[k].one, issued'[k].two)
        BY <3>2, AboutFits, AboutFills
      <4> QED BY <4>1 DEF CallRight
    <3> QED BY <1>2, <1>6, <3>1, <3>2, CallMade
  <2>3. ASSUME NEW j \in BothKernels, j # k PROVE LoopPlace(l, j)' /\ CallRight(l, j)'
    <3>1. Same(j)
      BY <2>1, <2>3
    <3>2. LoopPlace(l, j)'
      BY <1>2, <3>1, SamePlace
    <3>3. CallRight(l, j)'
      BY <1>2, <3>1 DEF Same, CallRight
    <3> QED BY <3>2, <3>3
  <2> QED BY <2>1, <2>2, <2>3
<1> QED BY <1>3, <1>5, <1>6

-----------------------------------------------------------------------------
(* The theorems.                                                           *)

(* Both kernels are always at a place of the schedule, and the last call   *)
(* of each was right (kernel_fia_grain_floor.cpp:302-454, 611-737).        *)
THEOREM InvInvariant == Spec => []Inv
  BY InitInv, NextInv, PTL DEF Spec

(* Whatever the KV lengths and the depth, a call gets the slot, the first  *)
(* page, the width and isFirst / isLast of its stack                       *)
(* (kernel_fia_grain_floor.cpp:302-454, 611-737;                           *)
(* kernel_fa_fp32_stage1.cpp:297-449, 604-730).                            *)
THEOREM CallsFitTheirStacks == Spec => []CallFitsItsStack
<1>1. Inv => CallFitsItsStack
  <2> SUFFICES ASSUME Inv, NEW l \in Launches, launch = l PROVE Loops(l)!CallFitsItsStack
    BY DEF CallFitsItsStack
  <2>1. \A k \in BothKernels : CallRight(l, k)
    BY DEF Inv
  <2> QED BY <2>1 DEF Loops!CallFitsItsStack, Loops!CalledStack, Loops!Kernels, Loops!NoCall,
             Loops!pagedBlockSize, BothKernels, CallRight, Fits, Called
<1> QED BY <1>1, InvInvariant, PTL

(* Whatever the KV lengths and the depth, the pages of a matmul call add   *)
(* up to the width of its stack exactly for the depths that PagesFillTile  *)
(* says (block_mmad_fai_qk_normal.hpp:160-161;                             *)
(* kernel_fia_grain_floor.cpp:109-115).                                    *)
THEOREM PagesFillTiles == Spec => []PagesFillTile
<1>1. Inv => PagesFillTile
  <2> SUFFICES ASSUME Inv, NEW l \in Launches, launch = l PROVE Loops(l)!PagesFillTile
    BY DEF PagesFillTile
  <2>1. CallRight(l, "aic")
    BY DEF Inv, BothKernels
  <2>2. \A S : Loops(l)!Min(S) = Min(S)
    BY DEF Loops!Min, Min
  <2> QED BY <2>1, <2>2 DEF Loops!PagesFillTile, Loops!CalledStack, Loops!NoCall, Loops!CeilDiv,
             Loops!pagedBlockSize, Loops!UNIT_BLOCK_STACK_NUM, CallRight, Fills, Called, Pages
<1> QED BY <1>1, InvInvariant, PTL

StepFollows == \A l \in Launches : launch = l => Loops(l)!FollowsSchedule

(* The step formula of LoopsImplementSchedule.                             *)
LEMMA StepsFollow == Spec => [][StepFollows]_vars
<1>1. Inv /\ [Next]_vars => [StepFollows]_vars
  <2> SUFFICES ASSUME Inv, Next, NEW l \in Launches, launch = l
               PROVE  Loops(l)!FollowsSchedule
    BY DEF StepFollows
  <2>1. LoopTypes /\ \A k \in BothKernels : LoopPlace(l, k)
    BY DEF Inv
  <2>2. \A k \in BothKernels : Scheduled(l, k)
    <3>1. CASE UNCHANGED loopVars
      BY <3>1 DEF loopVars, Scheduled
    <3>2. ASSUME NEW k \in BothKernels, LoopStep(l, k)
          PROVE  \A j \in BothKernels : Scheduled(l, j)
      BY <2>1, <3>2, KernelScheduled, KernelStep DEF Same, Scheduled
    <3> QED BY <3>1, <3>2, StepsOfLoops
  <2>3. \A w : /\ Loops(l)!AIV!Stage1Due(w) <=> Loops(l)!AIC!Stage1Due(w)
               /\ Loops(l)!AIV!Stage2Due(w) <=> Loops(l)!AIC!Stage2Due(w)
    BY DEF Loops!AIV!Stage1Due, Loops!AIC!Stage1Due, Loops!AIV!Stage2Due,
           Loops!AIC!Stage2Due, Loops!AIV!PreLaunch, Loops!AIC!PreLaunch
  <2>4. UNCHANGED issued["aic"] \/ Loops(l)!AIC!Next
    BY <2>2 DEF BothKernels, Scheduled, Loops!AIC!Next, Loops!AIC!Stage1, Loops!AIC!Stage2
  <2>5. UNCHANGED issued["aiv"] \/ Loops(l)!AIV!Next
    BY <2>2, <2>3 DEF BothKernels, Scheduled, Loops!AIV!Next, Loops!AIV!Stage1, Loops!AIV!Stage2
  <2> QED BY <2>4, <2>5 DEF Loops!FollowsSchedule
<1> QED BY <1>1, InvInvariant, PTL DEF Spec

(* Whatever the KV lengths and the depth, both kernels make their calls in *)
(* the one order of the schedule (kernel_fia_grain_floor.cpp:302-454,      *)
(* 611-737).                                                               *)
THEOREM LoopsFollowSchedule == Spec => LoopsImplementSchedule
  BY StepsFollow, PTL DEF LoopsImplementSchedule, StepFollows

(* A kernel's calls are a behaviour of StackSchedule: of a launch, what is *)
(* issued starts at the start and moves as the schedule does.              *)
THEOREM LoopsRefineSchedule ==
    ASSUME NEW l \in Launches
    PROVE  Spec /\ launch = l => Loops(l)!AIC!Spec /\ Loops(l)!AIV!Spec
<1>1. Init /\ launch = l => Loops(l)!AIC!Init /\ Loops(l)!AIV!Init
  <2> SUFFICES ASSUME Init, launch = l PROVE Loops(l)!AIC!Init /\ Loops(l)!AIV!Init
    OBVIOUS
  <2>1. Loops(l)!Init
    BY DEF Init
  <2>2. issued = [k \in BothKernels |-> [one |-> 0, two |-> 0]]
    BY <2>1 DEF Loops!Init, Loops!Kernels, BothKernels
  <2> QED BY <2>2 DEF Loops!AIC!Init, Loops!AIV!Init, Loops!AIC!Start, Loops!AIV!Start,
                      BothKernels
<1>2. launch = l /\ [Next]_vars => (launch = l)'
  BY StepsOfLoops DEF vars
<1>3. /\ launch = l /\ [StepFollows]_vars
      => /\ [Loops(l)!AIC!Next]_(issued["aic"])
         /\ [Loops(l)!AIV!Next]_(issued["aiv"])
  BY DEF StepFollows, Loops!FollowsSchedule, vars, loopVars
<1>4. Spec /\ launch = l => [](launch = l)
  BY <1>2, PTL DEF Spec
<1>6. Spec /\ launch = l => /\ [][Loops(l)!AIC!Next]_(issued["aic"])
                           /\ [][Loops(l)!AIV!Next]_(issued["aiv"])
  BY <1>3, <1>4, StepsFollow, PTL
<1>7. Spec => Init
  BY PTL DEF Spec
<1> QED BY <1>1, <1>6, <1>7 DEF Loops!AIC!Spec, Loops!AIV!Spec

(* The stacks that the loops count are what FaiCrossCore assumes of them   *)
(* (StackAssumption of KvStacks).                                          *)
THEOREM StacksAreAsAssumed ==
    ASSUME NEW l \in Launches
    PROVE  LET stacks == Loops(l)!AIC!Stacks
               First == Loops(l)!FirstStack
           IN  /\ Loops(l)!TotalStacks \in Nat
               /\ First \in [stacks -> stacks]
               /\ \A g \in stacks : /\ First[g] <= g
                                    /\ \A h \in First[g]..g : First[h] = First[g]
<1> DEFINE stacks == Loops(l)!AIC!Stacks
           First == Loops(l)!FirstStack
           T == Len(l.kv)
<1>1. T \in Nat /\ Total(l) \in Nat
  <2>1. T \in Nat /\ Total(l) = Before(l, T + 1)
    BY BeforeFacts
  <2>2. T + 1 \in 1..(T + 1)
    BY <2>1
  <2> QED BY <2>1, <2>2, BeforeFacts
<1>2. stacks = 0..(Total(l) - 1)
  BY DEF Loops!AIC!Stacks, Total
<1>3. First = [g \in 0..(Total(l) - 1) |-> First[g]]
  BY DEF Loops!FirstStack, Total
<1>4. ASSUME NEW g \in 0..(Total(l) - 1)
      PROVE  /\ First[g] \in 0..(Total(l) - 1) /\ First[g] <= g
             /\ \A h \in First[g]..g : First[h] = First[g]
  <2>1. PICK t \in 1..T : Before(l, t) <= g /\ g < Before(l, t + 1)
    BY <1>1, SomeTask
  <2>2. /\ First[g] = Before(l, t) /\ Before(l, t) \in Nat
        /\ \A h \in Nat : Before(l, t) <= h /\ h <= g => h < Before(l, t + 1)
    <3>1. Before(l, t) \in Nat /\ Before(l, t + 1) \in Nat
      <4>1. t \in 1..(T + 1) /\ t + 1 \in 1..(T + 1)
        BY <1>1
      <4> QED BY <4>1, BeforeFacts
    <3>2. g \in Nat
      BY <1>1
    <3> QED BY <2>1, <3>1, <3>2, TaskOfStack
  <2>3. ASSUME NEW h \in First[g]..g PROVE First[h] = First[g]
    <3>1. h \in Nat /\ Before(l, t) <= h /\ h <= g
      BY <1>1, <2>2
    <3> QED BY <2>2, <3>1, TaskOfStack
  <2> QED BY <1>1, <2>1, <2>2, <2>3
<1> HIDE DEF stacks, First
<1>5. First \in [stacks -> stacks]
  BY <1>2, <1>3, <1>4
<1> QED BY <1>1, <1>2, <1>4, <1>5 DEF stacks, First, Total
=============================================================================
