-------------------------- MODULE FaiCrossCoreProofs --------------------------
(***************************************************************************)
(* Proofs about FaiCrossCore, for every list of tasks and every set of     *)
(* vector sub-blocks.                                                      *)
(*                                                                         *)
(* The argument: every unit walks the stacks in the same order, so the     *)
(* stacks between its two counters belong to one task and are at most      *)
(* three (InWindow); the flags order the units (InOrder); hence the stacks *)
(* whose slot someone may still have to read all lie in the window of one  *)
(* unit, where no two stacks share a slot (SlotsDiffer).                   *)
(***************************************************************************)
EXTENDS FaiCrossCore, SequenceTheorems, TLAPS

-----------------------------------------------------------------------------
(* The inductive invariant.                                                *)

(* The stacks a walker has had stage 1 of but not stage 2: of one task,    *)
(* and no more than there are slots.                                       *)
InWindow(w) ==
    /\ w.two <= w.one
    /\ w.one - w.two <= Slots
    /\ w.one > 0 => First[w.one - 1] <= w.two

Windows ==
    /\ InWindow(cube) /\ InWindow(fix)
    /\ \A v \in SubBlocks :
          InWindow(scalar[v]) /\ InWindow(mte2[v]) /\ InWindow(mte3[v])

(* A flag counts the stacks its producer is ahead of its consumer.         *)
FlagsCount ==
    \A v \in SubBlocks :
        /\ qkReady[v] = fix.one - scalar[v].one
        /\ softmaxReady[v] = mte3[v].one - cube.two
        /\ pvReady[v] = fix.two - scalar[v].two

(* Who is behind whom.                                                     *)
InOrder ==
    /\ fix.one <= cube.one
    /\ fix.two <= loaded /\ loaded <= cube.two
    /\ \A v \in SubBlocks :
        /\ cube.two <= mte3[v].one
        /\ mte3[v].one <= mte2[v].one /\ mte3[v].two <= mte2[v].two
        /\ mte2[v].one <= scalar[v].one /\ mte2[v].two <= scalar[v].two
        /\ scalar[v].one <= fix.one /\ scalar[v].two <= fix.two

(* Everything read so far was the stack that was meant.                    *)
ReadsRight ==
    \A v \in SubBlocks, g \in Stacks :
        /\ g < mte2[v].one => sRead[v][g] = g
        /\ g < loaded => pRead[v][g] = g
        /\ g < mte2[v].two => oRead[v][g] = g

Control == Windows /\ FlagsCount /\ InOrder

IInv == TypeOK /\ Control /\ UnreadSlotsIntact /\ ReadsRight

-----------------------------------------------------------------------------
(* What the assumption on the tasks says of a stack, in integers.          *)
LEMMA FirstFacts ==
    /\ NumStacks \in Nat
    /\ \A g \in Stacks :
          /\ g \in Int /\ First[g] \in Int
          /\ 0 <= First[g] /\ First[g] <= g
          /\ \A h \in Stacks : First[g] <= h /\ h <= g => First[h] = First[g]
  BY StackAssumption DEF Stacks

LEMMA WalkerFacts ==
    ASSUME NEW w \in Walker
    PROVE  /\ w.one \in Int /\ w.two \in Int
           /\ 0 <= w.one /\ w.one <= NumStacks
           /\ 0 <= w.two /\ w.two <= NumStacks
  BY FirstFacts DEF Walker

(* Two stacks of one task that are less than Slots apart differ in slot.   *)
LEMMA SlotsDiffer ==
    ASSUME NEW m \in Stacks, NEW g \in Stacks, NEW h \in Stacks,
           First[m] <= g, g < h, h <= m, h - g < Slots
    PROVE  Slot(g) # Slot(h)
<1>1. First[g] = First[m] /\ First[h] = First[m] /\ First[m] \in Int
  BY FirstFacts DEF Stacks
<1> QED
  BY <1>1 DEF Slot, Slots, PreLaunch, Stacks

(* The same, as the window of a walker sees it.                            *)
LEMMA WindowSlotsDiffer ==
    ASSUME NEW w \in Walker, InWindow(w),
           NEW g \in Stacks, NEW h \in Stacks,
           w.two <= g, g < w.one, w.two <= h, h < w.one, g # h
    PROVE  Slot(g) # Slot(h)
<1>1. w.one \in Int /\ w.two \in Int /\ g \in Int /\ h \in Int
  BY WalkerFacts, FirstFacts
<1>2. w.one - 1 \in Stacks
  BY <1>1, WalkerFacts, FirstFacts DEF Stacks
<1>3. First[w.one - 1] <= w.two /\ w.one - w.two <= 3
  BY <1>1, <1>2 DEF InWindow, Slots, PreLaunch, Stacks
<1>4. First[w.one - 1] <= g /\ First[w.one - 1] <= h
  BY <1>1, <1>2, <1>3, FirstFacts
<1>5. g <= w.one - 1 /\ h <= w.one - 1 /\ g - h < Slots /\ h - g < Slots
  BY <1>1, <1>3 DEF Slots, PreLaunch
<1>6. CASE g < h  BY <1>2, <1>4, <1>5, <1>6, SlotsDiffer
<1>7. CASE h < g  BY <1>2, <1>4, <1>5, <1>7, SlotsDiffer
<1> QED  BY <1>1, <1>6, <1>7

LEMMA SlotType == \A g \in Stacks : Slot(g) \in SlotIds
<1> SUFFICES ASSUME NEW g \in Stacks PROVE Slot(g) \in SlotIds
  OBVIOUS
<1>1. g - First[g] \in Int
  BY FirstFacts
<1> QED  BY <1>1 DEF Slot, Slots, PreLaunch, SlotIds

(* Taking a due stage keeps a walker a walker and its window small.        *)
LEMMA AdvanceOne ==
    ASSUME NEW w \in Walker, InWindow(w), Stage1Due(w)
    PROVE  /\ w.one \in Stacks
           /\ [w EXCEPT !.one = @ + 1] \in Walker
           /\ InWindow([w EXCEPT !.one = @ + 1])
<1> DEFINE x == [w EXCEPT !.one = @ + 1]
<1>1. w.one \in 0..NumStacks /\ w.two \in 0..NumStacks /\ w.one < NumStacks
  BY DEF Walker, Stage1Due
<1>2. x.one = w.one + 1 /\ x.two = w.two
  BY DEF Walker
<1>3. w.one \in Stacks /\ w.one + 1 \in 0..NumStacks
  BY <1>1, FirstFacts DEF Stacks
<1>4. x \in Walker
  BY <1>3 DEF Walker
<1>5. x.one - 1 = w.one
  BY <1>1, <1>2, FirstFacts
<1>6. First[x.one - 1] <= x.two
  BY <1>2, <1>5 DEF Stage1Due
<1>7. x.two <= x.one /\ x.one - x.two <= Slots
  BY <1>1, <1>2, FirstFacts DEF Stage1Due, InWindow, Slots, PreLaunch
<1> QED  BY <1>3, <1>4, <1>6, <1>7 DEF InWindow

LEMMA AdvanceTwo ==
    ASSUME NEW w \in Walker, InWindow(w), w.two < w.one
    PROVE  /\ w.two \in Stacks
           /\ [w EXCEPT !.two = @ + 1] \in Walker
           /\ InWindow([w EXCEPT !.two = @ + 1])
<1> DEFINE x == [w EXCEPT !.two = @ + 1]
<1>1. w.one \in 0..NumStacks /\ w.two \in 0..NumStacks
  BY DEF Walker
<1>2. x.one = w.one /\ x.two = w.two + 1
  BY DEF Walker
<1>3. w.two \in Stacks /\ w.two + 1 \in 0..NumStacks /\ w.one - 1 \in Stacks
  BY <1>1, FirstFacts DEF Stacks
<1>4. x \in Walker
  BY <1>3 DEF Walker
<1>5. First[w.one - 1] <= w.two /\ First[w.one - 1] \in Int
  BY <1>1, <1>3, FirstFacts DEF InWindow
<1>6. First[x.one - 1] <= x.two
  BY <1>1, <1>2, <1>5, FirstFacts
<1>7. x.two <= x.one /\ x.one - x.two <= Slots
  BY <1>1, <1>2, FirstFacts DEF InWindow, Slots, PreLaunch
<1> QED  BY <1>3, <1>4, <1>6, <1>7 DEF InWindow

-----------------------------------------------------------------------------
(* Initially nothing is in the pipes.                                      *)
LEMMA InitIInv == Init => IInv
<1> SUFFICES ASSUME Init PROVE IInv
  OBVIOUS
<1> USE FirstFacts DEF Init, PerSubBlock, Start
<1>1. Start \in Walker /\ InWindow(Start)
  BY DEF Walker, InWindow, Slots, PreLaunch
<1>2. EmptySlots \in [SlotIds -> Content] /\ NothingRead \in [Stacks -> Content]
  BY DEF EmptySlots, NothingRead, Content
<1>3. TypeOK
  BY <1>1, <1>2 DEF TypeOK
<1>4. Windows
  BY <1>1 DEF Windows
<1>5. FlagsCount /\ InOrder
  BY DEF FlagsCount, InOrder
<1>6. UnreadSlotsIntact /\ ReadsRight
  BY DEF UnreadSlotsIntact, ReadsRight
<1> QED  BY <1>3, <1>4, <1>5, <1>6 DEF IInv, Control

-----------------------------------------------------------------------------
(* Types and windows: each action moves one counter of one walker.         *)
LEMMA WalkersStep ==
    ASSUME TypeOK, Control, [Next]_vars
    PROVE  /\ cube' \in Walker /\ loaded' \in 0..NumStacks /\ fix' \in Walker
           /\ scalar' \in [SubBlocks -> Walker]
           /\ mte2' \in [SubBlocks -> Walker]
           /\ mte3' \in [SubBlocks -> Walker]
           /\ Windows'
<1> USE DEF TypeOK, Control, Windows
<1>1. CASE CubeQK
  BY <1>1, AdvanceOne DEF CubeQK, aiv
<1>2. CASE CubePV
  BY <1>2, AdvanceTwo DEF CubePV, aiv, Stage2Due
<1>3. CASE LoadP
  <2>1. loaded + 1 \in 0..NumStacks
    BY <1>3, WalkerFacts, FirstFacts DEF LoadP
  <2> QED  BY <1>3, <2>1 DEF LoadP, aiv
<1>4. CASE FixS
  BY <1>4, AdvanceOne DEF FixS, aiv
<1>5. CASE FixO
  BY <1>5, AdvanceTwo DEF FixO, aiv, Stage2Due
<1>6. ASSUME NEW v \in SubBlocks, IssueSoftmax(v) PROVE Windows' /\ scalar' \in [SubBlocks -> Walker]
  BY <1>6, AdvanceOne DEF IssueSoftmax, aic
<1>7. ASSUME NEW v \in SubBlocks, IssueRescale(v) PROVE Windows' /\ scalar' \in [SubBlocks -> Walker]
  BY <1>7, AdvanceTwo DEF IssueRescale, aic, Stage2Due
<1>8. ASSUME NEW v \in SubBlocks, CopyS(v) PROVE Windows' /\ mte2' \in [SubBlocks -> Walker]
  BY <1>8, AdvanceOne DEF CopyS, aic
<1>9. ASSUME NEW v \in SubBlocks, CopyOTmp(v) PROVE Windows' /\ mte2' \in [SubBlocks -> Walker]
  BY <1>9, AdvanceTwo DEF CopyOTmp, aic, Stage2Due
<1>10. ASSUME NEW v \in SubBlocks, WriteP(v) PROVE Windows' /\ mte3' \in [SubBlocks -> Walker]
  BY <1>10, AdvanceOne DEF WriteP, aic
<1>11. ASSUME NEW v \in SubBlocks, WriteO(v) PROVE Windows' /\ mte3' \in [SubBlocks -> Walker]
  BY <1>11, AdvanceTwo DEF WriteO, aic, Stage2Due
<1>12. CASE UNCHANGED vars
  BY <1>12 DEF vars, aic, aiv
<1> QED
  BY <1>1, <1>2, <1>3, <1>4, <1>5, <1>6, <1>7, <1>8, <1>9, <1>10, <1>11, <1>12
  DEF Next, Cube, Fix, Scalar, Mte2, Mte3, Terminated, IssueSoftmax,
      IssueRescale, CopyS, CopyOTmp, WriteP, WriteO, aic

(* Counters and flags: a flag is raised when its producer advances and     *)
(* lowered when its consumer does, and a consumer waits for its flag.      *)
CountersAreInts ==
    /\ cube.one \in Int /\ cube.two \in Int /\ loaded \in Int
    /\ fix.one \in Int /\ fix.two \in Int
    /\ \A v \in SubBlocks :
        /\ scalar[v].one \in Int /\ scalar[v].two \in Int
        /\ mte2[v].one \in Int /\ mte2[v].two \in Int
        /\ mte3[v].one \in Int /\ mte3[v].two \in Int

LEMMA CountersType == TypeOK => CountersAreInts
  BY FirstFacts, WalkerFacts DEF TypeOK, CountersAreInts

LEMMA OrderStep ==
    ASSUME TypeOK, Control, [Next]_vars
    PROVE  FlagsCount' /\ InOrder'
<1> USE DEF TypeOK, Control, FlagsCount, InOrder
<1>t. /\ cube \in [one : Int, two : Int] /\ fix \in [one : Int, two : Int]
      /\ scalar \in [SubBlocks -> [one : Int, two : Int]]
      /\ mte2 \in [SubBlocks -> [one : Int, two : Int]]
      /\ mte3 \in [SubBlocks -> [one : Int, two : Int]]
      /\ loaded \in Int
  BY FirstFacts DEF Walker
<1>1. CASE CubeQK
  BY <1>1, <1>t DEF CubeQK, aiv, flags
<1>2. CASE CubePV
  BY <1>2, <1>t DEF CubePV, aiv, LowerAll
<1>3. CASE LoadP
  BY <1>3, <1>t DEF LoadP, aiv, flags
<1>4. CASE FixS
  BY <1>4, <1>t DEF FixS, aiv, RaiseAll
<1>5. CASE FixO
  BY <1>5, <1>t DEF FixO, aiv, RaiseAll
<1>6. ASSUME NEW v \in SubBlocks, IssueSoftmax(v) PROVE FlagsCount' /\ InOrder'
  BY <1>6, <1>t DEF IssueSoftmax, aic, Lower
<1>7. ASSUME NEW v \in SubBlocks, IssueRescale(v) PROVE FlagsCount' /\ InOrder'
  BY <1>7, <1>t DEF IssueRescale, aic, Lower
<1>8. ASSUME NEW v \in SubBlocks, CopyS(v) PROVE FlagsCount' /\ InOrder'
  BY <1>8, <1>t DEF CopyS, aic, flags
<1>9. ASSUME NEW v \in SubBlocks, CopyOTmp(v) PROVE FlagsCount' /\ InOrder'
  BY <1>9, <1>t DEF CopyOTmp, aic, flags
<1>10. ASSUME NEW v \in SubBlocks, WriteP(v) PROVE FlagsCount' /\ InOrder'
  BY <1>10, <1>t DEF WriteP, aic, Raise
<1>11. ASSUME NEW v \in SubBlocks, WriteO(v) PROVE FlagsCount' /\ InOrder'
  BY <1>11, <1>t DEF WriteO, aic, flags
<1>12. CASE UNCHANGED vars
  BY <1>12 DEF vars, aic, aiv, flags
<1> QED
  BY <1>1, <1>2, <1>3, <1>4, <1>5, <1>6, <1>7, <1>8, <1>9, <1>10, <1>11, <1>12
  DEF Next, Cube, Fix, Scalar, Mte2, Mte3, Terminated

LEMMA TypeStep ==
    ASSUME TypeOK, Control, UnreadSlotsIntact, [Next]_vars
    PROVE  TypeOK'
<1>1. /\ qkReady' \in [SubBlocks -> Int] /\ softmaxReady' \in [SubBlocks -> Int]
      /\ pvReady' \in [SubBlocks -> Int]
  BY DEF TypeOK, Next, vars, aic, aiv, flags, Cube, Fix, Scalar, Mte2, Mte3,
         CubeQK, CubePV, LoadP, FixS, FixO, IssueSoftmax, IssueRescale, CopyS,
         CopyOTmp, WriteP, WriteO, Terminated, RaiseAll, LowerAll, Raise, Lower
<1>2. /\ qkReady' \in [SubBlocks -> Nat] /\ softmaxReady' \in [SubBlocks -> Nat]
      /\ pvReady' \in [SubBlocks -> Nat]
  <2> SUFFICES ASSUME NEW v \in SubBlocks
               PROVE  qkReady'[v] >= 0 /\ softmaxReady'[v] >= 0 /\ pvReady'[v] >= 0
    BY <1>1
  <2>1. /\ cube'.two \in Int /\ fix'.one \in Int /\ fix'.two \in Int
        /\ scalar'[v].one \in Int /\ scalar'[v].two \in Int /\ mte3'[v].one \in Int
    BY WalkersStep, WalkerFacts
  <2> QED  BY <2>1, OrderStep DEF FlagsCount, InOrder
<1>3. /\ gS' \in [SlotIds -> Content] /\ gP' \in [SubBlocks -> [SlotIds -> Content]]
      /\ gOTmp' \in [SubBlocks -> [SlotIds -> Content]]
  <2>1. CASE FixS
    <3>1. fix.one \in Stacks
      BY <2>1, AdvanceOne DEF FixS, TypeOK, Control, Windows
    <3> QED  BY <2>1, <3>1 DEF FixS, TypeOK, Content
  <2>2. CASE FixO
    <3>1. fix.two \in Stacks
      BY <2>2, AdvanceTwo DEF FixO, Stage2Due, TypeOK, Control, Windows
    <3>2. ASSUME NEW v \in SubBlocks
          PROVE  [gOTmp[v] EXCEPT ![Slot(fix.two)] = pRead[v][fix.two]]
                    \in [SlotIds -> Content]
      BY <3>1 DEF TypeOK
    <3> QED  BY <2>2, <3>2 DEF FixO, TypeOK
  <2>3. ASSUME NEW v \in SubBlocks, WriteP(v)
        PROVE  gS' = gS /\ gP' \in [SubBlocks -> [SlotIds -> Content]] /\ gOTmp' = gOTmp
    <3>1. mte3[v].one \in Stacks
      BY <2>3, AdvanceOne DEF WriteP, TypeOK, Control, Windows
    <3>2. sRead[v][mte3[v].one] \in Content
      BY <3>1 DEF TypeOK
    <3>3. [gP[v] EXCEPT ![Slot(mte3[v].one)] = sRead[v][mte3[v].one]]
             \in [SlotIds -> Content]
      BY <3>2 DEF TypeOK
    <3> QED  BY <2>3, <3>3 DEF WriteP, TypeOK
  <2> QED
    BY <2>1, <2>2, <2>3
    DEF TypeOK, Next, vars, workspace, Cube, Fix, Scalar, Mte2, Mte3, CubeQK,
        CubePV, LoadP, IssueSoftmax, IssueRescale, CopyS, CopyOTmp, WriteO,
        Terminated
<1>4. /\ sRead' \in [SubBlocks -> [Stacks -> Content]]
      /\ pRead' \in [SubBlocks -> [Stacks -> Content]]
      /\ oRead' \in [SubBlocks -> [Stacks -> Content]]
  <2>1. CASE LoadP
    <3>1. loaded \in Stacks
      BY <2>1, FirstFacts DEF LoadP, TypeOK, Walker, Stacks
    <3> QED  BY <2>1, <3>1, SlotType DEF LoadP, TypeOK
  <2>2. ASSUME NEW v \in SubBlocks, CopyS(v)
        PROVE  sRead' \in [SubBlocks -> [Stacks -> Content]] /\ pRead' = pRead /\ oRead' = oRead
    <3>1. mte2[v].one \in Stacks
      BY <2>2, AdvanceOne DEF CopyS, TypeOK, Control, Windows
    <3> QED  BY <2>2, <3>1, SlotType DEF CopyS, TypeOK
  <2>3. ASSUME NEW v \in SubBlocks, CopyOTmp(v)
        PROVE  oRead' \in [SubBlocks -> [Stacks -> Content]] /\ pRead' = pRead /\ sRead' = sRead
    <3>1. mte2[v].two \in Stacks
      BY <2>3, AdvanceTwo DEF CopyOTmp, Stage2Due, TypeOK, Control, Windows
    <3> QED  BY <2>3, <3>1, SlotType DEF CopyOTmp, TypeOK
  <2> QED
    BY <2>1, <2>2, <2>3
    DEF TypeOK, Next, vars, reads, Cube, Fix, Scalar, Mte2, Mte3, CubeQK,
        CubePV, FixS, FixO, IssueSoftmax, IssueRescale, WriteP, WriteO,
        Terminated
<1> QED  BY <1>2, <1>3, <1>4, WalkersStep DEF TypeOK

-----------------------------------------------------------------------------
(* A write never hits a slot that still has a reader: the written stack    *)
(* and the unread one are in the window of the same unit.                  *)
LEMMA SlotsStep ==
    ASSUME IInv, [Next]_vars
    PROVE  UnreadSlotsIntact'
<1> USE DEF IInv, Control, Windows
<1>c. CountersAreInts
  BY CountersType
<1>0. \A g \in Stacks : g \in Int
  BY FirstFacts
<1>1. CASE FixS
  <2> SUFFICES ASSUME NEW v \in SubBlocks, NEW g \in Stacks,
                      mte2[v].one <= g, g < fix.one + 1
               PROVE  gS'[Slot(g)] = g
    BY <1>1 DEF FixS, UnreadSlotsIntact, aiv
  <2>1. fix.one \in Stacks /\ fix.one < cube.one /\ g <= fix.one
    BY <1>0, <1>1, AdvanceOne, <1>c DEF CountersAreInts, TypeOK, FixS
  <2>2. CASE g = fix.one
    BY <1>1, <2>2, SlotType DEF FixS, TypeOK
  <2>3. CASE g # fix.one
    <3>1. gS[Slot(g)] = g
      BY <1>0, <1>c, <2>1, <2>3 DEF UnreadSlotsIntact, CountersAreInts
    <3>2. cube.two <= g /\ g < cube.one /\ cube.two <= fix.one
      BY <1>0, <2>1, <1>c DEF CountersAreInts, InOrder
    <3>3. Slot(g) # Slot(fix.one)
      BY <2>1, <2>3, <3>2, WindowSlotsDiffer DEF TypeOK
    <3> QED  BY <1>1, <2>1, <3>1, <3>3, SlotType DEF FixS, TypeOK
  <2> QED  BY <2>2, <2>3
<1>2. CASE FixO
  <2> SUFFICES ASSUME NEW v \in SubBlocks, NEW g \in Stacks,
                      mte2[v].two <= g, g < fix.two + 1
               PROVE  gOTmp'[v][Slot(g)] = g
    BY <1>2 DEF FixO, UnreadSlotsIntact, aiv
  <2>1. fix.two \in Stacks /\ fix.two < loaded /\ g <= fix.two
    BY <1>0, <1>2, AdvanceTwo, <1>c DEF CountersAreInts, TypeOK, FixO, Stage2Due
  <2>2. pRead[v][fix.two] = fix.two
    BY <2>1 DEF ReadsRight
  <2>3. CASE g = fix.two
    BY <1>2, <2>2, <2>3, SlotType DEF FixO, TypeOK
  <2>4. CASE g # fix.two
    <3>1. gOTmp[v][Slot(g)] = g
      BY <1>0, <1>c, <2>1, <2>4 DEF UnreadSlotsIntact, CountersAreInts
    <3>2. /\ g < mte2[v].one /\ fix.two < mte2[v].one
          /\ mte2[v].two <= fix.two
      BY <1>0, <2>1, <1>c DEF CountersAreInts, InOrder
    <3>3. Slot(g) # Slot(fix.two)
      BY <2>1, <2>4, <3>2, WindowSlotsDiffer DEF TypeOK
    <3> QED  BY <1>2, <2>1, <3>1, <3>3, SlotType DEF FixO, TypeOK
  <2> QED  BY <2>3, <2>4
<1>3. ASSUME NEW u \in SubBlocks, WriteP(u) PROVE UnreadSlotsIntact'
  <2> SUFFICES ASSUME NEW v \in SubBlocks, NEW g \in Stacks,
                      loaded <= g, g < mte3'[v].one
               PROVE  gP'[v][Slot(g)] = g
    BY <1>3 DEF WriteP, UnreadSlotsIntact, aic
  <2>1. CASE v # u
    BY <1>3, <2>1 DEF WriteP, UnreadSlotsIntact
  <2>2. CASE v = u
    <3>1. /\ mte3[v].one \in Stacks /\ mte3[v].one < mte2[v].one
          /\ g <= mte3[v].one
      BY <1>0, <1>3, <2>2, AdvanceOne, <1>c DEF CountersAreInts, TypeOK, WriteP
    <3>2. sRead[v][mte3[v].one] = mte3[v].one
      BY <3>1 DEF ReadsRight
    <3>3. CASE g = mte3[v].one
      BY <1>3, <2>2, <3>2, <3>3, SlotType DEF WriteP, TypeOK
    <3>4. CASE g # mte3[v].one
      <4>1. gP[v][Slot(g)] = g
        BY <1>0, <3>1, <3>4, <1>c DEF CountersAreInts, UnreadSlotsIntact
      <4>2. /\ fix.two <= g /\ g < fix.one
            /\ fix.two <= mte3[v].one /\ mte3[v].one < fix.one
        BY <1>0, <3>1, <1>c DEF CountersAreInts, InOrder
      <4>3. Slot(g) # Slot(mte3[v].one)
        BY <3>1, <3>4, <4>2, WindowSlotsDiffer DEF TypeOK
      <4> QED  BY <1>3, <2>2, <3>1, <4>1, <4>3, SlotType DEF WriteP, TypeOK
    <3> QED  BY <3>3, <3>4
  <2> QED  BY <2>1, <2>2
<1>4. CASE LoadP
  BY <1>0, <1>4, <1>c DEF CountersAreInts, LoadP, UnreadSlotsIntact, aiv, workspace
<1>5. ASSUME NEW u \in SubBlocks, CopyS(u) \/ CopyOTmp(u) PROVE UnreadSlotsIntact'
  <2>1. UNCHANGED <<fix, loaded, mte3, gS, gP, gOTmp>>
    BY <1>5 DEF CopyS, CopyOTmp, aic, workspace
  <2>2. ASSUME NEW v \in SubBlocks
        PROVE  mte2[v].one <= mte2'[v].one /\ mte2[v].two <= mte2'[v].two
    <3>1. CASE v # u
      BY <1>5, <1>c, <3>1 DEF CopyS, CopyOTmp, CountersAreInts, TypeOK
    <3>2. CASE v = u
      <4>1. mte2[u] \in Walker
        BY DEF TypeOK
      <4>2. \/ mte2'[u] = [mte2[u] EXCEPT !.one = @ + 1]
            \/ mte2'[u] = [mte2[u] EXCEPT !.two = @ + 1]
        BY <1>5 DEF CopyS, CopyOTmp, TypeOK
      <4> QED  BY <1>c, <3>2, <4>1, <4>2 DEF CountersAreInts, Walker
    <3> QED  BY <3>1, <3>2
  <2>3. \A v \in SubBlocks : mte2'[v].one \in Int /\ mte2'[v].two \in Int
    BY WalkersStep, WalkerFacts
  <2> QED
    BY <1>0, <1>c, <2>1, <2>2, <2>3 DEF CountersAreInts, UnreadSlotsIntact
<1>6. ASSUME NEW v \in SubBlocks, WriteO(v) PROVE UnreadSlotsIntact'
  BY <1>6 DEF WriteO, UnreadSlotsIntact, aic, workspace
<1>7. CASE CubeQK \/ CubePV
  BY <1>7 DEF CubeQK, CubePV, UnreadSlotsIntact, aiv, workspace
<1>8. ASSUME NEW v \in SubBlocks, IssueSoftmax(v) \/ IssueRescale(v)
      PROVE  UnreadSlotsIntact'
  BY <1>8 DEF IssueSoftmax, IssueRescale, UnreadSlotsIntact, aic, workspace
<1>9. CASE UNCHANGED vars
  BY <1>9 DEF vars, UnreadSlotsIntact, aic, aiv, workspace
<1> QED
  BY <1>1, <1>2, <1>3, <1>4, <1>5, <1>6, <1>7, <1>8, <1>9
  DEF Next, Cube, Fix, Scalar, Mte2, Mte3, Terminated

(* What is read is the stack that was meant: its slot was still intact.    *)
LEMMA ReadsStep ==
    ASSUME IInv, [Next]_vars
    PROVE  ReadsRight'
<1> USE DEF IInv, Control, Windows
<1>0. \A g \in Stacks : g \in Int
  BY FirstFacts
<1>c. CountersAreInts
  BY CountersType
<1>1. CASE LoadP
  <2>1. loaded \in Stacks /\ \A v \in SubBlocks : loaded < mte3[v].one
    BY <1>1, <1>c, FirstFacts DEF LoadP, CountersAreInts, InOrder, TypeOK, Walker, Stacks
  <2>2. \A v \in SubBlocks : gP[v][Slot(loaded)] = loaded
    BY <1>c, <2>1 DEF UnreadSlotsIntact, CountersAreInts
  <2>3. \A v \in SubBlocks, g \in Stacks : g < loaded + 1 => pRead'[v][g] = g
    BY <1>0, <1>1, <1>c, <2>1, <2>2 DEF LoadP, CountersAreInts, ReadsRight, TypeOK
  <2> QED  BY <1>1, <2>3 DEF LoadP, ReadsRight, aiv
<1>2. ASSUME NEW u \in SubBlocks, CopyS(u) PROVE ReadsRight'
  <2>1. mte2[u].one \in Stacks /\ mte2[u].one < fix.one
    BY <1>2, <1>c, AdvanceOne DEF CopyS, CountersAreInts, InOrder, TypeOK
  <2>2. gS[Slot(mte2[u].one)] = mte2[u].one
    BY <1>c, <2>1 DEF UnreadSlotsIntact, CountersAreInts
  <2>3. ASSUME NEW v \in SubBlocks, NEW g \in Stacks, g < mte2'[v].one
        PROVE  sRead'[v][g] = g
    <3>1. CASE v = u /\ g = mte2[u].one
      BY <1>2, <2>1, <2>2, <3>1 DEF CopyS, TypeOK
    <3>2. CASE ~(v = u /\ g = mte2[u].one)
      <4>1. mte2'[v].one = IF v = u THEN mte2[u].one + 1 ELSE mte2[v].one
        BY <1>2 DEF CopyS, TypeOK, Walker
      <4>2. g < mte2[v].one
        BY <1>0, <1>c, <2>1, <2>3, <3>2, <4>1 DEF CountersAreInts
      <4> QED  BY <1>2, <2>1, <3>2, <4>2 DEF CopyS, ReadsRight, TypeOK
    <3> QED  BY <3>1, <3>2
  <2>4. \A v \in SubBlocks : mte2'[v].two = mte2[v].two
    BY <1>2 DEF CopyS, TypeOK, Walker
  <2> QED  BY <1>2, <2>3, <2>4 DEF CopyS, ReadsRight, aic
<1>3. ASSUME NEW u \in SubBlocks, CopyOTmp(u) PROVE ReadsRight'
  <2>1. mte2[u].two \in Stacks /\ mte2[u].two < fix.two
    BY <1>3, <1>c, AdvanceTwo DEF CopyOTmp, Stage2Due, CountersAreInts, InOrder, TypeOK
  <2>2. gOTmp[u][Slot(mte2[u].two)] = mte2[u].two
    BY <1>c, <2>1 DEF UnreadSlotsIntact, CountersAreInts
  <2>3. ASSUME NEW v \in SubBlocks, NEW g \in Stacks, g < mte2'[v].two
        PROVE  oRead'[v][g] = g
    <3>1. CASE v = u /\ g = mte2[u].two
      BY <1>3, <2>1, <2>2, <3>1 DEF CopyOTmp, TypeOK
    <3>2. CASE ~(v = u /\ g = mte2[u].two)
      <4>1. mte2'[v].two = IF v = u THEN mte2[u].two + 1 ELSE mte2[v].two
        BY <1>3 DEF CopyOTmp, TypeOK, Walker
      <4>2. g < mte2[v].two
        BY <1>0, <1>c, <2>1, <2>3, <3>2, <4>1 DEF CountersAreInts
      <4> QED  BY <1>3, <2>1, <3>2, <4>2 DEF CopyOTmp, ReadsRight, TypeOK
    <3> QED  BY <3>1, <3>2
  <2>4. \A v \in SubBlocks : mte2'[v].one = mte2[v].one
    BY <1>3 DEF CopyOTmp, TypeOK, Walker
  <2> QED  BY <1>3, <2>3, <2>4 DEF CopyOTmp, ReadsRight, aic
<1>4. CASE UNCHANGED <<mte2, loaded, sRead, pRead, oRead>>
  BY <1>4 DEF ReadsRight
<1> QED
  BY <1>1, <1>2, <1>3, <1>4
  DEF Next, vars, aic, aiv, reads, Cube, Fix, Scalar, Mte2, Mte3, CubeQK,
      CubePV, FixS, FixO, IssueSoftmax, IssueRescale, WriteP, WriteO, Terminated

-----------------------------------------------------------------------------
(* The theorems.                                                           *)

(* The invariant holds in every reachable state.                           *)
THEOREM Invariance == Spec => []IInv
<1>1. Init => IInv
  BY InitIInv
<1>2. IInv /\ [Next]_vars => IInv'
  <2> SUFFICES ASSUME IInv, [Next]_vars PROVE IInv'
    OBVIOUS
  <2>1. TypeOK'
    BY TypeStep DEF IInv
  <2>2. Control'
    BY WalkersStep, OrderStep DEF IInv, Control
  <2> QED  BY <2>1, <2>2, SlotsStep, ReadsStep DEF IInv
<1> QED  BY <1>1, <1>2, PTL DEF Spec

(* Every variable keeps its type; in particular no flag is ever lowered    *)
(* below zero.                                                             *)
THEOREM TypeCorrect == Spec => []TypeOK
<1>1. IInv => TypeOK
  BY DEF IInv
<1> QED  BY <1>1, Invariance, PTL

(* With three workspace slots and no flag from reader back to writer, no   *)
(* S, P or OTmp is overwritten before its last reader is through, whatever *)
(* the tasks are (workspace offsets in kernel_fa_fp32_stage1.cpp).         *)
THEOREM SlotsIntact == Spec => []UnreadSlotsIntact
<1>1. IInv => UnreadSlotsIntact
  BY DEF IInv
<1> QED  BY <1>1, Invariance, PTL

(* Each rescale of O folds the P*V of the stack it was called for.         *)
THEOREM FoldsRightStack == Spec => []RescaleFoldsItsStack
<1>1. IInv => RescaleFoldsItsStack
  BY DEF IInv, ReadsRight, RescaleFoldsItsStack
<1> QED  BY <1>1, Invariance, PTL

(* Whatever the tasks, goUb and the lse staging are free when the next     *)
(* task's first rescale may touch them, with no event to say so.           *)
THEOREM OutputOut == Spec => []OutputOutBeforeReuse
<1>1. ASSUME IInv PROVE OutputOutBeforeReuse
  <2> SUFFICES ASSUME NEW v \in SubBlocks, NEW g \in Stacks, g < scalar[v].two
               PROVE  First[g] <= mte3[v].two
    BY DEF OutputOutBeforeReuse
  <2> DEFINE m == mte3[v].one - 1
  <2>1. CountersAreInts
    BY <1>1, CountersType DEF IInv
  <2>2. m \in Stacks /\ g <= m
    <3>1. g < mte3[v].one
      BY <1>1, <2>1, FirstFacts DEF IInv, Control, InOrder, CountersAreInts
    <3>2. mte3[v].one <= NumStacks
      BY <1>1, WalkerFacts DEF IInv, TypeOK
    <3> QED  BY <2>1, <3>1, <3>2, FirstFacts DEF CountersAreInts, Stacks
  <2>3. First[m] <= mte3[v].two
    BY <1>1, <2>1, <2>2 DEF IInv, Control, Windows, InWindow, CountersAreInts, Stacks
  <2>4. First[g] <= First[m]
    <3>1. CASE First[m] <= g  BY <2>2, <3>1, FirstFacts
    <3>2. CASE First[m] > g   BY <2>2, <3>2, FirstFacts
    <3> QED  BY <2>2, <3>1, <3>2, FirstFacts
  <2> QED  BY <2>1, <2>2, <2>3, <2>4, FirstFacts DEF CountersAreInts
<1> QED  BY <1>1, Invariance, PTL

(* No flag is raised more than three times ahead of its waits; the         *)
(* hardware counters overflow at fifteen.                                  *)
THEOREM FlagDepth == Spec => []FlagDepthBounded
<1>1. ASSUME IInv PROVE FlagDepthBounded
  <2> SUFFICES ASSUME NEW v \in SubBlocks
               PROVE  qkReady[v] <= 3 /\ softmaxReady[v] <= 3 /\ pvReady[v] <= 3
    BY DEF FlagDepthBounded, Slots, PreLaunch
  <2>1. CountersAreInts
    BY <1>1, CountersType DEF IInv
  <2>2. /\ fix.one - cube.two <= 3 /\ mte3[v].one - cube.two <= 3
        /\ fix.two <= scalar[v].one /\ scalar[v].one - scalar[v].two <= 3
        /\ cube.two <= scalar[v].one
    BY <1>1, <2>1 DEF IInv, Control, Windows, InWindow, InOrder, CountersAreInts,
                      Slots, PreLaunch
  <2> QED  BY <1>1, <2>1, <2>2 DEF IInv, Control, FlagsCount, CountersAreInts
<1> QED  BY <1>1, Invariance, PTL

-----------------------------------------------------------------------------
(* Freedom from deadlock.                                                  *)

(* The guards of the units' actions: a unit goes on when its next call is  *)
(* due and what the call waits for is there.                               *)
CubeGoesOn ==
    Stage1Due(cube) \/ (Stage2Due(cube) /\ \A v \in SubBlocks : softmaxReady[v] > 0)
LoadGoesOn == loaded < cube.two
FixGoesOn ==
    (Stage1Due(fix) /\ fix.one < cube.one) \/ (Stage2Due(fix) /\ fix.two < loaded)
ScalarGoesOn(v) ==
    (Stage1Due(scalar[v]) /\ qkReady[v] > 0) \/ (Stage2Due(scalar[v]) /\ pvReady[v] > 0)
Follows(w, x) == (Stage1Due(w) /\ w.one < x.one) \/ (Stage2Due(w) /\ w.two < x.two)
SomeoneGoesOn ==
    \/ CubeGoesOn \/ LoadGoesOn \/ FixGoesOn
    \/ \E v \in SubBlocks :
          ScalarGoesOn(v) \/ Follows(mte2[v], scalar[v]) \/ Follows(mte3[v], mte2[v])

(* A walker that is not through has something due.                         *)
LEMMA SomethingDue ==
    ASSUME NEW w \in Walker, InWindow(w), ~Finished(w)
    PROVE  Stage1Due(w) \/ Stage2Due(w)
<1>1. /\ w.one \in Int /\ w.two \in Int /\ 0 <= w.two /\ w.one <= NumStacks
      /\ w.two <= NumStacks /\ w.two <= w.one /\ w.two # NumStacks
  BY WalkerFacts DEF InWindow, Finished
<1>2. CASE w.two < w.one
  BY <1>2 DEF Stage2Due
<1>3. CASE w.two = w.one
  <2>1. w.one \in Stacks
    BY <1>1, <1>3, FirstFacts DEF Stacks
  <2> QED BY <1>1, <1>3, <2>1, FirstFacts DEF Stage1Due, PreLaunch
<1> QED BY <1>1, <1>2, <1>3

(* Tasks begin in order.                                                   *)
LEMMA FirstGrows ==
    ASSUME NEW g \in Stacks, NEW h \in Stacks, g <= h
    PROVE  First[g] <= First[h]
<1>1. CASE First[h] <= g
  BY <1>1, FirstFacts
<1>2. CASE g < First[h]
  BY <1>2, FirstFacts
<1> QED BY <1>1, <1>2, FirstFacts

(* A walker is as far with stage 2 as one with which stage 1 of a later    *)
(* stack is due: stage 1 of its own is due, too.                           *)
LEMMA DueEarlier ==
    ASSUME NEW w \in Walker, NEW x \in Walker, Stage1Due(x), x.two <= w.two, w.one <= x.one
    PROVE  Stage1Due(w)
<1>1. /\ w.one \in Int /\ w.two \in Int /\ x.one \in Int /\ x.two \in Int
      /\ 0 <= w.one /\ 0 <= x.one
  BY WalkerFacts
<1>2. x.one < NumStacks /\ First[x.one] <= x.two /\ x.one - x.two <= PreLaunch
  BY DEF Stage1Due
<1>3. w.one \in Stacks /\ x.one \in Stacks /\ w.one <= x.one
  BY <1>1, <1>2, FirstFacts DEF Stacks
<1>4. First[w.one] <= First[x.one] /\ First[w.one] \in Int /\ First[x.one] \in Int
  BY <1>3, FirstGrows, FirstFacts
<1>5. w.one < NumStacks /\ First[w.one] <= w.two
  BY <1>1, <1>2, <1>4, FirstFacts
<1>6. w.one - w.two <= PreLaunch
  BY <1>1, <1>2 DEF PreLaunch
<1> QED BY <1>5, <1>6 DEF Stage1Due

(* Suppose nobody goes on.  FIX does not wait for a Q*K^T: the cube core   *)
(* would have one to issue.                                                *)
LEMMA FixWaitsForP ==
    ASSUME IInv, ~SomeoneGoesOn, ~Finished(fix)
    PROVE  /\ Stage2Due(fix) /\ fix.two = cube.two /\ fix.two < fix.one
           /\ \E v \in SubBlocks : mte3[v].one = cube.two
<1>1. CountersAreInts /\ cube \in Walker /\ fix \in Walker /\ InWindow(fix) /\ InWindow(cube)
  BY CountersType DEF IInv, TypeOK, Control, Windows
<1>2. loaded = cube.two
  BY <1>1 DEF SomeoneGoesOn, LoadGoesOn, IInv, Control, InOrder, CountersAreInts
<1>3. ~Stage1Due(fix)
  <2> SUFFICES ASSUME Stage1Due(fix) PROVE FALSE
    OBVIOUS
  <2>1. cube.one <= fix.one
    BY <1>1 DEF SomeoneGoesOn, FixGoesOn, CountersAreInts
  <2>2. fix.two <= cube.two
    BY <1>1, <1>2 DEF IInv, Control, InOrder, CountersAreInts
  <2>3. Stage1Due(cube)
    BY <1>1, <2>1, <2>2, DueEarlier
  <2> QED BY <2>3 DEF SomeoneGoesOn, CubeGoesOn
<1>4. Stage2Due(fix)
  BY <1>1, <1>3, SomethingDue
<1>5. fix.two = cube.two /\ fix.two < fix.one
  BY <1>1, <1>2, <1>4
  DEF SomeoneGoesOn, FixGoesOn, IInv, Control, InOrder, CountersAreInts, Stage2Due
<1>6. Stage2Due(cube)
  <2>1. ~Stage1Due(cube)
    BY DEF SomeoneGoesOn, CubeGoesOn
  <2>2. cube.two < cube.one
    BY <1>1, <1>5 DEF IInv, Control, InOrder, CountersAreInts
  <2> QED BY <2>1, <2>2 DEF Stage2Due
<1>7. PICK v \in SubBlocks : ~(softmaxReady[v] > 0)
  BY <1>6 DEF SomeoneGoesOn, CubeGoesOn
<1>8. mte3[v].one = cube.two
  <2>1. softmaxReady[v] = mte3[v].one - cube.two /\ cube.two <= mte3[v].one
    BY DEF IInv, Control, FlagsCount, InOrder
  <2> QED BY <1>1, <1>7, <2>1 DEF CountersAreInts
<1> QED BY <1>4, <1>5, <1>8

(* Nor does it wait for a P: whoever in the vector core has not come to it *)
(* has its softmax due.                                                    *)
LEMMA SoftmaxNotMissing ==
    ASSUME IInv, ~SomeoneGoesOn, fix.two < fix.one, NEW v \in SubBlocks
    PROVE  fix.two < mte3[v].one
<1>1. /\ CountersAreInts /\ fix \in Walker
      /\ scalar[v] \in Walker /\ mte2[v] \in Walker /\ mte3[v] \in Walker
      /\ InWindow(scalar[v]) /\ InWindow(mte2[v]) /\ InWindow(mte3[v])
  BY CountersType DEF IInv, TypeOK, Control, Windows
<1> PICK t \in Int : t = fix.two
  BY <1>1 DEF CountersAreInts
<1>2. t < NumStacks /\ t < fix.one /\ NumStacks \in Nat
  BY <1>1, WalkerFacts, FirstFacts DEF CountersAreInts
<1>3. /\ scalar[v].two <= t /\ mte2[v].two <= scalar[v].two /\ mte3[v].two <= mte2[v].two
      /\ mte3[v].one <= mte2[v].one /\ mte2[v].one <= scalar[v].one
      /\ scalar[v].one <= fix.one
      /\ qkReady[v] = fix.one - scalar[v].one /\ pvReady[v] = fix.two - scalar[v].two
  BY DEF IInv, Control, InOrder, FlagsCount
<1>4. ~Finished(scalar[v]) /\ ~Finished(mte2[v]) /\ ~Finished(mte3[v])
  BY <1>1, <1>2, <1>3 DEF Finished, CountersAreInts
<1>5. ~ScalarGoesOn(v) /\ ~Follows(mte2[v], scalar[v]) /\ ~Follows(mte3[v], mte2[v])
  BY DEF SomeoneGoesOn
<1>6. /\ Stage1Due(scalar[v]) => scalar[v].one = fix.one
      /\ Stage2Due(scalar[v]) => scalar[v].two = t
  BY <1>1, <1>3, <1>5 DEF ScalarGoesOn, CountersAreInts
<1>7. /\ Stage1Due(mte2[v]) => mte2[v].one = scalar[v].one
      /\ Stage2Due(mte2[v]) => mte2[v].two = scalar[v].two
      /\ Stage1Due(mte3[v]) => mte3[v].one = mte2[v].one
      /\ Stage2Due(mte3[v]) => mte3[v].two = mte2[v].two
  BY <1>1, <1>3, <1>5 DEF Follows, CountersAreInts
<1>8. t < scalar[v].one
  <2>1. CASE Stage1Due(scalar[v])
    BY <1>2, <1>6, <2>1
  <2>2. CASE Stage2Due(scalar[v])
    BY <1>6, <2>2 DEF Stage2Due
  <2> QED BY <1>1, <1>4, <2>1, <2>2, SomethingDue
<1>9. t < mte2[v].one
  <2> SUFFICES ASSUME mte2[v].one <= t PROVE FALSE
    BY <1>1 DEF CountersAreInts
  <2>1. CASE Stage1Due(mte2[v])
    BY <1>1, <1>7, <1>8, <2>1 DEF CountersAreInts
  <2>2. CASE Stage2Due(mte2[v])
    <3>1. mte2[v].two = scalar[v].two /\ mte2[v].two < t
      BY <1>1, <1>7, <2>2 DEF Stage2Due, CountersAreInts
    <3>2. Stage1Due(scalar[v])
      BY <1>1, <1>4, <1>6, <3>1, SomethingDue DEF CountersAreInts
    <3>3. Stage1Due(mte2[v])
      BY <1>1, <1>3, <3>1, <3>2, DueEarlier DEF CountersAreInts
    <3> QED BY <2>2, <3>3 DEF Stage2Due
  <2> QED BY <1>1, <1>4, <2>1, <2>2, SomethingDue
<1>10. t < mte3[v].one
  <2> SUFFICES ASSUME mte3[v].one <= t PROVE FALSE
    BY <1>1 DEF CountersAreInts
  <2>1. CASE Stage1Due(mte3[v])
    BY <1>1, <1>7, <1>9, <2>1 DEF CountersAreInts
  <2>2. CASE Stage2Due(mte3[v])
    <3>1. mte3[v].two = mte2[v].two /\ mte2[v].two < t
      BY <1>1, <1>7, <2>2 DEF Stage2Due, CountersAreInts
    <3>2. Stage1Due(mte2[v])
      <4>1. CASE Stage1Due(scalar[v]) /\ mte2[v].two = scalar[v].two
        BY <1>1, <1>3, <4>1, DueEarlier DEF CountersAreInts
      <4>2. CASE Stage2Due(scalar[v]) /\ mte2[v].two = scalar[v].two
        BY <1>1, <1>6, <3>1, <4>2 DEF CountersAreInts
      <4>3. CASE ~(mte2[v].two = scalar[v].two)
        BY <1>1, <1>4, <1>7, <4>3, SomethingDue
      <4> QED BY <1>1, <1>4, <4>1, <4>2, <4>3, SomethingDue
    <3>3. Stage1Due(mte3[v])
      BY <1>1, <1>3, <3>1, <3>2, DueEarlier DEF CountersAreInts
    <3> QED BY <2>2, <3>3 DEF Stage2Due
  <2> QED BY <1>1, <1>4, <2>1, <2>2, SomethingDue
<1> QED BY <1>10

(* When FIX is through, everybody is.                                      *)
LEMMA FixIsLast ==
    ASSUME IInv, ~SomeoneGoesOn, Finished(fix)
    PROVE  AllDone
<1>1. CountersAreInts /\ cube \in Walker /\ fix \in Walker /\ NumStacks \in Nat
      /\ loaded <= NumStacks
  BY CountersType, FirstFacts DEF IInv, TypeOK
<1>2. fix.two = NumStacks /\ fix.one = NumStacks /\ cube.two = NumStacks /\ loaded = NumStacks
  <2>1. fix.two = NumStacks /\ fix.two <= fix.one /\ fix.one <= NumStacks
        /\ fix.two <= loaded /\ loaded <= cube.two /\ cube.two <= NumStacks
    BY <1>1, WalkerFacts DEF Finished, IInv, Control, Windows, InWindow, InOrder
  <2> QED BY <1>1, <2>1 DEF CountersAreInts
<1>3. ASSUME NEW v \in SubBlocks
      PROVE  Finished(scalar[v]) /\ Finished(mte2[v]) /\ Finished(mte3[v])
  <2>1. /\ scalar[v] \in Walker /\ mte2[v] \in Walker /\ mte3[v] \in Walker
        /\ InWindow(scalar[v]) /\ InWindow(mte2[v]) /\ InWindow(mte3[v])
        /\ ~ScalarGoesOn(v) /\ ~Follows(mte2[v], scalar[v]) /\ ~Follows(mte3[v], mte2[v])
    BY DEF IInv, TypeOK, Control, Windows, SomeoneGoesOn
  <2>2. ASSUME NEW w \in Walker, InWindow(w), NEW x \in Walker, x.two = NumStacks,
               x.one = NumStacks, ~Follows(w, x)
        PROVE  w.two = NumStacks /\ w.one = NumStacks
    <3>0. w.one \in Int /\ w.two \in Int /\ w.two <= NumStacks /\ w.one <= NumStacks
      BY WalkerFacts
    <3>1. ~Stage1Due(w)
      BY <2>2, <3>0 DEF Follows, Stage1Due
    <3>2. ~Stage2Due(w)
      <4>1. Stage2Due(w) => w.two < NumStacks
        BY <1>1, <3>0 DEF Stage2Due
      <4> QED BY <2>2, <4>1 DEF Follows
    <3>3. w.two = NumStacks /\ w.two <= w.one
      BY <2>2, <3>1, <3>2, SomethingDue DEF Finished, InWindow
    <3> QED BY <1>1, <3>0, <3>3
  <2>3. ~Follows(scalar[v], fix)
    <3>1. qkReady[v] = fix.one - scalar[v].one /\ pvReady[v] = fix.two - scalar[v].two
      BY DEF IInv, Control, FlagsCount
    <3> QED BY <1>1, <2>1, <3>1 DEF Follows, ScalarGoesOn, CountersAreInts
  <2>4. scalar[v].two = NumStacks /\ scalar[v].one = NumStacks
    BY <1>1, <1>2, <2>1, <2>2, <2>3
  <2>5. mte2[v].two = NumStacks /\ mte2[v].one = NumStacks
    BY <2>1, <2>2, <2>4
  <2>6. mte3[v].two = NumStacks /\ mte3[v].one = NumStacks
    BY <2>1, <2>2, <2>5
  <2> QED BY <2>4, <2>5, <2>6 DEF Finished
<1> QED BY <1>2, <1>3 DEF AllDone, Finished

NeverStuck == AllDone \/ SomeoneGoesOn

(* The cores never wait for each other for good: as long as one of them is *)
(* not through, somebody goes on (the waits for the three flags,           *)
(* kernel_fa_fp32_stage1.cpp:304-349, 391, 441, 615-655).                  *)
THEOREM CoresNeverStuck == Spec => []NeverStuck
<1>1. ASSUME IInv, ~SomeoneGoesOn PROVE AllDone
  <2>1. Finished(fix)
    <3> SUFFICES ASSUME ~Finished(fix) PROVE FALSE
      OBVIOUS
    <3>1. /\ fix.two = cube.two /\ fix.two < fix.one
          /\ \E v \in SubBlocks : mte3[v].one = cube.two
      BY <1>1, FixWaitsForP
    <3>2. \A v \in SubBlocks : fix.two < mte3[v].one
      BY <1>1, <3>1, SoftmaxNotMissing
    <3>3. cube.two \in Int
      BY <1>1, CountersType DEF IInv, CountersAreInts
    <3> QED BY <3>1, <3>2, <3>3
  <2> QED BY <1>1, <2>1, FixIsLast
<1>2. IInv => NeverStuck
  BY <1>1 DEF NeverStuck
<1> QED BY <1>2, Invariance, PTL

(* When all are through, no flag is left raised for the next launch        *)
(* (kernel_fa_fp32_stage1.cpp:320, 349, 391, 441, 615-655).  That they get *)
(* there is the other half of KernelReturnsDrained.                        *)
THEOREM FlagsAllTaken == Spec => [](AllDone => Drained)
<1>1. ASSUME IInv, AllDone PROVE Drained
  <2> SUFFICES ASSUME NEW v \in SubBlocks
               PROVE  qkReady[v] = 0 /\ softmaxReady[v] = 0 /\ pvReady[v] = 0
    BY <1>1 DEF Drained
  <2>1. CountersAreInts /\ cube \in Walker /\ fix \in Walker /\ NumStacks \in Nat
        /\ scalar[v] \in Walker /\ mte2[v] \in Walker /\ mte3[v] \in Walker
    BY <1>1, CountersType, FirstFacts DEF IInv, TypeOK
  <2>2. /\ fix.one <= NumStacks /\ scalar[v].one <= NumStacks /\ mte3[v].one <= NumStacks
        /\ fix.two = NumStacks /\ cube.two = NumStacks
        /\ scalar[v].two = NumStacks /\ mte3[v].two = NumStacks
        /\ fix.two <= fix.one /\ scalar[v].two <= scalar[v].one /\ mte3[v].two <= mte3[v].one
    BY <1>1, <2>1, WalkerFacts DEF AllDone, Finished, IInv, Control, Windows, InWindow
  <2>3. /\ qkReady[v] = fix.one - scalar[v].one
        /\ softmaxReady[v] = mte3[v].one - cube.two
        /\ pvReady[v] = fix.two - scalar[v].two
    BY <1>1 DEF IInv, Control, FlagsCount
  <2> QED BY <2>1, <2>2, <2>3 DEF CountersAreInts
<1>2. IInv => (AllDone => Drained)
  BY <1>1
<1> QED BY <1>2, Invariance, PTL

-----------------------------------------------------------------------------
(* The kernel implements KvFold (its safety part).                         *)

(* What has been gathered is the stacks of the task, in order.             *)
InTaskOrder(g) == [i \in 1..(g - First[g] + 1) |-> First[g] + i - 1]

LEMMA GatheredInOrder ==
    ASSUME IInv, NEW v \in SubBlocks, NEW g \in Stacks, g < mte2[v].two
    PROVE  Gathered(v, g) = InTaskOrder(g)
<1>1. \A i \in 1..(g - First[g] + 1) :
        /\ First[g] + i - 1 \in Stacks
        /\ First[g] + i - 1 < mte2[v].two
  BY CountersType, FirstFacts DEF IInv, CountersAreInts, Stacks
<1> QED  BY <1>1 DEF Gathered, InTaskOrder, IInv, ReadsRight

LEMMA InTaskOrderGrows ==
    ASSUME NEW g \in Stacks
    PROVE  /\ First[g] = g => InTaskOrder(g) = <<g>>
           /\ First[g] # g => /\ g - 1 \in Stacks
                              /\ InTaskOrder(g) = Append(InTaskOrder(g - 1), g)
<1>1. CASE First[g] = g
  BY <1>1, FirstFacts DEF InTaskOrder
<1>2. CASE First[g] # g
  <2>1. g - 1 \in Stacks /\ First[g - 1] = First[g] /\ First[g] \in Int /\ g \in Int
        /\ First[g] < g
    BY <1>2, FirstFacts DEF Stacks
  <2> DEFINE n == g - First[g]
             s == InTaskOrder(g - 1)
             t == InTaskOrder(g)
  <2>2. n \in Nat /\ g - First[g] + 1 = n + 1 /\ (g - 1) - First[g - 1] + 1 = n
    BY <2>1
  <2>3. t = [i \in 1..(n + 1) |-> First[g] + i - 1]
    BY <2>2 DEF InTaskOrder
  <2>4. s = [i \in 1..n |-> First[g] + i - 1]
    BY <2>1, <2>2 DEF InTaskOrder
  <2> HIDE DEF n, s, t
  <2>5. t \in Seq(Int) /\ Len(t) = n + 1
    BY <2>1, <2>2, <2>3
  <2>6. s \in Seq(Int) /\ Len(s) = n
    BY <2>1, <2>2, <2>4
  <2>7. /\ Append(s, g) \in Seq(Int) /\ Len(Append(s, g)) = n + 1
        /\ \A i \in 1..n : Append(s, g)[i] = s[i]
        /\ Append(s, g)[n + 1] = g
    BY <2>1, <2>6, AppendProperties
  <2>8. First[g] + (n + 1) - 1 = g
    BY <2>1 DEF n
  <2>9. \A i \in 1..(n + 1) : t[i] = Append(s, g)[i]
    BY <2>1, <2>2, <2>3, <2>4, <2>7, <2>8
  <2>10. t = Append(s, g)
    BY <2>5, <2>7, <2>9, SeqEqual
  <2> QED  BY <1>2, <2>1, <2>10 DEF s, t
<1> QED  BY <1>1, <1>2

(* Publishing a stack's fold is a step of KvFold.                          *)
LEMMA WriteOFolds ==
    ASSUME IInv, NEW v \in SubBlocks, WriteO(v)
    PROVE  KF!Fold(v)
<1> DEFINE g == mte3[v].two
           o == IF First[g] = g THEN <<g>> ELSE Append(Held[v], g)
<1>1. g \in Stacks /\ g \in Int /\ g >= 0 /\ g < NumStacks /\ g < mte2[v].two
  BY AdvanceTwo, FirstFacts DEF WriteO, Stage2Due, IInv, Control, Windows, TypeOK, Stacks
<1>2. /\ oRead' = oRead /\ mte2' = mte2
      /\ mte3'[v].two = g + 1
      /\ \A u \in SubBlocks : u # v => mte3'[u] = mte3[u]
  <2>1. mte3[v] \in Walker
    BY DEF IInv, TypeOK
  <2>2. mte3'[v] = [mte3[v] EXCEPT !.two = @ + 1]
    BY DEF WriteO, IInv, TypeOK
  <2>3. mte3'[v].two = g + 1
    BY <2>1, <2>2 DEF Walker
  <2>4. \A u \in SubBlocks : u # v => mte3'[u] = mte3[u]
    BY DEF WriteO, IInv, TypeOK
  <2> QED  BY <2>3, <2>4 DEF WriteO, reads
<1>3. Gathered(v, g) = o
  <2>1. Gathered(v, g) = InTaskOrder(g)
    BY <1>1, GatheredInOrder
  <2>2. CASE First[g] = g
    BY <1>1, <2>1, <2>2, InTaskOrderGrows
  <2>3. CASE First[g] # g
    <3>1. g - 1 \in Stacks /\ g # 0
      BY <1>1, <2>3, InTaskOrderGrows DEF Stacks
    <3>2. Held[v] = Gathered(v, g - 1)
      BY <3>1 DEF Held
    <3>3. g - 1 < mte2[v].two
      BY <1>1, CountersType DEF IInv, CountersAreInts
    <3>4. Held[v] = InTaskOrder(g - 1)
      BY <3>1, <3>2, <3>3, GatheredInOrder
    <3> QED  BY <1>1, <2>1, <2>3, <3>4, InTaskOrderGrows
  <2> QED  BY <2>2, <2>3
<1>4. \A u \in SubBlocks, h \in Stacks : Gathered(u, h)' = Gathered(u, h)
  BY <1>2 DEF Gathered
<1> HIDE DEF o
<1>5. Folded' = [Folded EXCEPT ![v] = g + 1]
  BY <1>2 DEF Folded
<1>6. Held' = [Held EXCEPT ![v] = o]
  <2>1. Held'[v] = o
    <3>1. mte3'[v].two # 0 /\ mte3'[v].two - 1 = g
      BY <1>1, <1>2
    <3> QED  BY <1>1, <1>3, <1>4, <3>1 DEF Held
  <2>2. \A u \in SubBlocks : u # v => Held'[u] = Held[u]
    BY <1>2 DEF Held, Gathered
  <2> QED  BY <2>1, <2>2 DEF Held
<1>7. Published' = IF IsLast(g) THEN [Published EXCEPT ![v][g] = o] ELSE Published
  <2>1. ASSUME NEW u \in SubBlocks, NEW h \in Stacks, u # v \/ h # g
        PROVE  Published'[u][h] = Published[u][h]
    <3>1. h < mte3'[u].two <=> h < mte3[u].two
      BY <1>1, <1>2, <2>1, FirstFacts
    <3> QED  BY <1>4, <3>1 DEF Published
  <2>2. Published'[v][g] = IF IsLast(g) THEN o ELSE <<>>
    <3>1. g < mte3'[v].two
      BY <1>1, <1>2
    <3> QED  BY <1>1, <1>3, <1>4, <3>1 DEF Published
  <2>3. Published[v][g] = <<>>
    BY <1>1 DEF Published
  <2>4. /\ Published = [u \in SubBlocks |-> [h \in Stacks |-> Published[u][h]]]
        /\ Published' = [u \in SubBlocks |-> [h \in Stacks |-> Published'[u][h]]]
    BY DEF Published
  <2> HIDE DEF g
  <2> QED  BY <1>1, <2>1, <2>2, <2>3, <2>4
<1>8. Folded[v] = g
  BY DEF Folded
<1> QED  BY <1>1, <1>5, <1>6, <1>7, <1>8 DEF KF!Fold, KF!IsLast, IsLast, o

(* Every other step leaves what KvFold sees unchanged.                     *)
LEMMA OthersStutter ==
    ASSUME IInv, [Next]_vars, ~ \E v \in SubBlocks : WriteO(v)
    PROVE  UNCHANGED <<Folded, Held, Published>>
<1>1. \A v \in SubBlocks : mte3'[v].two = mte3[v].two
  <2>1. ASSUME NEW u \in SubBlocks, WriteP(u), NEW v \in SubBlocks
        PROVE  mte3'[v].two = mte3[v].two
    <3>1. mte3[u] \in Walker
      BY DEF IInv, TypeOK
    <3>2. mte3' = [mte3 EXCEPT ![u] = [mte3[u] EXCEPT !.one = @ + 1]]
      BY <2>1 DEF WriteP, IInv, TypeOK
    <3> QED  BY <3>1, <3>2 DEF IInv, TypeOK, Walker
  <2>2. CASE mte3' = mte3
    BY <2>2
  <2> QED
    BY <2>1, <2>2
    DEF Next, vars, aiv, Cube, Fix, Scalar, Mte2, Mte3, CubeQK, CubePV, LoadP,
        FixS, FixO, IssueSoftmax, IssueRescale, CopyS, CopyOTmp, Terminated
<1>2. \A v \in SubBlocks, g \in Stacks : g < mte3[v].two => oRead'[v][g] = oRead[v][g]
  <2>1. ASSUME NEW u \in SubBlocks, CopyOTmp(u), NEW v \in SubBlocks,
               NEW g \in Stacks, g < mte3[v].two
        PROVE  oRead'[v][g] = oRead[v][g]
    <3>1. v = u => g # mte2[u].two
      BY <2>1, FirstFacts, CountersType DEF IInv, Control, InOrder, CountersAreInts
    <3> QED  BY <2>1, <3>1 DEF CopyOTmp, IInv, TypeOK
  <2>2. CASE oRead' = oRead
    BY <2>2
  <2> QED
    BY <2>1, <2>2
    DEF Next, vars, reads, Cube, Fix, Scalar, Mte2, Mte3, CubeQK, CubePV, LoadP,
        FixS, FixO, IssueSoftmax, IssueRescale, CopyS, WriteP, WriteO, Terminated
<1>3. ASSUME NEW v \in SubBlocks, NEW g \in Stacks, g < mte3[v].two
      PROVE  Gathered(v, g)' = Gathered(v, g)
  <2>1. \A i \in 1..(g - First[g] + 1) :
          First[g] + i - 1 \in Stacks /\ First[g] + i - 1 < mte3[v].two
    BY <1>3, FirstFacts, CountersType DEF IInv, CountersAreInts, Stacks
  <2> QED  BY <1>2, <2>1 DEF Gathered
<1>4. Folded' = Folded
  BY <1>1 DEF Folded
<1>5. Held' = Held
  <2> SUFFICES ASSUME NEW v \in SubBlocks PROVE Held'[v] = Held[v]
    BY DEF Held
  <2>1. mte3[v].two # 0 => mte3[v].two - 1 \in Stacks /\ mte3[v].two - 1 < mte3[v].two
    BY FirstFacts, WalkerFacts DEF IInv, TypeOK, Stacks
  <2>2. mte3[v].two # 0 =>
          Gathered(v, mte3[v].two - 1)' = Gathered(v, mte3[v].two - 1)
    <3> SUFFICES ASSUME mte3[v].two # 0
                 PROVE  Gathered(v, mte3[v].two - 1)' = Gathered(v, mte3[v].two - 1)
      OBVIOUS
    <3> DEFINE g == mte3[v].two - 1
    <3>1. g \in Stacks /\ g < mte3[v].two /\ g' = g
      BY <1>1, <2>1
    <3> QED  BY <1>2, <1>3, <3>1 DEF Gathered
  <2> QED  BY <1>1, <2>2 DEF Held
<1>6. Published' = Published
  <2>1. ASSUME NEW v \in SubBlocks, NEW g \in Stacks
        PROVE  Published'[v][g] = Published[v][g]
    BY <1>1, <1>3 DEF Published
  <2>2. /\ Published = [v \in SubBlocks |-> [g \in Stacks |-> Published[v][g]]]
        /\ Published' = [v \in SubBlocks |-> [g \in Stacks |-> Published'[v][g]]]
    BY DEF Published
  <2> QED  BY <2>1, <2>2
<1> QED  BY <1>4, <1>5, <1>6

(* Whatever the tasks: the kernel with its workspace, pipes and flags is   *)
(* an implementation of the in-order fold.                                 *)
THEOREM KvFoldImplemented == Spec => KF!Spec
<1>1. Init => KF!Init
  <2> SUFFICES ASSUME Init PROVE KF!Init
    OBVIOUS
  <2>1. \A v \in SubBlocks : mte3[v].two = 0
    BY DEF Init, PerSubBlock, Start
  <2>2. \A g \in Stacks : ~(g < 0)
    BY FirstFacts DEF Stacks
  <2> QED
    BY <2>1, <2>2 DEF KF!Init, KF!Stacks, Stacks, Folded, Held, Published
<1>2. IInv /\ [Next]_vars => [KF!Next]_KF!foldVars
  <2> SUFFICES ASSUME IInv, [Next]_vars PROVE [KF!Next]_KF!foldVars
    OBVIOUS
  <2>1. CASE \E v \in SubBlocks : WriteO(v)
    BY <2>1, WriteOFolds DEF KF!Next
  <2>2. CASE ~ \E v \in SubBlocks : WriteO(v)
    BY <2>2, OthersStutter DEF KF!foldVars
  <2> QED  BY <2>1, <2>2
<1> QED  BY <1>1, <1>2, Invariance, PTL DEF Spec, KF!Spec
=============================================================================
