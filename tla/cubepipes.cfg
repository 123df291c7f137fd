SPECIFICATION FairSpec
CONSTANTS
    NumStacks <- MCNumStacks
    First <- MCFirst
    Pages <- MCPages
INVARIANT L1Intact
INVARIANT L0Intact
PROPERTY FlagsInOrder
PROPERTY KernelTakesItsEvents
