SPECIFICATION FairSpec
CONSTANTS
    NumStacks <- MCNumStacks
    First <- MCFirst
    SubBlocks = {v0, v1}
    NoStack = none
INVARIANT TypeOK
INVARIANT UnreadSlotsIntact
INVARIANT RescaleFoldsItsStack
INVARIANT FlagDepthBounded
INVARIANT OutputOutBeforeReuse
PROPERTY KernelReturnsDrained
PROPERTY ImplementsKvFold
