SPECIFICATION FairSpec
CONSTANTS
    NumStacks <- MCNumStacks
    First <- MCFirst
    Rows <- MCRows
    Columns <- MCColumns
INVARIANT PingPongIntact
INVARIANT OutputIntact
INVARIANT FoldFindsItsPieces
PROPERTY KernelTakesItsEvents
