SPECIFICATION FairSpec
CONSTANT Launches <- MCLaunches
CHECK_DEADLOCK FALSE
INVARIANT CallFitsItsStack
INVARIANT PagesFillTile
PROPERTY LoopsImplementSchedule
PROPERTY ReturnsIffDepthFits
