SPECIFICATION FairSpec
CONSTANTS
    Calls <- MCCalls
    REVERSE_DEPTH = 2
INVARIANT WindowsIntact
INVARIANT FlagDepthBounded
INVARIANT WindowsTileD
PROPERTY KernelReturns
