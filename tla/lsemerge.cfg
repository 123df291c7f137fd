SPECIFICATION FairSpec
CONSTANTS
    Variants <- MCVariants
    RowCounts <- MCRowCounts
    DeQueStopsScalar = TRUE
INVARIANT TilesIntact
INVARIANT TileHitsOwnRows
PROPERTY KernelReturns
