SPECIFICATION KernelsSpec
CONSTANTS
    Calls <- MCCalls
    ProbeCalls <- MCProbeCalls
INVARIANT RmsTransfersIntact
INVARIANT RmsStagedRight
INVARIANT RmsStagingIntact
INVARIANT ProbeTransfersIntact
INVARIANT ProbeRstdIntact
INVARIANT WritesHitOwnRows
PROPERTY KernelsReturn
