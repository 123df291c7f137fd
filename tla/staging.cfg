SPECIFICATION FairSpec
CONSTANTS
    Callers = {c0, c1}
    Streams = {s0, s1}
    Tilings = {t0, t1}
    Garbage = {p0}
    Nobody = nobody
    Null = null
    MaxCalls = 3
    MaxReplays = 1
    MaxFailures = 1
INVARIANT KernelReadsOwnTiling
INVARIANT NoDuplicateBytes
PROPERTY MutexIsReleased
