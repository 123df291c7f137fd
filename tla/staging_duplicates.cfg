SPECIFICATION Spec
CONSTANTS
    Callers = {c0, c1}
    Streams = {s0, s1}
    Tilings = {t0, t1}
    Garbage = {p0, p1}
    Nobody = nobody
    Null = null
    MaxCalls = 3
    MaxReplays = 1
    MaxFailures = 1
INVARIANT EqualTilingsShareStaging
