\* A section of two sources, one of which fails.
SPECIFICATION Spec
CONSTANTS
    t1 = t1
    Thread = {t1}
    SourceSeq <- FogSources
    Slow = {}
    Writable = {"fog"}
    Section = {"fog"}
    Inputs <- FogInputs
    Shapes = {"good", "empty", "broken"}
    CacheTtl = 1
    SlowTtl = 1
    MaxCollect = 1
    MaxClock = 1
    MaxWrite = 1
INVARIANT NoStaleInput
