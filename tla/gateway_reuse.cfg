\* Two polls at a time; the cache may hold anything from before.
SPECIFICATION Spec
CONSTANTS
    t1 = t1
    t2 = t2
    Thread = {t1, t2}
    SourceSeq <- OneSource
    Slow = {}
    Writable = {"lw"}
    Section = {"lw"}
    Inputs <- OneInput
    Shapes = {"good"}
    CacheTtl = 1
    SlowTtl = 1
    MaxCollect = 1
    MaxClock = 3
    MaxWrite = 0
SYMMETRY ThreadSymmetry
INVARIANT ReusedForTtl
