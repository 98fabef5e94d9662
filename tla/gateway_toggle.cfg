\* Two actions and no poll between them.
SPECIFICATION Spec
CONSTANTS
    t1 = t1
    Thread = {t1}
    SourceSeq <- OneSource
    Slow = {}
    Writable = {"lw"}
    Section = {"lw"}
    Inputs <- OneInput
    Shapes = {"good"}
    CacheTtl = 1
    SlowTtl = 1
    MaxCollect = 1
    MaxClock = 1
    MaxWrite = 2
INVARIANT NoToggleOnALie
