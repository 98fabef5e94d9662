\* Two requests at a time on one source; what is written does not matter here.
SPECIFICATION FairSpec
CONSTANTS
    t1 = t1
    t2 = t2
    Thread = {t1, t2}
    SourceSeq <- OneSource
    Slow = {}
    Writable = {"lw"}
    Section = {"lw"}
    Inputs <- OneInput
    Shapes = {"good"}
    CacheTtl = 1
    SlowTtl = 1
    MaxCollect = 1
    MaxClock = 1
    MaxWrite = 0
PROPERTIES NoErrorOnceKnown EveryStepIsProgress EveryRequestEnds
