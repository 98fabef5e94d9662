\* An action between the reading and the caching of a poll.
SPECIFICATION Spec
CONSTANTS
    t1 = t1
    t2 = t2
    Thread = {t1, t2}
    SourceSeq <- OneSource
    Slow = {}
    Writable = {"lw"}
    Section = {"lw"}
    Inputs <- OneInput
    Shapes = {"good"}
    CacheTtl = 1
    SlowTtl = 1
    MaxCollect = 1
    MaxClock = 1
    MaxWrite = 1
SYMMETRY ThreadSymmetry
INVARIANT NextPollReal
