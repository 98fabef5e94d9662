\* One request at a time, a source on each of the poller's clocks.
SPECIFICATION FairSpec
CONSTANTS
    t1 = t1
    Thread = {t1}
    SourceSeq <- TwoSources
    Slow = {"wx"}
    Writable = {"lw"}
    Section = {"lw", "wx"}
    Inputs <- TwoInputs
    Shapes = {"good", "broken"}
    CacheTtl = 1
    SlowTtl = 2
    MaxCollect = 1
    MaxClock = 3
    MaxWrite = 1
INVARIANTS CurrentIsRecent PollAfterWrite
PROPERTY ShownStaysShown
