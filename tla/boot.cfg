\* Two builds with values of their own and one without; one set is incomplete.
SPECIFICATION Spec
CONSTANTS
    Baked = {"b1", "b2"}
    Typed = {"t1", "t2"}
    Partial = {"b2", "t2"}
    Builds = {"b1", "b2", "public"}
INVARIANTS TypeOK InUseWasEntered BakedWins
CHECK_DEADLOCK FALSE
