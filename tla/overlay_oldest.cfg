SPECIFICATION Spec
CONSTANTS
    NSlots = 2
    Rooms = {1}
    Toggles = {1}
    Clock = 8
    Ttl = 2
    IrTtl = 3
    MaxPass = 3
    MaxClaim = 4
    MaxMore = 1
PROPERTY OldestMakesRoom
