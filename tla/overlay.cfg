SPECIFICATION Spec
CONSTANTS
    NSlots = 2
    Rooms = {1}
    Toggles = {1}
    Clock = 8
    Ttl = 2
    IrTtl = 3
    MaxPass = 2
    MaxClaim = 3
    MaxMore = 1
INVARIANTS ClaimsShow OneClaimPerField PaintedForItsTime
PROPERTIES ClaimLeavesForCause
