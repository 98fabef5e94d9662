\* The device really stops: ESP.restart(), or the bound on uptime.
SPECIFICATION Spec
CONSTANTS
    Clock = 20
    Window = 4
    Hold = 3
    MaxPass = 2
    MaxOta = 3
    MaxUptime = 50
INVARIANTS WipeIsMeant LongHoldFires
CHECK_DEADLOCK FALSE
