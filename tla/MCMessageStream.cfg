SPECIFICATION StreamSpec
CONSTANTS
    Base = 2
    Options <- MCOptions
    MaxStream = 60
    MaxInput = 20
    Events = {6, 13}
    Bodies <- MCBodies
    MaxMessages = 3
    MaxShort = 3
INVARIANTS
    Delivery
    EndClassified
CHECK_DEADLOCK FALSE
