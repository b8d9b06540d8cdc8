SPECIFICATION Spec
CONSTANTS
    Guests = {1}
    Docs <- CardDoc
    Bad = bad
    Hardware <- AnyHardware
    NewConfigs <- BareConfig
    MaxMoves = 4
INVARIANTS SkippedWithoutInventory
