SPECIFICATION Spec
CONSTANTS
    Guests = {g1, g2}
    Procs = {daemon}
    Daemon = daemon
    Free = free
    Docs <- CardDoc
    Hardware <- Reboots
    PveLines <- LockOnly
    NewConfigs <- LinesByHand
    MaxMoves = 3
SYMMETRY Interchangeable
INVARIANTS TypeOK DriverLinesRecorded UvmRulesReplaceable
PROPERTIES HandsOff PromiseKept
