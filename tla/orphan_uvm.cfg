SPECIFICATION Spec
CONSTANTS
    Guests = {g1}
    Procs = {daemon}
    Daemon = daemon
    Free = free
    Docs <- CardDoc
    Hardware <- Lazy
    PveLines <- LockOnly
    NewConfigs <- BareConfig
    MaxMoves = 2
INVARIANTS LinesRecorded
