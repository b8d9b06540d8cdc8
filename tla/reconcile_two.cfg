SPECIFICATION FairSpec
CONSTANTS
    Guests = {g1}
    Procs = {daemon, cli}
    Daemon = daemon
    Free = free
    Docs <- CardDoc
    Hardware <- Pulls
    PveLines <- EditLines
    NewConfigs <- BareConfig
    MaxMoves = 3
PROPERTIES NoLostUpdate OnlyFitConfigs PromiseKept Converges
