SPECIFICATION FairSpec
CONSTANTS
    Guests = {1, 2}
    Docs <- CardDoc
    Bad = bad
    Hardware <- AnyHardware
    NewConfigs <- BareConfig
    MaxMoves = 2
INVARIANTS TypeOK APollSettles
PROPERTIES NothingRemovedByGuess Follows
