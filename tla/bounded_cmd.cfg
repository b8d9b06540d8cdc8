SPECIFICATION FairSpec
CONSTANTS
    Children = {c1, c2}
    None = none
    Capacity = 1
    MaxOutput = 2
    MaxNoise = 1
    Fragile = {"stdout"}
INVARIANTS TypeOK NeverShort NoHalfLeft
PROPERTIES CallEnds ZombiesCollected
