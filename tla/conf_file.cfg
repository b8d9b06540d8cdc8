SPECIFICATION Spec
CONSTANTS
    Foreign <- McForeign
    Sections <- McSections
    Stocks <- McStocks
    Subtrees <- McSubtrees
    MaxLength = 12
    MaxSteps = 2
INVARIANTS FixedPoint
PROPERTIES ForeignOrderKept SetsAgree NoPiledUpRules SameInJson NoCardLeftOut NoLineOfItsOwn
CHECK_DEADLOCK FALSE
