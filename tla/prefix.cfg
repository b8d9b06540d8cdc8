SPECIFICATION FairSpec
CONSTANTS
    Nodes = {n1, n2}
    Commands = {n1}
    Cards = {c1, c2}
    Stray = stray
    MaxMoves = 2
INVARIANTS RowsOfOwnCards
PROPERTIES RowsSurviveUpgrades EntriesFollow
