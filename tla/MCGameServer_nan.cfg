SPECIFICATION Spec
CONSTANTS
    Socket = {s1, s2}
    NaN = NaN
    epsilon = 2
    initialMoney = 4
    BetAmounts <- MCBetAmounts
    HandIndexes <- MCHandIndexes
    DealtRanks <- MCDealtRanks
    MaxMoney = 4
    MaxHandCards = 3
SYMMETRY MCSymmetry
PROPERTIES
    AcceptedBetIsPlaced
