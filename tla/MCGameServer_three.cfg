SPECIFICATION Spec
CONSTANTS
    Socket = {s1, s2, s3}
    NaN = NaN
    epsilon = 2
    initialMoney = 4
    BetAmounts <- MCBetAmounts
    HandIndexes <- MCHandIndexes
    DealtRanks <- MCDealtRanks
    MaxMoney = 8
    MaxHandCards = 3
SYMMETRY MCSymmetry
INVARIANTS
    TypeOK
    PlayersAreTheReadyUsers
    RoundAwaitsSomeone
    AwaitedUsersAreSolvent
    NotANumberStaysInItsBet
    CardsBelongToTheRound
PROPERTIES
    RunsRounds
    MoneyIsConserved
    StrongerHandEarnsNoLess
    StandingHandIsFinalWhileAllStay
