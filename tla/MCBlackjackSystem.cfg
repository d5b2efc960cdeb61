SPECIFICATION FairSpec
CONSTANTS
    Fd = {f1, f2}
    Requests <- MCRequests
    maxPendingConnections = 1
    MaxInbox = 1
    NaN = NaN
    epsilon = 2
    initialMoney = 4
    DealtRanks <- MCDealtRanks
    MaxMoney = 4
    MaxHandCards = 5
    stake = 4
INVARIANTS
    SeatsBelongToConnections
    OnlyDepartedUsersAreMissed
PROPERTIES
    RunsTheGame
    RoundEnds
CHECK_DEADLOCK FALSE
