SPECIFICATION FairSpec
CONSTANTS
    Fd = {f1, f2, f3}
    Messages <- MCMessages
    maxPendingConnections = 1
    MaxInbox = 1
INVARIANTS
    TypeOK
    UsersAreConnected
    OnlyDepartedUsersAreMissed
    BlocksOnlyAfterAnErase
PROPERTIES
    EveryInputIsHandled
CHECK_DEADLOCK FALSE
