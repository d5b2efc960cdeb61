SPECIFICATION FairSpec
CONSTANTS
    Lines <- MCFewLines
    MaxWrites = 2
INVARIANTS
    TypeOK
    RequestsAreHandledAsSent
    OnlyEmptyRequestsDisconnect
PROPERTIES
    ClientEndsWithItsServer
    EveryRequestIsHandled
CHECK_DEADLOCK FALSE
