SPECIFICATION Spec
CONSTANTS
    Fd = {f1, f2}
    Messages <- MCMappedMessages
    maxPendingConnections = 1
    MaxInbox = 1
INVARIANTS
    SurvivesDisconnections
CHECK_DEADLOCK FALSE
