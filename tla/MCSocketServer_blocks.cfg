SPECIFICATION Spec
CONSTANTS
    Fd = {f1, f2, f3}
    Messages <- MCMappedMessages
    maxPendingConnections = 1
    MaxInbox = 1
INVARIANTS
    NeverBlocksOnOneClient
CHECK_DEADLOCK FALSE
