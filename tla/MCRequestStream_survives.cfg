SPECIFICATION Spec
CONSTANTS
    Lines <- MCAllLines
    MaxWrites = 2
CHECK_DEADLOCK FALSE
INVARIANTS
    ServerOutlivesItsClient
