SPECIFICATION FairSpec
CONSTANTS
    LastTime = 2
    Buffer = 1
    BatchSize = 2
    Ranges <- MCRanges
    MaxPunches = 3
    MaxRequests = 2
    MaxFaults = 1
INVARIANTS TypeOK GapFree
PROPERTIES ImplementsReplica RequestExecuted RequestClosed Delivered
CHECK_DEADLOCK FALSE
