SPECIFICATION FairSpec
CONSTANTS
    MaxRetries = 3
    Backoff <- MCBackoff
    AttemptTime = 8
    Deadline = 6
    Links = 2
CHECK_DEADLOCK FALSE
INVARIANTS TypeOK NeverOverruns EachSendTried
PROPERTIES JobEnds DeliverySpec
