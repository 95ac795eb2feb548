SPECIFICATION FairDiscSpec
CONSTANTS
    Dest = {"d"}
    MAX_PENDING_DISCOVERIES = 1
    MAX_RREQ_ATTEMPTS = 2
    MAX_QUEUED_MSGS = 1
    MaxQuery = 3
PROPERTIES
    DiscoveryEnds
CHECK_DEADLOCK FALSE
