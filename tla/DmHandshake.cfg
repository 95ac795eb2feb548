CONSTANTS
    Lo = "lo"
    Hi = "hi"
    QUEUE_LEN = 2
    MaxEpoch = 1
    Pinned = TRUE
    MaxFaults = 1
SPECIFICATION FairSpec
PROPERTIES ChainNeverRewound 
