SPECIFICATION PeersSpec
CONSTANTS
    Peers = {p1, p2, p3}
    DM_MAX_SESSIONS = 2
    DM_MAX_HANDSHAKING = 2
    DM_MAX_SKIP = 2
    DM_EPOCH_GRACE_MSGS = 2
    INDEX_MOD = 16
    MaxIndex = 6
    MaxEpoch = 1
    W = 20
    Start = 1
    N = 2
    PARKED_RETRY_COOLDOWN = 2
    PARKED_RETRY_SWEEP = 2
    ParkUptime = 6
    RECEIPT_QUEUE_CAPACITY = 3
    PROBE_REPLY_QUEUE_CAPACITY = 1
    MESH_EVENT_QUEUE_DEPTH = 3
    RETRY_COUNT = 2
    RECEIPT_MAX_DEFERS = 2
    PROBE_REPLY_ATTEMPTS = 2
    ReplyUptime = 5
    MaxLag = 2
    Delay = {1, 2}
    Off = Off
    MaxUid = 1
    MaxPkt = 1
    QueueSize = 2
    PendingSize = 1
    MaxAttempts = 1
    MaxFlaps = 2
    Preempt = TRUE
INVARIANTS
    OpensOnce WindowOpens
    AttemptsApart RidesNextBeacon WaitsItsTurn
    ReceiptNotStranded
PROPERTIES
    VerifiedKept ParkedIsSticky
    ReceiptProgresses
CHECK_DEADLOCK FALSE
