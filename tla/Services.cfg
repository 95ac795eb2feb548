SPECIFICATION ServicesSpec
CONSTANTS
    W = 5
    Start = 0
    Source = {s1, s2}
    Dest = {d1, d2}
    PerFlow = 2
    MAILBOX_MAX_ENTRIES = 3
    MAILBOX_MAX_PER_DEST = 2
    MAILBOX_MAX_PER_SOURCE = 2
    MAILBOX_TTL = 2
    MailUptime = 3
    Empty = Empty
    Message <- Mixed
    FRAG_MAX_PLAINTEXT = 2
    FRAG_MAX_FRAGMENTS = 3
    FRAG_MAX_REASSEMBLIES = 2
    FRAG_REASSEMBLY_TIMEOUT = 1
    PURGE_INTERVAL = 1
    Copies = 1
    Unused = Unused
    Watched = 3
    HOUR = 2
    DUTY_CAP = 20
    BEACON_LANE_PCT = 60
    BEACON_LIVENESS_CEILING = 2
    BEACON_JITTER = 1
    PolicyInterval = 1
    BeaconCost = 1
    Cost = {1, 2}
    Kind = {"data", "ack", "data_broadcast"}
    PeerCounts = {0, 9}
    BaseMax <- SmallBase
INVARIANTS
     WithinWindow SlotsComeBack
    WindowWithinCap BorrowBounded 
PROPERTIES
    DisplacesOwnShare NeverSilentlyLost
CHECK_DEADLOCK FALSE
