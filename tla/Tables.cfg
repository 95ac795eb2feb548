SPECIFICATION TablesSpec
CONSTANTS
    Sender = {"a", "b"}
    Chatter = {"a"}
    MAX_SENDERS = 1
    WINDOW = 1
    EVICT_IDLE = 1
    CLOCK_MOD = 2
    MaxCounter = 2
    MaxUptime = 2
    DEFERRED_MAX = 1
    TTL = 1
    SKEW = 1
    NET_MOD = 16
    Ahead = {0}
    MaxReboots = 1
    Dest = {"p", "q", "r"}
    Hop = {"h", "k"}
    MaxMetric = 1
    MaxHops = 0
    MAX_ROUTES = 2
    ACTIVE_TIMEOUT = 1
    STALE_TIMEOUT = 2
    HARD_TIMEOUT = 3
    NoRoute = NoRoute
    Source = {"a", "b", "c"}
    Skew = {0, 3}
    Strata = {0, 1}
    Lead = 2
    MAX_TIME_SHIFT = 2
    MAX_STRATUM = 3
    CORROBORATION_REQUIRED = 2
    PENDING_POOL_SIZE = 2
    PENDING_MAX_AGE = 1
    TIME_MOD = 8
INVARIANTS KnownRefused SolidDeliveredOnce UnseenGetsThrough
PROPERTIES TrustDominates BrokenStaysBroken StratumNeverRises
CHECK_DEADLOCK FALSE
