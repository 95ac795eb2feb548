SPECIFICATION SyncSpec
CONSTANTS
    Source = {"a", "b", "c"}
    Skew = {0, 3}
    Strata = {0, 1}
    Lead = 2
    MAX_TIME_SHIFT = 2
    MAX_STRATUM = 3
    CORROBORATION_REQUIRED = 2
    PENDING_POOL_SIZE = 2
    PENDING_MAX_AGE = 1
    TIME_MOD = 8
INVARIANT PoolExpires
CHECK_DEADLOCK FALSE
