SPECIFICATION FlashSpec
CONSTANTS
    Task = {"mesh", "rpc"}
    NONCE_RESERVE = 2
    ReadErrors = {}
    MaxCeiling = 10
    Adders = {"mesh"}
    Updaters = {"mesh", "ui"}
    MSG_STORE_MAX = 2
    PERSIST_MAX = 3
    KEEP_PCT = 67
    MaxMessages = 5
    MaxUpdates = 2
    MaxStoreFaults = 2
    Address = {"a", "b", "c"}
    Key = {1, 2}
    MaxPinFaults = 1
    IDENTITY_STORE_CAPACITY = 2
    Anchor = {"k"}
    Endorsed = {"b"}
    Talker = {"a"}
    None = None
INVARIANTS  RowOfItsOwn NeighbourSafe MirrorsRing 
PROPERTY KeepsPromise
CHECK_DEADLOCK FALSE
