SPECIFICATION StoreSpec
CONSTANTS
    Adders = {"mesh", "ui"}
    Updaters = {}
    MSG_STORE_MAX = 2
    PERSIST_MAX = 3
    KEEP_PCT = 67
    MaxMessages = 5
    MaxUpdates = 0
    MaxStoreFaults = 0
INVARIANT RowOfItsOwn
