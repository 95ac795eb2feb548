SPECIFICATION IdentitySpec
CONSTANTS
    Address = {"a", "b", "c"}
    Key = {1, 2}
    MaxPinFaults = 1
    IDENTITY_STORE_CAPACITY = 2
    Anchor = {"k"}
    Endorsed = {"b"}
    Talker = {"a"}
    None = None
INVARIANT VerifiedByUser
CHECK_DEADLOCK FALSE
