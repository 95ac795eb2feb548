SPECIFICATION TableSpec
CONSTANTS
    Peers = {p1, p2, p3}
    DM_MAX_SESSIONS = 3
    DM_MAX_HANDSHAKING = 2
INVARIANT DeadSlotsReclaimed
