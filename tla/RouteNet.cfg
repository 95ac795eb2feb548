SPECIFICATION FairNetSpec
CONSTANTS
    Node = {"s", "a", "b", "d"}
    Target = "d"
    Origin = {"s"}
    Link = {{"s", "a"}, {"a", "b"}, {"b", "d"}}
    Holder = {"b"}
    ROUTE_HOP_LIMIT_MAX = 4
    RREQ_HOP_LIMIT_INITIAL = 3
    RREQ_HOP_LIMIT_EXPANDED = 3
    REPLAY_WINDOW = 64
    SeqStart <- SeqApart
    MaxQuery = 1
    MaxData = 1
    MaxFaults = 2
    RxQueueSize = 3
    NoNode = "none"
INVARIANTS OnlyParticipantsLearn  
PROPERTIES  DataArrives
CHECK_DEADLOCK FALSE
