SPECIFICATION Spec
CONSTANTS
    c1 = c1
    c2 = c2
    c3 = c3
    Conns <- Conns3
    MaxConns = 2
    Cap = 2
    MaxEvents = 3
    Faults = {"crash", "no_group", "read_error", "reply_lost", "ack_lost"}
INVARIANTS
    TypeOK
    HubRegistry
    ChannelOrder
    NothingElseIsMissed
PROPERTIES
    ImplementsFeed
