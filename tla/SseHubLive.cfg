SPECIFICATION FairSpec
CONSTANTS
    c1 = c1
    c2 = c2
    c3 = c3
    Conns <- Conns2
    MaxConns = 2
    Cap = 1
    MaxEvents = 3
    Faults = {"crash", "no_group", "read_error"}
PROPERTIES
    EveryEventIsRead
    PlacesAreReturned
