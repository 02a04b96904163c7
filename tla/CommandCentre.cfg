SPECIFICATION CentreSpec
\* The events are finitely many, and a list may be loaded no more.
CHECK_DEADLOCK FALSE
CONSTANTS
    s1 = s1
    s2 = s2
    c1 = c1
    r1 = r1
    z1 = z1
    None = None
    Ids = {s1, s2, c1, r1, z1}
    KindOf <- Kind
    MaxEvents = 3
    Cap = 2
    Plans <- Scenarios
INVARIANTS
    CentreTypeOK
    FeedIsOrdered
    LayersFollow
PROPERTY GoneForReason
