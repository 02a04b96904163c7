SPECIFICATION Spec
CONSTANTS
    n1 = n1
    n2 = n2
    n3 = n3
    None = None
    Notices = {n1, n2, n3}
    Posts = {p1, p2}
    p1 = p1
    p2 = p2
    MaxPlaces = 4
    MaxAsked = 2
    MaxPhotos = 2
    MaxMarks = 2
    Limit = 2
    Plans <- MCPlans
INVARIANTS TypeOK SourceIsChosen PinIsReported ScoreIsOfPhoto ListIsCurrent
\* The citizen may stop.
CHECK_DEADLOCK FALSE
