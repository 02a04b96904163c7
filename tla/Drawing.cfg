SPECIFICATION Spec
SYMMETRY Symmetric
\* The entries and requests are finitely many: the desk may have made them all.
CHECK_DEADLOCK FALSE
CONSTANTS
    q1 = q1
    q2 = q2
    None = None
    Requests = {q1, q2}
    MaxEntries = 7
    Plans <- Scenarios
INVARIANTS
    TypeOK
    AreaIsShown
PROPERTY AnswersClearTheirOwn
