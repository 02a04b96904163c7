SPECIFICATION Spec
SYMMETRY Symmetric
\* The presses and updates are finitely many: people may have made them all.
CHECK_DEADLOCK FALSE
CONSTANTS
    p1 = p1
    p2 = p2
    desk = desk
    h1 = h1
    h2 = h2
    u1 = u1
    u2 = u2
    Phones = {p1, p2}
    UserOf <- User
    Desks = {desk}
    Holds = {h1, h2}
    Updates = {u1, u2}
    ActorOf <- UpdateBy
    Faults = {"crash", "db_error", "reload", "expiry"}
INVARIANTS
    TypeOK
    OneOpenSos
    ShowsOwnSos
PROPERTY HiddenWhenResolved
