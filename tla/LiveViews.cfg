SPECIFICATION Spec
CONSTANTS
    desk = desk
    phone = phone
    slope = slope
    Desks = {desk}
    Phones = {phone}
    Reports = {r1}
    Decisions = {d1, d2}
    Drawings = {}
    Shapes = {slope}
    Around <- AroundReport
    Displays <- ViewsShown
    Retiring <- MapShown
    Faults = {"server", "network", "stream", "load", "reload"}
SYMMETRY Symmetric
CHECK_DEADLOCK FALSE
INVARIANTS
    TypeOK
    DecisionsTakeEffect
    ViewIsCurrent
