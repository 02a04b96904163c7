SPECIFICATION RouteSpec
CONSTANTS
    ridge = ridge
    valley = valley
    slope = slope
    river = river
    storm = storm
    drive = drive
    Desks = {}
    Reports = {}
    Decisions = {}
    Drawings = {w1, w2}
    Shapes = {river, storm}
    Around <- AroundReport
    Faults = {"server", "network"}
    Travellers = {phone}
    Requests = {h1, h2}
    Trips = {drive, walk}
    Drives = {drive}
    Paths <- PathsThere
    Severity <- SeverityOf
    Covers <- CoversOf
SYMMETRY Symmetric
CHECK_DEADLOCK FALSE
INVARIANTS
    RouteTypeOK
    RoutesKeepTheirPromise
    ShownIsForTarget
