SPECIFICATION Spec
CONSTANTS
    Tabs = {t1, t2}
    Reports = {a, b}
    Flushes = {f1, f2}
    MaxTries = 1
    Faults = {"network", "server", "close"}
SYMMETRY Symmetry
INVARIANTS
    TypeOK
    ToldIsTrue
    DuplicatesExplained
