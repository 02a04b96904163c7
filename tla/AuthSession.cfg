SPECIFICATION Spec
CONSTANTS
    App = "admin"
    left = left
    right = right
    r1 = r1
    r2 = r2
    r3 = r3
    Tabs <- TwoTabs
    Requests <- Calls
    Logouts <- NoLogout
    TabOf <- Tab
    MaxLogins = 1
    Faults = {"network", "crash", "insert_fails", "reload"}
INVARIANTS
    TypeOK
    RotationIsChain
    OneRefreshPerTab
