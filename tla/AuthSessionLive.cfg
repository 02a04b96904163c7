\* The calls are finitely many: the pages may have made them all.
CHECK_DEADLOCK FALSE
SPECIFICATION FairSpec
CONSTANTS
    App = "citizen"
    left = left
    right = right
    r1 = r1
    r2 = r2
    r3 = r3
    Tabs <- TwoTabs
    Requests <- Calls
    Logouts <- OnlyLogout
    TabOf <- Tab
    MaxLogins = 1
    Faults = {}
INVARIANT StoredTokenUsable
PROPERTY QueueIsReleased
