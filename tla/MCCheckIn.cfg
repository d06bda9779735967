SPECIFICATION FairSpec
CHECK_DEADLOCK FALSE
CONSTANTS
    c1 = c1
    c2 = c2
    c3 = c3
    v1 = v1
    Keys <- KeysValue
    Calls = {c1, c2, c3}
    KeysOf <- BulkCalls
    None = None
    Visits = {v1}
    StationOf <- StationOfValue
    AutoIn = FALSE
    MaxFailures = 1
INVARIANTS OneHolderPerKey TailsAreQueued OneCheckInEntry TableNamesStored
PROPERTIES EveryCallServed
