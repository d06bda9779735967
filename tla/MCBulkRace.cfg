SPECIFICATION Spec
CHECK_DEADLOCK FALSE
CONSTANTS
    c1 = c1
    c2 = c2
    c3 = c3
    v1 = v1
    Keys <- KeysValue
    Calls = {c1, c2, c3}
    KeysOf <- RaceCalls
    None = None
    Visits = {v1}
    StationOf <- LurkerValue
    AutoIn = FALSE
    MaxFailures = 0
PROPERTIES AnswerIsPersisted
