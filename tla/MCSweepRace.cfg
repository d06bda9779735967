SPECIFICATION Spec
CONSTANTS
    Occurrences = {o1}
    Rooms = {r1}
    Closers = {c1}
    Creators = {}
    None = None
    Prep = 1
    Grace = 1
    Stale = 1
    StartTimes <- StartTimesValue
    MaxTime = 2
    MaxCrashes = 1
SYMMETRY Symmetry
PROPERTIES SweepSparesHealthy

