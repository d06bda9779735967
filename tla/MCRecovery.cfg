SPECIFICATION FairSpec
CONSTANTS
    Occurrences = {o1}
    Rooms = {r1}
    Closers = {c1}
    Creators = {k1}
    None = None
    Prep = 1
    Grace = 1
    Stale = 1
    StartTimes <- StartTimesValue
    MaxTime = 2
    MaxCrashes = 1
PROPERTIES PastGraceSettles RemainsCleared

