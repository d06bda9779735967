SPECIFICATION Spec
CONSTANTS
    Occurrences = {o1}
    Rooms = {r1}
    Closers = {c1, c2}
    Creators = {k1}
    None = None
    Prep = 1
    Grace = 1
    Stale = 1
    StartTimes <- StartTimesValue
    MaxTime = 2
    MaxCrashes = 1
INVARIANTS ClosersExclusive
PROPERTIES AiredRoomRetained
