SPECIFICATION Spec
CONSTANTS
    Occurrences = {o1, o2}
    Rooms = {r1, r2}
    Closers = {c1}
    Creators = {}
    None = None
    Prep = 1
    Grace = 1
    Stale = 1
    StartTimes <- StartTimesValue
    MaxTime = 2
    MaxCrashes = 0
SYMMETRY Symmetry
INVARIANTS TypeOK LinkIffEngaged RoomMatchesOccurrence
PROPERTIES ImplementsOccurrenceStatus
