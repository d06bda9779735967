SPECIFICATION Spec
CONSTANTS
    Occurrences = {o1}
    Rooms = {r1, r2}
    Closers = {}
    Creators = {k1}
    None = None
    Prep = 1
    Grace = 1
    Stale = 1
    StartTimes <- StartTimesValue
    MaxTime = 2
    MaxCrashes = 0
SYMMETRY Symmetry
PROPERTIES LinkNeverReplaced

