SPECIFICATION MCSpec
CHECK_DEADLOCK FALSE
CONSTANTS
    Closable = {"help", "commands"}
    Firm = {"close"}
    MaxEntries = 3
    None = None
    m1 = m1
    m2 = m2
    p1 = p1
    Messages = {m1, m2}
    Peers = {p1}
    Of <- OfMessage
    Calls = {s1, s2}
    RolesTaken = {"netuser", "netlogger"}
    Self = s1
    Pictured = {s2}
    Rest = rest
    Editors = {e1, e2}
    Fields = {"name"}
    Own = {o1, o2}
    Qrz = q
    Blank = blank
    MaxEdits = 2
    MaxVisits = 1
INVARIANTS PageTypes ChatIsCovered BackClosesThePhoto PageAgrees
PROPERTIES EditsStand
