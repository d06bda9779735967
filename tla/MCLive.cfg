SPECIFICATION MCFairSpec
CHECK_DEADLOCK FALSE
CONSTANTS
    Instances = {s1}
    Browsers = {b1}
    Permits <- Either
    None = None
    MaxVersion = 3
    MaxFaults = 2
    n1 = n1
    p1 = p1
    u1 = u1
    u2 = u2
    Nets = {n1}
    MaxClicks = 2
    MaxNews = 1
    MaxFailures = 1
    Peers = {p1}
    Viewer = v
    Everyone = all
    Limit = 2
    MaxMessages = 3
    MaxChatEvents = 3
    Typist = t
    Onlookers = {u1, u2}
    MaxTypingEvents = 3
INVARIANTS OpenServedOrTold LiveHolds
PROPERTIES PushCoversCalls MessagesStay PagesSettle ChatCatchesUp
