SPECIFICATION Spec
CONSTANTS
    a1 = a1  v1 = v1  v2 = v2
    d1 = d1  d2 = d2  d3 = d3  d4 = d4  d5 = d5
    l1 = l1  l2 = l2  l3 = l3  l4 = l4
    chatA = chatA  chatB = chatB
    Chats = {chatA, chatB}
    Agents = {a1}
    Viewers = {v1, v2}
    Drivers = {d1, d2, d3}
    Locks = {l1, l2, l3}
    NoDriver = NoDriver  NoLock = NoLock  NoChat = NoChat
    MaxSessions = 1
    IdleTimeout = 0
    OneOrder = FALSE
    LateCalls = TRUE
    Mode = "extension"
SYMMETRY MCSymmetry
CHECK_DEADLOCK FALSE
INVARIANTS
    RegisteredIsUp
    EvictedIsUnwatched
    ViewersCounted
    GoneReportedOnce
    WaitersAreServed
