SPECIFICATION FairSpec
CONSTANTS
    t1 = t1  t2 = t2
    k1 = k1  k2 = k2  k3 = k3  k4 = k4  k5 = k5
    Tabs = {t1, t2}
    Picked = t1
    Tasks = {k1, k2, k3, k4, k5}
    NoTab = NoTab  NoTask = NoTask
    MaxTurns = 2
CHECK_DEADLOCK FALSE
INVARIANTS
    TypeOK
    AttachedIsTold
    NoCallForgotten
    EndIsUnderWay
    StaysForATab
PROPERTIES
    ConnectionEnds
    CommandsAnswered
    LinksEndTogether
