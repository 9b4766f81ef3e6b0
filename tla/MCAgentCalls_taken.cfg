SPECIFICATION CallsSpec
CONSTANTS
    v1 = v1  a1 = a1  a2 = a2  site = site
    t1 = t1  t2 = t2  t3 = t3  t4 = t4  t5 = t5  p1 = p1  p2 = p2
    Viewers = {v1}
    Agents = {a1}
    Site = site
    Extension = FALSE
    Tabs = {t1, t2, t3, t4}
    Pumps = {p1}
    NoTab = NoTab  NoPump = NoPump
    MaxTabs = 2
    MaxFrames = 0
    MaxDocs = 2
    MaxTurns = 3
SYMMETRY MCSymmetry
CHECK_DEADLOCK FALSE
INVARIANTS
    CallsTypeOK
    NeverTabless
    ActsWhereNamed
    TakeoverHolds
PROPERTIES
    ReportsWhatHappened
