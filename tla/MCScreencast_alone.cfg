SPECIFICATION FairSpec
CONSTANTS
    v1 = v1  v2 = v2  a1 = a1  site = site
    t1 = t1  t2 = t2  t3 = t3  p1 = p1  p2 = p2  p3 = p3  t4 = t4  t5 = t5
    Viewers = {v1}
    Agents = {}
    Site = site
    Extension = FALSE
    Tabs = {t1, t2, t3, t4}
    Pumps = {p1, p2}
    NoTab = NoTab  NoPump = NoPump
    MaxTabs = 2
    MaxFrames = 2
INVARIANTS
    CaptureFollowsActive
    WorksWhileWatched
    NeverLeftBehind
PROPERTY FreshestGetsThrough
