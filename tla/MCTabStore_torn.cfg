SPECIFICATION Spec
CONSTANTS
    u1 = u1  u2 = u2  th1 = th1  th2 = th2  th3 = th3  i1 = i1  i2 = i2  i3 = i3  i4 = i4
    Urls = {u1}
    Blank = Blank
    Threads = {th1, th2}
    Inodes = {i1, i2, i3}
    NoInode = NoInode  None = None  Empty = Empty  Garbled = Garbled
    MaxTabs = 2
    MaxRestoreTabs = 2
SYMMETRY MCSymmetry
INVARIANT NeverTorn
