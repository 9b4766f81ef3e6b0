SPECIFICATION Spec
CONSTANTS
    p1 = p1  p2 = p2  c1 = c1  c2 = c2  d1 = d1  d2 = d2  d3 = d3
    Pods = {p1, p2}
    Chats = {c1, c2}
    Drivers = {d1, d2}
    Nobody = Nobody
SYMMETRY MCSymmetry
INVARIANTS
    OneChromium
    ChromiumUndisturbed
    LockHasReason
PROPERTY OnlyOrphansGo
