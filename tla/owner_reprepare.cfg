CONSTANTS
    m1 = m1
    c1 = c1
    i1 = i1
    i2 = i2
    Monitors <- OneMonitor
    Computer = c1
    Identities <- OneIdentity
    NoIdentity = NoIdentity
    ReplaceFaults = FALSE
    MaxDisturbances = 2
SPECIFICATION Spec
INVARIANT NeverSelfCorrupt
