CONSTANTS
    m1 = m1
    c1 = c1
    i1 = i1
    i2 = i2
    Monitors <- OneMonitor
    Computer = c1
    Identities <- TwoIdentities
    NoIdentity = NoIdentity
    ReplaceFaults = TRUE
    MaxDisturbances = 2
SPECIFICATION Spec
INVARIANT PinnedIdentity
