CONSTANTS
    m1 = m1
    c1 = c1
    i1 = i1
    i2 = i2
    Monitors <- OneMonitor
    Computer = c1
    Identities <- TwoIdentities
    NoIdentity = NoIdentity
    ReplaceFaults = FALSE
    MaxDisturbances = 2
SPECIFICATION FairSpec
INVARIANTS
    NoLostEffect
    NoPhantomCheckout
    NoConflictingPending
    ObservedWasApplied
    PinnedIdentity
PROPERTIES
    WriteAhead
    RecoveryFirst
    CorruptedOnlyByReprepare
    PendingResolved
