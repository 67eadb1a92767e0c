CONSTANTS
    a = a
    b = b
    k1 = k1
    k2 = k2
    bare = bare
    whole = whole
    unreadable = unreadable
    Ids <- MCIds
    States <- MCStates
    NoState = bare
    Bare = bare
    Unreadable = unreadable
    Keys <- MCKeys
    NoKey = NoKey
    MaxLines = 6
SPECIFICATION EvidenceSpec
INVARIANTS FoldMeetsReference RecoveredIsKept
PROPERTIES ImplementsEvidence StaysVerifiable
SYMMETRY Symmetry
CHECK_DEADLOCK FALSE
