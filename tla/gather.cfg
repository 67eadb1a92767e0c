CONSTANTS
    pc1 = pc1
    m1 = m1
    Computer = pc1
    Monitors <- OneMonitor
    Makers <- MakerRows
    Models <- ModelRows
    Missing = Missing
    Ambiguous = Ambiguous
    MaxStructures = 3
    PageSize = 1
    MaxPages = 3
    MaxRows = 3
    Deadline = 2
    RequestTimeout = 1
    ServerLimits = {1, 2}
    MaxListed = 3
    MaxChanges = 2
SPECIFICATION Spec
INVARIANTS NothingSkipped SearchBounded CompletedWasAnswered OkWasApplied
