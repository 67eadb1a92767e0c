CONSTANTS
    x = x
    y = y
    p1 = p1
    p2 = p2
    a = a
    Connections <- Clients
    MaxActive = 1
    Processes <- TwoProcesses
    Nobody = Nobody
    Admins <- OneAdmin
    MaxRegistrations = 2
SPECIFICATION FairLifecycle
INVARIANTS SingleWriter UninstallComplete AnsweredWasCommitted
PROPERTIES ConnectionDecided StopHonoured CommandReturns
