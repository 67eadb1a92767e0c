CONSTANTS
    a = a
    scheduler = scheduler
    nobody = nobody
    Clients <- OneClient
    Automatic = scheduler
    Nobody = nobody
    Capacity = 1
    MaxSyncs = 1
    MaxCancels = 0
    MaxPanics = 0
    Intervals = {1, 2}
    MaxSaves = 1
SPECIFICATION Spec
PROPERTY UnrelatedSaveKeepsDeadline
