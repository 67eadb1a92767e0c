CONSTANTS
    a = a
    scheduler = scheduler
    nobody = nobody
    Clients <- OneClient
    Automatic = scheduler
    Nobody = nobody
    Capacity = 1
    MaxSyncs = 2
    MaxCancels = 1
    MaxPanics = 1
    Intervals = {1, 2}
    MaxSaves = 1
SPECIFICATION FairReadSpec
INVARIANTS NextSyncIsTrue ClaimIsLive
PROPERTIES AnsweredSyncCompletes SchedulerResumes ConfiguredGetsScheduled
