CONSTANTS
    c1 = c1
    c2 = c2
    s1 = s1
    t1 = t1
    Clients <- TwoClients
    Endpoints <- ThreeUrls
    Tokens = {t1}
    StatusIds = {s1}
    Blank = Blank
    NoFile = NoFile
    NoRemote = NoRemote
    MaxStarts = 2
    MaxCommands = 2
SPECIFICATION Spec
INVARIANTS ExitCodeIsTrue ReachesTheService NoLostUpdate RemoteIsCurrent StoredIsStartable
SYMMETRY Symmetry
