SPECIFICATION FairHostSpec
CONSTANTS
    Call = {c1}
    Fetch = {f1}
    Address = {home, site}
    Public = {site}
    MaxRedirects = 2
    MaxSize = 2
    None = None
    Runner = {timer, owner}
    Timer = timer
    MaxIssued = 2
    MaxContainers = 2
    MaxFaults = 2
    Nothing = Nothing
    Drive = {sda, sdb}
    MaxDrives = 2
    MaxFit = 1
    MaxValue = 1
    MaxAge = 1
    MaxFuture = 0
    MaxClock = 2
    Null = Null
INVARIANTS
    HostInv
    ServesWhatIsInstalled
PROPERTIES
    HostProgress
CHECK_DEADLOCK FALSE
