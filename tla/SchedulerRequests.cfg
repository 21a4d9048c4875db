SPECIFICATION FairSpec

CONSTANTS
    Volumes = {v1}
    VolumeSeq <- OneVolume
    Hosts = {h1}
    HostOf <- SameHost
    Unbound = unbound
    Cattle = TRUE
    Workers = {w1}
    Requests = {r1}
    Dispatcher = dispatcher
    ParallelCount = 1
    QueueCap = 1
    RetryCount = 1
    Hour = 0
    Interval = 0
    UTCLag = 0
    AgeCap = 1
    Reports = {"Failed"}
    Found = {NoDate}
    NoVolume = NoVolume
    NoActor = NoActor
    NoDate = NoDate
    v1 = v1
    v2 = v2
    h1 = h1

INVARIANTS
    TypeOK
    SlotAccounting
    AgentExclusion
    MarksHaveOwner

PROPERTIES
    SlotReturned
    RefresherNeverStuck
