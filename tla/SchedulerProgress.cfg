SPECIFICATION LiveSpec

CONSTANTS
    Volumes = {v1, v2}
    VolumeSeq <- TwoVolumes
    Hosts = {h1}
    HostOf <- SameHost
    Unbound = unbound
    Cattle = FALSE
    Workers = {w1}
    Requests = {}
    Dispatcher = dispatcher
    ParallelCount = 1
    QueueCap = 1
    RetryCount = 0
    Hour = 0
    Interval = 0
    UTCLag = 1
    AgeCap = 1
    Reports = {"Success", "Failed"}
    Found = {0, 1, NoDate}
    NoVolume = NoVolume
    NoActor = NoActor
    NoDate = NoDate
    v1 = v1
    v2 = v2
    h1 = h1

PROPERTIES
    TriedOrCrowdedOut
