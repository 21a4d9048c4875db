SPECIFICATION Spec

CONSTANTS
    Volumes = {1, 2}
    Unnamed = {}
    Removable = {1}
    OptedOut = {}
    Ignored = {2}
    Objects = {o1, o2}
    Requests = {r1}
    Agents = {g1, g2}
    Orchestrators = {"docker", "kubernetes", "cattle"}
    Receivers = {TRUE, FALSE}
    Options <- Whitelisted
    MaxAttachments = 2
    NoObject = NoObject
    NoAgent = NoAgent

INVARIANTS
    TypeOK
    Selected
    AgentsOfVolume
    StoredIsKnown

SYMMETRY Interchangeable

VIEW Live

CONSTRAINT TwoAttempts
