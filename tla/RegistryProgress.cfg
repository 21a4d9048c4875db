SPECIFICATION FairSpec

CONSTANTS
    Volumes = {1, 2}
    Unnamed = {}
    Removable = {1}
    OptedOut = {}
    Ignored = {}
    Objects = {o1, o2}
    Requests = {}
    Agents = {g1}
    Orchestrators = {"docker", "kubernetes"}
    Receivers = {FALSE}
    Options <- Unfiltered
    MaxAttachments = 1
    NoObject = NoObject
    NoAgent = NoAgent

PROPERTIES
    DueIsAttempted
