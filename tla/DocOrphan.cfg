SPECIFICATION FairSpec

CONSTANTS
    Volumes = {1, 2}
    Unnamed = {}
    Removable = {1}
    OptedOut = {}
    Ignored = {}
    Objects = {o1}
    Requests = {}
    Agents = {g1}
    Orchestrators = {"cattle"}
    Receivers = {FALSE}
    Options <- Blacklist
    MaxAttachments = 2
    NoObject = NoObject
    NoAgent = NoAgent

PROPERTIES
    BackedUpAtIntervals
