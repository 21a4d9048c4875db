SPECIFICATION Spec

CONSTANTS
    Names = {1, 2, 3}
    Inner <- BelowOne
    Held <- SnapshotPaths
    Occupied <- VolumePaths
    Results = {"ok", "error"}
    MaxMishaps = 1
    Absolute <- LeadingPaths
    Nowhere = Nowhere
    NoName = NoName

INVARIANTS
    TypeOK
    InPlace
    Untouched
    Residue

CHECK_DEADLOCK FALSE
