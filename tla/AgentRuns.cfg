SPECIFICATION FairSpec

CONSTANTS
    Agents = {a1}
    Operators = {r1, r2}
    Jobs = {"backup", "restore"}
    Forces = {TRUE, FALSE}
    RawModes = {"shared", "exclusive", "unlock"}
    Results = {"ok", "error", "killed", "unstarted"}
    Dying = TRUE
    MaxTries = 3
    Absent = Absent

INVARIANTS
    TypeOK
    ForgetAfterBackup
    PruneAlone

PROPERTIES
    SuccessIsABackup
    AgentEnds
