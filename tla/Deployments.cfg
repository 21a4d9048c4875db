SPECIFICATION FairSpec

CONSTANTS
    Calls = {c1, c2, c3}
    Handled = {c2}
    Former = {c3}
    Orchestrators = {"docker", "kubernetes", "cattle"}
    MaxObjects <- OneOnCattle
    NoAgent = NoAgent

INVARIANTS
    TypeOK
    NoStrayAgent
    AgentsApart
    RestartIsAwaited

PROPERTIES
    CallsReturn
