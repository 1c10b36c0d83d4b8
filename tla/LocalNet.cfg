SPECIFICATION NetFairSpec
CONSTANTS
    Pids = {1, 2}
    NoPid = NoPid
    NetMaxTries = 2
    NetMaxHeight = 4
INVARIANTS
    NetOneNode
    NodeIsTracked
PROPERTIES
    ScriptEnds
