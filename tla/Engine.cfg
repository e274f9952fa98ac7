CHECK_DEADLOCK FALSE
SPECIFICATION EngineSpec
CONSTANTS
    e1 = e1
    e2 = e2
    e3 = e3
    Tasks = {e1, e2, e3}
    Names = {"sync", "report"}
    Nobody = Nobody
    Jobs <- MCJobs
    MaxTurns = 1
    MaxRecycles = 1
INVARIANTS
    EngineInv
PROPERTIES
    Isolated
