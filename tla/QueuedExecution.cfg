SPECIFICATION Spec
CONSTANTS
    Executions = {e1}
    NoExecution = NoExecution
    Writable = {"Pending", "Running", "Success", "Failed", "Timeout",
                "CompletedWithErrors", "Cancelling", "Cancelled"}
    Callers = {r, w, k, c}
    Requests = {r}
    Workers = {w}
    PoisonHandlers = {}
    Cancellers = {k}
    Timers = {c}
    Operators = {}
    Mortal = {r, w, k}
    ExecutionModes = {"async", "sync"}
    EngineStatuses = {"Success"}
    OrgScoped = {}
    MaxDequeue = 2
    CancellingTimeout = 1
    PendingTimeout = 2
    RunningTimeout = 3
    Scenarios = {{r, w, k}, {r, k, c}, {r, w, c}}
    MaxCrashes = 2
    MaxFaults = 2
CHECK_DEADLOCK FALSE
INVARIANTS
    QueueInv
    RunsVisibly
PROPERTIES
    FinalStays
    CancelHolds
