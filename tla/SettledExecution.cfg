SPECIFICATION FairSpec
CONSTANTS
    Executions = {e1}
    NoExecution = NoExecution
    Writable = {"Pending", "Running", "Success", "Failed", "Timeout",
                "CompletedWithErrors", "Cancelling", "Cancelled"}
    Callers = {r, w, p, k, c, o}
    Requests = {r}
    Workers = {w}
    PoisonHandlers = {p}
    Cancellers = {k}
    Timers = {c}
    Operators = {o}
    Mortal = {w, p}
    ExecutionModes = {"async", "sync"}
    EngineStatuses = {"Success"}
    OrgScoped = {}
    MaxDequeue = 2
    CancellingTimeout = 1
    PendingTimeout = 2
    RunningTimeout = 3
    Scenarios = {{r, w, p, c}, {r, k, c}, {r, c, o}}
    MaxCrashes = 3
    MaxFaults = 0
PROPERTIES
    Settles
