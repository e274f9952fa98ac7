SPECIFICATION ResultsSpec
CONSTANTS
    Executions = {1, 2, 3}
    Callers = {c1, c2}
    NoExecution = NoExecution
    Writable = {"Pending", "Cancelling", "Failed", "Success"}
    Readers = {r}
    Runs = {1, 2, 3}
    NoRun = NoRun
    FileOf <- MCFileOf
    Large = {2}
    Empty = {3}
    Captured = {1, 2}
    PageSize = 1
    Settings <- MCSettings
SYMMETRY CallerSymmetry
INVARIANTS
    StoreTypeOK
    IndexesMirrorPrimary
    NoDanglingIndex
    SuccessIsComplete
    ListsEachOnce
PROPERTIES
    ResultsStay
    TableSpec
