CHECK_DEADLOCK FALSE
SPECIFICATION DiscoverySpec
CONSTANTS
    user = user
    shipped = shipped
    lib = lib
    r1 = r1
    r2 = r2
    Home = {user, lib}
    Platform = {shipped}
    Helper = lib
    Names = {"sync"}
    Requests = {r1, r2}
    Nobody = Nobody
    Settings <- MCSettings
    MaxSaves = 2
    MaxFaults = 1
    MaxRecycles = 1
    MaxImports = 2
INVARIANTS
    CodeIsFresh
    FindsWhatStayed
    AnsweredIsRecorded
