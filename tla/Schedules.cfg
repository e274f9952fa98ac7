SPECIFICATION FairScheduleSpec
CONSTANTS
    Workflows = {w1}
    Timers = {t1, t2}
    Runners = {m}
    Triggers = {g}
    Crons = {"every", "second"}
    InvalidCron = "invalid"
    NoCron = "none"
    Descriptions = {"d1", "d2"}
    NextRun <- MCNextRun
    NoWorkflow = NoWorkflow
    Mortal = {t1}
    MaxTime = 2
    MaxEdits = 1
    Scenarios = {{t1, t2}, {t1, m}, {t1, g}}
    MaxFailures = 1
CHECK_DEADLOCK FALSE
INVARIANTS
    SlotRunsOnce
    CountNeverOverstates
PROPERTIES
    CatchesUp
