\* Workers only report or exit: no escalation but the one an exit sends.
SPECIFICATION CSpec
CONSTANTS
    t1 = t1
    t2 = t2
    p1 = p1
    p2 = p2
    NoPane = NoPane
    Tasks <- OneTask
    Panes <- OnePane
    OperatorStatuses <- NoStatuses
    MaxRemints = 1
    MaxDispatches = 3
    MaxGates = 0
    MaxConcurrent = 1
    MaxRuns = 1
    MaxInbox = 0
INVARIANTS
    BreakerNeedsThreeFailedDispatches
CHECK_DEADLOCK FALSE
