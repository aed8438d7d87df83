\* A reset while a loop awaits, and a second run.
SPECIFICATION OpenSpec
CONSTANTS
    t1 = t1
    t2 = t2
    p1 = p1
    p2 = p2
    NoPane = NoPane
    Tasks <- TwoTasks
    Panes <- OnePane
    OperatorStatuses <- NoStatuses
    MaxRemints = 1
    MaxDispatches = 1
    MaxGates = 0
    MaxConcurrent = 1
    MaxRuns = 2
    MaxInbox = 1
SYMMETRY MCSymmetry
INVARIANTS
    OnlyOneLoop
CHECK_DEADLOCK FALSE
