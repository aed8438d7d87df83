\* One coordinator with one slot, two tasks, two panes, two dispatches, one gate.
\* The system may stop: every task is settled and no run is left to start.
SPECIFICATION CSpec
CONSTANTS
    t1 = t1
    t2 = t2
    p1 = p1
    p2 = p2
    NoPane = NoPane
    Tasks <- TwoTasks
    Panes <- TwoPanes
    OperatorStatuses <- NoStatuses
    MaxRemints = 1
    MaxDispatches = 2
    MaxGates = 1
    MaxConcurrent = 1
    MaxRuns = 1
    MaxInbox = 1
SYMMETRY MCSymmetry
INVARIANTS
    CTypeOK
    ConcurrencyLimit
    WorkerIsAwaited
    RunningRowHasLoop
PROPERTIES
    CompletionIsFinal
CHECK_DEADLOCK FALSE
