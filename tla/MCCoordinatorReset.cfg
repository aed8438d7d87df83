\* Everything that can be in flight when the tables are cleared: two tasks, so that one
\* may be created after the reset and a second run may start beside the first loop; a
\* dispatch, a gate, a message, a prompt, a worker, a reload.  Workers send their report,
\* and escalations come from exits.  taskUpdate may write completed.
SPECIFICATION OpenSpec
CONSTANTS
    t1 = t1
    t2 = t2
    p1 = p1
    p2 = p2
    NoPane = NoPane
    Tasks <- TwoTasks
    Panes <- OnePane
    OperatorStatuses <- SomeStatuses
    MaxRemints = 1
    MaxDispatches = 1
    MaxGates = 1
    MaxConcurrent = 1
    MaxRuns = 2
    MaxInbox = 0
SYMMETRY MCSymmetry
INVARIANTS
    RunStopReachesRun
PROPERTIES
    ResetIsFinal
CHECK_DEADLOCK FALSE
