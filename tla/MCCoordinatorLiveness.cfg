\* One task, retried until the circuit breaks, gated once: six dispatches are more
\* than it can use up.  No symmetry: the properties are temporal.
SPECIFICATION FairSpec
CONSTANTS
    t1 = t1
    t2 = t2
    p1 = p1
    p2 = p2
    NoPane = NoPane
    Tasks <- OneTask
    Panes <- OnePane
    OperatorStatuses <- NoStatuses
    MaxRemints = 2
    MaxDispatches = 6
    MaxGates = 1
    MaxConcurrent = 1
    MaxRuns = 1
    MaxInbox = 1
PROPERTIES
    StoppedRunEnds
    RunEnds
CHECK_DEADLOCK FALSE
