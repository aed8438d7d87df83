\* Two tasks, one pane whose handle is reminted once (so two handles), two
\* dispatches and one gate.
SPECIFICATION Spec
CONSTANTS
    t1 = t1
    t2 = t2
    p1 = p1
    NoPane = NoPane
    Tasks <- MCTasks
    Panes <- MCPanes
    OperatorStatuses <- MCOperatorStatuses
    MaxRemints = 1
    MaxDispatches = 2
    MaxGates = 1
SYMMETRY MCSymmetry
INVARIANTS
    TypeOK
    DispatchLock
    DispatchedTaskHasWorker
PROPERTIES
    AcceptedReportFreesWorker
    LastDependencyReleases
    LeaseSpec
