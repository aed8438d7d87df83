\* A task is created after what it depends on was completed.
SPECIFICATION Spec
CONSTANTS
    t1 = t1
    t2 = t2
    p1 = p1
    NoPane = NoPane
    Tasks <- MCTasks
    Panes <- MCPanes
    OperatorStatuses <- MCOperatorStatuses
    MaxRemints = 0
    MaxDispatches = 2
    MaxGates = 0
SYMMETRY MCSymmetry
INVARIANTS
    NoStrandedChild
