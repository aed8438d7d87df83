\* Two deployers started once and a collector started twice: one command fails, loses
\* its reply or is its client's last.  The system may stop: nobody is left to start.
SPECIFICATION FairSpec
CONSTANTS
    a = a
    b = b
    g = g
    None = None
    Deployers <- TwoDeployers
    Collectors <- OneCollector
    MaxStarts <- CollectsTwice
    MaxFaults = 1
INVARIANTS
    TypeOK
    ExclusionUnlessCarried
    LaunchIsFenced
PROPERTIES
    MoveIsSafe
    DeployEnds
CHECK_DEADLOCK FALSE
