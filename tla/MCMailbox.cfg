\* A coordinator, whose prompt the user owns, and a worker; two messages; two calls.
SPECIFICATION FairSpec
CONSTANTS
    c = c
    w = w
    k1 = k1
    k2 = k2
    Handles <- TwoHandles
    Coordinator = c
    Worker = w
    UserPrompts <- CoordinatorOnly
    Calls <- TwoCalls
    SendTypes <- LifecycleTypes
    Filters <- AllButGates
    MaxMessages = 2
INVARIANTS
    TypeOK
    NobodySleepsOverMail
    TakenOnce
    NothingIsLost
PROPERTIES
    AgentGetsItsMail
