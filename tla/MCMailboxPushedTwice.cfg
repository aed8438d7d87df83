\* Two pushes within the half second before the Enter key.
SPECIFICATION Spec
CONSTANTS
    c = c
    w = w
    k1 = k1
    k2 = k2
    Handles <- TwoHandles
    Coordinator = c
    Worker = w
    UserPrompts <- CoordinatorOnly
    Calls <- OneCall
    SendTypes <- LifecycleTypes
    Filters <- AllButGates
    MaxMessages = 2
INVARIANT
    PushedAtMostOnce
