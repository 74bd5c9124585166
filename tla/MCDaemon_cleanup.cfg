CONSTANTS
    s1 = s1
    s2 = s2
    Services <- OneService
    Additions <- AnyAddition
    ZeroStartup <- Nobody
    ZeroDefault <- Nobody
    ConcurrentAdd = TRUE
    SlotsPerService = 4
    RPCEnabled = FALSE
SPECIFICATION Spec
INVARIANTS
    CleanupAfterAnyLifecycle
