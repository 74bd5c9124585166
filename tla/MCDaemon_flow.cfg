CONSTANTS
    s1 = s1
    s2 = s2
    Services <- TwoServices
    Additions <- OneOfEach
    ZeroStartup <- TwoServices
    ZeroDefault <- TwoServices
    ConcurrentAdd = FALSE
    SlotsPerService = 1
    RPCEnabled = TRUE
SPECIFICATION FairSpec
INVARIANTS
    IInv
PROPERTIES
    PublishedLifecycle
    ShutdownCompletes
    ExitPublished
    RestartedAfterStop
