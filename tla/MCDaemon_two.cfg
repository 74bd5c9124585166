CONSTANTS
    s1 = s1
    s2 = s2
    Services <- TwoServices
    Additions <- AnyAddition
    ZeroStartup <- TwoServices
    ZeroDefault <- TwoServices
    ConcurrentAdd = TRUE
    SlotsPerService = 1
    RPCEnabled = TRUE
SPECIFICATION Spec
SYMMETRY SymServices
INVARIANTS
    TypeOK
    NoSendAfterClose
    ServicesExitedBeforeReturn
    StopBeforeExit
    StopNotRepeated
    FinalStatePublished
    
