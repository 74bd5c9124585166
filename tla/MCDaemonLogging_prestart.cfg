CONSTANTS
    c1 = c1
    NumStages = 2
    Writers <- ThreeWriters
    Lengths = {1, 2}
    Limit = 2
    MaxExisting = 1
    RPCClients = {c1}
    Want <- WantedAlone
    Levels = {1, 2}
    ErrorLevel = 1
    NoticeLevel = 2
    DebugLevel = 2
SPECIFICATION FairSpec
CHECK_DEADLOCK FALSE
INVARIANTS
    TypeOK
    StagesInOrder
    HangsOnlyAfterLastFailure
    FileWithinLimit
    AnsweredMeansChanged
    ServicesAfterPrestart
PROPERTIES
    CancelEndsPrestart
    RestartsUntilSuccess
    CallEnds
