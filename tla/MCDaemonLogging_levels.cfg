CONSTANTS
    c1 = c1
    NumStages = 1
    Writers <- ThreeWriters
    Lengths = {1}
    Limit = 2
    MaxExisting = 0
    RPCClients = {c1}
    Want <- WantedAlone
    Levels = {1, 2}
    ErrorLevel = 1
    NoticeLevel = 2
    DebugLevel = 2
SPECIFICATION Spec
CHECK_DEADLOCK FALSE
INVARIANT ChildrenShareLevel
