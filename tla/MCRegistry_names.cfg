CONSTANTS
    t1 = t1
    t2 = t2
    t3 = t3
    Tasks = {t1, t2, t3}
    Names = {n1}
    TypeOf <- OneAny
    ErrIfExists = {t1}
    Creators = {t1, t2, t3}
    Removers = {t1, t2, t3}
    Owners = {t2}
    Subscribers = {t1, t2}
    Closers = {t3}
    MaxTopics = 3
SPECIFICATION FairSpec
INVARIANTS
    TypeOK
    
    FoundTopicsAreOpen
    
PROPERTIES
    WaitingEndsWithClose
