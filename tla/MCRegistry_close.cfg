CONSTANTS
    t1 = t1
    t2 = t2
    t3 = t3
    Tasks = {t1, t2}
    Names = {n1}
    TypeOf <- AllTyped
    ErrIfExists = {t1}
    Creators = {t1}
    Removers = {}
    Owners = {}
    Subscribers = {t2}
    Closers = {t1}
    MaxTopics = 1
SPECIFICATION Spec
INVARIANTS
    CloseClosesTopics
