CONSTANTS
    s1 = s1
    s2 = s2
    w1 = w1
    w2 = w2
    w3 = w3
    Services = {s1}
    Watches = {w1, w2, w3}
    Call <- ThreeWatches
    MaxUpdates = 2
    None = None
SPECIFICATION FairSpec
INVARIANTS
    TypeOK
    AloneOpenUntilCancelled
    NeverGoesBack
PROPERTIES
    LastingStatesShown
    EndsWhenCancelled
