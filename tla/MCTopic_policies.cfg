CONSTANTS
    c1 = c1
    c2 = c2
    g1 = g1
    g2 = g2
    Clients = {c1, c2}
    Groups = {g1, g2}
    Channels = {k1, k2, k3, k4, k5, k6}
    Config <- MixedPolicies
    SubscriberAware = TRUE
    MayClose = TRUE
    MaxMessages = 4
    None = None
SPECIFICATION Spec
CHECK_DEADLOCK FALSE
INVARIANTS
    PausedWithoutSubscribers
PROPERTIES
    DeliversPublished
