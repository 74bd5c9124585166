CONSTANTS
    c1 = c1
    c2 = c2
    g1 = g1
    g2 = g2
    Clients = {c1, c2}
    Groups = {g1}
    Channels = {k1, k2, k3, k4, k5, k6}
    Config <- SharedGroup
    SubscriberAware = FALSE
    MayClose = TRUE
    MaxMessages = 1
    None = None
SPECIFICATION Spec
INVARIANTS
    NoPanic
