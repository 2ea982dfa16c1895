CONSTANTS
    u1 = u1
    u2 = u2
    t1 = t1
    t2 = t2
    k1 = k1
    i1 = i1
    i2 = i2
    Users = {u1, u2}
    Threads = {t1, t2}
    Sockets = {k1}
    Symbols = {i1, i2}
    WS_MAX_SUBSCRIPTIONS = 1
    Loads <- MCLoads
SPECIFICATION FairSpec
INVARIANTS
    CodeSpentOnce
    ReplayEndsFamily
    NothingAfterRevocation
    DisableEndsSessions
    StreamsOwnEvents
    GroupsMatchSubscriptions
PROPERTIES
    RevokedSocketCloses
CHECK_DEADLOCK FALSE
