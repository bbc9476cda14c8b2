SPECIFICATION MCSpec

CONSTANTS
    Account = {admin, user}
    SuperAdmin = admin
    Device = {d1, d2}
    Attempts = 2
    MaxSessions = 3
    MaxPassword = 2
    Tab = {t1}
    MaxVersion = 3
    MaxIntents = 2
    MaxDrops = 1
    MaxEvictions = 1
    MaxPresses = 1
    admin = admin
    user = user
    d1 = d1
    d2 = d2
    t1 = t1

SYMMETRY Symmetry
CHECK_DEADLOCK FALSE

INVARIANT AtMostTwoSessions
INVARIANT SessionsAreEntitled
INVARIANT QuietTabIsFresh
INVARIANT ChannelHoldsTheEntitled
