SPECIFICATION FairSpec
CONSTANTS
    Acts = {a1, a2, m1}
    Manuals = {m1}
    CloudConfigured = TRUE
    MaxRestarts = 1
    None = None
    a1 = a1
    a2 = a2
    m1 = m1
INVARIANTS
    TypeOK
    OneInFlight
    PushCarriesAct
    LearnersHaveIt
    AtMostTwoPushes
PROPERTIES
    OnlyAbandonedGoesBack
    LanesKeepTheContract
    EveryActIsAnswered
CHECK_DEADLOCK FALSE
