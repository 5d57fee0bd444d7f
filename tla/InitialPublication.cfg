SPECIFICATION FairSpec
CONSTANTS
    Publishers = {}
    Retirers = {r1}
    Deleters = {}
    Initials = {i1, i2}
    Curricula <- TwoCurricula
    MaxVersion = 1
    MaxClock = 0
    None = None
    r1 = r1
    i1 = i1
    i2 = i2
INVARIANT InitialIsAllOrNothing
PROPERTY EveryRequestEnds
CHECK_DEADLOCK FALSE
