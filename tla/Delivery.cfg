SPECIFICATION DeliverySpec
CONSTANTS
    Publishers = {p1, p2}
    Retirers = {}
    Deleters = {d1}
    Initials = {i1}
    Readers = {s1}
    Curricula <- TwoCurricula
    MaxVersion = 0
    MaxClock = 0
    None = None
    s1 = s1
    p1 = p1
    p2 = p2
    d1 = d1
    i1 = i1
SYMMETRY RequestsSymmetry
INVARIANTS
    ReadersTypeOK
    CarriesEarlierActs
    OnePublishIsSurvived
    DeletedIsNotServed
    InitialIsServedWhole
CHECK_DEADLOCK FALSE
