SPECIFICATION Spec
CONSTANTS
    Publishers = {p1, p2, p3}
    Retirers = {r1}
    Deleters = {d1}
    Initials = {}
    Curricula <- OneCurriculum
    MaxVersion = 1
    MaxClock = 1
    None = None
    p1 = p1
    p2 = p2
    p3 = p3
    r1 = r1
    d1 = d1
SYMMETRY PublishersSymmetry
INVARIANTS
    TypeOK
    NewestReadIsNewest
    LatestIsNeverATie
    LatestTwoAreWhole
    WithdrawnTogether
    DeletedNotPublished
    StoredIsClosed
PROPERTY HistoryIsKept
CHECK_DEADLOCK FALSE
