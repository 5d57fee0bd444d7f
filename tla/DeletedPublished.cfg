SPECIFICATION Spec
CONSTANTS
    Publishers = {}
    Retirers = {}
    Deleters = {d1}
    Initials = {i1}
    Curricula <- OneCurriculum
    MaxVersion = 0
    MaxClock = 0
    None = None
    d1 = d1
    i1 = i1
INVARIANT DeletedNotPublished
CHECK_DEADLOCK FALSE
