SPECIFICATION Spec
CONSTANTS
    Curricula = {c1, c2, c3}
    Grades = {g1, g2}
    Levels = {l1}
    Lessons = {s1}
    Bank = {}
    Users = {}
    Contents = {t1, t2}
    Grown <- FewTrees
    MaxEdits = 2
    MaxPublications = 3
    None = None
    c1 = c1
    c2 = c2
    c3 = c3
    g1 = g1
    g2 = g2
    l1 = l1
    s1 = s1
    t1 = t1
    t2 = t2
PROPERTY EveryLossIsNamed
CHECK_DEADLOCK FALSE
