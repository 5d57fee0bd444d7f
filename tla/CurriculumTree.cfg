SPECIFICATION Spec
CONSTANTS
    Grades <- TheGrades
    Levels <- TheLevels
    Lessons <- TheLessons
    Items <- TheItems
    Questions <- TheQuestions
    KindOf <- TheKinds
    Requests = {p1, p2, p3}
    Asks <- ManyAsks
    Trees <- TheTrees
    Total = 5
    BulkWorth = 4
    MaxFailures = 1
    None = None
    p1 = p1
    p2 = p2
    p3 = p3
INVARIANTS
    TypeOK
    RightWhenUndisturbed
    ListsAreNotMixed
CHECK_DEADLOCK FALSE
