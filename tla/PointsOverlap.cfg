SPECIFICATION Spec
CONSTANTS
    Grades <- TheGrades
    Levels <- TheLevels
    Lessons <- TheLessons
    Items <- TheItems
    Questions <- TheQuestions
    KindOf <- TheKinds
    Requests = {p1, p2, p3}
    Asks <- TwoSwitches
    Trees <- TheTrees
    Total = 5
    BulkWorth = 4
    MaxFailures = 0
    None = None
    p1 = p1
    p2 = p2
    p3 = p3
INVARIANT
    PointsAreTheSum
CHECK_DEADLOCK FALSE
