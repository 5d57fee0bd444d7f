SPECIFICATION Spec
CONSTANTS
    Curricula <- ThreeCurricula
    Keys <- SomeRows
    Languages = {"km"}
    Publications <- SomePublications
    None = None
INVARIANTS
    TypeOK
    NewestCopyWins
    TextsFollowTheirRow
    ConfineFindsNothing
CHECK_DEADLOCK FALSE
