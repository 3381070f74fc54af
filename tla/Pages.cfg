SPECIFICATION FairSpec
CONSTANTS
    NoCursor = NoCursor
    Rows = {1, 2, 3, 4}
    Limits = {1, 2}
    MaxTime = 3
INVARIANTS
    TypeOK
    ShownOnce
    NothingMissed
    ExactWhenQuiet
PROPERTIES
    WalkEnds
