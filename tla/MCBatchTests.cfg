CONSTANTS
    p1 = p1
    p2 = p2
    Profiles <- MCProfiles
    Lists <- MCLists
    Forms <- MCForms
    DeadSets <- MCDeadSets
    AutoClear = TRUE
    None = None
    Aborted = Aborted
    MaxTests = 2
    Plans <- MCPlans
    MaxBytes = 2
SPECIFICATION FairSpec
INVARIANTS TestsTakeTurns BytesAreCredited
PROPERTIES  TestEnds
CHECK_DEADLOCK FALSE
