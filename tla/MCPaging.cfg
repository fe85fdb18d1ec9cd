SPECIFICATION PagingSpec
CONSTANTS
    Entry = {r1, r2, r3, r4}
    MaxKey = 4
    MaxSize = 3
    MaxBare = 1
    MaxWrites = 3
SYMMETRY Symmetry
CHECK_DEADLOCK FALSE
INVARIANTS MissedOnlyByChanges RepeatedOnlyByInserts LinkedPagesHaveRows
