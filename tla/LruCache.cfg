\* Three entries; the fourth value falls below the largest.
CONSTANTS
    Values = {1, 2, 3, 4}
    Capacity = 3
SPECIFICATION Spec
CHECK_DEADLOCK FALSE
INVARIANT
    RecentFound
