\* Five chunks: "**" in front, in the middle and at the end.
CONSTANTS
    RawChunks <- FewRawChunks
    Chunks <- FewChunks
    Keys <- FewKeys
    MaxChunks = 5  MaxDoubleStars = 3
SPECIFICATION KeSpec
CHECK_DEADLOCK FALSE
INVARIANT
    MatchesRight
