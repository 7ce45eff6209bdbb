\* Up to five messages of two pieces, of which the last one is recent; a batch
\* has three pieces and comes from two messages at most.
SPECIFICATION Spec
CONSTANTS
    s1 = s1
    s2 = s2
    s3 = s3
    NoSummary = NoSummary
    NoTime = NoTime
    Summaries = {s1, s2, s3}
    Size = 2
    Budget = 3
    Fetched = 2
    Recent = 1
    MaxMessages = 5
SYMMETRY IdSymmetry
\* Everything that was said is folded or recent.
CHECK_DEADLOCK FALSE
INVARIANTS
    CursorTellsWhatIsFolded
    OneActiveSummary
    
PROPERTIES
    ForgottenIsNotExtended
