SPECIFICATION FairSpec
CONSTANTS
    Issues = {1, 2, 3}
    TotalOf <- OneLong
    Inline = 2
    Caps = {0, 1, 2}
    MaxAttempts = 3
    MaxEdits = 2
CHECK_DEADLOCK FALSE
INVARIANTS Complete SkipsBounded TruncationIsTold OfferedIsKept
PROPERTIES Terminates
