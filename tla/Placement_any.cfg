SPECIFICATION FairSpec
CONSTANTS
    a = a
    b = b
    i = i
    j = j
    Projects = {a, b}
    Issues = {i}
    Outside = Outside
    Gone = Gone
    Hides = TRUE
    Toggles = TRUE
    MaxChanges = 5
    MaxFailures = 1
INVARIANTS DetectInv
PROPERTIES MarkedWasAway DetectionIsExact EventuallyPlaced
