SPECIFICATION Spec
CONSTANTS
    a = a
    b = b
    i = i
    j = j
    Projects = {a}
    Issues = {i}
    Outside = Outside
    Gone = Gone
    Hides = TRUE
    Toggles = FALSE
    MaxChanges = 4
    MaxFailures = 0
PROPERTIES CollectedIsShown
