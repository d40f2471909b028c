SPECIFICATION Spec
CONSTANTS
    p = p
    q = q
    Nobody = Nobody
    Projects = {p}
    Issues = {1, 2, 3}
    ProjectOf <- AllInOne
    Names = {"K"}
    FirstName = "K"
    Kinds = {"STR"}
    FirstKind = "STR"
    PageSize = 1
    Batch = 1
    Overlap = 1
    Minute = 1
    Lag = 1
    LiveEdits = TRUE
    Toggles = FALSE
    MaxClock = 7
    MaxFailures = 0
    MaxCrashes = 0
    Unparsable <- AllParse
INVARIANTS NoEditOvertakes
