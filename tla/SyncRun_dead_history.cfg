SPECIFICATION FairSpec
CONSTANTS
    p = p
    q = q
    Nobody = Nobody
    Projects = {p}
    Issues = {1}
    ProjectOf <- AllInOne
    Names = {"K"}
    FirstName = "K"
    Kinds = {"STR"}
    FirstKind = "STR"
    PageSize = 2
    Batch = 1
    Overlap = 1
    Minute = 2
    Lag = 1
    LiveEdits = FALSE
    Toggles = FALSE
    MaxClock = 3
    MaxFailures = 0
    MaxCrashes = 1
    Unparsable <- AllParse
PROPERTIES EventuallyMirrored
