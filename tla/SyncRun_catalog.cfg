SPECIFICATION FairSpec
CONSTANTS
    p = p
    q = q
    Nobody = Nobody
    Projects = {p, q}
    Issues = {1, 2}
    ProjectOf <- OneEach
    Names = {"K", "L"}
    FirstName = "K"
    Kinds = {"STR", "NUM"}
    FirstKind = "STR"
    PageSize = 1
    Batch = 2
    Overlap = 1
    Minute = 2
    Lag = 1
    LiveEdits = FALSE
    Toggles = FALSE
    MaxClock = 2
    MaxFailures = 1
    MaxCrashes = 0
    Unparsable <- AllParse
INVARIANTS CatalogDebt
PROPERTIES ClearedMeansRepaired EventuallyMirrored
