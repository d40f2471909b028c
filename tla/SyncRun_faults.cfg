SPECIFICATION Spec
CONSTANTS
    p = p
    q = q
    Nobody = Nobody
    Projects = {p}
    Issues = {1, 2}
    ProjectOf <- AllInOne
    Names = {"K"}
    FirstName = "K"
    Kinds = {"STR"}
    FirstKind = "STR"
    PageSize = 1
    Batch = 1
    Overlap = 1
    Minute = 2
    Lag = 2
    LiveEdits = TRUE
    Toggles = TRUE
    MaxClock = 5
    MaxFailures = 1
    MaxCrashes = 1
    Unparsable <- SomeDoNot
INVARIANTS TypeOK HistoryDebt WatermarkCovers IInv
PROPERTIES DryRunLeavesNoTrace ImplementsMirror
