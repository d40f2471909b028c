SPECIFICATION Spec
CONSTANTS
    Bytes <- Utf8
    Blanks = {" "}
    Values <- Names
    None = None
    ColumnBytes = 3
    ValueBytes = 5
    LogBytes = 6
    CategoryOf <- Statuses
    FirstText <- Firsts
    Storages = {"COLUMN", "UNREAD", "MULTI"}
    Inline = 2
    MaxItems = 3
    MaxTime = 3
    Sentinel = 5
INVARIANTS TypeOK HistoryTiles EndsAtCurrent CategoriesFollow Faithful FirstDoneIsFirst
