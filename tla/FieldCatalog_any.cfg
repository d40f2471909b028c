SPECIFICATION Spec
CONSTANTS
    System = {"labels"}
    Custom = {"customfield_1", "customfield_2"}
    Names = {"Points", "Points of the team", "labels"}
    Cut <- CutToSix
    NoField = "NULL"
    MaxItems = 2
INVARIANTS NeverMisattributed UnattributedIsAmbiguous SkipIsSound
PROPERTIES AttributionIsKept
