CONSTANTS
    ProfileFields = {"phone"}
    Values = {"v1", "v2"}
    MaxVersion = 3
    MaxSaves = 1
    MaxLoads = 1
SPECIFICATION EditorSpec
CHECK_DEADLOCK FALSE
INVARIANT FindsConflicts
