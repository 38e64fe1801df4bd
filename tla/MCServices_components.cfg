CONSTANTS
    Files = {t1, t2}
    Workers = {a1, a2}
    Endpoints = {t1, t2}
    Calls = {a1, a2}
    Events = {"a", "b"}
    Lists = {{}, {"a"}}
    MaxAttempts = 1
    MaxDeliveries = 1
    MaxPatches = 1
    FormFields = {"first", "second"}
    MaxEdits = 3
    ProfileFields = {"phone"}
    Values = {"v1", "v2"}
    MaxVersion = 3
    MaxSaves = 1
    MaxLoads = 1
    Filters = {"all", "some"}
    Orders = {"name", "date"}
    LastPage = 2
    MaxFetches = 4
    Queries = {"", "an", "ann"}
    Short = ""
    Hits <- MCHits
    LastStep = 2
    MaxPending = 1
    Uploads = {"f", "g"}
    MaxFiles = 2
    FilterSets = {"f"}
    MaxRequests = 3
    Views = {"all", "some"}
    Plain = "all"
    Pages <- MCPages
    MaxPage = 2
    Threads = {a1, a2}
    MaxEntries = 4
    LastTime = 2
SPECIFICATION ServicesSpec
SYMMETRY MCSymmetry
CHECK_DEADLOCK FALSE
INVARIANTS
    TypesOK
    RestoredUnlessDisturbed
    DraftHoldsWhatWasTyped
    ChecksAreSound
    ShowsWhatIsAsked
    EnterTakesAListed
    PermanentStays
    RecordsHaveContents
    ReportsReadBackwards
