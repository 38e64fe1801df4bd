CONSTANTS
    Pods = {p1, p2}
    Ids = {i1, i2}
    Requests = {"r1", "r2"}
    Employees <- MCEmployees
    NoOne = "nobody"
    DefaultManager = "boss"
    Owner <- MCOwner
    Approver <- MCApprover
    Manager <- MCManager
    Envelopes = {"v"}
    Recipients = {"a", "b"}
    Order <- MCOrder
    MaxTrail = 6
    Fields = {"phone"}
    Values = {"v1", "v2"}
    Tickets = {i1, i2}
    SessionIds = {i1, i2}
    Default = 1
    Lifetimes = {2}
    Longest = 2
    Hours = {29999, 44000}
    Days = {4, 5}
    Breaks = {0, 60}
    Departments = {1, 2, 3}
    TierLists <- MCTierLists
    MaxVersions = 3
    Staff = {2, 3}
    MaxEntries = 4
    MaxRows = 2
    Requesters = {i1, i2}
    LastDay = 3
    MaxRequests = 2
    Files <- MCFiles
    MaxRuns = 3
    Senders = {"s1", "s2", "s3"}
    Grain = 3
    Capacity = 7
    MaxTime = 10
    People = {1, 2, 3}
    MaxWrites = 2
SPECIFICATION RecordsSpec
SYMMETRY MCSymmetry
CHECK_DEADLOCK FALSE
INVARIANTS
    TypesOK
    SentWithinShares
    StampsCoverAnswers
    DecidedIsAudited
    TwiceOnlyIfRaced
    TrailIsHistory
    DecisionsMatchEffects
    TrailLeadsToStatus
    RowsAreCounted
    DeletedStaysDeleted
    LiveIsTracked
    StaysLawful
    CyclesNeedARace
    VersionsAreHistory
    OneTierHolds
    BookedOnce
    RevertsWhatWasKept
    CyclesAreExplained
PROPERTIES
    LegalUnlessRaced
    ApprovedValueStands
    MovedUnderActive
