CONSTANTS
    Emails = {"e1", "e2"}
    Priority <- MCPriority
    MaxRetries <- MCMaxRetries
    MaxConcurrent = 1
    BatchSize = 2
    MaxStarts = 2
    Endpoints = {"x"}
    Events = {"a", "b"}
    Lists <- MCLists
    Calls = {"c1", "c2"}
    MaxAttempts = 2
    MaxDeliveries = 1
    MaxPatches = 1
    Pods = {p1, p2}
    People = {1, 2}
    MaxWrites = 2
SPECIFICATION AnswersSpec
CHECK_DEADLOCK FALSE
INVARIANTS
    SlotsRespected
    SingleHolder
PROPERTIES
    KeepsPromise
    Settles
    CallsAnswered
    Answered
