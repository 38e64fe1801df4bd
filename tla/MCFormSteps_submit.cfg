CONSTANTS
    LastStep = 2
    MaxPending = 2
SPECIFICATION FormSpec
INVARIANTS SubmittedIsValid
CHECK_DEADLOCK FALSE
