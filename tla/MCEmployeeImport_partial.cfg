CONSTANTS
    Pods = {p1}
    Ids = {e1, e2}
    MaxRows = 2
SPECIFICATION ImportSpec
CHECK_DEADLOCK FALSE
INVARIANT ValidRowsImported
