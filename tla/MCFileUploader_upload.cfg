CONSTANTS
    Uploads = {f1, f2}
    MaxFiles = 2
SPECIFICATION UploadSpec
INVARIANTS UploadingIsUnderWay
CHECK_DEADLOCK FALSE
