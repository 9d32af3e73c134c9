\* An edit and a start between the build and the upload of a release.
CONSTANTS
    Starts = {"s1"}
    Release = "r"
    NoRun = "none"
    Contents = {1, 2}
    MaxEdits = 2
    MaxFaults = 1
    Attempts = 2
SPECIFICATION VersionsSpec
INVARIANTS
    UploadMatchesBundle
CHECK_DEADLOCK FALSE
