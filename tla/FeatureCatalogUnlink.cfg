\* Removing a file may fail; deadlock is the closed or failed server.
SPECIFICATION Spec
CONSTANTS
    e1 = e1
    e2 = e2
    e3 = e3
    Etags <- MCEtags
    GenerationOf <- MCGenerationOf
    Snapshots = {s1, s2, s3}
    Requests = {r1}
    None = None
    UnlinkMayFail = TRUE
CHECK_DEADLOCK FALSE
SYMMETRY Symmetry
PROPERTY FailedRefreshKeepsSnapshot
