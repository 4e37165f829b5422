\* Both kinds of upstream, one items request; deadlock is the closed server.
SPECIFICATION FairSpec
CONSTANTS
    e1 = e1
    e2 = e2
    e3 = e3
    Etags <- MCEtags
    GenerationOf <- MCGenerationOf
    Snapshots = {s1, s2, s3}
    Requests = {r1}
    None = None
    UnlinkMayFail = FALSE
CHECK_DEADLOCK FALSE
INVARIANTS
    ReferencesExact
    FilesExistIffUsed
    RevisionsAgree
PROPERTIES
    ImplementsService
    FailedRefreshKeepsSnapshot
    Converges
