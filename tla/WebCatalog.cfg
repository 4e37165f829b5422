\* Every kind of source, one request.
SPECIFICATION FairSpec
CONSTANTS
    Revisions <- MCRevisions
    Repos = {p1, p2, p3}
    Requests = {r1}
    None = None
INVARIANTS
    LeasesKeepDatabases
    RevisionsAgree
PROPERTIES
    ImplementsService
    Converges
    WaitingEnds
