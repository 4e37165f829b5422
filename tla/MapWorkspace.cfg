\* Two archives, one query, two calls; deadlock is a page at rest.
SPECIFICATION FairSpec
CONSTANTS
    a = a
    b = b
    Catalog = {a, b}
    Query = {q}
    Calls = {c1, c2}
    RouteLists <- MCRouteLists
    None = None
    Broken = {}
    MaxOperations = 3
    MaxFaults = 1
CHECK_DEADLOCK FALSE
INVARIANTS
    TypeOK
    UniqueIds
    MapMatchesList
    PendingExact
PROPERTY Settles
