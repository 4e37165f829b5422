\* A tool adds a layer hidden.
SPECIFICATION Spec
CONSTANTS
    a = a
    b = b
    Catalog = {a, b}
    Query = {q}
    Calls = {c1, c2}
    RouteLists <- MCRouteLists
    None = None
    Broken = {}
    MaxOperations = 3
    MaxFaults = 1
CHECK_DEADLOCK FALSE
PROPERTY FailedAddChangesNothing
