\* Two results, two requests at a time; the page may be at rest.
SPECIFICATION Spec
CONSTANTS
    a = a
    q1 = q1
    q2 = q2
    f1 = f1
    f2 = f2
    g = g
    Queries = {q1, q2}
    Total <- MCTotal
    Ordered = {q1}
    PageSizes = {1, 2}
    Catalog = {a}
    Features = {f1, f2, g}
    LayerOf <- MCLayerOf
    MaxSelected = 1
    Calls = {c1, c2}
    None = None
    MaxOperations = 4
CHECK_DEADLOCK FALSE
INVARIANTS
    RowsInPlace
    LoadingExact
    PanelHasContent
