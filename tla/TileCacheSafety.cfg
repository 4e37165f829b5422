\* Two callers, three keys, two places for computations, a store of two entries.
SPECIFICATION Spec
CONSTANTS
    Callers = {c1, c2}
    Keys = {k1, k2, k3}
    Flights = {f1, f2, f3}
    NoKey = NoKey
    NoFlight = NoFlight
    Sizes = {1, 2, 4}
    MaxBytes = 3
    MaxEntries = 2
    MaxInFlight = 2
    TTL = 1
SYMMETRY Symmetry
INVARIANTS
    WaitersExact
    NobodyAwaitsACancelledTask
    SingleFlight
    StoreAccounting
PROPERTIES
    OnlyTheCancelledSeeCancellation
    ImplementsOwnedWork
