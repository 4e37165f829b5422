\* One place for computations, two keys that want it; no symmetry.
SPECIFICATION FairSpec
CONSTANTS
    Callers = {c1, c2}
    Keys = {k1, k2}
    Flights = {f1, f2}
    NoKey = NoKey
    NoFlight = NoFlight
    Sizes = {1, 2}
    MaxBytes = 1
    MaxEntries = 1
    MaxInFlight = 1
    TTL = 1
INVARIANT ComputationsBounded
PROPERTIES
    RetiredWaitEnds
    CallsEnd
