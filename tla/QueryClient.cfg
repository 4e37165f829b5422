\* Two calls, one of which finds the queue full; the system may be idle.
SPECIFICATION FairSpec
CONSTANTS
    Calls = {c1, c2}
    Attempts = {a1, a2}
    Replicas <- MCReplicas
    None = None
    MaxPending = 1
    Deadline = 2
    KillBudget = 1
INVARIANTS
    PendingExact
    QueriesAreOwned
    OutcomeIsJust
    EndsInTime
PROPERTIES
    CallsEnd
    ImplementsOwnedWork
