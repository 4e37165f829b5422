\* A dataset page across an activation.
SPECIFICATION Spec
CONSTANTS
    Revisions <- MCRevisions
    Repos = {p1, p2, p3}
    Requests = {r1}
    None = None
SYMMETRY Symmetry
INVARIANT OneRevisionPerAnswer
