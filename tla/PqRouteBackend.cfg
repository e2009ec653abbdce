\* A backend that is missing at one call.
CONSTANTS
    k1 = k1
    k2 = k2
    h1 = h1
    h2 = h2
    Key = {k1, k2}
    BadKey = BadKey
    Header = {h1, h2}
    NotJson = NotJson
    MaxSeals = 1
    MaxCopies = 0
    MaxOpens = 1
SPECIFICATION Spec
SYMMETRY Alike
INVARIANTS
    BackendLossPropagates
CHECK_DEADLOCK FALSE
