\* Two keys, two headers, two envelopes, two altered copies.
CONSTANTS
    k1 = k1
    k2 = k2
    h1 = h1
    h2 = h2
    Key = {k1, k2}
    BadKey = BadKey
    Header = {h1, h2}
    NotJson = NotJson
    MaxSeals = 2
    MaxCopies = 2
    MaxOpens = 1
SPECIFICATION Spec
SYMMETRY Alike
INVARIANTS
    TypeOK
    OpensAsSealed
PROPERTIES
    ImplementsLetterbox
CHECK_DEADLOCK FALSE
