\* Two prekeys, two conversations, one message.
CONSTANTS
    k1 = k1
    k2 = k2
    c1 = c1
    c2 = c2
    Key = {k1, k2}
    Context = {c1, c2}
    NoHex = NoHex
    BadHex = BadHex
    NotNegotiated = NotNegotiated
    MaxSends = 1
    MaxOpens = 1
    MaxDamaged = 1
SPECIFICATION Spec
SYMMETRY Alike
INVARIANTS
    TypeOK
    NoSilentDowngrade
    OpenExact
    AlarmExplained
    ErasedIsGone
PROPERTIES
    ImplementsLetterbox
CHECK_DEADLOCK FALSE
