\* One token that loses a slot.
CONSTANTS
    k1 = k1
    k2 = k2
    Entry <- Entries
    Context <- Contexts
    HYBRID_SUITE <- Suite
    Bar = 0
    NoKeyId = NoKeyId
    LongKeyId = LongKeyId
    BadHex = BadHex
    Suites <- OtherSuites
    KidLists = {}
    SlotLabels = {}
    MaxSlots = 2
    MaxTokens = 1
    MaxAltered = 1
SPECIFICATION Spec
INVARIANTS
    SlotLossDetected
CHECK_DEADLOCK FALSE
