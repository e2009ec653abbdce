\* Two tokens of up to two slots, and one token mixed from their parts.
CONSTANTS
    k1 = k1
    k2 = k2
    Entry <- Entries
    Context <- Contexts
    HYBRID_SUITE <- Suite
    Bar = 0
    NoKeyId = NoKeyId
    LongKeyId = LongKeyId
    BadHex = BadHex
    Suites <- OtherSuites
    KidLists <- Lists
    SlotLabels <- Labels
    MaxSlots = 2
    MaxTokens = 2
    MaxAltered = 1
SPECIFICATION Spec
INVARIANTS
    TypeOK
    OpensOnlyWhatWasSealed
    EveryDeviceOpens
    HeaderBound
    IndependentSlots
CHECK_DEADLOCK FALSE
