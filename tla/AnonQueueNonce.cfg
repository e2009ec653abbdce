\* Nonces of two lengths.
CONSTANTS
    QueueIdLen = 1
    Relay <- Relays
    Symbol <- SomeSymbols
    b1 = b1
    b2 = b2
    Byte <- Bytes
    NonceLens = {1, 2}
    DrawnId <- OneByteIds
    MaxQueues = 1
    MaxEdits = 0
    MaxPosts = 1
    MaxMessage = 1
SPECIFICATION Spec
INVARIANTS
    WrongNonceRejected
CHECK_DEADLOCK FALSE
