\* Two queues, one relay, three copying mistakes, one post, nonces of one length.
CONSTANTS
    QueueIdLen = 1
    Relay <- Relays
    Symbol <- SomeSymbols
    b1 = b1
    b2 = b2
    Byte <- Bytes
    NonceLens = {1}
    DrawnId <- OneByteIds
    MaxQueues = 2
    MaxEdits = 3
    MaxPosts = 1
    MaxMessage = 1
SPECIFICATION Spec
SYMMETRY Symmetry
INVARIANTS
    TypeOK
    PublishedAddressDecodes
    DecodesWhatWasTyped
PROPERTIES
    ImplementsLetterbox
CHECK_DEADLOCK FALSE
