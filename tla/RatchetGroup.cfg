\* A group of three whose roster changes at the rekey; one sender; any damage.
CONSTANTS
    d = d
    a = a
    b = b
    Member = {d, a, b}
    Distributor = d
    KeyHolders = {d, a, b}
    Senders = {d}
    Domain = "group"
    U64Mod = 3
    RekeyMsgBound = 2
    RekeyAge = 1
    ConsultRekey = TRUE
    WrapDamage = {"x25519", "mlkem", "sealed", "label"}
    MaxEpoch = 1
    MaxSent = 2
    MaxTime = 0
    MaxDamaged = 1
SPECIFICATION Spec
SYMMETRY OthersAlike
INVARIANTS
    TypeOK
    RosterOnly
    LeakContained
PROPERTIES
    ImplementsChannel
CHECK_DEADLOCK FALSE
