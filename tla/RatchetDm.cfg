\* Two parties, one sender, long enough for both rekey bounds to be reached.
CONSTANTS
    d = d
    a = a
    b = b
    Member = {d, a}
    Distributor = d
    KeyHolders = {d, a}
    Senders = {d}
    Domain = "dm"
    U64Mod = 2
    RekeyMsgBound = 2
    RekeyAge = 1
    ConsultRekey = TRUE
    WrapDamage = {"x25519", "mlkem", "sealed"}
    MaxEpoch = 2
    MaxSent = 3
    MaxTime = 1
    MaxDamaged = 0
SPECIFICATION Spec
INVARIANTS
    MessageKeyUnique
    EpochMsgBound
    EpochAgeBound
CHECK_DEADLOCK FALSE
