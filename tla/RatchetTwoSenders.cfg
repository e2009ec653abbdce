\* Both parties of a conversation send.
CONSTANTS
    d = d
    a = a
    b = b
    Member = {d, a}
    Distributor = d
    KeyHolders = {d, a}
    Senders = {d, a}
    Domain = "dm"
    U64Mod = 3
    RekeyMsgBound = 2
    RekeyAge = 1
    ConsultRekey = TRUE
    WrapDamage = {"x25519", "mlkem", "sealed"}
    MaxEpoch = 1
    MaxSent = 2
    MaxTime = 1
    MaxDamaged = 0
SPECIFICATION Spec
INVARIANTS
    MessageKeyUnique
CHECK_DEADLOCK FALSE
