\* Labels intact, two senders, redelivery; a member without a hybrid key.
CONSTANTS
    d = d
    a = a
    b = b
    Member = {d, a, b}
    Distributor = d
    KeyHolders = {d, a}
    Senders = {d, a}
    Domain = "group"
    U64Mod = 3
    RekeyMsgBound = 2
    RekeyAge = 1
    ConsultRekey = TRUE
    WrapDamage = {"x25519", "mlkem", "sealed"}
    MaxEpoch = 1
    MaxSent = 2
    MaxTime = 0
    MaxDamaged = 1
SPECIFICATION FairSpec
INVARIANTS
    EpochAgreement
    LossReorderTolerant
PROPERTIES
    ImplementsChannel
    RosterReads
CHECK_DEADLOCK FALSE
