\* Two threads, five prefixes of which three gain and lose a library, five
\* environments to start with; nothing else is bounded.
CONSTANTS
    t1 = t1
    t2 = t2
    home = home
    local = local
    usr = usr
    opt = opt
    locked = locked
    none = none
    own = own
    Thread = {t1, t2}
    Home = home
    UsrLocal = local
    Usr = usr
    Other = {opt, locked}
    Unreadable = {locked}
    None = none
    Own = own
    Writable = {opt, home, usr}
    Configured <- SomeEnvironments
SPECIFICATION Spec
INVARIANTS
    TypeOK
    SettingsStand
    PathStaysShort
    LoadedIsNamed
PROPERTIES
    LeftToItselfExplained
    BestIsExported
CHECK_DEADLOCK FALSE
