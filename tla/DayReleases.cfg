SPECIFICATION Spec
CONSTANTS
    base = base
    own = own
    Engines = {base, own}
    Kinds = {{own}}
    MaxTrades = 2
    MaxConsec = 2
    LossLimit = 2
    AccountLimit = 2
    MaxRestarts = 0
PROPERTIES DayReleases
CHECK_DEADLOCK FALSE
