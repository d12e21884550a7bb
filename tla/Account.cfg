SPECIFICATION MCSpec
CONSTANTS
    btc = btc
    eth = eth
    sol = sol
    sA = sA
    sB = sB
    Symbols = {btc, eth, sol}
    Strategies = {sA, sB}
    Legacy = Legacy
    Margins = {1}
    Equities = {0, 5, 10}
    UtilNum = 4
    UtilDen = 5
    MaxConcurrent = 0
    Capital <- EqualCapital
    NoOne = NoOne
    Events = {"trade", "stop", "crash"}
    Exchanges = {"bitget", "okx"}
    None = "none"
    Requests = {"r1", "r2"}
    MaxSwitches = 1
    Worlds = {{"rejected"}, {"keys", "delete"}, {"conflict"}, {"concurrent"}}
    Modes = {{}, {"partial"}, {"retest"}, {"partial", "retest"}}
    MaxTrades = 3
    MaxConsec = 2
    LossLimit = 700
    BarsPerDay = 4
    Cooldown = 1
    Ttl = 2
    MaxHold = 2
    Legs = 2
    LegModes = {{}, {"partial", "timed"}, {"apart"}}
    LegLossLimit = 300
    LegBarsPerDay = 3
    LegMaxHold = 1
    HeldLegs = {1, 2}
INVARIANTS TypesOK LockExclusive Consistent
PROPERTIES GateKeepsBudget StartsAreServed FillWithinLimits
CHECK_DEADLOCK FALSE
