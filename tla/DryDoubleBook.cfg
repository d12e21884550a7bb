SPECIFICATION Spec
CONSTANTS
    btc = btc
    eth = eth
    sA = sA
    sB = sB
    Symbols = {btc}
    Strategies = {sA}
    Legacy = Legacy
    Margins = {2}
    Equities = {0, 10}
    UtilNum = 4
    UtilDen = 5
    MaxConcurrent = 0
    GroupCapital = 2
    AccountCap = 0
    DryRuns = {TRUE}
    Events = {"stop"}
    MaxTrades = 1
    MaxGenerations = 1
INVARIANTS BookedOnce
CHECK_DEADLOCK FALSE
