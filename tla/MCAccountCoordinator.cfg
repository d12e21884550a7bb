SPECIFICATION MCSpec
CONSTANTS
    btc = btc
    eth = eth
    sol = sol
    sA = sA
    sB = sB
    e1 = e1
    e2 = e2
    Symbols = {btc, eth, sol}
    Strategies = {sA, sB}
    Legacy = Legacy
    Margins = {2, 4}
    Capitals = {4}
    MaxUnasked = 1
    Equities = {0, 10}
    UtilNum = 4
    UtilDen = 5
    MaxConcurrent = 2
    Engines = {e1, e2}
    Kinds = {{}, {e1, e2}}
    MaxTrades = 2
    MaxConsec = 2
    LossLimit = 2
    AccountLimit = 2
    MaxRestarts = 1
SYMMETRY Sym
INVARIANTS TypeOK OneOpenPerSymbol OpenPositionsBounded
PROPERTIES OpenFitsBudget SlotSpec LimitsHold
