SPECIFICATION Spec
CONSTANTS
    Kinds = {"trend"}
    Confirming = {TRUE}
    Events = {"rejects"}
    Closes = {1}
    MaxCandles = 2
    MaxEntries = 2
INVARIANTS OrderFollowsSignal
CHECK_DEADLOCK FALSE
