SPECIFICATION Spec
CONSTANTS
    bitget = bitget
    okx = okx
    r1 = r1
    r2 = r2
    Exchanges = {bitget, okx}
    None = None
    Requests = {r1, r2}
    MaxSwitches = 1
    Worlds = {{}}
INVARIANTS NothingStranded
CHECK_DEADLOCK FALSE
