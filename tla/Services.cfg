SPECIFICATION MCSpec
CONSTANTS
 Users = {u1}
 Orders = {o1, o2}
 Hooks = {h1, h2}
 MaxUses = 1
 MaxUsesPerUser = 2
 MaxAnnounced = 2
 MaxFaults = 1
 Worlds = {{"voucher", "FAILED", "EXPIRED", "concurrent", "snap_fails"},
           {"voucher", "PAID", "FAILED", "store_fails", "deactivate"},
           {"voucher", "FAILED", "store_fails", "snap_fails", "catch_fails"},
           {"voucher", "FAILED", "PAID", "hook_fails", "snap_fails"},
           {"PENDING", "PAID", "concurrent"},
           {"PENDING", "PAID", "REFUNDED", "hook_fails"},
           {"PAID", "lapse", "switch"},
           {"CHALLENGE", "PAID", "hook_fails"}}
 j1 = j1
 j2 = j2
 Jobs = {j1, j2}
 MaxWorkers = 1
 Happenings = {{"cancel"}, {"fails", "fetch"}, {"stream"}, {"cancel", "silence"}, {"cancel", "fails"}}
INVARIANTS TypesOK SlotsCounted GrantedOnce SlotsMove
PROPERTIES PaidIsGrantedUnlessFailing JobsEnd
CHECK_DEADLOCK FALSE
