---------------------------- MODULE PositionSlot ----------------------------
(***************************************************************************)
(* What a coin promises the engines that trade it: one slot, held by at    *)
(* most one of them.  AccountCoordinator keeps the slot in its map of      *)
(* reservations; TradingGroup keeps it across orders, awaits and closes.   *)
(***************************************************************************)
CONSTANTS Symbols, Owners

VARIABLE holders    \* coin -> the owners that hold its slot

Init == holders = [s \in Symbols |-> {}]

\* A holder may take its own slot again (reserve is idempotent per key).
Acquire(s, o) ==
    /\ holders[s] \subseteq {o}
    /\ holders' = [holders EXCEPT ![s] = {o}]

Free(s) == holders' = [holders EXCEPT ![s] = {}]

Next == \E s \in Symbols : Free(s) \/ \E o \in Owners : Acquire(s, o)

Spec == Init /\ [][Next]_holders

\* No coin is held by two owners.
Exclusive == \A s \in Symbols : \A o, p \in holders[s] : o = p
=============================================================================
