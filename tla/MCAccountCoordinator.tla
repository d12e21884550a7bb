------------------------- MODULE MCAccountCoordinator -----------------------
(* What one account shares, each part in behaviours of its own: the coordinator with three
   coins, so that the limit of two open positions bites before the rule of one per coin
   does, and a group of two strategies and a legacy slot on each; and the limits of the day
   of two engines, restarts included. *)
EXTENDS AccountCoordinator, TLC

CONSTANTS btc, eth, sol, sA, sB, e1, e2,
          MaxUnasked,      \* sides restored, or with another margin than asked for, at a time
          Engines, Kinds, MaxTrades, MaxConsec, LossLimit, AccountLimit, MaxRestarts   \* of a day

Sym == Permutations({btc, eth, sol}) \cup Permutations({sA, sB}) \cup Permutations({e1, e2})

VARIABLES unit,      \* what runs; the others stay as they start
          adaptive, counters, old, report, pc, stale, holding, rows, missed, done, restarts

Day == INSTANCE RiskDay

ASSUME DayAssumption == Day!RiskDayAssumption

coordinator == <<reservations, accountEquity, origin>>
risk   == <<adaptive, counters, old, report, pc, stale, holding, rows, missed, done, restarts>>
all    == <<unit, coordinator, risk>>

MCInit ==
    /\ unit \in {"coordinator", "day"}
    /\ Init /\ Day!Init
    /\ unit # "day" => adaptive = CHOOSE k \in Kinds : TRUE

\* A step of the unit that runs.
Alone(u, step) ==
    /\ unit = u /\ unit' = u /\ step
    /\ u # "coordinator" => UNCHANGED coordinator
    /\ u # "day" => UNCHANGED risk

Few == Cardinality({k \in BotKeys : origin[k] \in {"settled", "restored"}}) <= MaxUnasked

MCNext ==
    \/ Alone("coordinator", Next /\ Few')
    \/ Alone("day", Day!Next)

MCSpec == MCInit /\ [][MCNext]_all
----------------------------------------------------------------------------
\* RiskDay: in all counters of a day a losing streak is part of its loss, and no limit of
\* the day is passed, that of the loss not even through a restart that finds its rows.
LimitsHold == []Day!TypeOK /\ Day!LimitsHold
=============================================================================
