------------------------------ MODULE MCAccount ------------------------------
(* What concerns one account, each part in behaviours of its own: the gate in front of its
   starts, the switch of its exchange, and the replays that a strategy goes through before
   it is traded, with one position or with one for each leg. *)
EXTENDS MCStartGate

CONSTANTS Exchanges, None, Requests, MaxSwitches, Worlds,     \* of the switch
          Modes, MaxTrades, MaxConsec, LossLimit,             \* of a replay
          BarsPerDay, Cooldown, Ttl, MaxHold,
          Legs, LegModes, LegLossLimit, LegBarsPerDay, LegMaxHold,
          HeldLegs                                            \* of one with legs

VARIABLES unit,      \* what runs; the others stay as they start
          world, row, legacy, recent, botRunning, engine, held, tracked, req,
          mode, phase, bar, hour, day, cool, position, pending, booked,
          setup, turn, time, books, streak, pause, positions

Switch == INSTANCE ExchangeSwitch WITH running <- botRunning

Backtest == INSTANCE Replay

Several == INSTANCE LegReplay
    WITH Modes <- LegModes, LossLimit <- LegLossLimit, BarsPerDay <- LegBarsPerDay,
         MaxHold <- LegMaxHold,
         mode <- setup, hour <- time, day <- books, cool <- pause

ASSUME AccountAssumption ==
    Switch!ExchangeSwitchAssumption /\ Backtest!ReplayAssumption /\ Several!LegReplayAssumption

switch == <<world, row, legacy, recent, botRunning, engine, held, tracked, req>>
replay == <<mode, phase, bar, hour, day, cool, position, pending, booked>>
legs   == <<setup, turn, time, books, streak, pause, positions>>
all    == <<unit, vars, switch, replay, legs>>

MCInit ==
    /\ unit \in {"start", "switch", "replay", "legs"}
    /\ Init /\ Switch!Init /\ Backtest!Init /\ Several!Init
    /\ unit # "switch" => /\ world = CHOOSE w \in Worlds : TRUE
                          /\ legacy = CHOOSE x \in Exchanges : TRUE
                          /\ row[legacy] = "active"
    /\ unit # "replay" => mode = CHOOSE m \in Modes : TRUE
    /\ unit # "legs" => setup = CHOOSE m \in LegModes : TRUE

\* A step of the unit that runs.
Alone(u, step) ==
    /\ unit = u /\ unit' = u /\ step
    /\ u # "start"  => UNCHANGED vars
    /\ u # "switch" => UNCHANGED switch
    /\ u # "replay" => UNCHANGED replay
    /\ u # "legs"   => UNCHANGED legs

MCNext ==
    \/ Alone("start", Next)
    \/ Alone("switch", Switch!Next)
    \/ Alone("replay", Backtest!Next)
    \/ Alone("legs", Several!Next)

\* As in the modules, for what runs.
MCFairness ==
    /\ \A s \in Symbols : WF_all(Alone("start", Handle(s)))
    /\ \A r \in Requests :
          /\ WF_all(Alone("switch", Switch!Step(r)))
          /\ SF_all(Alone("switch", Switch!Watchdog(r)))
    /\ WF_all(Alone("replay", Backtest!Next))

MCSpec == MCInit /\ [][MCNext]_all /\ MCFairness
----------------------------------------------------------------------------
\* The type invariants of the units; that of Replay has the parts of a position add up.
TypesOK == TypeOK /\ Switch!TypeOK /\ Backtest!TypeOK /\ Several!TypeOK

\* ExchangeSwitch: rows, columns, keys and engine agree when the requests are through,
Consistent == Switch!Consistent
\* and a bot whose engine was dropped gets another; StartGate: a start is answered.
StartsAreServed == StartAnswered /\ Switch!ServedAgain

\* Replay: a retest is filled within the limits of the day; LegReplay: what the legs of a
\* replay can lose on a day is bounded, whichever of them enters first.
FillWithinLimits == Backtest!FillWithinLimits /\ [][Several!LossBounded']_legs
=============================================================================
