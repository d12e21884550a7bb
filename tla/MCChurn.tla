------------------------------- MODULE MCChurn ------------------------------
(* What survives the engines or the ticks that made it, each in behaviours of its own: the
   trades of one engine over its generations, the signals of one strategy between two users,
   and the setups of one engine by itself. *)
EXTENDS MCTradingGroup

VARIABLES unit,      \* what runs; the others stay as they start
          now, signals, meta, lastPrice, held, at, tick, entered,
          kind, confirms, candle, stage, read, filtered, lastSignal, lastLossSetup, cooldown,
          seen, position, reserved, exchange, entries, lost

CONSTANTS Users, Coins, Ttl, Bar, MaxTime,                                 \* of SignalDesk
          Kinds, Confirming, Failures, Closes, MaxCandles, MaxEntries      \* of SingleEngine

Desk   == INSTANCE SignalDesk
Single == INSTANCE SingleEngine WITH at <- stage, signal <- filtered, Events <- Failures

ASSUME ChurnAssumption ==
    /\ Desk!SignalDeskAssumption /\ Single!SingleEngineAssumption
    /\ Kinds # {} /\ FALSE \in Confirming /\ Closes # {}

desk == <<now, signals, meta, lastPrice, held, at, tick, entered>>
single == <<kind, confirms, candle, stage, read, filtered, lastSignal, lastLossSetup, cooldown,
            seen, position, reserved, exchange, entries, lost>>
all    == <<unit, vars, desk, single>>

MCInit ==
    /\ unit \in {"churn", "desk", "single"}
    /\ Init /\ Desk!Init
    /\ Single!Init
    /\ unit # "single" => /\ kind = (CHOOSE k \in Kinds : TRUE) /\ ~confirms
                          /\ candle = [number |-> 1, close |-> CHOOSE c \in Closes : TRUE,
                                       signal |-> Single!None]

\* A step of the unit that runs.
Alone(u, taken) ==
    /\ unit = u /\ unit' = u /\ taken
    /\ u # "churn" => UNCHANGED vars
    /\ u # "desk" => UNCHANGED desk
    /\ u # "single" => UNCHANGED single

MCNext == Alone("churn", Next) \/ Alone("desk", Desk!Next) \/ Alone("single", Single!Next)

MCSpec == MCInit /\ [][MCNext]_all
----------------------------------------------------------------------------
\* The type invariants of the units.
TypesOK == TypeOK /\ Desk!TypeOK /\ Single!TypeOK

\* SignalDesk and SingleEngine: a signal is not entered twice within its window, and a setup
\* that lost is not entered again on its candle.
NotRepeated == Desk!OncePerWindow /\ Single!LostSetupNotRepeated
=============================================================================
