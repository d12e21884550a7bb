----------------------------- MODULE SignalDesk -----------------------------
(***************************************************************************)
(* From candle to entry in the engines of one strategy, of several users   *)
(* and coins: AdaptiveStrategyEngine._tick behind the candles.  Three      *)
(* things outlive a tick: the map of recent signals, one for the process   *)
(* (signalIdempotency); the meta of the last detection, one for the        *)
(* strategy, whose object StrategyRegistry hands to every engine; and the  *)
(* lastPrice of an engine.                                                 *)
(*                                                                         *)
(* Ticks of one engine are chained and never overlap.  A price is known by *)
(* its age, a candle by its number.  What the gates of the account decide  *)
(* is free here (TradingGroup has them).                                   *)
(***************************************************************************)
EXTENDS Naturals

CONSTANTS Users, Coins,
          Ttl,          \* how long a signal is remembered, five minutes in the code
          Bar,          \* the length of a candle, in the same unit
          MaxTime       \* bound on the time

SignalDeskAssumption ==
    /\ Users # {} /\ Coins # {}
    /\ {Ttl, Bar, MaxTime} \subseteq Nat \ {0}

Engines == Users \X Coins
Coin(e) == e[2]
Sides   == {"LONG", "SHORT"}
Signals == [coin : Coins, candle : 0..MaxTime, side : Sides]
Prices  == {"none", "live", "old"}
Times   == 0..MaxTime

VARIABLES now,
          signals,     \* _seen: until when a signal is remembered, and whose engine saw it
          meta,        \* _lastSignalMeta of the strategy: whose detection it is of
          lastPrice,   \* state.lastPrice of an engine: none yet, a live one of this tick, or an older one
          held,        \* the engines with a position
          at,          \* where the tick of an engine is
          tick,        \* what the tick carries
          entered      \* history: the signals entered, and when they were detected

vars == <<now, signals, meta, lastPrice, held, at, tick, entered>>

\* What a tick carries.  live: the price it enters at was read in this tick, own: the meta it
\* plans SL and TP with is that of its own detection.
Tick  == [candle : Times, side : Sides, detected : Times,
          live : BOOLEAN, own : BOOLEAN]
Blank == [candle |-> 0, side |-> "LONG", detected |-> 0, live |-> TRUE, own |-> TRUE]

Key(e, side) == [coin |-> Coin(e), candle |-> tick[e].candle, side |-> side]
Forgotten    == [until |-> 0, by |-> CHOOSE e \in Engines : TRUE]
Ends(e)      == at' = [at EXCEPT ![e] = "idle"] /\ tick' = [tick EXCEPT ![e] = Blank]
----------------------------------------------------------------------------
\* The tick with its candles; a position is looked at first.
Begin(e) ==
    /\ at[e] = "idle"
    /\ at' = [at EXCEPT ![e] = IF e \in held THEN "monitor" ELSE "detect"]
    /\ tick' = [tick EXCEPT ![e].candle = now \div Bar]
    /\ lastPrice' = [lastPrice EXCEPT ![e] = IF @ = "live" THEN "old" ELSE @]
    /\ UNCHANGED <<now, signals, meta, held, entered>>

\* _resolveSlTpMonitor: the ticker, or the close of the candle.  The position may be found
\* closed; an engine that keeps it looks for no signal.
Monitor(e) ==
    /\ at[e] = "monitor"
    /\ \E price \in {"live", "old"} : lastPrice' = [lastPrice EXCEPT ![e] = price]
    /\ \/ at' = [at EXCEPT ![e] = "detect"] /\ held' = held \ {e}
          /\ UNCHANGED tick
       \/ Ends(e) /\ held' = held
    /\ UNCHANGED <<now, signals, meta, entered>>

\* The tick has too few candles or no trend of the higher timeframe; or detectSignal finds
\* nothing, or a filter or a gate of the day refuses what it finds.
NoSignal(e) ==
    /\ at[e] = "detect" /\ Ends(e)
    /\ meta' \in {meta, e}
    /\ UNCHANGED <<now, signals, lastPrice, held, entered>>

Remembered(key) == signals[key].until > now

\* isDuplicate drops a signal the process still remembers.
Duplicate(e, side) ==
    /\ at[e] = "detect" /\ Remembered(Key(e, side)) /\ Ends(e)
    /\ meta' = e
    /\ UNCHANGED <<now, signals, lastPrice, held, entered>>

\* Mutant: a signal that passes is not remembered.
DetectForgets(e, side) ==
    /\ at[e] = "detect" /\ ~Remembered(Key(e, side))
    /\ at' = [at EXCEPT ![e] = "gate"]
    /\ tick' = [tick EXCEPT ![e].side = side, ![e].detected = now]
    /\ meta' = e
    /\ UNCHANGED <<now, signals, lastPrice, held, entered>>

\* isDuplicate remembers a new one, before the checks that follow: a position conflict or
\* validateEntry may still end the tick.
Detect(e, side) ==
    /\ at[e] = "detect" /\ ~Remembered(Key(e, side))
    /\ signals' = [signals EXCEPT ![Key(e, side)] = [until |-> now + Ttl, by |-> e]]
    /\ meta' = e
    /\ \/ /\ at' = [at EXCEPT ![e] = "gate"]
          /\ tick' = [tick EXCEPT ![e].side = side, ![e].detected = now]
       \/ Ends(e)
    /\ UNCHANGED <<now, lastPrice, held, entered>>

\* SL and TP come from the meta the strategy has now, once the price is not too far from
\* the candle.
Plans(e, price) ==
    /\ at' = [at EXCEPT ![e] = "order"]
    /\ tick' = [tick EXCEPT ![e].live = price = "live", ![e].own = meta = e]

\* canEnter lets it through; the entry takes lastPrice, or asks for the ticker.
Gate(e) ==
    /\ at[e] = "gate"
    /\ IF lastPrice[e] = "none"
       THEN at' = [at EXCEPT ![e] = "ticker"] /\ UNCHANGED tick
       ELSE Plans(e, lastPrice[e])
    /\ UNCHANGED <<now, signals, meta, lastPrice, held, entered>>

\* The answer of the ticker is not kept in lastPrice.
Ticker(e) ==
    /\ at[e] = "ticker" /\ Plans(e, "live")
    /\ UNCHANGED <<now, signals, meta, lastPrice, held, entered>>

\* canEnter refuses, there is no ticker, the price is too far, or _handleSignal refuses.
Refused(e) ==
    /\ at[e] \in {"gate", "ticker", "order"} /\ Ends(e)
    /\ UNCHANGED <<now, signals, meta, lastPrice, held, entered>>

Entry(e) == [key |-> Key(e, tick[e].side), detected |-> tick[e].detected]

\* _handleSignal enters.
Enter(e) ==
    /\ at[e] = "order" /\ Ends(e)
    /\ held' = held \cup {e}
    /\ entered' = entered \cup {Entry(e)}
    /\ UNCHANGED <<now, signals, meta, lastPrice>>

\* Time passes; isDuplicate removes what is forgotten whenever it is called.
Passes ==
    /\ now < MaxTime /\ now' = now + 1
    /\ signals' = [s \in Signals |-> IF signals[s].until > now' THEN signals[s] ELSE Forgotten]
    /\ UNCHANGED <<meta, lastPrice, held, at, tick, entered>>
----------------------------------------------------------------------------
Ticking(e) ==
    \/ Begin(e) \/ Monitor(e) \/ NoSignal(e) \/ Gate(e) \/ Ticker(e) \/ Refused(e) \/ Enter(e)
    \/ \E side \in Sides : Duplicate(e, side) \/ Detect(e, side)

Init ==
    /\ now = 0
    /\ signals = [s \in Signals |-> Forgotten]
    /\ meta = Forgotten.by
    /\ lastPrice = [e \in Engines |-> "none"] /\ held = {}
    /\ at = [e \in Engines |-> "idle"] /\ tick = [e \in Engines |-> Blank]
    /\ entered = {}

Next == (\E e \in Engines : Ticking(e)) \/ Passes

Spec == Init /\ [][Next]_vars
----------------------------------------------------------------------------
(* Properties *)

TypeOK ==
    /\ now \in Times /\ meta \in Engines
    /\ DOMAIN signals = Signals /\ \A s \in Signals : signals[s].until \in 0..(MaxTime + Ttl)
    /\ lastPrice \in [Engines -> Prices] /\ held \subseteq Engines
    /\ at \in [Engines -> {"idle", "monitor", "detect", "gate", "ticker", "order"}]
    /\ tick \in [Engines -> Tick]
    /\ entered \subseteq [key : Signals, detected : Times]

\* A signal of a coin's candle is not entered twice within its window, whatever its tick
\* awaited before the order, and whichever engine saw it again (signalIdempotency 6 to 8).
OncePerWindow ==
    [][\A e \in Engines : Enter(e) =>
          \A x \in entered : x.key = Entry(e).key =>
             \/ x.detected + Ttl <= tick[e].detected
             \/ tick[e].detected + Ttl <= x.detected]_vars

\* An engine orders at a price read in the tick that orders (AdaptiveStrategyEngine 365 to 368).
EntryAtLivePrice == \A e \in Engines : at[e] = "order" => tick[e].live

\* A signal of a candle is entered once.
SameCandleOnce == [][\A e \in Engines : Enter(e) => \A x \in entered : x.key # Entry(e).key]_vars

\* SL and TP are planned with the meta of the detection that orders.
OwnPlan == \A e \in Engines : at[e] = "order" => tick[e].own

\* A signal is dropped as a duplicate only by an engine that had it before.
DroppedIsOwn ==
    [][\A e \in Engines : \A side \in Sides :
          Duplicate(e, side) => signals[Key(e, side)].by = e]_vars
=============================================================================
