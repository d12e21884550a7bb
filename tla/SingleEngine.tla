----------------------------- MODULE SingleEngine -----------------------------
(***************************************************************************)
(* An engine by itself, as createBotInstance builds it when a strategy is  *)
(* chosen or groups are switched off: from the closed candle to the order  *)
(* in BotEngine._tick, in live mode.  What outlives a tick is the edge     *)
(* trigger (lastSignal), the setup that lost (lastLossSetup), the cooldown *)
(* and the memory of the process for duplicates (signalIdempotency).       *)
(*                                                                         *)
(* The counters of the day are in RiskDay, the account in TradingGroup,    *)
(* the orders of an entry in OrderEntry, the parts of a position in        *)
(* PositionLadder; their verdicts are free here.  Every strategy has a     *)
(* higher timeframe; the handlers of a sideways market look for signal     *)
(* types no strategy has, so a sideways market is no entry.                *)
(***************************************************************************)
EXTENDS Naturals

CONSTANTS Kinds,        \* subset of {"trend", "retest"}: retest engines ask no higher timeframe
          Confirming,   \* subset of BOOLEAN: the entry is put to Grok
          Events,       \* subset of {"htf_fails", "rejects", "order_fails", "sl_fails", "restart"}
          Closes,       \* closes of candles
          MaxCandles, MaxEntries   \* bounds on candles and entries

SingleEngineAssumption ==
    /\ Kinds \subseteq {"trend", "retest"} /\ Confirming \subseteq BOOLEAN
    /\ {MaxCandles, MaxEntries} \subseteq Nat \ {0}

VARIABLES kind, confirms,
          candle,       \* the last closed candle: its number, its close, the signal on it
          at, read,     \* where the tick is, the candle it decides on
          signal,       \* filteredSignal of the tick
          lastSignal, lastLossSetup, cooldown,
          seen,         \* signals the process remembers
          position,     \* state.openPositions, at most one
          reserved,     \* the reservation of the coin
          exchange,     \* the positions this engine opened that are still open
          entries,      \* orders filled
          lost          \* history: the setups that lost since the engine was built

vars == <<kind, confirms, candle, at, read, signal, lastSignal, lastLossSetup, cooldown,
          seen, position, reserved, exchange, entries, lost>>
market == <<kind, confirms, candle>>

Sides  == {"LONG", "SHORT"}
None   == "none"
Candle == [number : 1..MaxCandles, close : Closes, signal : Sides \cup {None}]
Trends == {"BULLISH", "BEARISH", "SIDEWAYS"}

\* An open position, and the candle and signal it was opened for.
Position == [side : Sides, of : Candle, meant : Sides \cup {None}]
Flat     == {}

Setup(c, side) == [side |-> side, entry |-> c.close]
Against(side)  == IF side = "LONG" THEN "BEARISH" ELSE "BULLISH"

\* The tick ends; the edge trigger is left at last.
Ends(last) == at' = "idle" /\ lastSignal' = last /\ signal' = None
----------------------------------------------------------------------------
\* The tick begins with the candles there are, and looks at its position.
Begin ==
    /\ at = "idle"
    /\ at' = "monitor" /\ read' = candle
    /\ UNCHANGED <<market, signal, lastSignal, lastLossSetup, cooldown, seen, position,
                   reserved, exchange, entries, lost>>

\* _monitorOpenPositions: nothing to do; or the position is closed at a profit or at a loss,
\* after which its setup is kept and the engine cools down.
Monitor ==
    /\ at = "monitor"
    /\ at' = "gates"
    /\ \/ UNCHANGED <<lastLossSetup, cooldown, position, reserved, exchange, lost>>
       \/ /\ position # Flat
          /\ position' = Flat /\ reserved' = FALSE /\ exchange' = exchange \ position
          /\ \/ UNCHANGED <<lastLossSetup, cooldown, lost>>
             \/ \E p \in position :
                   /\ lastLossSetup' = {Setup(p.of, p.side)}
                   /\ cooldown' = TRUE
                   /\ lost' = lost \cup {<<p.of.number, p.side>>}
    /\ UNCHANGED <<market, read, signal, lastSignal, seen, entries>>

\* Too few candles, a position that stays, the cooldown, another limit of _checkRiskGates or a
\* sideways market: no look at the signal.
Waits ==
    /\ at = "gates" /\ Ends(lastSignal)
    /\ UNCHANGED <<market, read, lastLossSetup, cooldown, seen, position, reserved, exchange,
                   entries, lost>>

\* What the signal of the candle is worth under a trend of the higher timeframe: none without
\* that trend or against it, except to a retest engine; none either if it is the setup that lost.
\* The regime filter of mean reversion, which may refuse as well, is no other case.
Trending(trend) ==
    \/ kind = "retest"
    \/ trend # "UNKNOWN" /\ trend # Against(read.signal)

\* Mutant: the setup that lost is as good as another.
FilteredChurns(trend) == IF read.signal # None /\ Trending(trend) THEN read.signal ELSE None

Filtered(trend) ==
    IF /\ read.signal # None /\ Trending(trend)
       /\ Setup(read, read.signal) \notin lastLossSetup
    THEN read.signal ELSE None

\* detectSignal and the filters.  No signal opens the edge trigger again, one that is not new
\* leaves it; a new one goes on, to Grok if the engine asks it.
Detect ==
    /\ at = "gates" /\ position = Flat /\ ~cooldown
    /\ \E trend \in Trends \cup (IF "htf_fails" \in Events THEN {"UNKNOWN"} ELSE {}) :
          /\ trend = "SIDEWAYS" => kind = "retest"
          /\ IF Filtered(trend) \in {None, lastSignal}
             THEN Ends(Filtered(trend))
             ELSE /\ signal' = Filtered(trend) /\ lastSignal' = lastSignal
                  /\ at' = IF confirms THEN "confirm" ELSE "dedup"
    /\ UNCHANGED <<market, read, lastLossSetup, cooldown, seen, position, reserved, exchange,
                   entries, lost>>

\* _applyGrokConfirmGate.  A refusal is a signal of null, with which the tick goes on.
Confirm ==
    /\ at = "confirm" /\ at' = "dedup"
    /\ signal' \in {signal} \cup (IF "rejects" \in Events THEN {None} ELSE {})
    /\ UNCHANGED <<market, read, lastSignal, lastLossSetup, cooldown, seen, position, reserved,
                   exchange, entries, lost>>

Key == <<read.number, signal>>

\* isDuplicate drops what the process remembers and remembers the rest.
Dedup ==
    /\ at = "dedup"
    /\ IF Key \in seen
       THEN Ends(lastSignal) /\ UNCHANGED seen
       ELSE seen' = seen \cup {Key} /\ at' = "handle" /\ UNCHANGED <<signal, lastSignal>>
    /\ UNCHANGED <<market, read, lastLossSetup, cooldown, position, reserved, exchange, entries,
                   lost>>

\* _handleSignal refuses: the dedup of orders, the cap or the budget of the account, a stop loss
\* or a target on the wrong side, fees.  The signal counts as used.
Refused ==
    /\ at = "handle" /\ Ends(signal)
    /\ UNCHANGED <<market, read, lastLossSetup, cooldown, seen, position, reserved, exchange,
                   entries, lost>>

\* The reservation is made and the order sent: what is not LONG is open_short.
Send ==
    /\ at = "handle" /\ at' = "order" /\ reserved' = TRUE
    /\ UNCHANGED <<market, read, signal, lastSignal, lastLossSetup, cooldown, seen, position,
                   exchange, entries, lost>>

Ordered == [side |-> IF signal = "LONG" THEN "LONG" ELSE "SHORT", of |-> read, meant |-> signal]

Order ==
    /\ at = "order" /\ entries < MaxEntries
    /\ at' = "row" /\ exchange' = exchange \cup {Ordered} /\ entries' = entries + 1
    /\ UNCHANGED <<market, read, signal, lastSignal, lastLossSetup, cooldown, seen, position,
                   reserved, lost>>

\* The exchange refuses, or the stop loss cannot be placed and the position is closed at once,
\* which cools the engine down too.
OrderFails ==
    /\ \/ at = "order" /\ "order_fails" \in Events /\ UNCHANGED <<exchange, cooldown>>
       \/ at = "row" /\ "sl_fails" \in Events
          /\ exchange' = exchange \ {Ordered} /\ cooldown' = TRUE
    /\ reserved' = FALSE /\ Ends(signal)
    /\ UNCHANGED <<market, read, lastLossSetup, seen, position, entries, lost>>

\* insertTrade and the push to openPositions.  A row needs a side: without one the insert throws,
\* and the catch around the order releases the reservation and drops the position.
Row ==
    /\ at = "row" /\ Ends(signal)
    /\ IF signal = None
       THEN reserved' = FALSE /\ UNCHANGED position
       ELSE position' = {Ordered} /\ UNCHANGED reserved
    /\ UNCHANGED <<market, read, lastLossSetup, cooldown, seen, exchange, entries, lost>>

\* The cooldown ends; what the process remembers is forgotten after five minutes.
CooldownEnds ==
    /\ cooldown /\ cooldown' = FALSE
    /\ UNCHANGED <<market, at, read, signal, lastSignal, lastLossSetup, seen, position, reserved,
                   exchange, entries, lost>>

Forgets ==
    /\ \E key \in seen : seen' = seen \ {key}
    /\ UNCHANGED <<market, at, read, signal, lastSignal, lastLossSetup, cooldown, position,
                   reserved, exchange, entries, lost>>

\* The engine is stopped between ticks and another one built, with the position of the row.
Restart ==
    /\ "restart" \in Events /\ at = "idle"
    /\ lastSignal' = None /\ lastLossSetup' = {} /\ cooldown' = FALSE /\ lost' = {}
    /\ reserved' = (position # Flat)
    /\ UNCHANGED <<market, at, read, signal, seen, position, exchange, entries>>

\* A position the engine does not know is closed by its stop loss or target; external.
PlanHits ==
    /\ at # "row" /\ \E p \in exchange \ position : exchange' = exchange \ {p}
    /\ UNCHANGED <<market, at, read, signal, lastSignal, lastLossSetup, cooldown, seen, position,
                   reserved, entries, lost>>

\* The next candle closes; external.
Candles ==
    /\ candle.number < MaxCandles
    /\ candle' \in {c \in Candle : c.number = candle.number + 1}
    /\ UNCHANGED <<kind, confirms, at, read, signal, lastSignal, lastLossSetup, cooldown, seen,
                   position, reserved, exchange, entries, lost>>
----------------------------------------------------------------------------
Init ==
    /\ kind \in Kinds /\ confirms \in Confirming
    /\ candle \in {c \in Candle : c.number = 1}
    /\ at = "idle" /\ read = candle /\ signal = None
    /\ lastSignal = None /\ lastLossSetup = {} /\ cooldown = FALSE /\ seen = {}
    /\ position = Flat /\ reserved = FALSE /\ exchange = {} /\ entries = 0 /\ lost = {}

Ticking ==
    \/ Begin \/ Monitor \/ Waits \/ Detect \/ Confirm \/ Dedup \/ Refused
    \/ Send \/ Order \/ OrderFails \/ Row

Next == Ticking \/ CooldownEnds \/ Forgets \/ Restart \/ PlanHits \/ Candles

Spec == Init /\ [][Next]_vars
----------------------------------------------------------------------------
(* Properties *)

TypeOK ==
    /\ kind \in Kinds /\ confirms \in Confirming /\ candle \in Candle /\ read \in Candle
    /\ at \in {"idle", "monitor", "gates", "confirm", "dedup", "handle", "order", "row"}
    /\ {signal, lastSignal} \subseteq Sides \cup {None}
    /\ lastLossSetup \subseteq [side : Sides, entry : Closes] /\ cooldown \in BOOLEAN
    /\ seen \subseteq (1..MaxCandles) \X (Sides \cup {None})
    /\ position \subseteq exchange /\ exchange \subseteq Position /\ reserved \in BOOLEAN
    /\ entries \in 0..MaxEntries /\ lost \subseteq (1..MaxCandles) \X Sides

\* An engine does not enter a setup of a candle again on which it lost, however late in that
\* candle, and whatever opened the edge trigger again (BotEngine 1362 to 1369).
LostSetupNotRepeated == [][Order => <<read.number, signal>> \notin lost]_vars

\* A position on the exchange is on the side of a signal the strategy gave and the confirmation
\* let through; a rejected entry opens nothing (BotEngine 1848 and 1899 to 1903).
OrderFollowsSignal == \A p \in exchange : p.side = p.of.signal /\ p.meant = p.side
=============================================================================
