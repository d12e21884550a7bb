---------------------------- MODULE Churn_proofs ----------------------------
(***************************************************************************)
(* What survives the engines or the ticks that made it.                    *)
(*                                                                         *)
(* SingleEngine, for any candles: a setup that lost is not entered again   *)
(* on its candle.                                                          *)
(*                                                                         *)
(* SignalDesk, for any users, coins and windows: a signal is not entered   *)
(* twice within its window.                                                *)
(*                                                                         *)
(* Both, and what TradingGroup_proofs shows of the trades of an engine     *)
(* over its generations, carry over to MCChurn, where one of them runs.    *)
(***************************************************************************)
EXTENDS MCChurn, TradingGroup_proofs

(* SingleEngine *)

SignalStages == {"idle", "monitor", "gates", "confirm", "dedup", "handle", "order", "row"}
Decided == {"confirm", "dedup", "handle", "order", "row"}

\* The candle a tick decides on, and the candle, number and side of the position, are those
\* of one candle or of earlier ones; a candle has one signal.
ReadInv == read.number <= candle.number /\ (read.number = candle.number => read = candle)

\* The position is the only one, and is of the last candle of all setups that lost, or later.
PositionInv ==
    \A p \in position :
        /\ p.of.number <= read.number /\ (p.of.number = read.number => p.of = read)
        /\ p.side = p.of.signal
        /\ \A l \in lost : l[1] <= p.of.number
        /\ position = {p}

\* What lost on the candle of the tick is what lastLossSetup keeps.
LostInv ==
    \A l \in lost :
        /\ l[1] <= read.number
        /\ l[1] = read.number => l[2] = read.signal /\ Single!Setup(read, l[2]) \in lastLossSetup

\* A tick past Detect has no position, and its signal is not the setup that lost; its order is
\* on the exchange when the row is inserted.
DecidedInv ==
    stage \in Decided =>
        /\ position = Single!Flat
        /\ \/ filtered = Single!None
           \/ filtered = read.signal /\ Single!Setup(read, filtered) \notin lastLossSetup
        /\ stage = "row" => Single!Ordered \in exchange

SetupInv == Single!TypeOK /\ ReadInv /\ PositionInv /\ LostInv /\ DecidedInv

LEMMA TickIs ==
    ASSUME Single!SingleEngineAssumption, Single!TypeOK
    PROVE  /\ MaxCandles \in Nat /\ MaxCandles > 0 /\ MaxEntries \in Nat /\ entries \in Nat
           /\ entries <= MaxEntries
           /\ candle \in Single!Candle /\ candle.number \in Nat /\ candle.number <= MaxCandles
           /\ read \in Single!Candle /\ read.number \in 1 .. MaxCandles /\ read.number \in Nat
           /\ read.close \in Closes /\ read.signal \in Single!Sides \cup {Single!None}
           /\ \A p \in position :
                /\ p \in Single!Position /\ p.side \in Single!Sides
                /\ p.of \in Single!Candle /\ p.of.close \in Closes
                /\ p.of.number \in 1 .. MaxCandles /\ p.of.number \in Nat
           /\ \A l \in lost : l[1] \in Nat /\ l[2] \in Single!Sides /\ l = <<l[1], l[2]>>
           /\ Single!None \notin Single!Sides /\ stage \in SignalStages
           /\ filtered \in Single!Sides \cup {Single!None}
           /\ lastSignal \in Single!Sides \cup {Single!None}
<1>1. MaxCandles \in Nat /\ MaxCandles > 0 /\ MaxEntries \in Nat
  BY DEF Single!SingleEngineAssumption
<1>2. candle \in Single!Candle /\ read \in Single!Candle
  BY DEF Single!TypeOK
<1>3. \A c \in Single!Candle :
        /\ c.number \in 1 .. MaxCandles /\ c.close \in Closes
        /\ c.signal \in Single!Sides \cup {Single!None}
  BY DEF Single!Candle
<1>4. \A p \in position : p \in Single!Position /\ p.of \in Single!Candle /\ p.side \in Single!Sides
  BY DEF Single!TypeOK, Single!Position
<1>5. \A l \in lost : l[1] \in 1 .. MaxCandles /\ l[2] \in Single!Sides /\ l = <<l[1], l[2]>>
  BY DEF Single!TypeOK
<1>6. Single!None \notin Single!Sides
  BY DEF Single!None, Single!Sides
<1>7. /\ entries \in 0 .. MaxEntries /\ stage \in SignalStages
      /\ filtered \in Single!Sides \cup {Single!None}
      /\ lastSignal \in Single!Sides \cup {Single!None}
  BY DEF Single!TypeOK, SignalStages
<1>8. /\ candle.number \in 1 .. MaxCandles /\ read.number \in 1 .. MaxCandles
      /\ read.close \in Closes /\ read.signal \in Single!Sides \cup {Single!None}
  BY <1>2, <1>3
<1>9. \A p \in position : p.of.number \in 1 .. MaxCandles /\ p.of.close \in Closes
  BY <1>3, <1>4
<1> QED
  BY <1>1, <1>2, <1>4, <1>5, <1>6, <1>7, <1>8, <1>9

\* A step of the tick that leaves the position, the setup and the candles alone.
LEMMA TickKeeps ==
    ASSUME Single!SingleEngineAssumption, SetupInv,
           UNCHANGED <<Single!market, read, lastLossSetup, position, lost>>,
           stage' \in SignalStages,
           stage' \in Decided => stage \in Decided /\ filtered' \in {Single!None, filtered},
           stage' = "row" => Single!Ordered' \in exchange',
           filtered' \in Single!Sides \cup {Single!None},
           lastSignal' \in Single!Sides \cup {Single!None},
           cooldown' \in BOOLEAN, reserved' \in BOOLEAN, entries' \in 0 .. MaxEntries,
           seen' \subseteq (1..MaxCandles) \X (Single!Sides \cup {Single!None}),
           exchange' \subseteq Single!Position, position \subseteq exchange'
    PROVE  SetupInv'
<1>1. UNCHANGED <<kind, confirms, candle, read, lastLossSetup, position, lost>>
  BY DEF Single!market
<1>2. Single!TypeOK'
  BY <1>1 DEF SetupInv, Single!TypeOK, SignalStages
<1>3. ReadInv' /\ PositionInv' /\ LostInv'
  BY <1>1 DEF SetupInv, ReadInv, PositionInv, LostInv, Single!Setup
<1>4. DecidedInv'
  BY <1>1 DEF SetupInv, DecidedInv, Single!Setup
<1> QED
  BY <1>2, <1>3, <1>4 DEF SetupInv

LEMMA OrderedIs ==
    ASSUME Single!SingleEngineAssumption, SetupInv
    PROVE  /\ Single!Ordered \in Single!Position /\ Single!Ordered.of = read
           /\ filtered # Single!None => Single!Ordered.side = filtered
BY TickIs DEF SetupInv, Single!Ordered, Single!Position, Single!Sides

LEMMA InitSetup == Single!SingleEngineAssumption /\ Single!Init => SetupInv
<1> SUFFICES ASSUME Single!SingleEngineAssumption, Single!Init PROVE SetupInv
  OBVIOUS
<1>1. /\ kind \in Kinds /\ confirms \in Confirming /\ candle \in Single!Candle
      /\ read = candle /\ candle.number = 1
  BY DEF Single!Init
<1>2. /\ stage = "idle" /\ filtered = Single!None /\ lastSignal = Single!None /\ lastLossSetup = {}
      /\ seen = {}
      /\ position = {} /\ exchange = {} /\ entries = 0 /\ lost = {}
  BY DEF Single!Init, Single!Flat
<1>3. cooldown \in BOOLEAN /\ reserved \in BOOLEAN
  BY Zenon DEF Single!Init
<1>4. entries \in 0 .. MaxEntries
  BY <1>2 DEF Single!SingleEngineAssumption
<1>5. Single!TypeOK
  BY <1>1, <1>2, <1>3, <1>4 DEF Single!TypeOK
<1> QED
  BY <1>1, <1>2, <1>5 DEF SetupInv, ReadInv, PositionInv, LostInv, DecidedInv, Decided

LEMMA BeginSetup ==
    ASSUME Single!SingleEngineAssumption, SetupInv, Single!Begin
    PROVE  SetupInv'
<1>1. /\ stage' = "monitor" /\ read' = candle
      /\ UNCHANGED <<kind, confirms, candle, filtered, lastSignal, lastLossSetup, cooldown, seen,
            position,
                     reserved, exchange, entries, lost>>
  BY DEF Single!Begin, Single!market
<1>2. Single!TypeOK'
  BY <1>1, TickIs DEF SetupInv, Single!TypeOK
<1>3. read'.number = candle.number /\ (read'.number = read.number => read' = read) /\ read.number <=
      read'.number
      /\ read.number \in Nat /\ read'.number \in Nat
  BY <1>1, TickIs DEF SetupInv, ReadInv
<1>4. PositionInv'
  BY <1>1, <1>3, TickIs DEF SetupInv, PositionInv
<1>5. LostInv'
  <2> SUFFICES ASSUME NEW l \in lost
               PROVE  /\ l[1] <= read'.number
                      /\ l[1] = read'.number => l[2] = read'.signal /\ Single!Setup(read', l[2]) \in
                            lastLossSetup
    BY <1>1 DEF LostInv, Single!Setup
  <2>1. l[1] \in Nat /\ l[1] <= read.number
        /\ (l[1] = read.number => l[2] = read.signal /\ Single!Setup(read, l[2]) \in lastLossSetup)
    BY TickIs DEF SetupInv, LostInv
  <2>2. l[1] <= read'.number /\ (l[1] = read'.number => read.number = read'.number)
    BY <1>3, <2>1
  <2> QED
    BY <1>3, <2>1, <2>2
<1> QED
  BY <1>1, <1>2, <1>3, <1>4, <1>5, TickIs DEF SetupInv, ReadInv, DecidedInv, Decided

LEMMA MonitorSetup ==
    ASSUME Single!SingleEngineAssumption, SetupInv, Single!Monitor
    PROVE  SetupInv'
<1>1. /\ stage' = "gates"
      /\ UNCHANGED <<kind, confirms, candle, read, filtered, lastSignal, seen, entries>>
  BY DEF Single!Monitor, Single!market
<1>2. CASE UNCHANGED <<lastLossSetup, cooldown, position, reserved, exchange, lost>>
  <2>1. cooldown' \in BOOLEAN /\ reserved' \in BOOLEAN
    BY <1>2 DEF SetupInv, Single!TypeOK
  <2> QED
    BY <1>1, <1>2, <2>1, TickKeeps DEF SetupInv, Single!TypeOK, SignalStages, Decided, Single!market
<1>3. CASE position' = Single!Flat /\ reserved' = FALSE /\ exchange' = exchange \ position
           /\ UNCHANGED <<lastLossSetup, cooldown, lost>>
  <2>1. reserved' \in BOOLEAN /\ cooldown' \in BOOLEAN
    BY <1>3, Zenon DEF SetupInv, Single!TypeOK
  <2>2. Single!TypeOK'
    BY <1>1, <1>3, <2>1 DEF SetupInv, Single!TypeOK, Single!Flat
  <2> QED
    BY <1>1, <1>3, <2>2 DEF SetupInv, ReadInv, PositionInv, LostInv, DecidedInv, Decided,
                            Single!Flat, Single!Setup
<1>4. ASSUME NEW p \in position,
             position' = Single!Flat /\ reserved' = FALSE /\ exchange' = exchange \ position,
             lastLossSetup' = {Single!Setup(p.of, p.side)}, cooldown' = TRUE,
             lost' = lost \cup {<<p.of.number, p.side>>}
      PROVE  SetupInv'
  <2>1. reserved' \in BOOLEAN /\ cooldown' \in BOOLEAN
    BY <1>4, Zenon
  <2>2. /\ p.of.number \in 1 .. MaxCandles /\ p.of.number \in Nat /\ p.side \in Single!Sides
        /\ p.of.close \in Closes
        /\ p.of.number <= read.number /\ (p.of.number = read.number => p.of = read)
        /\ p.side = p.of.signal
        /\ \A l \in lost : l[1] <= p.of.number
    BY TickIs DEF SetupInv, PositionInv
  <2>3. lastLossSetup' \subseteq [side : Single!Sides, entry : Closes] /\ lost' \subseteq
        (1..MaxCandles) \X Single!Sides
    BY <1>4, <2>2 DEF Single!Setup, SetupInv, Single!TypeOK
  <2>4. Single!TypeOK'
    BY <1>1, <1>4, <2>1, <2>3 DEF SetupInv, Single!TypeOK, Single!Flat
  <2>5. LostInv'
    <3> SUFFICES ASSUME NEW l \in lost'
                 PROVE  /\ l[1] <= read.number
                        /\ l[1] = read.number => l[2] = read.signal /\ Single!Setup(read, l[2]) \in
                              lastLossSetup'
      BY <1>1 DEF LostInv, Single!Setup
    <3>1. CASE l = <<p.of.number, p.side>>
      BY <1>4, <2>2, <3>1
    <3>2. CASE l \in lost
      <4>1. l[1] \in Nat /\ l[1] <= p.of.number /\ l[1] <= read.number /\ read.number \in Nat
            /\ (l[1] = read.number => l[2] = read.signal)
        BY <2>2, <3>2, TickIs DEF SetupInv, LostInv
      <4>2. l[1] = read.number => p.of = read
        BY <2>2, <4>1
      <4> QED
        BY <1>4, <2>2, <4>1, <4>2
    <3> QED
      BY <1>4, <3>1, <3>2
  <2> QED
    BY <1>1, <1>4, <2>4, <2>5 DEF SetupInv, ReadInv, PositionInv, DecidedInv, Decided, Single!Flat
<1> QED
  BY <1>2, <1>3, <1>4 DEF Single!Monitor

LEMMA DetectSetup ==
    ASSUME Single!SingleEngineAssumption, SetupInv, Single!Detect
    PROVE  SetupInv'
<1>1. /\ position = Single!Flat
      /\ UNCHANGED <<kind, confirms, candle, read, lastLossSetup, cooldown, seen, position,
            reserved,
                     exchange, entries, lost>>
  BY DEF Single!Detect, Single!market
<1>2. PICK trend : IF Single!Filtered(trend) \in {Single!None, lastSignal}
                   THEN Single!Ends(Single!Filtered(trend))
                   ELSE /\ filtered' = Single!Filtered(trend) /\ lastSignal' = lastSignal
                        /\ stage' = IF confirms THEN "confirm" ELSE "dedup"
  BY DEF Single!Detect
<1>3. \/ Single!Filtered(trend) = Single!None
      \/ /\ Single!Filtered(trend) = read.signal
         /\ read.signal \in Single!Sides /\ Single!Setup(read, read.signal) \notin lastLossSetup
  BY TickIs DEF Single!Filtered, SetupInv
<1>4. CASE Single!Filtered(trend) \in {Single!None, lastSignal}
  <2>1. /\ stage' = "idle" /\ filtered' = Single!None
        /\ lastSignal' \in Single!Sides \cup {Single!None}
    BY <1>2, <1>3, <1>4 DEF Single!Ends
  <2> QED
    BY <1>1, <2>1, TickKeeps DEF SetupInv, Single!TypeOK, SignalStages, Decided, Single!market
<1>5. CASE Single!Filtered(trend) \notin {Single!None, lastSignal}
  <2>1. stage' \in {"confirm", "dedup"} /\ filtered' = read.signal /\ lastSignal' = lastSignal
        /\ filtered' \in Single!Sides /\ Single!Setup(read, read.signal) \notin lastLossSetup
    BY <1>2, <1>3, <1>5
  <2>2. Single!TypeOK'
    BY <1>1, <2>1 DEF SetupInv, Single!TypeOK
  <2> QED
    BY <1>1, <2>1, <2>2 DEF SetupInv, ReadInv, PositionInv, LostInv, DecidedInv, Single!Setup
<1> QED
  BY <1>4, <1>5

LEMMA RowSetup ==
    ASSUME Single!SingleEngineAssumption, SetupInv, Single!Row
    PROVE  SetupInv'
<1>1. /\ stage = "row" /\ stage' = "idle" /\ lastSignal' = filtered /\ filtered' = Single!None
      /\ UNCHANGED <<kind, confirms, candle, read, lastLossSetup, cooldown, seen, exchange, entries,
                     lost>>
      /\ filtered = Single!None => reserved' = FALSE /\ position' = position
      /\ filtered # Single!None => position' = {Single!Ordered} /\ reserved' = reserved
  BY DEF Single!Row, Single!Ends, Single!market
<1>2. reserved' \in BOOLEAN /\ cooldown' \in BOOLEAN
  BY <1>1, Zenon DEF SetupInv, Single!TypeOK
<1>3. CASE filtered = Single!None
  BY <1>1, <1>2, <1>3, TickKeeps DEF SetupInv, Single!TypeOK, SignalStages, Decided, Single!market
<1>4. CASE filtered # Single!None
  <2>1. /\ Single!Ordered \in Single!Position /\ Single!Ordered.of = read
        /\ Single!Ordered.side = filtered
        /\ Single!Ordered \in exchange /\ filtered = read.signal
    BY <1>1, <1>4, OrderedIs DEF SetupInv, DecidedInv, Decided
  <2> DEFINE q == Single!Ordered
  <2>2. position' = {q} /\ q \in Single!Position /\ q.of = read /\ q.side = read.signal /\ q \in
        exchange
    BY <1>1, <1>4, <2>1
  <2> HIDE DEF q
  <2>3. Single!TypeOK'
    BY <1>1, <1>2, <2>2, TickIs DEF SetupInv, Single!TypeOK
  <2>4. PositionInv'
    BY <1>1, <2>2, TickIs DEF SetupInv, PositionInv, LostInv
  <2> QED
    BY <1>1, <2>3, <2>4 DEF SetupInv, ReadInv, LostInv, DecidedInv, Decided, Single!Setup
<1> QED
  BY <1>3, <1>4

LEMMA EntrySetup ==
    ASSUME Single!SingleEngineAssumption, SetupInv,
           \/ Single!Waits \/ Single!Confirm \/ Single!Dedup \/ Single!Refused
           \/ Single!Send \/ Single!Order \/ Single!OrderFails
    PROVE  SetupInv'
<1> USE DEF SignalStages, Decided
<1>1. CASE Single!Waits \/ Single!Refused
  <2>1. /\ stage' = "idle" /\ filtered' = Single!None /\ lastSignal' \in {lastSignal, filtered}
        /\ UNCHANGED <<Single!market, read, lastLossSetup, cooldown, seen, position, reserved,
              exchange,
                       entries, lost>>
    BY <1>1 DEF Single!Waits, Single!Refused, Single!Ends
  <2> QED
    BY <2>1, TickKeeps DEF SetupInv, Single!TypeOK
<1>2. CASE Single!Confirm
  <2>1. /\ stage = "confirm" /\ stage' = "dedup" /\ filtered' \in {filtered, Single!None}
        /\ UNCHANGED <<Single!market, read, lastSignal, lastLossSetup, cooldown, seen, position,
              reserved,
                       exchange, entries, lost>>
    BY <1>2 DEF Single!Confirm
  <2> QED
    BY <2>1, TickKeeps DEF SetupInv, Single!TypeOK
<1>3. CASE Single!Dedup
  <2>1. /\ stage = "dedup" /\ stage' \in {"idle", "handle"} /\ filtered' \in {filtered, Single!None}
        /\ lastSignal' = lastSignal /\ seen' \subseteq seen \cup {<<read.number, filtered>>}
        /\ UNCHANGED <<Single!market, read, lastLossSetup, cooldown, position, reserved, exchange,
                       entries, lost>>
    BY <1>3 DEF Single!Dedup, Single!Ends, Single!Key
  <2>2. seen' \subseteq (1..MaxCandles) \X (Single!Sides \cup {Single!None})
    BY <2>1, TickIs DEF SetupInv, Single!TypeOK
  <2> QED
    BY <2>1, <2>2, TickKeeps DEF SetupInv, Single!TypeOK
<1>4. CASE Single!Send
  <2>1. /\ stage = "handle" /\ stage' = "order" /\ reserved' \in BOOLEAN
        /\ UNCHANGED <<Single!market, read, filtered, lastSignal, lastLossSetup, cooldown, seen,
              position,
                       exchange, entries, lost>>
    BY <1>4, Zenon DEF Single!Send
  <2> QED
    BY <2>1, TickKeeps DEF SetupInv, Single!TypeOK
<1>5. CASE Single!Order
  <2>1. /\ stage = "order" /\ stage' = "row" /\ exchange' = exchange \cup {Single!Ordered}
        /\ entries < MaxEntries /\ entries' = entries + 1
        /\ UNCHANGED <<Single!market, read, filtered, lastSignal, lastLossSetup, cooldown, seen,
              position,
                       reserved, lost>>
    BY <1>5 DEF Single!Order
  <2>2. entries' \in 0 .. MaxEntries
    BY <2>1, TickIs DEF SetupInv
  <2>3. Single!Ordered \in Single!Position /\ Single!Ordered' = Single!Ordered
    BY <2>1, OrderedIs DEF Single!Ordered
  <2> QED
    BY <2>1, <2>2, <2>3, TickKeeps DEF SetupInv, Single!TypeOK
<1>6. CASE Single!OrderFails
  <2>1. /\ stage \in {"order", "row"} /\ stage' = "idle"
        /\ filtered' = Single!None /\ lastSignal' = filtered
        /\ reserved' = FALSE /\ cooldown' \in {cooldown, TRUE} /\ exchange' \subseteq exchange
        /\ UNCHANGED <<Single!market, read, lastLossSetup, seen, position, entries, lost>>
    BY <1>6 DEF Single!OrderFails, Single!Ends
  <2>2. reserved' \in BOOLEAN /\ cooldown' \in BOOLEAN
    BY <2>1, Zenon DEF SetupInv, Single!TypeOK
  <2>3. position = {}
    BY <2>1 DEF SetupInv, DecidedInv, Single!Flat
  <2> QED
    BY <2>1, <2>2, <2>3, TickKeeps DEF SetupInv, Single!TypeOK
<1> QED
  BY <1>1, <1>2, <1>3, <1>4, <1>5, <1>6

LEMMA AroundSetup ==
    ASSUME Single!SingleEngineAssumption, SetupInv,
           \/ Single!CooldownEnds \/ Single!Forgets \/ Single!Restart
           \/ Single!PlanHits \/ Single!Candles
    PROVE  SetupInv'
<1> USE DEF SignalStages, Decided
<1>1. CASE Single!CooldownEnds \/ Single!Forgets \/ Single!PlanHits
  <2>1. /\ cooldown' \in {cooldown, FALSE} /\ seen' \subseteq seen
        /\ exchange' \subseteq exchange /\ position \cap exchange \subseteq exchange'
        /\ stage = "row" => exchange' = exchange
        /\ UNCHANGED <<Single!market, stage, read, filtered, lastSignal, lastLossSetup, position,
              reserved,
                       entries, lost>>
    BY <1>1 DEF Single!CooldownEnds, Single!Forgets, Single!PlanHits
  <2>2. cooldown' \in BOOLEAN
    BY <2>1, Zenon DEF SetupInv, Single!TypeOK
  <2>3. Single!Ordered' = Single!Ordered
    BY <2>1 DEF Single!Ordered
  <2> QED
    BY <2>1, <2>2, <2>3, TickKeeps DEF SetupInv, Single!TypeOK, DecidedInv
<1>2. CASE Single!Restart
  <2>1. /\ stage = "idle" /\ lastSignal' = Single!None /\ lastLossSetup' = {} /\ cooldown' = FALSE
        /\ lost' = {}
        /\ reserved' = (position # Single!Flat)
        /\ UNCHANGED <<kind, confirms, candle, stage, read, filtered, seen, position, exchange,
                       entries>>
    BY <1>2 DEF Single!Restart, Single!market
  <2>2. reserved' \in BOOLEAN /\ cooldown' \in BOOLEAN
    BY <2>1, Zenon
  <2>3. Single!TypeOK'
    BY <2>1, <2>2 DEF SetupInv, Single!TypeOK
  <2> QED
    BY <2>1, <2>3 DEF SetupInv, ReadInv, PositionInv, LostInv, DecidedInv
<1>3. CASE Single!Candles
  <2>1. /\ candle' \in Single!Candle /\ candle'.number = candle.number + 1
        /\ UNCHANGED <<kind, confirms, stage, read, filtered, lastSignal, lastLossSetup, cooldown,
                       seen, position, reserved, exchange, entries, lost>>
    BY <1>3 DEF Single!Candles
  <2>2. ReadInv'
    BY <2>1, TickIs DEF SetupInv, ReadInv
  <2>3. Single!TypeOK'
    BY <2>1 DEF SetupInv, Single!TypeOK
  <2> QED
    BY <2>1, <2>2, <2>3 DEF SetupInv, PositionInv, LostInv, DecidedInv, Single!Setup, Single!Ordered
<1> QED
  BY <1>1, <1>2, <1>3

LEMMA NextSetup ==
    ASSUME Single!SingleEngineAssumption, SetupInv, [Single!Next]_(Single!vars)
    PROVE  SetupInv'
<1>1. CASE UNCHANGED Single!vars
  BY <1>1 DEF Single!vars, SetupInv, Single!TypeOK, ReadInv, PositionInv, LostInv, DecidedInv,
              Single!Setup, Single!Ordered, Decided
<1>2. CASE Single!Next
  BY <1>2, BeginSetup, MonitorSetup, DetectSetup, RowSetup, EntrySetup, AroundSetup
     DEF Single!Next, Single!Ticking
<1> QED
  BY <1>1, <1>2

\* The tick, what outlives it, and the position keep their types.
THEOREM EngineTypeCorrect == Single!SingleEngineAssumption => (Single!Spec => []Single!TypeOK)
<1> SUFFICES ASSUME Single!SingleEngineAssumption PROVE Single!Spec => []Single!TypeOK
  OBVIOUS
<1>1. Single!Init => SetupInv
  BY InitSetup
<1>2. SetupInv /\ [Single!Next]_(Single!vars) => SetupInv'
  BY NextSetup
<1>3. SetupInv => Single!TypeOK
  BY DEF SetupInv
<1> QED
  BY <1>1, <1>2, <1>3, PTL DEF Single!Spec

LEMMA OrderNew ==
    ASSUME Single!SingleEngineAssumption, SetupInv, Single!Order
    PROVE  <<read.number, filtered>> \notin lost
<1> SUFFICES ASSUME <<read.number, filtered>> \in lost PROVE FALSE
  OBVIOUS
<1>1. stage = "order"
  BY DEF Single!Order
<1>2. \/ filtered = Single!None
      \/ filtered = read.signal /\ Single!Setup(read, filtered) \notin lastLossSetup
  BY <1>1 DEF SetupInv, DecidedInv, Decided
<1>3. filtered \in Single!Sides
  BY DEF SetupInv, Single!TypeOK
<1>4. filtered = read.signal /\ Single!Setup(read, filtered) \in lastLossSetup
  BY DEF SetupInv, LostInv
<1> QED
  BY <1>2, <1>3, <1>4, TickIs DEF SetupInv

\* BotEngine 1362 to 1369: a setup that lost is not entered again on its candle.  One
\* lastLossSetup is enough, because a candle has one signal and what lost before was of earlier
\* candles.
THEOREM LostSetupStaysOut ==
  Single!SingleEngineAssumption => (Single!Spec => Single!LostSetupNotRepeated)
<1> SUFFICES ASSUME Single!SingleEngineAssumption PROVE Single!Spec => Single!LostSetupNotRepeated
  OBVIOUS
<1>1. Single!Init => SetupInv
  BY InitSetup
<1>2. SetupInv /\ [Single!Next]_(Single!vars) => SetupInv'
  BY NextSetup
<1>3. SetupInv => [Single!Order => <<read.number, filtered>> \notin lost]_(Single!vars)
  BY OrderNew
<1> QED
  BY <1>1, <1>2, <1>3, PTL DEF Single!Spec, Single!LostSetupNotRepeated

----------------------------------------------------------------------------
(* SignalDesk *)

DeskStages == {"idle", "monitor", "detect", "gate", "ticker", "order"}
Planned == {"gate", "ticker", "order"}

Memory == [until : 0..(MaxTime + Ttl), by : Desk!Engines \cup {Desk!Forgotten.by}]

DeskTyped ==
    /\ Desk!TypeOK
    /\ signals \in [Desk!Signals -> Memory]

\* The signal a tick past Detect is about, and when it was detected.
Seeing(e) == Desk!Key(e, tick[e].side)

\* A signal that was detected is remembered for its window, or the window is over.
Windowed(key, detected) ==
    /\ detected <= now
    /\ detected + Ttl <= now \/ detected + Ttl <= signals[key].until

Apart(s, t) == s + Ttl <= t \/ t + Ttl <= s

\* What was entered and what is about to be: each is remembered long enough, and those of
\* the same signal are a window apart.
WindowInv ==
    /\ \A x \in entered : Windowed(x.key, x.detected)
    /\ \A e \in Desk!Engines : at[e] \in Planned =>
          /\ Windowed(Seeing(e), tick[e].detected)
          /\ \A x \in entered : x.key = Seeing(e) => Apart(x.detected, tick[e].detected)
          /\ \A f \in Desk!Engines \ {e} : at[f] \in Planned /\ Seeing(f) = Seeing(e)
                => Apart(tick[f].detected, tick[e].detected)

DeskInv == DeskTyped /\ WindowInv
----------------------------------------------------------------------------
LEMMA BarOfTime ==
    ASSUME Desk!SignalDeskAssumption, NEW t \in Desk!Times
    PROVE  t \div Bar \in Desk!Times
<1>1. Bar \in Nat /\ Bar > 0 /\ MaxTime \in Nat /\ t \in Nat /\ t <= MaxTime
  BY DEF Desk!SignalDeskAssumption, Desk!Times
<1> DEFINE q == t \div Bar
<1>2. q \in Int /\ Bar * q <= t /\ t < Bar * (q + 1)
  BY <1>1
<1> HIDE DEF q
<1>3. q >= 0 /\ q <= t
  BY <1>1, <1>2
<1> QED
  BY <1>1, <1>2, <1>3 DEF q, Desk!Times

LEMMA MineIs ==
    ASSUME DeskTyped, NEW e \in Desk!Engines
    PROVE  /\ tick[e] \in Desk!Tick /\ tick[e].side \in Desk!Sides
           /\ tick[e].detected \in Desk!Times
           /\ tick[e].candle \in Desk!Times /\ Seeing(e) \in Desk!Signals
           /\ \A side \in Desk!Sides : Desk!Key(e, side) \in Desk!Signals
<1>1. tick[e] \in Desk!Tick
  BY DEF DeskTyped, Desk!TypeOK
<1>2. tick[e].side \in Desk!Sides /\ tick[e].detected \in Desk!Times /\ tick[e].candle \in
      Desk!Times
  BY <1>1 DEF Desk!Tick
<1>3. Desk!Coin(e) \in Coins
  BY DEF Desk!Engines, Desk!Coin
<1>4. \A side \in Desk!Sides : Desk!Key(e, side) \in Desk!Signals
  BY <1>1, <1>2, <1>3 DEF Desk!Key, Desk!Signals, Desk!Times
<1> QED
  BY <1>1, <1>2, <1>4 DEF Seeing

LEMMA BlankIs == Desk!SignalDeskAssumption => Desk!Blank \in Desk!Tick /\ 0 \in Desk!Times
<1> SUFFICES ASSUME Desk!SignalDeskAssumption PROVE Desk!Blank \in Desk!Tick /\ 0 \in Desk!Times
  OBVIOUS
<1>1. 0 \in Desk!Times
  BY DEF Desk!SignalDeskAssumption, Desk!Times
<1> QED
  BY <1>1 DEF Desk!Blank, Desk!Tick, Desk!Sides

\* How a step may change the tick of an engine.
LEMMA CandleIs ==
    ASSUME NEW t \in Desk!Tick, NEW n \in Desk!Times
    PROVE  [t EXCEPT !.candle = n] \in Desk!Tick
BY DEF Desk!Tick

LEMMA PlannedIs ==
    ASSUME NEW t \in Desk!Tick, NEW live \in BOOLEAN, NEW own \in BOOLEAN
    PROVE  /\ [t EXCEPT !.live = live, !.own = own] \in Desk!Tick
           /\ [t EXCEPT !.live = live, !.own = own].candle = t.candle
           /\ [t EXCEPT !.live = live, !.own = own].side = t.side
           /\ [t EXCEPT !.live = live, !.own = own].detected = t.detected
BY DEF Desk!Tick

\* Steps that detect, remember and enter nothing: a tick goes on with the signal it has, or
\* with none.
LEMMA DeskKeeps ==
    ASSUME Desk!SignalDeskAssumption, DeskInv, UNCHANGED <<now, signals, entered>>,
           meta' \in Desk!Engines, lastPrice' \in [Desk!Engines -> Desk!Prices], held' \subseteq
                 Desk!Engines,
           at' \in [Desk!Engines -> DeskStages], tick' \in [Desk!Engines -> Desk!Tick],
           \A f \in Desk!Engines : at'[f] \in Planned =>
              /\ at[f] \in Planned /\ tick'[f].candle = tick[f].candle
              /\ tick'[f].side = tick[f].side /\ tick'[f].detected = tick[f].detected
    PROVE  DeskInv'
<1>1. DeskTyped'
  BY DEF DeskInv, DeskTyped, Desk!TypeOK, DeskStages, Memory
<1>2. \A f \in Desk!Engines : at'[f] \in Planned =>
         at[f] \in Planned /\ Seeing(f)' = Seeing(f) /\ tick'[f].detected = tick[f].detected
  BY DEF Seeing, Desk!Key
<1>3. WindowInv'
  BY <1>2 DEF DeskInv, WindowInv, Windowed
<1> QED
  BY <1>1, <1>3 DEF DeskInv

LEMMA InitDesk == Desk!SignalDeskAssumption /\ Desk!Init => DeskInv
<1> SUFFICES ASSUME Desk!SignalDeskAssumption, Desk!Init PROVE DeskInv
  OBVIOUS
<1>0. Desk!Engines # {}
  <2>1. \A u \in Users, c \in Coins : <<u, c>> \in Desk!Engines
    BY DEF Desk!Engines
  <2> QED
    BY <2>1 DEF Desk!SignalDeskAssumption
<1>1. Desk!Forgotten.by \in Desk!Engines /\ Desk!Forgotten.until = 0 /\ Desk!Forgotten \in Memory
  BY <1>0 DEF Desk!Forgotten, Memory, Desk!SignalDeskAssumption
<1>2. now \in Desk!Times /\ meta \in Desk!Engines /\ signals \in [Desk!Signals -> Memory]
  BY <1>1, BlankIs DEF Desk!Init
<1>3. \A s \in Desk!Signals : signals[s].until \in 0 .. (MaxTime + Ttl)
  BY <1>2 DEF Memory
<1>4. at \in [Desk!Engines -> DeskStages] /\ tick \in [Desk!Engines -> Desk!Tick] /\ lastPrice \in
      [Desk!Engines -> Desk!Prices]
  BY BlankIs DEF Desk!Init, DeskStages, Desk!Prices
<1>5. held = {} /\ entered = {} /\ \A e \in Desk!Engines : at[e] = "idle"
  BY DEF Desk!Init
<1> QED
  BY <1>2, <1>3, <1>4, <1>5 DEF DeskInv, DeskTyped, Desk!TypeOK, WindowInv, Planned, DeskStages

LEMMA QuietDesk ==
    ASSUME Desk!SignalDeskAssumption, DeskInv, NEW e \in Desk!Engines,
           \/ Desk!Begin(e) \/ Desk!Monitor(e) \/ Desk!NoSignal(e) \/ Desk!Gate(e) \/ Desk!Ticker(e)
                 \/ Desk!Refused(e)
           \/ \E side \in Desk!Sides : Desk!Duplicate(e, side)
    PROVE  DeskInv'
<1>0. /\ at \in [Desk!Engines -> DeskStages] /\ tick \in [Desk!Engines -> Desk!Tick]
      /\ tick[e] \in Desk!Tick
      /\ lastPrice \in [Desk!Engines -> Desk!Prices] /\ held \subseteq Desk!Engines
      /\ meta \in Desk!Engines /\ now \in Desk!Times
  BY DEF DeskInv, DeskTyped, Desk!TypeOK, DeskStages
<1>1. CASE Desk!Begin(e)
  <2> DEFINE n == now \div Bar
             t == [tick[e] EXCEPT !.candle = n]
  <2>1. n \in Desk!Times /\ t \in Desk!Tick
    BY <1>0, BarOfTime, CandleIs
  <2>2. /\ at' = [at EXCEPT ![e] = IF e \in held THEN "monitor" ELSE "detect"]
        /\ tick' = [tick EXCEPT ![e] = t]
        /\ UNCHANGED <<now, signals, meta, held, entered>>
    BY <1>0, <1>1 DEF Desk!Begin
  <2>3. lastPrice' \in [Desk!Engines -> Desk!Prices]
    BY <1>0, <1>1 DEF Desk!Begin, Desk!Prices
  <2> HIDE DEF t
  <2>4. at' \in [Desk!Engines -> DeskStages] /\ at'[e] \notin Planned /\ tick' \in [Desk!Engines ->
        Desk!Tick]
        /\ \A f \in Desk!Engines \ {e} : at'[f] = at[f] /\ tick'[f] = tick[f]
    BY <1>0, <2>1, <2>2 DEF DeskStages, Planned
  <2> QED
    BY <1>0, <2>2, <2>3, <2>4, DeskKeeps
<1>2. CASE Desk!Monitor(e)
  <2>1. /\ at' \in [Desk!Engines -> DeskStages] /\ at'[e] \notin Planned
        /\ tick' \in [Desk!Engines -> Desk!Tick]
        /\ \A f \in Desk!Engines \ {e} : at'[f] = at[f] /\ tick'[f] = tick[f]
        /\ UNCHANGED <<now, signals, meta, entered>> /\ held' \subseteq Desk!Engines
    BY <1>0, <1>2, BlankIs DEF Desk!Monitor, Desk!Ends, DeskStages, Planned
  <2>2. lastPrice' \in [Desk!Engines -> Desk!Prices]
    BY <1>0, <1>2 DEF Desk!Monitor, Desk!Prices
  <2> QED
    BY <1>0, <2>1, <2>2, DeskKeeps
<1>3. CASE Desk!NoSignal(e) \/ Desk!Refused(e) \/ \E side \in Desk!Sides : Desk!Duplicate(e, side)
  <2>1. Desk!Ends(e) /\ meta' \in {meta, e} /\ UNCHANGED <<now, signals, lastPrice, held, entered>>
    BY <1>3 DEF Desk!NoSignal, Desk!Refused, Desk!Duplicate
  <2>2. /\ at' \in [Desk!Engines -> DeskStages] /\ at'[e] \notin Planned
        /\ tick' \in [Desk!Engines -> Desk!Tick]
        /\ \A f \in Desk!Engines \ {e} : at'[f] = at[f] /\ tick'[f] = tick[f]
    BY <1>0, <2>1, BlankIs DEF Desk!Ends, DeskStages, Planned
  <2> QED
    BY <1>0, <2>1, <2>2, DeskKeeps
<1>4. ASSUME NEW price, Desk!Plans(e, price), at[e] \in Planned,
             UNCHANGED <<now, signals, meta, lastPrice, held, entered>>
      PROVE  DeskInv'
  <2> DEFINE live == price = "live"
             own  == meta = e
             t    == [tick[e] EXCEPT !.live = live, !.own = own]
  <2>1. live \in BOOLEAN /\ own \in BOOLEAN
    BY Zenon
  <2>2. at' = [at EXCEPT ![e] = "order"] /\ tick' = [tick EXCEPT ![e] = t]
    BY <1>0, <1>4 DEF Desk!Plans
  <2> HIDE DEF live, own
  <2>3. /\ t \in Desk!Tick /\ t.candle = tick[e].candle /\ t.side = tick[e].side
        /\ t.detected = tick[e].detected
    BY <1>0, <2>1, PlannedIs
  <2> HIDE DEF t
  <2>4. /\ at' \in [Desk!Engines -> DeskStages] /\ tick' \in [Desk!Engines -> Desk!Tick]
        /\ tick'[e] = t
        /\ \A f \in Desk!Engines \ {e} : at'[f] = at[f] /\ tick'[f] = tick[f]
    BY <1>0, <2>2, <2>3 DEF DeskStages
  <2> QED
    BY <1>0, <1>4, <2>3, <2>4, DeskKeeps
<1>5. CASE Desk!Gate(e)
  <2>1. at[e] \in Planned /\ UNCHANGED <<now, signals, meta, lastPrice, held, entered>>
    BY <1>5 DEF Desk!Gate, Planned
  <2>2. CASE lastPrice[e] = "none"
    <3>1. at' = [at EXCEPT ![e] = "ticker"] /\ tick' = tick
      BY <1>5, <2>2 DEF Desk!Gate
    <3>2. at' \in [Desk!Engines -> DeskStages] /\ \A f \in Desk!Engines \ {e} : at'[f] = at[f]
      BY <1>0, <3>1 DEF DeskStages
    <3> QED
      BY <1>0, <2>1, <3>1, <3>2, DeskKeeps
  <2>3. CASE lastPrice[e] # "none"
    <3>1. Desk!Plans(e, lastPrice[e])
      BY <1>5, <2>3 DEF Desk!Gate
    <3> QED
      BY <1>4, <2>1, <3>1
  <2> QED
    BY <2>2, <2>3
<1>6. CASE Desk!Ticker(e)
  <2>1. at[e] \in Planned /\ Desk!Plans(e, "live") /\ UNCHANGED <<now, signals, meta, lastPrice,
                                                                  held, entered>>
    BY <1>6 DEF Desk!Ticker, Planned
  <2> QED
    BY <1>4, <2>1
<1> QED
  BY <1>1, <1>2, <1>3, <1>5, <1>6

\* The map did not remember the signal: every earlier one is a window ago.
LEMMA DetectDesk ==
    ASSUME Desk!SignalDeskAssumption, DeskInv, NEW e \in Desk!Engines, NEW side \in Desk!Sides,
          Desk!Detect(e, side)
    PROVE  DeskInv'
<1> DEFINE k == Desk!Key(e, side)
           new == [until |-> now + Ttl, by |-> e]
           t == [tick[e] EXCEPT !.side = side, !.detected = now]
<1>0. /\ at \in [Desk!Engines -> DeskStages] /\ tick \in [Desk!Engines -> Desk!Tick]
      /\ tick[e] \in Desk!Tick
      /\ signals \in [Desk!Signals -> Memory] /\ now \in Desk!Times /\ now \in Nat /\ Ttl \in Nat
      /\ MaxTime \in Nat
      /\ Ttl > 0 /\ now <= MaxTime /\ DeskTyped
  BY DEF DeskInv, DeskTyped, Desk!TypeOK, DeskStages, Desk!SignalDeskAssumption, Desk!Times
<1>1. /\ k \in Desk!Signals /\ signals[k].until <= now /\ signals[k].until \in Nat
      /\ signals' = [signals EXCEPT ![k] = new] /\ meta' = e
      /\ UNCHANGED <<now, lastPrice, held, entered>>
      /\ \/ at' = [at EXCEPT ![e] = "gate"] /\ tick' = [tick EXCEPT ![e] = t]
         \/ at' = [at EXCEPT ![e] = "idle"] /\ tick' = [tick EXCEPT ![e] = Desk!Blank]
  <2>1. k \in Desk!Signals
    BY <1>0, MineIs
  <2>2. ~(signals[k].until > now) /\ signals[k].until \in Nat
    BY <1>0, <2>1 DEF Desk!Detect, Desk!Remembered, Memory
  <2>3. signals[k].until <= now
    BY <1>0, <2>2
  <2>4. [tick EXCEPT ![e].side = side, ![e].detected = now] = [tick EXCEPT ![e] = t]
    BY <1>0
  <2> HIDE DEF t
  <2> QED
    BY <2>1, <2>2, <2>3, <2>4 DEF Desk!Detect, Desk!Ends
<1>2. new \in Memory /\ new.until = now + Ttl
  BY <1>0 DEF Memory
<1>3. /\ t \in Desk!Tick /\ t.candle = tick[e].candle /\ t.side = side /\ t.detected = now
  BY <1>0 DEF Desk!Tick
<1> HIDE DEF new, t
<1>4. /\ signals' \in [Desk!Signals -> Memory] /\ signals'[k].until = now + Ttl
      /\ \A s \in Desk!Signals \ {k} : signals'[s] = signals[s]
  BY <1>0, <1>1, <1>2
<1>5. /\ at' \in [Desk!Engines -> DeskStages] /\ tick' \in [Desk!Engines -> Desk!Tick]
      /\ \A f \in Desk!Engines \ {e} : at'[f] = at[f] /\ tick'[f] = tick[f]
      /\ at'[e] \in Planned => tick'[e] = t
  BY <1>0, <1>1, <1>3, BlankIs DEF DeskStages, Planned
<1>6. DeskTyped'
  <2>1. \A s \in Desk!Signals : signals'[s].until \in 0 .. (MaxTime + Ttl)
    BY <1>4 DEF Memory
  <2> QED
    BY <1>1, <1>4, <1>5, <2>1 DEF DeskInv, DeskTyped, Desk!TypeOK, DeskStages, Memory
<1>7. /\ \A f \in Desk!Engines \ {e} : Seeing(f)' = Seeing(f)
      /\ at'[e] \in Planned => Seeing(e)' = k /\ tick'[e].detected = now
  BY <1>3, <1>5 DEF Seeing, Desk!Key
<1>8. ASSUME NEW key \in Desk!Signals, NEW d \in Desk!Times, Windowed(key, d)
      PROVE  Windowed(key, d)' /\ (key = k => Apart(d, now))
  <2>1. d \in Nat /\ d <= now /\ (d + Ttl <= now \/ d + Ttl <= signals[key].until)
    BY <1>8 DEF Windowed, Desk!Times
  <2>2. CASE key = k
    <3>1. d + Ttl <= now
      BY <1>0, <1>1, <2>1, <2>2
    <3> QED
      BY <1>1, <2>1, <3>1 DEF Windowed, Apart
  <2>3. CASE key # k
    BY <1>1, <1>4, <2>1, <2>3 DEF Windowed
  <2> QED
    BY <2>2, <2>3
<1>9. \A x \in entered : x.key \in Desk!Signals /\ x.detected \in Desk!Times
  BY DEF DeskInv, DeskTyped, Desk!TypeOK
<1>10. \A f \in Desk!Engines : Seeing(f) \in Desk!Signals /\ tick[f].detected \in Desk!Times
  BY <1>0, MineIs
<1>11. now <= now' /\ now + Ttl <= signals'[k].until
  BY <1>0, <1>1, <1>4
<1>12. \A x \in entered' : Windowed(x.key, x.detected)'
  BY <1>1, <1>8, <1>9 DEF DeskInv, WindowInv, Windowed
<1>13. ASSUME NEW f \in Desk!Engines, at'[f] \in Planned
       PROVE  /\ Windowed(Seeing(f), tick[f].detected)'
              /\ \A x \in entered : x.key = Seeing(f)' => Apart(x.detected, tick'[f].detected)
              /\ \A g \in Desk!Engines \ {f} : at'[g] \in Planned /\ Seeing(g)' = Seeing(f)'
                    => Apart(tick'[g].detected, tick'[f].detected)
  <2>1. CASE f = e
    <3>1. Seeing(f)' = k /\ tick'[f].detected = now
      BY <1>7, <1>13, <2>1
    <3>2. \A x \in entered : x.key = k => Apart(x.detected, now)
      BY <1>8, <1>9 DEF DeskInv, WindowInv
    <3>3. ASSUME NEW g \in Desk!Engines \ {e}, at'[g] \in Planned, Seeing(g)' = k
          PROVE  Apart(tick'[g].detected, now)
      BY <1>5, <1>7, <1>8, <1>10, <3>3 DEF DeskInv, WindowInv
    <3> QED
      BY <1>11, <2>1, <3>1, <3>2, <3>3 DEF Windowed
  <2>2. CASE f # e
    <3>1. Seeing(f)' = Seeing(f) /\ tick'[f] = tick[f] /\ at[f] \in Planned
      BY <1>5, <1>7, <1>13, <2>2
    <3>2. Windowed(Seeing(f), tick[f].detected)
      BY <3>1 DEF DeskInv, WindowInv
    <3> DEFINE m == Seeing(f)
               d == tick[f].detected
    <3>3. m \in Desk!Signals /\ d \in Desk!Times /\ Windowed(m, d)
      BY <1>10, <3>2
    <3>4. Seeing(f)' = Seeing(f) /\ tick'[f].detected = tick[f].detected
      BY <3>1
    <3>5. /\ d <= now' /\ (d + Ttl <= now' \/ d + Ttl <= signals'[m].until)
          /\ m = k => Apart(d, now)
      <4> HIDE DEF m, d
      <4> QED
        BY <1>8, <3>3 DEF Windowed
    <3>6. Windowed(Seeing(f), tick[f].detected)'
      BY <3>4, <3>5 DEF Windowed
    <3>7. \A x \in entered : x.key = Seeing(f) => Apart(x.detected, tick[f].detected)
      BY <3>1 DEF DeskInv, WindowInv
    <3>8. ASSUME NEW g \in Desk!Engines \ {f}, at'[g] \in Planned, Seeing(g)' = Seeing(f)
          PROVE  Apart(tick'[g].detected, tick[f].detected)
      <4>1. CASE g = e
        <5>1. Seeing(f) = k /\ tick'[g].detected = now
          BY <1>7, <3>8, <4>1
        <5> QED
          BY <3>5, <5>1 DEF Apart
      <4>2. CASE g # e
        <5>1. at[g] \in Planned /\ Seeing(g) = Seeing(f) /\ tick'[g] = tick[g]
          BY <1>5, <1>7, <3>8, <4>2
        <5> QED
          BY <3>1, <3>8, <5>1 DEF DeskInv, WindowInv
      <4> QED
        BY <4>1, <4>2
    <3> QED
      BY <3>4, <3>6, <3>7, <3>8
  <2> QED
    BY <2>1, <2>2
<1>14. WindowInv'
  BY <1>1, <1>12, <1>13 DEF WindowInv
<1> QED
  BY <1>6, <1>14 DEF DeskInv

LEMMA EnterDesk ==
    ASSUME Desk!SignalDeskAssumption, DeskInv, NEW e \in Desk!Engines, Desk!Enter(e)
    PROVE  DeskInv'
<1> DEFINE x == [key |-> Seeing(e), detected |-> tick[e].detected]
<1>0. /\ at \in [Desk!Engines -> DeskStages] /\ tick \in [Desk!Engines -> Desk!Tick] /\ DeskTyped
      /\ lastPrice \in [Desk!Engines -> Desk!Prices] /\ held \subseteq Desk!Engines
      /\ meta \in Desk!Engines
  BY DEF DeskInv, DeskTyped, Desk!TypeOK, DeskStages
<1>1. /\ at[e] \in Planned /\ at' = [at EXCEPT ![e] = "idle"]
      /\ tick' = [tick EXCEPT ![e] = Desk!Blank]
      /\ held' = held \cup {e} /\ entered' = entered \cup {x}
      /\ UNCHANGED <<now, signals, meta, lastPrice>>
  BY DEF Desk!Enter, Desk!Ends, Desk!Entry, Seeing, Planned
<1>2. x.key = Seeing(e) /\ x.detected = tick[e].detected /\ x \in [key : Desk!Signals, detected :
      Desk!Times]
  <2>1. Seeing(e) \in Desk!Signals /\ tick[e].detected \in Desk!Times
    BY <1>0, MineIs
  <2> QED
    BY <2>1
<1> HIDE DEF x
<1>3. /\ at' \in [Desk!Engines -> DeskStages] /\ tick' \in [Desk!Engines -> Desk!Tick]
      /\ at'[e] \notin Planned
      /\ \A f \in Desk!Engines \ {e} : at'[f] = at[f] /\ tick'[f] = tick[f]
  BY <1>0, <1>1, BlankIs DEF DeskStages, Planned
<1>4. \A f \in Desk!Engines \ {e} : Seeing(f)' = Seeing(f)
  BY <1>3 DEF Seeing, Desk!Key
<1>5. DeskTyped'
  BY <1>0, <1>1, <1>2, <1>3 DEF DeskTyped, Desk!TypeOK, DeskStages, Memory
<1>6. \A y \in entered' : y \in entered \/ y = x
  BY <1>1
<1>7. \A f \in Desk!Engines \ {e} : at[f] \in Planned /\ x.key = Seeing(f) => Apart(x.detected,
      tick[f].detected)
  BY <1>1, <1>2 DEF DeskInv, WindowInv
<1>8. \A y \in entered' : Windowed(y.key, y.detected)
  BY <1>1, <1>2, <1>6 DEF DeskInv, WindowInv
<1>9. WindowInv'
  <2>1. \A y \in entered' : Windowed(y.key, y.detected)'
    BY <1>1, <1>8 DEF Windowed
  <2>2. ASSUME NEW f \in Desk!Engines, at'[f] \in Planned
        PROVE  /\ Windowed(Seeing(f), tick[f].detected)'
               /\ \A y \in entered' : y.key = Seeing(f)' => Apart(y.detected, tick'[f].detected)
               /\ \A g \in Desk!Engines \ {f} : at'[g] \in Planned /\ Seeing(g)' = Seeing(f)'
                     => Apart(tick'[g].detected, tick'[f].detected)
    <3>1. f # e /\ at[f] \in Planned /\ Seeing(f)' = Seeing(f) /\ tick'[f] = tick[f]
      BY <1>3, <1>4, <2>2
    <3>2. Windowed(Seeing(f), tick[f].detected)'
      BY <1>1, <3>1 DEF DeskInv, WindowInv, Windowed
    <3>3. \A y \in entered' : y.key = Seeing(f) => Apart(y.detected, tick[f].detected)
      BY <1>6, <1>7, <3>1 DEF DeskInv, WindowInv
    <3>4. ASSUME NEW g \in Desk!Engines \ {f}, at'[g] \in Planned, Seeing(g)' = Seeing(f)
          PROVE  Apart(tick'[g].detected, tick[f].detected)
      <4>1. g # e /\ at[g] \in Planned /\ Seeing(g) = Seeing(f) /\ tick'[g] = tick[g]
        BY <1>3, <1>4, <3>4
      <4> QED
        BY <3>1, <4>1 DEF DeskInv, WindowInv
    <3> QED
      BY <3>1, <3>2, <3>3, <3>4
  <2> QED
    BY <2>1, <2>2 DEF WindowInv
<1> QED
  BY <1>5, <1>9 DEF DeskInv

LEMMA PassesDesk ==
    ASSUME Desk!SignalDeskAssumption, DeskInv, Desk!Passes
    PROVE  DeskInv'
<1>0. /\ signals \in [Desk!Signals -> Memory] /\ now \in Desk!Times /\ now \in Nat /\ Ttl \in Nat
      /\ MaxTime \in Nat /\ DeskTyped /\ now < MaxTime
      /\ now' = now + 1 /\ UNCHANGED <<meta, lastPrice, held, at, tick, entered>>
      /\ signals' = [s \in Desk!Signals |-> IF signals[s].until > now' THEN signals[s] ELSE
            Desk!Forgotten]
  BY DEF DeskInv, DeskTyped, Desk!TypeOK, Desk!SignalDeskAssumption, Desk!Times, Desk!Passes
<1>1. now' \in Desk!Times
  BY <1>0 DEF Desk!Times
<1>2. Desk!Forgotten \in Memory
  BY <1>0 DEF Desk!Forgotten, Memory
<1>3. signals' \in [Desk!Signals -> Memory]
  BY <1>0, <1>2
<1>4. \A s \in Desk!Signals : signals'[s].until \in 0 .. (MaxTime + Ttl)
  BY <1>3 DEF Memory
<1>5. DeskTyped'
  BY <1>0, <1>1, <1>3, <1>4 DEF DeskTyped, Desk!TypeOK, Memory
<1>6. ASSUME NEW key \in Desk!Signals, NEW d \in Desk!Times, Windowed(key, d)
      PROVE  Windowed(key, d)'
  <2>1. d \in Nat /\ d <= now /\ (d + Ttl <= now \/ d + Ttl <= signals[key].until)
    BY <1>6 DEF Windowed, Desk!Times
  <2>2. signals[key].until \in Nat
    BY <1>0 DEF Memory
  <2>3. CASE signals[key].until > now'
    BY <1>0, <2>1, <2>3 DEF Windowed
  <2>4. CASE ~(signals[key].until > now')
    BY <1>0, <2>1, <2>2, <2>4 DEF Windowed
  <2> QED
    BY <2>3, <2>4
<1>7. \A x \in entered : x.key \in Desk!Signals /\ x.detected \in Desk!Times
  BY <1>0 DEF DeskTyped, Desk!TypeOK
<1>8. \A f \in Desk!Engines :
        /\ Seeing(f) \in Desk!Signals /\ tick[f].detected \in Desk!Times
        /\ Seeing(f)' = Seeing(f)
  <2>1. \A f \in Desk!Engines : Seeing(f) \in Desk!Signals /\ tick[f].detected \in Desk!Times
    BY <1>0, MineIs
  <2>2. \A f \in Desk!Engines : Seeing(f)' = Seeing(f)
    BY <1>0 DEF Seeing, Desk!Key
  <2> QED
    BY <2>1, <2>2
<1>9. \A x \in entered' : Windowed(x.key, x.detected)'
  BY <1>0, <1>6, <1>7 DEF DeskInv, WindowInv, Windowed
<1>10. ASSUME NEW f \in Desk!Engines, at[f] \in Planned
       PROVE  Windowed(Seeing(f), tick[f].detected)'
  <2> DEFINE m == Seeing(f)
             d == tick[f].detected
  <2>1. m \in Desk!Signals /\ d \in Desk!Times /\ Windowed(m, d)
    BY <1>8, <1>10 DEF DeskInv, WindowInv
  <2>2. d <= now' /\ (d + Ttl <= now' \/ d + Ttl <= signals'[m].until)
    <3> HIDE DEF m, d
    <3> QED
      BY <1>6, <2>1 DEF Windowed
  <2> QED
    BY <1>0, <1>8, <2>2 DEF Windowed
<1>11. WindowInv'
  BY <1>0, <1>8, <1>9, <1>10 DEF DeskInv, WindowInv
<1> QED
  BY <1>5, <1>11 DEF DeskInv

LEMMA NextDesk ==
    ASSUME Desk!SignalDeskAssumption, DeskInv, [Desk!Next]_(Desk!vars)
    PROVE  DeskInv'
<1>1. CASE UNCHANGED Desk!vars
  BY <1>1 DEF Desk!vars, DeskInv, DeskTyped, Desk!TypeOK, Memory, WindowInv, Windowed, Seeing,
              Desk!Key, Apart
<1>2. CASE Desk!Next
  BY <1>2, QuietDesk, DetectDesk, EnterDesk, PassesDesk DEF Desk!Next, Desk!Ticking
<1> QED
  BY <1>1, <1>2

\* Ticks, the map of signals and what was entered keep their types.
THEOREM DeskTypeCorrect == Desk!SignalDeskAssumption => (Desk!Spec => []Desk!TypeOK)
<1> SUFFICES ASSUME Desk!SignalDeskAssumption PROVE Desk!Spec => []Desk!TypeOK
  OBVIOUS
<1>1. Desk!Init => DeskInv
  BY InitDesk
<1>2. DeskInv /\ [Desk!Next]_(Desk!vars) => DeskInv'
  BY NextDesk
<1>3. DeskInv => Desk!TypeOK
  BY DEF DeskInv, DeskTyped
<1> QED
  BY <1>1, <1>2, <1>3, PTL DEF Desk!Spec

LEMMA EntryApart ==
    ASSUME DeskInv, NEW e \in Desk!Engines, Desk!Enter(e),
           NEW x \in entered, x.key = Desk!Entry(e).key
    PROVE  \/ x.detected + Ttl <= tick[e].detected
           \/ tick[e].detected + Ttl <= x.detected
BY DEF DeskInv, WindowInv, Desk!Enter, Planned, Desk!Entry, Seeing, Apart

\* isDuplicate: for any users and coins, a signal of a coin's candle that is entered was not
\* detected within a window of another entry of it, whatever ticks await in between.
THEOREM SignalOncePerWindow == Desk!SignalDeskAssumption => (Desk!Spec => Desk!OncePerWindow)
<1> SUFFICES ASSUME Desk!SignalDeskAssumption PROVE Desk!Spec => Desk!OncePerWindow
  OBVIOUS
<1>1. Desk!Init => DeskInv
  BY InitDesk
<1>2. DeskInv /\ [Desk!Next]_(Desk!vars) => DeskInv'
  BY NextDesk
<1>3. DeskInv => [\A e \in Desk!Engines : Desk!Enter(e) =>
          \A x \in entered : x.key = Desk!Entry(e).key =>
             \/ x.detected + Ttl <= tick[e].detected
             \/ tick[e].detected + Ttl <= x.detected]_(Desk!vars)
  BY EntryApart
<1> QED
  BY <1>1, <1>2, <1>3, PTL DEF Desk!Spec, Desk!OncePerWindow
----------------------------------------------------------------------------
(* MCChurn: a step is a step of one unit, or of none *)

LEMMA OneRuns ==
    [MCNext]_all => /\ [Next]_vars /\ [Desk!Next]_(Desk!vars) /\ [Single!Next]_(Single!vars)
<1>1. UNCHANGED all => UNCHANGED vars /\ UNCHANGED desk /\ UNCHANGED single
  BY DEF all
<1>2. /\ UNCHANGED desk => UNCHANGED Desk!vars
      /\ UNCHANGED single => UNCHANGED Single!vars
  BY DEF desk, single, Desk!vars, Single!vars
<1> QED
  BY <1>1, <1>2 DEF MCNext, Alone

ChurnInv == Base /\ Lives /\ RowsInv /\ DeskInv /\ SetupInv

LEMMA ChurnStarts == MCInit => ChurnInv
BY BaseInit, LivesInit, RowsInit, InitDesk, InitSetup, ChurnAssumption DEF MCInit, ChurnInv

LEMMA ChurnGoesOn == ChurnInv /\ [MCNext]_all => ChurnInv'
BY OneRuns, BaseStep, LivesStep, RowsStep, NextDesk, NextSetup, ChurnAssumption DEF ChurnInv

\* The engines of a coin, an engine by itself, and the ticks and signals of a strategy keep
\* their types.
THEOREM ChurnTyped == MCSpec => []TypesOK
<1>1. ChurnInv => TypesOK
  BY DEF ChurnInv, TypesOK, Base, DeskInv, DeskTyped, SetupInv
<1> QED
  BY <1>1, ChurnStarts, ChurnGoesOn, PTL DEF MCSpec

\* In the run's specification too, the engine that runs holds every open row of its strategy but
\* those it could not read when it started, nor since, whatever was stopped, restarted and adopted
\* before (start, _reconcileOpenPositionsFromDb).
THEOREM ChurnTracked == MCSpec => []RowsTracked
<1>1. ChurnInv => RowsTracked
  BY EngineShape DEF ChurnInv, RowsInv, RowsTracked, Tracked, Current
<1> QED
  BY <1>1, ChurnStarts, ChurnGoesOn, PTL DEF MCSpec

\* In the run's specification too, a close is booked once in live mode, though a tick, the last
\* pass of a stop and a later generation may all find it (_checkOpenPositions).
THEOREM ChurnBookedOnce == MCSpec => [](~dryRun => BookedOnce)
<1> DEFINE LiveInv == ChurnInv /\ (~dryRun => BooksInv)
<1>1. MCInit => LiveInv
  BY ChurnStarts, BooksInit DEF MCInit
<1>2. LiveInv /\ [MCNext]_all => LiveInv'
  BY OneRuns, ChurnGoesOn, BooksStep, ModeKept DEF ChurnInv
<1>3. LiveInv => (~dryRun => BookedOnce)
  BY DEF BooksInv, BookedOnce, Unbooked
<1> QED
  BY <1>1, <1>2, <1>3, PTL DEF MCSpec

\* A signal is not entered twice within its window, and a setup that lost is not entered again
\* on its candle.
THEOREM ChurnNotRepeated == MCSpec => NotRepeated
<1>1. ChurnInv /\ [MCNext]_all =>
         /\ [\A e \in Desk!Engines : Desk!Enter(e) =>
               \A x \in entered : x.key = Desk!Entry(e).key =>
                  \/ x.detected + Ttl <= tick[e].detected
                  \/ tick[e].detected + Ttl <= x.detected]_(Desk!vars)
         /\ [Single!Order => <<read.number, filtered>> \notin lost]_(Single!vars)
  BY OneRuns, EntryApart, OrderNew, ChurnAssumption DEF ChurnInv
<1> QED
  BY <1>1, ChurnStarts, ChurnGoesOn, PTL
     DEF MCSpec, NotRepeated, Desk!OncePerWindow, Single!LostSetupNotRepeated
=============================================================================
