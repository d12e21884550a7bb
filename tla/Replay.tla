------------------------------- MODULE Replay --------------------------------
(***************************************************************************)
(* The replay of a strategy over stored candles, one position at a time    *)
(* (RealStrategyBacktestService): what a bar does to the open position, to *)
(* the order waiting for a retest and to the limits of the day, in the     *)
(* order the loop takes them.                                              *)
(*                                                                         *)
(* Prices are gains of the open position in tenths of R; a waiting order   *)
(* knows of a bar whether it touches its limit and whether it runs on to   *)
(* the stop.  Signals come as they like; fees and the size of the capital  *)
(* are left out, and candles do not run out.                               *)
(***************************************************************************)
EXTENDS Integers

CONSTANTS Modes,                            \* sets of settings: {"partial", "retest"}
          MaxTrades, MaxConsec, LossLimit,  \* of a day
          BarsPerDay, Cooldown, Ttl, MaxHold

\* What the constants are; assumed where the module is instantiated.
ReplayAssumption ==
    /\ Modes \subseteq SUBSET {"partial", "retest"}
    /\ {MaxTrades, MaxConsec, LossLimit, BarsPerDay} \subseteq Nat \ {0}
    /\ {Cooldown, Ttl, MaxHold} \subseteq Nat

Size   == 40
Stop   == -10
Target == 30
Gains  == {-15, 0, 5, 15, 25, 30}

VARIABLES mode, phase,
          bar,       \* the candle, and the stop loss it met
          hour,      \* bars of the day so far
          day,       \* dailyTradeCount, dailyLoss, consecLoss
          cool,      \* bars of the cooldown left
          position,
          pending,   \* the order of a retest
          booked     \* size of the trades of the last position

vars == <<mode, phase, bar, hour, day, cool, position, pending, booked>>

Flat  == [open |-> FALSE, sl |-> Stop, remaining |-> 0, m |-> [k \in 1..2 |-> FALSE], age |-> 0]
Fresh == [Flat EXCEPT !.open = TRUE, !.remaining = Size]
NoBar == [low |-> 0, high |-> 0, close |-> 0, stop |-> Stop, touched |-> FALSE, through |-> FALSE]
NoOrder == [on |-> FALSE, ttl |-> 0]
NewDay  == [trades |-> 0, loss |-> 0, streak |-> 0]

Least(x, y) == IF x < y THEN x ELSE y
----------------------------------------------------------------------------
\* Candles that mean the same to what is open, or waiting.
Candles ==
    IF position.open
    THEN {b \in [low : Gains, high : Gains, close : Gains, stop : {position.sl},
                 touched : {FALSE, pending.on}, through : {FALSE}] : b.low <= b.close /\ b.close <= b.high}
    ELSE {b \in [low : {0}, high : {0}, close : {0}, stop : {Stop},
                 touched : {FALSE, pending.on}, through : BOOLEAN] : b.through => b.touched}

Rolled(d) == NewDay

\* The next bar, with the day's counters reset at the first one of a day.
NextBar ==
    /\ phase = "bar"
    /\ bar' \in Candles
    /\ hour' = (hour + 1) % BarsPerDay
    /\ day' = IF hour' = 0 THEN Rolled(day) ELSE day
    /\ cool' = IF cool > 0 THEN cool - 1 ELSE 0
    /\ position' = IF position.open THEN [position EXCEPT !.age = @ + 1] ELSE position
    /\ pending' = IF pending.on THEN [pending EXCEPT !.ttl = @ - 1] ELSE pending
    /\ phase' = IF position.open THEN "milestones" ELSE "pending"
    /\ UNCHANGED <<mode, booked>>

\* A milestone takes its part off, if that leaves some, and moves the stop loss.
Climbed(p, k, part, sl) ==
    IF p.m[k] \/ bar.high < 10 * k \/ (k = 2 /\ ~p.m[1]) THEN p
    ELSE [p EXCEPT !.m[k] = TRUE, !.sl = sl, !.remaining = IF part < @ THEN @ - part ELSE @]

\* Mutant: the parts are traded, the position keeps them.
MilestonesKeeping ==
    /\ phase = "milestones"
    /\ LET p == IF "partial" \in mode THEN Climbed(position, 1, (Size * 2) \div 5, 3) ELSE position IN
       /\ position' = [p EXCEPT !.remaining = position.remaining]
       /\ booked' = booked + (position.remaining - p.remaining)
    /\ phase' = "exit"
    /\ UNCHANGED <<mode, bar, hour, day, cool, pending>>

\* checkPartialMilestones: both milestones in one bar, if it goes that far.
Milestones ==
    /\ phase = "milestones"
    /\ LET one == Climbed(position, 1, (Size * 2) \div 5, 3)
           two == Climbed(one, 2, Least((Size * 11) \div 40, (one.remaining * 9) \div 10), 10)
           p   == IF "partial" \in mode THEN two ELSE position IN
       /\ position' = p
       /\ booked' = booked + (position.remaining - p.remaining)
    /\ phase' = "exit"
    /\ UNCHANGED <<mode, bar, hour, day, cool, pending>>

\* closePosition, with the result of what was left.
Closes(at, size, taken) ==
    LET gain == at * size IN
    /\ day' = IF gain < 0 THEN [taken EXCEPT !.loss = @ - gain, !.streak = @ + 1]
              ELSE [taken EXCEPT !.streak = 0]
    /\ cool' = IF gain < 0 THEN Cooldown ELSE cool
    /\ position' = Flat

\* A position held too long goes at the market, before its stop loss or target is asked.
Exit ==
    /\ phase = "exit"
    /\ LET late == position.age > MaxHold IN
       \/ late /\ Closes(bar.close, position.remaining, day)
       \/ ~late /\ bar.low <= position.sl /\ Closes(position.sl, position.remaining, day)
       \/ /\ ~late /\ bar.low > position.sl /\ bar.high >= Target
          /\ Closes(Target, position.remaining, day)
       \/ /\ ~late /\ bar.low > position.sl /\ bar.high < Target
          /\ UNCHANGED <<day, cool, position>>
    /\ booked' = booked + (position.remaining - position'.remaining)
    /\ phase' = IF position'.open THEN "bar" ELSE "pending"
    /\ UNCHANGED <<mode, bar, hour, pending>>

Opened == [day EXCEPT !.trades = @ + 1]

\* Mutant: the fill does not take the order away.
FillsAgain ==
    /\ phase = "pending" /\ pending.on /\ pending.ttl >= 0 /\ bar.touched
    /\ day' = Opened /\ position' = Fresh /\ booked' = 0 /\ UNCHANGED cool
    /\ phase' = "bar"
    /\ UNCHANGED <<mode, bar, hour, pending>>

\* The retest: filled at its limit, and stopped in the same bar if that runs on.
Fills ==
    /\ phase = "pending" /\ pending.on /\ pending.ttl >= 0 /\ bar.touched
    /\ IF bar.through THEN Closes(Stop, Size, Opened) /\ booked' = Size
       ELSE day' = Opened /\ position' = Fresh /\ booked' = 0 /\ UNCHANGED cool
    /\ pending' = NoOrder
    /\ phase' = "bar"
    /\ UNCHANGED <<mode, bar, hour>>

\* The order waits on, or has waited long enough.
Waits ==
    /\ phase = "pending" /\ ~(pending.on /\ pending.ttl >= 0 /\ bar.touched)
    /\ pending' = IF pending.ttl < 0 THEN NoOrder ELSE pending
    /\ phase' = "signal"
    /\ UNCHANGED <<mode, bar, hour, day, cool, position, booked>>

\* The limits of the day and the cooldown, when there is a signal.
Gates == cool = 0 /\ day.streak < MaxConsec /\ day.trades < MaxTrades /\ day.loss < LossLimit

NoSignal == phase = "signal" /\ phase' = "bar"
            /\ UNCHANGED <<mode, bar, hour, day, cool, position, pending, booked>>

\* The latest signal takes the place of an order that waits.
Signal ==
    /\ phase = "signal" /\ Gates
    /\ IF "retest" \in mode
       THEN pending' = [on |-> TRUE, ttl |-> Ttl] /\ UNCHANGED <<day, position, booked>>
       ELSE day' = Opened /\ position' = Fresh /\ booked' = 0 /\ UNCHANGED pending
    /\ phase' = "bar"
    /\ UNCHANGED <<mode, bar, hour, cool>>
----------------------------------------------------------------------------
Init ==
    /\ mode \in Modes /\ phase = "bar" /\ bar = NoBar
    /\ hour = 0 /\ day = NewDay /\ cool = 0
    /\ position = Flat /\ pending = NoOrder /\ booked = Size

Next == NextBar \/ Milestones \/ Exit \/ Fills \/ Waits \/ NoSignal \/ Signal

\* The loop goes on.
Fairness == WF_vars(Next)

Spec == Init /\ [][Next]_vars /\ Fairness
----------------------------------------------------------------------------
(* Properties *)

\* The position does not outlive its time stop by more than a bar, nor the order its Ttl;
\* the trades of a position, its parts and its rest, add up to it at every moment.
TypeOK ==
    /\ mode \in Modes /\ phase \in {"bar", "milestones", "exit", "pending", "signal"}
    /\ bar \in [low : Gains, high : Gains, close : Gains, stop : {Stop, 3, 10},
                touched : BOOLEAN, through : BOOLEAN]
    /\ hour \in 0..(BarsPerDay - 1) /\ cool \in 0..Cooldown
    /\ day \in [trades : 0..MaxTrades, loss : Nat, streak : 0..MaxConsec]
    /\ position \in [open : BOOLEAN, sl : {Stop, 3, 10}, remaining : 0..Size,
                     m : [1..2 -> BOOLEAN], age : 0..(MaxHold + 1)]
    /\ pending \in [on : BOOLEAN, ttl : -1..Ttl] /\ booked + position.remaining = Size

Opens == day'.trades > day.trades \/ (position'.open /\ ~position.open)

\* A waiting order is filled without a look at the limits: they hold all the same, since
\* nothing can be lost while it waits.
FillWithinLimits ==
    [][Opens => cool = 0 /\ day.streak < MaxConsec /\ day'.trades <= MaxTrades
                /\ day.loss < LossLimit]_vars

\* "SL checked first": a bar that reaches the stop loss has not moved it before.
StopFirst == phase = "exit" /\ bar.low <= bar.stop => position.sl = bar.stop
=============================================================================
