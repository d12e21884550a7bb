------------------------------ MODULE LegReplay -------------------------------
(***************************************************************************)
(* The replay of a strategy that trades several types (Scalping, Intraday, *)
(* Swing: the legs) over the same coin, each with a position of its own.   *)
(* On one set of candles the legs share the limits of the day              *)
(* (_runMultiPositionBacktest); a triple-timeframe run replays each leg    *)
(* by itself and merges the trades ("apart").                              *)
(*                                                                         *)
(* One distance R for all legs: gains are tenths of it, at the close of    *)
(* the last bar, and a bar is how far it goes from there.  Signals come as *)
(* they like; fees, slippage and the growth of the capital are left out.   *)
(***************************************************************************)
EXTENDS Integers, FiniteSetsExt

CONSTANTS Legs,                             \* how many, asked for entries in this order
          Modes,                            \* sets of settings: {"partial", "apart", "timed"}
          MaxTrades, MaxConsec, LossLimit,  \* of a day
          BarsPerDay, Cooldown, MaxHold,
          HeldLegs                          \* the legs with a time stop, in "timed"

\* What the constants are; assumed where the module is instantiated.
LegReplayAssumption ==
    /\ Modes \subseteq SUBSET {"partial", "apart", "timed"}
    /\ {Legs, MaxTrades, MaxConsec, LossLimit, BarsPerDay} \subseteq Nat \ {0}
    /\ {Cooldown, MaxHold} \subseteq Nat /\ HeldLegs \subseteq 1..Legs

Size   == 40
Risk   == 10 * Size
Target == 30
Moves  == {-15, -5, 5, 15}

VARIABLES mode,
          turn,      \* the leg whose signal is looked at; 0 between bars
          hour,      \* bars of the day so far
          day,       \* dailyTradeCount and dailyLoss, of each replay
          streak,    \* componentConsecLoss
          cool,      \* bars of componentCooldown left
          positions

vars == <<mode, turn, hour, day, streak, cool, positions>>

All == 1..Legs

\* The replay that has leg l: all of them are in one, or each in its own.
Book(l) == IF "apart" \in mode THEN l ELSE 1

NewDay == [trades |-> 0, loss |-> 0]
Flat == [side |-> "none", gain |-> 0, sl |-> -10, remaining |-> 0, m |-> 0, age |-> 0]
Opened(side) == [Flat EXCEPT !.side = side, !.remaining = Size]

Open(l) == positions[l].side # "none"

\* What a move of the price means to a position.
Gain(p, move) == IF p.side = "LONG" THEN p.gain + move ELSE p.gain - move
----------------------------------------------------------------------------
Bars == {b \in [low : Moves, high : Moves, close : Moves] : b.low <= b.close /\ b.close <= b.high}

Best(p, b)  == IF p.side = "LONG" THEN Gain(p, b.high) ELSE Gain(p, b.low)
Worst(p, b) == IF p.side = "LONG" THEN Gain(p, b.low) ELSE Gain(p, b.high)

\* A milestone moves the stop loss and takes its part off, if that leaves some.
Step(p, m, part, sl) == [p EXCEPT !.m = m, !.sl = sl, !.remaining = IF part < @ THEN @ - part ELSE @]

\* checkPartialMilestones: both in one bar, if it goes that far.
Climbed(p, b) ==
    LET one == IF p.m = 0 /\ Best(p, b) >= 10 THEN Step(p, 1, (Size * 2) \div 5, 3) ELSE p
        two == IF one.m = 1 /\ Best(p, b) >= 20
               THEN Step(one, 2, Min({(Size * 11) \div 40, (one.remaining * 9) \div 10}), 10) ELSE one
    IN IF "partial" \in mode THEN two ELSE p

\* A leg may be held no longer than so many hours when its type has such a setting (Scalping
\* takes that of the strategy); the hours of the others are not counted.
Timed(l)   == "timed" \in mode /\ l \in HeldLegs
Aged(l, p) == IF Timed(l) THEN [p EXCEPT !.age = @ + 1] ELSE p

\* Where the bar ends the position: its time is up, stop loss, target; or nowhere.
Exits(l, p, b) ==
    IF Timed(l) /\ p.age > MaxHold THEN {Gain(p, b.close)}
    ELSE IF Worst(p, b) <= p.sl THEN {p.sl}
    ELSE IF Best(p, b) >= Target THEN {Target} ELSE {}

\* closePosition: what it loses.
Lost(l, p, b) == SumSet({IF at < 0 THEN -at * p.remaining ELSE 0 : at \in Exits(l, p, b)})

\* The next bar: a new day clears counters and streaks, but not the cooldowns; then each
\* position climbs and, perhaps, ends.
Bar(b) ==
    LET new == hour = BarsPerDay - 1
        at  == [l \in All |-> Climbed(Aged(l, positions[l]), b)]
        out == {l \in All : Open(l) /\ Exits(l, at[l], b) # {}}
        bad == {l \in out : Lost(l, at[l], b) > 0}
        base == IF new THEN [r \in All |-> NewDay] ELSE day IN
    /\ turn = 0 /\ turn' = 1
    /\ hour' = (hour + 1) % BarsPerDay
    /\ positions' = [l \in All |->
          IF l \in out \/ ~Open(l) THEN Flat
          ELSE [at[l] EXCEPT !.gain = Gain(at[l], b.close)]]
    /\ day' = [r \in All |-> [base[r] EXCEPT !.loss = @
                 + MapThenSumSet(LAMBDA l : Lost(l, at[l], b), {l \in bad : Book(l) = r})]]
    /\ streak' = [l \in All |-> IF l \in bad THEN (IF new THEN 0 ELSE streak[l]) + 1
                                ELSE IF l \in out \/ new THEN 0 ELSE streak[l]]
    /\ cool' = [l \in All |-> IF l \in bad THEN Cooldown ELSE Max({cool[l] - 1, 0})]
    /\ UNCHANGED mode

\* What the positions of leg l's replay would lose at the price.
Floating(l) ==
    MapThenSumSet(LAMBDA k : Max({0, -positions[k].gain}) * positions[k].remaining,
                  {k \in All : Book(k) = Book(l)})

\* Mutant: the limits of the count and the streak are the only ones.
GatesBlind(l) ==
    /\ ~Open(l) /\ cool[l] = 0 /\ streak[l] < MaxConsec
    /\ day[Book(l)].trades < MaxTrades

\* The gates of a leg: its own position, cooldown and streak, and the day of its replay.
Gates(l) ==
    /\ ~Open(l) /\ cool[l] = 0 /\ streak[l] < MaxConsec
    /\ day[Book(l)].trades < MaxTrades
    /\ day[Book(l)].loss + Floating(l) < LossLimit

\* The next leg is asked, or the bar is over.
Turn == turn' = IF turn = Legs THEN 0 ELSE turn + 1

\* No signal, no trend to judge it by, or a regime that forbids it.
NoSignal == turn # 0 /\ Turn /\ UNCHANGED <<mode, hour, day, streak, cool, positions>>

\* A signal the gates let through is opened at the close of the bar.
Opens(side) ==
    /\ turn # 0 /\ Gates(turn) /\ Turn
    /\ positions' = [positions EXCEPT ![turn] = Opened(side)]
    /\ day' = [day EXCEPT ![Book(turn)].trades = @ + 1]
    /\ UNCHANGED <<mode, hour, streak, cool>>
----------------------------------------------------------------------------
Init ==
    /\ mode \in Modes /\ turn = 0 /\ hour = 0
    /\ day = [l \in All |-> NewDay]
    /\ streak = [l \in All |-> 0] /\ cool = [l \in All |-> 0]
    /\ positions = [l \in All |-> Flat]

Next ==
    \/ \E b \in Bars : Bar(b)
    \/ NoSignal
    \/ \E side \in {"LONG", "SHORT"} : Opens(side)

Spec == Init /\ [][Next]_vars
----------------------------------------------------------------------------
(* Properties *)

TypeOK ==
    /\ mode \in Modes /\ turn \in 0..Legs /\ hour \in 0..(BarsPerDay - 1)
    /\ day \in [All -> [trades : 0..MaxTrades, loss : Nat]]
    /\ streak \in [All -> Nat] /\ cool \in [All -> 0..Cooldown]
    /\ positions \in [All -> [side : {"none", "LONG", "SHORT"}, gain : -9..(Target - 1),
                              sl : {-10, 3, 10}, remaining : 0..Size, m : 0..2,
                              age : 0..(MaxHold + 1)]]

\* What the open positions of replay r can still lose at their stop losses.
AtRisk(r) ==
    MapThenSumSet(LAMBDA l : Max({0, -positions[l].sl}) * positions[l].remaining,
                  {l \in All : Book(l) = r})

\* However the entries of the legs follow each other, and whatever was open when the day
\* began: a replay never has more lost and at stake than the limit of the day and one full
\* loss of each leg. (With a time stop it may, since that is asked before the stop loss.)
LossBounded ==
    "timed" \notin mode =>
        \A r \in All : day[r].loss + AtRisk(r)
                          < LossLimit + Risk * Cardinality({l \in All : Book(l) = r})

\* With a time stop as well.
LossBoundedTimed ==
    \A r \in All : day[r].loss + AtRisk(r)
                      < LossLimit + Risk * Cardinality({l \in All : Book(l) = r})

\* "Capital is shared across types (concurrent risk)": the limits of the day hold for the
\* legs together.
SharedLimits == MapThenSumSet(LAMBDA l : day[l].trades, All) <= MaxTrades
=============================================================================
