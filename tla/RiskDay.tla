------------------------------- MODULE RiskDay -------------------------------
(***************************************************************************)
(* The limits of a day: engines count their trades, their loss and their   *)
(* losing streak, reset the counters at a tick of a new day, report the    *)
(* loss to the AccountCoordinator, and find the counters again in the      *)
(* trades table after a restart (BotEngine).  A BotEngine has a coin of    *)
(* its own; those of the adaptive kind (AdaptiveStrategyEngine), with a    *)
(* tick of their own, are the group of one coin.                           *)
(*                                                                         *)
(* A loss counts 1.  Fees, floating losses, the cooldown, which passes by  *)
(* itself, the age of a report, which is more than a day, and a later      *)
(* write of a row that could not be written are left out; that one         *)
(* position per coin is open is TradingGroup's.                            *)
(***************************************************************************)
EXTENDS Integers, FiniteSetsExt

CONSTANTS Engines,
          Kinds,                 \* which of them may be adaptive, a set of sets
          MaxTrades, MaxConsec, LossLimit,   \* of an engine
          AccountLimit,          \* of the account
          MaxRestarts            \* bound on restarts

\* What the constants are; assumed where the module is instantiated.
RiskDayAssumption ==
    /\ IsFiniteSet(Engines) /\ Kinds \subseteq SUBSET Engines
    /\ {MaxTrades, MaxConsec, LossLimit, AccountLimit} \subseteq Nat \ {0}
    /\ AccountLimit <= LossLimit    \* counters stay at LossLimit
    /\ MaxRestarts \in Nat

VARIABLES adaptive,  \* the engines with the tick of AdaptiveStrategyEngine
          counters,  \* engine -> its counters of the day
          old,       \* engine -> lastDayReset is another day
          report,    \* engine -> realizedLoss in riskByBot
          pc, stale, \* engine -> its tick; it began on another day
          holding,   \* engines that hold a position
          rows,      \* engine -> what the rows of its coin that were closed today add up to
          missed,    \* engines that closed a position today whose row could not be written
          done,      \* history: engine -> what it did today, in ticks of today and since the
                     \* last restart that did not find all of it in the rows
          restarts

vars == <<adaptive, counters, old, report, pc, stale, holding, rows, missed, done, restarts>>

Blank == [count |-> 0, loss |-> 0, streak |-> 0]

\* The gates only ask whether a limit is reached: a counter stays there.
UpTo(limit, n) == IF n > limit THEN limit ELSE n

\* Mutant: the streak alone.
LostStreak(c, lost) == [c EXCEPT !.streak = IF lost THEN UpTo(MaxConsec, @ + 1) ELSE 0]

\* _updateRiskAfterClose, and what getTodayRiskStats adds up in the same way.
Lost(c, lost) ==
    IF lost THEN [c EXCEPT !.loss = UpTo(LossLimit, @ + 1), !.streak = UpTo(MaxConsec, @ + 1)]
    ELSE [c EXCEPT !.streak = 0]

Counted(c) == [c EXCEPT !.count = UpTo(MaxTrades, @ + 1)]

\* The engines of its coin.
Mates(e) == IF e \in adaptive THEN adaptive ELSE {e}

Goto(e, at) == pc' = [pc EXCEPT ![e] = at]
----------------------------------------------------------------------------

\* _resetDailyIfNeeded is a call of BotEngine's own tick.
Tick(e) ==
    /\ pc[e] = "idle"
    /\ Goto(e, "monitor") /\ stale' = [stale EXCEPT ![e] = FALSE]
    /\ IF old[e] /\ e \notin adaptive
       THEN counters' = [counters EXCEPT ![e] = Blank] /\ old' = [old EXCEPT ![e] = FALSE]
       ELSE UNCHANGED <<counters, old>>
    /\ UNCHANGED <<adaptive, report, holding, rows, missed, done, restarts>>

\* The monitor closes the position, or finds nothing to do.  Where the row cannot be written
\* a dry run counts the close all the same; live it counts nowhere.
Monitor(e) ==
    /\ pc[e] = "monitor"
    /\ \/ /\ e \in holding
          /\ \E lost \in BOOLEAN :
                /\ counters' = [counters EXCEPT ![e] = Lost(@, lost)]
                /\ \/ /\ UNCHANGED missed
                      /\ rows' = [f \in Engines |->
                                    IF f \in Mates(e) THEN Counted(Lost(rows[f], lost)) ELSE rows[f]]
                   \/ /\ restarts < MaxRestarts     \* it only matters to a later restart
                      /\ missed' = missed \cup {e} /\ UNCHANGED rows
                /\ done' = IF stale[e] THEN done ELSE [done EXCEPT ![e] = Lost(@, lost)]
          /\ holding' = holding \ {e}
       \/ UNCHANGED <<counters, rows, missed, done>> /\ holding' \in {holding, holding \ {e}}
    /\ Goto(e, IF e \in adaptive THEN "gate" ELSE "report")
    /\ UNCHANGED <<adaptive, old, report, stale, restarts>>

\* The report to the coordinator is, too.
Report(e) ==
    /\ pc[e] = "report"
    /\ Goto(e, "gate")
    /\ report' = [report EXCEPT ![e] = counters[e].loss]
    /\ UNCHANGED <<adaptive, counters, old, stale, holding, rows, missed, done, restarts>>

\* checkEntryRiskGates
Blocked(e) ==
    \/ counters[e].streak >= MaxConsec
    \/ counters[e].count >= MaxTrades
    \/ counters[e].loss >= LossLimit

\* canTradeAccount
AccountBlocked == MapThenSumSet(LAMBDA e : report[e], Engines) >= AccountLimit

\* _checkRiskGates, when there is a signal.
Gate(e) ==
    /\ pc[e] = "gate"
    /\ \/ ~Blocked(e) /\ ~AccountBlocked /\ Goto(e, "enter")
       \/ Goto(e, "idle")
    /\ UNCHANGED <<adaptive, counters, old, report, stale, holding, rows, missed, done, restarts>>

\* _handleSignal counts the trade before its order, which may fail.
Enter(e) ==
    /\ pc[e] = "enter"
    /\ IF holding \cap Mates(e) = {}
       THEN /\ counters' = [counters EXCEPT ![e] = Counted(@)]
            /\ done' = IF stale[e] THEN done ELSE [done EXCEPT ![e] = Counted(@)]
            /\ holding' \in {holding \cup {e}, holding}
       ELSE UNCHANGED <<counters, done, holding>>
    /\ Goto(e, "idle")
    /\ UNCHANGED <<adaptive, old, report, stale, rows, missed, restarts>>

\* Midnight (UTC).
NewDay ==
    /\ old' = [e \in Engines |-> TRUE] /\ stale' = [e \in Engines |-> pc[e] # "idle"]
    /\ rows' = [e \in Engines |-> Blank] /\ done' = [e \in Engines |-> Blank] /\ missed' = {}
    /\ UNCHANGED <<adaptive, counters, report, pc, holding, restarts>>

\* A restart at which the engines of unread cannot read their rows, but for the day of the
\* counters.
Restarted(unread) ==
    /\ restarts < MaxRestarts /\ restarts' = restarts + 1
    /\ counters' = [e \in Engines |-> IF e \in unread THEN Blank ELSE rows[e]]
    /\ report' = [e \in Engines |-> 0]
    /\ pc' = [e \in Engines |-> "idle"] /\ stale' = [e \in Engines |-> FALSE]
    /\ done' = [e \in Engines |-> IF e \in unread \cup missed THEN Blank ELSE done[e]]
    /\ missed' = {}
    /\ UNCHANGED <<adaptive, holding, rows>>

\* Mutant: the day of the counters is not restored with them.
RestartUndated ==
    \E unread \in SUBSET Engines : Restarted(unread) /\ old' = [e \in Engines |-> TRUE]

\* The process starts again, with a new coordinator: each engine takes the rows of its coin
\* for its counters; where they cannot be read it goes on with none, of no day.
Restart ==
    \E unread \in SUBSET Engines :
        Restarted(unread) /\ old' = [e \in Engines |-> e \in unread]
----------------------------------------------------------------------------
Init ==
    /\ adaptive \in Kinds
    /\ counters = [e \in Engines |-> Blank] /\ old = [e \in Engines |-> FALSE]
    /\ report = [e \in Engines |-> 0]
    /\ pc = [e \in Engines |-> "idle"] /\ stale = [e \in Engines |-> FALSE]
    /\ holding = {} /\ rows = [e \in Engines |-> Blank] /\ done = [e \in Engines |-> Blank]
    /\ missed = {} /\ restarts = 0

Ticking(e) == Tick(e) \/ Monitor(e) \/ Report(e) \/ Gate(e) \/ Enter(e)

Next == (\E e \in Engines : Ticking(e)) \/ NewDay \/ Restart

\* The engines tick, and the days pass.
Fairness == WF_vars(NewDay) /\ \A e \in Engines : WF_vars(Ticking(e))

Spec == Init /\ [][Next]_vars /\ Fairness
----------------------------------------------------------------------------
(* Properties *)

\* In all counters a losing streak is part of the day's loss.
TypeOK ==
    LET Day == [count : 0..MaxTrades, loss : 0..LossLimit, streak : 0..MaxConsec] IN
    /\ adaptive \in Kinds
    /\ counters \in [Engines -> Day] /\ rows \in [Engines -> Day] /\ done \in [Engines -> Day]
    /\ \A e \in Engines : \A c \in {counters[e], rows[e]} : MaxConsec <= LossLimit => c.streak <= c.loss
    /\ report \in [Engines -> 0..LossLimit]
    /\ old \in [Engines -> BOOLEAN] /\ stale \in [Engines -> BOOLEAN]
    /\ pc \in [Engines -> {"idle", "monitor", "report", "gate", "enter"}]
    /\ holding \subseteq Engines /\ missed \subseteq Engines /\ restarts \in 0..MaxRestarts

Admitted(e) == pc[e] = "gate" /\ pc'[e] = "enter"

\* The engines whose report is that of their last tick.
Told == {f \in Engines \ adaptive : pc[f] \notin {"monitor", "report"}}

InLimits(e) ==
    /\ done[e].loss < LossLimit
    /\ restarts = 0 =>
          /\ done[e].count < MaxTrades /\ done[e].streak < MaxConsec
          /\ MapThenSumSet(LAMBDA f : done[f].loss, Told) < AccountLimit

\* What an engine booked as lost today keeps it out once it reaches its limit, however often
\* the process started over, as long as the rows of it could be written and read. Without a
\* restart the same holds, whatever the table does, for the trades of the day, for a losing
\* streak, and for what the engines that report had booked by their last ticks, although
\* counters are reset by a tick and ticks run over midnight.
LimitsHold == [][\A e \in Engines : Admitted(e) => InLimits(e)]_vars

\* The same of every engine.
DayReleases == \A e \in Engines : Blocked(e) ~> ~Blocked(e)

\* The counts are not lifted by a restart either.
CountsSurvive ==
    [][\A e \in Engines : Admitted(e)
          => done[e].count < MaxTrades /\ done[e].streak < MaxConsec]_vars

\* Nor is the loss, even where the rows cannot be read.
LossSurvives == [][\A e \in Engines : Admitted(e) => rows[e].loss < LossLimit]_vars

\* The account's limit counts the losses of all engines.
AccountSeesAll ==
    [][\A e \in Engines : Admitted(e) /\ restarts = 0
          => MapThenSumSet(LAMBDA f : done[f].loss,
                           {f \in Engines : pc[f] \notin {"monitor", "report"}}) < AccountLimit]_vars
=============================================================================
