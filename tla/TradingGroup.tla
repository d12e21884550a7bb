---------------------------- MODULE TradingGroup ----------------------------
(***************************************************************************)
(* The engines MultiStrategyCoordinator runs on each coin, one per         *)
(* strategy (AdaptiveStrategyEngine over BotEngine), with the exchange,    *)
(* the trades table and the user's AccountCoordinator.                     *)
(*                                                                         *)
(* An engine is <<coin, strategy, generation>>: every start of a coin      *)
(* builds new engine objects, and a tick of an old object may still be     *)
(* awaiting something when the new ones run.  Each engine has two threads  *)
(* of control, its chained tick and its stop(); a step is the code between *)
(* two awaits.  What a step reads at one await and uses after the next is  *)
(* carried in pc, signal, gone and todo.                                   *)
(*                                                                         *)
(* Trades are numbered as they are opened.  In live mode a trade is open   *)
(* while the exchange holds it; in dry-run mode it is open until the       *)
(* price reaches its SL or TP.                                             *)
(***************************************************************************)
EXTENDS Naturals, FiniteSets, Sequences

CONSTANTS Symbols, Strategies, Legacy, Margins, Equities, UtilNum, UtilDen,
          MaxConcurrent,     \* as in AccountCoordinator
          GroupCapital,      \* capital of a coin's bot
          AccountCap,        \* maxAccountOpenPositions, 0 = no cap
          DryRuns,           \* modes the bots of the account may be in, see dryRun
          Events,            \* what may happen around the engines, see EventKinds
          MaxTrades,         \* bound on trades opened in a behaviour
          MaxGenerations     \* bound on starts of a coin

EventKinds == {"stop",         \* the user stops the coin's bot
               "restart",      \* and starts it again
               "repost",       \* POST /start while the bot runs
               "insert_fails", \* insertTrade throws
               "close_fails",  \* closeTrade throws
               "order_fails",  \* the exchange rejects an order
               "sl_fails",     \* no stop loss could be attached
              "reads_fail"}   \* a read of the exchange or of the database throws

ASSUME TradingGroupAssumption ==
    /\ DryRuns \subseteq BOOLEAN /\ DryRuns # {}
    /\ Events \subseteq EventKinds
    /\ GroupCapital \in Margins
    /\ Margins \subseteq Nat /\ Equities \subseteq Nat
    /\ Strategies # {} /\ IsFiniteSet(Strategies)
    /\ {AccountCap, MaxTrades} \subseteq Nat /\ MaxGenerations \in Nat \ {0}

VARIABLES reservations, accountEquity,   \* AccountCoordinator
          pc, signal, gone, todo,        \* threads
          engines,                       \* state of the engine objects
          generation, phase,             \* MultiStrategyCoordinator of each coin
          dryRun,                        \* mode of every bot of the account
          trades                         \* exchange position and row of each trade

coordinator == <<reservations, accountEquity>>
threads     == <<pc, signal, gone, todo>>
vars        == <<coordinator, threads, engines, generation, phase, dryRun, trades>>

\* Its history of sides is not kept here.
Coordinator    == INSTANCE AccountCoordinator WITH Capitals <- Margins, origin <- <<>>
WithEquity(q)  == INSTANCE AccountCoordinator
                     WITH accountEquity <- q, Capitals <- Margins, origin <- <<>>

Sides    == {"LONG", "SHORT"}
TradeIds == 1..MaxTrades
Engines  == Symbols \X Strategies \X (1..MaxGenerations)
Threads  == Engines \X {"tick", "stop"}
Tick(e)  == <<e, "tick">>
Stop(e)  == <<e, "stop">>

Coin(e)   == e[1]
BotKey(e) == <<e[1], e[2]>>
Current(s) == {e \in Engines : Coin(e) = s /\ e[3] = generation[s]}

\* An engine object; openPositions holds trade numbers.  History: unseen are the rows that
\* were open when it started and could not be read, neither then nor since.
Engine == [running : BOOLEAN, stopRequested : BOOLEAN, session : BOOLEAN,
           openPositions : SUBSET TradeIds, unseen : SUBSET TradeIds]
Fresh  == [running |-> FALSE, stopRequested |-> FALSE, session |-> FALSE,
           openPositions |-> {}, unseen |-> {}]

\* A trade: its engine, whether it is still open in the market, its row in the
\* trades table, and how often its result was added to stats and risk counters.
Trade == [owner : Engines, side : Sides, open : BOOLEAN,
          row : {"none", "open", "closed"}, booked : 0..2]

Labels == {"off", "idle", "monitor", "sync", "book", "decide", "gate", "cap", "reserve",
           "order", "protect", "emergency", "insert", "finish", "session", "done"}

Opened     == DOMAIN trades
NextTrade  == Len(trades) + 1
OpenSides(s) == {trades[n].side : n \in {m \in Opened : trades[m].open
                                                     /\ Coin(trades[m].owner) = s}}
Rows(s)    == {n \in Opened : trades[n].row = "open" /\ Coin(trades[n].owner) = s}
OwnRows(e) == {n \in Opened : trades[n].row = "open" /\ BotKey(trades[n].owner) = BotKey(e)}
----------------------------------------------------------------------------
At(th, label)   == pc[th] = label
Goto(th, label) == pc' = [pc EXCEPT ![th] = label]

\* openPosition, or the dry-run position object, creates the next trade.
Opens(e) ==
    trades' = Append(trades, [owner |-> e, side |-> signal[e], open |-> TRUE,
                              row |-> "none", booked |-> 0])

\* The trade the tick of e is opening: its newest.
Opening(e) == CHOOSE n \in Opened :
                 trades[n].owner = e /\ \A m \in Opened : trades[m].owner = e => m <= n

\* Mutant: the reservation is given back although positions remain.
ReleaseAlways(e, kept) == reservations' = Coordinator!Released(BotKey(e))

\* Mutant: the close of the last position keeps its reservation.
ReleaseNever(e, kept) == UNCHANGED reservations

\* _releaseMarginIfFlat, given the positions the engine keeps.
ReleaseIfFlat(e, kept) ==
    reservations' = IF kept = {} THEN Coordinator!Released(BotKey(e)) ELSE reservations
----------------------------------------------------------------------------
(* Tick: entry guard, then reconcile and monitor. *)

TickBegin(e) ==
    /\ At(Tick(e), "idle")
    /\ engines[e].running /\ ~engines[e].stopRequested
    /\ Goto(Tick(e), "monitor")
    /\ UNCHANGED <<coordinator, signal, gone, todo, engines, generation, phase, dryRun, trades>>

\* _reconcileOpenPositionsFromDb: rows of this strategy the engine does not hold,
\* in live mode only those whose side is still on the exchange.  Skipped once a
\* stop was requested, and throttled, and its reads may fail: then it finds nothing.
Reconciled(e) ==
    {n \in OwnRows(e) : dryRun \/ trades[n].side \in OpenSides(Coin(e))}

Reconcile(th) ==
    LET e == th[1] IN
    /\ At(th, "monitor")
    /\ \E read \in {FALSE, engines[e].running /\ ~engines[e].stopRequested} :
          LET held == engines[e].openPositions \cup IF read THEN Reconciled(e) ELSE {} IN
          /\ engines' = [engines EXCEPT ![e].openPositions = held,
                                        ![e].unseen = IF read THEN {} ELSE @]
          /\ Goto(th, IF held # {} THEN "sync" ELSE IF th[2] = "tick" THEN "decide" ELSE "finish")
    /\ UNCHANGED <<coordinator, signal, gone, todo, generation, phase, dryRun, trades>>

\* _checkOpenPositions: the sides missing from the exchange (in dry-run, the trades
\* the price has closed), and the positions to book for them.
Sync(th) ==
    LET e == th[1]
        missing == Sides \ OpenSides(Coin(e))
        closed  == {n \in engines[e].openPositions :
                       IF dryRun THEN ~trades[n].open ELSE trades[n].side \in missing} IN
    /\ At(th, "sync")
    /\ gone' = [gone EXCEPT ![th] = IF dryRun THEN closed ELSE missing]
    /\ todo' = [todo EXCEPT ![th] = closed]
    /\ Goto(th, "book")
    /\ UNCHANGED <<coordinator, signal, engines, generation, phase, dryRun, trades>>

\* getPositions throws: the pass goes on with the local state, that is, it ends.
SyncFails(th) ==
    /\ At(th, "sync") /\ "reads_fail" \in Events /\ ~dryRun
    /\ Goto(th, IF th[2] = "stop" THEN "finish" ELSE "idle")
    /\ UNCHANGED <<coordinator, signal, gone, todo, engines, generation, phase, dryRun, trades>>

\* closeTrade takes effect only on an open row.  Live books the result only when it
\* did, or when there is no row; dry-run books it whatever closeTrade answered.
Count(b) == IF b < 2 THEN b + 1 ELSE b

\* Mutants: the result is booked whether or not closeTrade applied; the row is left open.
BookedAlways(n, applied) ==
    [trades EXCEPT ![n].row = IF applied THEN "closed" ELSE @, ![n].booked = Count(@)]

BookedNoRow(n, applied) == [trades EXCEPT ![n].booked = Count(@)]

Booked(n, applied) ==
    [trades EXCEPT ![n].row = IF applied THEN "closed" ELSE @,
                   ![n].booked = IF dryRun \/ applied \/ trades[n].row = "none"
                                 THEN Count(@) ELSE @]

Book(th) ==
    /\ At(th, "book")
    /\ \E n \in todo[th], fails \in {FALSE, "close_fails" \in Events} :
          /\ trades' = Booked(n, /\ ~fails
                                 /\ trades[n].row = "open"
                                 /\ dryRun => engines[th[1]].session)
          /\ todo' = [todo EXCEPT ![th] = @ \ {n}]
    /\ UNCHANGED <<coordinator, pc, signal, gone, engines, generation, phase, dryRun>>

\* The pass ends: in live every position of a missing side leaves the state, one that
\* was opened during the pass included; in dry-run the closed ones.  Only the live
\* path gives the reservation of a flat engine back.
PassEnd(th) ==
    LET e == th[1]
        kept == {n \in engines[e].openPositions :
                    (IF dryRun THEN n ELSE trades[n].side) \notin gone[th]} IN
    /\ At(th, "book") /\ todo[th] = {}
    /\ engines' = [engines EXCEPT ![e].openPositions = kept]
    /\ IF dryRun THEN UNCHANGED reservations ELSE ReleaseIfFlat(e, kept)
    /\ gone' = [gone EXCEPT ![th] = {}]
    /\ Goto(th, IF th[2] = "stop" THEN "finish" ELSE IF kept = {} THEN "decide" ELSE "idle")
    /\ UNCHANGED <<accountEquity, signal, todo, generation, phase, dryRun, trades>>
----------------------------------------------------------------------------
(* Tick: entry.  None of these steps looks at stopRequested again. *)

NoEntry(e) ==
    /\ Goto(Tick(e), "idle")
    /\ UNCHANGED <<coordinator, signal, gone, todo, engines, generation, phase, dryRun, trades>>

Decide(e) ==
    /\ At(Tick(e), "decide")
    /\ \/ NoEntry(e)
       \/ /\ \E d \in Sides : signal' = [signal EXCEPT ![e] = d]
          /\ Goto(Tick(e), "gate")
          /\ UNCHANGED <<coordinator, gone, todo, engines, generation, phase, dryRun, trades>>

\* canEnter: race-to-confirm over the open rows of the coin, or, when they cannot be
\* read, over what the current engines hold.
CanEnter(s) ==
    \/ Rows(s) = {}
    \/ "reads_fail" \in Events /\ \A e \in Current(s) : engines[e].openPositions = {}

Gate(e) ==
    /\ At(Tick(e), "gate")
    /\ IF CanEnter(Coin(e)) /\ engines[e].openPositions = {}
       THEN /\ Goto(Tick(e), "cap")
            /\ UNCHANGED <<coordinator, signal, gone, todo, engines,
                           generation, phase, dryRun, trades>>
       ELSE NoEntry(e)

\* _checkAccountOpenCap: open rows of the account; a count that fails lets pass.
BelowCap ==
    \/ AccountCap = 0 \/ "reads_fail" \in Events
    \/ Cardinality(UNION {Rows(s) : s \in Symbols}) < AccountCap

Cap(e) ==
    /\ At(Tick(e), "cap")
    /\ IF BelowCap
       THEN /\ Goto(Tick(e), "reserve")
            /\ UNCHANGED <<coordinator, signal, gone, todo, engines,
                           generation, phase, dryRun, trades>>
       ELSE NoEntry(e)

\* Mutant: canOpen before the order, reserve only after it.
ReserveLate(e) ==
    /\ At(Tick(e), "reserve")
    /\ NextTrade \in TradeIds
    /\ \E q \in Equities \ {0}, m \in Margins :
          /\ accountEquity' = q
          /\ WithEquity(q)!CanOpen(BotKey(e), m, signal[e])
    /\ Goto(Tick(e), "order")
    /\ UNCHANGED <<reservations, signal, gone, todo, engines, generation, phase, dryRun, trades>>

\* Live reads the balance and reports the equity; then canOpen and reserve in one
\* turn.  The size may be scaled down, so any margin the gate accepts may be taken.
\* Dry-run has its position at once and goes on to store it.
Reserve(e) ==
    /\ At(Tick(e), "reserve")
    /\ NextTrade \in TradeIds
    /\ \E q \in IF dryRun THEN {accountEquity} ELSE Equities \ {0} :
          /\ accountEquity' = q
          /\ \/ \E m \in Margins :
                   /\ WithEquity(q)!CanOpen(BotKey(e), m, signal[e])
                   /\ reservations' = Coordinator!Reserved(BotKey(e), m, signal[e])
                   /\ IF dryRun
                      THEN Opens(e) /\ Goto(Tick(e), "insert")
                      ELSE UNCHANGED trades /\ Goto(Tick(e), "order")
             \/ /\ \A m \in Margins : ~WithEquity(q)!CanOpen(BotKey(e), m, signal[e])
                /\ Goto(Tick(e), "idle")
                /\ UNCHANGED <<reservations, trades>>
    /\ UNCHANGED <<signal, gone, todo, engines, generation, phase, dryRun>>

\* Without a balance there is no entry.
BalanceFails(e) ==
    /\ At(Tick(e), "reserve") /\ "reads_fail" \in Events /\ ~dryRun
    /\ NoEntry(e)

\* The order went through: the reservation is written again, whatever became of it.
OrderFilled(e) ==
    /\ At(Tick(e), "order")
    /\ NextTrade \in TradeIds
    /\ Opens(e)
    /\ \E m \in Margins :
          /\ Coordinator!Held(BotKey(e)) => m = reservations[BotKey(e)].margin
          /\ reservations' = Coordinator!Reserved(BotKey(e), m, signal[e])
    /\ Goto(Tick(e), "protect")
    /\ UNCHANGED <<accountEquity, signal, gone, todo, engines, generation, phase, dryRun>>

\* The catch around the order: give the reservation back and forget the entry.
Abandon(e) ==
    /\ reservations' = Coordinator!Released(BotKey(e))
    /\ Goto(Tick(e), "idle")
    /\ UNCHANGED <<accountEquity, signal, gone, todo, engines, generation, phase, dryRun>>

OrderRejected(e) ==
    /\ At(Tick(e), "order") /\ "order_fails" \in Events
    /\ Abandon(e)
    /\ UNCHANGED trades

\* SL and TP embedded in the order, or placed by setTPSL within three attempts.
Protect(e) ==
    /\ At(Tick(e), "protect")
    /\ \/ Goto(Tick(e), "insert")
       \/ "sl_fails" \in Events /\ Goto(Tick(e), "emergency")
    /\ UNCHANGED <<coordinator, signal, gone, todo, engines, generation, phase, dryRun, trades>>

\* Without a stop loss the position is closed at once; if that fails it is kept.
EmergencyClose(e) ==
    /\ At(Tick(e), "emergency")
    /\ \/ /\ trades' = [trades EXCEPT ![Opening(e)].open = FALSE]
          /\ Abandon(e)
       \/ /\ Goto(Tick(e), "insert")
          /\ UNCHANGED <<coordinator, signal, gone, todo, engines,
                         generation, phase, dryRun, trades>>

\* insertTrade when a session is open, then the position enters the state.
Insert(e) ==
    LET n == Opening(e) IN
    /\ At(Tick(e), "insert")
    /\ trades' = [trades EXCEPT ![n].row = IF engines[e].session THEN "open" ELSE @]
    /\ engines' = [engines EXCEPT ![e].openPositions = @ \cup {n}]
    /\ Goto(Tick(e), "idle")
    /\ UNCHANGED <<coordinator, signal, gone, todo, generation, phase, dryRun>>

\* insertTrade throws: live lands in the catch around the order, dry-run in the
\* one around the tick.  Either way the position never enters the state.
InsertFails(e) ==
    /\ At(Tick(e), "insert") /\ "insert_fails" \in Events /\ engines[e].session
    /\ IF dryRun THEN NoEntry(e) ELSE Abandon(e) /\ UNCHANGED trades
----------------------------------------------------------------------------
(* stop() of an engine, called by MultiStrategyCoordinator.stop in turn. *)

StopBegin(e) ==
    /\ phase[Coin(e)] = "stopping" /\ e \in Current(Coin(e))
    /\ At(Stop(e), "off")
    /\ \A f \in Current(Coin(e)) : pc[Stop(f)] \in {"off", "done"}
    /\ engines' = [engines EXCEPT ![e].stopRequested = TRUE]
    /\ Goto(Stop(e), IF engines[e].openPositions # {} THEN "monitor" ELSE "finish")
    /\ UNCHANGED <<coordinator, signal, gone, todo, generation, phase, dryRun, trades>>

\* Timers cleared, running = false, the reservation of a flat engine given back.
StopFinish(e) ==
    /\ At(Stop(e), "finish")
    /\ engines' = [engines EXCEPT ![e].running = FALSE]
    /\ ReleaseIfFlat(e, engines[e].openPositions)
    /\ Goto(Stop(e), IF engines[e].session THEN "session" ELSE "done")
    /\ UNCHANGED <<accountEquity, signal, gone, todo, generation, phase, dryRun, trades>>

CloseSession(e) ==
    /\ At(Stop(e), "session")
    /\ engines' = [engines EXCEPT ![e].session = FALSE]
    /\ Goto(Stop(e), "done")
    /\ UNCHANGED <<coordinator, signal, gone, todo, generation, phase, dryRun, trades>>
----------------------------------------------------------------------------
(* MultiStrategyCoordinator of a coin. *)

\* start: a new generation of engine objects, armed with the coin's capital.
GroupStart(s) ==
    /\ phase[s] = "down" /\ generation[s] < MaxGenerations
    /\ generation[s] > 0 => "restart" \in Events
    /\ generation' = [generation EXCEPT ![s] = @ + 1]
    /\ phase' = [phase EXCEPT ![s] = "up"]
    /\ reservations' = Coordinator!GroupReserved(s, Strategies, GroupCapital)
    /\ UNCHANGED <<accountEquity, threads, engines, trades, dryRun>>

\* The rows taken over by a starting engine (mutant: none).
AdoptedNone(e) == {}

Adopted(e) == Reconciled(e)

\* The writes of Closed_Offline that get through.
ClosedOffline(e) ==
    LET offline == OwnRows(e) \ Reconciled(e) IN
    IF "close_fails" \in Events THEN SUBSET offline ELSE {offline}

\* Only live reserves for a position taken over.
Starts(e, held, ended, unseen) ==
    /\ engines' = [engines EXCEPT ![e] = [running |-> TRUE, stopRequested |-> FALSE,
                                          session |-> TRUE, openPositions |-> held,
                                          unseen |-> unseen]]
    /\ trades' = [n \in Opened |-> IF n \in ended THEN [trades[n] EXCEPT !.row = "closed"]
                                   ELSE trades[n]]
    /\ \/ /\ dryRun \/ held = {}
          /\ UNCHANGED reservations
       \/ /\ ~dryRun
          /\ \E n \in held, m \in Margins :
                reservations' = Coordinator!Reserved(BotKey(e), m, trades[n].side)

\* start of one engine: rows of its strategy are taken over from earlier sessions; those the
\* exchange no longer holds are closed as Closed_Offline.  Without an answer of the exchange all
\* are taken over; without one of the table the engine runs without any.
EngineStart(e) ==
    /\ phase[Coin(e)] = "up" /\ e \in Current(Coin(e)) /\ At(Tick(e), "off")
    /\ \/ \E ended \in ClosedOffline(e) : Starts(e, Adopted(e), ended, {})
       \/ "reads_fail" \in Events /\ ~dryRun /\ Starts(e, OwnRows(e), {}, {})
       \/ "reads_fail" \in Events /\ Starts(e, {}, {}, OwnRows(e))
    /\ Goto(Tick(e), "idle")
    /\ UNCHANGED <<accountEquity, signal, gone, todo, generation, phase, dryRun>>

GroupStop(s) ==
    /\ phase[s] = "up" /\ "stop" \in Events
    /\ \A e \in Current(s) : ~At(Tick(e), "off")
    /\ phase' = [phase EXCEPT ![s] = "stopping"]
    /\ UNCHANGED <<coordinator, threads, engines, generation, trades, dryRun>>

\* After the last engine: engines.clear() and releaseGroup.
GroupStopped(s) ==
    /\ phase[s] = "stopping"
    /\ \A e \in Current(s) : At(Stop(e), "done")
    /\ phase' = [phase EXCEPT ![s] = "down"]
    /\ reservations' = Coordinator!GroupReleased(s)
    /\ UNCHANGED <<accountEquity, threads, engines, generation, trades, dryRun>>

\* POST /start of a coin whose bot runs: the gate and reserveGroup come before the
\* route notices that there is nothing to start.
Repost(s) ==
    /\ phase[s] = "up" /\ "repost" \in Events /\ ~dryRun
    /\ \E q \in Equities \ {0} :
          /\ WithEquity(q)!CanStartBot(s, GroupCapital)
          /\ accountEquity' = q
    /\ reservations' = Coordinator!GroupReserved(s, Strategies, GroupCapital)
    /\ UNCHANGED <<threads, engines, generation, phase, dryRun, trades>>

\* The exchange closes a position at its SL or TP; in dry-run the price gets there.
MarketCloses(n) ==
    /\ trades[n].open
    /\ trades' = [trades EXCEPT ![n].open = FALSE]
    /\ UNCHANGED <<coordinator, threads, engines, generation, phase, dryRun>>
----------------------------------------------------------------------------
Init ==
    /\ Coordinator!Empty
    /\ pc = [th \in Threads |-> "off"]
    /\ signal = [e \in Engines |-> "LONG"]
    /\ gone = [th \in Threads |-> {}]
    /\ todo = [th \in Threads |-> {}]
    /\ engines = [e \in Engines |-> Fresh]
    /\ generation = [s \in Symbols |-> 0]
    /\ phase = [s \in Symbols |-> "down"] /\ dryRun \in DryRuns
    /\ trades = <<>>

Pass(th) == Reconcile(th) \/ Sync(th) \/ SyncFails(th) \/ Book(th) \/ PassEnd(th)

Entry(e) ==
    \/ Decide(e) \/ Gate(e) \/ Cap(e) \/ Reserve(e) \/ BalanceFails(e)
    \/ OrderFilled(e) \/ OrderRejected(e) \/ Protect(e) \/ EmergencyClose(e)
    \/ Insert(e) \/ InsertFails(e)

Ticking(e)  == TickBegin(e) \/ Pass(Tick(e)) \/ Entry(e)
Stopping(e) == StopBegin(e) \/ Pass(Stop(e)) \/ StopFinish(e) \/ CloseSession(e)

Next ==
    \/ \E e \in Engines : EngineStart(e) \/ Ticking(e) \/ Stopping(e)
    \/ \E s \in Symbols : GroupStart(s) \/ GroupStop(s) \/ GroupStopped(s) \/ Repost(s)
    \/ \E n \in Opened : MarketCloses(n)

\* Node runs every started handler on, and a running engine re-arms its timer.
Fairness == \A e \in Engines : WF_vars(EngineStart(e)) /\ WF_vars(Ticking(e)) /\ WF_vars(Stopping(e))

Spec == Init /\ [][Next]_vars /\ Fairness
----------------------------------------------------------------------------
(* Properties. *)

TypeOK ==
    /\ Coordinator!MapOK
    /\ pc \in [Threads -> Labels]
    /\ signal \in [Engines -> Sides]
    /\ gone \in [Threads -> SUBSET (IF dryRun THEN Opened ELSE Sides)]
    /\ todo \in [Threads -> SUBSET Opened]
    /\ engines \in [Engines -> Engine]
    /\ generation \in [Symbols -> 0..MaxGenerations]
    /\ phase \in [Symbols -> {"down", "up", "stopping"}] /\ dryRun \in DryRuns
    /\ trades \in Seq(Trade) /\ Len(trades) <= MaxTrades

\* An engine is exposed from the moment it sends an order until the market closes it.
Ordering(e) == pc[Tick(e)] \in {"order", "protect", "emergency", "insert"}
Exposed(e)  == Ordering(e) \/ \E n \in Opened : trades[n].open /\ trades[n].owner = e

\* One position per coin on the exchange, not only in the map of reservations: no two
\* engines of a coin are exposed, and no engine twice.
SinglePosition ==
    /\ \A e, f \in Engines : Exposed(e) /\ Exposed(f) /\ Coin(e) = Coin(f) => e = f
    /\ \A m, n \in Opened : trades[m].open /\ trades[n].open /\ trades[m].owner = trades[n].owner
                            => m = n

\* A position the market still holds and no entry is working on is tracked by its
\* engine, has an open row and holds the coin's reservation with its side.
Accounted ==
    \A n \in Opened :
        LET e == trades[n].owner IN
        trades[n].open /\ ~(Ordering(e) /\ n = Opening(e)) =>
            /\ n \in engines[e].openPositions
            /\ trades[n].row = "open"
            /\ Coordinator!Directional(BotKey(e))
            /\ reservations[BotKey(e)].direction = trades[n].side

\* A reservation with a side is backed by an entry in progress or a tracked position.
NoGhostReservation ==
    \A e \in Engines : Coordinator!Directional(BotKey(e)) =>
        \E f \in Engines : BotKey(f) = BotKey(e) /\ (Ordering(f) \/ engines[f].openPositions # {})

\* The result of a trade enters stats and risk counters at most once, though the tick,
\* the final pass of stop and a later generation may all find it closed.
BookedOnce == \A n \in Opened : trades[n].booked <= 1

\* After any stops and restarts, the engine that runs a strategy, and that no stop has
\* been asked of, holds every open row of it whose position is still in the market, but for
\* those it could not read when it started, nor since.
RowsTracked ==
    \A e \in Engines :
        e \in Current(Coin(e)) /\ engines[e].running /\ ~engines[e].stopRequested =>
            \A n \in OwnRows(e) :
                trades[n].open => n \in engines[e].openPositions \cup engines[e].unseen

\* The same without the exception (it fails with "reads_fail", see README).
RowsHeld ==
    \A e \in Engines :
        e \in Current(Coin(e)) /\ engines[e].running /\ ~engines[e].stopRequested =>
            \A n \in OwnRows(e) : trades[n].open => n \in engines[e].openPositions

\* A stop is a stop (it fails with a tick in flight, see README): an engine sends no order once its stop() has returned.
StopHalts ==
    [][\A e \in Engines : Ordering(e)' /\ ~Ordering(e) => ~At(Stop(e), "done")]_vars

\* maxAccountOpenPositions bounds the open positions of the account (it fails when
\* engines of two coins pass together, see README).
WithinAccountCap ==
    AccountCap > 0 => Cardinality({n \in Opened : trades[n].open}) <= AccountCap

\* A position the market closed is eventually closed in the trades table.
Settles ==
    \A n \in TradeIds :
        (n \in Opened /\ ~trades[n].open /\ trades[n].row = "open")
            ~> (n \in Opened /\ trades[n].row = "closed")

\* The engines of a coin implement the exclusive slot the coordinator promises them.
holders == [s \in Symbols |-> {e \in Engines : Coin(e) = s /\ Exposed(e)}]
Slot == INSTANCE PositionSlot WITH Owners <- Engines, holders <- holders
SlotSpec == Slot!Spec
=============================================================================
