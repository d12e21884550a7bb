------------------------------ MODULE MCGroup ------------------------------
(* What runs inside the engines of a coin, each in behaviours of its own: the group, in live
   or in dry-run mode; the orders of one entry; the ladder of one position; and the candles. *)
EXTENDS MCTradingGroup

CONSTANTS Sizes, MinLot, MaxRows, MaxCrashes, LadderWorlds,                \* of PositionLadder
          Size, MaxRequotes, MaxAttempts, MaxEntries, OrderWorlds,         \* of OrderEntry
          Fetchers, Limit, MinBars, Ttls, MaxTime, MaxRequests, CandleWorlds  \* of CandleCache

VARIABLES unit,      \* what runs; the others stay as they start
          world,
          crashes, opened, exch, rows, mem, pass, op,
          step, entries, attempt, filledMaker, seen, book, position, stops, targets,
          tracked, manual,
          now, table, writes, gate, fetch, tries, got, pool, wanted, requests

Ladder  == INSTANCE PositionLadder WITH Worlds <- LadderWorlds
Orders  == INSTANCE OrderEntry WITH pc <- step, Worlds <- OrderWorlds
Candles == INSTANCE CandleCache WITH phase <- fetch, Engines <- Fetchers, Worlds <- CandleWorlds

ladder  == <<crashes, opened, exch, rows, mem, pass, op>>
orders  == <<step, entries, attempt, filledMaker, seen, book, position, stops, targets,
             tracked, manual>>
candles == <<now, table, writes, gate, fetch, tries, got, pool, wanted, requests>>
all     == <<unit, world, vars, ladder, orders, candles>>

ASSUME GroupAssumption ==
    /\ Ladder!PositionLadderAssumption /\ Orders!OrderEntryAssumption
    /\ Candles!CandleCacheAssumption
    /\ Sizes # {}

\* What does not run starts in one way.
MCInit ==
    /\ \/ unit = "group" /\ world = {}
       \/ unit = "ladder" /\ world \in LadderWorlds
       \/ unit = "orders" /\ world \in OrderWorlds
       \/ unit = "candles" /\ world \in CandleWorlds
    /\ Init /\ (unit # "group" => dryRun = CHOOSE mode \in DryRuns : TRUE)
    /\ Ladder!Entered /\ (unit # "ladder" => opened = CHOOSE size \in Sizes : TRUE)
    /\ Orders!Idles /\ Candles!Idles

\* A step of the unit that runs.
Alone(u, taken) ==
    /\ unit = u /\ unit' = u /\ world' = world /\ taken
    /\ u # "group" => UNCHANGED vars
    /\ u # "ladder" => UNCHANGED ladder
    /\ u # "orders" => UNCHANGED orders
    /\ u # "candles" => UNCHANGED candles

MCNext ==
    \/ Alone("group", Next)
    \/ Alone("ladder", Ladder!Next)
    \/ Alone("orders", Orders!Next)
    \/ Alone("candles", Candles!Next)

\* As in the modules, for what runs.
MCFairness ==
    /\ \A e \in Engines :
          /\ WF_all(Alone("group", EngineStart(e)))
          /\ WF_all(Alone("group", Ticking(e)))
          /\ WF_all(Alone("group", Stopping(e)))
    /\ WF_all(Alone("ladder", Ladder!Ticks))
    /\ WF_all(Alone("ladder", Ladder!Scanning))
    /\ WF_all(Alone("ladder", Ladder!Restart))
    /\ WF_all(Alone("orders", Orders!Entering))
    /\ \A e \in Fetchers :
          /\ WF_all(Alone("candles", Candles!Replies(e)))
          /\ WF_all(Alone("candles", Candles!AsksAgain(e)))
    /\ WF_all(Alone("candles", Candles!HistoryAnswered))

MCSpec == MCInit /\ [][MCNext]_all /\ MCFairness
----------------------------------------------------------------------------
\* The type invariants of the units.
TypesOK ==
    /\ TypeOK
    /\ unit = "ladder" => Ladder!TypeOK
    /\ unit = "orders" => Orders!TypeOK
    /\ unit = "candles" => Candles!TypeOK

\* TradingGroup: live engines leave no reservation with a side behind; dry-run engines keep
\* theirs after a close (BotEngine 4068).
NoGhostLive == ~dryRun => NoGhostReservation

\* PositionLadder: parts and rest are booked for the order, no more and in the end no less.
BookedAsOrdered == unit = "ladder" => Ladder!BookedAsOrdered
\* PositionLadder and OrderEntry: between passes a whole position has a stop loss or is
\* watched, and an entry is tracked.
Protected == (unit = "ladder" => Ladder!Protected) /\ (unit = "orders" => Orders!EntryProtected)
\* PositionLadder: the stop loss only moves up.
StopTightens == Ladder!StopTightens
\* OrderEntry: an entry that is tracked holds its whole order and left no quote.
TrackedIsWhole == unit = "orders" => Orders!TrackedIsWhole

\* CandleCache: what an engine is served is as current as the time to live says.
ServedIsCurrent == unit = "candles" => Candles!ServedIsCurrent

\* OrderEntry and CandleCache: an entry and a fetch end, whatever fails.
CallsEnd == Orders!EntryEnds /\ Candles!FetchEnds

\* TradingGroup and PositionLadder: what the market closed is closed in the trades table.
ClosesAreBooked == Settles /\ Ladder!CloseIsBooked
=============================================================================
