------------------------ MODULE TradingGroup_proofs -------------------------
(***************************************************************************)
(* Proofs about TradingGroup, for any number of coins, strategies, trades  *)
(* and generations: its types; that a live trade is booked once and that a *)
(* running engine holds its rows, whatever is stopped, restarted or fails; *)
(* and that a coin has one position, as long as no bot is stopped, started *)
(* again or restarted and no row is lost.                                  *)
(***************************************************************************)
EXTENDS TradingGroup, SequenceTheorems, FiniteSetTheorems, TLAPS

(* Engines, threads and keys are tuples. *)

LEMMA EngineShape ==
    ASSUME NEW e \in Engines
    PROVE  /\ Coin(e) \in Symbols /\ e[2] \in Strategies /\ e[3] \in 1 .. MaxGenerations
           /\ e = <<e[1], e[2], e[3]>>
           /\ BotKey(e) \in Coordinator!BotKeys
           /\ BotKey(e)[1] = Coin(e)
BY DEF Engines, Coin, BotKey, Coordinator!BotKeys

LEMMA EngineOfKey ==
    ASSUME NEW e \in Engines, NEW f \in Engines, BotKey(e) = BotKey(f), e[3] = f[3]
    PROVE  e = f
BY EngineShape DEF BotKey

LEMMA SameKeySameCoin ==
    ASSUME NEW e \in Engines, NEW f \in Engines, BotKey(e) = BotKey(f)
    PROVE  Coin(e) = Coin(f)
BY DEF BotKey, Coin

LEMMA ThreadsOf ==
    ASSUME NEW e \in Engines
    PROVE  /\ Tick(e) \in Threads /\ Tick(e)[1] = e /\ Tick(e)[2] = "tick"
           /\ Stop(e) \in Threads /\ Stop(e)[1] = e /\ Stop(e)[2] = "stop"
BY DEF Threads, Tick, Stop

LEMMA ThreadShape ==
    ASSUME NEW th \in Threads
    PROVE  /\ th[1] \in Engines
           /\ \/ th = Tick(th[1]) /\ th[2] = "tick"
              \/ th = Stop(th[1]) /\ th[2] = "stop"
BY DEF Threads, Tick, Stop

LEMMA ThreadsDiffer ==
    ASSUME NEW e \in Engines, NEW f \in Engines
    PROVE  /\ Tick(e) # Stop(f)
           /\ Tick(e) = Tick(f) => e = f
           /\ Stop(e) = Stop(f) => e = f
BY DEF Tick, Stop
----------------------------------------------------------------------------
(* What the updates of the coordinator do to its map. *)

Reservations == [Coordinator!BotKeys -> Coordinator!Reservation]
Clean(r)     == \A k \in Coordinator!BotKeys : ~r[k].held => r[k] = Coordinator!NoReservation

LEMMA Reserving ==
    ASSUME reservations \in Reservations, Clean(reservations),
           NEW k \in Coordinator!BotKeys, NEW m \in Nat, NEW d \in Coordinator!Directions,
           reservations' = Coordinator!Reserved(k, m, d)
    PROVE  /\ reservations' \in Reservations /\ Clean(reservations')
           /\ reservations'[k].held /\ reservations'[k].margin = m
           /\ reservations'[k].direction = d
           /\ \A j \in Coordinator!BotKeys \ {k} : reservations'[j] = reservations[j]
BY DEF Reservations, Clean, Coordinator!Reserved, Coordinator!Entry, Coordinator!Reservation

LEMMA Releasing ==
    ASSUME reservations \in Reservations, Clean(reservations),
           NEW k \in Coordinator!BotKeys,
           reservations' = Coordinator!Released(k)
    PROVE  /\ reservations' \in Reservations /\ Clean(reservations')
           /\ ~reservations'[k].held
           /\ \A j \in Coordinator!BotKeys \ {k} : reservations'[j] = reservations[j]
BY DEF Reservations, Clean, Coordinator!Released, Coordinator!NoReservation,
       Coordinator!Reservation, Coordinator!Directions

LEMMA Share == GroupCapital \div Cardinality(Strategies) \in Nat
<1>1. Cardinality(Strategies) \in Nat \ {0}
  BY TradingGroupAssumption, FS_CardinalityType, FS_EmptySet
<1> QED
  BY <1>1, TradingGroupAssumption

\* The instance has a Cardinality of its own, with the same definition.
LEMMA SameCardinality == ASSUME NEW S PROVE Coordinator!Cardinality(S) = Cardinality(S)
BY Zenon DEF Coordinator!Cardinality, Cardinality

LEMMA GroupReserving ==
    ASSUME reservations \in Reservations, Clean(reservations), NEW s \in Symbols,
           \/ reservations' = Coordinator!GroupReserved(s, Strategies, GroupCapital)
           \/ reservations' = Coordinator!GroupReleased(s)
    PROVE  /\ reservations' \in Reservations /\ Clean(reservations')
           /\ \A j \in Coordinator!BotKeys :
                 \/ reservations'[j] = reservations[j]
                 \/ j[1] = s /\ reservations'[j].direction = "none"
<1> DEFINE slot == Coordinator!Entry(GroupCapital \div Cardinality(Strategies), "none")
<1>1. slot \in Coordinator!Reservation /\ slot.held /\ slot.direction = "none"
  BY Share DEF Coordinator!Entry, Coordinator!Reservation, Coordinator!Directions
<1>2. /\ Coordinator!NoReservation \in Coordinator!Reservation
      /\ Coordinator!NoReservation.direction = "none"
  BY DEF Coordinator!NoReservation, Coordinator!Reservation, Coordinator!Directions
<1>3. Coordinator!Entry(GroupCapital \div Coordinator!Cardinality(Strategies), "none") = slot
  BY SameCardinality
<1> HIDE DEF slot
<1>4. \A j \in Coordinator!GroupKeys(s) : j[1] = s
  BY DEF Coordinator!GroupKeys
<1>5. CASE reservations' = Coordinator!GroupReserved(s, Strategies, GroupCapital)
  <2>1. reservations' = [k \in Coordinator!BotKeys |->
                           IF k \notin Coordinator!GroupKeys(s) THEN reservations[k]
                           ELSE IF k[2] \in Strategies THEN slot ELSE Coordinator!NoReservation]
    BY <1>3, <1>5 DEF Coordinator!GroupReserved
  <2> QED
    BY <2>1, <1>1, <1>2, <1>4 DEF Reservations, Clean
<1>6. CASE reservations' = Coordinator!GroupReleased(s)
  <2>1. reservations' = [k \in Coordinator!BotKeys |->
                           IF k \in Coordinator!GroupKeys(s) THEN Coordinator!NoReservation
                           ELSE reservations[k]]
    BY <1>6 DEF Coordinator!GroupReleased
  <2> QED
    BY <2>1, <1>2, <1>4 DEF Reservations, Clean
<1> QED
  BY <1>5, <1>6

LEMMA CoordinatorType ==
    Coordinator!MapOK <=> /\ reservations \in Reservations /\ Clean(reservations)
                           /\ accountEquity \in Nat
BY DEF Coordinator!MapOK, Reservations, Clean, Coordinator!Held
----------------------------------------------------------------------------
(* Types.  From the order to the insert an engine has a newest trade, the one its tick is
   opening; and what an engine holds are trades of its own strategy. *)

Filling == {"protect", "emergency", "insert"}
Newest(e, n) == trades[n].owner = e /\ \A m \in Opened : trades[m].owner = e => m <= n
HasNewest(e) == pc[Tick(e)] \in Filling => \E n \in Opened : Newest(e, n)

OwnTrade(e, n) == n \in Opened /\ BotKey(trades[n].owner) = BotKey(e)
HoldsOwn(e)    == \A n \in engines[e].openPositions : OwnTrade(e, n)

Base == TypeOK /\ \A e \in Engines : HasNewest(e) /\ HoldsOwn(e)

LEMMA OpeningIsNewest ==
    ASSUME Base, NEW e \in Engines, pc[Tick(e)] \in Filling
    PROVE  Opening(e) \in Opened /\ Newest(e, Opening(e))
BY DEF Base, HasNewest, Newest, Opening

LEMMA OpenedIs ==
    ASSUME TypeOK
    PROVE  /\ Len(trades) \in Nat /\ Opened = 1 .. Len(trades) /\ Opened \subseteq TradeIds
           /\ trades \in [Opened -> Trade]
<1>1. trades \in Seq(Trade) /\ Len(trades) <= MaxTrades /\ MaxTrades \in Nat
  BY TradingGroupAssumption DEF TypeOK
<1> QED
  BY <1>1, LenProperties DEF Opened, TradeIds

\* The trades there are stay what they are, but for market, row and books.
Edited ==
    /\ trades' \in Seq(Trade) /\ Len(trades') = Len(trades) /\ Opened' = Opened
    /\ \A n \in Opened : trades'[n].owner = trades[n].owner /\ trades'[n].side = trades[n].side

LEMMA EditOne ==
    ASSUME TypeOK, NEW n \in Opened, NEW r \in Trade,
           r.owner = trades[n].owner, r.side = trades[n].side,
           trades' = [trades EXCEPT ![n] = r]
    PROVE  /\ Edited /\ trades'[n] = r
           /\ \A m \in Opened \ {n} : trades'[m] = trades[m]
<1>1. trades \in Seq(Trade) /\ n \in 1 .. Len(trades)
  BY OpenedIs DEF TypeOK
<1>2. /\ trades' \in Seq(Trade) /\ Len(trades') = Len(trades)
      /\ \A m \in 1 .. Len(trades) : trades'[m] = IF m = n THEN r ELSE trades[m]
  BY <1>1, ExceptSeq
<1>3. Opened' = 1 .. Len(trades)
  BY <1>2, LenProperties DEF Opened
<1> QED
  BY <1>1, <1>2, <1>3, OpenedIs DEF Edited

LEMMA EditMany ==
    ASSUME TypeOK, trades' \in [Opened -> Trade],
           \A n \in Opened : /\ trades'[n].owner = trades[n].owner
                             /\ trades'[n].side = trades[n].side
    PROVE  Edited
<1>1. Opened = 1 .. Len(trades) /\ Len(trades) \in Nat
  BY OpenedIs
<1>2. trades' \in Seq(Trade)
  BY <1>1, SeqDef
<1>3. DOMAIN trades' = 1 .. Len(trades) /\ DOMAIN trades' = 1 .. Len(trades')
      /\ Len(trades') \in Nat
  BY <1>1, <1>2, LenProperties
<1>4. Len(trades') = Len(trades)
  BY <1>1, <1>3
<1> QED
  BY <1>1, <1>2, <1>3, <1>4 DEF Edited, Opened

LEMMA KeepTrades ==
    ASSUME TypeOK, trades' = trades
    PROVE  Edited
BY DEF TypeOK, Edited, Opened

LEMMA OpensOne ==
    ASSUME TypeOK, NEW e \in Engines, NextTrade \in TradeIds, Opens(e)
    PROVE  /\ trades' \in Seq(Trade) /\ Len(trades') = Len(trades) + 1
           /\ NextTrade \notin Opened /\ Opened' = Opened \cup {NextTrade}
           /\ \A n \in Opened : n < NextTrade /\ trades'[n] = trades[n]
           /\ trades'[NextTrade].owner = e /\ trades'[NextTrade].side = signal[e]
           /\ trades'[NextTrade].open /\ trades'[NextTrade].row = "none"
           /\ trades'[NextTrade].booked = 0
           /\ \A n \in Opened' : n <= NextTrade
           /\ (\E n \in Opened : Newest(e, n))'
<1> DEFINE r == [owner |-> e, side |-> signal[e], open |-> TRUE, row |-> "none", booked |-> 0]
<1>1. /\ r \in Trade /\ r.owner = e /\ r.side = signal[e]
      /\ r.open /\ r.row = "none" /\ r.booked = 0
  BY DEF TypeOK, Trade
<1>2. trades \in Seq(Trade) /\ trades' = Append(trades, r)
  BY DEF TypeOK, Opens
<1> HIDE DEF r
<1>3. /\ trades' \in Seq(Trade) /\ Len(trades') = Len(trades) + 1
      /\ \A i \in 1 .. Len(trades) : trades'[i] = trades[i]
      /\ trades'[Len(trades) + 1] = r
  BY <1>1, <1>2, AppendProperties
<1>4. Opened = 1 .. Len(trades) /\ Len(trades) \in Nat
  BY OpenedIs
<1>5. Opened' = 1 .. Len(trades) + 1
  BY <1>3, LenProperties DEF Opened
<1>6. NextTrade \notin Opened /\ Opened' = Opened \cup {NextTrade}
  BY <1>4, <1>5 DEF NextTrade
<1>7. \A n \in Opened' : n <= NextTrade
  BY <1>4, <1>5 DEF NextTrade
<1>8. trades'[NextTrade].owner = e
  BY <1>1, <1>3 DEF NextTrade
<1>9. \E n \in Opened' : trades'[n].owner = e /\ \A m \in Opened' : trades'[m].owner = e => m <= n
  BY <1>6, <1>7, <1>8
<1>10. (\E n \in Opened : Newest(e, n))'
  BY <1>9 DEF Newest
<1> QED
  BY <1>1, <1>3, <1>4, <1>6, <1>7, <1>8, <1>10 DEF NextTrade

\* Everything but pc and the trades.
Rest ==
    /\ reservations \in Reservations /\ Clean(reservations) /\ accountEquity \in Nat
    /\ signal \in [Engines -> Sides]
    /\ dryRun \in DryRuns /\ gone \in [Threads -> SUBSET (IF dryRun THEN Opened ELSE Sides)]
    /\ todo \in [Threads -> SUBSET Opened]
    /\ engines \in [Engines -> Engine]
    /\ generation \in [Symbols -> 0..MaxGenerations]
    /\ phase \in [Symbols -> {"down", "up", "stopping"}]

LEMMA TypeParts ==
    TypeOK <=> /\ Rest /\ pc \in [Threads -> Labels]
               /\ trades \in Seq(Trade) /\ Len(trades) <= MaxTrades
BY CoordinatorType DEF TypeOK, Rest

LEMMA TypePartsNext ==
    TypeOK' <=> /\ Rest' /\ pc' \in [Threads -> Labels]
                /\ trades' \in Seq(Trade) /\ Len(trades') <= MaxTrades
BY DEF TypeOK, Rest, Coordinator!MapOK, Coordinator!Held, Reservations, Clean

\* A step that opens no trade and brings no tick to its order keeps the invariant when it
\* keeps the types of what it writes.
LEMMA EditStep ==
    ASSUME Base, Edited, Rest', pc' \in [Threads -> Labels],
           \A e \in Engines : pc'[Tick(e)] \in Filling => pc[Tick(e)] \in Filling,
           \A e \in Engines : \A n \in engines'[e].openPositions :
               n \in engines[e].openPositions \/ OwnTrade(e, n)
    PROVE  Base'
<1>1. TypeOK'
  BY TypePartsNext DEF Base, TypeOK, Edited
<1>2. ASSUME NEW e \in Engines
      PROVE  HasNewest(e)'
  BY <1>2 DEF Base, HasNewest, Newest, Edited
<1>3. ASSUME NEW e \in Engines
      PROVE  HoldsOwn(e)'
  <2>1. \A n \in engines'[e].openPositions : OwnTrade(e, n)
    BY DEF Base, HoldsOwn
  <2> QED
    BY <2>1 DEF HoldsOwn, OwnTrade, Edited
<1> QED
  BY <1>1, <1>2, <1>3 DEF Base

\* One thread goes on.
LEMMA GotoStep ==
    ASSUME Base, Edited, Rest', NEW th \in Threads, NEW label \in Labels, Goto(th, label),
           label \in Filling => pc[th] \in Filling,
           \A e \in Engines : \A n \in engines'[e].openPositions :
               n \in engines[e].openPositions \/ OwnTrade(e, n)
    PROVE  Base'
<1>1. pc' = [pc EXCEPT ![th] = label] /\ pc \in [Threads -> Labels]
  BY DEF Goto, Base, TypeOK
<1>2. ASSUME NEW e \in Engines, pc'[Tick(e)] \in Filling
      PROVE  pc[Tick(e)] \in Filling
  BY <1>1, <1>2, ThreadsOf
<1> QED
  BY <1>1, <1>2, EditStep

\* Nothing moves but one thread.
LEMMA OnlyGoto ==
    ASSUME Base, NEW th \in Threads, NEW label \in Labels, Goto(th, label),
           label \in Filling => pc[th] \in Filling,
           UNCHANGED <<coordinator, signal, gone, todo, engines, generation, phase, dryRun, trades>>
    PROVE  Base'
<1>1. Edited
  BY KeepTrades DEF Base
<1>2. Rest'
  BY <1>1, TypeParts DEF Base, Rest, coordinator, Edited
<1> QED
  BY <1>1, <1>2, GotoStep

\* The positions an engine may take over are opened trades of its strategy.
LEMMA ReconciledTypes ==
    ASSUME TypeOK, NEW e \in Engines
    PROVE  Reconciled(e) \subseteq OwnRows(e) /\ OwnRows(e) \subseteq Opened
           /\ Opened \subseteq TradeIds
BY OpenedIs DEF Reconciled, OwnRows

LEMMA BaseTypes ==
    ASSUME Base
    PROVE  /\ TypeOK /\ Rest /\ Opened \subseteq TradeIds /\ trades \in [Opened -> Trade]
           /\ \A e \in Engines : engines[e].openPositions \subseteq Opened
           /\ pc \in [Threads -> Labels]
BY TypeParts, OpenedIs DEF Base, HoldsOwn, OwnTrade

\* The pass looks for rows the engine does not hold, or does not look.
ReadsBack(e, found, unseen) ==
    engines' = [engines EXCEPT ![e].openPositions = engines[e].openPositions \cup found,
                               ![e].unseen = unseen]

Proceeds(th, held) ==
    Goto(th, IF held # {} THEN "sync" ELSE IF th[2] = "tick" THEN "decide" ELSE "finish")

LEMMA ReconcileIs ==
    ASSUME NEW th \in Threads, Reconcile(th)
    PROVE  \E found \in {{}, Reconciled(th[1])}, unseen \in {{}, engines[th[1]].unseen} :
               /\ ReadsBack(th[1], found, unseen)
               /\ unseen = engines[th[1]].unseen \/ found = Reconciled(th[1])
               /\ Proceeds(th, engines[th[1]].openPositions \cup found)
<1>1. PICK read \in {FALSE, engines[th[1]].running /\ ~engines[th[1]].stopRequested} :
          LET held == engines[th[1]].openPositions \cup IF read THEN Reconciled(th[1]) ELSE {} IN
          /\ engines' = [engines EXCEPT ![th[1]].openPositions = held,
                                        ![th[1]].unseen = IF read THEN {} ELSE @]
          /\ Proceeds(th, held)
  BY DEF Reconcile, Proceeds
<1>2. CASE read
  BY <1>1, <1>2 DEF ReadsBack
<1>3. CASE ~read
  BY <1>1, <1>3 DEF ReadsBack
<1> QED
  BY <1>2, <1>3

\* A starting engine holds rows of its own, closes others, and misses none that the exchange
\* still has but those it could not read.
LEMMA EngineStartIs ==
    ASSUME TypeOK, NEW e \in Engines, EngineStart(e)
    PROVE  \E held, ended, unseen \in SUBSET OwnRows(e) :
               /\ Starts(e, held, ended, unseen)
               /\ Reconciled(e) \subseteq held \cup unseen
<1>1. Reconciled(e) \subseteq OwnRows(e)
  BY ReconciledTypes
<1>2. \A ended \in ClosedOffline(e) : ended \subseteq OwnRows(e)
  BY DEF ClosedOffline
<1>3. CASE \E ended \in ClosedOffline(e) : Starts(e, Adopted(e), ended, {})
  BY <1>1, <1>2, <1>3 DEF Adopted
<1>4. CASE Starts(e, OwnRows(e), {}, {}) \/ Starts(e, {}, {}, OwnRows(e))
  BY <1>1, <1>4
<1> QED
  BY <1>3, <1>4 DEF EngineStart

LEMMA ReconcileTypes ==
    ASSUME Base, NEW th \in Threads, Reconcile(th)
    PROVE  Base'
<1> DEFINE e == th[1]
<1>1. e \in Engines /\ TypeOK /\ Rest /\ Opened \subseteq TradeIds
  BY ThreadShape, BaseTypes
<1>2. PICK held \in SUBSET TradeIds, unseen \in SUBSET TradeIds :
          /\ engines' = [engines EXCEPT ![e].openPositions = held, ![e].unseen = unseen]
          /\ held \subseteq engines[e].openPositions \cup OwnRows(e)
  <2>1. engines[e].openPositions \subseteq TradeIds /\ engines[e].unseen \subseteq TradeIds
    BY <1>1 DEF Rest, Engine
  <2>2. Reconciled(e) \subseteq OwnRows(e) /\ Reconciled(e) \subseteq TradeIds
    BY <1>1, ReconciledTypes
  <2>3. PICK found \in {{}, Reconciled(e)}, unseen \in {{}, engines[e].unseen} :
            ReadsBack(e, found, unseen)
    BY ReconcileIs
  <2> DEFINE held == engines[e].openPositions \cup found
  <2>4. held \in SUBSET TradeIds /\ held \subseteq engines[e].openPositions \cup OwnRows(e)
    BY <2>1, <2>2, <2>3
  <2> QED
    BY <2>1, <2>3, <2>4 DEF ReadsBack
<1>3. engines' \in [Engines -> Engine]
  BY <1>2, <1>1 DEF Rest, Engine
<1>4. \A f \in Engines : \A n \in engines'[f].openPositions :
          n \in engines[f].openPositions \/ OwnTrade(f, n)
  BY <1>2, <1>1 DEF OwnRows, OwnTrade, Rest, Engine
<1>5. Edited
  BY <1>1, KeepTrades DEF Reconcile
<1>6. Rest'
  BY <1>3, <1>5, <1>1 DEF Rest, Reconcile, coordinator, Edited
<1>7. PICK label \in Labels \ Filling : Goto(th, label)
  BY DEF Reconcile, Labels, Filling
<1> QED
  BY <1>4, <1>5, <1>6, <1>7, GotoStep

LEMMA SyncTypes ==
    ASSUME Base, NEW th \in Threads, Sync(th)
    PROVE  Base'
<1> DEFINE e == th[1]
           missing == Sides \ OpenSides(Coin(e))
           closed == {n \in engines[e].openPositions :
                          IF dryRun THEN ~trades[n].open ELSE trades[n].side \in missing}
<1>1. e \in Engines /\ Rest /\ closed \subseteq Opened /\ missing \subseteq Sides
  BY ThreadShape, BaseTypes
<1>2. /\ gone' = [gone EXCEPT ![th] = IF dryRun THEN closed ELSE missing]
      /\ todo' = [todo EXCEPT ![th] = closed]
      /\ Goto(th, "book")
      /\ UNCHANGED <<coordinator, signal, engines, generation, phase, dryRun, trades>>
  BY DEF Sync
<1> HIDE DEF closed, missing
<1>3. Edited
  BY KeepTrades, BaseTypes, <1>2
<1>4. /\ gone' \in [Threads -> SUBSET (IF dryRun THEN Opened ELSE Sides)]
      /\ todo' \in [Threads -> SUBSET Opened]
  BY <1>1, <1>2, TradingGroupAssumption DEF Rest
<1>5. Rest'
  BY <1>1, <1>2, <1>3, <1>4 DEF Rest, coordinator, Edited
<1> QED
  BY <1>2, <1>3, <1>5, GotoStep DEF Labels, Filling

\* What closeTrade and the books make of a trade.
LEMMA BookedIs ==
    ASSUME TypeOK, NEW n \in Opened, NEW applied \in BOOLEAN, trades' = Booked(n, applied)
    PROVE  /\ Edited
           /\ \A m \in Opened \ {n} : trades'[m] = trades[m]
           /\ trades'[n].open = trades[n].open
           /\ trades'[n].row = IF applied THEN "closed" ELSE trades[n].row
           /\ trades'[n].booked = IF dryRun \/ applied \/ trades[n].row = "none"
                                   THEN Count(trades[n].booked) ELSE trades[n].booked
<1> DEFINE row == IF applied THEN "closed" ELSE trades[n].row
           booked == IF dryRun \/ applied \/ trades[n].row = "none"
                     THEN Count(trades[n].booked) ELSE trades[n].booked
           r == [trades[n] EXCEPT !.row = row, !.booked = booked]
<1>1. trades \in [Opened -> Trade] /\ trades[n] \in Trade
  BY OpenedIs
<1>2. row \in {"none", "open", "closed"} /\ booked \in 0..2
  BY <1>1 DEF Trade, Count
<1>3. trades' = [trades EXCEPT ![n].row = row, ![n].booked = booked]
  BY DEF Booked
<1> HIDE DEF row, booked
<1>4. /\ r \in Trade /\ r.owner = trades[n].owner /\ r.side = trades[n].side
      /\ r.open = trades[n].open /\ r.row = row /\ r.booked = booked
  BY <1>1, <1>2 DEF Trade
<1>5. trades' = [trades EXCEPT ![n] = r]
  BY <1>1, <1>3
<1> HIDE DEF r
<1>6. Edited /\ trades'[n] = r /\ \A m \in Opened \ {n} : trades'[m] = trades[m]
  BY <1>4, <1>5, EditOne
<1> QED
  BY <1>4, <1>6 DEF row, booked

LEMMA BookTypes ==
    ASSUME Base, NEW th \in Threads, Book(th)
    PROVE  Base'
<1>1. PICK n \in todo[th], applied \in BOOLEAN :
          trades' = Booked(n, applied) /\ todo' = [todo EXCEPT ![th] = @ \ {n}]
  BY DEF Book
<1>2. n \in Opened /\ Rest
  BY <1>1, BaseTypes DEF Rest
<1>4. Edited
  BY <1>1, <1>2, BaseTypes, BookedIs
<1>5. todo' \in [Threads -> SUBSET Opened]
  BY <1>1, <1>2 DEF Rest
<1>6. Rest'
  BY <1>2, <1>4, <1>5 DEF Rest, Book, coordinator, Edited
<1> QED
  BY <1>4, <1>6, BaseTypes, EditStep DEF Book

\* The reservation is given back when the engine keeps nothing.
LEMMA FlatRelease ==
    ASSUME Base, NEW e \in Engines, NEW kept, ReleaseIfFlat(e, kept)
    PROVE  /\ reservations' \in Reservations /\ Clean(reservations')
           /\ \/ reservations' = reservations
              \/ kept = {} /\ reservations' = Coordinator!Released(BotKey(e))
BY BaseTypes, EngineShape, Releasing DEF Rest, ReleaseIfFlat

LEMMA PassEndTypes ==
    ASSUME Base, NEW th \in Threads, PassEnd(th)
    PROVE  Base'
<1> DEFINE e == th[1]
           kept == {n \in engines[e].openPositions :
                       (IF dryRun THEN n ELSE trades[n].side) \notin gone[th]}
<1>1. e \in Engines /\ TypeOK /\ Rest /\ Opened \subseteq TradeIds
  BY ThreadShape, BaseTypes
<1>2. /\ engines' = [engines EXCEPT ![e].openPositions = kept]
      /\ IF dryRun THEN UNCHANGED reservations ELSE ReleaseIfFlat(e, kept)
      /\ gone' = [gone EXCEPT ![th] = {}]
      /\ Goto(th, IF th[2] = "stop" THEN "finish" ELSE IF kept = {} THEN "decide" ELSE "idle")
      /\ UNCHANGED <<accountEquity, signal, todo, generation, phase, dryRun, trades>>
  BY DEF PassEnd
<1>3. kept \subseteq engines[e].openPositions
  OBVIOUS
<1> HIDE DEF kept
<1>4. engines' \in [Engines -> Engine]
  BY <1>1, <1>2, <1>3 DEF Rest, Engine
<1>5. \A f \in Engines : \A n \in engines'[f].openPositions : n \in engines[f].openPositions
  BY <1>1, <1>2, <1>3 DEF Rest, Engine
<1>6. reservations' \in Reservations /\ Clean(reservations')
  BY <1>1, <1>2, FlatRelease DEF Rest
<1>7. Edited
  BY <1>1, <1>2, KeepTrades
<1>8. gone' \in [Threads -> SUBSET (IF dryRun THEN Opened ELSE Sides)]
  BY <1>1, <1>2 DEF Rest
<1>9. Rest'
  BY <1>1, <1>2, <1>4, <1>6, <1>7, <1>8 DEF Rest, Edited
<1>10. PICK label \in Labels \ Filling : Goto(th, label)
  BY <1>2 DEF Labels, Filling
<1> QED
  BY <1>5, <1>7, <1>9, <1>10, GotoStep

LEMMA PassTypes ==
    ASSUME Base, NEW th \in Threads, Pass(th)
    PROVE  Base'
<1>1. CASE SyncFails(th)
  <2>1. PICK label \in Labels \ Filling :
            /\ Goto(th, label)
            /\ UNCHANGED <<coordinator, signal, gone, todo, engines,
                           generation, phase, dryRun, trades>>
    BY <1>1 DEF SyncFails, Labels, Filling
  <2> QED
    BY <2>1, OnlyGoto
<1> QED
  BY <1>1, ReconcileTypes, SyncTypes, BookTypes, PassEndTypes DEF Pass
----------------------------------------------------------------------------
(* Entry *)

LEMMA NoEntryTypes ==
    ASSUME Base, NEW e \in Engines, NoEntry(e)
    PROVE  Base'
BY ThreadsOf, OnlyGoto DEF NoEntry, Labels, Filling

\* The looks before the order.
LEMMA LookTypes ==
    ASSUME Base, NEW e \in Engines,
           \/ TickBegin(e) \/ Gate(e) \/ Cap(e) \/ BalanceFails(e) \/ Protect(e)
    PROVE  Base'
<1>1. CASE NoEntry(e)
  BY <1>1, NoEntryTypes
<1>2. CASE ~NoEntry(e)
  <2>1. PICK label \in Labels :
            /\ Goto(Tick(e), label)
            /\ label \in Filling => pc[Tick(e)] \in Filling
            /\ UNCHANGED <<coordinator, signal, gone, todo, engines,
                           generation, phase, dryRun, trades>>
    BY <1>2 DEF TickBegin, Gate, Cap, BalanceFails, Protect, At, Labels, Filling
  <2> QED
    BY <2>1, ThreadsOf, OnlyGoto
<1> QED
  BY <1>1, <1>2

LEMMA DecideTypes ==
    ASSUME Base, NEW e \in Engines, Decide(e)
    PROVE  Base'
<1>1. ASSUME NEW d \in Sides, signal' = [signal EXCEPT ![e] = d], Goto(Tick(e), "gate"),
             UNCHANGED <<coordinator, gone, todo, engines, generation, phase, dryRun, trades>>
      PROVE  Base'
  <2>1. Edited
    BY <1>1, KeepTrades, BaseTypes
  <2>2. Rest'
    BY <1>1, <2>1, BaseTypes DEF Rest, coordinator, Edited
  <2> QED
    BY <1>1, <2>1, <2>2, ThreadsOf, GotoStep DEF Labels, Filling
<1> QED
  BY <1>1, NoEntryTypes DEF Decide

\* A trade is opened: the tick is about to fill it in.
LEMMA OpensTypes ==
    ASSUME Base, NEW e \in Engines, NextTrade \in TradeIds, Opens(e),
           NEW label \in Filling, Goto(Tick(e), label),
           reservations' \in Reservations, Clean(reservations'), accountEquity' \in Nat,
           UNCHANGED <<signal, gone, todo, engines, generation, phase, dryRun>>
    PROVE  Base'
<1>1. TypeOK /\ Rest /\ pc \in [Threads -> Labels]
  BY BaseTypes
<1>2. /\ trades' \in Seq(Trade) /\ Len(trades') = Len(trades) + 1
      /\ NextTrade \notin Opened /\ Opened' = Opened \cup {NextTrade}
      /\ \A n \in Opened : n < NextTrade /\ trades'[n] = trades[n]
      /\ trades'[NextTrade].owner = e
      /\ (\E n \in Opened : Newest(e, n))'
  BY <1>1, OpensOne
<1>3. Rest'
  BY <1>1, <1>2 DEF Rest
<1>4. pc' = [pc EXCEPT ![Tick(e)] = label] /\ pc' \in [Threads -> Labels]
  BY <1>1 DEF Goto, Filling, Labels
<1>5. TypeOK'
  BY <1>2, <1>3, <1>4, TypePartsNext DEF TradeIds, NextTrade
<1>6. ASSUME NEW f \in Engines
      PROVE  HasNewest(f)'
  <2>1. CASE f = e
    BY <2>1, <1>2 DEF HasNewest
  <2>2. CASE f # e /\ pc'[Tick(f)] \in Filling
    <3>1. pc[Tick(f)] \in Filling
      BY <2>2, <1>1, <1>4, ThreadsOf, ThreadsDiffer
    <3>2. PICK n \in Opened : Newest(f, n)
      BY <3>1 DEF Base, HasNewest
    <3>3. Newest(f, n)'
      BY <3>2, <2>2, <1>2 DEF Newest
    <3> QED
      BY <3>3, <1>2 DEF HasNewest
  <2> QED
    BY <2>1, <2>2 DEF HasNewest
<1>7. ASSUME NEW f \in Engines
      PROVE  HoldsOwn(f)'
  BY <1>2 DEF Base, HoldsOwn, OwnTrade
<1> QED
  BY <1>5, <1>6, <1>7 DEF Base

LEMMA SideIsDirection ==
    ASSUME TypeOK, NEW e \in Engines
    PROVE  signal[e] \in Sides /\ signal[e] \in Coordinator!Directions /\ signal[e] # "none"
BY DEF TypeOK, Sides, Coordinator!Directions, Coordinator!Sides

\* Live: the order is about to be sent.
LEMMA ReserveTypes ==
    ASSUME Base, NEW e \in Engines, Reserve(e)
    PROVE  Base'
<1>1. TypeOK /\ Rest /\ BotKey(e) \in Coordinator!BotKeys /\ NextTrade \in TradeIds
  BY BaseTypes, EngineShape DEF Reserve
<1>2. accountEquity' \in Nat
  BY <1>1, TradingGroupAssumption DEF Reserve, Rest
<1>3. UNCHANGED <<signal, gone, todo, engines, generation, phase, dryRun>>
  BY DEF Reserve
<1>4. ASSUME NEW m \in Margins, reservations' = Coordinator!Reserved(BotKey(e), m, signal[e]),
             IF dryRun THEN Opens(e) /\ Goto(Tick(e), "insert")
                       ELSE UNCHANGED trades /\ Goto(Tick(e), "order")
      PROVE  Base'
  <2>1. m \in Nat
    BY TradingGroupAssumption
  <2>2. reservations' \in Reservations /\ Clean(reservations')
    BY <2>1, <1>1, <1>4, SideIsDirection, Reserving DEF Rest
  <2>3. CASE dryRun
    BY <2>2, <2>3, <1>1, <1>2, <1>3, <1>4, OpensTypes DEF Filling
  <2>4. CASE ~dryRun
    <3>1. Edited
      BY <2>4, <1>1, <1>4, KeepTrades
    <3>2. Rest'
      BY <3>1, <2>2, <1>1, <1>2, <1>3 DEF Rest, Edited
    <3> QED
      BY <3>1, <3>2, <2>4, <1>3, <1>4, ThreadsOf, GotoStep DEF Labels, Filling
  <2> QED
    BY <2>3, <2>4
<1>5. ASSUME Goto(Tick(e), "idle"), UNCHANGED <<reservations, trades>>
      PROVE  Base'
  <2>1. Edited
    BY <1>1, <1>5, KeepTrades
  <2>2. Rest'
    BY <2>1, <1>1, <1>2, <1>3, <1>5 DEF Rest, Edited
  <2> QED
    BY <2>1, <2>2, <1>3, <1>5, ThreadsOf, GotoStep DEF Labels, Filling
<1> QED
  BY <1>4, <1>5 DEF Reserve

LEMMA OrderFilledTypes ==
    ASSUME Base, NEW e \in Engines, OrderFilled(e)
    PROVE  Base'
<1>1. TypeOK /\ Rest /\ BotKey(e) \in Coordinator!BotKeys
  BY BaseTypes, EngineShape
<1>2. PICK m \in Margins : reservations' = Coordinator!Reserved(BotKey(e), m, signal[e])
  BY DEF OrderFilled
<1>3. m \in Nat
  BY TradingGroupAssumption
<1>4. reservations' \in Reservations /\ Clean(reservations')
  BY <1>1, <1>2, <1>3, SideIsDirection, Reserving DEF Rest
<1> QED
  BY <1>1, <1>4, OpensTypes DEF OrderFilled, Filling, Rest

\* The entry is given up.
LEMMA AbandonTypes ==
    ASSUME Base, NEW e \in Engines, Abandon(e), Edited
    PROVE  Base'
<1>1. Rest /\ BotKey(e) \in Coordinator!BotKeys
  BY BaseTypes, EngineShape
<1>2. reservations' \in Reservations /\ Clean(reservations')
  BY <1>1, Releasing DEF Abandon, Rest
<1>3. Rest'
  BY <1>1, <1>2 DEF Rest, Abandon, Edited
<1> QED
  BY <1>3, ThreadsOf, GotoStep DEF Abandon, Labels, Filling

\* A trade is edited: whether the market holds it, or its row.
LEMMA EditMarket ==
    ASSUME Base, NEW n \in Opened, NEW x \in BOOLEAN, trades' = [trades EXCEPT ![n].open = x]
    PROVE  /\ Edited
           /\ \A m \in Opened \ {n} : trades'[m] = trades[m]
           /\ trades'[n].open = x /\ trades'[n].row = trades[n].row
           /\ trades'[n].booked = trades[n].booked
<1> DEFINE r == [trades[n] EXCEPT !.open = x]
<1>1. TypeOK /\ trades \in [Opened -> Trade] /\ trades[n] \in Trade
  BY BaseTypes
<1>2. /\ r \in Trade /\ r.owner = trades[n].owner /\ r.side = trades[n].side
      /\ r.open = x /\ r.row = trades[n].row /\ r.booked = trades[n].booked
  BY <1>1 DEF Trade
<1>3. trades' = [trades EXCEPT ![n] = r]
  BY <1>1
<1> HIDE DEF r
<1> QED
  BY <1>1, <1>2, <1>3, EditOne

LEMMA EditRow ==
    ASSUME Base, NEW n \in Opened, NEW row \in {"none", "open", "closed"},
           trades' = [trades EXCEPT ![n].row = row]
    PROVE  /\ Edited
           /\ \A m \in Opened \ {n} : trades'[m] = trades[m]
           /\ trades'[n].open = trades[n].open /\ trades'[n].row = row
           /\ trades'[n].booked = trades[n].booked
<1> DEFINE r == [trades[n] EXCEPT !.row = row]
<1>1. TypeOK /\ trades \in [Opened -> Trade] /\ trades[n] \in Trade
  BY BaseTypes
<1>2. /\ r \in Trade /\ r.owner = trades[n].owner /\ r.side = trades[n].side
      /\ r.open = trades[n].open /\ r.row = row /\ r.booked = trades[n].booked
  BY <1>1 DEF Trade
<1>3. trades' = [trades EXCEPT ![n] = r]
  BY <1>1
<1> HIDE DEF r
<1> QED
  BY <1>1, <1>2, <1>3, EditOne

LEMMA EmergencyTypes ==
    ASSUME Base, NEW e \in Engines, EmergencyClose(e)
    PROVE  Base'
<1>1. ASSUME trades' = [trades EXCEPT ![Opening(e)].open = FALSE], Abandon(e)
      PROVE  Base'
  <2>1. Opening(e) \in Opened
    BY OpeningIsNewest DEF EmergencyClose, At, Filling
  <2> QED
    BY <1>1, <2>1, EditMarket, AbandonTypes
<1>2. ASSUME Goto(Tick(e), "insert"),
             UNCHANGED <<coordinator, signal, gone, todo, engines,
                         generation, phase, dryRun, trades>>
      PROVE  Base'
  BY <1>2, ThreadsOf, OnlyGoto DEF EmergencyClose, At, Labels, Filling
<1> QED
  BY <1>1, <1>2 DEF EmergencyClose

LEMMA InsertTypes ==
    ASSUME Base, NEW e \in Engines, Insert(e)
    PROVE  Base'
<1> DEFINE n == Opening(e)
<1>1. n \in Opened /\ Newest(e, n)
  BY OpeningIsNewest DEF Insert, At, Filling
<1>2. Rest /\ trades[n] \in Trade /\ Opened \subseteq TradeIds
  BY <1>1, BaseTypes
<1>3. /\ trades' = [trades EXCEPT ![n].row = IF engines[e].session THEN "open" ELSE trades[n].row]
      /\ engines' = [engines EXCEPT ![e].openPositions = @ \cup {n}]
      /\ Goto(Tick(e), "idle")
      /\ UNCHANGED <<coordinator, signal, gone, todo, generation, phase, dryRun>>
  BY DEF Insert
<1> HIDE DEF n
<1>4. PICK row \in {"none", "open", "closed"} : trades' = [trades EXCEPT ![n].row = row]
  BY <1>2, <1>3 DEF Trade
<1>5. Edited
  BY <1>1, <1>4, EditRow
<1>6. engines' \in [Engines -> Engine]
  BY <1>1, <1>2, <1>3 DEF Rest, Engine
<1>7. \A f \in Engines : \A m \in engines'[f].openPositions :
          m \in engines[f].openPositions \/ OwnTrade(f, m)
  BY <1>1, <1>2, <1>3 DEF Rest, Engine, OwnTrade, Newest
<1>8. Rest'
  BY <1>2, <1>3, <1>5, <1>6 DEF Rest, coordinator, Edited
<1> QED
  BY <1>3, <1>5, <1>7, <1>8, ThreadsOf, GotoStep DEF Labels, Filling

LEMMA EntryTypes ==
    ASSUME Base, NEW e \in Engines, Entry(e)
    PROVE  Base'
<1>1. CASE OrderRejected(e)
  BY <1>1, BaseTypes, KeepTrades, AbandonTypes DEF OrderRejected
<1>2. CASE InsertFails(e)
  BY <1>2, BaseTypes, KeepTrades, AbandonTypes, NoEntryTypes DEF InsertFails
<1> QED
  BY <1>1, <1>2, LookTypes, DecideTypes, ReserveTypes, OrderFilledTypes, EmergencyTypes,
     InsertTypes DEF Entry
----------------------------------------------------------------------------
(* Stop, start and the market *)

\* A stop moves the flags of its engine and its own thread.
LEMMA StopTypes ==
    ASSUME Base, NEW e \in Engines, StopBegin(e) \/ StopFinish(e) \/ CloseSession(e)
    PROVE  Base'
<1>1. Rest /\ TypeOK
  BY BaseTypes
<1>2. Edited
  BY <1>1, KeepTrades DEF StopBegin, StopFinish, CloseSession
<1>3. reservations' \in Reservations /\ Clean(reservations') /\ accountEquity' = accountEquity
  BY <1>1, FlatRelease DEF StopBegin, StopFinish, CloseSession, Rest, coordinator
<1>4. /\ engines' \in [Engines -> Engine]
      /\ \A f \in Engines : engines'[f].openPositions = engines[f].openPositions
  <2>1. CASE StopBegin(e)
    BY <2>1, <1>1 DEF StopBegin, Rest, Engine
  <2>2. CASE StopFinish(e)
    BY <2>2, <1>1 DEF StopFinish, Rest, Engine
  <2>3. CASE CloseSession(e)
    BY <2>3, <1>1 DEF CloseSession, Rest, Engine
  <2> QED
    BY <2>1, <2>2, <2>3
<1>5. UNCHANGED <<signal, gone, todo, generation, phase, dryRun>>
  BY DEF StopBegin, StopFinish, CloseSession
<1>6. Rest'
  BY <1>1, <1>2, <1>3, <1>4, <1>5 DEF Rest, Edited
<1>7. PICK label \in Labels \ Filling : Goto(Stop(e), label)
  BY DEF StopBegin, StopFinish, CloseSession, Labels, Filling
<1> QED
  BY <1>2, <1>4, <1>6, <1>7, ThreadsOf, GotoStep

LEMMA EngineStartTypes ==
    ASSUME Base, NEW e \in Engines, EngineStart(e)
    PROVE  Base'
<1>1. /\ Rest /\ TypeOK /\ trades \in [Opened -> Trade] /\ Opened \subseteq TradeIds
      /\ BotKey(e) \in Coordinator!BotKeys
  BY BaseTypes, EngineShape
<1>2. PICK held, ended, unseen \in SUBSET OwnRows(e) : Starts(e, held, ended, unseen)
  BY <1>1, EngineStartIs
<1>3. held \subseteq TradeIds /\ unseen \subseteq TradeIds /\ held \subseteq Opened
  BY <1>1, ReconciledTypes
<1>4. Edited
  <2>1. trades' = [n \in Opened |-> IF n \in ended THEN [trades[n] EXCEPT !.row = "closed"]
                                   ELSE trades[n]]
    BY <1>2 DEF Starts
  <2>2. ASSUME NEW n \in Opened
        PROVE  LET r == [trades[n] EXCEPT !.row = "closed"] IN
               r \in Trade /\ r.owner = trades[n].owner /\ r.side = trades[n].side
    BY <1>1 DEF Trade
  <2>3. /\ trades' \in [Opened -> Trade]
        /\ \A n \in Opened : trades'[n].owner = trades[n].owner /\ trades'[n].side = trades[n].side
    BY <1>1, <2>1, <2>2
  <2> QED
    BY <1>1, <2>3, EditMany
<1>5. reservations' \in Reservations /\ Clean(reservations')
  <2>1. ASSUME NEW n \in held, NEW m \in Margins
        PROVE  m \in Nat /\ trades[n].side \in Coordinator!Directions
    BY <1>1, <1>3, <2>1, TradingGroupAssumption
       DEF Trade, Sides, Coordinator!Directions, Coordinator!Sides
  <2> QED
    BY <1>1, <1>2, <2>1, Reserving DEF Starts, Rest
<1>6. /\ engines' \in [Engines -> Engine]
      /\ \A f \in Engines : \A n \in engines'[f].openPositions :
             n \in engines[f].openPositions \/ OwnTrade(f, n)
  BY <1>1, <1>2, <1>3 DEF Starts, Rest, Engine, OwnTrade, OwnRows
<1>7. Rest'
  BY <1>1, <1>4, <1>5, <1>6 DEF Rest, EngineStart, Edited
<1> QED
  BY <1>4, <1>6, <1>7, ThreadsOf, GotoStep DEF EngineStart, Labels, Filling

LEMMA GroupTypes ==
    ASSUME Base, NEW s \in Symbols,
           GroupStart(s) \/ GroupStop(s) \/ GroupStopped(s) \/ Repost(s)
    PROVE  Base'
<1>1. Rest /\ TypeOK
  BY BaseTypes
<1>2. UNCHANGED <<threads, engines, trades, dryRun>>
  BY DEF GroupStart, GroupStop, GroupStopped, Repost
<1>3. Edited
  BY <1>1, <1>2, KeepTrades
<1>4. reservations' \in Reservations /\ Clean(reservations')
  BY <1>1, GroupReserving DEF GroupStart, GroupStop, GroupStopped, Repost, coordinator, Rest
<1>5. accountEquity' \in Nat
  BY <1>1, TradingGroupAssumption
     DEF GroupStart, GroupStop, GroupStopped, Repost, coordinator, Rest
<1>6. /\ generation' \in [Symbols -> 0..MaxGenerations]
      /\ phase' \in [Symbols -> {"down", "up", "stopping"}]
  BY <1>1, TradingGroupAssumption DEF GroupStart, GroupStop, GroupStopped, Repost, Rest
<1>7. Rest'
  BY <1>1, <1>2, <1>3, <1>4, <1>5, <1>6 DEF Rest, threads, Edited
<1> QED
  BY <1>1, <1>2, <1>3, <1>7, BaseTypes, EditStep DEF threads

LEMMA MarketTypes ==
    ASSUME Base, NEW n \in Opened, MarketCloses(n)
    PROVE  Base'
<1>1. Rest /\ Edited
  BY BaseTypes, EditMarket DEF MarketCloses
<1>2. Rest'
  BY <1>1 DEF Rest, MarketCloses, coordinator, threads, Edited
<1> QED
  BY <1>1, <1>2, BaseTypes, EditStep DEF MarketCloses, threads

LEMMA BaseInit == Init => Base
<1> SUFFICES ASSUME Init PROVE Base
  OBVIOUS
<1>1. trades = <<>> /\ trades \in Seq(Trade) /\ Len(trades) = 0 /\ Opened = {}
  BY EmptySeq DEF Init, Opened
<1>2. reservations \in Reservations /\ Clean(reservations) /\ accountEquity \in Nat
  BY DEF Init, Coordinator!Empty, Reservations, Clean, Coordinator!NoReservation,
         Coordinator!Reservation, Coordinator!Directions
<1>3. Rest
  BY <1>1, <1>2, TradingGroupAssumption DEF Init, Rest, Engine, Fresh, Sides
<1>4. TypeOK
  BY <1>1, <1>3, TypeParts, TradingGroupAssumption DEF Init, Labels
<1> QED
  BY <1>1, <1>4, ThreadsOf DEF Init, Base, HasNewest, Filling, HoldsOwn, Fresh

LEMMA BaseStep ==
    ASSUME Base, [Next]_vars
    PROVE  Base'
<1>1. ASSUME NEW e \in Engines, EngineStart(e) \/ Ticking(e) \/ Stopping(e)
      PROVE  Base'
  BY <1>1, EngineStartTypes, PassTypes, EntryTypes, StopTypes, LookTypes, ThreadsOf
     DEF Ticking, Stopping
<1>2. ASSUME UNCHANGED vars
      PROVE  Base'
  <2>1. Rest /\ Edited
    BY <1>2, BaseTypes, KeepTrades DEF vars
  <2>2. Rest'
    BY <1>2, <2>1 DEF Rest, vars, coordinator, threads, Edited
  <2> QED
    BY <1>2, <2>1, <2>2, BaseTypes, EditStep DEF vars, threads
<1> QED
  BY <1>1, <1>2, GroupTypes, MarketTypes DEF Next

\* No step changes the mode of the bots.
LEMMA ModeKept ==
    ASSUME [Next]_vars
    PROVE  dryRun' = dryRun
<1>1. ASSUME NEW th \in Threads, Pass(th) PROVE dryRun' = dryRun
  BY <1>1 DEF Pass, Reconcile, Sync, SyncFails, Book, PassEnd
<1>2. ASSUME NEW e \in Engines, TickBegin(e) \/ Entry(e) PROVE dryRun' = dryRun
  BY <1>2 DEF TickBegin, Entry, Decide, Gate, Cap, Reserve, BalanceFails, OrderFilled,
         OrderRejected,
              Protect, EmergencyClose, Insert, InsertFails, NoEntry, Abandon
<1>3. ASSUME NEW e \in Engines, EngineStart(e) \/ Ticking(e) \/ Stopping(e) PROVE dryRun' = dryRun
  BY <1>1, <1>2, <1>3, ThreadsOf
     DEF EngineStart, Ticking, Stopping, StopBegin, StopFinish, CloseSession
<1> QED
  BY <1>3 DEF Next, GroupStart, GroupStop, GroupStopped, Repost, MarketCloses, vars

\* The state of the engines, the exchange and the trades table keeps its type.
THEOREM TypeCorrect == Spec => []TypeOK
<1>1. Base => TypeOK
  BY DEF Base
<1> QED
  BY <1>1, BaseInit, BaseStep, PTL DEF Spec
----------------------------------------------------------------------------
(* The life of an engine object, under any stops and restarts: what its flags say, its threads
   and its coin agree with. *)

Edge == {"off", "session", "done"}

Life(e) ==
    /\ pc[Tick(e)] = "off" => pc[Stop(e)] = "off" /\ ~engines[e].running /\ ~engines[e].session
    /\ pc[Tick(e)] # "off" => /\ e[3] <= generation[Coin(e)]
                              /\ engines[e].session \/ pc[Stop(e)] = "done"
    /\ pc[Stop(e)] # "off" => engines[e].stopRequested
    /\ pc[Stop(e)] \in {"session", "done"} => ~engines[e].running
    /\ pc[Stop(e)] = "done" => ~engines[e].session
    /\ engines[e].session => e[3] = generation[Coin(e)] /\ phase[Coin(e)] # "down"
    /\ phase[Coin(e)] = "stopping" /\ e[3] = generation[Coin(e)] => pc[Tick(e)] # "off"

Lives == \A e \in Engines : Life(e)

SameFlags(f) ==
    /\ engines'[f].running = engines[f].running
    /\ engines'[f].stopRequested = engines[f].stopRequested
    /\ engines'[f].session = engines[f].session

\* A pass and an entry move a thread between its inner labels, and no flag.
Onward(th) ==
    /\ pc[th] \notin Edge
    /\ \E label \in Labels \ Edge : pc' = [pc EXCEPT ![th] = label]
    /\ \A f \in Engines : SameFlags(f)
    /\ UNCHANGED <<generation, phase, dryRun>>

LEMMA FlagsKept ==
    ASSUME Base, engines' = engines
    PROVE  \A f \in Engines : SameFlags(f)
BY DEF SameFlags

LEMMA PositionsOnly ==
    ASSUME Base, NEW e \in Engines, NEW kept, engines' = [engines EXCEPT ![e].openPositions = kept]
    PROVE  /\ \A f \in Engines : SameFlags(f)
           /\ engines'[e].openPositions = kept /\ engines'[e].unseen = engines[e].unseen
           /\ \A f \in Engines \ {e} : engines'[f] = engines[f]
BY BaseTypes DEF SameFlags, Rest, Engine

LEMMA PositionsRead ==
    ASSUME Base, NEW e \in Engines, NEW found, NEW unseen, ReadsBack(e, found, unseen)
    PROVE  /\ \A f \in Engines : SameFlags(f)
           /\ engines'[e].openPositions = engines[e].openPositions \cup found
           /\ engines'[e].unseen = unseen
           /\ \A f \in Engines \ {e} : engines'[f] = engines[f]
BY BaseTypes DEF SameFlags, Rest, Engine, ReadsBack

LEMMA PassOnward ==
    ASSUME Base, NEW th \in Threads, Pass(th)
    PROVE  Onward(th)
<1>1. th[1] \in Engines /\ pc \in [Threads -> Labels]
  BY ThreadShape, BaseTypes
<1>2. CASE Reconcile(th)
  <2>1. PICK found, unseen : ReadsBack(th[1], found, unseen)
    BY <1>2, ReconcileIs
  <2>2. PICK label \in Labels \ Edge : Goto(th, label)
    BY <1>2 DEF Reconcile, Labels, Edge
  <2> QED
    BY <2>1, <2>2, <1>1, <1>2, PositionsRead DEF Reconcile, Onward, Goto, At, Edge
<1>3. CASE PassEnd(th)
  <2>1. PICK kept : engines' = [engines EXCEPT ![th[1]].openPositions = kept]
    BY <1>3 DEF PassEnd
  <2>2. PICK label \in Labels \ Edge : Goto(th, label)
    BY <1>3 DEF PassEnd, Labels, Edge
  <2> QED
    BY <2>1, <2>2, <1>1, <1>3, PositionsOnly DEF PassEnd, Onward, Goto, At, Edge
<1>4. CASE Sync(th)
  <2>1. Goto(th, "book") /\ At(th, "sync") /\ UNCHANGED <<engines, generation, phase, dryRun>>
    BY <1>4 DEF Sync
  <2> QED
    BY <2>1, FlagsKept DEF Onward, Goto, At, Edge, Labels
<1>5. CASE SyncFails(th)
  <2>1. PICK label \in Labels \ Edge : Goto(th, label)
    BY <1>5 DEF SyncFails, Labels, Edge
  <2> QED
    BY <2>1, <1>5, FlagsKept DEF SyncFails, Onward, Goto, At, Edge
<1>6. CASE Book(th)
  <2>1. pc' = [pc EXCEPT ![th] = "book"] /\ pc[th] = "book"
        /\ UNCHANGED <<engines, generation, phase, dryRun>>
    BY <1>1, <1>6 DEF Book, At
  <2> QED
    BY <2>1, FlagsKept DEF Onward, Edge, Labels
<1> QED
  BY <1>2, <1>3, <1>4, <1>5, <1>6 DEF Pass

LEMMA EntryOnward ==
    ASSUME Base, NEW e \in Engines, TickBegin(e) \/ Entry(e)
    PROVE  Onward(Tick(e))
<1>1. CASE Insert(e)
  <2>1. PICK kept : engines' = [engines EXCEPT ![e].openPositions = kept]
    BY <1>1 DEF Insert
  <2> QED
    BY <2>1, <1>1, PositionsOnly DEF Insert, Onward, Goto, At, Edge, Labels
<1>2. CASE ~Insert(e)
  <2>1. UNCHANGED <<engines, generation, phase, dryRun>>
    BY <1>2 DEF TickBegin, Entry, Decide, Gate, Cap, Reserve, BalanceFails, OrderFilled,
                OrderRejected, Protect, EmergencyClose, InsertFails, NoEntry, Abandon
  <2>2. PICK label \in Labels \ Edge : Goto(Tick(e), label)
    BY <1>2 DEF TickBegin, Entry, Decide, Gate, Cap, Reserve, BalanceFails, OrderFilled,
                OrderRejected, Protect, EmergencyClose, InsertFails, NoEntry, Abandon, Labels, Edge
  <2>3. pc[Tick(e)] \notin Edge
    BY <1>2 DEF TickBegin, Entry, Decide, Gate, Cap, Reserve, BalanceFails, OrderFilled,
                OrderRejected, Protect, EmergencyClose, InsertFails, At, Edge
  <2> QED
    BY <2>1, <2>2, <2>3, FlagsKept DEF Onward, Goto
<1> QED
  BY <1>1, <1>2

LEMMA OnwardLives ==
    ASSUME Base, Lives, NEW th \in Threads, Onward(th)
    PROVE  Lives'
<1> SUFFICES ASSUME NEW f \in Engines PROVE Life(f)'
  BY DEF Lives
<1>1. /\ Life(f) /\ SameFlags(f) /\ UNCHANGED <<generation, phase, dryRun>>
      /\ pc \in [Threads -> Labels] /\ Tick(f) \in Threads /\ Stop(f) \in Threads
  BY BaseTypes, ThreadsOf DEF Lives, Onward
<1>2. \/ pc'[Tick(f)] = pc[Tick(f)]
      \/ pc[Tick(f)] \notin Edge /\ pc'[Tick(f)] \notin Edge
  BY <1>1 DEF Onward
<1>3. \/ pc'[Stop(f)] = pc[Stop(f)]
      \/ pc[Stop(f)] \notin Edge /\ pc'[Stop(f)] \notin Edge
  BY <1>1 DEF Onward
<1> QED
  BY <1>1, <1>2, <1>3 DEF Life, SameFlags, Edge

LEMMA StopBeginLives ==
    ASSUME Base, Lives, NEW e \in Engines, StopBegin(e)
    PROVE  Lives'
<1> SUFFICES ASSUME NEW f \in Engines PROVE Life(f)'
  BY DEF Lives
<1>1. Life(f) /\ Life(e) /\ Rest /\ pc \in [Threads -> Labels]
  BY BaseTypes DEF Lives
<1>2. PICK label \in Labels \ Edge : pc' = [pc EXCEPT ![Stop(e)] = label]
  BY DEF StopBegin, Goto, Labels, Edge
<1>3. /\ pc'[Tick(f)] = pc[Tick(f)]
      /\ pc'[Stop(f)] = IF f = e THEN label ELSE pc[Stop(f)]
  BY <1>1, <1>2, ThreadsOf, ThreadsDiffer
<1>4. /\ engines'[f].running = engines[f].running /\ engines'[f].session = engines[f].session
      /\ engines'[f].stopRequested = IF f = e THEN TRUE ELSE engines[f].stopRequested
  BY <1>1 DEF StopBegin, Rest, Engine
<1>5. /\ phase' = phase /\ generation' = generation
      /\ phase[Coin(e)] = "stopping" /\ e[3] = generation[Coin(e)]
  BY DEF StopBegin, Current
<1>6. pc[Tick(e)] # "off" /\ pc[Stop(e)] = "off"
  BY <1>1, <1>5 DEF Life, StopBegin, At
<1> QED
  BY <1>1, <1>3, <1>4, <1>5, <1>6 DEF Life, Edge

LEMMA StopFinishLives ==
    ASSUME Base, Lives, NEW e \in Engines, StopFinish(e)
    PROVE  Lives'
<1> SUFFICES ASSUME NEW f \in Engines PROVE Life(f)'
  BY DEF Lives
<1>1. Life(f) /\ Life(e) /\ Rest /\ pc \in [Threads -> Labels]
  BY BaseTypes DEF Lives
<1> DEFINE label == IF engines[e].session THEN "session" ELSE "done"
<1>2. pc' = [pc EXCEPT ![Stop(e)] = label] /\ pc[Stop(e)] = "finish"
  BY DEF StopFinish, Goto, At
<1>3. /\ pc'[Tick(f)] = pc[Tick(f)]
      /\ pc'[Stop(f)] = IF f = e THEN label ELSE pc[Stop(f)]
  BY <1>1, <1>2, ThreadsOf, ThreadsDiffer
<1>4. /\ engines'[f].running = IF f = e THEN FALSE ELSE engines[f].running
      /\ engines'[f].session = engines[f].session
      /\ engines'[f].stopRequested = engines[f].stopRequested
  BY <1>1 DEF StopFinish, Rest, Engine
<1>5. phase' = phase /\ generation' = generation
  BY DEF StopFinish
<1> QED
  BY <1>1, <1>2, <1>3, <1>4, <1>5 DEF Life

LEMMA CloseSessionLives ==
    ASSUME Base, Lives, NEW e \in Engines, CloseSession(e)
    PROVE  Lives'
<1> SUFFICES ASSUME NEW f \in Engines PROVE Life(f)'
  BY DEF Lives
<1>1. Life(f) /\ Life(e) /\ Rest /\ pc \in [Threads -> Labels]
  BY BaseTypes DEF Lives
<1>2. pc' = [pc EXCEPT ![Stop(e)] = "done"] /\ pc[Stop(e)] = "session"
  BY DEF CloseSession, Goto, At
<1>3. /\ pc'[Tick(f)] = pc[Tick(f)]
      /\ pc'[Stop(f)] = IF f = e THEN "done" ELSE pc[Stop(f)]
  BY <1>1, <1>2, ThreadsOf, ThreadsDiffer
<1>4. /\ engines'[f].running = engines[f].running
      /\ engines'[f].session = IF f = e THEN FALSE ELSE engines[f].session
      /\ engines'[f].stopRequested = engines[f].stopRequested
  BY <1>1 DEF CloseSession, Rest, Engine
<1>5. phase' = phase /\ generation' = generation
  BY DEF CloseSession
<1> QED
  BY <1>1, <1>2, <1>3, <1>4, <1>5 DEF Life

LEMMA EngineStartLives ==
    ASSUME Base, Lives, NEW e \in Engines, EngineStart(e)
    PROVE  Lives'
<1> SUFFICES ASSUME NEW f \in Engines PROVE Life(f)'
  BY DEF Lives
<1>1. Life(f) /\ Life(e) /\ Rest /\ pc \in [Threads -> Labels]
  BY BaseTypes DEF Lives
<1>2. pc' = [pc EXCEPT ![Tick(e)] = "idle"] /\ pc[Tick(e)] = "off"
  BY DEF EngineStart, Goto, At
<1>3. /\ pc'[Tick(f)] = IF f = e THEN "idle" ELSE pc[Tick(f)]
      /\ pc'[Stop(f)] = pc[Stop(f)]
  BY <1>1, <1>2, ThreadsOf, ThreadsDiffer
<1>6. PICK held, ended, unseen : Starts(e, held, ended, unseen)
  BY BaseTypes, EngineStartIs
<1>4. IF f = e THEN engines'[f].running /\ engines'[f].session
              ELSE engines'[f] = engines[f]
  BY <1>1, <1>6 DEF Starts, Rest, Engine
<1>5. /\ phase' = phase /\ generation' = generation
      /\ phase[Coin(e)] = "up" /\ e[3] = generation[Coin(e)] /\ generation[Coin(e)] \in Nat
  BY <1>1, EngineShape DEF EngineStart, Current, Rest
<1> QED
  BY <1>1, <1>2, <1>3, <1>4, <1>5 DEF Life

LEMMA GroupLives ==
    ASSUME Base, Lives, NEW s \in Symbols,
           GroupStart(s) \/ GroupStop(s) \/ GroupStopped(s) \/ Repost(s)
    PROVE  Lives'
<1> SUFFICES ASSUME NEW f \in Engines PROVE Life(f)'
  BY DEF Lives
<1>1. /\ Life(f) /\ Rest /\ f \in Engines /\ Coin(f) \in Symbols
      /\ f[3] \in Nat /\ generation[Coin(f)] \in Nat
  BY BaseTypes, EngineShape, TradingGroupAssumption DEF Lives, Rest
<1>2. UNCHANGED <<pc, engines>>
  BY DEF GroupStart, GroupStop, GroupStopped, Repost, threads
<1>3. CASE Coin(f) # s \/ Repost(s)
  <2>1. generation'[Coin(f)] = generation[Coin(f)] /\ phase'[Coin(f)] = phase[Coin(f)]
    BY <1>1, <1>3 DEF GroupStart, GroupStop, GroupStopped, Repost, Rest
  <2> QED
    BY <1>1, <1>2, <2>1 DEF Life
<1>4. CASE Coin(f) = s /\ GroupStart(s)
  <2>1. /\ generation'[s] = generation[s] + 1 /\ phase'[s] = "up" /\ phase[s] = "down"
    BY <1>1, <1>4 DEF GroupStart, Rest
  <2> QED
    BY <1>1, <1>2, <1>4, <2>1 DEF Life
<1>5. CASE Coin(f) = s /\ GroupStop(s)
  <2>1. /\ generation' = generation /\ phase'[s] = "stopping" /\ phase[s] = "up"
        /\ f[3] = generation[s] => pc[Tick(f)] # "off"
    BY <1>1, <1>5 DEF GroupStop, Rest, Current, At
  <2> QED
    BY <1>1, <1>2, <1>5, <2>1 DEF Life
<1>6. CASE Coin(f) = s /\ GroupStopped(s)
  <2>1. /\ generation' = generation /\ phase'[s] = "down" /\ phase[s] = "stopping"
        /\ f[3] = generation[s] => pc[Stop(f)] = "done"
    BY <1>1, <1>6 DEF GroupStopped, Rest, Current, At
  <2> QED
    BY <1>1, <1>2, <1>6, <2>1 DEF Life
<1> QED
  BY <1>3, <1>4, <1>5, <1>6

LEMMA LivesInit == Init => Lives
<1> SUFFICES ASSUME Init, NEW e \in Engines PROVE Life(e)
  BY DEF Lives
<1>1. /\ pc[Tick(e)] = "off" /\ pc[Stop(e)] = "off" /\ engines[e] = Fresh
      /\ phase[Coin(e)] = "down"
  BY ThreadsOf, EngineShape DEF Init
<1> QED
  BY <1>1 DEF Life, Fresh

LEMMA LivesStep ==
    ASSUME Base, Lives, [Next]_vars
    PROVE  Lives'
<1>1. ASSUME NEW e \in Engines, EngineStart(e) \/ Ticking(e) \/ Stopping(e)
      PROVE  Lives'
  BY <1>1, EngineStartLives, StopBeginLives, StopFinishLives, CloseSessionLives,
     PassOnward, EntryOnward, OnwardLives, ThreadsOf DEF Ticking, Stopping
<1>2. ASSUME \/ \E n \in Opened : MarketCloses(n)
             \/ UNCHANGED vars
      PROVE  Lives'
  BY <1>2 DEF MarketCloses, vars, threads, Lives, Life
<1> QED
  BY <1>1, <1>2, GroupLives DEF Next
----------------------------------------------------------------------------
(* Rows and positions: RowsTracked.  Rows of the market's positions are added by the engine's
   own insert only, and none of them is among what its tick has found gone. *)

Tracked(e) ==
    e[3] = generation[Coin(e)] /\ engines[e].running /\ ~engines[e].stopRequested =>
        \A n \in OwnRows(e) :
            trades[n].open => n \in engines[e].openPositions \cup engines[e].unseen

Gone(e) ==
    pc[Tick(e)] = "book" /\ e[3] = generation[Coin(e)] =>
        \A n \in OwnRows(e) :
            trades[n].open => (IF dryRun THEN n ELSE trades[n].side) \notin gone[Tick(e)]

RowsInv == \A e \in Engines : Tracked(e) /\ Gone(e)

\* The step adds no row of a position the market holds.
NoNewRow ==
    \A n \in Opened' : trades'[n].row = "open" /\ trades'[n].open =>
        /\ n \in Opened /\ trades[n].row = "open" /\ trades[n].open
        /\ trades'[n].owner = trades[n].owner /\ trades'[n].side = trades[n].side

\* The step takes nothing from an engine, nor starts it, nor has it found anything gone.
Still(e) ==
    /\ dryRun' = dryRun
    /\ generation'[Coin(e)] = generation[Coin(e)]
    /\ engines'[e].running => engines[e].running
    /\ ~engines'[e].stopRequested => ~engines[e].stopRequested
    /\ \A n \in OwnRows(e) :
          trades[n].open /\ n \in engines[e].openPositions \cup engines[e].unseen
              => n \in engines'[e].openPositions \cup engines'[e].unseen
    /\ pc'[Tick(e)] = "book" => pc[Tick(e)] = "book" /\ gone'[Tick(e)] = gone[Tick(e)]

LEMMA StillTracked ==
    ASSUME NEW e \in Engines, Tracked(e), Gone(e), NoNewRow, Still(e)
    PROVE  Tracked(e)' /\ Gone(e)'
<1>1. ASSUME NEW n \in OwnRows(e)', trades'[n].open
      PROVE  n \in OwnRows(e) /\ trades[n].open /\ trades'[n].side = trades[n].side
  BY <1>1 DEF NoNewRow, OwnRows
<1>2. Tracked(e)'
  BY <1>1 DEF Tracked, Still
<1>3. Gone(e)'
  BY <1>1 DEF Gone, Still
<1> QED
  BY <1>2, <1>3

LEMMA SameTradesNoRow ==
    ASSUME trades' = trades
    PROVE  NoNewRow
BY DEF NoNewRow, Opened

\* An open row whose position is in the market is found by whoever looks.
LEMMA InTheMarket ==
    ASSUME TypeOK, NEW e \in Engines, NEW n \in OwnRows(e), trades[n].open,
           trades \in [Opened -> Trade]
    PROVE  n \in Reconciled(e)
BY SameKeySameCoin DEF Reconciled, OpenSides, OwnRows, Trade

LEMMA ReconcileRows ==
    ASSUME Base, RowsInv, NEW th \in Threads, Reconcile(th)
    PROVE  RowsInv'
<1>1. th[1] \in Engines /\ Rest /\ pc \in [Threads -> Labels]
  BY ThreadShape, BaseTypes
<1>2. PICK found \in {{}, Reconciled(th[1])}, unseen \in {{}, engines[th[1]].unseen} :
          /\ ReadsBack(th[1], found, unseen)
          /\ unseen = engines[th[1]].unseen \/ found = Reconciled(th[1])
  BY ReconcileIs
<1>3. PICK label \in Labels \ {"book"} : pc' = [pc EXCEPT ![th] = label]
  BY DEF Reconcile, Goto, Labels
<1>4. /\ \A f \in Engines : SameFlags(f)
      /\ engines'[th[1]].openPositions = engines[th[1]].openPositions \cup found
      /\ engines'[th[1]].unseen = unseen
      /\ \A g \in Engines \ {th[1]} : engines'[g] = engines[g]
  BY <1>1, <1>2, PositionsRead
<1>5. ASSUME NEW f \in Engines PROVE Still(f)
  <2>1. pc'[Tick(f)] = "book" => pc[Tick(f)] = "book"
    BY <1>1, <1>3, ThreadsOf
  <2>2. ASSUME NEW n \in OwnRows(f), trades[n].open,
               n \in engines[f].openPositions \cup engines[f].unseen
        PROVE  n \in engines'[f].openPositions \cup engines'[f].unseen
    <3>1. n \in Reconciled(f)
      BY <2>2, BaseTypes, InTheMarket
    <3> QED
      BY <1>2, <1>4, <2>2, <3>1
  <2> QED
    BY <1>4, <2>1, <2>2 DEF Still, SameFlags, Reconcile
<1> QED
  BY <1>5, StillTracked, SameTradesNoRow DEF RowsInv, Reconcile

LEMMA SyncRows ==
    ASSUME Base, RowsInv, NEW th \in Threads, Sync(th)
    PROVE  RowsInv'
<1> DEFINE e == th[1]
           missing == Sides \ OpenSides(Coin(e))
           closed == {n \in engines[e].openPositions :
                          IF dryRun THEN ~trades[n].open ELSE trades[n].side \in missing}
<1>1. e \in Engines /\ Rest /\ pc \in [Threads -> Labels]
  BY ThreadShape, BaseTypes
<1>2. /\ gone' = [gone EXCEPT ![th] = IF dryRun THEN closed ELSE missing]
      /\ pc' = [pc EXCEPT ![th] = "book"]
      /\ UNCHANGED <<engines, generation, trades, dryRun>>
  BY DEF Sync, Goto
<1>3. ASSUME NEW f \in Engines, Tick(f) # th
      PROVE  Tracked(f)' /\ Gone(f)'
  <2>1. pc'[Tick(f)] = pc[Tick(f)] /\ gone'[Tick(f)] = gone[Tick(f)]
    BY <1>1, <1>2, <1>3, ThreadsOf DEF Rest
  <2>2. Still(f) /\ NoNewRow
    BY <1>2, <2>1, SameTradesNoRow DEF Still
  <2> QED
    BY <2>2, StillTracked DEF RowsInv
<1>4. ASSUME Tick(e) = th
      PROVE  Tracked(e)' /\ Gone(e)'
  <2>1. gone'[Tick(e)] = IF dryRun THEN closed ELSE missing
    BY <1>1, <1>2, <1>4 DEF Rest
  <2>2. ASSUME NEW n \in OwnRows(e), trades[n].open
        PROVE  (IF dryRun THEN n ELSE trades[n].side) \notin gone'[Tick(e)]
    BY <1>1, <2>1, <2>2, BaseTypes, SameKeySameCoin, EngineShape
       DEF OwnRows, OpenSides, Trade
  <2>3. Gone(e)'
    BY <1>2, <2>2 DEF Gone, OwnRows, Opened
  <2>4. Tracked(e)'
    BY <1>1, <1>2 DEF RowsInv, Tracked, OwnRows, Opened
  <2> QED
    BY <2>3, <2>4
<1>5. ASSUME NEW f \in Engines PROVE Tracked(f)' /\ Gone(f)'
  BY <1>3, <1>4, ThreadsOf
<1> QED
  BY <1>5 DEF RowsInv

LEMMA BookRows ==
    ASSUME Base, RowsInv, NEW th \in Threads, Book(th)
    PROVE  RowsInv'
<1>1. PICK n \in todo[th], applied \in BOOLEAN : trades' = Booked(n, applied)
  BY DEF Book
<1>2. n \in Opened /\ TypeOK
  BY <1>1, BaseTypes DEF Rest
<1>3. NoNewRow
  <2>1. /\ Edited /\ \A m \in Opened \ {n} : trades'[m] = trades[m]
        /\ trades'[n].open = trades[n].open
        /\ trades'[n].row = IF applied THEN "closed" ELSE trades[n].row
    BY <1>1, <1>2, BookedIs
  <2> QED
    BY <1>2, <2>1 DEF NoNewRow, Edited
<1>4. \A f \in Engines : Still(f)
  BY DEF Book, Still
<1> QED
  BY <1>3, <1>4, StillTracked DEF RowsInv

LEMMA PassEndRows ==
    ASSUME Base, Lives, RowsInv, NEW th \in Threads, PassEnd(th)
    PROVE  RowsInv'
<1> DEFINE e == th[1]
           kept == {n \in engines[e].openPositions :
                       (IF dryRun THEN n ELSE trades[n].side) \notin gone[th]}
<1>1. e \in Engines /\ Rest /\ pc \in [Threads -> Labels] /\ (th = Tick(e) \/ th = Stop(e))
  BY ThreadShape, BaseTypes
<1>2. /\ engines' = [engines EXCEPT ![e].openPositions = kept]
      /\ gone' = [gone EXCEPT ![th] = {}]
      /\ UNCHANGED <<generation, trades, dryRun>>
      /\ pc[th] = "book"
  BY DEF PassEnd, At
<1>3. PICK label \in Labels \ {"book"} : pc' = [pc EXCEPT ![th] = label]
  BY DEF PassEnd, Goto, Labels
<1>4. NoNewRow
  BY <1>2, SameTradesNoRow
<1>5. /\ \A f \in Engines : SameFlags(f)
      /\ engines'[e].openPositions = kept /\ engines'[e].unseen = engines[e].unseen
      /\ \A f \in Engines \ {e} : engines'[f] = engines[f]
  BY <1>1, <1>2, PositionsOnly
<1>6. \A f \in Engines : pc'[Tick(f)] = "book" =>
          pc[Tick(f)] = "book" /\ gone'[Tick(f)] = gone[Tick(f)]
  BY <1>1, <1>2, <1>3, ThreadsOf DEF Rest
<1>7. ASSUME NEW f \in Engines \ {e} PROVE Tracked(f)' /\ Gone(f)'
  <2>1. Still(f)
    BY <1>2, <1>5, <1>6 DEF Still
  <2> QED
    BY <1>4, <2>1, StillTracked DEF RowsInv
<1>8. Gone(e)'
  <2> HIDE DEF kept
  <2>1. /\ pc'[Tick(e)] = "book" => pc[Tick(e)] = "book" /\ gone'[Tick(e)] = gone[Tick(e)]
        /\ trades' = trades /\ generation' = generation /\ dryRun' = dryRun /\ Gone(e)
    BY <1>1, <1>2, <1>6 DEF RowsInv
  <2> QED
    BY <2>1 DEF Gone, OwnRows, Opened
<1>9. Tracked(e)'
  <2>1. CASE th = Stop(e)
    <3>1. engines'[e].stopRequested
      BY <1>1, <1>2, <1>5, <2>1 DEF Lives, Life, SameFlags
    <3> QED
      BY <3>1 DEF Tracked
  <2>2. CASE th = Tick(e)
    <3> SUFFICES ASSUME e[3] = generation[Coin(e)], engines[e].running, ~engines[e].stopRequested,
                        NEW n \in OwnRows(e), trades[n].open
                 PROVE  n \in kept \cup engines[e].unseen
      BY <1>1, <1>2, <1>5 DEF Tracked, OwnRows, Opened, SameFlags
    <3>1. n \in engines[e].openPositions \cup engines[e].unseen
      BY <1>1 DEF RowsInv, Tracked
    <3>2. (IF dryRun THEN n ELSE trades[n].side) \notin gone[Tick(e)]
      BY <1>1, <1>2, <2>2 DEF RowsInv, Gone
    <3> QED
      BY <2>2, <3>1, <3>2
  <2> QED
    BY <1>1, <2>1, <2>2
<1> QED
  BY <1>7, <1>8, <1>9 DEF RowsInv

LEMMA PassRows ==
    ASSUME Base, Lives, RowsInv, NEW th \in Threads, Pass(th)
    PROVE  RowsInv'
<1>1. CASE SyncFails(th)
  <2>1. PICK label \in Labels \ {"book"} : Goto(th, label)
    BY <1>1 DEF SyncFails, Labels
  <2>2. \A f \in Engines : Still(f)
    BY <1>1, <2>1, BaseTypes, ThreadsOf DEF SyncFails, Goto, Still
  <2> QED
    BY <1>1, <2>2, StillTracked, SameTradesNoRow DEF RowsInv, SyncFails
<1> QED
  BY <1>1, ReconcileRows, SyncRows, BookRows, PassEndRows DEF Pass

LEMMA EntryRows ==
    ASSUME Base, Lives, RowsInv, NEW e \in Engines, TickBegin(e) \/ Entry(e)
    PROVE  RowsInv'
<1>1. TypeOK /\ Rest /\ pc \in [Threads -> Labels]
  BY BaseTypes
<1>2. CASE Insert(e)
  <2> DEFINE n == Opening(e)
  <2>1. n \in Opened /\ Newest(e, n)
    BY <1>2, OpeningIsNewest DEF Insert, At, Filling
  <2>2. /\ trades' = [trades EXCEPT ![n].row = IF engines[e].session THEN "open" ELSE trades[n].row]
        /\ engines' = [engines EXCEPT ![e].openPositions = engines[e].openPositions \cup {n}]
        /\ pc' = [pc EXCEPT ![Tick(e)] = "idle"]
        /\ UNCHANGED <<gone, generation, dryRun>>
    BY <1>2 DEF Insert, Goto
  <2> HIDE DEF n
  <2>3. PICK row \in {"none", "open", "closed"} :
            /\ trades' = [trades EXCEPT ![n].row = row]
            /\ row = IF engines[e].session THEN "open" ELSE trades[n].row
    BY <2>1, <2>2, BaseTypes DEF Trade
  <2>4. /\ Edited /\ \A m \in Opened \ {n} : trades'[m] = trades[m]
        /\ trades'[n].open = trades[n].open /\ trades'[n].row = row
    BY <2>1, <2>3, EditRow
  <2>5. /\ \A f \in Engines : SameFlags(f)
        /\ engines'[e].openPositions = engines[e].openPositions \cup {n}
        /\ engines'[e].unseen = engines[e].unseen
        /\ \A f \in Engines \ {e} : engines'[f] = engines[f]
    BY <2>2, PositionsOnly
  <2>6. \A f \in Engines : Still(f) /\ pc'[Tick(f)] = IF f = e THEN "idle" ELSE pc[Tick(f)]
    BY <1>1, <2>2, <2>5, ThreadsOf, ThreadsDiffer DEF Still, SameFlags
  <2>7. CASE ~engines[e].session
    <3>1. NoNewRow
      BY <2>1, <2>3, <2>4, <2>7 DEF NoNewRow, Edited
    <3> QED
      BY <2>6, <3>1, StillTracked DEF RowsInv
  <2>8. CASE engines[e].session
    <3>1. e[3] = generation[Coin(e)]
      BY <2>8 DEF Lives, Life
    <3>2. ASSUME NEW f \in Engines, f # e, f[3] = generation'[Coin(f)]
          PROVE  ~OwnTrade(f, n)
      BY <3>1, <3>2, <2>1, <2>2, EngineOfKey, SameKeySameCoin DEF OwnTrade, Newest
    <3>3. ASSUME NEW f \in Engines, NEW m \in OwnRows(f)', m # n
          PROVE  m \in OwnRows(f) /\ trades'[m] = trades[m]
      BY <3>3, <2>4 DEF OwnRows, Edited
    <3>4. ASSUME NEW f \in Engines PROVE Tracked(f)'
      <4> SUFFICES ASSUME f[3] = generation'[Coin(f)], engines'[f].running,
                          ~engines'[f].stopRequested,
                          NEW m \in OwnRows(f)', trades'[m].open
                   PROVE  m \in engines'[f].openPositions \cup engines'[f].unseen
        BY DEF Tracked
      <4>1. CASE m = n
        BY <4>1, <3>2, <2>1, <2>4, <2>5 DEF OwnRows, OwnTrade, Edited
      <4>2. CASE m # n
        BY <4>2, <3>3, <2>6 DEF RowsInv, Tracked, Still
      <4> QED
        BY <4>1, <4>2
    <3>5. ASSUME NEW f \in Engines PROVE Gone(f)'
      <4> SUFFICES ASSUME pc'[Tick(f)] = "book", f[3] = generation'[Coin(f)],
                          NEW m \in OwnRows(f)', trades'[m].open
                   PROVE  (IF dryRun' THEN m ELSE trades'[m].side) \notin gone'[Tick(f)]
        BY DEF Gone
      <4>1. f # e /\ m # n
        BY <2>1, <2>4, <2>6, <3>2 DEF OwnRows, OwnTrade, Edited
      <4> QED
        BY <4>1, <3>3, <2>2, <2>6 DEF RowsInv, Gone, Still
    <3> QED
      BY <3>4, <3>5 DEF RowsInv
  <2> QED
    BY <2>7, <2>8
<1>3. CASE ~Insert(e)
  <2>1. UNCHANGED <<engines, generation, gone, dryRun>>
    BY <1>3 DEF TickBegin, Entry, Decide, Gate, Cap, Reserve, BalanceFails, OrderFilled,
                OrderRejected, Protect, EmergencyClose, InsertFails, NoEntry, Abandon
  <2>2. PICK label \in Labels \ {"book"} : Goto(Tick(e), label)
    BY <1>3 DEF TickBegin, Entry, Decide, Gate, Cap, Reserve, BalanceFails, OrderFilled,
                OrderRejected, Protect, EmergencyClose, InsertFails, NoEntry, Abandon, Labels
  <2>3. \A f \in Engines : Still(f)
    BY <1>1, <2>1, <2>2, ThreadsOf DEF Still, Goto
  <2>4. NoNewRow
    <3>1. CASE trades' = trades
      BY <3>1, SameTradesNoRow
    <3>2. CASE NextTrade \in TradeIds /\ Opens(e)
      BY <1>1, <3>2, OpensOne DEF NoNewRow
    <3>3. CASE EmergencyClose(e) /\ trades' = [trades EXCEPT ![Opening(e)].open = FALSE]
      <4>1. Opening(e) \in Opened
        BY <3>3, OpeningIsNewest DEF EmergencyClose, At, Filling
      <4>2. /\ Edited /\ \A m \in Opened \ {Opening(e)} : trades'[m] = trades[m]
            /\ trades'[Opening(e)].row = trades[Opening(e)].row
            /\ trades'[Opening(e)].open => trades[Opening(e)].open
        BY <3>3, <4>1, EditMarket
      <4> QED
        BY <4>1, <4>2 DEF NoNewRow, Edited
    <3>4. CASE Reserve(e) \/ OrderFilled(e)
      BY <3>1, <3>2, <3>4 DEF Reserve, OrderFilled
    <3>5. CASE EmergencyClose(e)
      BY <3>1, <3>3, <3>5 DEF EmergencyClose
    <3> QED
      BY <1>3, <3>1, <3>4, <3>5
      DEF TickBegin, Entry, Decide, Gate, Cap, BalanceFails,
          OrderRejected, Protect, InsertFails, NoEntry
  <2> QED
    BY <2>3, <2>4, StillTracked DEF RowsInv
<1> QED
  BY <1>2, <1>3

LEMMA StopRows ==
    ASSUME Base, RowsInv, NEW e \in Engines, StopBegin(e) \/ StopFinish(e) \/ CloseSession(e)
    PROVE  RowsInv'
<1>1. Rest /\ pc \in [Threads -> Labels]
  BY BaseTypes
<1>2. PICK label \in Labels : pc' = [pc EXCEPT ![Stop(e)] = label]
  BY DEF StopBegin, StopFinish, CloseSession, Goto, Labels
<1>3. \A f \in Engines : pc'[Tick(f)] = pc[Tick(f)]
  BY <1>1, <1>2, ThreadsOf, ThreadsDiffer
<1>4. \A f \in Engines : /\ engines'[f].openPositions = engines[f].openPositions
                         /\ engines'[f].unseen = engines[f].unseen
                         /\ engines'[f].running => engines[f].running
                         /\ ~engines'[f].stopRequested => ~engines[f].stopRequested
  <2>1. CASE StopBegin(e)
    BY <2>1, <1>1 DEF StopBegin, Rest, Engine
  <2>2. CASE StopFinish(e)
    BY <2>2, <1>1 DEF StopFinish, Rest, Engine
  <2>3. CASE CloseSession(e)
    BY <2>3, <1>1 DEF CloseSession, Rest, Engine
  <2> QED
    BY <2>1, <2>2, <2>3
<1>5. UNCHANGED <<gone, generation, trades, dryRun>>
  BY DEF StopBegin, StopFinish, CloseSession
<1>6. \A f \in Engines : Still(f)
  BY <1>3, <1>4, <1>5 DEF Still
<1> QED
  BY <1>5, <1>6, StillTracked, SameTradesNoRow DEF RowsInv

LEMMA EngineStartRows ==
    ASSUME Base, RowsInv, NEW e \in Engines, EngineStart(e)
    PROVE  RowsInv'
<1>1. Rest /\ TypeOK /\ pc \in [Threads -> Labels] /\ trades \in [Opened -> Trade]
  BY BaseTypes
<1>0. PICK held, ended, unseen \in SUBSET OwnRows(e) :
          Starts(e, held, ended, unseen) /\ Reconciled(e) \subseteq held \cup unseen
  BY <1>1, EngineStartIs
<1>2. /\ engines'[e].openPositions = held /\ engines'[e].unseen = unseen
      /\ \A f \in Engines \ {e} : engines'[f] = engines[f]
      /\ \A f \in Engines : pc'[Tick(f)] = IF f = e THEN "idle" ELSE pc[Tick(f)]
      /\ UNCHANGED <<generation, gone, dryRun>>
  BY <1>0, <1>1, ThreadsOf, ThreadsDiffer DEF EngineStart, Starts, Goto, Rest, Engine
<1>3. NoNewRow
  <2>1. trades' = [n \in Opened |-> IF n \in ended THEN [trades[n] EXCEPT !.row = "closed"]
                                   ELSE trades[n]]
    BY <1>0 DEF Starts
  <2>2. ASSUME NEW n \in Opened
        PROVE  LET r == [trades[n] EXCEPT !.row = "closed"] IN r.row = "closed"
    BY <1>1 DEF Trade
  <2>3. /\ Opened' = Opened
        /\ \A n \in Opened : trades'[n].row = "closed" \/ trades'[n] = trades[n]
    BY <2>1, <2>2 DEF Opened
  <2> QED
    BY <2>3 DEF NoNewRow
<1>4. ASSUME NEW f \in Engines \ {e} PROVE Tracked(f)' /\ Gone(f)'
  <2>1. Still(f)
    BY <1>2 DEF Still
  <2> QED
    BY <1>3, <2>1, StillTracked DEF RowsInv
<1>5. Gone(e)'
  BY <1>2 DEF Gone
<1>6. Tracked(e)'
  <2>1. ASSUME NEW n \in OwnRows(e)', trades'[n].open
        PROVE  n \in OwnRows(e) /\ trades[n].open
    BY <1>3, <2>1 DEF NoNewRow, OwnRows
  <2>2. ASSUME NEW n \in OwnRows(e), trades[n].open
        PROVE  n \in held \cup unseen
    BY <1>0, <1>1, <2>2, InTheMarket
  <2> QED
    BY <1>2, <2>1, <2>2 DEF Tracked
<1> QED
  BY <1>4, <1>5, <1>6 DEF RowsInv

LEMMA GroupRows ==
    ASSUME Base, Lives, RowsInv, NEW s \in Symbols,
           GroupStart(s) \/ GroupStop(s) \/ GroupStopped(s) \/ Repost(s)
    PROVE  RowsInv'
<1>1. Rest
  BY BaseTypes
<1>2. UNCHANGED <<pc, gone, engines, trades, dryRun>> /\ NoNewRow
  BY SameTradesNoRow DEF GroupStart, GroupStop, GroupStopped, Repost, threads
<1> SUFFICES ASSUME NEW f \in Engines PROVE Tracked(f)' /\ Gone(f)'
  BY DEF RowsInv
<1>3. CASE generation'[Coin(f)] = generation[Coin(f)]
  <2>1. Still(f)
    BY <1>2, <1>3 DEF Still
  <2> QED
    BY <1>2, <2>1, StillTracked DEF RowsInv
<1>4. CASE generation'[Coin(f)] # generation[Coin(f)]
  <2>1. generation'[Coin(f)] = generation[Coin(f)] + 1 /\ generation[Coin(f)] \in Nat
        /\ f[3] \in Nat
    BY <1>1, <1>4, EngineShape, TradingGroupAssumption
       DEF GroupStart, GroupStop, GroupStopped, Repost, Rest
  <2>2. f[3] = generation'[Coin(f)] => pc[Tick(f)] = "off" /\ ~engines[f].running
    BY <2>1 DEF Lives, Life
  <2> QED
    BY <1>2, <2>2 DEF Tracked, Gone
<1> QED
  BY <1>3, <1>4

LEMMA RowsInit == Init => RowsInv
<1> SUFFICES ASSUME Init, NEW e \in Engines PROVE Tracked(e) /\ Gone(e)
  BY DEF RowsInv
<1>1. pc[Tick(e)] = "off" /\ ~engines[e].running
  BY ThreadsOf DEF Init, Fresh
<1> QED
  BY <1>1 DEF Tracked, Gone

LEMMA RowsStep ==
    ASSUME Base, Lives, RowsInv, [Next]_vars
    PROVE  RowsInv'
<1>1. ASSUME NEW e \in Engines, EngineStart(e) \/ Ticking(e) \/ Stopping(e)
      PROVE  RowsInv'
  BY <1>1, EngineStartRows, StopRows, PassRows, EntryRows, ThreadsOf DEF Ticking, Stopping
<1>2. ASSUME NEW n \in Opened, MarketCloses(n)
      PROVE  RowsInv'
  <2>1. NoNewRow
    BY <1>2, EditMarket DEF MarketCloses, NoNewRow, Edited
  <2>2. \A f \in Engines : Still(f)
    BY <1>2 DEF MarketCloses, threads, Still
  <2> QED
    BY <2>1, <2>2, StillTracked DEF RowsInv
<1>3. ASSUME UNCHANGED vars
      PROVE  RowsInv'
  BY <1>3, StillTracked, SameTradesNoRow DEF vars, threads, RowsInv, Still
<1> QED
  BY <1>1, <1>2, <1>3, GroupRows DEF Next

\* After any stops and restarts, the engine that runs a strategy, and that no stop has been
\* asked of, holds every open row of it whose position is still in the market, but for those
\* it could not read when it started, nor since.
THEOREM RowsAreTracked == Spec => []RowsTracked
<1> DEFINE IInv == Base /\ Lives /\ RowsInv
<1>1. Init => IInv
  BY BaseInit, LivesInit, RowsInit
<1>2. IInv /\ [Next]_vars => IInv'
  BY BaseStep, LivesStep, RowsStep
<1>3. IInv => RowsTracked
  BY EngineShape DEF RowsInv, RowsTracked, Tracked, Current
<1> QED
  BY <1>1, <1>2, <1>3, PTL DEF Spec
----------------------------------------------------------------------------
(* Books: BookedOnce, in live mode.  A dry-run engine books what closeTrade did not close and
   is refuted (run dry_double_book); a live one books a row with the step that closes it, or a
   trade that never got one, which only a halted engine holds. *)

Halted(e) == pc[Tick(e)] = "idle" /\ ~engines[e].running /\ pc[Stop(e)] = "done"

Unbooked(n) == trades[n].booked <= 1 /\ (trades[n].row # "closed" => trades[n].booked = 0)

Listed(th) == \A n \in todo[th] : trades[n].row # "none"

Unlisted(e) ==
    /\ pc[Tick(e)] \in Filling => \A n \in Opened : Newest(e, n) => trades[n].row = "none"
    /\ \A n \in engines[e].openPositions : trades[n].row = "none" => Halted(e)

BooksInv ==
    /\ \A n \in Opened : Unbooked(n)
    /\ \A th \in Threads : Listed(th)
    /\ \A e \in Engines : Unlisted(e)

\* The step edits trades without giving or taking a row the first time, and books nothing.
RowsStay ==
    /\ Edited
    /\ \A n \in Opened : /\ trades'[n].row = "none" <=> trades[n].row = "none"
                         /\ trades'[n].row # "closed" => trades[n].row # "closed"
                         /\ trades'[n].booked = trades[n].booked

\* What a step must keep of the threads and engines when the rows stay.
LEMMA BooksKept ==
    ASSUME Base, BooksInv, RowsStay,
           \A th \in Threads : \A n \in todo'[th] : n \in Opened /\ trades[n].row # "none",
           \A e \in Engines : pc'[Tick(e)] \in Filling => pc[Tick(e)] \in Filling,
           \A e \in Engines : Halted(e) => Halted(e)',
           \A e \in Engines : \A n \in engines'[e].openPositions :
               /\ n \in Opened
               /\ n \in engines[e].openPositions \/ trades[n].row # "none" \/ Halted(e)'
    PROVE  BooksInv'
<1>1. \A n \in Opened' : Unbooked(n)'
  BY DEF BooksInv, Unbooked, RowsStay, Edited
<1>2. \A th \in Threads : Listed(th)'
  BY DEF Listed, RowsStay
<1>3. ASSUME NEW e \in Engines PROVE Unlisted(e)'
  <2>1. ASSUME pc'[Tick(e)] \in Filling, NEW n \in Opened', Newest(e, n)'
        PROVE  trades'[n].row = "none"
    <3>1. n \in Opened /\ Newest(e, n)
      BY <2>1 DEF RowsStay, Edited, Newest
    <3> QED
      BY <2>1, <3>1 DEF BooksInv, Unlisted, RowsStay
  <2>2. ASSUME NEW n \in engines'[e].openPositions, trades'[n].row = "none"
        PROVE  Halted(e)'
    <3>1. n \in Opened /\ trades[n].row = "none"
      BY <2>2 DEF RowsStay
    <3> QED
      BY <3>1 DEF BooksInv, Unlisted
  <2> QED
    BY <2>1, <2>2 DEF Unlisted
<1> QED
  BY <1>1, <1>2, <1>3 DEF BooksInv

LEMMA SameRows ==
    ASSUME Base, trades' = trades
    PROVE  RowsStay
BY BaseTypes, KeepTrades DEF RowsStay, Edited

\* A halted engine stays halted: its tick needs running, its stop is done.
LEMMA HaltedStays ==
    ASSUME Base, Lives, [Next]_vars, NEW e \in Engines, Halted(e)
    PROVE  Halted(e)'
<1>1. /\ pc \in [Threads -> Labels] /\ Rest /\ pc[Tick(e)] = "idle" /\ pc[Stop(e)] = "done"
      /\ ~engines[e].running
  BY BaseTypes DEF Halted
<1>2. ASSUME NEW th \in Threads, Onward(th), pc[th] # "idle"
      PROVE  Halted(e)'
  <2>1. th # Tick(e) /\ th # Stop(e)
    BY <1>1, <1>2 DEF Onward, Edge
  <2> QED
    BY <1>1, <1>2, <2>1, ThreadsOf DEF Onward, Halted, SameFlags
<1>3. ASSUME NEW th \in Threads, Pass(th)
      PROVE  Halted(e)'
  <2>1. pc[th] # "idle"
    BY <1>3 DEF Pass, Reconcile, Sync, SyncFails, Book, PassEnd, At
  <2> QED
    BY <1>2, <1>3, <2>1, PassOnward
<1>4. ASSUME NEW f \in Engines, TickBegin(f) \/ Entry(f)
      PROVE  Halted(e)'
  <2>1. CASE TickBegin(f)
    <3>1. Tick(f) # Tick(e) /\ Tick(f) # Stop(e)
      BY <1>1, <2>1, ThreadsDiffer DEF TickBegin
    <3> QED
      BY <1>1, <2>1, <3>1, ThreadsOf DEF TickBegin, Goto, Halted
  <2>2. CASE Entry(f)
    <3>1. pc[Tick(f)] # "idle"
      BY <2>2 DEF Entry, Decide, Gate, Cap, Reserve, BalanceFails, OrderFilled,
                  OrderRejected, Protect, EmergencyClose, Insert, InsertFails, At
    <3> QED
      BY <1>2, <2>2, <3>1, EntryOnward, ThreadsOf
  <2> QED
    BY <1>4, <2>1, <2>2
<1>5. ASSUME NEW f \in Engines, EngineStart(f) \/ StopBegin(f) \/ StopFinish(f) \/ CloseSession(f)
      PROVE  Halted(e)'
  <2>1. CASE EngineStart(f)
    <3>1. f # e
      BY <1>1, <2>1 DEF EngineStart, At
    <3> QED
      BY <1>1, <2>1, <3>1, ThreadsOf, ThreadsDiffer, EngineStartIs, BaseTypes
         DEF EngineStart, Starts, Goto, Halted, Rest
  <2>2. CASE StopBegin(f) \/ StopFinish(f) \/ CloseSession(f)
    <3>1. PICK label : pc' = [pc EXCEPT ![Stop(f)] = label]
      BY <2>2 DEF StopBegin, StopFinish, CloseSession, Goto
    <3>2. f # e
      BY <1>1, <2>2 DEF StopBegin, StopFinish, CloseSession, At
    <3>3. engines'[e] = engines[e]
      BY <1>1, <2>2, <3>2 DEF StopBegin, StopFinish, CloseSession, Rest
    <3> QED
      BY <1>1, <3>1, <3>2, <3>3, ThreadsOf, ThreadsDiffer DEF Halted
  <2> QED
    BY <1>5, <2>1, <2>2
<1>6. ASSUME UNCHANGED <<pc, engines>>
      PROVE  Halted(e)'
  BY <1>6 DEF Halted
<1> QED
  BY <1>3, <1>4, <1>5, <1>6, ThreadsOf
  DEF Next, Ticking, Stopping, GroupStart, GroupStop, GroupStopped, Repost, MarketCloses,
      vars, threads

LEMMA PassBooks ==
    ASSUME Base, Lives, BooksInv, ~dryRun, [Next]_vars, NEW th \in Threads, Pass(th)
    PROVE  BooksInv'
<1> DEFINE e == th[1]
<1>1. /\ e \in Engines /\ Rest /\ TypeOK /\ pc \in [Threads -> Labels]
      /\ th = Tick(e) \/ th = Stop(e)
      /\ \A f \in Engines : engines[f].openPositions \subseteq Opened
  BY ThreadShape, BaseTypes
<1>2. \A f \in Engines : Halted(f) => Halted(f)'
  BY HaltedStays
<1>3. \A t \in Threads : \A n \in todo[t] : n \in Opened /\ trades[n].row # "none"
  BY <1>1 DEF BooksInv, Listed, Rest
<1>4. CASE Reconcile(th)
  <2>1. PICK found \in {{}, Reconciled(e)}, unseen \in {{}, engines[e].unseen} :
            ReadsBack(e, found, unseen)
    BY <1>1, <1>4, ReconcileIs
  <2>6. found \subseteq OwnRows(e)
    BY <1>1, <2>1, ReconciledTypes
  <2> DEFINE held == engines[e].openPositions \cup found
  <2>2. /\ engines'[e].openPositions = held
        /\ \A f \in Engines \ {e} : engines'[f] = engines[f]
    BY <1>1, <2>1, PositionsRead
  <2>3. \A f \in Engines : \A n \in engines'[f].openPositions :
            /\ n \in Opened
            /\ n \in engines[f].openPositions \/ trades[n].row # "none"
    BY <1>1, <2>6, <2>2 DEF OwnRows
  <2>4. PICK label \in Labels \ Filling : pc' = [pc EXCEPT ![th] = label]
    BY <1>4 DEF Reconcile, Goto, Labels, Filling
  <2>5. \A f \in Engines : pc'[Tick(f)] \in Filling => pc[Tick(f)] \in Filling
    BY <1>1, <2>4, ThreadsOf
  <2> QED
    BY <1>2, <1>3, <1>4, <2>3, <2>5, SameRows, BooksKept DEF Reconcile
<1>5. CASE Sync(th)
  <2> DEFINE closed == {n \in engines[e].openPositions :
                           trades[n].side \in Sides \ OpenSides(Coin(e))}
  <2>1. /\ todo' = [todo EXCEPT ![th] = closed]
        /\ pc' = [pc EXCEPT ![th] = "book"] /\ pc[th] = "sync"
        /\ UNCHANGED <<engines, trades>>
    BY <1>5 DEF Sync, Goto, At
  <2>2. ASSUME NEW n \in closed
        PROVE  n \in Opened /\ trades[n].row # "none"
    <3>1. ~Halted(e)
      BY <1>1, <2>1 DEF Halted
    <3> QED
      BY <1>1, <3>1 DEF BooksInv, Unlisted
  <2> HIDE DEF closed
  <2>3. \A t \in Threads : \A n \in todo'[t] : n \in Opened /\ trades[n].row # "none"
    BY <1>1, <1>3, <2>1, <2>2 DEF Rest
  <2>4. \A f \in Engines : pc'[Tick(f)] \in Filling => pc[Tick(f)] \in Filling
    BY <1>1, <2>1, ThreadsOf DEF Filling
  <2> QED
    BY <1>1, <1>2, <2>1, <2>3, <2>4, SameRows, BooksKept
<1>6. CASE SyncFails(th)
  <2>1. PICK label \in Labels \ Filling : Goto(th, label)
    BY <1>6 DEF SyncFails, Labels, Filling
  <2>2. \A f \in Engines : pc'[Tick(f)] \in Filling => pc[Tick(f)] \in Filling
    BY <1>1, <2>1, ThreadsOf DEF Goto
  <2> QED
    BY <1>1, <1>2, <1>3, <1>6, <2>2, SameRows, BooksKept DEF SyncFails
<1>7. CASE PassEnd(th)
  <2>1. PICK kept \in SUBSET engines[e].openPositions :
            engines' = [engines EXCEPT ![e].openPositions = kept]
    BY <1>7 DEF PassEnd
  <2>2. /\ engines'[e].openPositions = kept
        /\ \A f \in Engines \ {e} : engines'[f] = engines[f]
    BY <1>1, <2>1, PositionsOnly
  <2>3. \A f \in Engines : \A n \in engines'[f].openPositions :
            n \in Opened /\ n \in engines[f].openPositions
    BY <1>1, <2>1, <2>2
  <2>4. PICK label \in Labels \ Filling : pc' = [pc EXCEPT ![th] = label]
    <3>1. {"finish", "decide", "idle"} \subseteq Labels \ Filling
      BY DEF Labels, Filling
    <3>2. PICK label \in {"finish", "decide", "idle"} : Goto(th, label)
      BY <1>7 DEF PassEnd
    <3> QED
      BY <3>1, <3>2 DEF Goto
  <2>5. \A f \in Engines : pc'[Tick(f)] \in Filling => pc[Tick(f)] \in Filling
    BY <1>1, <2>4, ThreadsOf
  <2> QED
    BY <1>2, <1>3, <1>7, <2>3, <2>5, SameRows, BooksKept DEF PassEnd
<1>8. CASE Book(th)
  <2>1. PICK n \in todo[th], applied \in BOOLEAN :
            /\ trades' = Booked(n, applied)
            /\ applied => trades[n].row = "open"
            /\ todo' = [todo EXCEPT ![th] = todo[th] \ {n}]
    BY <1>8 DEF Book
  <2>2. n \in Opened /\ trades[n].row # "none" /\ Unbooked(n) /\ trades[n] \in Trade
    BY <1>1, <1>3, <2>1, BaseTypes DEF BooksInv
  <2>3. /\ Edited /\ \A m \in Opened \ {n} : trades'[m] = trades[m]
        /\ trades'[n].row = IF applied THEN "closed" ELSE trades[n].row
        /\ trades'[n].booked = IF applied THEN Count(trades[n].booked) ELSE trades[n].booked
    BY <1>1, <2>1, <2>2, BookedIs
  <2>4. Unbooked(n)'
    BY <2>1, <2>2, <2>3 DEF Unbooked, Count, Trade
  <2>5. \A m \in Opened' : Unbooked(m)'
    BY <2>3, <2>4 DEF Edited, BooksInv, Unbooked
  <2>6. \A m \in Opened : trades'[m].row = "none" <=> trades[m].row = "none"
    BY <2>1, <2>2, <2>3
  <2>7. ASSUME NEW t \in Threads PROVE Listed(t)'
    <3>1. todo'[t] \subseteq todo[t]
      BY <1>1, <2>1 DEF Rest
    <3> QED
      BY <1>3, <2>6, <3>1 DEF Listed
  <2>8. ASSUME NEW f \in Engines PROVE Unlisted(f)'
    <3>1. UNCHANGED <<pc, engines>>
      BY <1>8 DEF Book
    <3>2. \A m \in Opened : Newest(f, m)' <=> Newest(f, m)
      BY <2>3 DEF Newest, Edited
    <3>3. engines[f].openPositions \subseteq Opened /\ Unlisted(f)
      BY <1>1 DEF BooksInv
    <3> QED
      BY <2>3, <2>6, <3>1, <3>2, <3>3 DEF Unlisted, Halted, Edited
  <2> QED
    BY <2>5, <2>7, <2>8 DEF BooksInv
<1> QED
  BY <1>4, <1>5, <1>6, <1>7, <1>8 DEF Pass

\* An order is filled: the new trade has no row yet and no engine lists it.
LEMMA OrderFilledBooks ==
    ASSUME Base, BooksInv, [Next]_vars, Lives, NEW e \in Engines, OrderFilled(e)
    PROVE  BooksInv'
<1>1. /\ TypeOK /\ Rest /\ pc \in [Threads -> Labels]
      /\ \A f \in Engines : engines[f].openPositions \subseteq Opened
      /\ \A f \in Engines : Halted(f) => Halted(f)'
  BY BaseTypes, HaltedStays
<1>2. /\ Opened' = Opened \cup {NextTrade} /\ NextTrade \notin Opened
      /\ \A n \in Opened : n < NextTrade /\ trades'[n] = trades[n]
      /\ trades'[NextTrade].owner = e /\ trades'[NextTrade].row = "none"
      /\ trades'[NextTrade].booked = 0
      /\ NextTrade \in Nat /\ Opened \subseteq Nat
  BY <1>1, OpensOne, OpenedIs DEF OrderFilled, NextTrade
<1>3. /\ UNCHANGED <<todo, engines>>
      /\ \A f \in Engines : pc'[Tick(f)] = IF f = e THEN "protect" ELSE pc[Tick(f)]
  BY <1>1, ThreadsOf, ThreadsDiffer DEF OrderFilled, Goto
<1>4. ASSUME NEW n \in Opened' PROVE Unbooked(n)'
  <2>1. n = NextTrade \/ (n \in Opened /\ trades'[n] = trades[n])
    BY <1>2
  <2>2. trades'[n].row = "none" /\ trades'[n].booked = 0 => Unbooked(n)'
    BY DEF Unbooked
  <2> QED
    BY <1>2, <2>1, <2>2 DEF BooksInv, Unbooked
<1>5. \A th \in Threads : Listed(th)'
  BY <1>1, <1>2, <1>3 DEF BooksInv, Listed, Rest
<1>6. ASSUME NEW f \in Engines PROVE Unlisted(f)'
  <2>1. ASSUME pc'[Tick(f)] \in Filling, NEW n \in Opened', Newest(f, n)'
        PROVE  trades'[n].row = "none"
    <3>1. CASE f = e
      <4>1. NextTrade <= n
        BY <1>2, <2>1, <3>1 DEF Newest
      <4>2. n = NextTrade
        BY <1>2, <4>1
      <4> QED
        BY <1>2, <4>2
    <3>2. CASE f # e
      <4>1. n \in Opened /\ Newest(f, n)
        BY <1>2, <2>1, <3>2 DEF Newest
      <4> QED
        BY <1>2, <1>3, <2>1, <3>2, <4>1 DEF BooksInv, Unlisted
    <3> QED
      BY <3>1, <3>2
  <2>2. ASSUME NEW n \in engines'[f].openPositions, trades'[n].row = "none"
        PROVE  Halted(f)'
    BY <1>1, <1>2, <1>3, <2>2 DEF BooksInv, Unlisted
  <2> QED
    BY <2>1, <2>2 DEF Unlisted
<1> QED
  BY <1>4, <1>5, <1>6 DEF BooksInv

LEMMA InsertBooks ==
    ASSUME Base, BooksInv, [Next]_vars, Lives, NEW e \in Engines, Insert(e)
    PROVE  BooksInv'
<1> DEFINE n == Opening(e)
<1>1. /\ TypeOK /\ Rest /\ pc \in [Threads -> Labels]
      /\ \A f \in Engines : engines[f].openPositions \subseteq Opened
      /\ \A f \in Engines : Halted(f) => Halted(f)'
  BY BaseTypes, HaltedStays
<1>2. n \in Opened /\ Newest(e, n) /\ pc[Tick(e)] = "insert"
  BY OpeningIsNewest DEF Insert, At, Filling
<1>3. trades[n].row = "none" /\ Unbooked(n)
  BY <1>2 DEF BooksInv, Unlisted, Filling
<1>4. /\ trades' = [trades EXCEPT ![n].row = IF engines[e].session THEN "open" ELSE trades[n].row]
      /\ engines' = [engines EXCEPT ![e].openPositions = engines[e].openPositions \cup {n}]
      /\ pc' = [pc EXCEPT ![Tick(e)] = "idle"]
      /\ UNCHANGED todo
  BY DEF Insert, Goto
<1> HIDE DEF n
<1> DEFINE row == IF engines[e].session THEN "open" ELSE "none"
<1>5. trades' = [trades EXCEPT ![n].row = row] /\ row \in {"none", "open", "closed"}
  BY <1>3, <1>4
<1>6. /\ Edited /\ \A m \in Opened \ {n} : trades'[m] = trades[m]
      /\ trades'[n].row = row /\ trades'[n].booked = trades[n].booked
  BY <1>2, <1>5, EditRow
<1>7. /\ \A f \in Engines : SameFlags(f)
      /\ engines'[e].openPositions = engines[e].openPositions \cup {n}
      /\ \A f \in Engines \ {e} : engines'[f] = engines[f]
  BY <1>4, PositionsOnly
<1>8. /\ \A f \in Engines : pc'[Tick(f)] = IF f = e THEN "idle" ELSE pc[Tick(f)]
      /\ pc'[Stop(e)] = pc[Stop(e)]
  BY <1>1, <1>4, ThreadsOf, ThreadsDiffer
<1>9. \A m \in Opened' : Unbooked(m)'
  BY <1>3, <1>6 DEF BooksInv, Unbooked, Edited
<1>10. \A th \in Threads : Listed(th)'
  BY <1>1, <1>3, <1>4, <1>6 DEF BooksInv, Listed, Rest
<1>11. ASSUME NEW f \in Engines \ {e} PROVE Unlisted(f)'
  <2>1. ASSUME pc'[Tick(f)] \in Filling, NEW m \in Opened', Newest(f, m)'
        PROVE  trades'[m].row = "none"
    <3>1. m \in Opened /\ Newest(f, m) /\ m # n
      BY <1>2, <1>6, <2>1 DEF Newest, Edited
    <3> QED
      BY <1>6, <1>8, <2>1, <3>1 DEF BooksInv, Unlisted
  <2>2. ASSUME NEW m \in engines'[f].openPositions, trades'[m].row = "none"
        PROVE  Halted(f)'
    BY <1>1, <1>3, <1>6, <1>7, <2>2 DEF BooksInv, Unlisted
  <2> QED
    BY <2>1, <2>2 DEF Unlisted
<1>12. Unlisted(e)'
  <2>1. ASSUME NEW m \in engines'[e].openPositions, trades'[m].row = "none"
        PROVE  Halted(e)'
    <3>1. CASE m # n
      <4>1. m \in engines[e].openPositions /\ trades[m].row = "none"
        BY <1>1, <1>6, <1>7, <2>1, <3>1
      <4> QED
        BY <1>2, <4>1 DEF BooksInv, Unlisted, Halted
    <3>2. CASE m = n
      <4>1. ~engines[e].session
        BY <1>6, <2>1, <3>2
      <4>2. pc[Stop(e)] = "done" /\ ~engines[e].running
        BY <1>2, <4>1 DEF Lives, Life
      <4> QED
        BY <1>7, <1>8, <4>2 DEF Halted, SameFlags
    <3> QED
      BY <3>1, <3>2
  <2> QED
    BY <1>8, <2>1 DEF Unlisted, Filling
<1> QED
  BY <1>9, <1>10, <1>11, <1>12 DEF BooksInv

\* A step that lets rows, lists and positions be and brings no tick to a filled order.
LEMMA QuietBooks ==
    ASSUME Base, BooksInv, [Next]_vars, Lives, RowsStay, todo' = todo,
           \A f \in Engines : pc'[Tick(f)] \in Filling => pc[Tick(f)] \in Filling,
           \A f \in Engines :
              engines'[f].openPositions \subseteq engines[f].openPositions \cup OwnRows(f)
    PROVE  BooksInv'
<1>1. /\ Rest /\ \A f \in Engines : engines[f].openPositions \subseteq Opened
      /\ \A f \in Engines : Halted(f) => Halted(f)'
  BY BaseTypes, HaltedStays
<1>2. \A th \in Threads : \A n \in todo'[th] : n \in Opened /\ trades[n].row # "none"
  BY <1>1 DEF BooksInv, Listed, Rest
<1>3. \A f \in Engines : \A n \in engines'[f].openPositions :
          /\ n \in Opened
          /\ n \in engines[f].openPositions \/ trades[n].row # "none" \/ Halted(f)'
  BY <1>1 DEF OwnRows
<1> QED
  BY <1>1, <1>2, <1>3, BooksKept

LEMMA EntryBooks ==
    ASSUME Base, BooksInv, [Next]_vars, Lives, ~dryRun, NEW e \in Engines, TickBegin(e) \/ Entry(e)
    PROVE  BooksInv'
<1>1. TypeOK /\ Rest /\ pc \in [Threads -> Labels]
  BY BaseTypes
<1>2. CASE ~OrderFilled(e) /\ ~Insert(e)
  <2>1. UNCHANGED <<engines, todo>>
    BY <1>2 DEF TickBegin, Entry, Decide, Gate, Cap, Reserve, BalanceFails,
                OrderRejected, Protect, EmergencyClose, InsertFails, NoEntry, Abandon
  <2>2. PICK label \in Labels :
            Goto(Tick(e), label) /\ (label \in Filling => pc[Tick(e)] \in Filling)
    <3>1. CASE Protect(e) \/ EmergencyClose(e)
      BY <3>1 DEF Protect, EmergencyClose, Abandon, At, Labels, Filling
    <3>2. CASE Reserve(e)
      BY <3>2 DEF Reserve, Labels, Filling
    <3> QED
      BY <1>2, <3>1, <3>2 DEF TickBegin, Entry, Decide, Gate, Cap, BalanceFails,
                OrderRejected, InsertFails, NoEntry, Abandon, Labels, Filling
  <2>3. \A f \in Engines : pc'[Tick(f)] \in Filling => pc[Tick(f)] \in Filling
    BY <1>1, <2>2, ThreadsOf DEF Goto
  <2>4. RowsStay
    <3>1. CASE trades' = trades
      BY <3>1, SameRows
    <3>2. CASE EmergencyClose(e) /\ trades' = [trades EXCEPT ![Opening(e)].open = FALSE]
      <4>1. Opening(e) \in Opened
        BY <3>2, OpeningIsNewest DEF EmergencyClose, At, Filling
      <4>2. /\ Edited /\ \A m \in Opened \ {Opening(e)} : trades'[m] = trades[m]
            /\ trades'[Opening(e)].row = trades[Opening(e)].row
            /\ trades'[Opening(e)].booked = trades[Opening(e)].booked
        BY <3>2, <4>1, EditMarket
      <4> QED
        BY <4>1, <4>2 DEF RowsStay
    <3>3. CASE EmergencyClose(e)
      BY <3>1, <3>2, <3>3 DEF EmergencyClose
    <3>4. CASE Reserve(e)
      BY <3>1, <3>4 DEF Reserve
    <3> QED
      BY <1>2, <3>1, <3>3, <3>4
      DEF TickBegin, Entry, Decide, Gate, Cap, BalanceFails,
          OrderRejected, Protect, InsertFails, NoEntry
  <2> QED
    BY <2>1, <2>3, <2>4, QuietBooks
<1> QED
  BY <1>2, OrderFilledBooks, InsertBooks

LEMMA StopBooks ==
    ASSUME Base, BooksInv, [Next]_vars, Lives, NEW e \in Engines,
           StopBegin(e) \/ StopFinish(e) \/ CloseSession(e)
    PROVE  BooksInv'
<1>1. Rest /\ pc \in [Threads -> Labels]
  BY BaseTypes
<1>2. PICK label \in Labels : pc' = [pc EXCEPT ![Stop(e)] = label]
  BY DEF StopBegin, StopFinish, CloseSession, Goto, Labels
<1>3. \A f \in Engines : pc'[Tick(f)] = pc[Tick(f)]
  BY <1>1, <1>2, ThreadsOf, ThreadsDiffer
<1>4. \A f \in Engines : engines'[f].openPositions = engines[f].openPositions
  <2>1. CASE StopBegin(e)
    BY <2>1, <1>1 DEF StopBegin, Rest, Engine
  <2>2. CASE StopFinish(e)
    BY <2>2, <1>1 DEF StopFinish, Rest, Engine
  <2>3. CASE CloseSession(e)
    BY <2>3, <1>1 DEF CloseSession, Rest, Engine
  <2> QED
    BY <2>1, <2>2, <2>3
<1>5. RowsStay /\ UNCHANGED todo
  BY SameRows DEF StopBegin, StopFinish, CloseSession
<1> QED
  BY <1>3, <1>4, <1>5, QuietBooks

LEMMA EngineStartBooks ==
    ASSUME Base, BooksInv, [Next]_vars, Lives, NEW e \in Engines, EngineStart(e)
    PROVE  BooksInv'
<1>1. Rest /\ TypeOK /\ pc \in [Threads -> Labels] /\ trades \in [Opened -> Trade]
  BY BaseTypes
<1>0. PICK held, ended, unseen \in SUBSET OwnRows(e) : Starts(e, held, ended, unseen)
  BY <1>1, EngineStartIs
<1>2. /\ engines'[e].openPositions = held
      /\ \A f \in Engines \ {e} : engines'[f] = engines[f]
      /\ \A f \in Engines : pc'[Tick(f)] = IF f = e THEN "idle" ELSE pc[Tick(f)]
      /\ UNCHANGED todo
  BY <1>0, <1>1, ThreadsOf, ThreadsDiffer DEF EngineStart, Starts, Goto, Rest, Engine
<1>3. RowsStay
  <2>1. trades' = [n \in Opened |-> IF n \in ended THEN [trades[n] EXCEPT !.row = "closed"]
                                   ELSE trades[n]]
    BY <1>0 DEF Starts
  <2>2. ASSUME NEW n \in Opened
        PROVE  LET r == [trades[n] EXCEPT !.row = "closed"] IN
               /\ r \in Trade /\ r.owner = trades[n].owner /\ r.side = trades[n].side
               /\ r.row = "closed" /\ r.booked = trades[n].booked
    BY <1>1 DEF Trade
  <2>3. /\ trades' \in [Opened -> Trade]
        /\ \A n \in Opened :
              /\ trades'[n].owner = trades[n].owner /\ trades'[n].side = trades[n].side
              /\ trades'[n].booked = trades[n].booked
              /\ \/ trades'[n] = trades[n]
                 \/ trades'[n].row = "closed" /\ trades[n].row = "open"
    BY <1>1, <2>1, <2>2 DEF OwnRows
  <2>4. Edited
    BY <1>1, <2>3, EditMany
  <2> QED
    BY <2>3, <2>4 DEF RowsStay
<1> QED
  BY <1>1, <1>2, <1>3, ReconciledTypes, QuietBooks DEF Filling

LEMMA BooksStep ==
    ASSUME Base, Lives, BooksInv, ~dryRun, [Next]_vars
    PROVE  BooksInv'
<1>1. ASSUME NEW e \in Engines, EngineStart(e) \/ Ticking(e) \/ Stopping(e)
      PROVE  BooksInv'
  BY <1>1, EngineStartBooks, StopBooks, PassBooks, EntryBooks, ThreadsOf DEF Ticking, Stopping
<1>2. ASSUME NEW s \in Symbols, GroupStart(s) \/ GroupStop(s) \/ GroupStopped(s) \/ Repost(s)
      PROVE  BooksInv'
  <2>1. UNCHANGED <<pc, todo, engines, trades>>
    BY <1>2 DEF GroupStart, GroupStop, GroupStopped, Repost, threads
  <2> QED
    BY <2>1, SameRows, QuietBooks
<1>3. ASSUME NEW n \in Opened, MarketCloses(n)
      PROVE  BooksInv'
  <2>1. RowsStay
    BY <1>3, EditMarket DEF MarketCloses, RowsStay
  <2> QED
    BY <1>3, <2>1, QuietBooks DEF MarketCloses, threads
<1>4. ASSUME UNCHANGED vars
      PROVE  BooksInv'
  BY <1>4, SameRows, QuietBooks DEF vars, threads
<1> QED
  BY <1>1, <1>2, <1>3, <1>4 DEF Next

LEMMA BooksInit == Init => BooksInv
<1> SUFFICES ASSUME Init PROVE BooksInv
  OBVIOUS
<1>1. Opened = {} /\ \A th \in Threads : todo[th] = {} /\ pc[th] = "off"
  BY EmptySeq DEF Init, Opened
<1>2. \A e \in Engines : engines[e].openPositions = {}
  BY DEF Init, Fresh
<1> QED
  BY <1>1, <1>2, ThreadsOf DEF BooksInv, Listed, Unlisted, Filling

\* In live mode the result of a trade enters stats and risk counters at most once, whichever
\* of tick, final pass of a stop and later generation finds it closed, and whatever fails.
THEOREM LiveBookedOnce == Spec => [](~dryRun => BookedOnce)
<1> DEFINE IInv == Base /\ Lives /\ (~dryRun => BooksInv)
<1>1. Init => IInv
  BY BaseInit, LivesInit, BooksInit
<1>2. IInv /\ [Next]_vars => IInv'
  BY BaseStep, LivesStep, BooksStep, ModeKept
<1>3. IInv => (~dryRun => BookedOnce)
  BY DEF BooksInv, BookedOnce, Unbooked
<1> QED
  BY <1>1, <1>2, <1>3, PTL DEF Spec
----------------------------------------------------------------------------
(* One position for a coin, which its engine tracks, and the slot of PositionSlot.  Neither
   survives every event (the table of counterexamples in the README): these theorems exclude
   the stop of a bot, a start of one that runs, and a row that could not be inserted.  They
   allow all other failures: of orders, stop losses, reads and closes, in either mode. *)

Undisturbed == Events \cap {"stop", "repost", "insert_fails"} = {}

Active(e) == pc[Tick(e)] # "off"
Mine(e)   == {n \in Opened : trades[n].owner = e /\ trades[n].open}
Sided(e)  == Coordinator!Directional(BotKey(e))

Looking == {"decide", "gate", "cap", "reserve", "order"}

\* No stop runs; trades belong to engines that were started; what a pass books is closed.
Quiet == /\ \A s \in Symbols : phase[s] # "stopping"
         /\ \A e \in Engines : pc[Stop(e)] = "off"
Owned == \A n \in Opened : Active(trades[n].owner)
Found == \A th \in Threads : \A n \in todo[th] : ~trades[n].open

\* Where the position of an engine is: at its newest trade while the entry fills it, then among
\* what the engine holds, with an open row; and never while an entry looks for a way in.
Placed(e) ==
    /\ pc[Tick(e)] \in Filling => \A n \in Mine(e) : Newest(e, n)
    /\ pc[Tick(e)] \in Looking => Mine(e) = {}
    /\ pc[Tick(e)] \notin Filling \cup Looking => Mine(e) \subseteq engines[e].openPositions
    /\ pc[Tick(e)] \notin Filling => \A n \in Mine(e) : trades[n].row = "open"
    /\ pc[Tick(e)] = "book" =>
           \A n \in Mine(e) : (IF dryRun THEN n ELSE trades[n].side) \notin gone[Tick(e)]

\* One position for an engine, with a reservation of its side from the order on.
Backed(e) ==
    /\ \A m, n \in Mine(e) : m = n
    /\ \A n \in Mine(e) : reservations[BotKey(e)].direction = trades[n].side
    /\ pc[Tick(e)] = "order" => reservations[BotKey(e)].direction = signal[e]
    /\ Exposed(e) => Sided(e)

\* And a reservation with a side is that of a running engine, which in live mode has the
\* position or orders it.
Armed(e) ==
    Sided(e) => /\ \E f \in Engines : BotKey(f) = BotKey(e) /\ Active(f)
                /\ ~dryRun /\ Active(e) => Ordering(e) \/ engines[e].openPositions # {}

Sound ==
    /\ Quiet /\ Owned /\ Found
    /\ Coordinator!OneOpenPerSymbol
    /\ \A e \in Engines : Placed(e) /\ Backed(e) /\ Armed(e)

All == Base /\ Lives /\ Sound
----------------------------------------------------------------------------
(* What Sound says at once. *)

LEMMA SidedIs ==
    ASSUME NEW e \in Engines
    PROVE  /\ Sided(e) <=> /\ reservations[BotKey(e)].held
                           /\ reservations[BotKey(e)].direction # "none"
           /\ Sided(e)' <=> /\ reservations'[BotKey(e)].held
                            /\ reservations'[BotKey(e)].direction # "none"
BY DEF Sided, Coordinator!Directional, Coordinator!Held

\* A started engine is of its coin's generation, so there is one for a key.
LEMMA ActiveIsCurrent ==
    ASSUME All, NEW e \in Engines, Active(e)
    PROVE  /\ e[3] = generation[Coin(e)] /\ engines[e].session /\ phase[Coin(e)] # "down"
           /\ \A f \in Engines : f[3] = generation[Coin(f)] /\ BotKey(f) = BotKey(e) => f = e
<1>1. /\ engines[e].session /\ e[3] = generation[Coin(e)] /\ phase[Coin(e)] # "down"
  BY DEF All, Lives, Life, Sound, Quiet, Active
<1> QED
  BY <1>1, EngineOfKey, SameKeySameCoin

LEMMA ExposedIsActive ==
    ASSUME All, NEW e \in Engines, Exposed(e)
    PROVE  Active(e) /\ Sided(e)
BY DEF All, Sound, Owned, Exposed, Ordering, Active, Backed

LEMMA OneIsExposed ==
    ASSUME All
    PROVE  SinglePosition
<1>1. ASSUME NEW e \in Engines, NEW f \in Engines, Exposed(e), Exposed(f), Coin(e) = Coin(f)
      PROVE  e = f
  <2>1. Active(e) /\ Sided(e) /\ Active(f) /\ Sided(f)
    BY <1>1, ExposedIsActive
  <2>2. BotKey(e) = BotKey(f)
    BY <1>1, <2>1, EngineShape
    DEF All, Sound, Sided, Coordinator!OneOpenPerSymbol, Coordinator!KeySymbol
  <2> QED
    BY <2>1, <2>2, ActiveIsCurrent
<1>2. ASSUME NEW m \in Opened, NEW n \in Opened, trades[m].open, trades[n].open,
             trades[m].owner = trades[n].owner
      PROVE  m = n
  <2>1. trades[m].owner \in Engines
    BY BaseTypes DEF All, Trade
  <2> QED
    BY <1>2, <2>1 DEF All, Sound, Backed, Mine
<1> QED
  BY <1>1, <1>2 DEF SinglePosition

\* A position no entry is working on is in the engine, in the table and in the reservations.
LEMMA PositionsAccounted ==
    ASSUME All
    PROVE  Accounted
<1> SUFFICES ASSUME NEW n \in Opened, trades[n].open,
                    ~(Ordering(trades[n].owner) /\ n = Opening(trades[n].owner))
             PROVE  LET e == trades[n].owner IN
                    /\ n \in engines[e].openPositions
                    /\ trades[n].row = "open"
                    /\ Coordinator!Directional(BotKey(e))
                    /\ reservations[BotKey(e)].direction = trades[n].side
  BY DEF Accounted
<1> DEFINE e == trades[n].owner
<1>1. e \in Engines /\ n \in Mine(e) /\ Exposed(e)
  BY BaseTypes DEF All, Trade, Mine, Exposed
<1>2. Placed(e) /\ Backed(e) /\ Sided(e)
  BY <1>1, ExposedIsActive DEF All, Sound
<1>3. pc[Tick(e)] \notin Filling \cup Looking
  <2>1. CASE pc[Tick(e)] \in Filling
    <3>1. Newest(e, n) /\ Newest(e, Opening(e)) /\ Opening(e) \in Opened
      BY <1>1, <1>2, <2>1, OpeningIsNewest DEF All, Placed
    <3>2. n = Opening(e)
      BY <3>1, OpenedIs, BaseTypes DEF All, Newest
    <3> QED
      BY <2>1, <3>2 DEF Ordering, Filling
  <2>2. CASE pc[Tick(e)] \in Looking
    BY <1>1, <1>2, <2>2 DEF Placed
  <2> QED
    BY <2>1, <2>2
<1> QED
  BY <1>1, <1>2, <1>3 DEF Placed, Backed, Sided

LEMMA ReservationsBacked ==
    ASSUME All, ~dryRun
    PROVE  NoGhostReservation
<1> SUFFICES ASSUME NEW e \in Engines, Sided(e)
             PROVE  \E f \in Engines : /\ BotKey(f) = BotKey(e)
                                       /\ Ordering(f) \/ engines[f].openPositions # {}
  BY DEF NoGhostReservation, Sided
<1>1. PICK f \in Engines : BotKey(f) = BotKey(e) /\ Active(f)
  BY DEF All, Sound, Armed
<1> QED
  BY <1>1 DEF All, Sound, Armed, Sided
----------------------------------------------------------------------------
(* A step is one engine's. *)

\* What a step of e may do to the trades: open one of e, and edit those of e or those the
\* market holds no more.
TradesOf(e) ==
    /\ Opened \subseteq Opened'
    /\ \A n \in Opened' \ Opened : trades'[n].owner = e
    /\ \A n \in Opened :
          /\ trades'[n].owner = trades[n].owner /\ trades'[n].side = trades[n].side
          /\ trades'[n].open => trades[n].open
          /\ trades[n].owner # e /\ trades[n].open => trades'[n] = trades[n]

Only(e) ==
    /\ \A f \in Engines \ {e} :
          /\ pc'[Tick(f)] = pc[Tick(f)] /\ signal'[f] = signal[f] /\ gone'[Tick(f)] = gone[Tick(f)]
          /\ engines'[f].openPositions = engines[f].openPositions
    /\ \A f \in Engines : pc'[Stop(f)] = pc[Stop(f)]
    /\ \A k \in Coordinator!BotKeys \ {BotKey(e)} : reservations'[k] = reservations[k]
    /\ phase' = phase /\ dryRun' = dryRun
    /\ TradesOf(e)

LEMMA OthersKeep ==
    ASSUME All, NEW e \in Engines, Only(e), Active(e)',
           \A f \in Engines \ {e} : Active(f) => BotKey(f) # BotKey(e),
           NEW f \in Engines \ {e}
    PROVE  Placed(f)' /\ Backed(f)' /\ Armed(f)'
<1>1. /\ Placed(f) /\ Backed(f) /\ Armed(f)
      /\ pc'[Tick(f)] = pc[Tick(f)] /\ signal'[f] = signal[f] /\ gone'[Tick(f)] = gone[Tick(f)]
      /\ engines'[f].openPositions = engines[f].openPositions
      /\ BotKey(f) \in Coordinator!BotKeys /\ dryRun' = dryRun
  BY EngineShape DEF All, Sound, Only
<1>2. /\ Mine(f)' = Mine(f) /\ Mine(f) \subseteq Opened
      /\ \A n \in Mine(f) : trades'[n] = trades[n]
  BY DEF Only, TradesOf, Mine
<1>3. \A n \in Mine(f) : Newest(f, n) => Newest(f, n)'
  BY <1>2 DEF Only, TradesOf, Newest
<1>4. Placed(f)'
  BY <1>1, <1>2, <1>3 DEF Placed
<1>5. Exposed(f)' <=> Exposed(f)
  <2>1. Exposed(f) <=> Ordering(f) \/ Mine(f) # {}
    BY DEF Exposed, Mine
  <2>2. Exposed(f)' <=> Ordering(f)' \/ Mine(f)' # {}
    BY DEF Exposed, Mine
  <2> QED
    BY <1>1, <1>2, <2>1, <2>2 DEF Ordering
<1>6. CASE BotKey(f) # BotKey(e)
  <2>1. reservations'[BotKey(f)] = reservations[BotKey(f)] /\ (Sided(f)' <=> Sided(f))
    BY <1>1, <1>6, SidedIs DEF Only
  <2>2. Backed(f)'
    BY <1>1, <1>2, <1>5, <2>1 DEF Backed
  <2>3. Armed(f)'
    <3>1. ASSUME NEW g \in Engines, BotKey(g) = BotKey(f), Active(g)
          PROVE  Active(g)'
      BY <1>6, <3>1 DEF Only, Active
    <3> QED
      BY <1>1, <2>1, <3>1 DEF Armed, Active, Ordering
  <2> QED
    BY <1>4, <2>2, <2>3
<1>7. CASE BotKey(f) = BotKey(e)
  <2>1. ~Active(f) /\ ~Active(f)'
    BY <1>1, <1>7 DEF Active
  <2>2. ~Exposed(f) /\ Mine(f) = {} /\ pc'[Tick(f)] # "order"
    BY <1>1, <2>1, ExposedIsActive DEF Active, Exposed, Mine
  <2>3. Backed(f)'
    BY <1>2, <1>5, <2>2 DEF Backed
  <2>4. Armed(f)'
    BY <1>7, <2>1 DEF Armed
  <2> QED
    BY <1>4, <2>3, <2>4
<1> QED
  BY <1>6, <1>7

LEMMA OneKept ==
    ASSUME All, NEW e \in Engines, Only(e), Sided(e)' => Sided(e)
    PROVE  Coordinator!OneOpenPerSymbol'
<1>1. \A k \in Coordinator!BotKeys : Coordinator!Directional(k)' => Coordinator!Directional(k)
  BY EngineShape DEF Only, Sided, Coordinator!Directional, Coordinator!Held
<1> QED
  BY <1>1 DEF All, Sound, Coordinator!OneOpenPerSymbol, Coordinator!KeySymbol

LEMMA StepOf ==
    ASSUME All, NEW e \in Engines, Only(e), Active(e), Active(e)', Found',
           Placed(e)', Backed(e)', Armed(e)',
           Coordinator!OneOpenPerSymbol' \/ (Sided(e)' => Sided(e))
    PROVE  Sound'
<1>1. \A f \in Engines \ {e} : Active(f) => BotKey(f) # BotKey(e)
  BY ActiveIsCurrent
<1>2. \A f \in Engines : Placed(f)' /\ Backed(f)' /\ Armed(f)'
  BY <1>1, OthersKeep
<1>3. Owned'
  BY BaseTypes DEF All, Sound, Owned, Only, TradesOf, Active, Trade
<1>4. Quiet'
  BY DEF All, Sound, Quiet, Only
<1>5. Coordinator!OneOpenPerSymbol'
  BY OneKept
<1> QED
  BY <1>2, <1>3, <1>4, <1>5 DEF Sound

\* A step that leaves trades, reservations and lists alone.
LEMMA Walk ==
    ASSUME All, NEW e \in Engines, NEW label \in Labels \ {"off"}, Active(e),
           pc' = [pc EXCEPT ![Tick(e)] = label],
           \A f \in Engines \ {e} : signal'[f] = signal[f] /\ gone'[Tick(f)] = gone[Tick(f)]
                                    /\ engines'[f].openPositions = engines[f].openPositions,
           UNCHANGED <<reservations, phase, dryRun, trades>>,
           Found', Placed(e)',
           label = "order" => reservations[BotKey(e)].direction = signal'[e],
           Ordering(e)' => Sided(e),
           Armed(e) => Armed(e)'
    PROVE  Sound'
<1>1. /\ pc'[Tick(e)] = label /\ \A f \in Engines \ {e} : pc'[Tick(f)] = pc[Tick(f)]
      /\ \A f \in Engines : pc'[Stop(f)] = pc[Stop(f)]
  BY BaseTypes, ThreadsOf, ThreadsDiffer DEF All
<1>2. TradesOf(e) /\ Mine(e)' = Mine(e)
  BY DEF TradesOf, Mine, Opened
<1>3. Only(e)
  BY <1>1, <1>2 DEF Only
<1>4. Sided(e)' <=> Sided(e)
  BY SidedIs
<1>5. Exposed(e)' => Ordering(e)' \/ Exposed(e)
  BY DEF Exposed, Opened
<1>6. Backed(e)'
  BY <1>1, <1>2, <1>4, <1>5 DEF All, Sound, Backed
<1> QED
  BY <1>1, <1>3, <1>4, <1>6, StepOf DEF Active, All, Sound
----------------------------------------------------------------------------
(* Monitor *)

LEMMA ReconcileSound ==
    ASSUME All, NEW e \in Engines, Reconcile(Tick(e))
    PROVE  Sound'
<1>1. /\ Active(e) /\ Placed(e) /\ pc[Tick(e)] = "monitor" /\ Base
      /\ Tick(e)[1] = e /\ Tick(e)[2] = "tick"
  BY ThreadsOf DEF All, Sound, Reconcile, At, Active
<1>2. PICK found \in {{}, Reconciled(e)}, unseen \in {{}, engines[e].unseen} :
          /\ ReadsBack(e, found, unseen)
          /\ Proceeds(Tick(e), engines[e].openPositions \cup found)
  BY <1>1, ThreadsOf, ReconcileIs
<1> DEFINE held == engines[e].openPositions \cup found
<1> DEFINE label == IF held # {} THEN "sync" ELSE "decide"
<1>3. /\ engines'[e].openPositions = held
      /\ \A f \in Engines \ {e} : engines'[f] = engines[f]
  BY <1>1, <1>2, PositionsRead
<1>4. /\ UNCHANGED <<reservations, signal, gone, todo, phase, dryRun, trades>>
      /\ pc' = [pc EXCEPT ![Tick(e)] = label] /\ pc'[Tick(e)] = label
      /\ label \in Labels \ {"off"} /\ Mine(e)' = Mine(e)
  BY <1>1, <1>2, BaseTypes, ThreadsOf
     DEF All, Reconcile, coordinator, Proceeds, Goto, Labels, Mine, Opened
<1>5. Placed(e)'
  BY <1>1, <1>2, <1>3, <1>4 DEF Placed, Looking, Filling
<1>6. Found'
  BY <1>4 DEF All, Sound, Found
<1>7. Armed(e) => Armed(e)'
  <2>1. (Sided(e)' <=> Sided(e)) /\ ~Ordering(e)
    BY <1>1, <1>4, SidedIs DEF Ordering
  <2>2. \A f \in Engines : Active(f) => Active(f)'
    BY <1>4, BaseTypes DEF All, Active
  <2> QED
    BY <1>1, <1>2, <1>3, <1>4, <2>1, <2>2 DEF Armed
<1> QED
  BY <1>1, <1>3, <1>4, <1>5, <1>6, <1>7, Walk DEF Ordering

LEMMA SyncSound ==
    ASSUME All, NEW e \in Engines, Sync(Tick(e))
    PROVE  Sound'
<1> DEFINE missing == Sides \ OpenSides(Coin(e))
           closed == {n \in engines[e].openPositions :
                          IF dryRun THEN ~trades[n].open ELSE trades[n].side \in missing}
<1>1. /\ Active(e) /\ Placed(e) /\ pc[Tick(e)] = "sync" /\ Base /\ Rest
      /\ Tick(e)[1] = e /\ Tick(e) \in Threads
  BY ThreadsOf, BaseTypes DEF All, Sound, Sync, At, Active
<1>2. /\ gone' = [gone EXCEPT ![Tick(e)] = IF dryRun THEN closed ELSE missing]
      /\ todo' = [todo EXCEPT ![Tick(e)] = closed]
      /\ pc' = [pc EXCEPT ![Tick(e)] = "book"]
      /\ UNCHANGED <<reservations, signal, engines, phase, dryRun, trades>>
  BY <1>1 DEF Sync, Goto, coordinator
<1>3. ASSUME NEW n \in Opened, trades[n].open, Coin(trades[n].owner) = Coin(e)
      PROVE  trades[n].side \notin missing
  BY <1>3 DEF OpenSides
<1>4. ASSUME NEW n \in closed PROVE n \in Opened /\ ~trades[n].open
  <2>1. OwnTrade(e, n) /\ trades[n].owner \in Engines
    BY BaseTypes DEF All, Base, HoldsOwn, OwnTrade, Trade
  <2>2. Coin(trades[n].owner) = Coin(e)
    BY <2>1, SameKeySameCoin DEF OwnTrade
  <2> QED
    BY <1>3, <2>1, <2>2 DEF OwnTrade
<1>5. \A n \in Mine(e) : (IF dryRun THEN n ELSE trades[n].side) \notin gone'[Tick(e)]
  <2>1. gone'[Tick(e)] = IF dryRun THEN closed ELSE missing
    BY <1>1, <1>2 DEF Rest
  <2> QED
    BY <1>3, <2>1 DEF Mine
<1> HIDE DEF closed, missing
<1>6. Found'
  BY <1>1, <1>2, <1>4 DEF All, Sound, Found, Rest
<1>7. pc'[Tick(e)] = "book" /\ Mine(e)' = Mine(e)
  BY <1>1, <1>2, BaseTypes DEF Mine, Opened
<1>8. Placed(e)'
  BY <1>1, <1>2, <1>5, <1>7 DEF Placed, Looking, Filling
<1>9. Armed(e) => Armed(e)'
  <2>1. (Sided(e)' <=> Sided(e)) /\ ~Ordering(e)
    BY <1>1, <1>2, SidedIs DEF Ordering
  <2>2. \A f \in Engines : Active(f) => Active(f)'
    BY <1>1, <1>2, BaseTypes DEF Active
  <2> QED
    BY <1>1, <1>2, <2>1, <2>2 DEF Armed
<1>10. \A f \in Engines \ {e} : gone'[Tick(f)] = gone[Tick(f)]
  BY <1>1, <1>2, ThreadsOf, ThreadsDiffer DEF Rest
<1> QED
  BY <1>1, <1>2, <1>6, <1>7, <1>8, <1>9, <1>10, Walk DEF Ordering, Labels

\* Steps of a tick that only go on.
LEMMA WalkOn ==
    ASSUME All, NEW e \in Engines, NEW label \in Labels \ ({"off", "book"} \cup Filling),
           Active(e), Goto(Tick(e), label),
           UNCHANGED <<reservations, gone, todo, engines, phase, dryRun, trades>>,
           \A f \in Engines \ {e} : signal'[f] = signal[f],
           \/ pc[Tick(e)] \in Looking \ {"order"} /\ label # "order"
           \/ pc[Tick(e)] \notin Filling \cup Looking /\ label \notin Looking
    PROVE  Sound'
<1>1. /\ pc' = [pc EXCEPT ![Tick(e)] = label] /\ pc'[Tick(e)] = label
      /\ Mine(e)' = Mine(e) /\ Placed(e) /\ Found'
  BY BaseTypes, ThreadsOf DEF All, Sound, Goto, Mine, Opened, Found
<1>2. Placed(e)'
  BY <1>1 DEF Placed, Looking, Filling
<1>3. ~Ordering(e)'
  BY <1>1 DEF Ordering, Looking, Filling
<1>4. Armed(e) => Armed(e)'
  <2>1. Sided(e)' <=> Sided(e)
    BY SidedIs
  <2>2. \A f \in Engines : Active(f) => Active(f)'
    BY <1>1, BaseTypes DEF All, Active
  <2>3. ~Ordering(e)
    BY DEF Ordering, Looking, Filling
  <2> QED
    BY <1>1, <2>1, <2>2, <2>3 DEF Armed
<1> QED
  BY <1>1, <1>2, <1>3, <1>4, Walk DEF Looking, Ordering

LEMMA BookSound ==
    ASSUME All, NEW e \in Engines, Book(Tick(e))
    PROVE  Sound'
<1>1. /\ Active(e) /\ Placed(e) /\ Backed(e) /\ Armed(e) /\ pc[Tick(e)] = "book" /\ Base /\ Rest
      /\ Tick(e) \in Threads /\ TypeOK /\ Found
  BY ThreadsOf, BaseTypes DEF All, Sound, Book, At, Active
<1>2. PICK n \in todo[Tick(e)], applied \in BOOLEAN :
          trades' = Booked(n, applied) /\ todo' = [todo EXCEPT ![Tick(e)] = todo[Tick(e)] \ {n}]
  BY DEF Book
<1>3. UNCHANGED <<reservations, pc, signal, gone, engines, phase, dryRun>>
  BY DEF Book, coordinator
<1>4. n \in Opened /\ ~trades[n].open
  BY <1>1, <1>2 DEF Found, Rest
<1>5. /\ Edited /\ \A m \in Opened \ {n} : trades'[m] = trades[m]
      /\ trades'[n].open = trades[n].open
  BY <1>1, <1>2, <1>4, BookedIs
<1>6. TradesOf(e)
  BY <1>4, <1>5 DEF TradesOf, Edited
<1>7. Only(e)
  BY <1>3, <1>6 DEF Only
<1>8. Found'
  BY <1>1, <1>2, <1>4, <1>5 DEF Found, Rest, Edited
<1>9. /\ Mine(e)' = Mine(e) /\ n \notin Mine(e) /\ Mine(e) \subseteq Opened
      /\ \A m \in Mine(e) : trades'[m] = trades[m]
  BY <1>4, <1>5 DEF Mine, Edited
<1>10. Placed(e)'
  BY <1>1, <1>3, <1>9 DEF Placed, Looking, Filling
<1>11. (Sided(e)' <=> Sided(e)) /\ (Exposed(e)' <=> Exposed(e))
  <2>1. Exposed(e) <=> Ordering(e) \/ Mine(e) # {}
    BY DEF Exposed, Mine
  <2>2. Exposed(e)' <=> Ordering(e)' \/ Mine(e)' # {}
    BY DEF Exposed, Mine
  <2> QED
    BY <1>3, <1>9, <2>1, <2>2, SidedIs DEF Ordering
<1>12. Backed(e)'
  BY <1>1, <1>3, <1>9, <1>11 DEF Backed
<1>13. Armed(e)'
  BY <1>1, <1>3, <1>11 DEF Armed, Ordering, Active
<1> QED
  BY <1>1, <1>3, <1>7, <1>8, <1>10, <1>11, <1>12, <1>13, StepOf DEF Active

LEMMA PassEndSound ==
    ASSUME All, NEW e \in Engines, PassEnd(Tick(e))
    PROVE  Sound'
<1> DEFINE kept == {n \in engines[e].openPositions :
                       (IF dryRun THEN n ELSE trades[n].side) \notin gone[Tick(e)]}
           label == IF kept = {} THEN "decide" ELSE "idle"
<1>1. /\ Active(e) /\ Placed(e) /\ Backed(e) /\ Armed(e) /\ pc[Tick(e)] = "book" /\ Base /\ Rest
      /\ Tick(e) \in Threads /\ TypeOK /\ Found /\ Tick(e)[1] = e /\ Tick(e)[2] = "tick"
  BY ThreadsOf, BaseTypes DEF All, Sound, PassEnd, At, Active
<1>2. /\ engines' = [engines EXCEPT ![e].openPositions = kept]
      /\ IF dryRun THEN UNCHANGED reservations ELSE ReleaseIfFlat(e, kept)
      /\ gone' = [gone EXCEPT ![Tick(e)] = {}]
      /\ pc' = [pc EXCEPT ![Tick(e)] = label]
      /\ UNCHANGED <<signal, todo, phase, dryRun, trades>>
  BY <1>1 DEF PassEnd, Goto
<1>3. Mine(e) \subseteq kept
  BY <1>1 DEF Placed, Looking, Filling
<1> HIDE DEF kept
<1>4. /\ engines'[e].openPositions = kept
      /\ \A f \in Engines \ {e} : engines'[f] = engines[f]
  BY <1>1, <1>2, PositionsOnly
<1>5. /\ pc'[Tick(e)] = label
      /\ \A f \in Engines \ {e} : pc'[Tick(f)] = pc[Tick(f)] /\ gone'[Tick(f)] = gone[Tick(f)]
      /\ \A f \in Engines : pc'[Stop(f)] = pc[Stop(f)]
  BY <1>1, <1>2, BaseTypes, ThreadsOf, ThreadsDiffer DEF Rest
<1>6. /\ \A k \in Coordinator!BotKeys \ {BotKey(e)} : reservations'[k] = reservations[k]
      /\ \/ reservations' = reservations
         \/ ~dryRun /\ kept = {} /\ ~Sided(e)'
      /\ ~dryRun /\ kept = {} => ~Sided(e)'
  <2>1. CASE dryRun
    BY <1>2, <2>1
  <2>2. CASE ~dryRun /\ kept # {}
    BY <1>2, <2>2 DEF ReleaseIfFlat
  <2>3. CASE ~dryRun /\ kept = {}
    <3>1. reservations' = Coordinator!Released(BotKey(e)) /\ BotKey(e) \in Coordinator!BotKeys
      BY <1>2, <2>3, EngineShape DEF ReleaseIfFlat
    <3>2. /\ ~reservations'[BotKey(e)].held
          /\ \A k \in Coordinator!BotKeys \ {BotKey(e)} : reservations'[k] = reservations[k]
      BY <1>1, <3>1, Releasing DEF Rest
    <3> QED
      BY <2>3, <3>2, SidedIs
  <2> QED
    BY <2>1, <2>2, <2>3
<1>7. TradesOf(e) /\ Mine(e)' = Mine(e)
  BY <1>2 DEF TradesOf, Mine, Opened
<1>8. Only(e)
  BY <1>2, <1>4, <1>5, <1>6, <1>7 DEF Only
<1>9. Found'
  BY <1>1, <1>2 DEF Found
<1>10. Placed(e)'
  BY <1>1, <1>2, <1>3, <1>4, <1>5, <1>7 DEF Placed, Looking, Filling
<1>11. Sided(e)' => Sided(e)
  BY <1>6, SidedIs
<1>12. Backed(e)'
  <2>1. Exposed(e)' => Mine(e) # {}
    BY <1>5, <1>7 DEF Exposed, Ordering, Mine
  <2>2. Mine(e) # {} => kept # {} /\ Sided(e)
    BY <1>1, <1>3 DEF Backed, Exposed, Mine
  <2>3. Mine(e) # {} => reservations' = reservations /\ Sided(e)'
    BY <1>6, <2>2, SidedIs
  <2>4. \A n \in Mine(e) : trades'[n] = trades[n] /\ reservations' = reservations
    BY <1>2, <2>3
  <2> QED
    BY <1>1, <1>5, <1>7, <2>1, <2>3, <2>4 DEF Backed
<1>13. Armed(e)'
  BY <1>2, <1>4, <1>5, <1>6 DEF Armed, Active
<1> QED
  BY <1>1, <1>5, <1>8, <1>9, <1>10, <1>11, <1>12, <1>13, StepOf DEF Active

\* Only ticks pass: there is no stop.
LEMMA PassSound ==
    ASSUME All, NEW th \in Threads, Pass(th)
    PROVE  Sound'
<1>1. PICK e \in Engines : th = Tick(e) \/ th = Stop(e)
  BY ThreadShape
<1>2. th = Tick(e)
  BY <1>1 DEF All, Sound, Quiet, Pass, Reconcile, Sync, SyncFails, Book, PassEnd, At
<1>3. CASE SyncFails(th)
  <2>1. /\ Goto(Tick(e), "idle") /\ Active(e) /\ pc[Tick(e)] = "sync"
        /\ UNCHANGED <<reservations, signal, gone, todo, engines, phase, dryRun, trades>>
    BY <1>2, <1>3, ThreadsOf DEF SyncFails, At, Active, coordinator
  <2> QED
    BY <2>1, WalkOn DEF Labels, Filling, Looking
<1> QED
  BY <1>2, <1>3, ReconcileSound, SyncSound, BookSound, PassEndSound DEF Pass
----------------------------------------------------------------------------
(* Entry *)

LEMMA LookSound ==
    ASSUME All, NEW e \in Engines,
           TickBegin(e) \/ Decide(e) \/ Gate(e) \/ Cap(e) \/ BalanceFails(e)
    PROVE  Sound'
<1>1. Active(e) /\ signal \in [Engines -> Sides]
  BY BaseTypes DEF All, Rest, TickBegin, Decide, Gate, Cap, BalanceFails, At, Active
<1>2. /\ UNCHANGED <<reservations, gone, todo, engines, phase, dryRun, trades>>
      /\ \A f \in Engines \ {e} : signal'[f] = signal[f]
  BY <1>1 DEF TickBegin, Decide, Gate, Cap, BalanceFails, NoEntry, coordinator
<1>3. PICK label \in {"idle", "monitor", "gate", "cap", "reserve"} :
          /\ Goto(Tick(e), label)
          /\ \/ pc[Tick(e)] \in Looking \ {"order"}
             \/ pc[Tick(e)] = "idle" /\ label = "monitor"
  BY DEF TickBegin, Decide, Gate, Cap, BalanceFails, NoEntry, At, Looking
<1>4. label \in Labels \ ({"off", "book"} \cup Filling) /\ label # "order"
  BY <1>3 DEF Labels, Filling
<1> QED
  BY <1>1, <1>2, <1>3, <1>4, WalkOn DEF Looking, Filling

\* Between the order and the insert.
LEMMA FillSound ==
    ASSUME All, NEW e \in Engines, NEW label \in {"emergency", "insert"}, Goto(Tick(e), label),
           pc[Tick(e)] \in {"protect", "emergency"},
           UNCHANGED <<coordinator, signal, gone, todo, engines, generation, phase, dryRun, trades>>
    PROVE  Sound'
<1>1. /\ pc' = [pc EXCEPT ![Tick(e)] = label] /\ pc'[Tick(e)] = label
      /\ Mine(e)' = Mine(e) /\ Placed(e) /\ Backed(e) /\ Found' /\ Active(e) /\ Ordering(e)
  BY BaseTypes, ThreadsOf DEF All, Sound, Goto, Mine, Opened, Found, Active, Ordering
<1>2. Placed(e)'
  BY <1>1 DEF Placed, Looking, Filling, Newest, Opened
<1>3. Sided(e)
  BY <1>1 DEF Backed, Exposed
<1>4. Armed(e)'
  BY <1>1 DEF Armed, Active, Ordering
<1> QED
  BY <1>1, <1>2, <1>3, <1>4, Walk DEF Labels, coordinator

\* The entry is given up, when nothing of it is left in the market.
LEMMA AbandonSound ==
    ASSUME All, NEW e \in Engines, Abandon(e), Active(e), TradesOf(e), Mine(e)' = {}
    PROVE  Sound'
<1>1. /\ Base /\ Rest /\ Found /\ BotKey(e) \in Coordinator!BotKeys
      /\ pc' = [pc EXCEPT ![Tick(e)] = "idle"]
      /\ UNCHANGED <<signal, gone, todo, engines, phase, dryRun>>
  BY BaseTypes, EngineShape DEF All, Sound, Abandon, Goto
<1>2. /\ pc'[Tick(e)] = "idle"
      /\ \A f \in Engines \ {e} : pc'[Tick(f)] = pc[Tick(f)]
      /\ \A f \in Engines : pc'[Stop(f)] = pc[Stop(f)]
  BY <1>1, BaseTypes, ThreadsOf, ThreadsDiffer
<1>3. /\ ~reservations'[BotKey(e)].held
      /\ \A k \in Coordinator!BotKeys \ {BotKey(e)} : reservations'[k] = reservations[k]
  BY <1>1, Releasing DEF Abandon, Rest
<1>4. Only(e) /\ ~Sided(e)'
  BY <1>1, <1>2, <1>3, SidedIs DEF Only
<1>5. Found'
  BY <1>1 DEF Found, TradesOf, Rest
<1>6. Placed(e)' /\ Backed(e)' /\ Armed(e)'
  <2>1. ~Exposed(e)'
    BY <1>2 DEF Exposed, Ordering, Mine
  <2> QED
    BY <1>2, <1>4, <2>1 DEF Placed, Backed, Armed, Looking, Filling
<1> QED
  BY <1>2, <1>4, <1>5, <1>6, StepOf DEF Active

LEMMA SameTradesOf ==
    ASSUME NEW e \in Engines, trades' = trades
    PROVE  TradesOf(e) /\ Mine(e)' = Mine(e)
BY DEF TradesOf, Mine, Opened

LEMMA RejectedSound ==
    ASSUME All, NEW e \in Engines, OrderRejected(e)
    PROVE  Sound'
<1>1. Active(e) /\ Mine(e) = {} /\ trades' = trades /\ Abandon(e)
  BY DEF OrderRejected, At, Active, All, Sound, Placed, Looking
<1> QED
  BY <1>1, SameTradesOf, AbandonSound

LEMMA EmergencySound ==
    ASSUME All, NEW e \in Engines, EmergencyClose(e)
    PROVE  Sound'
<1>1. Active(e) /\ pc[Tick(e)] = "emergency" /\ Base /\ Placed(e)
  BY DEF EmergencyClose, At, Active, All, Sound
<1>2. CASE trades' = [trades EXCEPT ![Opening(e)].open = FALSE] /\ Abandon(e)
  <2> DEFINE n == Opening(e)
  <2>1. n \in Opened /\ Newest(e, n)
    BY <1>1, OpeningIsNewest DEF Filling
  <2>2. /\ Edited /\ \A m \in Opened \ {n} : trades'[m] = trades[m]
        /\ ~trades'[n].open
    BY <1>1, <1>2, <2>1, EditMarket
  <2>3. TradesOf(e)
    BY <2>1, <2>2 DEF TradesOf, Edited, Newest
  <2>4. \A m \in Mine(e) : m = n
    <3>1. \A m \in Mine(e) : Newest(e, m) /\ m \in Opened
      BY <1>1 DEF Placed, Filling, Mine
    <3> QED
      BY <1>1, <2>1, <3>1, OpenedIs, BaseTypes DEF Newest
  <2>5. Mine(e)' = {}
    BY <2>2, <2>4 DEF Mine, Edited
  <2> QED
    BY <1>1, <1>2, <2>3, <2>5, AbandonSound
<1>3. CASE /\ Goto(Tick(e), "insert")
           /\ UNCHANGED <<coordinator, signal, gone, todo, engines,
                          generation, phase, dryRun, trades>>
  BY <1>1, <1>3, FillSound
<1> QED
  BY <1>2, <1>3 DEF EmergencyClose

\* An order goes out, or was filled: the trade is the engine's one position.
LEMMA FilledTrade ==
    ASSUME All, NEW e \in Engines, NextTrade \in TradeIds, Opens(e), Mine(e) = {}
    PROVE  /\ TradesOf(e) /\ Mine(e)' = {NextTrade}
           /\ \A n \in Mine(e)' : Newest(e, n)'
           /\ trades'[NextTrade].side = signal[e]
           /\ \A n \in Opened : trades'[n] = trades[n]
<1>1. /\ NextTrade \notin Opened /\ Opened' = Opened \cup {NextTrade}
      /\ \A n \in Opened : n < NextTrade /\ trades'[n] = trades[n]
      /\ trades'[NextTrade].owner = e /\ trades'[NextTrade].side = signal[e]
      /\ trades'[NextTrade].open
      /\ \A n \in Opened' : n <= NextTrade
  BY BaseTypes, OpensOne DEF All
<1>2. Mine(e)' = {NextTrade}
  BY <1>1 DEF Mine
<1>3. ASSUME NEW n \in Mine(e)' PROVE Newest(e, n)'
  <2>1. n = NextTrade
    BY <1>2
  <2> QED
    BY <1>1, <2>1 DEF Newest
<1> QED
  BY <1>1, <1>2, <1>3 DEF TradesOf, Mine

\* An entry writes its reservation and goes on to its order, or with the trade it got.
LEMMA TakesSide ==
    ASSUME All, NEW e \in Engines, Active(e), TradesOf(e),
           NEW label \in {"order", "protect", "insert"}, Goto(Tick(e), label),
           NEW m \in Margins, reservations' = Coordinator!Reserved(BotKey(e), m, signal[e]),
           UNCHANGED <<signal, gone, todo, engines, phase, dryRun>>,
           label = "order" => Mine(e)' = {},
           \A n \in Mine(e)' : Newest(e, n)' /\ trades'[n].side = signal[e],
           \A n, k \in Mine(e)' : n = k,
           Sided(e) \/ \A k \in Coordinator!BotKeys \ {BotKey(e)} :
                           Coordinator!Directional(k) => k[1] # Coin(e)
    PROVE  Sound'
<1>1. /\ Base /\ Rest /\ Found /\ BotKey(e) \in Coordinator!BotKeys /\ BotKey(e)[1] = Coin(e)
      /\ pc' = [pc EXCEPT ![Tick(e)] = label]
      /\ m \in Nat /\ signal[e] \in Coordinator!Directions /\ signal[e] # "none"
  BY BaseTypes, EngineShape, TradingGroupAssumption
     DEF All, Sound, Goto, Rest, Coordinator!Directions, Coordinator!Sides, Sides
<1>2. /\ pc'[Tick(e)] = label
      /\ \A f \in Engines \ {e} : pc'[Tick(f)] = pc[Tick(f)]
      /\ \A f \in Engines : pc'[Stop(f)] = pc[Stop(f)]
  BY <1>1, BaseTypes, ThreadsOf, ThreadsDiffer
<1>3. /\ reservations'[BotKey(e)].held /\ reservations'[BotKey(e)].direction = signal[e]
      /\ \A k \in Coordinator!BotKeys \ {BotKey(e)} : reservations'[k] = reservations[k]
  BY <1>1, Reserving DEF Rest
<1>4. Only(e) /\ Sided(e)'
  BY <1>1, <1>2, <1>3, SidedIs DEF Only
<1>5. Found'
  BY <1>1 DEF Found, TradesOf, Rest
<1>6. Placed(e)'
  BY <1>2 DEF Placed, Looking, Filling
<1>7. Backed(e)'
  BY <1>3, <1>4 DEF Backed
<1>8. Armed(e)' /\ Active(e)'
  BY <1>2 DEF Armed, Active, Ordering
<1>9. CASE Sided(e)
  BY <1>4, <1>5, <1>6, <1>7, <1>8, <1>9, StepOf
<1>10. CASE \A k \in Coordinator!BotKeys \ {BotKey(e)} :
               Coordinator!Directional(k) => k[1] # Coin(e)
  <2>1. \A k \in Coordinator!BotKeys \ {BotKey(e)} :
            Coordinator!Directional(k)' <=> Coordinator!Directional(k)
    BY <1>3 DEF Coordinator!Directional, Coordinator!Held
  <2>2. Coordinator!OneOpenPerSymbol'
    BY <1>1, <1>10, <2>1
    DEF All, Sound, Coordinator!OneOpenPerSymbol, Coordinator!KeySymbol
  <2> QED
    BY <1>4, <1>5, <1>6, <1>7, <1>8, <2>2, StepOf
<1> QED
  BY <1>9, <1>10

\* The gate lets a bot in only when no other of its coin has a side.
LEMMA GateAlone ==
    ASSUME NEW k \in Coordinator!BotKeys, NEW m, NEW d, NEW q, WithEquity(q)!CanOpen(k, m, d),
           NEW j \in Coordinator!BotKeys \ {k}, Coordinator!Directional(j)
    PROVE  j[1] # k[1]
<1>1. reservations[j].held /\ reservations[j].direction # "none"
  BY DEF Coordinator!Directional, Coordinator!Held
<1> QED
  BY <1>1 DEF WithEquity!CanOpen, WithEquity!HasSymbol, WithEquity!HasGroupOpenPosition,
              WithEquity!SameGroup, WithEquity!Grouped, WithEquity!Held, WithEquity!Directional,
              WithEquity!KeySymbol, WithEquity!BotKeys, Coordinator!BotKeys

LEMMA ReserveSound ==
    ASSUME All, NEW e \in Engines, Reserve(e)
    PROVE  Sound'
<1>1. /\ Active(e) /\ pc[Tick(e)] = "reserve" /\ Mine(e) = {} /\ NextTrade \in TradeIds
      /\ BotKey(e) \in Coordinator!BotKeys /\ BotKey(e)[1] = Coin(e)
      /\ UNCHANGED <<signal, gone, todo, engines, phase, dryRun>>
  BY EngineShape DEF Reserve, At, Active, All, Sound, Placed, Looking
<1>2. ASSUME NEW q, NEW m \in Margins, WithEquity(q)!CanOpen(BotKey(e), m, signal[e]),
             reservations' = Coordinator!Reserved(BotKey(e), m, signal[e]),
             IF dryRun THEN Opens(e) /\ Goto(Tick(e), "insert")
                       ELSE UNCHANGED trades /\ Goto(Tick(e), "order")
      PROVE  Sound'
  <2>1. \A k \in Coordinator!BotKeys \ {BotKey(e)} : Coordinator!Directional(k) => k[1] # Coin(e)
    BY <1>1, <1>2, GateAlone
  <2>2. CASE dryRun
    <3>1. /\ TradesOf(e) /\ Mine(e)' = {NextTrade} /\ \A n \in Mine(e)' : Newest(e, n)'
          /\ trades'[NextTrade].side = signal[e]
      BY <1>1, <1>2, <2>2, FilledTrade
    <3> QED
      BY <1>1, <1>2, <2>1, <2>2, <3>1, TakesSide
  <2>3. CASE ~dryRun
    <3>1. TradesOf(e) /\ Mine(e)' = {}
      BY <1>1, <1>2, <2>3, SameTradesOf
    <3> QED
      BY <1>1, <1>2, <2>1, <2>3, <3>1, TakesSide
  <2> QED
    BY <2>2, <2>3
<1>3. CASE Goto(Tick(e), "idle") /\ UNCHANGED <<reservations, trades>>
  BY <1>1, <1>3, WalkOn DEF Looking, Labels, Filling
<1> QED
  BY <1>2, <1>3 DEF Reserve

LEMMA OrderFilledSound ==
    ASSUME All, NEW e \in Engines, OrderFilled(e)
    PROVE  Sound'
<1>1. /\ Active(e) /\ Mine(e) = {} /\ Sided(e) /\ NextTrade \in TradeIds /\ Opens(e)
      /\ Goto(Tick(e), "protect")
      /\ UNCHANGED <<signal, gone, todo, engines, phase, dryRun>>
  BY DEF OrderFilled, At, Active, All, Sound, Placed, Looking, Backed, Exposed, Ordering
<1>2. PICK m \in Margins : reservations' = Coordinator!Reserved(BotKey(e), m, signal[e])
  BY DEF OrderFilled
<1>3. /\ TradesOf(e) /\ Mine(e)' = {NextTrade} /\ \A n \in Mine(e)' : Newest(e, n)'
      /\ trades'[NextTrade].side = signal[e]
  BY <1>1, FilledTrade
<1> QED
  BY <1>1, <1>2, <1>3, TakesSide

LEMMA InsertSound ==
    ASSUME All, NEW e \in Engines, Insert(e)
    PROVE  Sound'
<1> DEFINE n == Opening(e)
<1>1. /\ Active(e) /\ pc[Tick(e)] = "insert" /\ Base /\ Rest /\ Found
      /\ Placed(e) /\ Backed(e) /\ Armed(e) /\ engines[e].session
  BY BaseTypes, ActiveIsCurrent DEF Insert, At, Active, All, Sound
<1>2. n \in Opened /\ Newest(e, n)
  BY <1>1, OpeningIsNewest DEF Filling
<1>3. /\ trades' = [trades EXCEPT ![n].row = "open"]
      /\ engines' = [engines EXCEPT ![e].openPositions = engines[e].openPositions \cup {n}]
      /\ pc' = [pc EXCEPT ![Tick(e)] = "idle"]
      /\ UNCHANGED <<reservations, signal, gone, todo, phase, dryRun>>
  BY <1>1 DEF Insert, Goto, coordinator
<1>4. \A m \in Mine(e) : m = n
  <2>1. \A m \in Mine(e) : Newest(e, m) /\ m \in Opened
    BY <1>1 DEF Placed, Filling, Mine
  <2> QED
    BY <1>1, <1>2, <2>1, OpenedIs, BaseTypes DEF Newest
<1> HIDE DEF n
<1>5. /\ Edited /\ \A m \in Opened \ {n} : trades'[m] = trades[m]
      /\ trades'[n].open = trades[n].open /\ trades'[n].row = "open"
  BY <1>1, <1>2, <1>3, EditRow
<1>6. /\ engines'[e].openPositions = engines[e].openPositions \cup {n}
      /\ \A f \in Engines \ {e} : engines'[f] = engines[f]
  BY <1>1, <1>3, PositionsOnly
<1>7. /\ pc'[Tick(e)] = "idle"
      /\ \A f \in Engines \ {e} : pc'[Tick(f)] = pc[Tick(f)]
      /\ \A f \in Engines : pc'[Stop(f)] = pc[Stop(f)]
  BY <1>1, <1>3, BaseTypes, ThreadsOf, ThreadsDiffer
<1>8. TradesOf(e) /\ Mine(e)' = Mine(e) /\ Mine(e) \subseteq Opened
  BY <1>2, <1>5 DEF TradesOf, Mine, Edited, Newest
<1>9. Only(e)
  BY <1>3, <1>6, <1>7, <1>8 DEF Only
<1>10. Found'
  BY <1>1, <1>3, <1>8 DEF Found, TradesOf, Rest
<1>11. Placed(e)'
  BY <1>4, <1>5, <1>6, <1>7, <1>8 DEF Placed, Looking, Filling
<1>12. (Sided(e)' <=> Sided(e)) /\ (Exposed(e)' => Exposed(e))
  BY <1>1, <1>3, SidedIs DEF Exposed, Ordering
<1>13. Backed(e)'
  BY <1>1, <1>3, <1>5, <1>7, <1>8, <1>12 DEF Backed, Edited
<1>14. Armed(e)' /\ Active(e)'
  BY <1>6, <1>7 DEF Armed, Active
<1> QED
  BY <1>1, <1>9, <1>10, <1>11, <1>12, <1>13, <1>14, StepOf

LEMMA EntrySound ==
    ASSUME All, Undisturbed, NEW e \in Engines, TickBegin(e) \/ Entry(e)
    PROVE  Sound'
<1>1. ~InsertFails(e)
  BY DEF Undisturbed, InsertFails
<1>2. CASE Protect(e)
  BY <1>2, FillSound DEF Protect, At
<1> QED
  BY <1>1, <1>2, LookSound, ReserveSound, OrderFilledSound, RejectedSound, EmergencySound,
     InsertSound DEF Entry
----------------------------------------------------------------------------
(* Start and the market *)

LEMMA EngineStartSound ==
    ASSUME All, NEW e \in Engines, EngineStart(e)
    PROVE  Sound'
<1>1. /\ Base /\ Rest /\ pc[Tick(e)] = "off" /\ e[3] = generation[Coin(e)] /\ Quiet /\ Found
      /\ trades \in [Opened -> Trade]
  BY BaseTypes DEF EngineStart, At, Current, All, Sound
<1>2. \A f \in Engines : Active(f) => BotKey(f) # BotKey(e)
  BY <1>1, ActiveIsCurrent, SameKeySameCoin DEF Active
<1>3. OwnRows(e) = {}
  BY <1>1, <1>2 DEF OwnRows, All, Sound, Owned, Trade
<1>4. PICK held \in SUBSET OwnRows(e), ended \in SUBSET OwnRows(e),
           unseen \in SUBSET OwnRows(e) : Starts(e, held, ended, unseen)
  BY <1>1, BaseTypes, EngineStartIs
<1>5. held = {} /\ ended = {} /\ unseen = {}
  BY <1>3, <1>4
<1>6. Starts(e, {}, {}, {})
  BY <1>4, <1>5
<1>7. /\ UNCHANGED <<reservations, signal, gone, todo, phase, dryRun>>
      /\ trades' = [n \in Opened |-> trades[n]]
      /\ pc' = [pc EXCEPT ![Tick(e)] = "idle"]
      /\ engines' = [engines EXCEPT ![e] = [running |-> TRUE, stopRequested |-> FALSE,
                                            session |-> TRUE, openPositions |-> {},
                                            unseen |-> {}]]
  BY <1>6 DEF EngineStart, Starts, Goto
<1>8. /\ Opened' = Opened /\ \A n \in Opened : trades'[n] = trades[n]
  BY <1>7 DEF Opened
<1>9. TradesOf(e) /\ Mine(e)' = {} /\ Mine(e) = {}
  BY <1>1, <1>8 DEF TradesOf, Mine, All, Sound, Owned, Active
<1>10. /\ pc'[Tick(e)] = "idle"
       /\ \A f \in Engines \ {e} : pc'[Tick(f)] = pc[Tick(f)] /\ engines'[f] = engines[f]
       /\ \A f \in Engines : pc'[Stop(f)] = pc[Stop(f)]
  BY <1>1, <1>7, BaseTypes, ThreadsOf, ThreadsDiffer DEF Rest
<1>11. Only(e) /\ Active(e)'
  BY <1>7, <1>9, <1>10 DEF Only, Active
<1>12. ~Sided(e)'
  <2>1. ~Sided(e)
    BY <1>2 DEF All, Sound, Armed
  <2> QED
    BY <1>7, <2>1, SidedIs
<1>13. Placed(e)' /\ Backed(e)' /\ Armed(e)'
  <2>1. ~Exposed(e)'
    BY <1>9, <1>10 DEF Exposed, Ordering, Mine
  <2> QED
    BY <1>9, <1>10, <1>12, <2>1 DEF Placed, Backed, Armed, Looking, Filling
<1>14. Found'
  BY <1>1, <1>7, <1>8 DEF Found, Rest
<1>15. \A f \in Engines : Placed(f)' /\ Backed(f)' /\ Armed(f)'
  BY <1>2, <1>11, <1>13, OthersKeep
<1>16. Owned'
  <2>1. \A f \in Engines : Active(f) => Active(f)'
    BY <1>10 DEF Active
  <2> QED
    BY <1>1, <1>8, <2>1 DEF All, Sound, Owned, Active, Trade
<1>17. Quiet'
  BY <1>1, <1>7, <1>10 DEF Quiet
<1>18. Coordinator!OneOpenPerSymbol'
  BY <1>11, <1>12, OneKept
<1> QED
  BY <1>14, <1>15, <1>16, <1>17, <1>18 DEF Sound

\* A coin is armed while none of its engines runs.
LEMMA GroupSound ==
    ASSUME All, Undisturbed, NEW s \in Symbols,
           GroupStart(s) \/ GroupStop(s) \/ GroupStopped(s) \/ Repost(s)
    PROVE  Sound'
<1>1. Base /\ Rest /\ GroupStart(s)
  BY BaseTypes DEF Undisturbed, GroupStop, GroupStopped, Repost, All, Sound, Quiet
<1>2. /\ UNCHANGED <<pc, signal, gone, todo, engines, trades, dryRun>>
      /\ \A r \in Symbols : phase'[r] = phase[r] \/ phase'[r] = "up"
  BY <1>1 DEF GroupStart, threads, Rest
<1>3. \A k \in Coordinator!BotKeys :
          \/ reservations'[k] = reservations[k]
          \/ k[1] = s /\ reservations'[k].direction = "none"
  BY <1>1, GroupReserving DEF GroupStart, Rest
<1>4. ASSUME NEW f \in Engines, Coin(f) = s PROVE ~Active(f)
  BY <1>1, <1>4, ActiveIsCurrent DEF GroupStart
<1>5. \A f \in Engines : Sided(f)' => Sided(f)
  BY <1>3, EngineShape, SidedIs
<1>6. ASSUME NEW f \in Engines PROVE Placed(f)' /\ Backed(f)' /\ Armed(f)'
  <2>1. Mine(f)' = Mine(f) /\ Placed(f) /\ Backed(f) /\ Armed(f)
    BY <1>2 DEF Mine, Opened, All, Sound
  <2>2. Placed(f)'
    BY <1>2, <2>1 DEF Placed, Newest, Opened
  <2>3. Backed(f)'
    <3>1. CASE Active(f)
      <4>1. reservations'[BotKey(f)] = reservations[BotKey(f)]
        BY <1>3, <1>4, <3>1, EngineShape
      <4> QED
        BY <1>2, <2>1, <4>1, SidedIs DEF Backed, Exposed, Ordering, Opened
    <3>2. CASE ~Active(f)
      <4>1. ~Exposed(f)
        BY <3>2, ExposedIsActive
      <4>2. ~Exposed(f)' /\ Mine(f) = {}
        BY <1>2, <4>1 DEF Exposed, Ordering, Opened, Mine
      <4> QED
        BY <1>2, <2>1, <3>2, <4>2 DEF Backed, Active
    <3> QED
      BY <3>1, <3>2
  <2>4. Armed(f)'
    BY <1>2, <1>5, <2>1 DEF Armed, Active, Ordering
  <2> QED
    BY <2>2, <2>3, <2>4
<1>7. Quiet' /\ Owned' /\ Found'
  BY <1>2 DEF All, Sound, Quiet, Owned, Found, Active, Opened
<1>8. Coordinator!OneOpenPerSymbol'
  <2>1. \A k \in Coordinator!BotKeys : Coordinator!Directional(k)' => Coordinator!Directional(k)
    BY <1>3 DEF Coordinator!Directional, Coordinator!Held
  <2> QED
    BY <2>1 DEF All, Sound, Coordinator!OneOpenPerSymbol, Coordinator!KeySymbol
<1> QED
  BY <1>6, <1>7, <1>8 DEF Sound

LEMMA MarketSound ==
    ASSUME All, NEW n \in Opened, MarketCloses(n)
    PROVE  Sound'
<1>0. PICK e \in Engines : e = trades[n].owner
  BY BaseTypes DEF All, Trade
<1>1. /\ Base /\ Rest /\ Active(e) /\ Found
      /\ Placed(e) /\ Backed(e) /\ Armed(e)
  BY <1>0, BaseTypes DEF All, Sound, Owned
<1>2. /\ trades' = [trades EXCEPT ![n].open = FALSE]
      /\ UNCHANGED <<reservations, pc, signal, gone, todo, engines, phase, dryRun>>
  BY DEF MarketCloses, coordinator, threads
<1>3. /\ Edited /\ \A m \in Opened \ {n} : trades'[m] = trades[m]
      /\ ~trades'[n].open
  BY <1>1, <1>2, EditMarket
<1>4. /\ TradesOf(e) /\ Mine(e)' \subseteq Mine(e) /\ Mine(e) \subseteq Opened
      /\ \A m \in Mine(e)' : trades'[m] = trades[m]
  BY <1>0, <1>3 DEF TradesOf, Mine, Edited
<1>5. Only(e) /\ Active(e)'
  BY <1>1, <1>2, <1>4 DEF Only, Active
<1>6. Found'
  BY <1>1, <1>2, <1>4 DEF Found, TradesOf, Rest
<1>7. Placed(e)'
  <2>1. \A m \in Mine(e)' : Newest(e, m) => Newest(e, m)'
    BY <1>3, <1>4 DEF Newest, Edited
  <2> QED
    BY <1>1, <1>2, <1>4, <2>1 DEF Placed
<1>8. (Sided(e)' <=> Sided(e)) /\ (Exposed(e)' => Exposed(e))
  <2>1. Exposed(e) <=> Ordering(e) \/ Mine(e) # {}
    BY DEF Exposed, Mine
  <2>2. Exposed(e)' <=> Ordering(e)' \/ Mine(e)' # {}
    BY DEF Exposed, Mine
  <2> QED
    BY <1>2, <1>4, <2>1, <2>2, SidedIs, <1>1 DEF Ordering
<1>9. Backed(e)' /\ Armed(e)'
  BY <1>1, <1>2, <1>4, <1>8 DEF Backed, Armed, Ordering, Active
<1> QED
  BY <1>1, <1>5, <1>6, <1>7, <1>8, <1>9, StepOf
----------------------------------------------------------------------------
LEMMA SoundInit == Init => Sound
<1> SUFFICES ASSUME Init PROVE Sound
  OBVIOUS
<1>1. /\ Opened = {} /\ \A th \in Threads : todo[th] = {} /\ pc[th] = "off"
      /\ \A s \in Symbols : phase[s] = "down"
  BY EmptySeq DEF Init, Opened
<1>2. \A k \in Coordinator!BotKeys : ~Coordinator!Directional(k)
  BY DEF Init, Coordinator!Empty, Coordinator!Directional, Coordinator!Held,
         Coordinator!NoReservation
<1>3. Quiet /\ Owned /\ Found /\ Coordinator!OneOpenPerSymbol
  BY <1>1, <1>2, ThreadsOf DEF Quiet, Owned, Found, Coordinator!OneOpenPerSymbol
<1>4. ASSUME NEW e \in Engines PROVE Placed(e) /\ Backed(e) /\ Armed(e)
  <2>1. ~Sided(e) /\ ~Exposed(e) /\ Mine(e) = {} /\ pc[Tick(e)] = "off"
    BY <1>1, <1>2, ThreadsOf, EngineShape DEF Sided, Exposed, Ordering, Mine
  <2> QED
    BY <2>1 DEF Placed, Backed, Armed, Looking, Filling
<1> QED
  BY <1>3, <1>4 DEF Sound

LEMMA SoundStep ==
    ASSUME All, Undisturbed, [Next]_vars
    PROVE  Sound'
<1>1. ASSUME NEW e \in Engines, EngineStart(e) \/ Ticking(e) \/ Stopping(e)
      PROVE  Sound'
  <2>1. ~StopBegin(e) /\ ~StopFinish(e) /\ ~CloseSession(e)
    BY EngineShape DEF All, Sound, Quiet, StopBegin, StopFinish, CloseSession, At
  <2> QED
    BY <1>1, <2>1, EngineStartSound, PassSound, EntrySound, ThreadsOf DEF Ticking, Stopping
<1>2. ASSUME UNCHANGED vars
      PROVE  Sound'
  <2>1. UNCHANGED <<reservations, pc, signal, gone, todo, engines, phase, dryRun, trades>>
    BY <1>2 DEF vars, coordinator, threads
  <2>2. \A e \in Engines : Mine(e)' = Mine(e) /\ (Sided(e)' <=> Sided(e))
    BY <2>1, SidedIs DEF Mine, Opened
  <2>3. Quiet' /\ Owned' /\ Found' /\ Coordinator!OneOpenPerSymbol'
    BY <2>1 DEF All, Sound, Quiet, Owned, Found, Active, Opened, Coordinator!OneOpenPerSymbol,
                Coordinator!Directional, Coordinator!Held
  <2>4. \A e \in Engines : Placed(e)' /\ Backed(e)' /\ Armed(e)'
    BY <2>1, <2>2 DEF All, Sound, Placed, Backed, Armed, Newest, Opened, Exposed, Ordering, Active
  <2> QED
    BY <2>3, <2>4 DEF Sound
<1> QED
  BY <1>1, <1>2, GroupSound, MarketSound DEF Next

LEMMA AllInvariant == Undisturbed => (Spec => []All)
<1> SUFFICES ASSUME Undisturbed PROVE Spec => []All
  OBVIOUS
<1>1. Init => All
  BY BaseInit, LivesInit, SoundInit DEF All
<1>2. All /\ [Next]_vars => All'
  BY BaseStep, LivesStep, SoundStep DEF All
<1> QED
  BY <1>1, <1>2, PTL DEF Spec

\* A coin has at most one position in the market and none beside an order that is out: no two
\* engines of it are exposed, and none twice, whatever orders, closes and reads fail.
THEOREM OnePosition == Undisturbed => (Spec => []SinglePosition)
<1>1. All => SinglePosition
  BY OneIsExposed
<1> QED
  BY <1>1, AllInvariant, PTL

\* A position in the market that no entry works on is held by its engine, has an open row and
\* the coin's reservation with its side.
THEOREM PositionAccounted == Undisturbed => (Spec => []Accounted)
<1>1. All => Accounted
  BY PositionsAccounted
<1> QED
  BY <1>1, AllInvariant, PTL

\* In live mode no reservation with a side is left over: an entry is on its way for it, or a
\* position is held.
THEOREM NothingReservedIdly == Undisturbed => (Spec => [](~dryRun => NoGhostReservation))
<1>1. All => (~dryRun => NoGhostReservation)
  BY ReservationsBacked
<1> QED
  BY <1>1, AllInvariant, PTL
----------------------------------------------------------------------------
(* The engines implement the slot: a step exposes one engine or covers one. *)

Covers(e) == \A f \in Engines \ {e} : Exposed(f)' <=> Exposed(f)

LEMMA OthersCovered ==
    ASSUME NEW e \in Engines,
           \A f \in Engines \ {e} : pc'[Tick(f)] = pc[Tick(f)],
           Opened \subseteq Opened', \A n \in Opened' \ Opened : trades'[n].owner = e,
           \A n \in Opened : /\ trades'[n].owner = trades[n].owner
                             /\ trades[n].owner = e \/ trades'[n].open = trades[n].open
    PROVE  Covers(e)
<1> SUFFICES ASSUME NEW f \in Engines \ {e} PROVE Exposed(f)' <=> Exposed(f)
  BY DEF Covers
<1>1. Ordering(f)' <=> Ordering(f)
  BY DEF Ordering
<1>2. (\E n \in Opened' : trades'[n].open /\ trades'[n].owner = f)
          <=> \E n \in Opened : trades[n].open /\ trades[n].owner = f
  OBVIOUS
<1> QED
  BY <1>1, <1>2 DEF Exposed

LEMMA OneCovers ==
    ASSUME Base, [Next]_vars
    PROVE  (\E e \in Engines : Covers(e)) \/ UNCHANGED holders
<1>1. TypeOK /\ pc \in [Threads -> Labels] /\ trades \in [Opened -> Trade] /\ Rest
  BY BaseTypes
<1>2. ASSUME NEW e \in Engines, NEW th \in {Tick(e), Stop(e)}, NEW label, trades' = trades,
             pc' = [pc EXCEPT ![th] = label]
      PROVE  Covers(e)
  <2>1. \A f \in Engines \ {e} : pc'[Tick(f)] = pc[Tick(f)]
    BY <1>1, <1>2, ThreadsOf, ThreadsDiffer
  <2> QED
    BY <1>2, <2>1, OthersCovered DEF Opened
<1>3. ASSUME NEW e \in Engines, NEW th \in {Tick(e), Stop(e)}, Pass(th)
      PROVE  Covers(e)
  <2>1. CASE Book(th)
    <3>1. PICK n \in todo[th], applied \in BOOLEAN : trades' = Booked(n, applied)
      BY <2>1 DEF Book
    <3>2. n \in Opened
      BY <1>1, <1>3, <3>1, ThreadsOf DEF Rest
    <3>3. /\ Edited /\ \A m \in Opened \ {n} : trades'[m] = trades[m]
          /\ trades'[n].open = trades[n].open
      BY <1>1, <3>1, <3>2, BookedIs
    <3> QED
      BY <2>1, <3>3, OthersCovered DEF Book, Edited
  <2>2. CASE ~Book(th)
    BY <1>2, <1>3, <2>2 DEF Pass, Reconcile, Sync, SyncFails, PassEnd, Goto
  <2> QED
    BY <2>1, <2>2
<1>4. ASSUME NEW e \in Engines, NEW label, pc' = [pc EXCEPT ![Tick(e)] = label],
             NextTrade \in TradeIds, Opens(e)
      PROVE  Covers(e)
  <2>1. \A f \in Engines \ {e} : pc'[Tick(f)] = pc[Tick(f)]
    BY <1>1, <1>4, ThreadsOf, ThreadsDiffer
  <2>2. /\ Opened' = Opened \cup {NextTrade} /\ trades'[NextTrade].owner = e
        /\ \A n \in Opened : trades'[n] = trades[n]
    BY <1>1, <1>4, OpensOne
  <2> QED
    BY <2>1, <2>2, OthersCovered
<1>5. ASSUME NEW e \in Engines, NEW label, pc' = [pc EXCEPT ![Tick(e)] = label],
             NEW n \in Opened, Newest(e, n), Edited,
             \A m \in Opened \ {n} : trades'[m] = trades[m]
      PROVE  Covers(e)
  <2>1. \A f \in Engines \ {e} : pc'[Tick(f)] = pc[Tick(f)]
    BY <1>1, <1>5, ThreadsOf, ThreadsDiffer
  <2> QED
    BY <1>5, <2>1, OthersCovered DEF Edited, Newest
<1>6. ASSUME NEW e \in Engines, TickBegin(e) \/ Entry(e)
      PROVE  Covers(e)
  <2>1. CASE Reserve(e) \/ OrderFilled(e)
    BY <1>2, <1>4, <2>1 DEF Reserve, OrderFilled, Goto
  <2>2. CASE EmergencyClose(e)
    <3>1. Opening(e) \in Opened /\ Newest(e, Opening(e))
      BY <2>2, OpeningIsNewest DEF EmergencyClose, At, Filling
    <3>2. CASE trades' = [trades EXCEPT ![Opening(e)].open = FALSE] /\ Abandon(e)
      BY <1>5, <3>1, <3>2, EditMarket DEF Abandon, Goto
    <3>3. CASE Goto(Tick(e), "insert") /\ trades' = trades
      BY <1>2, <3>3 DEF Goto
    <3> QED
      BY <2>2, <3>2, <3>3 DEF EmergencyClose
  <2>3. CASE Insert(e)
    <3>1. Opening(e) \in Opened /\ Newest(e, Opening(e))
      BY <2>3, OpeningIsNewest DEF Insert, At, Filling
    <3>2. PICK row \in {"none", "open", "closed"} :
             trades' = [trades EXCEPT ![Opening(e)].row = row]
      BY <1>1, <2>3, <3>1 DEF Insert, Trade
    <3> QED
      BY <1>5, <2>3, <3>1, <3>2, EditRow DEF Insert, Goto
  <2>4. CASE ~(Reserve(e) \/ OrderFilled(e) \/ EmergencyClose(e) \/ Insert(e))
    BY <1>2, <1>6, <2>4 DEF TickBegin, Entry, Decide, Gate, Cap, BalanceFails, OrderRejected,
                            Protect, InsertFails, NoEntry, Abandon, Goto
  <2> QED
    BY <2>1, <2>2, <2>3, <2>4
<1>7. ASSUME NEW e \in Engines, StopBegin(e) \/ StopFinish(e) \/ CloseSession(e)
      PROVE  Covers(e)
  BY <1>2, <1>7 DEF StopBegin, StopFinish, CloseSession, Goto
<1>8. ASSUME NEW e \in Engines, EngineStart(e)
      PROVE  Covers(e)
  <2>1. \A f \in Engines \ {e} : pc'[Tick(f)] = pc[Tick(f)]
    BY <1>1, <1>8, ThreadsOf, ThreadsDiffer DEF EngineStart, Goto
  <2>2. PICK ended : trades' = [n \in Opened |-> IF n \in ended
                                               THEN [trades[n] EXCEPT !.row = "closed"]
                                               ELSE trades[n]]
    BY <1>1, <1>8, EngineStartIs DEF Starts
  <2>3. ASSUME NEW n \in Opened
        PROVE  LET r == [trades[n] EXCEPT !.row = "closed"] IN
               r.owner = trades[n].owner /\ r.open = trades[n].open
    BY <1>1 DEF Trade
  <2>4. /\ Opened' = Opened
        /\ \A n \in Opened : trades'[n].owner = trades[n].owner /\ trades'[n].open = trades[n].open
    BY <2>2, <2>3 DEF Opened
  <2> QED
    BY <2>1, <2>4, OthersCovered
<1>9. ASSUME NEW n \in Opened, MarketCloses(n)
      PROVE  \E e \in Engines : Covers(e)
  <2>1. PICK e \in Engines : e = trades[n].owner
    BY <1>1 DEF Trade
  <2>2. Edited /\ \A m \in Opened \ {n} : trades'[m] = trades[m]
    BY <1>9, EditMarket DEF MarketCloses
  <2> QED
    BY <1>9, <2>1, <2>2, OthersCovered DEF MarketCloses, threads, Edited
<1>10. ASSUME UNCHANGED <<pc, trades>>
       PROVE  UNCHANGED holders
  BY <1>10 DEF holders, Exposed, Ordering, Opened
<1> QED
  BY <1>3, <1>6, <1>7, <1>8, <1>9, <1>10
  DEF Next, Ticking, Stopping, GroupStart, GroupStop, GroupStopped, Repost, vars, threads

LEMMA SlotStep ==
    ASSUME Base, SinglePosition, SinglePosition', [Next]_vars
    PROVE  [Slot!Next]_holders
<1>1. CASE UNCHANGED holders
  BY <1>1
<1>2. ASSUME NEW e \in Engines, Covers(e)
      PROVE  [Slot!Next]_holders
  <2> DEFINE s == Coin(e)
  <2>1. s \in Symbols
    BY EngineShape
  <2>2. \A r \in Symbols \ {s} : holders'[r] = holders[r]
    BY <1>2 DEF holders, Covers
  <2>3. holders' = [r \in Symbols |-> holders'[r]] /\ holders = [r \in Symbols |-> holders[r]]
    BY DEF holders
  <2>4. CASE Exposed(e)' <=> Exposed(e)
    <3>1. holders'[s] = holders[s]
      BY <1>2, <2>1, <2>4 DEF holders, Covers
    <3> QED
      BY <2>2, <2>3, <3>1
  <2>5. CASE Exposed(e)' /\ ~Exposed(e)
    <3>1. holders'[s] = {e} /\ holders[s] \subseteq {e}
      BY <1>2, <2>1, <2>5 DEF holders, Covers, SinglePosition
    <3>2. holders' = [holders EXCEPT ![s] = {e}]
      BY <2>1, <2>2, <2>3, <3>1
    <3> QED
      BY <2>1, <3>1, <3>2 DEF Slot!Next, Slot!Acquire
  <2>6. CASE ~Exposed(e)' /\ Exposed(e)
    <3>1. holders'[s] = {}
      BY <1>2, <2>1, <2>6 DEF holders, Covers, SinglePosition
    <3>2. holders' = [holders EXCEPT ![s] = {}]
      BY <2>1, <2>2, <2>3, <3>1
    <3> QED
      BY <2>1, <3>2 DEF Slot!Next, Slot!Free
  <2> QED
    BY <2>4, <2>5, <2>6
<1> QED
  BY <1>1, <1>2, OneCovers

LEMMA SlotStarts == Init => Slot!Init
<1> SUFFICES ASSUME Init PROVE Slot!Init
  OBVIOUS
<1>1. Opened = {} /\ \A e \in Engines : pc[Tick(e)] = "off"
  BY EmptySeq, ThreadsOf DEF Init, Opened
<1> QED
  BY <1>1 DEF Slot!Init, holders, Exposed, Ordering

\* The engines of a coin, with their awaits, orders and closes, implement its exclusive slot.
THEOREM ImplementsSlot == Undisturbed => (Spec => SlotSpec)
<1> SUFFICES ASSUME Undisturbed PROVE Spec => SlotSpec
  OBVIOUS
<1>1. Init => Slot!Init
  BY SlotStarts
<1>2. All /\ All' /\ [Next]_vars => [Slot!Next]_holders
  <2>1. All => SinglePosition
    BY OneIsExposed
  <2>2. All' => SinglePosition'
    BY <2>1, PTL
  <2> QED
    BY <2>1, <2>2, SlotStep DEF All
<1>3. Spec => []All
  BY AllInvariant
<1> QED
  BY <1>1, <1>2, <1>3, PTL DEF Spec, SlotSpec, Slot!Spec
=============================================================================
