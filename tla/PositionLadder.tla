---------------------------- MODULE PositionLadder ---------------------------
(***************************************************************************)
(* The SL+ ladder of one live position (BotEngine): at +1R and +2R a part  *)
(* is closed and the stop loss moves up; what the exchange closes by       *)
(* itself, and what the software monitor closes, is booked in the trades   *)
(* table.  Passes run one at a time; the exchange moves between any two of *)
(* their awaits, and the process may die there and adopt the open rows     *)
(* again when it starts.                                                   *)
(*                                                                         *)
(* Prices are gains in tenths of R, so a long and a short look the same.   *)
(* Milestone 3 only logs, fees and results follow from sizes and prices:   *)
(* left out.                                                               *)
(***************************************************************************)
EXTENDS Integers, Sequences, FiniteSetsExt, SequencesExt

CONSTANTS Sizes,       \* of the order
          MinLot,
          MaxRows,     \* bound on rows of the trades table
          MaxCrashes,
          Worlds       \* what may happen, a set of sets of EventKinds

EventKinds == {"manual",       \* opened without a confirmed TP or SL: watched by software
               "close_fails",  \* a close order is rejected
               "sl_fails",     \* a stop loss is rejected
               "db_fails",     \* a partial row is not inserted, or not closed
               "crash"}

PositionLadderAssumption ==
    /\ Sizes \subseteq Nat \ {0} /\ MinLot \in Nat /\ MaxRows \in Nat \ {0} /\ MaxCrashes \in Nat
    /\ Worlds \subseteq SUBSET EventKinds

Entry  == -10              \* the stop loss of the entry
Target == 30
Prices == {-10, 0, 10, 20, 30}
\* Mutant: the two levels swapped.
LockSwapped(k) == IF k = 1 THEN 10 ELSE 3

Lock(k) == IF k = 1 THEN 3 ELSE 10

VARIABLES world, crashes,
          opened,    \* size of the order
          exch,      \* the exchange: size of the position, its plan orders
          rows,      \* trades of this coin, the first one that of the order
          mem,       \* row -> position in state.openPositions, if held
          pass,      \* a pass of _checkOpenPositions
          op         \* the milestone it is at

vars == <<world, crashes, opened, exch, rows, mem, pass, op>>

Rows == 1..MaxRows

Nothing == [held |-> FALSE, size |-> 0, remaining |-> 0, sl |-> Entry,
            m |-> [k \in 1..2 |-> FALSE], manual |-> FALSE]
NoPass  == [at |-> "idle", price |-> 0, todo |-> {}]
NoOp    == [at |-> "none", row |-> 1, k |-> 1, part |-> 0]

HeldRows == {r \in Rows : mem[r].held}
OpenRows == {r \in DOMAIN rows : rows[r].open}

Position(size, manual) ==
    [Nothing EXCEPT !.held = TRUE, !.size = size, !.remaining = size, !.manual = manual]

Least(x, y) == IF x < y THEN x ELSE y

\* The exchange fills what is there; a position that is gone takes its orders along.
Reduced(size) ==
    LET left == exch.size - Least(size, exch.size) IN
    IF left = 0 THEN [exch EXCEPT !.size = 0, !.slSize = 0, !.tpSize = 0]
    ELSE [exch EXCEPT !.size = left]

\* positionFromDbTrade: whole, with the stop loss of the entry and no milestone passed.
Adopted(which) == [r \in Rows |-> IF r \in which THEN Position(rows[r].size, FALSE) ELSE mem[r]]

\* 40% of the order, then 27.5% but at most 90% of the rest.
Part(p, k) ==
    IF k = 1 THEN (p.size * 2) \div 5
    ELSE Least((p.size * 11) \div 40, (p.remaining * 9) \div 10)

Outstanding(p) == IF p.remaining > 0 THEN p.remaining ELSE p.size

Closed(r, size) == rows' = [rows EXCEPT ![r].open = FALSE, ![r].booked = size]
Drop(r) == mem' = [mem EXCEPT ![r] = Nothing]
----------------------------------------------------------------------------
(* A pass: _reconcileOpenPositionsFromDb, then the positions of the exchange. *)

\* The reconcile looks at the rows once in 30 seconds.
PassBegin(price, reconcile) ==
    /\ pass.at = "idle"
    /\ LET found == IF reconcile /\ exch.size > 0 THEN OpenRows \ HeldRows ELSE {}
           now   == Adopted(found)
           held  == {r \in Rows : now[r].held} IN
       /\ held # {}
       /\ mem' = now
       /\ pass' = [at |-> IF exch.size = 0 THEN "book" ELSE "scan", price |-> price, todo |-> held]
    /\ UNCHANGED <<world, crashes, opened, exch, rows, op>>

PassEnds ==
    /\ pass.at \in {"book", "scan"} /\ pass.todo = {} /\ op.at = "none"
    /\ pass' = NoPass
    /\ UNCHANGED <<world, crashes, opened, exch, rows, mem, op>>

\* The exchange closed it: what was left is booked.
Book(r) ==
    /\ pass.at = "book" /\ r \in pass.todo
    /\ Closed(r, Outstanding(mem[r]))
    /\ Drop(r)
    /\ pass' = [pass EXCEPT !.todo = @ \ {r}]
    /\ UNCHANGED <<world, crashes, opened, exch, op>>
----------------------------------------------------------------------------
(* _checkSLPlusMilestones, _executePartialClose and _updateSLOnExchange *)

Scanned == CHOOSE r \in pass.todo : \A q \in pass.todo : r <= q

Due(r, k) ==
    /\ ~mem[r].m[k] /\ (k = 2 => mem[r].m[1])
    /\ pass.price >= 10 * k /\ mem[r].remaining > 0

Goto(at) == op' = [op EXCEPT !.at = at]

\* Marked before anything is sent; below the lot size only the stop loss moves.
Reach(k) ==
    /\ pass.at = "scan" /\ pass.todo # {} /\ op.at = "none"
    /\ LET r == Scanned  p == mem[r] IN
       /\ Due(r, k) /\ (k = 2 => ~Due(r, 1))
       /\ mem' = [mem EXCEPT ![r].m[k] = TRUE]
       /\ op' = [at |-> IF Part(p, k) >= MinLot THEN "close" ELSE "cancel", row |-> r, k |-> k,
                 part |-> IF Part(p, k) >= MinLot THEN Part(p, k) ELSE 0]
    /\ UNCHANGED <<world, crashes, opened, exch, rows, pass>>

PartCloses ==
    /\ op.at = "close" /\ exch.size > 0
    /\ exch' = Reduced(op.part)
    /\ Goto("cancel")
    /\ UNCHANGED <<world, crashes, opened, rows, mem, pass>>

\* The close throws: the stop loss stays where it is, and the milestone is behind us.
PartFails ==
    /\ op.at = "close" /\ (exch.size = 0 \/ "close_fails" \in world)
    /\ op' = NoOp
    /\ UNCHANGED <<world, crashes, opened, exch, rows, mem, pass>>

CancelsPlans ==
    /\ op.at = "cancel"
    /\ exch' = [exch EXCEPT !.slSize = 0, !.tpSize = 0]
    /\ Goto("place")
    /\ UNCHANGED <<world, crashes, opened, rows, mem, pass>>

\* Mutant: the stop loss for the part that was closed.
PlacesPart ==
    /\ op.at = "place"
    /\ LET there == exch.size > 0 IN
       exch' = [exch EXCEPT !.sl = IF there THEN Lock(op.k) ELSE @,
                            !.slSize = IF there THEN op.part ELSE 0,
                            !.tpSize = IF there THEN mem[op.row].remaining ELSE 0]
    /\ IF op.part > 0 THEN Goto("record") ELSE op' = NoOp
    /\ UNCHANGED <<world, crashes, opened, rows, mem, pass>>

\* A stop loss that is refused is logged; the ladder goes on as if it was there.  The
\* size is that before the part was taken off.
PlacesPlans ==
    /\ op.at = "place"
    /\ LET there == exch.size > 0  r == op.row IN
       \E sl \in {there} \cup (IF "sl_fails" \in world THEN {FALSE} ELSE {}) :
          exch' = [exch EXCEPT !.sl = IF sl THEN Lock(op.k) ELSE @,
                               !.slSize = IF sl THEN mem[r].remaining ELSE 0,
                               !.tpSize = IF there THEN mem[r].remaining ELSE 0]
    /\ IF op.part > 0 THEN Goto("record") ELSE op' = NoOp
    /\ UNCHANGED <<world, crashes, opened, rows, mem, pass>>

\* Mutant: the part stays in the position.
RecordsKeeping ==
    /\ op.at = "record" /\ Len(rows) < MaxRows
    /\ mem' = [mem EXCEPT ![op.row].sl = Lock(op.k)]
    /\ \/ rows' = Append(rows, [open |-> TRUE, size |-> op.part, booked |-> 0]) /\ Goto("closeRow")
       \/ "db_fails" \in world /\ op' = NoOp /\ UNCHANGED rows
    /\ UNCHANGED <<world, crashes, opened, exch, pass>>

\* The state, then a row of its own for the part.
Records ==
    /\ op.at = "record" /\ Len(rows) < MaxRows
    /\ mem' = [mem EXCEPT ![op.row].remaining = @ - op.part, ![op.row].sl = Lock(op.k)]
    /\ \/ rows' = Append(rows, [open |-> TRUE, size |-> op.part, booked |-> 0]) /\ Goto("closeRow")
       \/ "db_fails" \in world /\ op' = NoOp /\ UNCHANGED rows
    /\ UNCHANGED <<world, crashes, opened, exch, pass>>

ClosesRow ==
    /\ op.at = "closeRow"
    /\ \/ Closed(Len(rows), op.part)
       \/ "db_fails" \in world /\ UNCHANGED rows
    /\ op' = NoOp
    /\ UNCHANGED <<world, crashes, opened, exch, mem, pass>>
----------------------------------------------------------------------------
(* The software monitor of a position without confirmed plan orders. *)

Hit(p) == pass.price <= p.sl \/ pass.price >= Target
Watched(r) == mem[r].manual /\ Hit(mem[r])
Milestones(r) == \E k \in 1..2 : Due(r, k)

NextPosition == pass' = [pass EXCEPT !.todo = @ \ {Scanned}]

Quiet ==
    /\ pass.at = "scan" /\ pass.todo # {} /\ op.at = "none"
    /\ ~Milestones(Scanned) /\ ~Watched(Scanned)
    /\ NextPosition
    /\ UNCHANGED <<world, crashes, opened, exch, rows, mem, op>>

\* A full close that is not booked now, or that fails and is tried again.
MonitorCloses ==
    /\ pass.at = "scan" /\ pass.todo # {} /\ op.at = "none"
    /\ ~Milestones(Scanned) /\ Watched(Scanned) /\ exch.size > 0
    /\ \/ exch' = Reduced(mem[Scanned].size)
       \/ "close_fails" \in world /\ UNCHANGED exch
    /\ NextPosition
    /\ UNCHANGED <<world, crashes, opened, rows, mem, op>>

\* The exchange was first: booked with the size of the order.
MonitorFinds ==
    /\ pass.at = "scan" /\ pass.todo # {} /\ op.at = "none"
    /\ ~Milestones(Scanned) /\ Watched(Scanned) /\ exch.size = 0
    /\ Closed(Scanned, mem[Scanned].size)
    /\ Drop(Scanned)
    /\ NextPosition
    /\ UNCHANGED <<world, crashes, opened, exch, op>>
----------------------------------------------------------------------------
(* The exchange, and the process *)

StopHit ==
    /\ exch.slSize > 0
    /\ exch' = [Reduced(exch.slSize) EXCEPT !.slSize = 0]
    /\ UNCHANGED <<world, crashes, opened, rows, mem, pass, op>>

TargetHit ==
    /\ exch.tpSize > 0
    /\ exch' = [Reduced(exch.tpSize) EXCEPT !.tpSize = 0]
    /\ UNCHANGED <<world, crashes, opened, rows, mem, pass, op>>

Crash ==
    /\ "crash" \in world /\ crashes < MaxCrashes /\ pass.at # "down"
    /\ crashes' = crashes + 1
    /\ mem' = [r \in Rows |-> Nothing]
    /\ pass' = [NoPass EXCEPT !.at = "down"] /\ op' = NoOp
    /\ UNCHANGED <<world, opened, exch, rows>>

\* Mutant: rows without a position on the exchange stay open.
RestartLeaves ==
    /\ pass.at = "down"
    /\ mem' = IF exch.size > 0 THEN Adopted(OpenRows) ELSE mem
    /\ pass' = NoPass
    /\ UNCHANGED <<world, crashes, opened, exch, rows, op>>

\* start: open rows become positions again, or are closed when the exchange has none.
Restart ==
    /\ pass.at = "down"
    /\ IF exch.size > 0
       THEN mem' = Adopted(OpenRows) /\ UNCHANGED rows
       ELSE /\ rows' = [r \in DOMAIN rows |->
                           IF rows[r].open THEN [rows[r] EXCEPT !.open = FALSE, !.booked = rows[r].size]
                           ELSE rows[r]]
            /\ UNCHANGED mem
    /\ pass' = NoPass
    /\ UNCHANGED <<world, crashes, opened, exch, op>>
----------------------------------------------------------------------------
\* _handleSignal has stored the row and pushed the position.
Entered ==
    /\ crashes = 0
    /\ opened \in Sizes
    /\ \E sl, tp \in (IF "manual" \in world THEN BOOLEAN ELSE {TRUE}) :
          /\ exch = [size |-> opened, sl |-> Entry, slSize |-> IF sl THEN opened ELSE 0,
                     tpSize |-> IF tp THEN opened ELSE 0]
          /\ mem = [r \in Rows |-> IF r = 1 THEN Position(opened, ~sl \/ ~tp) ELSE Nothing]
    /\ rows = <<[open |-> TRUE, size |-> opened, booked |-> 0]>>
    /\ pass = NoPass /\ op = NoOp

Init == world \in Worlds /\ Entered

Milestone == (\E k \in 1..2 : Reach(k)) \/ PartCloses \/ PartFails \/ CancelsPlans \/ PlacesPlans
             \/ Records \/ ClosesRow

Scanning == Milestone \/ Quiet \/ MonitorCloses \/ MonitorFinds \/ PassEnds \/ \E r \in Rows : Book(r)

Ticks == \E price \in Prices, reconcile \in BOOLEAN : PassBegin(price, reconcile)

Next == Ticks \/ Scanning \/ StopHit \/ TargetHit \/ Crash \/ Restart

\* The interval of the engine ticks, Node carries a pass on, an operator restarts.
Fairness == WF_vars(Ticks) /\ WF_vars(Scanning) /\ WF_vars(Restart)

Spec == Init /\ [][Next]_vars /\ Fairness
----------------------------------------------------------------------------
(* Properties *)

ExchState == [size : 0..opened, sl : {Entry, 3, 10}, slSize : 0..opened, tpSize : 0..opened]
Row       == [open : BOOLEAN, size : 1..opened, booked : 0..opened]
PosState  == [held : BOOLEAN, size : 0..opened, remaining : 0..opened, sl : {Entry, 3, 10},
              m : [1..2 -> BOOLEAN], manual : BOOLEAN]
PassState == [at : {"idle", "book", "scan", "down"}, price : Prices, todo : SUBSET Rows]
OpState   == [at : {"none", "close", "cancel", "place", "record", "closeRow"}, row : Rows,
              k : 1..2, part : 0..opened]

TypeOK ==
    /\ world \in Worlds /\ crashes \in 0..MaxCrashes /\ opened \in Sizes
    /\ exch \in ExchState /\ mem \in [Rows -> PosState] /\ pass \in PassState /\ op \in OpState
    /\ rows \in Seq(Row) /\ Len(rows) \in Rows

Booked == FoldSeq(LAMBDA r, sum : r.booked + sum, 0, rows)

\* The results booked for one order, its parts and its rest, never stand for more than was
\* opened, and once all rows are closed for exactly that, whatever closes are rejected and
\* whenever the exchange steps in.
BookedAsOrdered ==
    world \cap {"manual", "db_fails", "crash"} = {} =>
        /\ Booked <= opened
        /\ OpenRows = {} => Booked = opened

\* Between passes an open position has its stop loss on the exchange, for all of it, or
\* is watched by the software.
Protected ==
    world \cap {"sl_fails", "db_fails", "crash"} = {} /\ pass.at = "idle" /\ exch.size > 0
        => exch.slSize >= exch.size \/ \E r \in HeldRows : mem[r].manual

\* The stop loss only moves up.
StopTightens == [][world \cap {"crash", "db_fails"} = {} => exch'.sl >= exch.sl]_vars

\* The order's row: whatever was closed, partly closed or adopted in between.
BookedWithinOrder == Booked <= opened

\* What the exchange closed is booked in the end.
CloseIsBooked == exch.size = 0 /\ "db_fails" \notin world ~> OpenRows = {}
=============================================================================
