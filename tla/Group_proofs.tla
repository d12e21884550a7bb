---------------------------- MODULE Group_proofs ---------------------------
(***************************************************************************)
(* What runs inside the engines of a coin.                                 *)
(*                                                                         *)
(* PositionLadder, for orders of any size and any least lot: the position  *)
(* is protected between passes, its stop loss only moves up, and what is   *)
(* booked for its parts and its rest is what was opened.                   *)
(*                                                                         *)
(* OrderEntry, for any size and any number of requotes, of attempts and of *)
(* entries: what is tracked is the whole order, and an entry that is over  *)
(* is protected.                                                           *)
(*                                                                         *)
(* CandleCache, for any number of engines and of bars and any times to     *)
(* live up to the bars of an answer: an engine is given bars without a gap *)
(* up to the one that was current a time to live ago, or a later one.      *)
(*                                                                         *)
(* All of it, and what TradingGroup_proofs shows of the engines, carries   *)
(* over to MCGroup, where one of them runs.                                *)
(***************************************************************************)
EXTENDS MCGroup, TradingGroup_proofs, SumTheorems

\* What is left of a position is a part of it, and all of it before the first milestone.
Whole(p) == p.remaining <= p.size /\ (~p.m[1] => p.remaining = p.size)

\* What a milestone is at: a position past it, of which the part can still be taken.
AtWork ==
    op.at # "none" =>
        /\ pass.at = "scan" /\ mem[op.row].m[1]
        /\ op.at # "closeRow" => op.part <= mem[op.row].remaining
        /\ op.at \in {"record", "closeRow"} => op.part > 0

LadderInv == Ladder!TypeOK /\ (\A r \in Ladder!Rows : Whole(mem[r])) /\ AtWork
----------------------------------------------------------------------------
(* Data *)

LEMMA Numbers ==
    ASSUME Ladder!PositionLadderAssumption, Ladder!TypeOK
    PROVE  /\ opened \in Nat /\ opened > 0 /\ MinLot \in Nat /\ MaxRows \in Nat /\ MaxRows > 0
           /\ MaxCrashes \in Nat /\ crashes \in Nat
           /\ Ladder!Rows = 1 .. MaxRows /\ 1 \in Ladder!Rows
           /\ rows \in Seq(Ladder!Row) /\ Len(rows) \in 1 .. MaxRows /\ DOMAIN rows = 1 .. Len(rows)
           /\ DOMAIN rows \subseteq Ladder!Rows
           /\ \A r \in DOMAIN rows : rows[r] \in Ladder!Row
BY LenProperties DEF Ladder!PositionLadderAssumption, Ladder!TypeOK, Ladder!Rows

LEMMA LeastIs ==
    ASSUME NEW x \in Nat, NEW y \in Nat
    PROVE  Ladder!Least(x, y) \in Nat /\ Ladder!Least(x, y) <= x /\ Ladder!Least(x, y) <= y
           /\ (Ladder!Least(x, y) = x \/ Ladder!Least(x, y) = y)
BY DEF Ladder!Least

LEMMA PositionIs ==
    ASSUME opened \in Nat, NEW size \in 1 .. opened, NEW watched \in BOOLEAN
    PROVE  /\ Ladder!Position(size, watched) \in Ladder!PosState
           /\ Whole(Ladder!Position(size, watched))
           /\ Ladder!Position(size, watched).held /\ Ladder!Position(size, watched).manual = watched
           /\ Ladder!Position(size, watched).remaining = size
           /\ ~Ladder!Position(size, watched).m[1]
           /\ Ladder!Nothing \in Ladder!PosState /\ Whole(Ladder!Nothing) /\ ~Ladder!Nothing.held
<1> DEFINE none == [k \in 1 .. 2 |-> FALSE]
<1>1. none \in [1 .. 2 -> BOOLEAN] /\ ~none[1]
  OBVIOUS
<1>2. Ladder!Nothing = [held |-> FALSE, size |-> 0, remaining |-> 0, sl |-> Ladder!Entry,
                        m |-> none, manual |-> FALSE]
  BY DEF Ladder!Nothing
<1> HIDE DEF none
<1>3. Ladder!Position(size, watched) =
         [held |-> TRUE, size |-> size, remaining |-> size, sl |-> Ladder!Entry,
          m |-> none, manual |-> watched]
  <2> DEFINE n == [held |-> FALSE, size |-> 0, remaining |-> 0, sl |-> Ladder!Entry, m |-> none,
                   manual |-> FALSE]
  <2>1. Ladder!Position(size, watched) =
           [n EXCEPT !.held = TRUE, !.size = size, !.remaining = size, !.manual = watched]
    BY <1>2 DEF Ladder!Position
  <2> QED
    BY <2>1
<1>4. size \in 0 .. opened /\ 0 \in 0 .. opened /\ size <= size
      /\ Ladder!Entry \in {Ladder!Entry, 3, 10}
  OBVIOUS
<1>5. Ladder!Position(size, watched) \in Ladder!PosState /\ Whole(Ladder!Position(size, watched))
  BY <1>1, <1>3, <1>4 DEF Ladder!PosState, Whole
<1>6. Ladder!Nothing \in Ladder!PosState /\ Whole(Ladder!Nothing)
  BY <1>1, <1>2, <1>4 DEF Ladder!PosState, Whole
<1> QED
  BY <1>1, <1>2, <1>3, <1>5, <1>6

LEMMA PartIs ==
    ASSUME opened \in Nat, NEW p \in Ladder!PosState, Whole(p), NEW k \in 1 .. 2, k = 1 => ~p.m[1]
    PROVE  Ladder!Part(p, k) \in 0 .. opened /\ Ladder!Part(p, k) <= p.remaining
<1>1. p.size \in Nat /\ p.remaining \in Nat /\ p.remaining <= opened /\ p.remaining <= p.size
  BY DEF Ladder!PosState, Whole
<1>2. CASE k = 1
  <2>1. p.remaining = p.size /\ (p.size * 2) \div 5 \in Nat /\ (p.size * 2) \div 5 <= p.size
    BY <1>1, <1>2 DEF Whole
  <2> QED
    BY <1>1, <1>2, <2>1 DEF Ladder!Part
<1>3. CASE k = 2
  <2> DEFINE x == (p.size * 11) \div 40
             y == (p.remaining * 9) \div 10
  <2>1. x \in Nat /\ y \in Nat /\ y <= p.remaining
    BY <1>1
  <2>2. Ladder!Part(p, k) = Ladder!Least(x, y)
    BY <1>3 DEF Ladder!Part
  <2> HIDE DEF x, y
  <2>3. Ladder!Least(x, y) \in Nat /\ Ladder!Least(x, y) <= y
    BY <2>1, LeastIs
  <2> QED
    BY <1>1, <2>1, <2>2, <2>3
<1> QED
  BY <1>2, <1>3

\* What the exchange fills leaves the rest, with its plan orders, or nothing.
LEMMA ReducedIs ==
    ASSUME exch \in Ladder!ExchState, opened \in Nat, NEW size \in Nat
    PROVE  /\ Ladder!Reduced(size) \in Ladder!ExchState
           /\ Ladder!Reduced(size).sl = exch.sl
           /\ \/ /\ exch.size <= size /\ Ladder!Reduced(size).size = 0
                 /\ Ladder!Reduced(size).slSize = 0
              \/ /\ size < exch.size /\ Ladder!Reduced(size).size = exch.size - size
                 /\ Ladder!Reduced(size).slSize = exch.slSize
           /\ [Ladder!Reduced(size) EXCEPT !.slSize = 0] \in Ladder!ExchState
           /\ [Ladder!Reduced(size) EXCEPT !.tpSize = 0] \in Ladder!ExchState
<1> DEFINE left == exch.size - Ladder!Least(size, exch.size)
<1>1. exch.size \in Nat /\ exch.size <= opened
  BY DEF Ladder!ExchState
<1>2. \/ exch.size <= size /\ left = 0
      \/ size < exch.size /\ left = exch.size - size /\ left # 0
  BY <1>1 DEF Ladder!Least
<1>3. Ladder!Reduced(size) = IF left = 0 THEN [exch EXCEPT !.size = 0, !.slSize = 0, !.tpSize = 0]
                      ELSE [exch EXCEPT !.size = left]
  BY DEF Ladder!Reduced
<1>4. left \in 0 .. opened
  BY <1>1, <1>2
<1> HIDE DEF left
<1> DEFINE red == Ladder!Reduced(size)
<1>5. \/ left = 0 /\ red = [exch EXCEPT !.size = 0, !.slSize = 0, !.tpSize = 0]
      \/ left # 0 /\ red = [exch EXCEPT !.size = left]
  BY <1>3
<1> HIDE DEF red
<1>6. red \in Ladder!ExchState
  BY <1>4, <1>5 DEF Ladder!ExchState
<1>7. red.sl = exch.sl /\ (left = 0 => red.size = 0 /\ red.slSize = 0)
      /\ (left # 0 => red.size = left /\ red.slSize = exch.slSize)
  BY <1>5 DEF Ladder!ExchState
<1>8. [red EXCEPT !.slSize = 0] \in Ladder!ExchState
      /\ [red EXCEPT !.tpSize = 0] \in Ladder!ExchState
  BY <1>6 DEF Ladder!ExchState
<1> QED
  BY <1>2, <1>6, <1>7, <1>8 DEF red

LEMMA CancelledIs ==
    ASSUME exch \in Ladder!ExchState, opened \in Nat,
           exch' = [exch EXCEPT !.slSize = 0, !.tpSize = 0]
    PROVE  exch' \in Ladder!ExchState /\ exch'.size = exch.size /\ exch'.sl = exch.sl
<1>1. 0 \in 0 .. opened
  OBVIOUS
<1> QED
  BY <1>1 DEF Ladder!ExchState

\* With its plan orders placed, or not.
LEMMA PlacedIs ==
    ASSUME exch \in Ladder!ExchState, NEW sl \in {Ladder!Entry, 3, 10}, NEW a \in 0 .. opened,
           NEW b \in 0 .. opened, exch' = [exch EXCEPT !.sl = sl, !.slSize = a, !.tpSize = b]
    PROVE  exch' \in Ladder!ExchState /\ exch'.size = exch.size /\ exch'.sl = sl /\ exch'.slSize = a
BY DEF Ladder!ExchState

LEMMA PlacesIs ==
    ASSUME Ladder!PositionLadderAssumption, Ladder!TypeOK, Ladder!PlacesPlans
    PROVE  /\ exch' \in Ladder!ExchState /\ exch'.size = exch.size
           /\ \/ /\ exch.size > 0 /\ exch'.sl = Ladder!Lock(op.k)
                 /\ exch'.slSize = mem[op.row].remaining
              \/ /\ exch.size = 0 \/ "sl_fails" \in world
                 /\ exch'.sl = exch.sl /\ exch'.slSize = 0
<1>1. /\ exch \in Ladder!ExchState /\ op.row \in Ladder!Rows /\ mem[op.row] \in Ladder!PosState
      /\ opened \in Nat
  BY Numbers DEF Ladder!TypeOK, Ladder!OpState
<1>2. /\ mem[op.row].remaining \in 0 .. opened /\ Ladder!Lock(op.k) \in {Ladder!Entry, 3, 10}
      /\ exch.sl \in {Ladder!Entry, 3, 10} /\ 0 \in 0 .. opened /\ exch.size \in Nat
  BY <1>1 DEF Ladder!PosState, Ladder!ExchState, Ladder!Lock
<1> DEFINE there == exch.size > 0
           b == IF there THEN mem[op.row].remaining ELSE 0
<1>3. PICK sl \in {there} \cup (IF "sl_fails" \in world THEN {FALSE} ELSE {}) :
          exch' = [exch EXCEPT !.sl = IF sl THEN Ladder!Lock(op.k) ELSE exch.sl,
                               !.slSize = IF sl THEN mem[op.row].remaining ELSE 0,
                               !.tpSize = b]
  BY DEF Ladder!PlacesPlans
<1>4. b \in 0 .. opened
  BY <1>2
<1> HIDE DEF b, there
<1>7. (sl => there) /\ (~sl => ~there \/ "sl_fails" \in world)
  BY <1>3, Zenon
<1>5. CASE sl
  <2>1. exch' = [exch EXCEPT !.sl = Ladder!Lock(op.k), !.slSize = mem[op.row].remaining,
                             !.tpSize = b]
    BY <1>3, <1>5
  <2> QED
    BY <1>1, <1>2, <1>4, <1>5, <1>7, <2>1, PlacedIs DEF there
<1>6. CASE ~sl
  <2>1. exch' = [exch EXCEPT !.sl = exch.sl, !.slSize = 0, !.tpSize = b]
    BY <1>3, <1>6
  <2> QED
    <3>1. exch' \in Ladder!ExchState /\ exch'.size = exch.size /\ exch'.sl = exch.sl
          /\ exch'.slSize = 0
      BY <1>1, <1>2, <1>4, <2>1, PlacedIs
    <3>2. exch.size = 0 \/ "sl_fails" \in world
      BY <1>2, <1>6, <1>7 DEF there
    <3> QED
      BY <3>1, <3>2
<1> QED
  BY <1>5, <1>6

LEMMA AdoptedIs ==
    ASSUME Ladder!PositionLadderAssumption, LadderInv, NEW which \in SUBSET DOMAIN rows
    PROVE  /\ Ladder!Adopted(which) \in [Ladder!Rows -> Ladder!PosState]
           /\ \A r \in Ladder!Rows : Whole(Ladder!Adopted(which)[r])
           /\ \A r \in Ladder!Rows \ which : Ladder!Adopted(which)[r] = mem[r]
<1>1. \A r \in which : /\ Ladder!Position(rows[r].size, FALSE) \in Ladder!PosState
                       /\ Whole(Ladder!Position(rows[r].size, FALSE))
  BY Numbers, PositionIs DEF LadderInv, Ladder!Row
<1> QED
  BY <1>1 DEF Ladder!Adopted, LadderInv, Ladder!TypeOK

LEMMA ScannedIs ==
    ASSUME Ladder!PositionLadderAssumption, Ladder!TypeOK, pass.todo # {}
    PROVE  Ladder!Scanned \in pass.todo /\ Ladder!Scanned \in Ladder!Rows
<1> DEFINE R == OpToRel(<, Nat)
<1>1. pass.todo \subseteq Ladder!Rows /\ Ladder!Rows \subseteq Nat
  BY Numbers DEF Ladder!TypeOK, Ladder!PassState
<1>2. \A x, y \in Nat : y < x => <<y, x>> \in R
  <2>1. ASSUME NEW x \in Nat, NEW y \in Nat, y < x PROVE <<y, x>> \in R
    <3>1. <<y, x>> \in Nat \X Nat /\ <<y, x>>[1] = y /\ <<y, x>>[2] = x
      OBVIOUS
    <3> QED
      BY <2>1, <3>1 DEF OpToRel
  <2> QED
    BY <2>1
<1>3. IsWellFoundedOn(R, Nat)
  BY NatLessThanWellFounded
<1> HIDE DEF R
<1>4. pass.todo \subseteq Nat
  BY <1>1
<1>5. PICK x \in pass.todo : \A y \in pass.todo : ~(<<y, x>> \in R)
  BY <1>3, <1>4, WFMin
<1>6. ASSUME NEW y \in pass.todo PROVE x <= y
  <2>1. x \in Nat /\ y \in Nat
    BY <1>4
  <2>2. ~(y < x)
    BY <1>2, <1>5, <2>1
  <2> QED
    BY <2>1, <2>2
<1>7. \E r \in pass.todo : \A q \in pass.todo : r <= q
  BY <1>6
<1> QED
  BY <1>1, <1>7 DEF Ladder!Scanned
----------------------------------------------------------------------------
(* What the parts of a step leave *)

LEMMA TypesStay ==
    ASSUME Ladder!TypeOK, world' = world, opened' = opened, crashes' \in 0 .. MaxCrashes,
           exch' \in Ladder!ExchState, mem' \in [Ladder!Rows -> Ladder!PosState],
           pass' \in Ladder!PassState, op' \in Ladder!OpState,
           rows' \in Seq(Ladder!Row), Len(rows') \in Ladder!Rows
    PROVE  Ladder!TypeOK'
BY DEF Ladder!TypeOK, Ladder!ExchState, Ladder!PosState, Ladder!PassState, Ladder!OpState,
       Ladder!Row

Ats == {"none", "close", "cancel", "place", "record", "closeRow"}

LEMMA GotoIs ==
    ASSUME op \in Ladder!OpState, NEW at \in Ats, Ladder!Goto(at)
    PROVE  /\ op' \in Ladder!OpState /\ op'.at = at
           /\ op'.row = op.row /\ op'.k = op.k /\ op'.part = op.part
BY DEF Ladder!Goto, Ladder!OpState, Ats

LEMMA NoneIs ==
    ASSUME Ladder!PositionLadderAssumption, Ladder!TypeOK
    PROVE  Ladder!NoOp \in Ladder!OpState /\ Ladder!NoOp.at = "none"
           /\ Ladder!NoPass \in Ladder!PassState /\ Ladder!NoPass.at = "idle"
           /\ [Ladder!NoPass EXCEPT !.at = "down"] \in Ladder!PassState
           /\ [Ladder!NoPass EXCEPT !.at = "down"].at = "down"
BY Numbers DEF Ladder!NoOp, Ladder!NoPass, Ladder!OpState, Ladder!PassState, Ladder!Prices

LEMMA ClosedIs ==
    ASSUME Ladder!PositionLadderAssumption, Ladder!TypeOK, NEW r, NEW size \in 0 .. opened,
           Ladder!Closed(r, size)
    PROVE  /\ rows' \in Seq(Ladder!Row) /\ Len(rows') = Len(rows)
           /\ r \in DOMAIN rows => ~rows'[r].open
           /\ \A q \in DOMAIN rows \ {r} : rows'[q] = rows[q]
<1>1. /\ rows \in Seq(Ladder!Row) /\ Len(rows) \in Nat /\ DOMAIN rows = 1 .. Len(rows)
      /\ \A q \in DOMAIN rows : rows[q] \in Ladder!Row
  BY Numbers
<1>2. \A q \in DOMAIN rows : [[rows[q] EXCEPT !.open = FALSE] EXCEPT !.booked = size] \in Ladder!Row
  BY <1>1 DEF Ladder!Row
<1>3. rows' = [rows EXCEPT ![r] = [[rows[r] EXCEPT !.open = FALSE] EXCEPT !.booked = size]]
  BY <1>1 DEF Ladder!Closed
<1>4. CASE r \notin DOMAIN rows
  <2>1. rows' = rows
    BY <1>1, <1>3, <1>4
  <2> QED
    BY <1>1, <1>4, <2>1
<1>5. CASE r \in DOMAIN rows
  <2> DEFINE c == [[rows[r] EXCEPT !.open = FALSE] EXCEPT !.booked = size]
  <2>1. c \in Ladder!Row
    BY <1>2, <1>5
  <2>2. ~c.open
    BY <1>1, <1>5 DEF Ladder!Row
  <2>3. rows' = [rows EXCEPT ![r] = c]
    BY <1>3
  <2> HIDE DEF c
  <2>4. rows' \in Seq(Ladder!Row) /\ Len(rows') = Len(rows)
    BY <1>1, <1>5, <2>1, <2>3, ExceptSeq
  <2> QED
    BY <1>1, <1>5, <2>2, <2>3, <2>4
<1> QED
  BY <1>4, <1>5

LEMMA DropIs ==
    ASSUME Ladder!PositionLadderAssumption, LadderInv, NEW r \in Ladder!Rows, Ladder!Drop(r)
    PROVE  /\ mem' \in [Ladder!Rows -> Ladder!PosState] /\ (\A q \in Ladder!Rows : Whole(mem'[q]))
           /\ ~mem'[r].held /\ \A q \in Ladder!Rows \ {r} : mem'[q] = mem[q]
<1>1. opened \in Nat /\ opened > 0 /\ mem \in [Ladder!Rows -> Ladder!PosState]
      /\ \A q \in Ladder!Rows : Whole(mem[q])
  BY Numbers DEF LadderInv, Ladder!TypeOK
<1>2. Ladder!Nothing \in Ladder!PosState /\ Whole(Ladder!Nothing) /\ ~Ladder!Nothing.held
  <2>1. 1 \in 1 .. opened /\ TRUE \in BOOLEAN
    BY <1>1
  <2> QED
    BY <1>1, <2>1, PositionIs
<1> QED
  BY <1>1, <1>2 DEF Ladder!Drop

LEMMA NextPositionIs ==
    ASSUME Ladder!TypeOK, Ladder!NextPosition
    PROVE  pass' \in Ladder!PassState /\ pass'.at = pass.at
BY DEF Ladder!TypeOK, Ladder!NextPosition, Ladder!PassState

LEMMA OutstandingIs ==
    ASSUME NEW p \in Ladder!PosState
    PROVE  Ladder!Outstanding(p) \in 0 .. opened
BY DEF Ladder!Outstanding, Ladder!PosState
----------------------------------------------------------------------------
(* Types: one lemma per part of the next-state relation *)

LEMMA InitIInv == Ladder!PositionLadderAssumption /\ Ladder!Init => LadderInv
<1> SUFFICES ASSUME Ladder!PositionLadderAssumption, Ladder!Init PROVE LadderInv
  OBVIOUS
<1>1. /\ opened \in Sizes /\ opened \in Nat /\ opened > 0 /\ world \in LadderWorlds /\ crashes = 0
      /\ Ladder!Rows = 1 .. MaxRows /\ 1 \in Ladder!Rows /\ MaxCrashes \in Nat
  BY DEF Ladder!Init, Ladder!Entered, Ladder!PositionLadderAssumption, Ladder!Rows
<1>2. PICK sl \in BOOLEAN, tp \in BOOLEAN :
          /\ exch = [size |-> opened, sl |-> Ladder!Entry, slSize |-> IF sl THEN opened ELSE 0,
                     tpSize |-> IF tp THEN opened ELSE 0]
          /\ mem = [r \in Ladder!Rows |-> IF r = 1 THEN Ladder!Position(opened, ~sl \/ ~tp)
                                           ELSE Ladder!Nothing]
  BY DEF Ladder!Init, Ladder!Entered
<1>3. exch \in Ladder!ExchState
  BY <1>1, <1>2 DEF Ladder!ExchState, Ladder!Entry
<1>4. mem \in [Ladder!Rows -> Ladder!PosState] /\ \A r \in Ladder!Rows : Whole(mem[r])
  <2> DEFINE watched == ~sl \/ ~tp
             p == Ladder!Position(opened, watched)
  <2>1. mem = [r \in Ladder!Rows |-> IF r = 1 THEN p ELSE Ladder!Nothing]
    BY <1>2
  <2>2. opened \in 1 .. opened /\ watched \in BOOLEAN
    BY <1>1
  <2> HIDE DEF watched
  <2>3. p \in Ladder!PosState /\ Whole(p) /\ Ladder!Nothing \in Ladder!PosState
        /\ Whole(Ladder!Nothing)
    BY <1>1, <2>2, PositionIs
  <2> HIDE DEF p
  <2> QED
    BY <2>1, <2>3
<1>5. rows \in Seq(Ladder!Row) /\ Len(rows) \in Ladder!Rows
  <2> DEFINE r == [open |-> TRUE, size |-> opened, booked |-> 0]
  <2>1. r \in Ladder!Row /\ rows = <<r>>
    BY <1>1 DEF Ladder!Init, Ladder!Entered, Ladder!Row
  <2> HIDE DEF r
  <2> QED
    BY <1>1, <2>1
<1>6. pass \in Ladder!PassState /\ op \in Ladder!OpState /\ op.at = "none"
  BY <1>1 DEF Ladder!Init, Ladder!Entered, Ladder!NoPass, Ladder!NoOp, Ladder!PassState,
              Ladder!OpState, Ladder!Prices
<1> QED
  BY <1>1, <1>3, <1>4, <1>5, <1>6 DEF LadderInv, Ladder!TypeOK, AtWork

\* What a pass does between the milestones, and the exchange and the process.
LEMMA PassIInv ==
    ASSUME Ladder!PositionLadderAssumption, LadderInv,
           \/ Ladder!Ticks \/ Ladder!PassEnds \/ (\E r \in Ladder!Rows : Ladder!Book(r))
           \/ Ladder!Quiet \/ Ladder!MonitorCloses
           \/ Ladder!MonitorFinds
    PROVE  LadderInv'
<1>1. /\ Ladder!TypeOK /\ opened \in Nat /\ crashes \in 0 .. MaxCrashes /\ exch \in Ladder!ExchState
      /\ mem \in [Ladder!Rows -> Ladder!PosState] /\ pass \in Ladder!PassState
      /\ op \in Ladder!OpState
      /\ rows \in Seq(Ladder!Row) /\ Len(rows) \in Ladder!Rows
      /\ \A r \in Ladder!Rows : Whole(mem[r])
  BY Numbers DEF LadderInv, Ladder!TypeOK
<1>2. CASE Ladder!Ticks
  <2>1. PICK price \in Ladder!Prices, reconcile \in BOOLEAN : Ladder!PassBegin(price, reconcile)
    BY <1>2 DEF Ladder!Ticks
  <2> DEFINE found == IF reconcile /\ exch.size > 0 THEN Ladder!OpenRows \ Ladder!HeldRows ELSE {}
             after == Ladder!Adopted(found)
             held == {r \in Ladder!Rows : after[r].held}
             at == IF exch.size = 0 THEN "book" ELSE "scan"
  <2>2. /\ pass.at = "idle" /\ mem' = after /\ pass' = [at |-> at, price |-> price, todo |-> held]
        /\ UNCHANGED <<world, crashes, opened, exch, rows, op>>
    BY <2>1 DEF Ladder!PassBegin
  <2>3. after \in [Ladder!Rows -> Ladder!PosState] /\ \A r \in Ladder!Rows : Whole(after[r])
    BY AdoptedIs DEF Ladder!OpenRows
  <2>4. pass' \in Ladder!PassState
    BY <2>2 DEF Ladder!PassState
  <2>5. op.at = "none"
    BY <2>2 DEF LadderInv, AtWork
  <2> HIDE DEF after
  <2>6. Ladder!TypeOK'
    BY <1>1, <2>2, <2>3, <2>4, TypesStay
  <2> QED
    BY <2>2, <2>3, <2>5, <2>6 DEF LadderInv, AtWork
<1>3. CASE Ladder!PassEnds
  <2>1. Ladder!TypeOK'
    BY <1>1, <1>3, NoneIs, TypesStay DEF Ladder!PassEnds
  <2> QED
    BY <1>1, <1>3, <2>1 DEF Ladder!PassEnds, LadderInv, AtWork
<1>4. CASE \E r \in Ladder!Rows : Ladder!Book(r)
  <2>1. PICK r \in Ladder!Rows : Ladder!Book(r)
    BY <1>4
  <2>2. mem[r] \in Ladder!PosState
    BY <1>1
  <2>3. rows' \in Seq(Ladder!Row) /\ Len(rows') = Len(rows)
    BY <1>1, <2>1, <2>2, OutstandingIs, ClosedIs DEF Ladder!Book
  <2>4. mem' \in [Ladder!Rows -> Ladder!PosState] /\ \A q \in Ladder!Rows : Whole(mem'[q])
    BY <2>1, DropIs DEF Ladder!Book
  <2>5. pass' \in Ladder!PassState /\ op.at = "none"
    BY <1>1, <2>1 DEF Ladder!Book, Ladder!PassState, LadderInv, AtWork
  <2>6. Ladder!TypeOK'
    BY <1>1, <2>1, <2>3, <2>4, <2>5, TypesStay DEF Ladder!Book
  <2> QED
    BY <2>1, <2>4, <2>5, <2>6 DEF Ladder!Book, LadderInv, AtWork
<1>5. CASE Ladder!Quiet
  <2>1. Ladder!TypeOK'
    BY <1>1, <1>5, NextPositionIs, TypesStay DEF Ladder!Quiet
  <2> QED
    BY <1>1, <1>5, <2>1 DEF Ladder!Quiet, LadderInv, AtWork
<1>6. CASE Ladder!MonitorCloses
  <2>1. Ladder!Scanned \in Ladder!Rows /\ mem[Ladder!Scanned] \in Ladder!PosState
    BY <1>1, <1>6, ScannedIs DEF Ladder!MonitorCloses
  <2>2. mem[Ladder!Scanned].size \in Nat
    BY <1>1, <2>1 DEF Ladder!PosState
  <2>3. exch' \in Ladder!ExchState
    BY <1>1, <1>6, <2>2, ReducedIs DEF Ladder!MonitorCloses
  <2>4. Ladder!TypeOK'
    BY <1>1, <1>6, <2>3, NextPositionIs, TypesStay DEF Ladder!MonitorCloses
  <2> QED
    BY <1>1, <1>6, <2>4 DEF Ladder!MonitorCloses, LadderInv, AtWork
<1>7. CASE Ladder!MonitorFinds
  <2>1. Ladder!Scanned \in Ladder!Rows /\ mem[Ladder!Scanned].size \in 0 .. opened
    BY <1>1, <1>7, ScannedIs DEF Ladder!MonitorFinds, Ladder!PosState
  <2>2. rows' \in Seq(Ladder!Row) /\ Len(rows') = Len(rows)
    BY <1>1, <1>7, <2>1, ClosedIs DEF Ladder!MonitorFinds
  <2>3. mem' \in [Ladder!Rows -> Ladder!PosState] /\ \A q \in Ladder!Rows : Whole(mem'[q])
    BY <1>7, <2>1, DropIs DEF Ladder!MonitorFinds
  <2>4. Ladder!TypeOK'
    BY <1>1, <1>7, <2>2, <2>3, NextPositionIs, TypesStay DEF Ladder!MonitorFinds
  <2> QED
    BY <1>7, <2>3, <2>4 DEF Ladder!MonitorFinds, LadderInv, AtWork
<1> QED
  BY <1>2, <1>3, <1>4, <1>5, <1>6, <1>7

\* A milestone, await by await.
LEMMA ReachIInv ==
    ASSUME Ladder!PositionLadderAssumption, LadderInv, NEW k \in 1 .. 2, Ladder!Reach(k)
    PROVE  LadderInv'
<1>1. /\ Ladder!TypeOK /\ opened \in Nat /\ crashes \in 0 .. MaxCrashes /\ exch \in Ladder!ExchState
      /\ mem \in [Ladder!Rows -> Ladder!PosState] /\ pass \in Ladder!PassState
      /\ op \in Ladder!OpState
      /\ rows \in Seq(Ladder!Row) /\ Len(rows) \in Ladder!Rows
      /\ \A r \in Ladder!Rows : Whole(mem[r])
  BY Numbers DEF LadderInv, Ladder!TypeOK
<1> DEFINE r == Ladder!Scanned
           p == mem[r]
<1>2. r \in Ladder!Rows
  BY <1>1, ScannedIs DEF Ladder!Reach
<1> HIDE DEF r
<1>3. p \in Ladder!PosState /\ Whole(p)
  BY <1>1, <1>2
<1>4. /\ pass.at = "scan" /\ ~p.m[k] /\ (k = 2 => p.m[1])
      /\ mem' = [mem EXCEPT ![r] = [mem[r] EXCEPT !.m = [mem[r].m EXCEPT ![k] = TRUE]]]
      /\ op' = [at |-> IF Ladder!Part(p, k) >= MinLot THEN "close" ELSE "cancel",
                row |-> r, k |-> k,
                part |-> IF Ladder!Part(p, k) >= MinLot THEN Ladder!Part(p, k) ELSE 0]
      /\ UNCHANGED <<world, crashes, opened, exch, rows, pass>>
  <2>1. mem' = [mem EXCEPT ![r].m[k] = TRUE]
    BY DEF Ladder!Reach, r
  <2>2. mem' = [mem EXCEPT ![r] = [mem[r] EXCEPT !.m = [mem[r].m EXCEPT ![k] = TRUE]]]
    BY <1>1, <1>2, <2>1
  <2> QED
    BY <2>2 DEF Ladder!Reach, Ladder!Due, r
<1>5. Ladder!Part(p, k) \in 0 .. opened /\ Ladder!Part(p, k) <= p.remaining
  <2>1. k = 1 => ~p.m[1]
    BY <1>4
  <2> HIDE DEF p
  <2> QED
    BY <1>1, <1>3, <2>1, PartIs
<1> DEFINE after == [mem[r].m EXCEPT ![k] = TRUE]
           q == [mem[r] EXCEPT !.m = after]
<1>6. after \in [1 .. 2 -> BOOLEAN] /\ after[1]
  BY <1>3, <1>4 DEF Ladder!PosState
<1> HIDE DEF after
<1>7. q \in Ladder!PosState /\ q.remaining = p.remaining /\ q.size = p.size /\ q.m = after
  BY <1>3, <1>6 DEF Ladder!PosState
<1>8. Whole(q) /\ q.m[1]
  BY <1>3, <1>6, <1>7 DEF Whole
<1>9. mem' = [mem EXCEPT ![r] = q]
  BY <1>4 DEF after
<1> HIDE DEF q
<1>10. /\ mem' \in [Ladder!Rows -> Ladder!PosState] /\ mem'[r] = q
       /\ \A s \in Ladder!Rows : Whole(mem'[s])
  BY <1>1, <1>2, <1>7, <1>8, <1>9
<1>11. op' \in Ladder!OpState /\ op'.row = r /\ op'.at \in {"close", "cancel"}
       /\ op'.part <= p.remaining
  <2>1. p.remaining \in Nat /\ MinLot \in Nat
    BY <1>1, <1>3, Numbers DEF Ladder!PosState
  <2> DEFINE x == Ladder!Part(p, k)
  <2>2. /\ x \in 0 .. opened /\ x <= p.remaining
        /\ op' = [at |-> IF x >= MinLot THEN "close" ELSE "cancel", row |-> r, k |-> k,
                  part |-> IF x >= MinLot THEN x ELSE 0]
    BY <1>4, <1>5
  <2> HIDE DEF x, p
  <2> QED
    BY <1>1, <1>2, <2>1, <2>2 DEF Ladder!OpState
<1>12. Ladder!TypeOK'
  BY <1>1, <1>4, <1>10, <1>11, TypesStay
<1> QED
  BY <1>4, <1>7, <1>8, <1>10, <1>11, <1>12 DEF LadderInv, AtWork

LEMMA MilestoneIInv ==
    ASSUME Ladder!PositionLadderAssumption, LadderInv, Ladder!Milestone
    PROVE  LadderInv'
<1>1. /\ Ladder!TypeOK /\ opened \in Nat /\ crashes \in 0 .. MaxCrashes /\ exch \in Ladder!ExchState
      /\ mem \in [Ladder!Rows -> Ladder!PosState] /\ pass \in Ladder!PassState
      /\ op \in Ladder!OpState
      /\ rows \in Seq(Ladder!Row) /\ Len(rows) \in Ladder!Rows
      /\ \A r \in Ladder!Rows : Whole(mem[r])
  BY Numbers DEF LadderInv, Ladder!TypeOK
<1>2. op.row \in Ladder!Rows /\ op.part \in 0 .. opened /\ mem[op.row] \in Ladder!PosState
  BY <1>1 DEF Ladder!OpState
<1>3. Ladder!NoOp \in Ladder!OpState /\ Ladder!NoOp.at = "none"
  BY <1>1, NoneIs
<1>4. CASE Ladder!PartCloses
  <2>1. exch' \in Ladder!ExchState
    <3>1. op.part \in Nat
      BY <1>1, <1>2
    <3> QED
      BY <1>1, <1>4, <3>1, ReducedIs DEF Ladder!PartCloses
  <2>2. op' \in Ladder!OpState /\ op'.at = "cancel" /\ op'.row = op.row /\ op'.part = op.part
    BY <1>1, <1>4, GotoIs DEF Ladder!PartCloses, Ats
  <2>3. Ladder!TypeOK'
    BY <1>1, <1>4, <2>1, <2>2, TypesStay DEF Ladder!PartCloses
  <2> QED
    BY <1>4, <2>2, <2>3 DEF Ladder!PartCloses, LadderInv, AtWork
<1>5. CASE Ladder!PartFails
  <2>1. Ladder!TypeOK'
    BY <1>1, <1>3, <1>5, TypesStay DEF Ladder!PartFails
  <2> QED
    BY <1>1, <1>3, <1>5, <2>1 DEF Ladder!PartFails, LadderInv, AtWork
<1>6. CASE Ladder!CancelsPlans
  <2>1. exch' \in Ladder!ExchState
    BY <1>1, <1>6, CancelledIs DEF Ladder!CancelsPlans
  <2>2. op' \in Ladder!OpState /\ op'.at = "place" /\ op'.row = op.row /\ op'.part = op.part
    BY <1>1, <1>6, GotoIs DEF Ladder!CancelsPlans, Ats
  <2>3. Ladder!TypeOK'
    BY <1>1, <1>6, <2>1, <2>2, TypesStay DEF Ladder!CancelsPlans
  <2> QED
    BY <1>6, <2>2, <2>3 DEF Ladder!CancelsPlans, LadderInv, AtWork
<1>7. CASE Ladder!PlacesPlans
  <2>1. exch' \in Ladder!ExchState
    BY <1>1, <1>7, PlacesIs
  <2>2. \/ /\ op' \in Ladder!OpState /\ op'.at = "record" /\ op'.row = op.row
           /\ op'.part = op.part /\ op.part > 0
        \/ op' = Ladder!NoOp
    BY <1>1, <1>7, GotoIs DEF Ladder!PlacesPlans, Ats
  <2>3. Ladder!TypeOK'
    BY <1>1, <1>3, <1>7, <2>1, <2>2, TypesStay DEF Ladder!PlacesPlans
  <2> QED
    BY <1>1, <1>3, <1>7, <2>2, <2>3 DEF Ladder!PlacesPlans, LadderInv, AtWork
<1>8. CASE Ladder!Records
  <2> DEFINE p == mem[op.row]
             q == [[p EXCEPT !.remaining = p.remaining - op.part] EXCEPT !.sl = Ladder!Lock(op.k)]
  <2>1. p \in Ladder!PosState /\ op.part <= p.remaining /\ p.m[1] /\ Whole(p)
        /\ op.part \in 1 .. opened
        /\ Ladder!Lock(op.k) \in {3, 10}
    BY <1>1, <1>2, <1>8 DEF Ladder!Records, LadderInv, AtWork, Ladder!Lock
  <2>2. mem' = [mem EXCEPT ![op.row] = q]
    BY <1>1, <1>2, <1>8 DEF Ladder!Records
  <2>3. q \in Ladder!PosState /\ q.m[1] /\ q.remaining <= p.remaining /\ q.size = p.size
        /\ q.m = p.m
    <3>1. p.remaining - op.part \in 0 .. opened /\ p.remaining - op.part <= p.remaining
      BY <1>1, <2>1 DEF Ladder!PosState
    <3> HIDE DEF p
    <3> QED
      BY <2>1, <3>1 DEF Ladder!PosState
  <2>4. Whole(q)
    BY <2>1, <2>3 DEF Whole, Ladder!PosState
  <2> HIDE DEF q
  <2>5. mem' \in [Ladder!Rows -> Ladder!PosState] /\ mem'[op.row] = q
        /\ \A r \in Ladder!Rows : Whole(mem'[r])
    BY <1>1, <1>2, <2>2, <2>3, <2>4
  <2>6. \/ rows' = rows /\ op' = Ladder!NoOp
        \/ /\ rows' = Append(rows, [open |-> TRUE, size |-> op.part, booked |-> 0])
           /\ op' \in Ladder!OpState /\ op'.at = "closeRow" /\ op'.row = op.row
           /\ op'.part = op.part
    BY <1>1, <1>8, GotoIs DEF Ladder!Records, Ats
  <2>7. rows' \in Seq(Ladder!Row) /\ Len(rows') \in Ladder!Rows
    <3> DEFINE row == [open |-> TRUE, size |-> op.part, booked |-> 0]
    <3>1. row \in Ladder!Row
      BY <1>1, <2>1 DEF Ladder!Row
    <3>2. rows' = rows \/ rows' = Append(rows, row)
      BY <2>6
    <3> HIDE DEF row
    <3>3. Len(rows) \in Nat /\ MaxRows \in Nat /\ Ladder!Rows = 1 .. MaxRows
      BY <1>1, Numbers
    <3>4. Len(rows) < MaxRows
      BY <1>8 DEF Ladder!Records
    <3> QED
      BY <1>1, <3>1, <3>2, <3>3, <3>4, AppendProperties
  <2>8. Ladder!TypeOK'
    BY <1>1, <1>3, <1>8, <2>5, <2>6, <2>7, TypesStay DEF Ladder!Records
  <2> QED
    BY <1>3, <1>8, <2>1, <2>3, <2>5, <2>6, <2>8 DEF Ladder!Records, LadderInv, AtWork
<1>9. CASE Ladder!ClosesRow
  <2>1. rows' \in Seq(Ladder!Row) /\ Len(rows') = Len(rows)
    BY <1>1, <1>2, <1>9, ClosedIs DEF Ladder!ClosesRow
  <2>2. Ladder!TypeOK'
    BY <1>1, <1>3, <1>9, <2>1, TypesStay DEF Ladder!ClosesRow
  <2> QED
    BY <1>1, <1>3, <1>9, <2>2 DEF Ladder!ClosesRow, LadderInv, AtWork
<1> QED
  BY <1>4, <1>5, <1>6, <1>7, <1>8, <1>9, ReachIInv DEF Ladder!Milestone

\* The exchange fills a plan order; the process dies, and adopts the open rows again.
LEMMA WorldIInv ==
    ASSUME Ladder!PositionLadderAssumption, LadderInv,
           Ladder!StopHit \/ Ladder!TargetHit \/ Ladder!Crash \/ Ladder!Restart
    PROVE  LadderInv'
<1>1. /\ Ladder!TypeOK /\ opened \in Nat /\ crashes \in 0 .. MaxCrashes /\ exch \in Ladder!ExchState
      /\ mem \in [Ladder!Rows -> Ladder!PosState] /\ pass \in Ladder!PassState
      /\ op \in Ladder!OpState
      /\ rows \in Seq(Ladder!Row) /\ Len(rows) \in Ladder!Rows
      /\ \A r \in Ladder!Rows : Whole(mem[r])
  BY Numbers DEF LadderInv, Ladder!TypeOK
<1>2. exch.slSize \in Nat /\ exch.tpSize \in Nat
  BY <1>1 DEF Ladder!ExchState
<1>3. CASE Ladder!StopHit \/ Ladder!TargetHit
  <2>1. /\ exch' \in Ladder!ExchState
        /\ UNCHANGED <<world, crashes, opened, rows, mem, pass, op>>
    BY <1>1, <1>2, <1>3, ReducedIs DEF Ladder!StopHit, Ladder!TargetHit
  <2>2. Ladder!TypeOK'
    BY <1>1, <2>1, TypesStay
  <2> QED
    BY <2>1, <2>2 DEF LadderInv, AtWork
<1>4. CASE Ladder!Crash
  <2>1. /\ crashes' = crashes + 1 /\ crashes < MaxCrashes /\ MaxCrashes \in Nat
        /\ mem' = [r \in Ladder!Rows |-> Ladder!Nothing] /\ op' = Ladder!NoOp
        /\ pass' = [Ladder!NoPass EXCEPT !.at = "down"]
        /\ UNCHANGED <<world, opened, exch, rows>>
    BY <1>1, <1>4, Numbers DEF Ladder!Crash
  <2>2. Ladder!Nothing \in Ladder!PosState /\ Whole(Ladder!Nothing)
    <3>1. opened > 0 /\ 1 \in 1 .. opened /\ TRUE \in BOOLEAN
      BY <1>1, Numbers
    <3> QED
      BY <1>1, <3>1, PositionIs
  <2>3. /\ mem' \in [Ladder!Rows -> Ladder!PosState] /\ (\A r \in Ladder!Rows : Whole(mem'[r]))
        /\ crashes' \in 0 .. MaxCrashes
    BY <1>1, <2>1, <2>2
  <2>4. /\ op' \in Ladder!OpState /\ op'.at = "none" /\ pass' \in Ladder!PassState
    BY <1>1, <2>1, NoneIs
  <2>5. Ladder!TypeOK'
    BY <1>1, <2>1, <2>3, <2>4, TypesStay
  <2> QED
    BY <2>3, <2>4, <2>5 DEF LadderInv, AtWork
<1>5. CASE Ladder!Restart
  <2>1. /\ pass.at = "down" /\ pass' = Ladder!NoPass
        /\ UNCHANGED <<world, crashes, opened, exch, op>>
    BY <1>5 DEF Ladder!Restart
  <2>2. op.at = "none"
    BY <2>1 DEF LadderInv, AtWork
  <2>3. mem' \in [Ladder!Rows -> Ladder!PosState] /\ \A r \in Ladder!Rows : Whole(mem'[r])
    <3>1. Ladder!OpenRows \in SUBSET DOMAIN rows
      BY DEF Ladder!OpenRows
    <3> QED
      BY <1>1, <1>5, <3>1, AdoptedIs DEF Ladder!Restart
  <2>4. rows' \in Seq(Ladder!Row) /\ Len(rows') \in Ladder!Rows
    <3> DEFINE Ended(r) == IF rows[r].open
                           THEN [[rows[r] EXCEPT !.open = FALSE] EXCEPT !.booked = rows[r].size]
                           ELSE rows[r]
    <3>1. rows' = rows \/ rows' = [r \in DOMAIN rows |-> Ended(r)]
      BY <1>5 DEF Ladder!Restart
    <3>2. \A r \in DOMAIN rows : Ended(r) \in Ladder!Row
      <4> TAKE r \in DOMAIN rows
      <4> DEFINE row == rows[r]
                 ended == [[row EXCEPT !.open = FALSE] EXCEPT !.booked = row.size]
      <4>1. row \in Ladder!Row /\ opened \in Nat
        BY <1>1, Numbers
      <4> HIDE DEF row
      <4>2. row.size \in 0 .. opened
        BY <4>1 DEF Ladder!Row
      <4>3. ended \in Ladder!Row
        BY <4>1, <4>2 DEF Ladder!Row
      <4>4. Ended(r) = IF row.open THEN ended ELSE row
        BY DEF row
      <4> HIDE DEF ended, Ended
      <4> QED
        BY <4>1, <4>3, <4>4
    <3> HIDE DEF Ended
    <3>3. DOMAIN rows = 1 .. Len(rows) /\ Len(rows) \in Nat
      BY <1>1, Numbers
    <3>4. CASE rows' = [r \in DOMAIN rows |-> Ended(r)]
      <4>1. rows' \in [1 .. Len(rows) -> Ladder!Row]
        BY <3>2, <3>3, <3>4
      <4> QED
        BY <1>1, <3>3, <4>1, LenProperties
    <3> QED
      BY <1>1, <3>1, <3>4
  <2>5. Ladder!TypeOK'
    BY <1>1, <2>1, <2>3, <2>4, NoneIs, TypesStay
  <2> QED
    BY <2>1, <2>2, <2>3, <2>5 DEF LadderInv, AtWork
<1> QED
  BY <1>3, <1>4, <1>5

LEMMA NextIInv ==
    Ladder!PositionLadderAssumption /\ LadderInv /\ [Ladder!Next]_(Ladder!vars) => LadderInv'
<1> SUFFICES ASSUME Ladder!PositionLadderAssumption, LadderInv, [Ladder!Next]_(Ladder!vars)
             PROVE  LadderInv'
  OBVIOUS
<1>1. CASE UNCHANGED Ladder!vars
  BY <1>1 DEF Ladder!vars, LadderInv, Ladder!TypeOK, Ladder!ExchState, Ladder!PosState,
              Ladder!PassState, Ladder!OpState, Ladder!Row, AtWork
<1>2. CASE Ladder!Next
  BY <1>2, PassIInv, MilestoneIInv, WorldIInv DEF Ladder!Next, Ladder!Scanning
<1> QED
  BY <1>1, <1>2

\* Of every size: no part is more than what is left, and no row stands for more than the
\* order (positions, plan orders and rows of _executePartialClose and _closePosition).
THEOREM LadderTypeCorrect == Ladder!PositionLadderAssumption => (Ladder!Spec => []Ladder!TypeOK)
<1> SUFFICES ASSUME Ladder!PositionLadderAssumption PROVE Ladder!Spec => []Ladder!TypeOK
  OBVIOUS
<1>1. Ladder!Init => LadderInv
  BY InitIInv
<1>2. LadderInv /\ [Ladder!Next]_(Ladder!vars) => LadderInv'
  BY NextIInv
<1>3. LadderInv => Ladder!TypeOK
  BY DEF LadderInv
<1> QED
  BY <1>1, <1>2, <1>3, PTL DEF Ladder!Spec
----------------------------------------------------------------------------
(* The position of the order, as long as the process lives and the trades table answers:  *)
(* one position, one row, and parts that are closed as soon as they are stored.           *)

Calm == world \cap {"crash", "db_fails"} = {}

OrderOnly ==
    /\ pass.at # "down"
    /\ \A r \in Ladder!Rows \ {1} : mem[r] = Ladder!Nothing
    /\ \A r \in Ladder!OpenRows : r = 1 \/ (op.at = "closeRow" /\ r = Len(rows))
    /\ op.at # "none" => op.row = 1
    /\ pass.at = "book" => exch.size = 0
    /\ exch.size > 0 => mem[1].held

\* The level of the stop loss is that of a milestone the position is past.
Climbed ==
    /\ exch.size > 0 /\ exch.sl = 10 => mem[1].m[2]
    /\ mem[1].m[2] => mem[1].m[1]
    /\ op.at # "none" => (mem[1].m[2] <=> op.k = 2)

\* A part the exchange has closed and the position still counts.
Taken == IF op.at \in {"cancel", "place", "record"} THEN op.part ELSE 0

Covered ==
    exch.size > 0 => /\ exch.size + Taken <= mem[1].remaining
                     /\ mem[1].manual \/ op.at = "place" \/ exch.slSize >= exch.size

Steady == "sl_fails" \notin world => Covered

ClimbInv == LadderInv /\ (Calm => OrderOnly /\ Climbed /\ Steady)

LEMMA FillIs ==
    ASSUME Ladder!PositionLadderAssumption, Ladder!TypeOK, NEW size \in Nat, NEW filled,
           filled \in {Ladder!Reduced(size), [Ladder!Reduced(size) EXCEPT !.tpSize = 0]}
    PROVE  /\ filled.sl = exch.sl /\ filled.size <= exch.size /\ filled.size \in Nat
           /\ filled.size > 0 => filled.slSize = exch.slSize /\ filled.size = exch.size - size
<1>1. exch \in Ladder!ExchState /\ opened \in Nat /\ exch.size \in Nat
  BY Numbers DEF Ladder!TypeOK, Ladder!ExchState
<1>2. /\ Ladder!Reduced(size) \in Ladder!ExchState
      /\ Ladder!Reduced(size).sl = exch.sl
      /\ \/ exch.size <= size /\ Ladder!Reduced(size).size = 0 /\ Ladder!Reduced(size).slSize = 0
         \/ /\ size < exch.size /\ Ladder!Reduced(size).size = exch.size - size
            /\ Ladder!Reduced(size).slSize = exch.slSize
  BY <1>1, ReducedIs
<1> DEFINE red == Ladder!Reduced(size)
<1> HIDE DEF red
<1>3. red \in Ladder!ExchState /\ filled \in {red, [red EXCEPT !.tpSize = 0]}
  BY <1>2 DEF red
<1>4. filled.sl = red.sl /\ filled.size = red.size /\ filled.slSize = red.slSize
  BY <1>3 DEF Ladder!ExchState
<1> QED
  BY <1>1, <1>2, <1>4 DEF red

LEMMA StopFillIs ==
    ASSUME Ladder!PositionLadderAssumption, Ladder!TypeOK, Ladder!StopHit
    PROVE  /\ exch'.sl = exch.sl /\ exch'.size <= exch.size /\ exch'.size \in Nat
           /\ exch'.size > 0 => exch.slSize < exch.size
<1>1. exch \in Ladder!ExchState /\ opened \in Nat /\ exch.size \in Nat /\ exch.slSize \in Nat
      /\ exch.slSize > 0
  BY Numbers DEF Ladder!TypeOK, Ladder!ExchState, Ladder!StopHit
<1> DEFINE red == Ladder!Reduced(exch.slSize)
<1>2. /\ red \in Ladder!ExchState /\ red.sl = exch.sl
      /\ \/ exch.size <= exch.slSize /\ red.size = 0
         \/ exch.slSize < exch.size /\ red.size = exch.size - exch.slSize
  BY <1>1, ReducedIs
<1>3. exch' = [red EXCEPT !.slSize = 0]
  BY DEF Ladder!StopHit
<1> HIDE DEF red
<1>4. exch'.sl = red.sl /\ exch'.size = red.size
  BY <1>2, <1>3 DEF Ladder!ExchState
<1> QED
  BY <1>1, <1>2, <1>4

LEMMA LInit == Ladder!PositionLadderAssumption /\ Ladder!Init => ClimbInv
<1> SUFFICES ASSUME Ladder!PositionLadderAssumption, Ladder!Init PROVE ClimbInv
  OBVIOUS
<1>1. LadderInv /\ Ladder!TypeOK
  BY InitIInv DEF LadderInv
<1>2. opened \in Nat /\ opened > 0 /\ opened \in 1 .. opened /\ 1 \in Ladder!Rows
  BY <1>1, Numbers
<1>3. PICK sl \in BOOLEAN, tp \in BOOLEAN :
          /\ exch = [size |-> opened, sl |-> Ladder!Entry, slSize |-> IF sl THEN opened ELSE 0,
                     tpSize |-> IF tp THEN opened ELSE 0]
          /\ mem = [r \in Ladder!Rows |-> IF r = 1 THEN Ladder!Position(opened, ~sl \/ ~tp)
                                           ELSE Ladder!Nothing]
  BY DEF Ladder!Init, Ladder!Entered
<1> DEFINE watched == ~sl \/ ~tp
           p == Ladder!Position(opened, watched)
<1>4. watched \in BOOLEAN /\ (~sl => watched) /\ p = Ladder!Position(opened, watched)
      /\ mem = [r \in Ladder!Rows |-> IF r = 1 THEN p ELSE Ladder!Nothing]
  BY <1>3
<1> HIDE DEF watched, p
<1>5. p.held /\ p.manual = watched /\ p.remaining = opened /\ ~p.m[1]
  BY <1>2, <1>4, PositionIs
<1>6. ~p.m[2]
  <2> DEFINE none == [k \in 1 .. 2 |-> FALSE]
             n == [held |-> FALSE, size |-> 0, remaining |-> 0, sl |-> Ladder!Entry, m |-> none,
                   manual |-> FALSE]
  <2>1. ~none[2]
    OBVIOUS
  <2>2. p = [n EXCEPT !.held = TRUE, !.size = opened, !.remaining = opened, !.manual = watched]
    BY <1>4 DEF Ladder!Position, Ladder!Nothing
  <2> HIDE DEF none
  <2> QED
    BY <2>1, <2>2
<1>7. mem[1] = p /\ \A r \in Ladder!Rows \ {1} : mem[r] = Ladder!Nothing
  BY <1>2, <1>4
<1>8. /\ exch.size = opened /\ exch.sl = Ladder!Entry /\ (sl => exch.slSize = opened)
      /\ pass.at = "idle" /\ op.at = "none"
      /\ rows = <<[open |-> TRUE, size |-> opened, booked |-> 0]>>
  BY <1>3 DEF Ladder!Init, Ladder!Entered, Ladder!NoPass, Ladder!NoOp
<1>9. \A r \in Ladder!OpenRows : r = 1
  BY <1>8 DEF Ladder!OpenRows
<1>10. OrderOnly
  BY <1>5, <1>7, <1>8, <1>9 DEF OrderOnly
<1>11. Climbed
  BY <1>5, <1>6, <1>7, <1>8 DEF Climbed, Ladder!Entry
<1>12. Covered
  <2>1. Taken = 0 /\ exch.size + Taken <= mem[1].remaining
    BY <1>2, <1>5, <1>7, <1>8 DEF Taken
  <2>2. sl => exch.slSize >= exch.size
    BY <1>2, <1>8
  <2>3. ~sl => mem[1].manual
    BY <1>4, <1>5, <1>7, Zenon
  <2> QED
    BY <2>1, <2>2, <2>3 DEF Covered
<1> QED
  BY <1>1, <1>10, <1>11, <1>12 DEF ClimbInv, Steady

LEMMA NothingIs == ~Ladder!Nothing.held /\ ~Ladder!Nothing.m[1] /\ ~Ladder!Nothing.m[2]
                   /\ Ladder!Nothing.remaining = 0
<1> DEFINE none == [k \in 1 .. 2 |-> FALSE]
<1>1. ~none[1] /\ ~none[2]
  OBVIOUS
<1>2. Ladder!Nothing = [held |-> FALSE, size |-> 0, remaining |-> 0, sl |-> Ladder!Entry,
                        m |-> none, manual |-> FALSE]
  BY DEF Ladder!Nothing
<1> HIDE DEF none
<1> QED
  BY <1>1, <1>2

\* A step of the exchange, or of a pass that leaves the position as it is.
LEMMA Kept ==
    ASSUME Ladder!PositionLadderAssumption, Ladder!TypeOK, OrderOnly, Climbed, Steady,
           world' = world, mem' = mem, rows' = rows, op' = op, pass'.at # "down",
           exch'.sl = exch.sl, exch'.size \in Nat, exch'.size <= exch.size,
           pass'.at = "book" => exch'.size = 0,
           "sl_fails" \notin world /\ exch'.size > 0 =>
               mem[1].manual \/ op.at = "place" \/ exch'.slSize = exch.slSize
    PROVE  OrderOnly' /\ Climbed' /\ Steady'
<1>1. exch.size \in Nat /\ exch.slSize \in Nat /\ (exch'.size > 0 => exch.size > 0)
      /\ opened \in Nat /\ 1 \in Ladder!Rows
  BY Numbers DEF Ladder!TypeOK, Ladder!ExchState
<1>2. OrderOnly'
  BY <1>1 DEF OrderOnly, Ladder!OpenRows
<1>3. Climbed'
  BY <1>1 DEF Climbed
<1>4. Steady'
  <2> SUFFICES ASSUME "sl_fails" \notin world, exch'.size > 0
               PROVE  /\ exch'.size + Taken <= mem[1].remaining
                      /\ mem[1].manual \/ op.at = "place" \/ exch'.slSize >= exch'.size
    BY DEF Steady, Covered, Taken
  <2>1. /\ exch.size + Taken <= mem[1].remaining
        /\ mem[1].manual \/ op.at = "place" \/ exch.slSize >= exch.size
    BY <1>1 DEF Steady, Covered
  <2>2. Taken \in Nat /\ mem[1].remaining \in Nat
    BY <1>1 DEF Taken, Ladder!TypeOK, Ladder!OpState, Ladder!PosState
  <2>3. exch'.size + Taken <= mem[1].remaining
    BY <1>1, <2>1, <2>2
  <2>4. CASE mem[1].manual \/ op.at = "place"
    BY <2>3, <2>4
  <2>5. CASE ~mem[1].manual /\ op.at # "place"
    BY <1>1, <2>1, <2>3, <2>5
  <2> QED
    BY <2>4, <2>5
<1> QED
  BY <1>2, <1>3, <1>4

\* A position the exchange has closed is booked and dropped.
LEMMA Dropped ==
    ASSUME Ladder!PositionLadderAssumption, LadderInv, OrderOnly, Climbed,
           NEW r \in Ladder!Rows, NEW size \in 0 .. opened, Ladder!Closed(r, size), Ladder!Drop(r),
           op.at = "none", op' = op, exch' = exch, exch.size = 0, pass'.at # "down"
    PROVE  OrderOnly' /\ Climbed' /\ Steady'
<1>1. /\ Ladder!TypeOK /\ 1 \in Ladder!Rows /\ rows \in Seq(Ladder!Row) /\ Len(rows) \in Nat
      /\ DOMAIN rows = 1 .. Len(rows) /\ mem \in [Ladder!Rows -> Ladder!PosState]
  BY Numbers DEF LadderInv, Ladder!TypeOK
<1>2. /\ rows' \in Seq(Ladder!Row) /\ Len(rows') = Len(rows)
      /\ r \in DOMAIN rows => ~rows'[r].open
      /\ \A q \in DOMAIN rows \ {r} : rows'[q] = rows[q]
  BY <1>1, ClosedIs
<1>3. DOMAIN rows' = DOMAIN rows
  BY <1>1, <1>2
<1>4. \A q \in Ladder!OpenRows' : q = 1
  BY <1>2, <1>3 DEF Ladder!OpenRows, OrderOnly
<1>5. \A q \in Ladder!Rows : mem'[q] = IF q = r THEN Ladder!Nothing ELSE mem[q]
  BY <1>1 DEF Ladder!Drop
<1>6. OrderOnly'
  BY <1>1, <1>4, <1>5 DEF OrderOnly
<1>7. Climbed'
  BY <1>1, <1>5, NothingIs DEF Climbed
<1> QED
  BY <1>6, <1>7 DEF Steady, Covered

\* What a pass does between the milestones, and the exchange.
LEMMA PassLadder ==
    ASSUME Ladder!PositionLadderAssumption, LadderInv, Calm, OrderOnly, Climbed, Steady,
           \/ Ladder!Ticks \/ Ladder!PassEnds \/ (\E r \in Ladder!Rows : Ladder!Book(r))
           \/ Ladder!Quiet \/ Ladder!MonitorCloses
           \/ Ladder!MonitorFinds \/ Ladder!StopHit \/ Ladder!TargetHit
    PROVE  OrderOnly' /\ Climbed' /\ Steady' /\ exch'.sl = exch.sl
<1>1. /\ Ladder!TypeOK /\ opened \in Nat /\ exch.size \in Nat /\ exch.slSize \in Nat
      /\ 1 \in Ladder!Rows
      /\ exch.tpSize \in Nat /\ mem \in [Ladder!Rows -> Ladder!PosState]
      /\ pass \in Ladder!PassState
      /\ DOMAIN rows \subseteq Ladder!Rows
  BY Numbers DEF LadderInv, Ladder!TypeOK, Ladder!ExchState
<1>2. CASE Ladder!Ticks
  <2>1. PICK price \in Ladder!Prices, reconcile \in BOOLEAN : Ladder!PassBegin(price, reconcile)
    BY <1>2 DEF Ladder!Ticks
  <2> DEFINE found == IF reconcile /\ exch.size > 0 THEN Ladder!OpenRows \ Ladder!HeldRows ELSE {}
             at == IF exch.size = 0 THEN "book" ELSE "scan"
  <2>2. /\ pass.at = "idle" /\ mem' = Ladder!Adopted(found) /\ pass'.at = at
        /\ UNCHANGED <<world, crashes, opened, exch, rows, op>>
    BY <2>1 DEF Ladder!PassBegin
  <2>3. op.at = "none"
    BY <2>2 DEF LadderInv, AtWork
  <2>4. found = {}
    BY <1>1, <2>3 DEF OrderOnly, Ladder!OpenRows, Ladder!HeldRows
  <2> HIDE DEF found
  <2>5. mem' = mem
    BY <1>1, <2>2, <2>4 DEF Ladder!Adopted
  <2> QED
    BY <1>1, <2>2, <2>5, Kept
<1>3. CASE Ladder!PassEnds \/ Ladder!Quiet
  <2>1. /\ UNCHANGED <<world, crashes, opened, exch, rows, mem, op>>
        /\ pass'.at \in {"idle", "scan"}
    BY <1>1, <1>3, NoneIs, NextPositionIs DEF Ladder!PassEnds, Ladder!Quiet
  <2> QED
    BY <1>1, <2>1, Kept
<1>4. CASE \E r \in Ladder!Rows : Ladder!Book(r)
  <2>1. PICK r \in Ladder!Rows : Ladder!Book(r)
    BY <1>4
  <2>2. /\ Ladder!Closed(r, Ladder!Outstanding(mem[r])) /\ Ladder!Drop(r) /\ op' = op
        /\ exch' = exch
        /\ exch.size = 0 /\ op.at = "none" /\ pass'.at = "book"
    BY <1>1, <2>1 DEF Ladder!Book, OrderOnly, LadderInv, AtWork, Ladder!PassState
  <2>3. Ladder!Outstanding(mem[r]) \in 0 .. opened
    BY <1>1, <2>1, OutstandingIs
  <2> QED
    BY <1>1, <2>1, <2>2, <2>3, Dropped
<1>5. CASE Ladder!MonitorFinds
  <2>1. /\ Ladder!Closed(Ladder!Scanned, mem[Ladder!Scanned].size)
        /\ Ladder!Drop(Ladder!Scanned) /\ op' = op /\ exch' = exch
        /\ exch.size = 0 /\ op.at = "none" /\ pass'.at = "scan"
    BY <1>1, <1>5, NextPositionIs DEF Ladder!MonitorFinds
  <2>2. Ladder!Scanned \in Ladder!Rows /\ mem[Ladder!Scanned].size \in 0 .. opened
    BY <1>1, <1>5, ScannedIs DEF Ladder!MonitorFinds, Ladder!PosState
  <2> QED
    BY <1>1, <2>1, <2>2, Dropped
<1>6. CASE Ladder!MonitorCloses
  <2>1. /\ Ladder!Scanned \in Ladder!Rows /\ mem[Ladder!Scanned].manual
        /\ UNCHANGED <<world, crashes, opened, rows, mem, op>>
        /\ exch' = Ladder!Reduced(mem[Ladder!Scanned].size) \/ exch' = exch
        /\ pass'.at = "scan"
    BY <1>1, <1>6, ScannedIs, NextPositionIs DEF Ladder!MonitorCloses, Ladder!Watched
  <2>2. mem[Ladder!Scanned].size \in Nat
    BY <1>1, <2>1 DEF Ladder!PosState
  <2>3. /\ exch'.sl = exch.sl /\ exch'.size \in Nat /\ exch'.size <= exch.size
        /\ exch'.size > 0 => exch'.slSize = exch.slSize
    BY <1>1, <2>1, <2>2, FillIs
  <2> QED
    BY <1>1, <2>1, <2>3, Kept
<1>7. CASE Ladder!StopHit
  <2>1. /\ exch'.sl = exch.sl /\ exch'.size <= exch.size /\ exch'.size \in Nat
        /\ exch'.size > 0 => exch.slSize < exch.size
    BY <1>1, <1>7, StopFillIs
  <2>2. exch.slSize > 0 /\ UNCHANGED <<world, crashes, opened, rows, mem, pass, op>>
    BY <1>7 DEF Ladder!StopHit
  <2>3. pass'.at # "down" /\ (pass'.at = "book" => exch'.size = 0)
    BY <1>1, <2>1, <2>2 DEF OrderOnly
  <2>4. "sl_fails" \notin world /\ exch'.size > 0 => mem[1].manual \/ op.at = "place"
    BY <1>1, <2>1 DEF Steady, Covered
  <2> QED
    BY <1>1, <2>1, <2>2, <2>3, <2>4, Kept
<1>8. CASE Ladder!TargetHit
  <2>1. exch' = [Ladder!Reduced(exch.tpSize) EXCEPT !.tpSize = 0]
        /\ UNCHANGED <<world, crashes, opened, rows, mem, pass, op>>
    BY <1>8 DEF Ladder!TargetHit
  <2>2. /\ exch'.sl = exch.sl /\ exch'.size \in Nat /\ exch'.size <= exch.size
        /\ exch'.size > 0 => exch'.slSize = exch.slSize
    BY <1>1, <2>1, FillIs
  <2>3. pass'.at # "down" /\ (pass'.at = "book" => exch'.size = 0)
    BY <1>1, <2>1, <2>2 DEF OrderOnly
  <2> QED
    BY <1>1, <2>1, <2>2, <2>3, Kept
<1> QED
  BY <1>2, <1>3, <1>4, <1>5, <1>6, <1>7, <1>8

\* A milestone, await by await.
LEMMA ReachLadder ==
    ASSUME Ladder!PositionLadderAssumption, LadderInv, Calm, OrderOnly, Climbed, Steady,
           NEW k \in 1 .. 2, Ladder!Reach(k)
    PROVE  OrderOnly' /\ Climbed' /\ Steady'
<1>1. /\ Ladder!TypeOK /\ opened \in Nat /\ 1 \in Ladder!Rows /\ MinLot \in Nat /\ exch.size \in Nat
      /\ mem \in [Ladder!Rows -> Ladder!PosState] /\ \A r \in Ladder!Rows : Whole(mem[r])
  BY Numbers DEF LadderInv, Ladder!TypeOK, Ladder!ExchState
<1>2. /\ Ladder!Scanned \in Ladder!Rows /\ Ladder!Due(Ladder!Scanned, k) /\ op.at = "none"
      /\ k = 2 => ~Ladder!Due(Ladder!Scanned, 1)
  BY <1>1, ScannedIs DEF Ladder!Reach
<1>3. Ladder!Scanned = 1
  <2>1. mem[Ladder!Scanned].remaining > 0
    BY <1>2 DEF Ladder!Due
  <2>2. mem[Ladder!Scanned] # Ladder!Nothing
    <3>1. ~(Ladder!Nothing.remaining > 0)
      BY NothingIs
    <3> QED
      BY <2>1, <3>1
  <2> QED
    BY <1>2, <2>2 DEF OrderOnly
<1> DEFINE p == mem[1]
           after == [p.m EXCEPT ![k] = TRUE]
           q == [p EXCEPT !.m = after]
           part == IF Ladder!Part(p, k) >= MinLot THEN Ladder!Part(p, k) ELSE 0
<1>4. p \in Ladder!PosState /\ Whole(p) /\ ~p.m[k] /\ (k = 2 => p.m[1])
  BY <1>1, <1>2, <1>3 DEF Ladder!Due
<1>5. /\ mem' = [mem EXCEPT ![1].m[k] = TRUE] /\ op'.row = 1 /\ op'.k = k
      /\ op'.at \in {"close", "cancel"} /\ op'.part = part
      /\ op'.at = "cancel" => op'.part = 0
      /\ UNCHANGED <<world, crashes, opened, exch, rows, pass>>
  BY <1>3 DEF Ladder!Reach
<1>6. mem' = [mem EXCEPT ![1] = q]
  BY <1>1, <1>5
<1>7. Ladder!Part(p, k) \in 0 .. opened /\ Ladder!Part(p, k) <= p.remaining
  <2>1. k = 1 => ~p.m[1]
    BY <1>4
  <2> HIDE DEF p
  <2> QED
    BY <1>1, <1>4, <2>1, PartIs
<1>8. part \in Nat /\ part <= p.remaining
  <2> DEFINE x == Ladder!Part(p, k)
  <2>1. x \in Nat /\ x <= p.remaining /\ p.remaining \in Nat
    BY <1>1, <1>4, <1>7 DEF Ladder!PosState
  <2> HIDE DEF x
  <2>2. part = IF x >= MinLot THEN x ELSE 0
    BY DEF x
  <2> HIDE DEF part, p
  <2> QED
    BY <1>1, <2>1, <2>2
<1>9. after[1] /\ (after[2] <=> k = 2)
  <2>1. p.m \in [1 .. 2 -> BOOLEAN] /\ (p.m[2] => p.m[1])
    BY <1>4 DEF Ladder!PosState, Climbed
  <2>2. CASE k = 1
    BY <1>4, <2>1, <2>2
  <2>3. CASE k = 2
    BY <1>4, <2>1, <2>3
  <2> QED
    BY <2>2, <2>3
<1> HIDE DEF after, part
<1>10. q.m = after /\ q.held = p.held /\ q.remaining = p.remaining /\ q.manual = p.manual
  BY <1>4 DEF Ladder!PosState
<1> HIDE DEF q
<1>11. mem'[1] = q /\ \A r \in Ladder!Rows \ {1} : mem'[r] = mem[r]
  BY <1>1, <1>6
<1>12. OrderOnly'
  BY <1>2, <1>5, <1>10, <1>11 DEF OrderOnly, Ladder!OpenRows
<1>13. Climbed'
  <2>1. exch.size > 0 /\ exch.sl = 10 => k = 2
    <3>1. exch.size > 0 /\ exch.sl = 10 => p.m[2] /\ p.m[1]
      BY DEF Climbed
    <3> QED
      BY <1>4, <3>1
  <2> QED
    BY <1>5, <1>9, <1>10, <1>11, <2>1 DEF Climbed
<1>14. Steady'
  <2> SUFFICES ASSUME "sl_fails" \notin world, exch.size > 0
               PROVE  /\ exch.size + Taken' <= q.remaining
                      /\ q.manual \/ op'.at = "place" \/ exch.slSize >= exch.size
    BY <1>5, <1>11 DEF Steady, Covered
  <2>1. exch.size + Taken <= p.remaining /\ (p.manual \/ exch.slSize >= exch.size)
    BY <1>2 DEF Steady, Covered
  <2>2. p.remaining \in Nat
    BY <1>4 DEF Ladder!PosState
  <2>3. exch.size <= p.remaining
    BY <1>1, <1>2, <2>1 DEF Taken
  <2>4. Taken' = 0
    BY <1>5 DEF Taken
  <2>5. q.manual \/ op'.at = "place" \/ exch.slSize >= exch.size
    BY <1>10, <2>1
  <2> QED
    BY <1>1, <1>10, <2>2, <2>3, <2>4, <2>5
<1> QED
  BY <1>12, <1>13, <1>14

LEMMA MilestoneLadder ==
    ASSUME Ladder!PositionLadderAssumption, LadderInv, Calm, OrderOnly, Climbed, Steady,
           Ladder!Milestone
    PROVE  OrderOnly' /\ Climbed' /\ Steady' /\ exch'.sl >= exch.sl
<1>1. /\ Ladder!TypeOK /\ opened \in Nat /\ 1 \in Ladder!Rows /\ exch \in Ladder!ExchState
      /\ exch.size \in Nat /\ exch.slSize \in Nat /\ exch.sl \in {-10, 3, 10}
      /\ mem \in [Ladder!Rows -> Ladder!PosState] /\ op \in Ladder!OpState /\ op.part \in Nat
      /\ op.k \in 1 .. 2
      /\ mem[1] \in Ladder!PosState /\ mem[1].remaining \in Nat
      /\ rows \in Seq(Ladder!Row) /\ Len(rows) \in Nat /\ DOMAIN rows = 1 .. Len(rows)
  <2>1. /\ Ladder!TypeOK /\ opened \in Nat /\ 1 \in Ladder!Rows /\ rows \in Seq(Ladder!Row)
        /\ Len(rows) \in Nat /\ DOMAIN rows = 1 .. Len(rows)
    BY Numbers DEF LadderInv
  <2>2. exch \in Ladder!ExchState /\ mem \in [Ladder!Rows -> Ladder!PosState]
        /\ op \in Ladder!OpState /\ mem[1] \in Ladder!PosState
    BY <2>1 DEF Ladder!TypeOK
  <2>3. exch.size \in Nat /\ exch.slSize \in Nat /\ exch.sl \in {-10, 3, 10}
    BY <2>1, <2>2 DEF Ladder!ExchState, Ladder!Entry
  <2>4. op.part \in Nat /\ op.k \in 1 .. 2 /\ mem[1].remaining \in Nat
    BY <2>1, <2>2 DEF Ladder!OpState, Ladder!PosState
  <2> QED
    BY <2>1, <2>2, <2>3, <2>4
<1>2. Ladder!NoOp.at = "none"
  BY DEF Ladder!NoOp
<1>3. CASE \E k \in 1 .. 2 : Ladder!Reach(k)
  <2>1. exch' = exch
    BY <1>3 DEF Ladder!Reach
  <2> QED
    BY <1>1, <1>3, <2>1, ReachLadder
<1>4. CASE Ladder!PartCloses
  <2>1. /\ op'.at = "cancel" /\ op'.row = op.row /\ op'.k = op.k /\ op'.part = op.part
        /\ op.at = "close" /\ exch' = Ladder!Reduced(op.part)
        /\ UNCHANGED <<world, crashes, opened, rows, mem, pass>>
    BY <1>1, <1>4, GotoIs DEF Ladder!PartCloses, Ats
  <2>2. /\ exch'.sl = exch.sl /\ exch'.size <= exch.size /\ exch'.size \in Nat
        /\ exch'.size > 0 => exch'.slSize = exch.slSize /\ exch'.size = exch.size - op.part
    BY <1>1, <2>1, FillIs
  <2>3. OrderOnly'
    BY <1>1, <2>1, <2>2 DEF OrderOnly, Ladder!OpenRows
  <2>4. Climbed'
    BY <1>1, <2>1, <2>2 DEF Climbed
  <2>5. Steady'
    <3> SUFFICES ASSUME "sl_fails" \notin world, exch'.size > 0
                 PROVE  /\ exch'.size + Taken' <= mem[1].remaining
                        /\ mem[1].manual \/ op'.at = "place" \/ exch'.slSize >= exch'.size
      BY <2>1 DEF Steady, Covered
    <3>1. /\ exch.size + Taken <= mem[1].remaining
          /\ mem[1].manual \/ exch.slSize >= exch.size
      BY <1>1, <2>1, <2>2 DEF Steady, Covered
    <3>2. Taken = 0 /\ Taken' = op.part
      BY <2>1 DEF Taken
    <3>3. exch'.size + Taken' <= mem[1].remaining
      BY <1>1, <2>2, <3>1, <3>2
    <3>4. CASE mem[1].manual
      BY <3>3, <3>4
    <3>5. CASE exch.slSize >= exch.size
      BY <1>1, <2>2, <3>3, <3>5
    <3> QED
      BY <3>1, <3>4, <3>5
  <2> QED
    BY <1>1, <2>2, <2>3, <2>4, <2>5
<1>5. CASE Ladder!PartFails
  <2>1. op' = Ladder!NoOp /\ op.at = "close"
        /\ UNCHANGED <<world, crashes, opened, exch, rows, mem, pass>>
    BY <1>5 DEF Ladder!PartFails
  <2>2. OrderOnly' /\ Climbed'
    BY <1>2, <2>1 DEF OrderOnly, Ladder!OpenRows, Climbed
  <2>3. Taken = 0 /\ Taken' = 0
    BY <1>2, <2>1 DEF Taken
  <2>4. Steady'
    BY <1>2, <2>1, <2>3 DEF Steady, Covered
  <2> QED
    BY <1>1, <2>1, <2>2, <2>4
<1>6. CASE Ladder!CancelsPlans
  <2>1. /\ op'.at = "place" /\ op'.row = op.row /\ op'.k = op.k /\ op'.part = op.part
        /\ op.at = "cancel" /\ exch' = [exch EXCEPT !.slSize = 0, !.tpSize = 0]
        /\ UNCHANGED <<world, crashes, opened, rows, mem, pass>>
    BY <1>1, <1>6, GotoIs DEF Ladder!CancelsPlans, Ats
  <2>2. exch'.size = exch.size /\ exch'.sl = exch.sl
    BY <1>1, <2>1, CancelledIs
  <2>3. OrderOnly' /\ Climbed'
    BY <2>1, <2>2 DEF OrderOnly, Ladder!OpenRows, Climbed
  <2>4. Taken' = Taken
    BY <2>1 DEF Taken
  <2>5. Steady'
    BY <2>1, <2>2, <2>4 DEF Steady, Covered
  <2> QED
    BY <1>1, <2>2, <2>3, <2>5
<1>7. CASE Ladder!PlacesPlans
  <2>1. /\ op.at = "place" /\ op.row = 1
        /\ UNCHANGED <<world, crashes, opened, rows, mem, pass>>
        /\ \/ op'.at = "record" /\ op'.row = op.row /\ op'.k = op.k /\ op'.part = op.part
           \/ op'.at = "none" /\ op.part = 0
    <3>1. op.at = "place" /\ UNCHANGED <<world, crashes, opened, rows, mem, pass>>
          /\ IF op.part > 0 THEN Ladder!Goto("record") ELSE op' = Ladder!NoOp
      BY <1>7 DEF Ladder!PlacesPlans
    <3>2. CASE op.part > 0
      BY <1>1, <3>1, <3>2, GotoIs DEF Ats, OrderOnly
    <3>3. CASE ~(op.part > 0)
      BY <1>1, <1>2, <3>1, <3>3 DEF OrderOnly
    <3> QED
      BY <3>2, <3>3
  <2>2. /\ exch'.size = exch.size
        /\ \/ exch.size > 0 /\ exch'.sl = Ladder!Lock(op.k) /\ exch'.slSize = mem[1].remaining
           \/ /\ exch.size = 0 \/ "sl_fails" \in world
              /\ exch'.sl = exch.sl /\ exch'.slSize = 0
    BY <1>1, <1>7, <2>1, PlacesIs
  <2>3. OrderOnly'
    BY <2>1, <2>2 DEF OrderOnly, Ladder!OpenRows
  <2>4. mem[1].m[2] <=> op.k = 2
    BY <2>1 DEF Climbed
  <2>5. Climbed'
    BY <1>1, <2>1, <2>2, <2>4 DEF Climbed, Ladder!Lock
  <2>6. exch'.sl >= exch.sl
    BY <1>1, <2>2, <2>4 DEF Climbed, Ladder!Lock
  <2>7. Steady'
    <3> SUFFICES ASSUME "sl_fails" \notin world, exch.size > 0
                 PROVE  /\ exch.size + Taken' <= mem[1].remaining
                        /\ exch'.slSize >= exch.size
      BY <2>1, <2>2 DEF Steady, Covered
    <3>1. exch.size + op.part <= mem[1].remaining /\ Taken' = op.part
      BY <1>1, <2>1 DEF Steady, Covered, Taken
    <3> QED
      BY <1>1, <2>2, <3>1
  <2> QED
    BY <2>3, <2>5, <2>6, <2>7
<1>8. CASE Ladder!Records
  <2> DEFINE row == [open |-> TRUE, size |-> op.part, booked |-> 0]
             left == mem[1].remaining - op.part
             q == [[mem[1] EXCEPT !.remaining = left] EXCEPT !.sl = Ladder!Lock(op.k)]
  <2>1. /\ op.at = "record" /\ op.row = 1 /\ rows' = Append(rows, row)
        /\ op'.at = "closeRow" /\ op'.row = op.row /\ op'.k = op.k /\ op'.part = op.part
        /\ UNCHANGED <<world, crashes, opened, exch, pass>>
    BY <1>1, <1>8, GotoIs DEF Ladder!Records, Ats, Calm, OrderOnly
  <2>2. mem' = [mem EXCEPT ![1] = q]
    BY <1>1, <1>8, <2>1 DEF Ladder!Records
  <2> HIDE DEF row, left
  <2>3. q.remaining = left /\ q.m = mem[1].m /\ q.held = mem[1].held /\ q.manual = mem[1].manual
    BY <1>1 DEF Ladder!PosState
  <2> HIDE DEF q
  <2>4. mem'[1] = q /\ \A r \in Ladder!Rows \ {1} : mem'[r] = mem[r]
    BY <1>1, <2>2
  <2>5. /\ Len(rows') = Len(rows) + 1 /\ DOMAIN rows' = 1 .. Len(rows) + 1
        /\ \A r \in 1 .. Len(rows) : rows'[r] = rows[r]
    BY <1>1, <2>1
  <2>6. \A r \in Ladder!OpenRows' : r = 1 \/ r = Len(rows')
    <3> TAKE r \in Ladder!OpenRows'
    <3>1. r \in 1 .. Len(rows) + 1 /\ rows'[r].open
      BY <2>5 DEF Ladder!OpenRows
    <3>2. r # Len(rows') => r \in 1 .. Len(rows)
      BY <1>1, <2>5, <3>1
    <3>3. r # Len(rows') => r \in Ladder!OpenRows
      BY <1>1, <2>5, <3>1, <3>2 DEF Ladder!OpenRows
    <3> QED
      BY <2>1, <3>3 DEF OrderOnly
  <2>7. OrderOnly'
    BY <2>1, <2>3, <2>4, <2>6 DEF OrderOnly
  <2>8. Climbed'
    BY <2>1, <2>3, <2>4 DEF Climbed
  <2>9. Steady'
    <3> SUFFICES ASSUME "sl_fails" \notin world, exch.size > 0
                 PROVE  /\ exch.size + Taken' <= left
                        /\ mem[1].manual \/ exch.slSize >= exch.size
      BY <2>1, <2>3, <2>4 DEF Steady, Covered
    <3>1. /\ exch.size + op.part <= mem[1].remaining
          /\ mem[1].manual \/ exch.slSize >= exch.size
      BY <2>1 DEF Steady, Covered, Taken
    <3>2. Taken' = 0
      BY <2>1 DEF Taken
    <3> QED
      BY <1>1, <3>1, <3>2 DEF left
  <2> QED
    BY <1>1, <2>1, <2>7, <2>8, <2>9
<1>9. CASE Ladder!ClosesRow
  <2>1. /\ op.at = "closeRow" /\ op' = Ladder!NoOp /\ Ladder!Closed(Len(rows), op.part)
        /\ UNCHANGED <<world, crashes, opened, exch, mem, pass>>
    BY <1>9 DEF Ladder!ClosesRow, Calm
  <2>2. op.part \in 0 .. opened
    BY <1>1 DEF Ladder!OpState
  <2>3. /\ Len(rows') = Len(rows) /\ rows' \in Seq(Ladder!Row)
        /\ Len(rows) \in DOMAIN rows => ~rows'[Len(rows)].open
        /\ \A q \in DOMAIN rows \ {Len(rows)} : rows'[q] = rows[q]
    BY <1>1, <2>1, <2>2, ClosedIs
  <2>4. DOMAIN rows' = DOMAIN rows
    BY <1>1, <2>3
  <2>5. \A r \in Ladder!OpenRows' : r = 1
    BY <2>3, <2>4 DEF Ladder!OpenRows, OrderOnly
  <2>6. OrderOnly' /\ Climbed'
    BY <1>2, <2>1, <2>5 DEF OrderOnly, Climbed
  <2>7. Taken' = 0 /\ Taken = 0
    BY <1>2, <2>1 DEF Taken
  <2>8. Steady'
    BY <2>1, <2>7 DEF Steady, Covered
  <2> QED
    BY <1>1, <2>1, <2>6, <2>8
<1> QED
  BY <1>3, <1>4, <1>5, <1>6, <1>7, <1>8, <1>9 DEF Ladder!Milestone

LEMMA NextLInv ==
    Ladder!PositionLadderAssumption /\ ClimbInv /\ [Ladder!Next]_(Ladder!vars) =>
        /\ ClimbInv'
        /\ Calm => exch'.sl >= exch.sl
<1> SUFFICES ASSUME Ladder!PositionLadderAssumption, ClimbInv, [Ladder!Next]_(Ladder!vars)
             PROVE  ClimbInv' /\ (Calm => exch'.sl >= exch.sl)
  OBVIOUS
<1>1. LadderInv /\ LadderInv' /\ Ladder!TypeOK
  BY NextIInv DEF ClimbInv, LadderInv
<1>2. exch.sl \in {-10, 3, 10}
  BY <1>1 DEF Ladder!TypeOK, Ladder!ExchState, Ladder!Entry
<1>3. world' = world
  BY DEF Ladder!Next, Ladder!vars, Ladder!Ticks, Ladder!PassBegin, Ladder!Scanning,
         Ladder!Milestone, Ladder!Reach, Ladder!PartCloses, Ladder!PartFails, Ladder!CancelsPlans,
         Ladder!PlacesPlans, Ladder!Records, Ladder!ClosesRow, Ladder!Quiet, Ladder!MonitorCloses,
         Ladder!MonitorFinds, Ladder!PassEnds, Ladder!Book, Ladder!StopHit, Ladder!TargetHit,
         Ladder!Crash, Ladder!Restart
<1>4. Calm' <=> Calm
  BY <1>3 DEF Calm
<1> SUFFICES ASSUME Calm PROVE OrderOnly' /\ Climbed' /\ Steady' /\ exch'.sl >= exch.sl
  BY <1>1, <1>4 DEF ClimbInv
<1>5. OrderOnly /\ Climbed /\ Steady
  BY DEF ClimbInv
<1>6. CASE UNCHANGED Ladder!vars
  <2>1. OrderOnly' /\ Climbed'
    BY <1>5, <1>6 DEF Ladder!vars, OrderOnly, Ladder!OpenRows, Climbed
  <2>2. Steady' /\ exch'.sl >= exch.sl
    BY <1>2, <1>5, <1>6 DEF Ladder!vars, Steady, Covered, Taken
  <2> QED
    BY <2>1, <2>2
<1>7. CASE Ladder!Milestone
  BY <1>1, <1>5, <1>7, MilestoneLadder
<1>8. CASE \/ Ladder!Ticks \/ Ladder!PassEnds \/ (\E r \in Ladder!Rows : Ladder!Book(r))
           \/ Ladder!Quiet \/ Ladder!MonitorCloses
           \/ Ladder!MonitorFinds \/ Ladder!StopHit \/ Ladder!TargetHit
  <2>1. OrderOnly' /\ Climbed' /\ Steady' /\ exch'.sl = exch.sl
    BY <1>1, <1>5, <1>8, PassLadder
  <2> QED
    BY <1>2, <2>1
<1>9. ~Ladder!Crash /\ ~Ladder!Restart
  BY <1>5 DEF Ladder!Crash, Ladder!Restart, Calm, OrderOnly
<1> QED
  BY <1>6, <1>7, <1>8, <1>9 DEF Ladder!Next, Ladder!Scanning

LEMMA ClimbProtects == Ladder!PositionLadderAssumption /\ ClimbInv => Ladder!Protected
<1> SUFFICES ASSUME Ladder!PositionLadderAssumption, ClimbInv,
                    world \cap {"sl_fails", "db_fails", "crash"} = {},
                    pass.at = "idle", exch.size > 0
             PROVE  exch.slSize >= exch.size \/ \E r \in Ladder!HeldRows : mem[r].manual
  BY DEF Ladder!Protected
<1>1. OrderOnly /\ Covered /\ op.at = "none"
  BY DEF ClimbInv, Calm, Steady, LadderInv, AtWork
<1>2. 1 \in Ladder!Rows
  BY Numbers DEF ClimbInv, LadderInv
<1>3. 1 \in Ladder!HeldRows
  BY <1>1, <1>2 DEF OrderOnly, Ladder!HeldRows
<1> QED
  BY <1>1, <1>3 DEF Covered

\* Between two passes a position that is still there has a stop loss on the exchange for
\* all of it, or is watched by the software, whichever of its parts were closed, refused
\* or overtaken by a plan order in between (_executePartialClose, _updateSLOnExchange).
THEOREM PositionProtected == Ladder!PositionLadderAssumption => (Ladder!Spec => []Ladder!Protected)
<1> SUFFICES ASSUME Ladder!PositionLadderAssumption PROVE Ladder!Spec => []Ladder!Protected
  OBVIOUS
<1>1. Ladder!Init => ClimbInv
  BY LInit
<1>2. ClimbInv /\ [Ladder!Next]_(Ladder!vars) => ClimbInv'
  BY NextLInv
<1>3. ClimbInv => Ladder!Protected
  BY ClimbProtects
<1> QED
  BY <1>1, <1>2, <1>3, PTL DEF Ladder!Spec

\* The stop loss of a position is never moved down, in any order of the steps of its two
\* milestones, of plan orders and of stop losses the exchange refuses.
THEOREM StopOnlyTightens == Ladder!PositionLadderAssumption => (Ladder!Spec => Ladder!StopTightens)
<1> SUFFICES ASSUME Ladder!PositionLadderAssumption PROVE Ladder!Spec => Ladder!StopTightens
  OBVIOUS
<1>1. Ladder!Init => ClimbInv
  BY LInit
<1>2. ClimbInv /\ [Ladder!Next]_(Ladder!vars) => ClimbInv'
  BY NextLInv
<1>3. ClimbInv /\ [Ladder!Next]_(Ladder!vars) =>
         [world \cap {"crash", "db_fails"} = {} => exch'.sl >= exch.sl]_(Ladder!vars)
  BY NextLInv DEF Calm
<1> QED
  BY <1>1, <1>2, <1>3, PTL DEF Ladder!Spec, Ladder!StopTightens

----------------------------------------------------------------------------
(* What is booked: the parts, and the order's own row. *)

BooksOf(rs) == [r \in DOMAIN rs |-> rs[r].booked]
PartsOf(rs) == SumOf(BooksOf(rs), DOMAIN rs \ {1})

Bookings(rs, n) == n \in Nat \ {0} /\ DOMAIN rs = 1 .. n /\ \A r \in 1 .. n : rs[r].booked \in Nat

LEMMA BookingsAre ==
    ASSUME NEW rs, NEW n, Bookings(rs, n)
    PROVE  /\ IsFiniteSet(1 .. n) /\ IsFiniteSet((1 .. n) \ {1}) /\ 1 \in 1 .. n
           /\ Amounts(BooksOf(rs), 1 .. n) /\ Amounts(BooksOf(rs), (1 .. n) \ {1})
           /\ \A r \in 1 .. n : BooksOf(rs)[r] = rs[r].booked
<1>1. IsFiniteSet(1 .. n) /\ IsFiniteSet((1 .. n) \ {1}) /\ 1 \in 1 .. n
  BY FS_Interval, FS_Subset DEF Bookings
<1> QED
  BY <1>1 DEF Bookings, BooksOf, Amounts

LEMMA PartsNat ==
    ASSUME NEW rs, NEW n, Bookings(rs, n)
    PROVE  PartsOf(rs) \in Nat
<1>1. PartsOf(rs) = SumOf(BooksOf(rs), (1 .. n) \ {1})
  BY Zenon DEF PartsOf, Bookings
<1> QED
  BY <1>1, BookingsAre, SumNat

\* Rows that are closed for the order's own position leave the parts as they are.
LEMMA PartsSame ==
    ASSUME NEW rs, NEW qs, NEW n, Bookings(rs, n), Bookings(qs, n),
           \A r \in (1 .. n) \ {1} : qs[r].booked = rs[r].booked
    PROVE  PartsOf(qs) = PartsOf(rs)
<1> DEFINE S == (1 .. n) \ {1}
<1>1. PartsOf(rs) = SumOf(BooksOf(rs), S) /\ PartsOf(qs) = SumOf(BooksOf(qs), S)
  BY Zenon DEF PartsOf, Bookings
<1>2. IsFiniteSet(S) /\ Amounts(BooksOf(rs), S) /\ Amounts(BooksOf(qs), S)
      /\ \A r \in S : BooksOf(rs)[r] = BooksOf(qs)[r]
  BY BookingsAre
<1> HIDE DEF S
<1>3. SumOf(BooksOf(rs), S) = SumOf(BooksOf(qs), S)
  BY <1>2, SumSame
<1> QED
  BY <1>1, <1>3

\* A row that is added counts with what is booked in it.
LEMMA PartsAdd ==
    ASSUME NEW rs, NEW qs, NEW n, Bookings(rs, n), Bookings(qs, n + 1),
           \A r \in (1 .. n) \ {1} : qs[r].booked = rs[r].booked
    PROVE  PartsOf(qs) = PartsOf(rs) + qs[n + 1].booked
<1> DEFINE S == (1 .. n) \ {1}
           T == (1 .. n + 1) \ {1}
<1>1. PartsOf(rs) = SumOf(BooksOf(rs), S) /\ PartsOf(qs) = SumOf(BooksOf(qs), T)
  BY Zenon DEF PartsOf, Bookings
<1>2. IsFiniteSet(S) /\ Amounts(BooksOf(rs), S) /\ IsFiniteSet(T) /\ Amounts(BooksOf(qs), T)
  BY BookingsAre
<1>3. n + 1 \in T /\ S = T \ {n + 1} /\ S \subseteq T
  BY DEF Bookings
<1>4. \A r \in S : BooksOf(rs)[r] = BooksOf(qs)[r]
  <2>1. \A r \in 1 .. n : BooksOf(rs)[r] = rs[r].booked
    BY BookingsAre
  <2>2. \A r \in 1 .. n + 1 : BooksOf(qs)[r] = qs[r].booked
    BY BookingsAre
  <2> QED
    BY <1>3, <2>1, <2>2
<1>5. BooksOf(qs)[n + 1] = qs[n + 1].booked
  BY <1>3, BookingsAre
<1> HIDE DEF S, T
<1>6. SumOf(BooksOf(qs), T) = BooksOf(qs)[n + 1] + SumOf(BooksOf(qs), T \ {n + 1})
  BY <1>2, <1>3, SumWithout
<1>7. SumOf(BooksOf(qs), T \ {n + 1}) = SumOf(BooksOf(qs), S)
  BY <1>3, Zenon
<1>8. SumOf(BooksOf(rs), S) = SumOf(BooksOf(qs), S)
  BY <1>2, <1>4, SumSame
<1>9. SumOf(BooksOf(rs), S) \in Nat /\ BooksOf(qs)[n + 1] \in Nat
  BY <1>2, <1>3, SumNat DEF Amounts
<1> QED
  BY <1>1, <1>5, <1>6, <1>7, <1>8, <1>9

\* So does a part that is booked in the last row.
LEMMA PartsBooked ==
    ASSUME NEW rs, NEW qs, NEW n, n > 1, Bookings(rs, n), Bookings(qs, n), rs[n].booked = 0,
           \A r \in (1 .. n) \ {n} : qs[r].booked = rs[r].booked
    PROVE  PartsOf(qs) = PartsOf(rs) + qs[n].booked
<1> DEFINE m == n - 1
           fore == [r \in 1 .. m |-> rs[r]]
<1>1. m \in Nat \ {0} /\ n = m + 1
  BY DEF Bookings
<1>2. Bookings(fore, m) /\ \A r \in (1 .. m) \ {1} : /\ fore[r].booked = rs[r].booked
                                                      /\ fore[r].booked = qs[r].booked
  BY <1>1 DEF Bookings
<1>3. Bookings(rs, m + 1) /\ Bookings(qs, m + 1)
  BY <1>1, Zenon
<1> HIDE DEF m, fore
<1>4. PartsOf(rs) = PartsOf(fore) + rs[m + 1].booked
  BY <1>2, <1>3, PartsAdd
<1>5. PartsOf(qs) = PartsOf(fore) + qs[m + 1].booked
  BY <1>2, <1>3, PartsAdd
<1>6. PartsOf(fore) \in Nat
  BY <1>2, PartsNat
<1> QED
  BY <1>1, <1>4, <1>5, <1>6

LEMMA FoldIs ==
    ASSUME NEW K, IsFiniteSet(K), NEW rs, DOMAIN rs = K, NEW f, Amounts(f, K),
           \A r \in K : f[r] = rs[r].booked
    PROVE  Ladder!FoldSeq(LAMBDA r, sum : r.booked + sum, 0, rs) = SumOf(f, K)
<1> DEFINE k == CHOOSE k : k = [s \in SUBSET K |->
                   IF s = {} THEN 0 ELSE rs[OneOf(s)].booked + k[s \ {OneOf(s)}]]
<1>1. PICK g : IsSum(g, f, K)
  BY SumExists
<1>2. Ladder!FoldSeq(LAMBDA r, sum : r.booked + sum, 0, rs)
         = Ladder!FoldFunctionOnSet(LAMBDA r, sum : r.booked + sum, 0, rs, K)
  BY Zenon DEF Ladder!FoldSeq, Ladder!FoldFunction
<1>3. Ladder!FoldFunctionOnSet(LAMBDA r, sum : r.booked + sum, 0, rs, K) = k[K]
  BY DEF Ladder!FoldFunctionOnSet, Ladder!MapThenFoldSet, OneOf
<1>4. g = [s \in SUBSET K |-> IF s = {} THEN 0 ELSE f[OneOf(s)] + g[s \ {OneOf(s)}]]
  BY <1>1 DEF IsSum
<1>5. \A s \in SUBSET K : s # {} => f[OneOf(s)] = rs[OneOf(s)].booked
  BY OneOfIs
<1>6. g = [s \in SUBSET K |-> IF s = {} THEN 0 ELSE rs[OneOf(s)].booked + g[s \ {OneOf(s)}]]
  BY <1>4, <1>5
<1>7. k = [s \in SUBSET K |-> IF s = {} THEN 0 ELSE rs[OneOf(s)].booked + k[s \ {OneOf(s)}]]
  BY <1>6
<1> HIDE DEF k
<1>8. k = [s \in SUBSET K |-> IF s = {} THEN 0 ELSE f[OneOf(s)] + k[s \ {OneOf(s)}]]
  BY <1>5, <1>7
<1>9. IsSum(k, f, K)
  BY <1>8 DEF IsSum
<1> QED
  BY <1>2, <1>3, <1>9, SumMeans

LEMMA BookedSum ==
    ASSUME NEW n, Bookings(rows, n)
    PROVE  Ladder!Booked = rows[1].booked + PartsOf(rows)
<1>1. /\ IsFiniteSet(1 .. n) /\ Amounts(BooksOf(rows), 1 .. n) /\ DOMAIN rows = 1 .. n
      /\ 1 \in 1 .. n /\ \A r \in 1 .. n : BooksOf(rows)[r] = rows[r].booked
  BY BookingsAre DEF Bookings
<1>2. Ladder!Booked = SumOf(BooksOf(rows), 1 .. n)
  BY <1>1, FoldIs DEF Ladder!Booked
<1>3. SumOf(BooksOf(rows), 1 .. n) = BooksOf(rows)[1] + SumOf(BooksOf(rows), (1 .. n) \ {1})
  BY <1>1, SumWithout
<1>4. PartsOf(rows) = SumOf(BooksOf(rows), (1 .. n) \ {1})
  BY <1>1, Zenon DEF PartsOf
<1> QED
  BY <1>1, <1>2, <1>3, <1>4

\* No watch by software, no row that is not stored and no restart: the order's row is open as
\* long as its position is held, and the parts and the rest make up what was opened.
Honest == world \cap {"manual", "db_fails", "crash"} = {}

Unstored == IF op.at = "closeRow" THEN op.part ELSE 0

Ledger ==
    /\ ~mem[1].manual
    /\ pass.todo \subseteq Ladder!HeldRows
    /\ op.at # "none" => mem[1].held
    /\ op.at \notin {"none", "closeRow"} => op.part < mem[1].remaining
    /\ op.at = "closeRow" => Len(rows) > 1 /\ rows[Len(rows)].booked = 0
    /\ mem[1].held =>
          /\ rows[1].open /\ rows[1].booked = 0 /\ mem[1].size = opened
          /\ mem[1].remaining > 0 /\ PartsOf(rows) + mem[1].remaining + Unstored = opened
    /\ ~mem[1].held => ~rows[1].open /\ PartsOf(rows) + rows[1].booked = opened

BookInv == ClimbInv /\ (Honest => Ledger)

LEMMA RowsBooked ==
    ASSUME Ladder!PositionLadderAssumption, Ladder!TypeOK
    PROVE  Bookings(rows, Len(rows))
<1>1. \A row \in Ladder!Row : row.booked \in Nat
  BY DEF Ladder!Row
<1>2. /\ Len(rows) \in Nat \ {0} /\ DOMAIN rows = 1 .. Len(rows)
      /\ \A r \in 1 .. Len(rows) : rows[r] \in Ladder!Row
  BY Numbers
<1> QED
  BY <1>1, <1>2 DEF Bookings

LEMMA LedgerBooks ==
    ASSUME Ladder!PositionLadderAssumption, Ladder!TypeOK, Ledger
    PROVE  Ladder!Booked <= opened /\ (Ladder!OpenRows = {} => Ladder!Booked = opened)
<1>1. /\ opened \in Nat /\ 1 \in Ladder!Rows /\ 1 \in DOMAIN rows /\ mem[1].remaining \in Nat
      /\ op.part \in Nat /\ rows[1].booked \in Nat
  <2>1. /\ opened \in Nat /\ 1 \in Ladder!Rows /\ 1 \in DOMAIN rows /\ rows[1] \in Ladder!Row
        /\ mem[1] \in Ladder!PosState /\ op \in Ladder!OpState
    BY Numbers DEF Ladder!TypeOK
  <2>2. rows[1].booked \in Nat
    BY <2>1 DEF Ladder!Row
  <2>3. mem[1].remaining \in Nat /\ op.part \in Nat
    BY <2>1 DEF Ladder!PosState, Ladder!OpState
  <2> QED
    BY <2>1, <2>2, <2>3
<1>2. PartsOf(rows) \in Nat /\ Ladder!Booked = rows[1].booked + PartsOf(rows)
  BY RowsBooked, PartsNat, BookedSum
<1>3. Unstored \in Nat
  BY <1>1 DEF Unstored
<1>4. CASE mem[1].held
  <2>1. 1 \in Ladder!OpenRows
    BY <1>1, <1>4 DEF Ladder!OpenRows, Ledger
  <2>2. rows[1].booked = 0 /\ PartsOf(rows) + mem[1].remaining + Unstored = opened
    BY <1>4 DEF Ledger
  <2> QED
    BY <1>1, <1>2, <1>3, <2>1, <2>2
<1>5. CASE ~mem[1].held
  <2>1. PartsOf(rows) + rows[1].booked = opened
    BY <1>5 DEF Ledger
  <2> QED
    BY <1>1, <1>2, <2>1
<1> QED
  BY <1>4, <1>5

\* A step that leaves the rows and the position.
LEMMA LedgerKept ==
    ASSUME Ledger, UNCHANGED <<opened, rows, mem>>, pass'.todo \subseteq Ladder!HeldRows,
           op'.at # "none" => op.at # "none" /\ op'.part = op.part,
           op'.at = "closeRow" <=> op.at = "closeRow"
    PROVE  Ledger'
<1>1. Ladder!HeldRows' = Ladder!HeldRows
  BY DEF Ladder!HeldRows, Ladder!Rows
<1>2. Unstored' = Unstored
  BY DEF Unstored
<1> QED
  BY <1>1, <1>2 DEF Ledger

LEMMA OnlyOrder ==
    ASSUME Ladder!PositionLadderAssumption, Ladder!TypeOK, OrderOnly, NEW r \in Ladder!HeldRows
    PROVE  r = 1
BY NothingIs DEF OrderOnly, Ladder!HeldRows

LEMMA LedgerInit == Ladder!PositionLadderAssumption /\ Ladder!Init => BookInv
<1> SUFFICES ASSUME Ladder!PositionLadderAssumption, Ladder!Init PROVE BookInv
  OBVIOUS
<1>1. ClimbInv /\ Ladder!TypeOK
  BY LInit DEF ClimbInv, LadderInv
<1> SUFFICES ASSUME Honest PROVE Ledger
  BY <1>1 DEF BookInv
<1>2. opened \in Nat /\ opened > 0 /\ opened \in 1 .. opened /\ 1 \in Ladder!Rows
  BY <1>1, Numbers
<1>3. /\ mem = [r \in Ladder!Rows |-> IF r = 1 THEN Ladder!Position(opened, FALSE)
                                      ELSE Ladder!Nothing]
      /\ rows = <<[open |-> TRUE, size |-> opened, booked |-> 0]>>
      /\ pass.todo = {} /\ op.at = "none"
  <2>1. "manual" \notin world
    BY DEF Honest
  <2>2. PICK sl \in {TRUE}, tp \in {TRUE} :
           mem = [r \in Ladder!Rows |-> IF r = 1 THEN Ladder!Position(opened, ~sl \/ ~tp)
                                        ELSE Ladder!Nothing]
    BY <2>1 DEF Ladder!Init, Ladder!Entered
  <2>3. (~sl \/ ~tp) = FALSE
    OBVIOUS
  <2>4. mem = [r \in Ladder!Rows |-> IF r = 1 THEN Ladder!Position(opened, FALSE)
                                     ELSE Ladder!Nothing]
    BY <2>2, <2>3
  <2> QED
    BY <2>4 DEF Ladder!Init, Ladder!Entered, Ladder!NoPass, Ladder!NoOp
<1> DEFINE p == Ladder!Position(opened, FALSE)
<1>4. p.held /\ ~p.manual /\ p.remaining = opened /\ p.size = opened
  <2>1. p.held /\ p.manual = FALSE /\ p.remaining = opened
    BY <1>2, PositionIs
  <2>2. p.size = opened
    BY DEF Ladder!Position, Ladder!Nothing
  <2> QED
    BY <2>1, <2>2
<1> HIDE DEF p
<1>5. mem[1] = p
  BY <1>2, <1>3 DEF p
<1>6. PartsOf(rows) = 0
  <2>1. DOMAIN rows \ {1} = {}
    BY <1>3
  <2>2. PartsOf(rows) = SumOf(BooksOf(rows), {})
    BY <2>1, Zenon DEF PartsOf
  <2> QED
    BY <2>2, SumEmpty
<1>7. rows[1].open /\ rows[1].booked = 0
  BY <1>3
<1>8. pass.todo = {} /\ op.at = "none" /\ Unstored = 0
  BY <1>3 DEF Unstored
<1> QED
  BY <1>2, <1>4, <1>5, <1>6, <1>7, <1>8 DEF Ledger

\* The order's row is closed for what is left of the position.
LEMMA BookLedger ==
    ASSUME Ladder!PositionLadderAssumption, LadderInv, OrderOnly, Ledger,
           NEW r \in Ladder!Rows, Ladder!Book(r)
    PROVE  Ledger'
<1>1. /\ Ladder!TypeOK /\ opened \in Nat /\ 1 \in Ladder!Rows /\ 1 \in DOMAIN rows
      /\ mem \in [Ladder!Rows -> Ladder!PosState] /\ mem[1].remaining \in Nat
  BY Numbers DEF LadderInv, Ladder!TypeOK, Ladder!PosState
<1>2. r = 1 /\ mem[1].held
  BY <1>1, OnlyOrder DEF Ladder!Book, Ledger, Ladder!HeldRows
<1>3. /\ Ladder!Closed(1, Ladder!Outstanding(mem[1])) /\ Ladder!Drop(1) /\ op' = op
      /\ opened' = opened /\ op.at = "none" /\ pass' = [pass EXCEPT !.todo = @ \ {1}]
  BY <1>2 DEF Ladder!Book, LadderInv, AtWork
<1>4. mem[1].remaining > 0 /\ PartsOf(rows) + mem[1].remaining = opened
  BY <1>1, <1>2, <1>3, RowsBooked, PartsNat DEF Ledger, Unstored
<1>5. Ladder!Outstanding(mem[1]) = mem[1].remaining /\ mem[1].remaining \in 0 .. opened
  BY <1>1, <1>4 DEF Ladder!Outstanding, Ladder!PosState
<1>6. /\ Len(rows') = Len(rows) /\ rows' \in Seq(Ladder!Row) /\ rows[1] \in Ladder!Row
      /\ ~rows'[1].open /\ \A q \in DOMAIN rows \ {1} : rows'[q] = rows[q]
  BY <1>1, <1>3, <1>5, ClosedIs, Numbers
<1>7. rows'[1].booked = mem[1].remaining
  BY <1>1, <1>3, <1>5, <1>6 DEF Ladder!Closed, Ladder!Row
<1>8. Bookings(rows, Len(rows)) /\ Bookings(rows', Len(rows))
  <2>1. Bookings(rows, Len(rows)) /\ DOMAIN rows = 1 .. Len(rows) /\ Len(rows) \in Nat
    BY <1>1, RowsBooked, Numbers
  <2>2. DOMAIN rows' = 1 .. Len(rows)
    BY <1>6, <2>1
  <2>3. \A q \in 1 .. Len(rows) : rows'[q].booked \in Nat
    BY <1>1, <1>6, <1>7, <2>1 DEF Bookings
  <2> QED
    BY <2>1, <2>2, <2>3 DEF Bookings
<1>9. PartsOf(rows') = PartsOf(rows)
  <2>1. \A q \in (1 .. Len(rows)) \ {1} : rows'[q].booked = rows[q].booked
    BY <1>6, <1>8 DEF Bookings
  <2> QED
    BY <1>8, <2>1, PartsSame
<1>10. mem'[1] = Ladder!Nothing
  BY <1>1, <1>3 DEF Ladder!Drop
<1>11. ~mem'[1].held /\ ~mem'[1].manual
  BY <1>10, NothingIs DEF Ladder!Nothing
<1>12. pass'.todo = {}
  BY <1>1, <1>3, OnlyOrder DEF Ledger, Ladder!TypeOK, Ladder!PassState
<1> QED
  BY <1>3, <1>4, <1>6, <1>7, <1>9, <1>11, <1>12 DEF Ledger

\* A pass, and the exchange.
LEMMA PassLedger ==
    ASSUME Ladder!PositionLadderAssumption, LadderInv, Calm, OrderOnly, Ledger,
           \/ Ladder!Ticks \/ Ladder!PassEnds \/ (\E r \in Ladder!Rows : Ladder!Book(r))
           \/ Ladder!Quiet \/ Ladder!MonitorCloses \/ Ladder!MonitorFinds
           \/ Ladder!StopHit \/ Ladder!TargetHit
    PROVE  Ledger'
<1>1. /\ Ladder!TypeOK /\ mem \in [Ladder!Rows -> Ladder!PosState]
      /\ pass.todo \subseteq Ladder!HeldRows /\ pass \in Ladder!PassState
      /\ DOMAIN rows \subseteq Ladder!Rows /\ 1 \in Ladder!Rows
  BY Numbers DEF LadderInv, Ladder!TypeOK, Ledger
<1>2. CASE Ladder!Ticks
  <2>1. PICK price \in Ladder!Prices, reconcile \in BOOLEAN : Ladder!PassBegin(price, reconcile)
    BY <1>2 DEF Ladder!Ticks
  <2> DEFINE found == IF reconcile /\ exch.size > 0 THEN Ladder!OpenRows \ Ladder!HeldRows
                      ELSE {}
             held == {r \in Ladder!Rows : Ladder!Adopted(found)[r].held}
  <2>2. /\ pass.at = "idle" /\ mem' = Ladder!Adopted(found) /\ pass'.todo = held
        /\ UNCHANGED <<world, crashes, opened, exch, rows, op>>
    BY <2>1 DEF Ladder!PassBegin
  <2>3. op.at = "none"
    BY <2>2 DEF LadderInv, AtWork
  <2>4. found = {}
    BY <1>1, <2>3 DEF OrderOnly, Ladder!OpenRows, Ladder!HeldRows
  <2> HIDE DEF found
  <2>5. Ladder!Adopted(found) = mem
    BY <1>1, <2>4 DEF Ladder!Adopted
  <2>6. held = Ladder!HeldRows
    BY <2>5 DEF Ladder!HeldRows
  <2> HIDE DEF held
  <2> QED
    BY <2>2, <2>5, <2>6, LedgerKept
<1>3. CASE Ladder!PassEnds
  BY <1>1, <1>3, LedgerKept DEF Ladder!PassEnds, Ladder!NoPass
<1>4. CASE Ladder!Quiet
  <2>1. pass'.todo \subseteq pass.todo /\ UNCHANGED <<opened, rows, mem, op>>
    BY <1>1, <1>4 DEF Ladder!Quiet, Ladder!NextPosition, Ladder!PassState
  <2> QED
    BY <1>1, <2>1, LedgerKept
<1>5. CASE \E r \in Ladder!Rows : Ladder!Book(r)
  BY <1>5, BookLedger
<1>6. ~Ladder!MonitorCloses /\ ~Ladder!MonitorFinds
  <2> SUFFICES ASSUME pass.todo # {}, Ladder!Watched(Ladder!Scanned) PROVE FALSE
    BY DEF Ladder!MonitorCloses, Ladder!MonitorFinds
  <2>1. Ladder!Scanned \in Ladder!HeldRows
    BY <1>1, ScannedIs
  <2>2. Ladder!Scanned = 1
    BY <1>1, <2>1, OnlyOrder
  <2> QED
    BY <2>2 DEF Ladder!Watched, Ledger
<1>7. CASE Ladder!StopHit \/ Ladder!TargetHit
  BY <1>1, <1>7, LedgerKept DEF Ladder!StopHit, Ladder!TargetHit
<1> QED
  BY <1>2, <1>3, <1>4, <1>5, <1>6, <1>7

LEMMA PartLess ==
    ASSUME opened \in Nat, NEW p \in Ladder!PosState, Whole(p), NEW k \in 1 .. 2, k = 1 => ~p.m[1],
           p.remaining > 0
    PROVE  Ladder!Part(p, k) < p.remaining
<1>1. p.size \in Nat /\ p.remaining \in Nat
  BY DEF Ladder!PosState
<1>2. CASE k = 1
  <2>1. p.remaining = p.size /\ Ladder!Part(p, k) = (p.size * 2) \div 5
    BY <1>2 DEF Whole, Ladder!Part
  <2>2. \A n \in Nat : n > 0 => (n * 2) \div 5 < n
    OBVIOUS
  <2> QED
    BY <1>1, <2>1, <2>2
<1>3. CASE k = 2
  <2> DEFINE x == (p.size * 11) \div 40
             y == (p.remaining * 9) \div 10
  <2>1. \A n \in Nat : n > 0 => (n * 9) \div 10 < n
    OBVIOUS
  <2>2. x \in Nat /\ y \in Nat /\ y < p.remaining
    BY <1>1, <2>1
  <2>3. Ladder!Part(p, k) = Ladder!Least(x, y)
    BY <1>3 DEF Ladder!Part
  <2> HIDE DEF x, y
  <2>4. Ladder!Least(x, y) \in Nat /\ Ladder!Least(x, y) <= y
    BY <2>2, LeastIs
  <2> QED
    BY <1>1, <2>2, <2>3, <2>4
<1> QED
  BY <1>2, <1>3

LEMMA ReachLedger ==
    ASSUME Ladder!PositionLadderAssumption, LadderInv, OrderOnly, Ledger,
           NEW k \in 1 .. 2, Ladder!Reach(k)
    PROVE  Ledger'
<1>1. /\ Ladder!TypeOK /\ opened \in Nat /\ 1 \in Ladder!Rows /\ MinLot \in Nat
      /\ mem \in [Ladder!Rows -> Ladder!PosState] /\ Whole(mem[1]) /\ mem[1] \in Ladder!PosState
  BY Numbers DEF LadderInv, Ladder!TypeOK
<1>2. Ladder!Scanned \in Ladder!HeldRows /\ Ladder!Due(Ladder!Scanned, k) /\ op.at = "none"
  BY <1>1, ScannedIs DEF Ladder!Reach, Ledger
<1>3. Ladder!Scanned = 1 /\ mem[1].held
  BY <1>1, <1>2, OnlyOrder DEF Ladder!HeldRows
<1> DEFINE p == mem[1]
           after == [p.m EXCEPT ![k] = TRUE]
           q == [p EXCEPT !.m = after]
           x == Ladder!Part(p, k)
           part == IF x >= MinLot THEN x ELSE 0
<1>4. ~p.m[k] /\ p.remaining > 0 /\ p.remaining \in Nat
  BY <1>1, <1>2, <1>3 DEF Ladder!Due, Ladder!PosState
<1>5. x \in Nat /\ x < p.remaining
  <2>1. k = 1 => ~p.m[1]
    BY <1>4
  <2> HIDE DEF p
  <2>2. x \in 0 .. opened /\ x < p.remaining
    BY <1>1, <1>4, <2>1, PartIs, PartLess DEF p
  <2> HIDE DEF x
  <2> QED
    BY <1>1, <2>2
<1>6. /\ mem' = [mem EXCEPT ![1].m[k] = TRUE] /\ op'.at \in {"close", "cancel"}
      /\ op'.part = part /\ UNCHANGED <<opened, rows, pass>>
  BY <1>3 DEF Ladder!Reach
<1>7. mem' = [mem EXCEPT ![1] = q]
  BY <1>1, <1>6
<1> HIDE DEF x, after
<1>8. part < p.remaining
  BY <1>4, <1>5
<1>9. q.held = p.held /\ q.remaining = p.remaining /\ q.manual = p.manual /\ q.size = p.size
  BY <1>1 DEF Ladder!PosState
<1> HIDE DEF q, part
<1>10. mem'[1] = q /\ \A r \in Ladder!Rows \ {1} : mem'[r] = mem[r]
  BY <1>1, <1>7
<1>11. Ladder!HeldRows' = Ladder!HeldRows
  BY <1>1, <1>9, <1>10 DEF Ladder!HeldRows, Ladder!Rows
<1>12. Unstored' = 0 /\ Unstored = 0
  BY <1>2, <1>6 DEF Unstored
<1> QED
  BY <1>2, <1>3, <1>6, <1>8, <1>9, <1>10, <1>11, <1>12 DEF Ledger

\* A part is taken off the position, and a row is added for it.
LEMMA RecordLedger ==
    ASSUME Ladder!PositionLadderAssumption, LadderInv, Calm, OrderOnly, Ledger, Ladder!Records
    PROVE  Ledger'
<1>1. /\ Ladder!TypeOK /\ opened \in Nat /\ 1 \in Ladder!Rows /\ op \in Ladder!OpState
      /\ mem \in [Ladder!Rows -> Ladder!PosState] /\ mem[1] \in Ladder!PosState
      /\ mem[1].remaining \in Nat /\ op.part \in Nat /\ rows \in Seq(Ladder!Row)
  <2>1. Ladder!TypeOK /\ opened \in Nat /\ 1 \in Ladder!Rows /\ rows \in Seq(Ladder!Row)
    BY Numbers DEF LadderInv
  <2>2. op \in Ladder!OpState /\ mem \in [Ladder!Rows -> Ladder!PosState]
    BY <2>1 DEF Ladder!TypeOK
  <2>3. op.part \in Nat
    BY <2>1, <2>2 DEF Ladder!OpState
  <2>4. mem[1] \in Ladder!PosState
    BY <2>1, <2>2
  <2>5. mem[1].remaining \in Nat
    BY <2>1, <2>4 DEF Ladder!PosState
  <2> QED
    BY <2>1, <2>2, <2>3, <2>4, <2>5
<1>2. Bookings(rows, Len(rows)) /\ Len(rows) \in Nat \ {0} /\ PartsOf(rows) \in Nat
  BY <1>1, RowsBooked, PartsNat DEF Bookings
<1> DEFINE row == [open |-> TRUE, size |-> op.part, booked |-> 0]
           left == mem[1].remaining - op.part
           q == [[mem[1] EXCEPT !.remaining = left] EXCEPT !.sl = Ladder!Lock(op.k)]
<1>3. /\ op.at = "record" /\ op.row = 1 /\ rows' = Append(rows, row)
      /\ op'.at = "closeRow" /\ op'.part = op.part
      /\ UNCHANGED <<world, crashes, opened, exch, pass>>
  BY <1>1, GotoIs DEF Ladder!Records, Ats, Calm, OrderOnly
<1>4. mem' = [mem EXCEPT ![1] = q]
  BY <1>1, <1>3 DEF Ladder!Records
<1>5. row.booked = 0
  OBVIOUS
<1> HIDE DEF row, left
<1>6. /\ q.remaining = left /\ q.held = mem[1].held /\ q.manual = mem[1].manual
      /\ q.size = mem[1].size
  BY <1>1 DEF Ladder!PosState
<1> HIDE DEF q
<1>7. mem'[1] = q /\ \A r \in Ladder!Rows \ {1} : mem'[r] = mem[r]
  BY <1>1, <1>4
<1>8. /\ Len(rows') = Len(rows) + 1 /\ DOMAIN rows' = 1 .. Len(rows) + 1
      /\ rows'[Len(rows) + 1] = row /\ \A r \in 1 .. Len(rows) : rows'[r] = rows[r]
  BY <1>1, <1>2, <1>3
<1>9. Bookings(rows', Len(rows) + 1)
  <2>1. \A r \in 1 .. Len(rows) + 1 : r \in 1 .. Len(rows) \/ r = Len(rows) + 1
    BY <1>2
  <2>2. \A r \in 1 .. Len(rows) + 1 : rows'[r].booked \in Nat
    BY <1>2, <1>5, <1>8, <2>1 DEF Bookings
  <2> QED
    BY <1>2, <1>8, <2>2 DEF Bookings
<1>10. PartsOf(rows') = PartsOf(rows)
  <2>1. PartsOf(rows') = PartsOf(rows) + rows'[Len(rows) + 1].booked
    BY <1>2, <1>8, <1>9, PartsAdd
  <2> QED
    BY <1>2, <1>5, <1>8, <2>1
<1>11. Ladder!HeldRows' = Ladder!HeldRows
  BY <1>1, <1>6, <1>7 DEF Ladder!HeldRows, Ladder!Rows
<1>12. Unstored = 0 /\ Unstored' = op.part
  BY <1>3 DEF Unstored
<1>13. mem[1].held /\ op.part < mem[1].remaining /\ PartsOf(rows) + mem[1].remaining = opened
  BY <1>1, <1>2, <1>3, <1>12 DEF Ledger
<1>14. left > 0 /\ PartsOf(rows) + left + op.part = opened
  BY <1>1, <1>2, <1>13 DEF left
<1>15. rows'[1] = rows[1] /\ Len(rows') > 1 /\ rows'[Len(rows')].booked = 0
  BY <1>2, <1>5, <1>8
<1> QED
  BY <1>3, <1>6, <1>7, <1>10, <1>11, <1>12, <1>13, <1>14, <1>15 DEF Ledger

\* The row of a part is closed for the part.
LEMMA ClosesLedger ==
    ASSUME Ladder!PositionLadderAssumption, LadderInv, Calm, OrderOnly, Ledger, Ladder!ClosesRow
    PROVE  Ledger'
<1>1. /\ Ladder!TypeOK /\ opened \in Nat /\ 1 \in Ladder!Rows /\ op \in Ladder!OpState
      /\ op.part \in 0 .. opened /\ rows \in Seq(Ladder!Row) /\ op.part \in Nat
      /\ mem[1].remaining \in Nat /\ \A r \in DOMAIN rows : rows[r] \in Ladder!Row
  BY Numbers DEF LadderInv, Ladder!TypeOK, Ladder!PosState, Ladder!OpState
<1> DEFINE n == Len(rows)
<1>2. Bookings(rows, n) /\ n \in Nat \ {0} /\ PartsOf(rows) \in Nat /\ DOMAIN rows = 1 .. n
  BY <1>1, RowsBooked, PartsNat DEF Bookings
<1>3. /\ op.at = "closeRow" /\ op' = Ladder!NoOp /\ Ladder!Closed(n, op.part)
      /\ UNCHANGED <<world, crashes, opened, exch, mem, pass>>
  BY DEF Ladder!ClosesRow, Calm
<1>4. mem[1].held /\ n > 1 /\ rows[n].booked = 0
  BY <1>3 DEF Ledger
<1>5. /\ Len(rows') = n /\ rows' \in Seq(Ladder!Row)
      /\ \A q \in DOMAIN rows \ {n} : rows'[q] = rows[q]
  BY <1>1, <1>3, ClosedIs
<1>6. rows'[n].booked = op.part
  BY <1>1, <1>2, <1>3 DEF Ladder!Closed, Ladder!Row
<1> HIDE DEF n
<1>7. Bookings(rows', n)
  <2>1. DOMAIN rows' = 1 .. n
    BY <1>2, <1>5
  <2>2. \A q \in 1 .. n : rows'[q].booked \in Nat
    BY <1>1, <1>2, <1>5, <1>6 DEF Bookings
  <2> QED
    BY <1>2, <2>1, <2>2 DEF Bookings
<1>8. PartsOf(rows') = PartsOf(rows) + op.part
  <2>1. \A q \in (1 .. n) \ {n} : rows'[q].booked = rows[q].booked
    BY <1>2, <1>5
  <2> QED
    BY <1>2, <1>4, <1>6, <1>7, <2>1, PartsBooked
<1>9. rows'[1] = rows[1]
  BY <1>2, <1>4, <1>5
<1>10. Ladder!HeldRows' = Ladder!HeldRows
  BY <1>3 DEF Ladder!HeldRows, Ladder!Rows
<1>11. Unstored = op.part /\ Unstored' = 0 /\ op'.at = "none"
  BY <1>3 DEF Unstored, Ladder!NoOp
<1>12. PartsOf(rows') + mem[1].remaining + Unstored' = opened
  BY <1>1, <1>2, <1>4, <1>8, <1>11 DEF Ledger
<1> QED
  BY <1>3, <1>4, <1>9, <1>10, <1>11, <1>12 DEF Ledger

LEMMA MilestoneLedger ==
    ASSUME Ladder!PositionLadderAssumption, LadderInv, Calm, OrderOnly, Ledger, Ladder!Milestone
    PROVE  Ledger'
<1>1. op \in Ladder!OpState /\ pass.todo \subseteq Ladder!HeldRows /\ Ladder!NoOp.at = "none"
  BY DEF LadderInv, Ladder!TypeOK, Ledger, Ladder!NoOp
<1>2. CASE Ladder!PartCloses \/ Ladder!CancelsPlans
  <2>1. /\ op.at \in {"close", "cancel"} /\ op'.at \in {"cancel", "place"} /\ op'.part = op.part
        /\ UNCHANGED <<opened, rows, mem, pass>>
    BY <1>1, <1>2, GotoIs DEF Ladder!PartCloses, Ladder!CancelsPlans, Ats
  <2> QED
    BY <1>1, <2>1, LedgerKept
<1>3. CASE Ladder!PartFails
  BY <1>1, <1>3, LedgerKept DEF Ladder!PartFails
<1>4. CASE Ladder!PlacesPlans
  <2>1. /\ op.at = "place" /\ UNCHANGED <<opened, rows, mem, pass>>
        /\ \/ op'.at = "record" /\ op'.part = op.part
           \/ op'.at = "none"
    <3>1. /\ op.at = "place" /\ UNCHANGED <<opened, rows, mem, pass>>
          /\ Ladder!Goto("record") \/ op' = Ladder!NoOp
      BY <1>4 DEF Ladder!PlacesPlans
    <3> QED
      BY <1>1, <3>1, GotoIs DEF Ats
  <2> QED
    BY <1>1, <2>1, LedgerKept
<1> QED
  BY <1>2, <1>3, <1>4, ReachLedger, RecordLedger, ClosesLedger DEF Ladder!Milestone

LEMMA LedgerNext ==
    Ladder!PositionLadderAssumption /\ BookInv /\ [Ladder!Next]_(Ladder!vars) => BookInv'
<1> SUFFICES ASSUME Ladder!PositionLadderAssumption, BookInv, [Ladder!Next]_(Ladder!vars)
             PROVE  BookInv'
  OBVIOUS
<1>1. ClimbInv /\ ClimbInv' /\ LadderInv
  BY NextLInv DEF BookInv, ClimbInv
<1>2. world' = world
  BY DEF Ladder!Next, Ladder!vars, Ladder!Ticks, Ladder!PassBegin, Ladder!Scanning,
         Ladder!Milestone, Ladder!Reach, Ladder!PartCloses, Ladder!PartFails, Ladder!CancelsPlans,
         Ladder!PlacesPlans, Ladder!Records, Ladder!ClosesRow, Ladder!Quiet, Ladder!MonitorCloses,
         Ladder!MonitorFinds, Ladder!PassEnds, Ladder!Book, Ladder!StopHit, Ladder!TargetHit,
         Ladder!Crash, Ladder!Restart
<1> SUFFICES ASSUME Honest PROVE Ledger'
  BY <1>1, <1>2 DEF BookInv, Honest
<1>3. Calm /\ OrderOnly /\ Ledger
  BY <1>1 DEF BookInv, ClimbInv, Honest, Calm
<1>4. CASE UNCHANGED Ladder!vars
  BY <1>3, <1>4, LedgerKept DEF Ladder!vars, Ledger
<1>5. CASE Ladder!Milestone
  BY <1>1, <1>3, <1>5, MilestoneLedger
<1>6. CASE \/ Ladder!Ticks \/ Ladder!PassEnds \/ (\E r \in Ladder!Rows : Ladder!Book(r))
           \/ Ladder!Quiet \/ Ladder!MonitorCloses \/ Ladder!MonitorFinds
           \/ Ladder!StopHit \/ Ladder!TargetHit
  BY <1>1, <1>3, <1>6, PassLedger
<1>7. ~Ladder!Crash /\ ~Ladder!Restart
  BY <1>3 DEF Ladder!Crash, Ladder!Restart, Calm, OrderOnly
<1> QED
  BY <1>4, <1>5, <1>6, <1>7 DEF Ladder!Next, Ladder!Scanning

LEMMA LedgerProves == Ladder!PositionLadderAssumption /\ BookInv => Ladder!BookedAsOrdered
BY LedgerBooks DEF BookInv, ClimbInv, LadderInv, Honest, Ladder!BookedAsOrdered

\* _executePartialClose and _closePosition: what is booked for the parts of an order and for
\* its rest is never more than was opened, and that exactly when all rows are closed, whatever
\* close orders are refused and whichever plan order the exchange fills in between.
THEOREM BookedIsOrdered ==
    Ladder!PositionLadderAssumption => (Ladder!Spec => []Ladder!BookedAsOrdered)
<1> SUFFICES ASSUME Ladder!PositionLadderAssumption
             PROVE  Ladder!Spec => []Ladder!BookedAsOrdered
  OBVIOUS
<1>1. Ladder!Init => BookInv
  BY LedgerInit
<1>2. BookInv /\ [Ladder!Next]_(Ladder!vars) => BookInv'
  BY LedgerNext
<1>3. BookInv => Ladder!BookedAsOrdered
  BY LedgerProves
<1> QED
  BY <1>1, <1>2, <1>3, PTL DEF Ladder!Spec
----------------------------------------------------------------------------
(* OrderEntry *)

Quoting == {"resting", "cancel", "count"}
EntryStages ==
    Quoting \cup {"idle", "quote", "taker", "plans", "emergency", "insert"}

\* The types, and what an entry under way has.
EntryTyped ==
    /\ Orders!TypeOK
    /\ step # "idle" => entries > 0
    /\ step \in Quoting => Len(book) > 0
    /\ step \in {"quote"} \cup Quoting => attempt <= MaxRequotes
    /\ step = "plans" => attempt <= MaxAttempts

LEMMA Bounds ==
    ASSUME Orders!OrderEntryAssumption, EntryTyped
    PROVE  /\ Size \in Nat /\ Size > 0 /\ MaxRequotes \in Nat /\ MaxAttempts \in Nat
           /\ MaxAttempts > 0 /\ MaxEntries \in Nat
           /\ world \in OrderWorlds /\ entries \in Nat /\ entries <= MaxEntries
           /\ tracked \in Nat /\ tracked <= entries /\ manual \in BOOLEAN /\ step \in EntryStages
           /\ attempt \in 0 .. MaxRequotes \/ attempt \in 1 .. MaxAttempts + 1
           /\ attempt \in Nat /\ filledMaker \in 0 .. Size /\ seen \in 0 .. Size /\ position \in Nat
           /\ stops \subseteq 1 .. entries /\ targets \subseteq 1 .. entries
           /\ book \in Seq(Orders!Order) /\ Len(book) \in Nat /\ DOMAIN book = 1 .. Len(book)
           /\ \A i \in DOMAIN book :
                 /\ book[i] \in Orders!Order /\ book[i].left \in Nat /\ book[i].filled \in 0 .. Size
                 /\ book[i].left + book[i].filled = Size
                 /\ Orders!Live(i) => book[i].left > 0
<1>1. /\ Size \in Nat /\ Size > 0 /\ MaxRequotes \in Nat /\ MaxAttempts \in Nat
      /\ MaxAttempts > 0 /\ MaxEntries \in Nat
  BY DEF Orders!OrderEntryAssumption
<1>2. /\ book \in Seq(Orders!Order) /\ Len(book) \in Nat /\ DOMAIN book = 1 .. Len(book)
      /\ \A i \in DOMAIN book : book[i] \in Orders!Order
  BY LenProperties DEF EntryTyped, Orders!TypeOK
<1>3. \A i \in DOMAIN book : book[i].left \in Nat /\ book[i].filled \in 0 .. Size
  BY <1>2 DEF Orders!Order
<1>4. \A i \in DOMAIN book : book[i].left + book[i].filled = Size /\ (Orders!Live(i) => book[i].left
      > 0)
  BY DEF EntryTyped, Orders!TypeOK
<1> QED
  BY <1>1, <1>2, <1>3, <1>4 DEF EntryTyped, Orders!TypeOK, EntryStages, Quoting

\* What a step does to the book: nothing, a new quote, or another state of one quote.
LEMMA SameBook ==
    ASSUME Orders!OrderEntryAssumption, EntryTyped, book' = book
    PROVE  /\ book' \in Seq(Orders!Order) /\ Len(book') = Len(book) /\ DOMAIN book' = DOMAIN book
           /\ \A i \in DOMAIN book' :
                 book'[i].left + book'[i].filled = Size /\ (Orders!Live(i)' => book'[i].left > 0)
BY Bounds DEF Orders!Live

LEMMA NewQuote ==
    ASSUME Orders!OrderEntryAssumption, EntryTyped,
           book' = Append(book, [left |-> Size, filled |-> 0, live |-> TRUE])
    PROVE  /\ book' \in Seq(Orders!Order) /\ Len(book') = Len(book) + 1
           /\ book'[Len(book')].filled = 0 /\ book'[Len(book')].live
           /\ \A i \in DOMAIN book' :
                \/ i \in DOMAIN book /\ (Orders!Live(i)' <=> Orders!Live(i))
                \/ i = Len(book')
           /\ \A i \in DOMAIN book' :
                 book'[i].left + book'[i].filled = Size /\ (Orders!Live(i)' => book'[i].left > 0)
<1> DEFINE q == [left |-> Size, filled |-> 0, live |-> TRUE]
<1>1. q \in Orders!Order /\ q.left = Size /\ q.filled = 0 /\ q.live
  BY Bounds DEF Orders!Order
<1>2. book' = Append(book, q)
  OBVIOUS
<1> HIDE DEF q
<1>3. /\ book' \in Seq(Orders!Order) /\ Len(book') = Len(book) + 1 /\ book'[Len(book) + 1] = q
      /\ DOMAIN book' = 1 .. Len(book) + 1 /\ Len(book) \in Nat
      /\ \A i \in 1 .. Len(book) : book'[i] = book[i]
  BY <1>1, <1>2, Bounds, AppendProperties
<1>4. \A i \in DOMAIN book' : i \in 1 .. Len(book) \/ i = Len(book) + 1
  BY <1>3
<1>5. ASSUME NEW i \in DOMAIN book'
      PROVE  /\ (i \in DOMAIN book /\ (Orders!Live(i)' <=> Orders!Live(i))) \/ i = Len(book')
             /\ book'[i].left + book'[i].filled = Size /\ (Orders!Live(i)' => book'[i].left > 0)
  <2>1. CASE i \in 1 .. Len(book)
    <3>1. book'[i] = book[i] /\ i \in DOMAIN book
      BY <1>3, <2>1, Bounds
    <3>2. book[i].left + book[i].filled = Size /\ (Orders!Live(i) => book[i].left > 0)
      BY <3>1, Bounds
    <3>3. Orders!Live(i)' <=> Orders!Live(i)
      BY <3>1 DEF Orders!Live
    <3> QED
      BY <3>1, <3>2, <3>3
  <2>2. CASE i = Len(book) + 1
    BY <1>1, <1>3, <2>2, Bounds
  <2> QED
    BY <1>4, <2>1, <2>2
<1>6. book'[Len(book')].filled = 0 /\ book'[Len(book')].live
  BY <1>1, <1>3 DEF Orders!Live
<1> QED
  BY <1>3, <1>5, <1>6

LEMMA OtherState ==
    ASSUME Orders!OrderEntryAssumption, EntryTyped, NEW j \in DOMAIN book, NEW q \in Orders!Order,
          book' = [book EXCEPT ![j] = q],
           q.left + q.filled = Size, q.live => q.left > 0
    PROVE  /\ book' \in Seq(Orders!Order) /\ Len(book') = Len(book) /\ DOMAIN book' = DOMAIN book
           /\ book'[j] = q
           /\ \A i \in DOMAIN book : i # j => book'[i] = book[i]
           /\ \A i \in DOMAIN book' :
                 book'[i].left + book'[i].filled = Size /\ (Orders!Live(i)' => book'[i].left > 0)
BY Bounds, ExceptSeq DEF Orders!Live
----------------------------------------------------------------------------
(* The types: one lemma per group of steps *)

LEMMA TypedStays ==
    ASSUME Orders!OrderEntryAssumption, EntryTyped, world' = world, step' \in EntryStages,
           entries' \in Nat, entries <= entries', entries' <= MaxEntries,
           tracked' \in 0 .. entries', manual' \in BOOLEAN,
           attempt' \in 0 .. MaxRequotes \/ attempt' \in 1 .. MaxAttempts + 1,
           filledMaker' \in 0 .. Size, seen' \in 0 .. Size, position' \in Nat,
           stops' \subseteq 1 .. entries', targets' \subseteq 1 .. entries',
           book' \in Seq(Orders!Order),
           \A i \in DOMAIN book' :
              book'[i].left + book'[i].filled = Size /\ (Orders!Live(i)' => book'[i].left > 0),
           step' # "idle" => entries' > 0,
           step' \in Quoting => Len(book') > 0,
           step' \in {"quote"} \cup Quoting => attempt' <= MaxRequotes,
           step' = "plans" => attempt' <= MaxAttempts
    PROVE  EntryTyped'
<1>1. /\ world \in OrderWorlds /\ Size \in Nat /\ MaxEntries \in Nat
  BY Bounds
<1>2. world' \in OrderWorlds /\ entries' \in 0 .. MaxEntries /\ step' \in EntryStages
  BY <1>1
<1>3. {filledMaker', seen'} \subseteq 0 .. Size /\ stops' \cup targets' \subseteq 1 .. entries'
  OBVIOUS
<1>4. Orders!TypeOK'
  BY <1>2, <1>3 DEF Orders!TypeOK, EntryStages, Quoting, Orders!Live, Orders!Order
<1> QED
  BY <1>4 DEF EntryTyped

LEMMA InitTyped == Orders!OrderEntryAssumption /\ Orders!Init => EntryTyped
<1> SUFFICES ASSUME Orders!OrderEntryAssumption, Orders!Init PROVE EntryTyped
  OBVIOUS
<1>1. Size \in Nat /\ MaxRequotes \in Nat /\ MaxEntries \in Nat
  BY DEF Orders!OrderEntryAssumption
<1>2. book \in Seq(Orders!Order) /\ DOMAIN book = {}
  BY DEF Orders!Init, Orders!Idles
<1>3. /\ world \in OrderWorlds /\ entries = 0 /\ tracked = 0 /\ manual = FALSE /\ step = "idle"
      /\ attempt = 0 /\ filledMaker = 0 /\ seen = 0 /\ position = 0 /\ stops \cup targets = {}
  BY DEF Orders!Init, Orders!Idles
<1>4. /\ {filledMaker, seen} \subseteq 0 .. Size /\ attempt \in 0 .. MaxRequotes
      /\ entries \in 0 .. MaxEntries /\ tracked \in 0 .. entries /\ position \in Nat
      /\ stops \cup targets \subseteq 1 .. entries
  BY <1>1, <1>3
<1>6. manual \in BOOLEAN
  BY <1>3, Zenon
<1>5. Orders!TypeOK
  BY <1>2, <1>3, <1>4, <1>6, Zenon DEF Orders!TypeOK
<1> QED
  BY <1>5 DEF Orders!Init, Orders!Idles, EntryTyped, Quoting

LEMMA QuotesTyped ==
    ASSUME Orders!OrderEntryAssumption, EntryTyped,
           \/ Orders!Signal \/ Orders!Quote \/ Orders!QuoteRejected
           \/ Orders!NoTicker \/ Orders!OrderFails \/ Orders!Poll \/ Orders!Deadline
    PROVE  EntryTyped'
<1> USE DEF EntryStages, Quoting
<1>1. CASE Orders!Signal
  BY <1>1, Bounds, SameBook, TypedStays DEF Orders!Signal, Orders!plans, Orders!engine
<1>2. CASE Orders!Quote
  <2>1. /\ step = "quote" /\ step' = "resting" /\ seen' = 0
        /\ UNCHANGED <<world, entries, attempt, filledMaker, position, stops, targets, tracked,
                       manual>>
    BY <1>2 DEF Orders!Quote, Orders!plans, Orders!engine
  <2>2. /\ book' \in Seq(Orders!Order) /\ Len(book') = Len(book) + 1
        /\ \A i \in DOMAIN book' :
              book'[i].left + book'[i].filled = Size /\ (Orders!Live(i)' => book'[i].left > 0)
    BY <1>2, NewQuote DEF Orders!Quote
  <2> QED
    BY <2>1, <2>2, Bounds, TypedStays DEF EntryTyped
<1>3. CASE Orders!QuoteRejected
  BY <1>3, Bounds, SameBook, TypedStays DEF Orders!QuoteRejected, Orders!Requotes, EntryTyped,
                                            Orders!plans, Orders!engine
<1>4. CASE Orders!NoTicker
  BY <1>4, Bounds, SameBook, TypedStays DEF Orders!NoTicker, EntryTyped, Orders!plans, Orders!engine
<1>5. CASE Orders!OrderFails
  BY <1>5, Bounds, SameBook, TypedStays DEF Orders!OrderFails, EntryTyped, Orders!TypeOK,
                                            Orders!plans, Orders!engine
<1>6. CASE Orders!Poll
  <2>1. Len(book) \in DOMAIN book /\ Orders!Quoted = book[Len(book)] /\ Orders!Quoted.filled \in 0
        .. Size
    BY <1>6, Bounds DEF Orders!Poll, Orders!Quoted, Orders!Last, EntryTyped
  <2> HIDE DEF EntryStages, Quoting
  <2>2. CASE Orders!Quoted.left = 0
    BY <1>6, <2>1, <2>2, Bounds, SameBook, TypedStays DEF Orders!Poll, EntryTyped, Orders!plans,
                                                          Orders!engine, EntryStages, Quoting
  <2>3. CASE Orders!Quoted.left # 0
    BY <1>6, <2>1, <2>3, Bounds, SameBook, TypedStays DEF Orders!Poll, EntryTyped, Orders!plans,
                                                          Orders!engine, EntryStages, Quoting
  <2> QED
    BY <2>2, <2>3
<1>7. CASE Orders!Deadline
  BY <1>7, Bounds, SameBook, TypedStays DEF Orders!Deadline, EntryTyped, Orders!plans, Orders!engine
<1> QED
  BY <1>1, <1>2, <1>3, <1>4, <1>5, <1>6, <1>7

LEMMA FillsTyped ==
    ASSUME Orders!OrderEntryAssumption, EntryTyped,
           \/ Orders!Cancel \/ Orders!Count \/ Orders!Taker \/ Orders!Exchange
    PROVE  EntryTyped'
<1>1. CASE Orders!Cancel
  <2>1. /\ step = "cancel" /\ step' = "count"
        /\ UNCHANGED <<world, entries, attempt, filledMaker, seen, position, stops, targets,
                       tracked, manual>>
    BY <1>1 DEF Orders!Cancel, Orders!plans, Orders!engine
  <2>2. Len(book) \in DOMAIN book /\ entries > 0 /\ attempt <= MaxRequotes
    BY <2>1, Bounds DEF EntryTyped, Quoting
  <2>3. /\ book' \in Seq(Orders!Order) /\ Len(book') = Len(book)
        /\ \A i \in DOMAIN book' :
              book'[i].left + book'[i].filled = Size /\ (Orders!Live(i)' => book'[i].left > 0)
    <3> DEFINE q == [book[Len(book)] EXCEPT !.live = FALSE]
    <3>1. book[Len(book)] \in Orders!Order /\ book[Len(book)].left + book[Len(book)].filled = Size
      BY <2>2, Bounds
    <3>2. q \in Orders!Order /\ q.left + q.filled = Size /\ ~q.live
      BY <3>1 DEF Orders!Order
    <3>3. book' = book \/ book' = [book EXCEPT ![Len(book)] = q]
      BY <1>1 DEF Orders!Cancel
    <3> HIDE DEF q
    <3> QED
      BY <2>2, <3>2, <3>3, SameBook, OtherState
  <2> QED
    BY <2>1, <2>2, <2>3, Bounds, TypedStays DEF EntryStages, Quoting, EntryTyped
<1>2. CASE Orders!Count
  <2>1. PICK filled \in 0 .. Size : Orders!Counts(filled)
    <3>1. step = "count"
      BY <1>2 DEF Orders!Count, Orders!Counts
    <3>2. Len(book) \in DOMAIN book
      BY <3>1, Bounds DEF EntryTyped, Quoting
    <3>3. Orders!Quoted.filled \in 0 .. Size /\ seen \in 0 .. Size
      BY <3>2, Bounds DEF Orders!Quoted, Orders!Last
    <3> QED
      BY <1>2, <3>3 DEF Orders!Count
  <2>2. /\ step = "count" /\ filledMaker' = filled
        /\ UNCHANGED <<world, entries, seen, book, position, stops, targets, tracked, manual>>
        /\ \/ attempt < MaxRequotes /\ step' = "quote" /\ attempt' = attempt + 1
           \/ step' = "taker" /\ attempt' = attempt
           \/ step' = "plans" /\ attempt' = 1
    BY <2>1 DEF Orders!Counts, Orders!Requotes, Orders!plans, Orders!engine
  <2>3. entries > 0 /\ attempt <= MaxRequotes
    BY <2>2 DEF EntryTyped, Quoting
  <2> QED
    BY <2>2, <2>3, Bounds, SameBook, TypedStays DEF EntryStages, Quoting
<1>3. CASE Orders!Taker
  <2>1. /\ step = "taker" /\ step' \in {"insert", "plans"} /\ attempt' = 1
        /\ position' = position + Size - filledMaker
        /\ stops' \subseteq stops \cup {entries} /\ targets' \subseteq targets \cup {entries}
        /\ UNCHANGED <<world, entries, filledMaker, seen, book, tracked, manual>>
    BY <1>3 DEF Orders!Taker, Orders!plans, Orders!engine
  <2>2. entries > 0
    BY <2>1 DEF EntryTyped
  <2>3. position' \in Nat /\ entries \in 1 .. entries
    BY <2>1, <2>2, Bounds
  <2>4. stops' \subseteq 1 .. entries /\ targets' \subseteq 1 .. entries
    BY <2>1, <2>3, Bounds
  <2> QED
    BY <2>1, <2>2, <2>3, <2>4, Bounds, SameBook, TypedStays DEF EntryStages, Quoting
<1>4. CASE Orders!Exchange
  <2>1. PICK i \in DOMAIN book : Orders!Voided(i) \/ \E n \in 1 .. Size : Orders!Fill(i, n)
    BY <1>4 DEF Orders!Exchange
  <2>2. UNCHANGED <<world, step, entries, attempt, filledMaker, seen, stops, targets, tracked,
                    manual>>
    BY <2>1 DEF Orders!Voided, Orders!Fill, Orders!plans, Orders!engine
  <2>3. /\ position' \in Nat /\ book' \in Seq(Orders!Order) /\ Len(book') = Len(book)
        /\ \A k \in DOMAIN book' :
              book'[k].left + book'[k].filled = Size /\ (Orders!Live(k)' => book'[k].left > 0)
    <3>1. /\ book[i] \in Orders!Order /\ book[i].left \in Nat /\ book[i].filled \in 0 .. Size
          /\ book[i].left + book[i].filled = Size
      BY Bounds
    <3>2. CASE Orders!Voided(i)
      <4> DEFINE q == [book[i] EXCEPT !.live = FALSE]
      <4>1. q \in Orders!Order /\ q.left + q.filled = Size /\ ~q.live
        BY <3>1 DEF Orders!Order
      <4>2. book' = [book EXCEPT ![i] = q] /\ position' = position
        BY <3>2 DEF Orders!Voided
      <4> HIDE DEF q
      <4> QED
        BY <4>1, <4>2, Bounds, OtherState
    <3>3. ASSUME NEW n \in 1 .. Size, Orders!Fill(i, n)
          PROVE  /\ position' \in Nat /\ book' \in Seq(Orders!Order) /\ Len(book') = Len(book)
                 /\ \A k \in DOMAIN book' :
                       book'[k].left + book'[k].filled = Size
                        /\ (Orders!Live(k)' => book'[k].left > 0)
      <4> DEFINE l == book[i].left
                 f == book[i].filled
                 live == n < l
                 q == [left |-> l - n, filled |-> f + n, live |-> live]
      <4>1. n <= l /\ book' = [book EXCEPT ![i] = q] /\ position' = position + n
        BY <3>3 DEF Orders!Fill
      <4>2. l \in Nat /\ f \in 0 .. Size /\ l + f = Size /\ Size \in Nat
        BY <3>1, Bounds
      <4> HIDE DEF l, f
      <4>5. live \in BOOLEAN /\ (live => n < l)
        OBVIOUS
      <4>6. l - n \in 0 .. Size /\ f + n \in 0 .. Size /\ (l - n) + (f + n) = Size /\ (n < l => l -
            n > 0)
        BY <4>1, <4>2
      <4> HIDE DEF live
      <4>3. q \in Orders!Order /\ q.left + q.filled = Size /\ (q.live => q.left > 0)
        BY <4>5, <4>6 DEF Orders!Order
      <4> HIDE DEF q
      <4>4. position' \in Nat
        BY <4>1, Bounds
      <4> QED
        BY <4>1, <4>3, <4>4, OtherState
    <3> QED
      BY <2>1, <3>2, <3>3
  <2> QED
    BY <2>2, <2>3, Bounds, TypedStays DEF EntryTyped
<1> QED
  BY <1>1, <1>2, <1>3, <1>4

LEMMA PlansTyped ==
    ASSUME Orders!OrderEntryAssumption, EntryTyped,
           \/ Orders!Protect \/ Orders!Emergency \/ Orders!EmergencyFails
           \/ Orders!Insert \/ Orders!Crash
    PROVE  EntryTyped'
<1>1. CASE Orders!Protect
  <2>1. /\ step = "plans" /\ step' \in {"plans", "insert", "emergency"}
        /\ step' = "plans" => attempt < MaxAttempts
        /\ attempt' = attempt + 1 /\ manual' \in BOOLEAN
        /\ UNCHANGED <<world, entries, filledMaker, seen, book, position, tracked>>
    BY <1>1 DEF Orders!Protect
  <2>2. entries > 0 /\ attempt <= MaxAttempts
    BY <2>1 DEF EntryTyped
  <2>3. stops' \subseteq 1 .. entries /\ targets' \subseteq 1 .. entries
    <3>1. entries \in 1 .. entries
      BY <2>2, Bounds
    <3>2. stops' \subseteq stops \cup {entries} /\ targets' \subseteq targets \cup {entries}
      BY <1>1 DEF Orders!Protect, Orders!Places
    <3> QED
      BY <3>1, <3>2, Bounds
  <2>4. attempt' \in 1 .. MaxAttempts + 1 /\ (step' = "plans" => attempt' <= MaxAttempts)
    BY <2>1, <2>2, Bounds
  <2> QED
    BY <2>1, <2>2, <2>3, <2>4, Bounds, SameBook, TypedStays DEF EntryStages, Quoting
<1>2. CASE Orders!Emergency
  <2>1. /\ step = "emergency" /\ step' = "idle" /\ position' \in Nat
        /\ targets' \subseteq targets
        /\ UNCHANGED <<world, entries, attempt, filledMaker, seen, book, stops, tracked, manual>>
    BY <1>2, Bounds DEF Orders!Emergency, Orders!engine
  <2>2. targets' \subseteq 1 .. entries
    BY <2>1, Bounds
  <2> QED
    BY <2>1, <2>2, Bounds, SameBook, TypedStays DEF EntryStages, Quoting
<1>3. CASE Orders!EmergencyFails \/ Orders!Insert
  <2>1. /\ step \in {"emergency", "insert"} /\ step' \in {"insert", "idle"}
        /\ manual' \in BOOLEAN /\ tracked' \in {tracked, entries}
        /\ UNCHANGED <<world, entries, attempt, filledMaker, seen, book, position, stops, targets>>
    BY <1>3, Bounds DEF Orders!EmergencyFails, Orders!Insert, Orders!plans
  <2>2. entries > 0
    BY <2>1 DEF EntryTyped
  <2> QED
    BY <2>1, <2>2, Bounds, SameBook, TypedStays DEF EntryStages, Quoting
<1>4. CASE Orders!Crash
  <2>1. /\ step' = "idle" /\ manual' = FALSE
        /\ UNCHANGED <<world, entries, attempt, filledMaker, seen, book, position, stops, targets,
                       tracked>>
    BY <1>4 DEF Orders!Crash, Orders!plans
  <2>2. manual' \in BOOLEAN
    BY <2>1, Zenon
  <2> QED
    BY <2>1, <2>2, Bounds, SameBook, TypedStays DEF EntryStages, Quoting
<1> QED
  BY <1>1, <1>2, <1>3, <1>4

LEMMA NextTyped ==
  Orders!OrderEntryAssumption /\ EntryTyped /\ [Orders!Next]_(Orders!vars) => EntryTyped'
<1> SUFFICES ASSUME Orders!OrderEntryAssumption, EntryTyped, [Orders!Next]_(Orders!vars)
             PROVE  EntryTyped'
  OBVIOUS
<1>1. CASE UNCHANGED Orders!vars
  BY <1>1 DEF Orders!vars, Orders!plans, Orders!engine, EntryTyped, Orders!TypeOK, Orders!Live,
              Orders!Order
<1>2. CASE Orders!Next
  BY <1>2, QuotesTyped, FillsTyped, PlansTyped DEF Orders!Next, Orders!Entering
<1> QED
  BY <1>1, <1>2

\* Orders, fills, plan orders and attempts stay within their types, and the attempts within
\* their limits, whatever fails.
THEOREM EntryTypeCorrect == Orders!OrderEntryAssumption => (Orders!Spec => []Orders!TypeOK)
<1> SUFFICES ASSUME Orders!OrderEntryAssumption PROVE Orders!Spec => []Orders!TypeOK
  OBVIOUS
<1>1. Orders!Init => EntryTyped
  BY InitTyped
<1>2. EntryTyped /\ [Orders!Next]_(Orders!vars) => EntryTyped'
  BY NextTyped
<1>3. EntryTyped => Orders!TypeOK
  BY DEF EntryTyped
<1> QED
  BY <1>1, <1>2, <1>3, PTL DEF Orders!Spec
----------------------------------------------------------------------------
(* What an entry holds, stage by stage, where no call fails without a trace *)

Held ==
    CASE step = "idle"  -> IF tracked = 0 THEN 0 ELSE Size
      [] step = "quote" -> 0
      [] step \in Quoting -> Orders!Quoted.filled
      [] step = "taker" -> filledMaker
      [] OTHER -> Size

\* Only the quote of this entry can be live, and only until it is cancelled; nothing is
\* counted before that; what is inserted has a stop loss or is watched.
OrderWhole ==
    /\ \A i \in DOMAIN book : Orders!Live(i) => i = Len(book) /\ step \in {"resting", "cancel"}
    /\ position = Held
    /\ step \in {"quote"} \cup Quoting => Orders!Maker /\ filledMaker = 0
    /\ ~Orders!Maker => filledMaker = 0
    /\ tracked # 0 => step = "idle" /\ (tracked \in stops \/ manual)
    /\ step = "insert" => entries \in stops \/ manual

OrderInv == EntryTyped /\ (Orders!Reliable => OrderWhole)

\* The stages of Held, one by one, before and after a step.
LEMMA HeldAt ==
    ASSUME OrderWhole
    PROVE  /\ step = "idle" /\ tracked = 0 => position = 0
           /\ step = "idle" /\ tracked # 0 => position = Size
           /\ step = "quote" => position = 0
           /\ step \in Quoting => position = Orders!Quoted.filled
           /\ step = "taker" => position = filledMaker
           /\ step \in {"plans", "emergency", "insert"} => position = Size
BY DEF OrderWhole, Held, Quoting

LEMMA HeldNext ==
    ASSUME step' \in EntryStages,
           step' = "idle" => position' = IF tracked' = 0 THEN 0 ELSE Size,
           step' = "quote" => position' = 0,
           step' \in Quoting => position' = Orders!Quoted'.filled,
           step' = "taker" => position' = filledMaker',
           step' \in {"plans", "emergency", "insert"} => position' = Size
    PROVE  position' = Held'
BY DEF Held, EntryStages, Quoting

LEMMA ReliableStays ==
    ASSUME Orders!Reliable, world' = world
    PROVE  /\ (Orders!Maker <=> Orders!Maker')
           /\ world \cap {"fetch_fails", "cancel_fails", "crash"} = {}
           /\ Orders!Maker => "order_fails" \notin world
BY DEF Orders!Reliable, Orders!Maker

\* A step that leaves the book alone and finds no quote under way.
LEMMA NoQuoteLive ==
    ASSUME OrderWhole, book' = book, step \notin {"resting", "cancel"}
    PROVE  \A i \in DOMAIN book' : ~Orders!Live(i)'
BY DEF OrderWhole, Orders!Live

LEMMA QuotesWhole ==
    ASSUME Orders!OrderEntryAssumption, EntryTyped, Orders!Reliable, OrderWhole,
           \/ Orders!Signal \/ Orders!Quote \/ Orders!QuoteRejected
           \/ Orders!NoTicker \/ Orders!OrderFails \/ Orders!Poll \/ Orders!Deadline
    PROVE  OrderWhole'
<1>0. world' = world
  BY DEF Orders!Signal, Orders!Quote, Orders!QuoteRejected, Orders!NoTicker, Orders!OrderFails,
         Orders!Poll, Orders!Deadline
<1>1. CASE Orders!Signal
  <2>1. /\ step = "idle" /\ tracked = 0 /\ book' = book /\ position' = position /\ tracked' = 0
        /\ filledMaker' = 0 /\ step' = IF Orders!Maker THEN "quote" ELSE "taker"
    BY <1>1 DEF Orders!Signal, Orders!engine
  <2>2. position' = Held'
    BY <2>1, HeldAt, HeldNext DEF EntryStages, Quoting
  <2>3. \A i \in DOMAIN book' : ~Orders!Live(i)'
    BY <2>1, NoQuoteLive
  <2> QED
    BY <1>0, <2>1, <2>2, <2>3, ReliableStays DEF OrderWhole, Quoting
<1>2. CASE Orders!Quote
  <2>1. /\ step = "quote" /\ step' = "resting"
        /\ UNCHANGED <<entries, filledMaker, position, stops, targets, tracked, manual>>
    BY <1>2 DEF Orders!Quote, Orders!plans, Orders!engine
  <2>2. /\ Len(book') = Len(book) + 1 /\ book'[Len(book')].filled = 0
        /\ \A i \in DOMAIN book' : (i \in DOMAIN book /\ (Orders!Live(i)' <=> Orders!Live(i))) \/ i
              = Len(book')
    BY <1>2, NewQuote DEF Orders!Quote
  <2>3. \A i \in DOMAIN book : ~Orders!Live(i)
    BY <2>1 DEF OrderWhole
  <2>4. \A i \in DOMAIN book' : Orders!Live(i)' => i = Len(book')
    BY <2>2, <2>3
  <2>5. Orders!Quoted'.filled = 0
    BY <2>2 DEF Orders!Quoted, Orders!Last
  <2>6. position' = Held'
    BY <2>1, <2>5, HeldAt, HeldNext DEF EntryStages, Quoting
  <2> QED
    BY <1>0, <2>1, <2>4, <2>6, ReliableStays DEF OrderWhole, Quoting
<1>3. CASE Orders!QuoteRejected \/ Orders!NoTicker
  <2>1. /\ step = "quote" /\ step' \in {"quote", "taker"}
        /\ UNCHANGED <<entries, filledMaker, book, position, stops, targets, tracked, manual>>
    BY <1>3 DEF Orders!QuoteRejected, Orders!NoTicker, Orders!Requotes, Orders!plans, Orders!engine
  <2>2. \A i \in DOMAIN book' : ~Orders!Live(i)'
    BY <2>1, NoQuoteLive
  <2>3. filledMaker' = 0 /\ tracked' = 0 /\ Orders!Maker
    BY <2>1 DEF OrderWhole
  <2>4. position' = Held'
    BY <2>1, <2>3, HeldAt, HeldNext DEF EntryStages, Quoting
  <2> QED
    BY <1>0, <2>1, <2>2, <2>3, <2>4, ReliableStays DEF OrderWhole, Quoting
<1>4. CASE Orders!OrderFails
  <2>1. /\ "order_fails" \in world /\ step \in {"quote", "taker"} /\ step' = "idle"
        /\ UNCHANGED <<entries, filledMaker, book, position, stops, targets, tracked, manual>>
    BY <1>4 DEF Orders!OrderFails, Orders!plans, Orders!engine
  <2>2. ~Orders!Maker
    BY <1>0, <2>1, ReliableStays
  <2>3. step = "taker" /\ filledMaker = 0 /\ tracked = 0
    BY <2>1, <2>2 DEF OrderWhole
  <2>4. \A i \in DOMAIN book' : ~Orders!Live(i)'
    BY <2>1, <2>3, NoQuoteLive
  <2>5. position' = Held'
    BY <2>1, <2>3, HeldAt, HeldNext DEF EntryStages, Quoting
  <2> QED
    BY <1>0, <2>1, <2>3, <2>4, <2>5, ReliableStays DEF OrderWhole, Quoting
<1>5. CASE Orders!Poll
  <2>1. /\ step = "resting" /\ book' = book
        /\ UNCHANGED <<entries, position, stops, targets, tracked, manual>>
    BY <1>5 DEF Orders!Poll, Orders!plans, Orders!engine
  <2>2. Len(book) \in DOMAIN book /\ Orders!Quoted = book[Len(book)] /\ Orders!Quoted' =
        Orders!Quoted
    BY <2>1, Bounds DEF Orders!Quoted, Orders!Last, EntryTyped, Quoting
  <2>3. tracked' = 0 /\ Orders!Maker /\ filledMaker = 0
    BY <2>1 DEF OrderWhole, Quoting
  <2>4. Orders!Quoted.left + Orders!Quoted.filled = Size /\ (Orders!Live(Len(book)) =>
        Orders!Quoted.left > 0)
        /\ Orders!Quoted.filled \in 0 .. Size /\ Orders!Quoted.left \in Nat
    BY <2>2, Bounds
  <2>5. \A i \in DOMAIN book' : Orders!Live(i)' => i = Len(book') /\ Orders!Live(i)
    BY <2>1 DEF OrderWhole, Orders!Live
  <2>6. CASE Orders!Quoted.left = 0
    <3>1. step' = "plans" /\ ~Orders!Live(Len(book)) /\ Orders!Quoted.filled = Size
      BY <1>5, <2>4, <2>6, Bounds DEF Orders!Poll
    <3>2. \A i \in DOMAIN book' : ~Orders!Live(i)'
      BY <2>1, <2>5, <3>1
    <3>3. position' = Held'
      BY <2>1, <3>1, HeldAt, HeldNext DEF EntryStages, Quoting
    <3> QED
      BY <1>0, <2>3, <3>1, <3>2, <3>3, ReliableStays DEF OrderWhole, Quoting
  <2>7. CASE Orders!Quoted.left # 0
    <3>1. step' \in {"resting", "cancel"} /\ filledMaker' = 0
      BY <1>5, <2>3, <2>7 DEF Orders!Poll
    <3>2. position' = Held'
      BY <2>1, <2>2, <3>1, HeldAt, HeldNext DEF EntryStages, Quoting
    <3> QED
      BY <1>0, <2>3, <2>5, <3>1, <3>2, ReliableStays DEF OrderWhole, Quoting
  <2> QED
    BY <2>6, <2>7
<1>6. CASE Orders!Deadline
  <2>1. /\ step = "resting" /\ step' = "cancel"
        /\ UNCHANGED <<entries, filledMaker, book, position, stops, targets, tracked, manual>>
    BY <1>6 DEF Orders!Deadline, Orders!plans, Orders!engine
  <2>2. Orders!Quoted' = Orders!Quoted
    BY <2>1 DEF Orders!Quoted, Orders!Last
  <2>3. tracked' = 0 /\ Orders!Maker /\ filledMaker' = 0
    BY <2>1 DEF OrderWhole, Quoting
  <2>4. \A i \in DOMAIN book' : Orders!Live(i)' => i = Len(book')
    BY <2>1 DEF OrderWhole, Orders!Live
  <2>5. position' = Held'
    BY <2>1, <2>2, HeldAt, HeldNext DEF EntryStages, Quoting
  <2> QED
    BY <1>0, <2>1, <2>3, <2>4, <2>5, ReliableStays DEF OrderWhole, Quoting
<1> QED
  BY <1>1, <1>2, <1>3, <1>4, <1>5, <1>6

LEMMA FillsWhole ==
    ASSUME Orders!OrderEntryAssumption, EntryTyped, Orders!Reliable, OrderWhole,
           Orders!Cancel \/ Orders!Count \/ Orders!Taker \/ Orders!Exchange
    PROVE  OrderWhole'
<1>1. CASE Orders!Cancel
  <2>1. /\ step = "cancel" /\ step' = "count" /\ book' = [book EXCEPT ![Len(book)].live = FALSE]
        /\ UNCHANGED <<world, entries, filledMaker, position, stops, targets, tracked, manual>>
    BY <1>1, ReliableStays DEF Orders!Cancel, Orders!plans, Orders!engine
  <2>2. Len(book) \in DOMAIN book
    BY <2>1, Bounds DEF EntryTyped, Quoting
  <2>3. /\ Len(book') = Len(book) /\ DOMAIN book' = DOMAIN book
        /\ ~book'[Len(book)].live /\ book'[Len(book)].filled = book[Len(book)].filled
        /\ \A i \in DOMAIN book : i # Len(book) => book'[i] = book[i]
    <3> DEFINE q == [book[Len(book)] EXCEPT !.live = FALSE]
    <3>1. book[Len(book)] \in Orders!Order /\ book[Len(book)].left + book[Len(book)].filled = Size
      BY <2>2, Bounds
    <3>2. /\ q \in Orders!Order /\ q.left + q.filled = Size /\ ~q.live
          /\ q.filled = book[Len(book)].filled
      BY <3>1 DEF Orders!Order
    <3>3. book' = [book EXCEPT ![Len(book)] = q]
      BY <2>1
    <3> HIDE DEF q
    <3> QED
      BY <2>2, <3>2, <3>3, OtherState
  <2>4. \A i \in DOMAIN book' : ~Orders!Live(i)'
    BY <2>3 DEF OrderWhole, Orders!Live
  <2>5. Orders!Quoted'.filled = Orders!Quoted.filled
    BY <2>3 DEF Orders!Quoted, Orders!Last
  <2>6. tracked' = 0 /\ Orders!Maker /\ filledMaker' = 0
    BY <2>1 DEF OrderWhole, Quoting
  <2>7. position' = Held'
    BY <2>1, <2>5, HeldAt, HeldNext DEF EntryStages, Quoting
  <2> QED
    BY <2>1, <2>4, <2>6, <2>7, ReliableStays DEF OrderWhole, Quoting
<1>2. CASE Orders!Count
  <2>1. Orders!Counts(Orders!Quoted.filled) /\ world' = world
    BY <1>2, ReliableStays DEF Orders!Count, Orders!Counts, Orders!Reliable
  <2>2. /\ step = "count" /\ filledMaker' = Orders!Quoted.filled
        /\ UNCHANGED <<entries, book, position, stops, targets, tracked, manual>>
        /\ \/ Orders!Quoted.filled = 0 /\ step' \in {"quote", "taker"}
           \/ step' = "taker"
           \/ Orders!Quoted.filled = Size /\ step' = "plans"
    BY <2>1 DEF Orders!Counts, Orders!Requotes, Orders!plans, Orders!engine
  <2>3. position' = Orders!Quoted.filled
    BY <2>2, HeldAt DEF Quoting
  <2>4. tracked' = 0 /\ Orders!Maker
    BY <2>2 DEF OrderWhole, Quoting
  <2>5. \A i \in DOMAIN book' : ~Orders!Live(i)'
    BY <2>2, NoQuoteLive
  <2>6. step' = "quote" => filledMaker' = 0
    BY <2>2
  <2>7. position' = Held'
    BY <2>2, <2>3, HeldNext DEF EntryStages, Quoting
  <2> QED
    BY <2>1, <2>2, <2>4, <2>5, <2>6, <2>7, ReliableStays DEF OrderWhole, Quoting
<1>3. CASE Orders!Taker
  <2>1. /\ step = "taker" /\ step' \in {"insert", "plans"}
        /\ position' = position + Size - filledMaker
        /\ step' = "insert" => stops' = stops \cup {entries}
        /\ UNCHANGED <<world, entries, filledMaker, book, tracked, manual>>
    BY <1>3 DEF Orders!Taker, Orders!engine
  <2>2. position' = Size
    BY <2>1, HeldAt, Bounds
  <2>3. tracked' = 0
    BY <2>1 DEF OrderWhole
  <2>4. \A i \in DOMAIN book' : ~Orders!Live(i)'
    BY <2>1, NoQuoteLive
  <2>5. position' = Held'
    BY <2>1, <2>2, HeldNext DEF EntryStages, Quoting
  <2> QED
    BY <2>1, <2>3, <2>4, <2>5, ReliableStays DEF OrderWhole, Quoting
<1>4. CASE Orders!Exchange
  <2>1. PICK i \in DOMAIN book : Orders!Voided(i) \/ \E n \in 1 .. Size : Orders!Fill(i, n)
    BY <1>4 DEF Orders!Exchange
  <2>2. /\ UNCHANGED <<world, step, entries, filledMaker, stops, targets, tracked, manual>>
        /\ Orders!Live(i)
    BY <2>1 DEF Orders!Voided, Orders!Fill, Orders!plans, Orders!engine
  <2>3. i = Len(book) /\ step \in {"resting", "cancel"} /\ tracked' = 0 /\ Orders!Maker
        /\ filledMaker
        = 0
    BY <2>2 DEF OrderWhole, Quoting
  <2>4. /\ book[i] \in Orders!Order /\ book[i].left \in Nat /\ book[i].filled \in 0 .. Size
        /\ book[i].left + book[i].filled = Size
    BY Bounds
  <2>5. position = book[i].filled
    BY <2>3, HeldAt DEF Quoting, Orders!Quoted, Orders!Last
  <2>6. /\ Len(book') = Len(book) /\ DOMAIN book' = DOMAIN book
        /\ book'[i].filled = position'
        /\ \A k \in DOMAIN book : k # i => book'[k] = book[k]
    <3>1. CASE Orders!Voided(i)
      <4> DEFINE q == [book[i] EXCEPT !.live = FALSE]
      <4>1. q \in Orders!Order /\ q.left + q.filled = Size /\ ~q.live /\ q.filled = book[i].filled
        BY <2>4 DEF Orders!Order
      <4>2. book' = [book EXCEPT ![i] = q] /\ position' = position
        BY <3>1 DEF Orders!Voided
      <4> HIDE DEF q
      <4> QED
        BY <2>5, <4>1, <4>2, OtherState
    <3>2. ASSUME NEW n \in 1 .. Size, Orders!Fill(i, n)
          PROVE  /\ Len(book') = Len(book) /\ DOMAIN book' = DOMAIN book
                 /\ book'[i].filled = position'
                 /\ \A k \in DOMAIN book : k # i => book'[k] = book[k]
      <4> DEFINE q == [left |-> book[i].left - n, filled |-> book[i].filled + n,
                       live |-> n < book[i].left]
      <4>1. book' = [book EXCEPT ![i] = q] /\ position' = position + n
        BY <3>2 DEF Orders!Fill
      <4>2. q.filled = position'
        BY <2>5, <4>1
      <4> HIDE DEF q
      <4> QED
        BY <4>1, <4>2, Bounds, ExceptSeq
    <3> QED
      BY <2>1, <3>1, <3>2
  <2>7. \A k \in DOMAIN book' : Orders!Live(k)' => k = Len(book')
    BY <2>3, <2>6 DEF OrderWhole, Orders!Live
  <2>8. Orders!Quoted'.filled = position'
    BY <2>3, <2>6 DEF Orders!Quoted, Orders!Last
  <2>9. position' = Held'
    BY <2>2, <2>3, <2>8, HeldNext DEF EntryStages, Quoting
  <2> QED
    BY <2>2, <2>3, <2>7, <2>9, ReliableStays DEF OrderWhole, Quoting
<1> QED
  BY <1>1, <1>2, <1>3, <1>4

LEMMA PlansWhole ==
    ASSUME Orders!OrderEntryAssumption, EntryTyped, Orders!Reliable, OrderWhole,
           \/ Orders!Protect \/ Orders!Emergency \/ Orders!EmergencyFails
           \/ Orders!Insert \/ Orders!Crash
    PROVE  OrderWhole'
<1>1. ~Orders!Crash
  BY DEF Orders!Crash, Orders!Reliable
<1>2. CASE Orders!Protect
  <2>1. /\ step = "plans" /\ step' \in {"plans", "insert", "emergency"}
        /\ step' = "insert" => entries \in stops'
        /\ UNCHANGED <<world, entries, filledMaker, book, position, tracked>>
    BY <1>2 DEF Orders!Protect
  <2>2. tracked' = 0
    BY <2>1 DEF OrderWhole
  <2>3. \A i \in DOMAIN book' : ~Orders!Live(i)'
    BY <2>1, NoQuoteLive
  <2>4. position' = Held'
    BY <2>1, HeldAt, HeldNext DEF EntryStages, Quoting
  <2> QED
    BY <2>1, <2>2, <2>3, <2>4, ReliableStays DEF OrderWhole, Quoting
<1>3. CASE Orders!Emergency
  <2>1. /\ step = "emergency" /\ step' = "idle"
        /\ position' = IF position > Size THEN position - Size ELSE 0
        /\ UNCHANGED <<world, entries, filledMaker, book, stops, tracked, manual>>
    BY <1>3 DEF Orders!Emergency, Orders!engine
  <2>2. tracked' = 0
    BY <2>1 DEF OrderWhole
  <2>3. position' = 0
    BY <2>1, HeldAt, Bounds
  <2>4. \A i \in DOMAIN book' : ~Orders!Live(i)'
    BY <2>1, NoQuoteLive
  <2>5. position' = Held'
    BY <2>1, <2>2, <2>3, HeldNext DEF EntryStages, Quoting
  <2> QED
    BY <2>1, <2>2, <2>4, <2>5, ReliableStays DEF OrderWhole, Quoting
<1>4. CASE Orders!EmergencyFails
  <2>1. /\ step = "emergency" /\ step' = "insert" /\ manual' = TRUE
        /\ UNCHANGED <<world, entries, filledMaker, book, position, tracked>>
    BY <1>4 DEF Orders!EmergencyFails
  <2>2. tracked' = 0
    BY <2>1 DEF OrderWhole
  <2>3. \A i \in DOMAIN book' : ~Orders!Live(i)'
    BY <2>1, NoQuoteLive
  <2>4. position' = Held'
    BY <2>1, HeldAt, HeldNext DEF EntryStages, Quoting
  <2> QED
    BY <2>1, <2>2, <2>3, <2>4, ReliableStays DEF OrderWhole, Quoting
<1>5. CASE Orders!Insert
  <2>1. /\ step = "insert" /\ step' = "idle" /\ tracked' = entries /\ entries # 0
        /\ UNCHANGED <<world, entries, filledMaker, book, position, stops, manual>>
    BY <1>5, Bounds DEF Orders!Insert, Orders!plans, EntryTyped
  <2>2. tracked' \in stops' \/ manual'
    BY <2>1 DEF OrderWhole
  <2>3. \A i \in DOMAIN book' : ~Orders!Live(i)'
    BY <2>1, NoQuoteLive
  <2>4. position' = Held'
    BY <2>1, HeldAt, HeldNext DEF EntryStages, Quoting
  <2> QED
    BY <2>1, <2>2, <2>3, <2>4, ReliableStays DEF OrderWhole, Quoting
<1> QED
  BY <1>1, <1>2, <1>3, <1>4, <1>5

LEMMA InitWhole == Orders!OrderEntryAssumption /\ Orders!Init => OrderInv
<1> SUFFICES ASSUME Orders!OrderEntryAssumption, Orders!Init PROVE OrderInv
  OBVIOUS
<1>1. EntryTyped
  BY InitTyped
<1>2. OrderWhole
  BY DEF Orders!Init, Orders!Idles, OrderWhole, Held, Quoting
<1> QED
  BY <1>1, <1>2 DEF OrderInv

LEMMA NextWhole ==
  Orders!OrderEntryAssumption /\ OrderInv /\ [Orders!Next]_(Orders!vars) => OrderInv'
<1> SUFFICES ASSUME Orders!OrderEntryAssumption, OrderInv, [Orders!Next]_(Orders!vars)
             PROVE  OrderInv'
  OBVIOUS
<1>1. EntryTyped /\ EntryTyped'
  BY NextTyped DEF OrderInv
<1>2. CASE UNCHANGED Orders!vars
  BY <1>1, <1>2 DEF Orders!vars, Orders!plans, Orders!engine, OrderInv, OrderWhole, Held,
                    Orders!Live, Orders!Quoted, Orders!Last, Orders!Maker, Orders!Reliable
<1>3. CASE Orders!Next
  <2>1. world' = world
    BY <1>3 DEF Orders!Next, Orders!Entering, Orders!Exchange, Orders!Signal, Orders!Quote,
                Orders!QuoteRejected, Orders!NoTicker, Orders!OrderFails,
                Orders!Poll, Orders!Deadline, Orders!Cancel, Orders!Count, Orders!Counts,
                Orders!Taker, Orders!Protect, Orders!Emergency, Orders!EmergencyFails,
                Orders!Insert, Orders!Crash, Orders!Voided, Orders!Fill
  <2>2. Orders!Reliable' => Orders!Reliable
    BY <2>1 DEF Orders!Reliable
  <2>3. ASSUME Orders!Reliable
        PROVE  OrderWhole'
    BY <1>1, <1>3, <2>3, QuotesWhole, FillsWhole, PlansWhole
       DEF Orders!Next, Orders!Entering, OrderInv
  <2> QED
    BY <1>1, <2>2, <2>3 DEF OrderInv
<1> QED
  BY <1>2, <1>3

LEMMA OrderTracks == OrderInv => Orders!TrackedIsWhole
BY HeldAt DEF OrderInv, OrderWhole, Orders!TrackedIsWhole

LEMMA OrderProtects == OrderInv => Orders!EntryProtected
<1> SUFFICES ASSUME OrderInv, Orders!Reliable, step = "idle", position > 0
             PROVE  tracked # 0 /\ (tracked \in stops \/ manual)
  BY DEF Orders!EntryProtected
<1>1. tracked # 0
  BY HeldAt DEF OrderInv
<1> QED
  BY <1>1 DEF OrderInv, OrderWhole

\* openPositionMaker, the polls, the cancel and the count after it: unless a call fails without
\* a trace, what is tracked is the whole order and no more, however quotes and fills cross,
\* and no quote is left to add to it.
THEOREM OrderIsWhole == Orders!OrderEntryAssumption => (Orders!Spec => []Orders!TrackedIsWhole)
<1> SUFFICES ASSUME Orders!OrderEntryAssumption PROVE Orders!Spec => []Orders!TrackedIsWhole
  OBVIOUS
<1>1. Orders!Init => OrderInv
  BY InitWhole
<1>2. OrderInv /\ [Orders!Next]_(Orders!vars) => OrderInv'
  BY NextWhole
<1>3. OrderInv => Orders!TrackedIsWhole
  BY OrderTracks
<1> QED
  BY <1>1, <1>2, <1>3, PTL DEF Orders!Spec

\* The stop loss and its retries, the emergency close and the software watch: when an entry
\* is over, its position is tracked and has a stop loss or is watched, whichever of these fail.
THEOREM EntryIsProtected == Orders!OrderEntryAssumption => (Orders!Spec => []Orders!EntryProtected)
<1> SUFFICES ASSUME Orders!OrderEntryAssumption PROVE Orders!Spec => []Orders!EntryProtected
  OBVIOUS
<1>1. Orders!Init => OrderInv
  BY InitWhole
<1>2. OrderInv /\ [Orders!Next]_(Orders!vars) => OrderInv'
  BY NextWhole
<1>3. OrderInv => Orders!EntryProtected
  BY OrderProtects
<1> QED
  BY <1>1, <1>2, <1>3, PTL DEF Orders!Spec
----------------------------------------------------------------------------
(* CandleCache *)

\* Rows are candles of bars that had begun when they were fetched, by the time n.
Candled(c, n) ==
    /\ c = [b \in DOMAIN c |-> c[b]]
    /\ \A b \in DOMAIN c : b \in Nat /\ c[b] \in Nat /\ 2 * b <= c[b] /\ c[b] <= n

\* So are those of the table, each stored when it was fetched or later.
TableCandled ==
    \A b \in DOMAIN table :
        /\ b \in Nat /\ table[b].asof \in Nat /\ table[b].at \in Nat
        /\ 2 * b <= table[b].asof /\ table[b].asof <= table[b].at /\ table[b].at <= now

\* The calls at the gate are those of the fetches and of the backtest that wait for an answer.
CallsTyped ==
    /\ gate \in Seq(Fetchers \cup {"history"}) /\ Candles!IsInjective(gate)
    /\ fetch \in [Fetchers -> {"idle", "calling", "waits"}] /\ tries \in [Fetchers -> 0..3]
    /\ \A e \in Fetchers : fetch[e] = "calling" <=> e \in Candles!Range(gate)
    /\ wanted.at = "calling" <=> "history" \in Candles!Range(gate)

RowsTyped ==
    /\ world \in CandleWorlds /\ now \in 0..MaxTime /\ requests \in 0..MaxRequests
    /\ TableCandled
    /\ \A w \in writes : /\ w.by \in Fetchers \cup {"history"}
                         /\ Candled(w.rows, now) /\ DOMAIN w.rows # {}
    /\ pool = [rows |-> pool.rows, used |-> pool.used]
    /\ Candled(pool.rows, now) /\ Candled(wanted.have, now)
    /\ got.from \in {"none", "cache", "exchange", "stale", "simulated"}

LEMMA Ticks ==
    ASSUME NEW n \in Nat
    PROVE  n \div 2 \in Nat /\ 2 * (n \div 2) <= n /\ n < 2 * (n \div 2) + 2
OBVIOUS

LEMMA NoRows == \A n : Candled(Candles!None, n) /\ DOMAIN Candles!None = {}
BY DEF Candled, Candles!None

LEMMA NoneIsEmpty ==
    ASSUME NEW c, NEW n, Candled(c, n), c # Candles!None
    PROVE  DOMAIN c # {}
<1> SUFFICES ASSUME DOMAIN c = {} PROVE c = Candles!None
  OBVIOUS
<1>1. c = [b \in DOMAIN c |-> c[b]]
  BY DEF Candled
<1>2. [b \in DOMAIN c |-> c[b]] = [b \in {} |-> 0]
  OBVIOUS
<1> QED
  BY <1>1, <1>2 DEF Candles!None

LEMMA LaterRows ==
    ASSUME NEW c, NEW n \in Nat, Candled(c, n)
    PROVE  Candled(c, n + 1)
BY DEF Candled

LEMMA OverIs ==
    ASSUME NEW c, NEW d, NEW n, Candled(c, n), Candled(d, n)
    PROVE  Candled(Candles!Over(c, d), n)
BY DEF Candled, Candles!Over

LEMMA FetchedIs ==
    ASSUME now \in Nat, NEW bars
    PROVE  Candled(Candles!Fetched(bars), now)
<1>1. \A b \in 0 .. Candles!Cur : b \in Nat /\ 2 * b <= now
  BY Ticks DEF Candles!Cur, Candles!Bar
<1> QED
  BY <1>1 DEF Candled, Candles!Fetched

LEMMA CachedIs ==
    ASSUME TableCandled, NEW bars \in SUBSET (DOMAIN table), now \in Nat
    PROVE  Candled(Candles!Cached(bars), now)
BY DEF Candled, Candles!Cached, TableCandled

LEMMA WithinIs ==
    ASSUME NEW c, NEW n, Candled(c, n), NEW start, NEW end
    PROVE  Candled(Candles!Within(c, start, end), n)
BY DEF Candled, Candles!Within, Candles!Restrict

\* The gate: a sequence of different calls.
LEMMA JoinsGate ==
    ASSUME NEW S, NEW q \in Seq(S), Candles!IsInjective(q), NEW x \in S, x \notin Candles!Range(q)
    PROVE  /\ Append(q, x) \in Seq(S) /\ Candles!IsInjective(Append(q, x))
           /\ Candles!Range(Append(q, x)) = Candles!Range(q) \cup {x}
<1>1. /\ Append(q, x) \in Seq(S) /\ Len(q) \in Nat
      /\ DOMAIN q = 1 .. Len(q) /\ DOMAIN Append(q, x) = 1 .. Len(q) + 1
      /\ \A i \in 1 .. Len(q) : Append(q, x)[i] = q[i]
      /\ Append(q, x)[Len(q) + 1] = x
  OBVIOUS
<1>2. \A i \in DOMAIN q : q[i] # x
  BY DEF Candles!Range
<1>3. Candles!IsInjective(Append(q, x))
  BY <1>1, <1>2 DEF Candles!IsInjective
<1>4. ASSUME NEW y
      PROVE  y \in Candles!Range(Append(q, x)) <=> y \in Candles!Range(q) \/ y = x
  BY <1>1 DEF Candles!Range
<1> QED
  BY <1>1, <1>3, <1>4

LEMMA LeavesGate ==
    ASSUME NEW S, NEW q \in Seq(S), Candles!IsInjective(q), q # <<>>
    PROVE  /\ Head(q) \in S /\ Head(q) \in Candles!Range(q)
           /\ Tail(q) \in Seq(S) /\ Candles!IsInjective(Tail(q))
           /\ Candles!Range(Tail(q)) = Candles!Range(q) \ {Head(q)}
<1>1. /\ Head(q) = q[1] /\ Len(q) \in Nat /\ Len(q) > 0 /\ DOMAIN q = 1 .. Len(q)
      /\ Tail(q) \in Seq(S) /\ DOMAIN Tail(q) = 1 .. Len(q) - 1
      /\ \A i \in 1 .. Len(q) - 1 : Tail(q)[i] = q[i + 1]
  OBVIOUS
<1>2. q[1] \in S
  BY <1>1
<1>3. Candles!IsInjective(Tail(q))
  BY <1>1 DEF Candles!IsInjective
<1>4. ASSUME NEW y
      PROVE  y \in Candles!Range(Tail(q)) <=> y \in Candles!Range(q) /\ y # q[1]
  <2>1. ASSUME NEW i \in DOMAIN Tail(q) PROVE Tail(q)[i] \in Candles!Range(q) /\ Tail(q)[i] # q[1]
    BY <1>1 DEF Candles!Range, Candles!IsInjective
  <2>2. ASSUME NEW i \in DOMAIN q, q[i] # q[1] PROVE q[i] \in Candles!Range(Tail(q))
    <3>1. i - 1 \in DOMAIN Tail(q) /\ Tail(q)[i - 1] = q[i]
      BY <1>1, <2>2
    <3> QED
      BY <3>1 DEF Candles!Range
  <2> QED
    BY <2>1, <2>2 DEF Candles!Range
<1>5. q[1] \in Candles!Range(q)
  BY <1>1 DEF Candles!Range
<1> QED
  BY <1>1, <1>2, <1>3, <1>4, <1>5

LEMMA CandlesTypeOK ==
    ASSUME CallsTyped, RowsTyped
    PROVE  Candles!TypeOK
<1>1. \A b \in DOMAIN table : table[b].asof >= b * Candles!Bar /\ table[b].at >= table[b].asof
  BY DEF RowsTyped, TableCandled, Candles!Bar
<1>2. Candles!Range(gate) \subseteq Fetchers \cup {"history"}
  BY DEF CallsTyped, Candles!Range
<1>3. /\ \A e \in Fetchers : (fetch[e] = "calling") = (e \in Candles!Range(gate))
      /\ (wanted.at = "calling") = ("history" \in Candles!Range(gate))
  BY DEF CallsTyped
<1> QED
  BY <1>1, <1>2, <1>3 DEF CallsTyped, RowsTyped, Candles!TypeOK

LEMMA TurnIs ==
    ASSUME CallsTyped, NEW who, Candles!Turn(who)
    PROVE  /\ who \in Fetchers \cup {"history"} /\ who \in Candles!Range(gate)
           /\ Tail(gate) \in Seq(Fetchers \cup {"history"}) /\ Candles!IsInjective(Tail(gate))
           /\ Candles!Range(Tail(gate)) = Candles!Range(gate) \ {who}
BY LeavesGate DEF Candles!Turn, CallsTyped

LEMMA FetchCalls ==
    ASSUME Candles!CandleCacheAssumption, CallsTyped, NEW e \in Fetchers, Candles!Fetching(e)
    PROVE  CallsTyped'
<1>1. e # "history"
  BY DEF Candles!CandleCacheAssumption
<1>2. CASE Candles!FromCache(e)
  BY <1>2 DEF Candles!FromCache, CallsTyped, Candles!history
<1>3. CASE Candles!Asks(e) \/ Candles!AsksAgain(e)
  <2>1. e \notin Candles!Range(gate)
    BY <1>3 DEF Candles!Asks, Candles!AsksAgain, CallsTyped
  <2>2. /\ Append(gate, e) \in Seq(Fetchers \cup {"history"})
        /\ Candles!IsInjective(Append(gate, e))
        /\ Candles!Range(Append(gate, e)) = Candles!Range(gate) \cup {e}
    BY <2>1, JoinsGate DEF CallsTyped
  <2>3. /\ gate' = Append(gate, e) /\ fetch' = [fetch EXCEPT ![e] = "calling"] /\ tries' = tries
        /\ wanted' = wanted
    BY <1>3 DEF Candles!Asks, Candles!AsksAgain, Candles!history
  <2> QED
    BY <1>1, <2>2, <2>3 DEF CallsTyped
<1>4. CASE Candles!Turn(e) /\ gate' = Tail(gate) /\ wanted' = wanted
           /\ \E p \in {"idle", "waits"}, k \in 0..3 :
                fetch' = [fetch EXCEPT ![e] = p] /\ tries' = [tries EXCEPT ![e] = k]
  BY <1>1, <1>4, TurnIs DEF CallsTyped
<1>5. CASE Candles!Answered(e) \/ Candles!Limited(e) \/ Candles!Fails(e)
  <2>1. tries[e] \in 0..3
    BY DEF CallsTyped
  <2>2. tries[e] < 2 => tries[e] + 1 \in 0..3
    BY <2>1
  <2> QED
    BY <1>4, <1>5, <2>2
       DEF Candles!Answered, Candles!Limited, Candles!Fails, Candles!Done, Candles!history
<1>6. CASE Candles!FallsBack(e)
  <2>1. Candles!Turn(e)
    BY <1>6 DEF Candles!FallsBack
  <2>2. /\ Append(Tail(gate), e) \in Seq(Fetchers \cup {"history"})
        /\ Candles!IsInjective(Append(Tail(gate), e))
        /\ Candles!Range(Append(Tail(gate), e)) = Candles!Range(gate)
    <3> DEFINE S == Fetchers \cup {"history"}
               q == Tail(gate)
    <3>1. /\ q \in Seq(S) /\ Candles!IsInjective(q) /\ e \in S /\ e \in Candles!Range(gate)
          /\ Candles!Range(q) = Candles!Range(gate) \ {e}
      BY <2>1, TurnIs
    <3> HIDE DEF S, q
    <3>2. /\ Append(q, e) \in Seq(S) /\ Candles!IsInjective(Append(q, e))
          /\ Candles!Range(Append(q, e)) = Candles!Range(q) \cup {e}
      BY <3>1, JoinsGate
    <3> QED
      BY <3>1, <3>2 DEF S, q
  <2>3. /\ gate' = Append(Tail(gate), e) /\ fetch' = fetch /\ tries' = [tries EXCEPT ![e] = 3]
        /\ wanted' = wanted
    BY <1>6 DEF Candles!FallsBack, Candles!history
  <2> QED
    BY <2>2, <2>3 DEF CallsTyped
<1> QED
  BY <1>2, <1>3, <1>5, <1>6 DEF Candles!Fetching, Candles!Replies

LEMMA HistoryCalls ==
    ASSUME CallsTyped, Candles!CandleCacheAssumption, Candles!History
    PROVE  CallsTyped'
<1>0. "history" \notin Fetchers
  BY DEF Candles!CandleCacheAssumption
<1>1. CASE UNCHANGED <<gate, fetch, tries, wanted>>
  BY <1>1 DEF CallsTyped
<1>2. ASSUME NEW start, NEW end, Candles!HistoryAsks(start, end)
      PROVE  CallsTyped'
  <2>1. /\ wanted.at = "idle" /\ gate' = Append(gate, "history") /\ wanted'.at = "calling"
        /\ UNCHANGED <<fetch, tries>>
    BY <1>2 DEF Candles!HistoryAsks, Candles!Requested, Candles!feed
  <2>2. /\ gate' \in Seq(Fetchers \cup {"history"}) /\ Candles!IsInjective(gate')
        /\ Candles!Range(gate') = Candles!Range(gate) \cup {"history"}
    BY <2>1, JoinsGate DEF CallsTyped
  <2> QED
    BY <1>0, <2>1, <2>2 DEF CallsTyped
<1>3. CASE Candles!HistoryAnswered
  <2>1. /\ Candles!Turn("history") /\ gate' = Tail(gate) /\ wanted'.at = "idle"
        /\ UNCHANGED <<fetch, tries>>
    BY <1>3 DEF Candles!HistoryAnswered, Candles!Idle, Candles!feed
  <2> QED
    BY <1>0, <2>1, TurnIs DEF CallsTyped
<1> QED
  BY <1>1, <1>2, <1>3
     DEF Candles!History, Candles!HistoryHits, Candles!HistoryReads, Candles!HistorySettles,
         Candles!feed

LEMMA StoresIs ==
    ASSUME RowsTyped, NEW who \in Fetchers \cup {"history"}, NEW c, Candled(c, now),
           Candles!Stores(who, c)
    PROVE  \A w \in writes' : /\ w.by \in Fetchers \cup {"history"}
                              /\ Candled(w.rows, now) /\ DOMAIN w.rows # {}
BY NoneIsEmpty DEF Candles!Stores, RowsTyped

LEMMA FetchRows ==
    ASSUME RowsTyped, NEW e \in Fetchers, Candles!Fetching(e)
    PROVE  RowsTyped'
<1>1. now \in Nat
  BY DEF RowsTyped
<1>2. UNCHANGED <<world, now, table, pool, wanted, requests>>
  BY DEF Candles!Fetching, Candles!Replies, Candles!FromCache, Candles!Asks, Candles!Answered,
         Candles!Limited, Candles!FallsBack, Candles!Fails, Candles!AsksAgain, Candles!history
<1>3. \A w \in writes' : /\ w.by \in Fetchers \cup {"history"}
                         /\ Candled(w.rows, now) /\ DOMAIN w.rows # {}
  <2>1. CASE Candles!Answered(e)
    <3>1. PICK n \in {Limit} \cup {1} :
             Candles!Stores(e, Candles!Fetched(Candles!Cur - n + 1 .. Candles!Cur))
      BY <2>1 DEF Candles!Answered
    <3> QED
      BY <1>1, <3>1, FetchedIs, StoresIs
  <2>2. CASE writes' = writes
    BY <2>2 DEF RowsTyped
  <2> QED
    BY <2>1, <2>2
       DEF Candles!Fetching, Candles!Replies, Candles!FromCache, Candles!Asks,
           Candles!Limited, Candles!FallsBack, Candles!Fails, Candles!AsksAgain
<1>4. got'.from \in {"none", "cache", "exchange", "stale", "simulated"}
  BY DEF Candles!Fetching, Candles!Replies, Candles!FromCache, Candles!Asks, Candles!Answered,
         Candles!Limited, Candles!FallsBack, Candles!Fails, Candles!AsksAgain, Candles!Gives,
         Candles!GivesNone
<1> QED
  BY <1>2, <1>3, <1>4 DEF RowsTyped, TableCandled

LEMMA LandsRows ==
    ASSUME RowsTyped, NEW w \in writes, Candles!Lands(w)
    PROVE  RowsTyped'
<1>1. /\ table' = Candles!Over([b \in DOMAIN w.rows |-> [asof |-> w.rows[b], at |-> now]], table)
      /\ writes' = writes \ {w} /\ got'.from = "none"
      /\ UNCHANGED <<world, now, pool, wanted, requests>>
  BY DEF Candles!Lands, Candles!GivesNone, Candles!Gives, Candles!history
<1>2. Candled(w.rows, now) /\ TableCandled /\ now \in Nat
  BY DEF RowsTyped
<1>3. TableCandled'
  BY <1>1, <1>2 DEF TableCandled, Candled, Candles!Over
<1> QED
  BY <1>1, <1>3 DEF RowsTyped

LEMMA PassesRows ==
    ASSUME RowsTyped, Candles!CandleCacheAssumption, Candles!Passes
    PROVE  RowsTyped'
<1>1. /\ now' = now + 1 /\ now' \in 0..MaxTime /\ now \in Nat /\ got'.from = "none"
      /\ UNCHANGED <<world, table, writes, pool, wanted, requests>>
  BY DEF Candles!Passes, Candles!CandleCacheAssumption, RowsTyped, Candles!GivesNone,
         Candles!Gives, Candles!history
<1>2. TableCandled'
  BY <1>1 DEF RowsTyped, TableCandled
<1>3. \A c : Candled(c, now) => Candled(c, now')
  BY <1>1, LaterRows
<1> QED
  BY <1>1, <1>2, <1>3 DEF RowsTyped

LEMMA PoolIs ==
    ASSUME RowsTyped, NEW c, Candled(c, now)
    PROVE  /\ Candled(Candles!Pooled, now)
           /\ Candles!Merges(c) => /\ pool' = [rows |-> pool'.rows, used |-> pool'.used]
                                   /\ Candled(pool'.rows, now)
<1>1. Candled(Candles!Pooled, now)
  BY NoRows DEF RowsTyped, Candles!Pooled
<1>2. Candled(Candles!Over(c, Candles!Pooled), now)
  BY <1>1, OverIs
<1>3. ASSUME Candles!Merges(c)
      PROVE  /\ pool' = [rows |-> pool'.rows, used |-> pool'.used]
             /\ Candled(pool'.rows, now)
  <2>1. CASE c = Candles!None
    <3>1. pool' = [pool EXCEPT !.rows = Candles!Pooled]
      BY <1>3, <2>1 DEF Candles!Merges
    <3>2. pool = [rows |-> pool.rows, used |-> pool.used]
      BY DEF RowsTyped
    <3>3. pool' = [rows |-> Candles!Pooled, used |-> pool.used]
      BY <3>1, <3>2
    <3> QED
      BY <1>1, <3>3
  <2>2. CASE c # Candles!None
    <3>1. pool' = [rows |-> Candles!Over(c, Candles!Pooled), used |-> now]
      BY <1>3, <2>2 DEF Candles!Merges
    <3> QED
      BY <1>2, <3>1
  <2> QED
    BY <2>1, <2>2
<1> QED
  BY <1>1, <1>3

LEMMA HaveIs ==
    ASSUME RowsTyped, NEW start, NEW end
    PROVE  Candled(Candles!Have(start, end), now)
<1>1. Candled(Candles!Within(Candles!Pooled, start, end), now)
  BY PoolIs, NoRows, WithinIs
<1>2. Candled(Candles!FromTable, now)
  BY CachedIs DEF RowsTyped, Candles!FromTable
<1>3. Candled(Candles!Within(Candles!FromTable, start, end), now)
  BY <1>2, WithinIs
<1> QED
  BY <1>1, <1>3 DEF Candles!Have

LEMMA HistoryRows ==
    ASSUME RowsTyped, Candles!CandleCacheAssumption, Candles!History
    PROVE  RowsTyped'
<1>0. now \in Nat
  BY DEF RowsTyped
<1>1. /\ UNCHANGED <<world, now, table>> /\ got'.from = "none"
  BY DEF Candles!History, Candles!HistoryHits, Candles!HistoryReads, Candles!HistorySettles,
         Candles!HistoryAsks, Candles!HistoryAnswered, Candles!GivesNone, Candles!Gives
<1>2. ASSUME pool' = [rows |-> pool'.rows, used |-> pool'.used], Candled(pool'.rows, now),
             Candled(wanted'.have, now), requests' \in 0..MaxRequests,
             \A w \in writes' : /\ w.by \in Fetchers \cup {"history"}
                                /\ Candled(w.rows, now) /\ DOMAIN w.rows # {}
      PROVE  RowsTyped'
  BY <1>1, <1>2 DEF RowsTyped, TableCandled
<1>3. ASSUME NEW start, NEW end, Candles!Requested(start, end)
      PROVE  requests' \in 0..MaxRequests
  BY <1>3 DEF Candles!Requested, RowsTyped, Candles!CandleCacheAssumption
<1>4. ASSUME NEW start, NEW end, Candles!HistoryHits(start, end)
      PROVE  RowsTyped'
  <2>1. /\ pool' = [pool EXCEPT !.used = now] /\ UNCHANGED <<writes, wanted>>
        /\ pool = [rows |-> pool.rows, used |-> pool.used]
    BY <1>4 DEF Candles!HistoryHits, RowsTyped
  <2>2. pool' = [rows |-> pool.rows, used |-> now]
    BY <2>1
  <2> QED
    BY <1>2, <1>3, <1>4, <2>1, <2>2 DEF Candles!HistoryHits, RowsTyped
<1>5. ASSUME NEW start, NEW end, Candles!HistoryReads(start, end)
      PROVE  RowsTyped'
  <2>1. Candles!Merges(Candles!Have(start, end)) /\ UNCHANGED <<writes, wanted>>
    BY <1>5 DEF Candles!HistoryReads
  <2> QED
    BY <1>2, <1>3, <1>5, <2>1, HaveIs, PoolIs DEF Candles!HistoryReads, RowsTyped
<1>6. ASSUME NEW start, NEW end, Candles!HistorySettles(start, end)
      PROVE  RowsTyped'
  <2>1. /\ Candles!Merges(Candles!Have(start, end))
        /\ Candles!Stores("history", Candles!Have(start, end)) /\ UNCHANGED wanted
    BY <1>6 DEF Candles!HistorySettles
  <2> QED
    BY <1>2, <1>3, <1>6, <2>1, HaveIs, PoolIs, StoresIs DEF Candles!HistorySettles, RowsTyped
<1>7. ASSUME NEW start, NEW end, Candles!HistoryAsks(start, end)
      PROVE  RowsTyped'
  <2>1. /\ UNCHANGED <<writes, pool>>
        /\ wanted'.have \in {Candles!Have(start, end), Candles!None}
    BY <1>7 DEF Candles!HistoryAsks
  <2> QED
    BY <1>2, <1>3, <1>7, <2>1, HaveIs, NoRows DEF Candles!HistoryAsks, RowsTyped
<1>8. CASE Candles!HistoryAnswered
  <2>1. PICK c : /\ Candled(c, now)
                 /\ Candles!Stores("history", c) /\ Candles!Merges(c)
    <3>1. PICK ask : \E page \in {Candles!Fetched(ask), Candles!None} :
             /\ Candles!Stores("history", Candles!Over(page, wanted.have))
             /\ Candles!Merges(Candles!Over(page, wanted.have))
      BY <1>8, Zenon DEF Candles!HistoryAnswered
    <3> QED
      BY <1>0, <3>1, FetchedIs, NoRows, OverIs DEF RowsTyped
  <2>2. wanted'.have = Candles!None /\ requests' = requests
    BY <1>8 DEF Candles!HistoryAnswered, Candles!Idle
  <2> QED
    BY <1>2, <2>1, <2>2, PoolIs, StoresIs, NoRows DEF RowsTyped
<1> QED
  BY <1>4, <1>5, <1>6, <1>7, <1>8 DEF Candles!History

LEMMA CandlesInit ==
    ASSUME Candles!CandleCacheAssumption, Candles!Init
    PROVE  CallsTyped /\ RowsTyped
<1>1. CallsTyped
  <2>1. gate = <<>> /\ Candles!Range(gate) = {}
    BY DEF Candles!Init, Candles!Idles, Candles!Range
  <2> QED
    BY <2>1 DEF Candles!Init, Candles!Idles, CallsTyped, Candles!IsInjective, Candles!Idle
<1>2. RowsTyped
  <2>1. DOMAIN table = {} /\ Candled(Candles!None, now)
    BY NoRows DEF Candles!Init, Candles!Idles
  <2>2. now \in 0..MaxTime
    BY DEF Candles!Init, Candles!Idles, Candles!CandleCacheAssumption, Candles!Bar
  <2> QED
    BY <2>1, <2>2 DEF Candles!Init, Candles!Idles, RowsTyped, TableCandled, Candles!Idle,
                      Candles!CandleCacheAssumption
<1> QED
  BY <1>1, <1>2

LEMMA CandlesStep ==
    ASSUME Candles!CandleCacheAssumption, CallsTyped, RowsTyped, [Candles!Next]_(Candles!vars)
    PROVE  CallsTyped' /\ RowsTyped'
<1>1. CASE \E w \in writes : Candles!Lands(w)
  <2>1. CallsTyped'
    BY <1>1 DEF Candles!Lands, CallsTyped, Candles!feed, Candles!history
  <2> QED
    BY <1>1, <2>1, LandsRows
<1>2. CASE Candles!Passes
  BY <1>2, PassesRows DEF Candles!Passes, CallsTyped, Candles!feed, Candles!history
<1>3. CASE UNCHANGED Candles!vars
  BY <1>3 DEF Candles!vars, CallsTyped, RowsTyped, TableCandled
<1> QED
  BY <1>1, <1>2, <1>3, FetchCalls, FetchRows, HistoryCalls, HistoryRows DEF Candles!Next

\* The table of candles, what is on its way to it, the gate and the fetches keep their types.
THEOREM CandlesTypeCorrect == Candles!CandleCacheAssumption => (Candles!Spec => []Candles!TypeOK)
<1> SUFFICES ASSUME Candles!CandleCacheAssumption PROVE Candles!Spec => []Candles!TypeOK
  OBVIOUS
<1>1. Candles!Init => CallsTyped /\ RowsTyped
  BY CandlesInit
<1>2. CallsTyped /\ RowsTyped /\ [Candles!Next]_(Candles!vars) => (CallsTyped /\ RowsTyped)'
  BY CandlesStep
<1>3. CallsTyped /\ RowsTyped => Candles!TypeOK
  BY CandlesTypeOK
<1> QED
  BY <1>1, <1>2, <1>3, PTL DEF Candles!Spec

(* What is served: while no write is late and all answers are whole, rows are stored when they
   are fetched, and the bars of one answer stay in the table, or younger ones do. *)

Batch(t) == t \div 2 - Limit + 1 .. t \div 2

Stored(b) ==
    /\ table[b].asof = table[b].at /\ b \in Batch(table[b].at)
    /\ \A c \in Batch(table[b].at) : c \in DOMAIN table /\ table[c].at >= table[b].at

Plain == world \cap {"short", "past", "recent", "late_write"} = {}

TableWhole ==
    /\ now >= 2 * Limit /\ wanted.at # "calling"
    /\ \A b \in DOMAIN table : Stored(b)
    /\ \A w \in writes : /\ DOMAIN w.rows = Batch(now)
                         /\ \A b \in DOMAIN w.rows : w.rows[b] = now

CandleInv == CallsTyped /\ RowsTyped /\ (Plain => TableWhole /\ Candles!ServedIsCurrent)

LEMMA LargestIs ==
    ASSUME NEW S \in SUBSET Int, NEW m \in S, \A y \in S : y <= m
    PROVE  Candles!Max(S) = m
<1>1. \A x \in S : (\A y \in S : x >= y) => x = m
  OBVIOUS
<1>2. m \in S /\ \A y \in S : m >= y
  OBVIOUS
<1> QED
  BY <1>1, <1>2 DEF Candles!Max

LEMMA SmallestIs ==
    ASSUME NEW S \in SUBSET Int, NEW m \in S, \A y \in S : m <= y
    PROVE  Candles!Min(S) = m
<1>1. \A x \in S : (\A y \in S : x <= y) => x = m
  OBVIOUS
<1>2. m \in S /\ \A y \in S : m <= y
  OBVIOUS
<1> QED
  BY <1>1, <1>2 DEF Candles!Min

\* Rows of a span of bars, of which the last but one had ended when it was fetched.
LEMMA SpanServed ==
    ASSUME NEW c, NEW first \in Int, NEW last \in Int, first < last,
           DOMAIN c = first .. last, c[last - 1] >= 2 * last
    PROVE  /\ Candles!Max(DOMAIN c) = last
           /\ DOMAIN c = Candles!Min(DOMAIN c) .. Candles!Max(DOMAIN c)
           /\ c[Candles!Confirmed(c)] >= (Candles!Confirmed(c) + 1) * Candles!Bar
<1> DEFINE S == first .. last
           R == S \ {last}
<1>1. S \in SUBSET Int /\ last \in S /\ first \in S /\ \A y \in S : first <= y /\ y <= last
  OBVIOUS
<1>2. R \in SUBSET Int /\ last - 1 \in R /\ \A y \in R : y <= last - 1
  OBVIOUS
<1> HIDE DEF S, R
<1>3. Candles!Max(S) = last /\ Candles!Min(S) = first
  BY <1>1, LargestIs, SmallestIs
<1>4. Candles!Max(R) = last - 1
  BY <1>2, LargestIs
<1>5. DOMAIN c = S /\ S \ {last} = R
  BY DEF S, R
<1>6. Candles!Max(DOMAIN c) = last /\ Candles!Min(DOMAIN c) = first
  BY <1>3, <1>5, Zenon
<1>7. Candles!Confirmed(c) = Candles!Max(DOMAIN c \ {Candles!Max(DOMAIN c)})
  BY DEF Candles!Confirmed
<1>8. Candles!Confirmed(c) = last - 1
  BY <1>4, <1>5, <1>6, <1>7, Zenon
<1> QED
  BY <1>6, <1>8 DEF Candles!Bar

LEMMA LimitIs ==
    ASSUME Candles!CandleCacheAssumption
    PROVE  /\ Limit \in Nat /\ Limit >= 2 /\ MinBars \in Nat /\ MinBars >= 2
           /\ \A ttl \in Ttls : ttl \in Nat /\ ttl > 0 /\ ttl <= 2 * Limit
BY DEF Candles!CandleCacheAssumption, Candles!Bar

LEMMA Halves ==
    ASSUME NEW m \in Nat, NEW n \in Nat, m <= n
    PROVE  m \div 2 <= n \div 2 /\ \A k \in Nat : n < m + 2 * k => n \div 2 <= m \div 2 + k
OBVIOUS

\* The oldest and the youngest of some rows.
LEMMA Extremes ==
    ASSUME RowsTyped, NEW Y \in SUBSET DOMAIN table, Y # {}
    PROVE  \E x, y \in Y : \A b \in Y : table[x].at <= table[b].at /\ table[b].at <= table[y].at
<1>1. now \in Nat /\ \A b \in Y : table[b].at \in Nat /\ table[b].at <= now
  BY DEF RowsTyped, TableCandled
<1> DEFINE S == {table[b].at : b \in Y}
           T == {now - table[b].at : b \in Y}
<1>2. S \in SUBSET Nat /\ S # {} /\ T \in SUBSET Nat /\ T # {}
  BY <1>1
<1>3. PICK s \in S : \A z \in S : s <= z
  BY <1>2, SmallestNumber
<1>4. PICK t \in T : \A z \in T : t <= z
  BY <1>2, SmallestNumber
<1>5. PICK x \in Y : s = table[x].at
  BY <1>3
<1>6. PICK y \in Y : t = now - table[y].at
  BY <1>4
<1>7. ASSUME NEW b \in Y PROVE table[x].at <= table[b].at /\ table[b].at <= table[y].at
  <2>1. table[b].at \in S /\ now - table[b].at \in T
    OBVIOUS
  <2>2. s <= table[b].at /\ t <= now - table[b].at
    BY <1>3, <1>4, <2>1
  <2> QED
    BY <1>1, <1>5, <1>6, <2>2
<1> QED
  BY <1>7

\* The rows younger than a time to live lie between the first bar of the oldest answer among
\* them and the last one of the youngest, and no bar is missing: fewer pass than an answer has.
LEMMA YoungSpan ==
    ASSUME Candles!CandleCacheAssumption, RowsTyped, TableWhole, NEW ttl \in Ttls,
           Candles!Young(ttl) # {}
    PROVE  \E first, last \in Int :
              /\ first < last /\ Candles!Young(ttl) = first .. last
              /\ last >= (now - ttl) \div 2 /\ table[last - 1].asof >= 2 * last
<1> DEFINE Y == Candles!Young(ttl)
<1>1. /\ now \in Nat /\ now >= 2 * Limit /\ Limit \in Nat /\ Limit >= 2
      /\ ttl \in Nat /\ ttl > 0 /\ ttl <= 2 * Limit
  BY LimitIs DEF RowsTyped, TableWhole
<1>2. Y = {b \in DOMAIN table : table[b].at > now - ttl}
  BY DEF Candles!Young
<1> HIDE DEF Y
<1>3. PICK x \in Y, y \in Y :
         \A b \in Y : table[x].at <= table[b].at /\ table[b].at <= table[y].at
  BY <1>2, Extremes DEF Y
<1> DEFINE old == table[x].at
           new == table[y].at
           first == old \div 2 - Limit + 1
           last == new \div 2
<1>4. /\ old \in Nat /\ new \in Nat /\ old <= new /\ new <= now /\ now - ttl < old
      /\ new < old + 2 * Limit
  <2>1. old \in Nat /\ new \in Nat /\ new <= now /\ now - ttl < old
    BY <1>2 DEF RowsTyped, TableCandled
  <2> QED
    BY <1>1, <1>3, <2>1
<1>5. /\ old \div 2 \in Nat /\ last \in Nat /\ 2 * last <= new
      /\ old \div 2 <= last /\ last <= old \div 2 + Limit /\ last >= (now - ttl) \div 2
  <2>1. old \div 2 \in Nat /\ last \in Nat /\ 2 * last <= new
    BY <1>4, Ticks
  <2>2. old \div 2 <= last /\ last <= old \div 2 + Limit
    BY <1>1, <1>4, Halves
  <2>3. now - ttl \in Nat /\ now - ttl <= new
    BY <1>1, <1>4
  <2>4. (now - ttl) \div 2 <= last
    BY <1>4, <2>3, Halves
  <2> QED
    BY <1>1, <1>4, <2>1, <2>2, <2>4
<1>6. first \in Int /\ last \in Int /\ first < last
  BY <1>1, <1>5
<1>7. ASSUME NEW b \in Y, NEW c \in Batch(table[b].at)
      PROVE  c \in Y /\ table[c].asof >= table[b].at
  <2>1. c \in DOMAIN table /\ table[c].at >= table[b].at /\ table[c].asof = table[c].at
    BY <1>2, <1>7 DEF TableWhole, Stored
  <2>2. table[b].at > now - ttl /\ table[b].at \in Nat /\ table[c].at \in Nat
    BY <1>2, <2>1 DEF RowsTyped, TableCandled
  <2> QED
    BY <1>1, <1>2, <2>1, <2>2
<1>8. ASSUME NEW b \in Y PROVE b \in first .. last
  <2>1. /\ b \in Batch(table[b].at) /\ table[b].at \in Nat
        /\ old <= table[b].at /\ table[b].at <= new
    BY <1>2, <1>3 DEF RowsTyped, TableCandled, TableWhole, Stored
  <2>2. old \div 2 <= table[b].at \div 2 /\ table[b].at \div 2 <= last
    BY <1>4, <2>1, Halves
  <2>3. table[b].at \div 2 \in Nat
    BY <2>1, Ticks
  <2> QED
    BY <1>1, <1>5, <2>1, <2>2, <2>3 DEF Batch
<1>9. ASSUME NEW b \in first .. last PROVE b \in Y
  <2>1. b \in Batch(old) \/ b \in Batch(new)
    BY <1>1, <1>5, <1>9 DEF Batch
  <2> QED
    BY <1>7, <2>1
<1>10. table[last - 1].asof >= 2 * last
  <2>1. last - 1 \in Batch(new)
    BY <1>1, <1>5 DEF Batch
  <2>2. table[last - 1].asof >= new /\ last - 1 \in Y
    BY <1>7, <2>1
  <2>3. table[last - 1].asof \in Nat
    BY <1>2, <2>2 DEF RowsTyped, TableCandled
  <2> QED
    BY <1>4, <1>5, <2>2, <2>3
<1> HIDE DEF first, last
<1>11. Y = first .. last
  BY <1>2, <1>6, <1>8, <1>9 DEF RowsTyped, TableCandled
<1>12. last >= (now - ttl) \div 2
  BY <1>5 DEF last
<1> QED
  BY <1>6, <1>10, <1>11, <1>12 DEF Y

\* A whole answer.
LEMMA AnswerIs ==
    ASSUME Candles!CandleCacheAssumption, RowsTyped, TableWhole,
           NEW c, c = Candles!Fetched(Candles!Cur - Limit + 1 .. Candles!Cur)
    PROVE  /\ DOMAIN c = Batch(now) /\ \A b \in DOMAIN c : c[b] = now
           /\ Batch(now) = Candles!Cur - Limit + 1 .. Candles!Cur
           /\ Candles!Cur \in Nat /\ 2 * Candles!Cur <= now /\ now \in Nat
           /\ Limit \in Nat /\ Limit >= 2
<1>1. /\ now \in Nat /\ Limit \in Nat /\ Limit >= 2 /\ now >= 2 * Limit
  BY LimitIs DEF RowsTyped, TableWhole
<1>2. Candles!Cur = now \div 2
  BY DEF Candles!Cur, Candles!Bar
<1>3. Candles!Cur \in Nat /\ 2 * Candles!Cur <= now /\ now < 2 * Candles!Cur + 2
  BY <1>1, <1>2, Ticks
<1>4. (Candles!Cur - Limit + 1 .. Candles!Cur) \cap 0..Candles!Cur
         = Candles!Cur - Limit + 1 .. Candles!Cur
  BY <1>1, <1>3
<1> QED
  BY <1>1, <1>2, <1>3, <1>4 DEF Candles!Fetched, Batch

LEMMA WholeIs ==
    ASSUME Plain, Candles!CandleCacheAssumption, NEW e, Candles!Answered(e)
    PROVE  LET c == Candles!Fetched(Candles!Cur - Limit + 1 .. Candles!Cur) IN
           Candles!Stores(e, c) /\ Candles!Gives("exchange", c, 0)
BY DEF Plain, Candles!Answered, Candles!CandleCacheAssumption

LEMMA NoBacktest ==
    ASSUME CallsTyped, Plain, TableWhole
    PROVE  ~Candles!History
<1>1. \A start, end : ~Candles!Requested(start, end)
  BY DEF Candles!Requested, Plain
<1>2. ~Candles!HistoryAnswered
  BY TurnIs DEF Candles!HistoryAnswered, TableWhole, CallsTyped
<1> QED
  BY <1>1, <1>2 DEF Candles!History, Candles!HistoryHits, Candles!HistoryReads,
                    Candles!HistorySettles, Candles!HistoryAsks

LEMMA FetchWhole ==
    ASSUME Candles!CandleCacheAssumption, RowsTyped, Plain, TableWhole,
           NEW e \in Fetchers, Candles!Fetching(e)
    PROVE  TableWhole'
<1>1. UNCHANGED <<now, table, wanted>>
  BY DEF Candles!Fetching, Candles!Replies, Candles!FromCache, Candles!Asks, Candles!Answered,
         Candles!Limited, Candles!FallsBack, Candles!Fails, Candles!AsksAgain, Candles!history
<1>2. \A w \in writes' : DOMAIN w.rows = Batch(now) /\ \A b \in DOMAIN w.rows : w.rows[b] = now
  <2>1. CASE Candles!Answered(e)
    <3> DEFINE c == Candles!Fetched(Candles!Cur - Limit + 1 .. Candles!Cur)
    <3>1. Candles!Stores(e, c)
      BY <2>1, WholeIs
    <3>2. DOMAIN c = Batch(now) /\ \A b \in DOMAIN c : c[b] = now
      BY AnswerIs
    <3> HIDE DEF c
    <3> QED
      BY <3>1, <3>2 DEF Candles!Stores, TableWhole
  <2>2. CASE writes' = writes
    BY <2>2 DEF TableWhole
  <2> QED
    BY <2>1, <2>2
       DEF Candles!Fetching, Candles!Replies, Candles!FromCache, Candles!Asks,
           Candles!Limited, Candles!FallsBack, Candles!Fails, Candles!AsksAgain
<1> QED
  BY <1>1, <1>2 DEF TableWhole, Stored, Batch

LEMMA LandsWhole ==
    ASSUME RowsTyped, TableWhole, NEW w \in writes, Candles!Lands(w)
    PROVE  TableWhole'
<1>1. /\ table' = Candles!Over([b \in DOMAIN w.rows |-> [asof |-> w.rows[b], at |-> now]], table)
      /\ writes' = writes \ {w} /\ UNCHANGED <<now, wanted>>
  BY DEF Candles!Lands, Candles!history
<1>2. now \in Nat /\ DOMAIN w.rows = Batch(now) /\ \A b \in DOMAIN w.rows : w.rows[b] = now
  BY DEF RowsTyped, TableWhole
<1>3. /\ DOMAIN table' = Batch(now) \cup DOMAIN table
      /\ \A b \in Batch(now) : table'[b] = [asof |-> now, at |-> now]
      /\ \A b \in DOMAIN table \ Batch(now) : table'[b] = table[b]
  BY <1>1, <1>2 DEF Candles!Over
<1>4. ASSUME NEW b \in DOMAIN table' PROVE Stored(b)'
  <2>1. CASE b \in Batch(now)
    BY <1>2, <1>3, <2>1 DEF Stored, Batch
  <2>2. CASE b \notin Batch(now)
    <3>1. b \in DOMAIN table /\ table'[b] = table[b] /\ Stored(b)
      BY <1>3, <2>2 DEF TableWhole
    <3>2. ASSUME NEW c \in Batch(table[b].at)
          PROVE  c \in DOMAIN table' /\ table'[c].at >= table[b].at
      <4>1. c \in DOMAIN table /\ table[c].at >= table[b].at /\ table[b].at <= now
        BY <3>1, <3>2 DEF Stored, RowsTyped, TableCandled
      <4> QED
        BY <1>3, <4>1
    <3> QED
      BY <3>1, <3>2 DEF Stored, Batch
  <2> QED
    BY <2>1, <2>2
<1> QED
  BY <1>1, <1>4 DEF TableWhole, Batch

LEMMA PassesWhole ==
    ASSUME Candles!CandleCacheAssumption, RowsTyped, Plain, TableWhole, Candles!Passes
    PROVE  TableWhole'
<1>1. /\ now' = now + 1 /\ now \in Nat /\ UNCHANGED <<table, wanted>>
      /\ writes' = {}
  BY DEF Candles!Passes, RowsTyped, Plain, Candles!history
<1>2. now + 1 >= 2 * Limit
  BY <1>1, LimitIs DEF TableWhole
<1> QED
  BY <1>1, <1>2 DEF TableWhole, Stored, Batch

\* What an engine is given follows from its step.
LEMMA SpanGiven ==
    ASSUME NEW from, NEW c, NEW age, Candles!Gives(from, c, age), now' = now,
           NEW first \in Int, NEW last \in Int, first < last,
           DOMAIN c = first .. last, last >= (now - age) \div 2, c[last - 1] >= 2 * last
    PROVE  Candles!ServedIsCurrent'
<1>1. got'.rows = c /\ got'.age = age
  BY DEF Candles!Gives
<1>2. /\ Candles!Max(DOMAIN c) >= (now - age) \div Candles!Bar
      /\ DOMAIN c = Candles!Min(DOMAIN c) .. Candles!Max(DOMAIN c)
      /\ c[Candles!Confirmed(c)] >= (Candles!Confirmed(c) + 1) * Candles!Bar
  BY SpanServed DEF Candles!Bar
<1> QED
  BY <1>1, <1>2, Zenon DEF Candles!ServedIsCurrent

LEMMA FetchServed ==
    ASSUME Candles!CandleCacheAssumption, RowsTyped, Plain, TableWhole,
           NEW e \in Fetchers, Candles!Fetching(e)
    PROVE  Candles!ServedIsCurrent'
<1>1. CASE Candles!FromCache(e)
  <2>1. PICK ttl \in Ttls : /\ Candles!Cardinality(Candles!Young(ttl)) >= MinBars
                            /\ Candles!Gives("cache", Candles!Cached(Candles!Young(ttl)), ttl)
    BY <1>1 DEF Candles!FromCache
  <2> DEFINE Y == Candles!Young(ttl)
             c == Candles!Cached(Y)
  <2>2. Y # {} /\ now' = now
    <3>1. Candles!Cardinality({}) = 0
      BY FS_EmptySet DEF Candles!Cardinality, Cardinality
    <3> QED
      BY <1>1, <2>1, <3>1, LimitIs DEF Candles!FromCache
  <2>3. PICK first \in Int, last \in Int :
           /\ first < last /\ Y = first .. last
           /\ last >= (now - ttl) \div 2 /\ table[last - 1].asof >= 2 * last
    BY <2>2, YoungSpan
  <2>4. DOMAIN c = first .. last /\ c[last - 1] = table[last - 1].asof
    BY <2>3 DEF Candles!Cached
  <2>5. Candles!Gives("cache", c, ttl)
    BY <2>1
  <2> HIDE DEF c, Y
  <2> QED
    BY <2>2, <2>3, <2>4, <2>5, SpanGiven
<1>2. CASE Candles!Answered(e)
  <2> DEFINE c == Candles!Fetched(Candles!Cur - Limit + 1 .. Candles!Cur)
             first == Candles!Cur - Limit + 1
             last == Candles!Cur
  <2>1. Candles!Gives("exchange", c, 0) /\ now' = now
    BY <1>2, WholeIs DEF Candles!Answered
  <2>2. /\ DOMAIN c = first .. last /\ \A b \in DOMAIN c : c[b] = now
        /\ last \in Nat /\ 2 * last <= now /\ now \in Nat /\ Limit \in Nat /\ Limit >= 2
    BY AnswerIs
  <2>3. /\ first \in Int /\ last \in Int /\ first < last /\ last >= (now - 0) \div 2
        /\ last - 1 \in first .. last
    BY <2>2 DEF Candles!Cur, Candles!Bar
  <2> HIDE DEF c, first, last
  <2>4. c[last - 1] >= 2 * last
    BY <2>2, <2>3
  <2> QED
    BY <2>1, <2>2, <2>3, <2>4, SpanGiven
<1>3. CASE got'.from \in {"none", "simulated"}
  BY <1>3 DEF Candles!ServedIsCurrent, Candles!Fresh
<1>4. ASSUME ~Candles!FromCache(e), ~Candles!Answered(e)
      PROVE  got'.from \in {"none", "simulated"}
  BY <1>4 DEF Candles!Fetching, Candles!Replies, Candles!Asks, Candles!Limited, Candles!FallsBack,
              Candles!Fails, Candles!AsksAgain, Candles!Gives, Candles!GivesNone
<1> QED
  BY <1>1, <1>2, <1>3, <1>4

LEMMA CandleInvInit == Candles!CandleCacheAssumption /\ Candles!Init => CandleInv
<1> SUFFICES ASSUME Candles!CandleCacheAssumption, Candles!Init PROVE CandleInv
  OBVIOUS
<1>1. TableWhole
  BY LimitIs, NoRows DEF Candles!Init, Candles!Idles, TableWhole, Candles!Bar, Candles!Idle
<1>2. Candles!ServedIsCurrent
  BY DEF Candles!Init, Candles!Idles, Candles!ServedIsCurrent, Candles!Fresh
<1> QED
  BY <1>1, <1>2, CandlesInit DEF CandleInv

LEMMA CandleInvStep ==
    ASSUME Candles!CandleCacheAssumption, CandleInv, [Candles!Next]_(Candles!vars)
    PROVE  CandleInv'
<1>1. CallsTyped' /\ RowsTyped' /\ CallsTyped /\ RowsTyped
  BY CandlesStep DEF CandleInv
<1> SUFFICES ASSUME Plain' PROVE TableWhole' /\ Candles!ServedIsCurrent'
  BY <1>1 DEF CandleInv
<1>2. world' = world
  BY DEF Candles!Next, Candles!vars, Candles!Fetching, Candles!Replies, Candles!FromCache,
         Candles!Asks, Candles!Answered, Candles!Limited, Candles!FallsBack, Candles!Fails,
         Candles!AsksAgain, Candles!Lands, Candles!Passes, Candles!History, Candles!HistoryHits,
         Candles!HistoryReads, Candles!HistorySettles, Candles!HistoryAsks,
         Candles!HistoryAnswered
<1>3. Plain /\ TableWhole /\ Candles!ServedIsCurrent
  BY <1>2 DEF Plain, CandleInv
<1>4. CASE \E e \in Fetchers : Candles!Fetching(e)
  BY <1>1, <1>3, <1>4, FetchWhole, FetchServed
<1>5. CASE (\E w \in writes : Candles!Lands(w)) \/ Candles!Passes
  <2>1. Candles!GivesNone
    BY <1>5, Zenon DEF Candles!Lands, Candles!Passes
  <2>2. Candles!ServedIsCurrent'
    BY <2>1 DEF Candles!GivesNone, Candles!Gives, Candles!ServedIsCurrent, Candles!Fresh
  <2> QED
    BY <1>1, <1>3, <1>5, <2>2, LandsWhole, PassesWhole
<1>6. CASE UNCHANGED Candles!vars
  <2>1. TableWhole'
    BY <1>3, <1>6 DEF Candles!vars, TableWhole, Stored
  <2>2. Candles!ServedIsCurrent'
    BY <1>3, <1>6 DEF Candles!vars, Candles!ServedIsCurrent, Candles!Fresh, Candles!Cur
  <2> QED
    BY <2>1, <2>2
<1> QED
  BY <1>1, <1>3, <1>4, <1>5, <1>6, NoBacktest DEF Candles!Next

LEMMA CandleServes == CandleInv => Candles!ServedIsCurrent
<1>1. ~Plain => Candles!ServedIsCurrent
  BY DEF Plain, Candles!ServedIsCurrent
<1> QED
  BY <1>1 DEF CandleInv

\* candleFetch: however engines share the table, and unless an answer is short, a write late or
\* a backtest beside them, the last bar an engine is given was the current one a time to live ago
\* or later, no bar is missing before it, and the one it decides on had ended when it was fetched.
THEOREM CurrentIsServed ==
    Candles!CandleCacheAssumption => (Candles!Spec => []Candles!ServedIsCurrent)
<1> SUFFICES ASSUME Candles!CandleCacheAssumption PROVE Candles!Spec => []Candles!ServedIsCurrent
  OBVIOUS
<1>1. Candles!Init => CandleInv
  BY CandleInvInit
<1>2. CandleInv /\ [Candles!Next]_(Candles!vars) => CandleInv'
  BY CandleInvStep
<1>3. CandleInv => Candles!ServedIsCurrent
  BY CandleServes
<1> QED
  BY <1>1, <1>2, <1>3, PTL DEF Candles!Spec

----------------------------------------------------------------------------
(* MCGroup: a step is a step of one unit, or of none *)

LEMMA GroupRuns ==
    [MCNext]_all =>
        /\ [Next]_vars /\ [Ladder!Next]_(Ladder!vars)
        /\ [Orders!Next]_(Orders!vars) /\ [Candles!Next]_(Candles!vars)
        /\ unit' = unit /\ (unit # "ladder" => UNCHANGED Ladder!vars)
<1> SUFFICES ASSUME [MCNext]_all
             PROVE  /\ [Next]_vars /\ [Ladder!Next]_(Ladder!vars)
                    /\ [Orders!Next]_(Orders!vars) /\ [Candles!Next]_(Candles!vars)
                    /\ unit' = unit /\ (unit # "ladder" => UNCHANGED Ladder!vars)
  OBVIOUS
<1>1. /\ UNCHANGED <<world, ladder>> => UNCHANGED Ladder!vars
      /\ UNCHANGED <<world, orders>> => UNCHANGED Orders!vars
      /\ UNCHANGED <<world, candles>> => UNCHANGED Candles!vars
  BY DEF ladder, orders, candles, Ladder!vars, Orders!vars, Candles!vars, Orders!plans,
         Orders!engine
<1>2. UNCHANGED all =>
         /\ UNCHANGED vars /\ UNCHANGED <<world, ladder>> /\ UNCHANGED <<world, orders>>
         /\ UNCHANGED <<world, candles>> /\ unit' = unit
  BY DEF all
<1> QED
  BY <1>1, <1>2 DEF MCNext, Alone

GroupInv ==
    /\ Base /\ Lives
    /\ unit = "ladder" => BookInv
    /\ unit = "orders" => OrderInv
    /\ unit = "candles" => CandleInv

LEMMA GroupStarts == MCInit => GroupInv
BY BaseInit, LivesInit, LedgerInit, InitWhole, CandleInvInit, GroupAssumption
   DEF MCInit, GroupInv, Ladder!Init, Orders!Init, Candles!Init

LEMMA GroupGoesOn == GroupInv /\ [MCNext]_all => GroupInv'
BY GroupRuns, BaseStep, LivesStep, LedgerNext, NextWhole, CandleInvStep, GroupAssumption
   DEF GroupInv

\* The engines of a coin, their ladder, their orders and their candles keep their types.
THEOREM GroupTyped == MCSpec => []TypesOK
<1>1. GroupInv => TypesOK
  <2> SUFFICES ASSUME GroupInv PROVE TypesOK
    OBVIOUS
  <2>1. TypeOK
    BY DEF GroupInv, Base
  <2>2. unit = "ladder" => Ladder!TypeOK
    BY DEF GroupInv, BookInv, ClimbInv, LadderInv
  <2>3. unit = "orders" => Orders!TypeOK
    BY DEF GroupInv, OrderInv, EntryTyped
  <2>4. unit = "candles" => Candles!TypeOK
    BY CandlesTypeOK DEF GroupInv, CandleInv
  <2> QED
    BY <2>1, <2>2, <2>3, <2>4 DEF TypesOK
<1> QED
  BY <1>1, GroupStarts, GroupGoesOn, PTL DEF MCSpec

\* In the run's specification too, a position between passes and one whose entry is over have a
\* stop loss on the exchange or are watched (_executePartialClose, the stop loss after an order).
THEOREM GroupProtected == MCSpec => []Protected
<1>1. GroupInv => Protected
  BY ClimbProtects, OrderProtects, GroupAssumption DEF GroupInv, BookInv, Protected
<1> QED
  BY <1>1, GroupStarts, GroupGoesOn, PTL DEF MCSpec

\* In the run's specification too, the parts and the rest of an order are booked for what was
\* opened (_executePartialClose, _closePosition).
THEOREM GroupBooked == MCSpec => []BookedAsOrdered
<1>1. GroupInv => BookedAsOrdered
  BY LedgerProves, GroupAssumption DEF GroupInv, BookedAsOrdered
<1> QED
  BY <1>1, GroupStarts, GroupGoesOn, PTL DEF MCSpec

\* In the run's specification too, no step moves a stop loss down (_updateSLOnExchange).
THEOREM GroupTightens == MCSpec => StopTightens
<1>1. GroupInv /\ [MCNext]_all =>
         [world \cap {"crash", "db_fails"} = {} => exch'.sl >= exch.sl]_(Ladder!vars)
  BY GroupRuns, NextLInv, GroupAssumption DEF GroupInv, BookInv, Calm
<1> QED
  BY <1>1, GroupStarts, GroupGoesOn, PTL DEF MCSpec, StopTightens, Ladder!StopTightens

\* In the run's specification too, what is tracked of an entry is its whole order, unless a
\* call fails without a trace (openPositionMaker).
THEOREM GroupTracksWhole == MCSpec => []TrackedIsWhole
<1>1. GroupInv => TrackedIsWhole
  BY OrderTracks DEF GroupInv, TrackedIsWhole
<1> QED
  BY <1>1, GroupStarts, GroupGoesOn, PTL DEF MCSpec

\* In the run's specification too, what an engine is served is as current as the time to live
\* says (candleFetch).
THEOREM GroupServesCurrent == MCSpec => []ServedIsCurrent
<1>1. GroupInv => ServedIsCurrent
  BY CandleServes DEF GroupInv, ServedIsCurrent
<1> QED
  BY <1>1, GroupStarts, GroupGoesOn, PTL DEF MCSpec

LEMMA GroupAll == Undisturbed => (MCSpec => []All)
<1> SUFFICES ASSUME Undisturbed PROVE MCSpec => []All
  OBVIOUS
<1>1. MCInit => All
  BY BaseInit, LivesInit, SoundInit DEF MCInit, All
<1>2. All /\ [MCNext]_all => All'
  BY GroupRuns, BaseStep, LivesStep, SoundStep DEF All
<1> QED
  BY <1>1, <1>2, PTL DEF MCSpec

\* canOpen and reserve in the run's specification: a coin has one position or order, and its
\* engine, its row and its reservation know it, as long as nobody stops or restarts a bot and
\* the database answers.
THEOREM GroupAccounted == Undisturbed => (MCSpec => [](SinglePosition /\ Accounted))
<1>1. All => SinglePosition /\ Accounted
  BY OneIsExposed, PositionsAccounted
<1> QED
  BY <1>1, GroupAll, PTL

\* release in the run's specification: under the same hypothesis, no entry or close that failed
\* leaves a live engine's reservation behind.
THEOREM GroupReleases == Undisturbed => (MCSpec => []NoGhostLive)
<1>1. All => NoGhostLive
  BY ReservationsBacked DEF NoGhostLive
<1> QED
  BY <1>1, GroupAll, PTL

\* The engines of a coin, with canOpen before an order and release after its close, take turns
\* on the one slot of the coin, as PositionSlot says, under the same hypothesis.
THEOREM GroupImplementsSlot == Undisturbed => (MCSpec => SlotSpec)
<1> SUFFICES ASSUME Undisturbed PROVE MCSpec => SlotSpec
  OBVIOUS
<1>1. MCInit => Slot!Init
  BY SlotStarts DEF MCInit
<1>2. All /\ All' /\ [MCNext]_all => [Slot!Next]_holders
  <2>1. All => SinglePosition
    BY OneIsExposed
  <2>2. All' => SinglePosition'
    BY <2>1, PTL
  <2> QED
    BY <2>1, <2>2, GroupRuns, SlotStep DEF All
<1>3. MCSpec => []All
  BY GroupAll
<1> QED
  BY <1>1, <1>2, <1>3, PTL DEF MCSpec, SlotSpec, Slot!Spec
=============================================================================
