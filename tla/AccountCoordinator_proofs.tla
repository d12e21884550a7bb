--------------------- MODULE AccountCoordinator_proofs --------------------
(***************************************************************************)
(* What one account shares.                                                *)
(*                                                                         *)
(* AccountCoordinator, for any coins, strategies, margins and equities: one*)
(* position per coin, and a budget and a limit for what it lets through    *)
(* that hold whatever is reserved, restored, armed and released beside it, *)
(* and the exclusive slot per coin that all of it implements.              *)
(*                                                                         *)
(* RiskDay, for any engines: what an engine lost today keeps it out at its *)
(* limit whatever restarts, and without a restart so do its trades, its    *)
(* streak and what the engines that report have lost together.  This       *)
(* carries over to MCAccountCoordinator, where it is the coordinator or    *)
(* the day that runs.                                                      *)
(***************************************************************************)
EXTENDS MCAccountCoordinator, SumTheorems

(* AccountCoordinator *)

\* A key is a pair of a coin and a slot, and determines both.
LEMMA KeyShape ==
    ASSUME NEW k \in BotKeys
    PROVE  /\ KeySymbol(k) \in Symbols
           /\ k[2] \in Strategies \cup {Legacy}
           /\ k = <<KeySymbol(k), k[2]>>
BY DEF BotKeys, KeySymbol

\* What is recorded for a key is a reservation, whatever the split of the capital.
LEMMA EntryType ==
    ASSUME NEW m \in Nat, NEW d \in Directions
    PROVE  Entry(m, d) \in Reservation /\ NoReservation \in Reservation
BY DEF Entry, Reservation, NoReservation, Directions, Sides

LEMMA ShareType ==
    ASSUME NEW capital \in Capitals, NEW S \in (SUBSET Strategies) \ {{}}
    PROVE  capital \div Cardinality(S) \in Nat
<1>1. IsFiniteSet(S)
  BY FS_Subset, ConstantsAssumption
<1>2. Cardinality(S) \in Nat \ {0}
  BY <1>1, FS_CardinalityType, FS_EmptySet
<1> QED
  BY <1>2, ConstantsAssumption

----------------------------------------------------------------------------
\* A step that gives no side touches one coin at most, and what keeps its side keeps all.
Shrinks(s) ==
    /\ \A j \in BotKeys : KeySymbol(j) # s => reservations'[j] = reservations[j]
    /\ \A j \in BotKeys : Directional(j)' =>
           /\ Directional(j)
           /\ reservations'[j] = reservations[j] /\ origin'[j] = origin[j]

\* No other key has a side on the coin of k.
FreeFor(k) == \A j \in BotKeys \ {k} : KeySymbol(j) = KeySymbol(k) => ~Directional(j)

LEMMA InitType == Init => TypeOK
BY DEF Init, Empty, TypeOK, MapOK, Held, NoReservation, Reservation, Directions, Directional,
       Origins

\* A map with other slots on one coin, none of them with a side.
LEMMA ArmsStep ==
    ASSUME TypeOK, NEW s \in Symbols, NEW map \in [BotKeys -> Reservation], Arms(map),
           NEW m \in Nat,
           \A j \in BotKeys : \/ map[j] = reservations[j]
                              \/ KeySymbol(j) = s /\ map[j] \in {NoReservation, Entry(m, "none")}
    PROVE  TypeOK' /\ Shrinks(s)
<1>1. /\ reservations' = map /\ accountEquity' = accountEquity
      /\ origin' = [k \in BotKeys |-> IF map[k].direction = "none" THEN "none" ELSE origin[k]]
  BY DEF Arms
<1>2. ASSUME NEW j \in BotKeys
      PROVE  /\ ~Held(j)' => reservations'[j] = NoReservation
             /\ Directional(j)' <=> reservations'[j].direction # "none"
             /\ Directional(j)' => Directional(j) /\ reservations'[j] = reservations[j]
  <2>1. CASE map[j] = reservations[j]
    <3>1. Held(j)' <=> Held(j)
      BY <1>1, <2>1 DEF Held
    <3>2. ~Held(j) => reservations[j] = NoReservation
      BY DEF TypeOK, MapOK
    <3> QED
      BY <1>1, <2>1, <3>1, <3>2 DEF Directional, NoReservation
  <2>2. CASE map[j] \in {NoReservation, Entry(m, "none")}
    BY <1>1, <2>2 DEF Held, Directional, NoReservation, Entry
  <2> QED
    BY <2>1, <2>2
<1>3. \A j \in BotKeys : /\ origin'[j] = IF Directional(j)' THEN origin[j] ELSE "none"
                         /\ origin[j] \in Origins /\ (Directional(j) => origin[j] # "none")
  BY <1>1, <1>2 DEF TypeOK, MapOK
<1>4. origin' \in [BotKeys -> Origins]
  BY <1>1, <1>3 DEF Origins
<1>5. \A j \in BotKeys : Directional(j)' <=> origin'[j] # "none"
  BY <1>2, <1>3
<1>6. TypeOK'
  BY <1>1, <1>2, <1>4, <1>5 DEF TypeOK, MapOK
<1> QED
  BY <1>1, <1>2, <1>3, <1>6 DEF Shrinks

\* A reservation with a side.
LEMMA GivesStep ==
    ASSUME TypeOK, NEW k \in BotKeys, NEW m \in Nat, NEW d \in Sides,
           NEW from \in Origins \ {"none"}, Gives(k, m, d, from)
    PROVE  /\ TypeOK'
           /\ Directional(k)' /\ reservations'[k] = Entry(m, d) /\ origin'[k] = from
           /\ accountEquity' = accountEquity
           /\ \A j \in BotKeys \ {k} : /\ reservations'[j] = reservations[j]
                                       /\ origin'[j] = origin[j]
                                       /\ Directional(j)' <=> Directional(j)
<1>1. Entry(m, d) \in Reservation
  BY EntryType DEF Directions
<1>2. /\ reservations' \in [BotKeys -> Reservation]
      /\ reservations'[k] = Entry(m, d)
      /\ \A j \in BotKeys \ {k} : reservations'[j] = reservations[j]
  BY <1>1 DEF TypeOK, MapOK, Gives, Reserved
<1>3. /\ origin' \in [BotKeys -> Origins] /\ origin'[k] = from
      /\ \A j \in BotKeys \ {k} : origin'[j] = origin[j]
  BY DEF TypeOK, MapOK, Gives
<1>4. Directional(k)' /\ \A j \in BotKeys \ {k} : Directional(j)' <=> Directional(j)
  BY <1>2 DEF Directional, Held, Entry, Sides
<1>5. \A j \in BotKeys : ~Held(j)' => reservations'[j] = NoReservation
  BY <1>2, <1>4 DEF TypeOK, MapOK, Held, Directional
<1>6. \A j \in BotKeys : Directional(j)' <=> origin'[j] # "none"
  BY <1>3, <1>4 DEF TypeOK, MapOK
<1> QED
  BY <1>2, <1>3, <1>4, <1>5, <1>6 DEF TypeOK, MapOK, Gives

LEMMA ReleaseStep ==
    ASSUME TypeOK, NEW k \in BotKeys, Release(k)
    PROVE  TypeOK' /\ Shrinks(KeySymbol(k))
<1>1. NoReservation \in Reservation /\ 0 \in Nat
  BY DEF NoReservation, Reservation, Directions
<1>2. /\ Released(k) \in [BotKeys -> Reservation] /\ Released(k)[k] = NoReservation
      /\ \A j \in BotKeys \ {k} : Released(k)[j] = reservations[j]
  BY <1>1 DEF TypeOK, MapOK, Released
<1> QED
  BY <1>1, <1>2, ArmsStep, KeyShape DEF Release

\* The keys of a group sit on its coin.
LEMMA GroupKeysOnCoin ==
    ASSUME NEW s \in Symbols, NEW j \in GroupKeys(s)
    PROVE  KeySymbol(j) = s
BY DEF GroupKeys, KeySymbol

LEMMA GroupReservedStep ==
    ASSUME TypeOK, NEW s \in Symbols, NEW capital \in Capitals,
           NEW S \in (SUBSET Strategies) \ {{}}, Arms(GroupReserved(s, S, capital))
    PROVE  TypeOK' /\ Shrinks(s)
<1> DEFINE share == capital \div Cardinality(S)
           map == GroupReserved(s, S, capital)
<1>1. share \in Nat /\ Entry(share, "none") \in Reservation /\ NoReservation \in Reservation
  BY ShareType, EntryType DEF Directions
<1>2. map = [k \in BotKeys |-> IF k \notin GroupKeys(s) THEN reservations[k]
                              ELSE IF k[2] \in S THEN Entry(share, "none") ELSE NoReservation]
  BY DEF GroupReserved
<1> HIDE DEF share
<1>3. map \in [BotKeys -> Reservation]
  BY <1>1, <1>2 DEF TypeOK, MapOK
<1>4. \A j \in BotKeys : \/ map[j] = reservations[j]
                         \/ KeySymbol(j) = s /\ map[j] \in {NoReservation, Entry(share, "none")}
  BY <1>2, GroupKeysOnCoin
<1> HIDE DEF map
<1>5. Arms(map)
  BY DEF map
<1> QED
  BY <1>1, <1>3, <1>4, <1>5, ArmsStep

LEMMA ReleaseGroupStep ==
    ASSUME TypeOK, NEW s \in Symbols, ReleaseGroup(s)
    PROVE  TypeOK' /\ Shrinks(s)
<1>1. NoReservation \in Reservation /\ 0 \in Nat
  BY DEF Reservation, NoReservation, Directions
<1>2. /\ GroupReleased(s) \in [BotKeys -> Reservation]
      /\ \A j \in BotKeys : \/ GroupReleased(s)[j] = reservations[j]
                            \/ KeySymbol(j) = s /\ GroupReleased(s)[j] = NoReservation
  BY <1>1, GroupKeysOnCoin DEF TypeOK, MapOK, GroupReleased
<1> QED
  BY <1>1, <1>2, ArmsStep DEF ReleaseGroup

LEMMA ArmLegacyStep ==
    ASSUME TypeOK, NEW s \in Symbols, NEW capital \in Capitals, ArmLegacy(s, capital)
    PROVE  TypeOK' /\ Shrinks(s)
<1> DEFINE k == <<s, Legacy>>
           map == Reserved(k, capital, "none")
<1>1. k \in BotKeys /\ KeySymbol(k) = s
  BY DEF BotKeys, KeySymbol
<1>2. capital \in Nat /\ Entry(capital, "none") \in Reservation
  BY EntryType, ConstantsAssumption DEF Directions
<1>3. /\ map \in [BotKeys -> Reservation] /\ map[k] = Entry(capital, "none")
      /\ \A j \in BotKeys \ {k} : map[j] = reservations[j]
  BY <1>1, <1>2 DEF TypeOK, MapOK, Reserved
<1>4. Arms(map)
  BY DEF ArmLegacy
<1>5. \A j \in BotKeys : \/ map[j] = reservations[j]
                         \/ KeySymbol(j) = s /\ map[j] \in {NoReservation, Entry(capital, "none")}
  BY <1>1, <1>3
<1> HIDE DEF map, k
<1> QED
  BY <1>2, <1>3, <1>4, <1>5, ArmsStep

LEMMA EquityStep ==
    ASSUME TypeOK, NEW e \in Equities, SetAccountEquity(e)
    PROVE  TypeOK' /\ UNCHANGED <<reservations, origin>>
<1>1. accountEquity' \in Nat /\ UNCHANGED <<reservations, origin>>
  BY ConstantsAssumption DEF TypeOK, MapOK, SetAccountEquity, EquityAfter
<1> QED
  BY <1>1 DEF TypeOK, MapOK, Held, Directional

LEMMA OpenStep ==
    ASSUME NEW k \in BotKeys, NEW m \in Margins, NEW d \in Sides, Open(k, m, d)
    PROVE  m \in Nat /\ "asked" \in Origins \ {"none"} /\ Gives(k, m, d, "asked") /\ FreeFor(k)
<1> SUFFICES ASSUME NEW j \in BotKeys \ {k}, KeySymbol(j) = KeySymbol(k), Directional(j)
             PROVE  FALSE
  BY ConstantsAssumption DEF Open, FreeFor, Origins
<1>1. Held(j)
  BY DEF Directional
<1>2. CASE SameGroup(j, k)
  <2>1. HasGroupOpenPosition(k) /\ Grouped(k)
    BY <1>2 DEF HasGroupOpenPosition, SameGroup
  <2> QED
    BY <2>1 DEF Open, CanOpen
<1>3. CASE ~SameGroup(j, k)
  <2>1. HasSymbol(k, Grouped(k))
    BY <1>1, <1>3 DEF HasSymbol
  <2> QED
    BY <2>1 DEF Open, CanOpen
<1> QED
  BY <1>2, <1>3

LEMMA RestoreStep ==
    ASSUME NEW k \in BotKeys, NEW m \in Margins, NEW d \in Sides, Restore(k, m, d)
    PROVE  /\ m \in Nat /\ "restored" \in Origins \ {"none"}
           /\ Gives(k, m, d, "restored") /\ FreeFor(k)
BY ConstantsAssumption DEF Restore, FreeFor, Origins

\* The side of k stays its own.
LEMMA SettleStep ==
    ASSUME TypeOK, NEW k \in BotKeys, NEW m \in Margins, Settle(k, m)
    PROVE  \E d \in Sides, from \in Origins \ {"none"} :
              /\ m \in Nat /\ Gives(k, m, d, from) /\ Directional(k)
              /\ from \in {"asked", "settled"} => origin[k] \in {"asked", "settled"}
              /\ from # "asked"
<1> DEFINE d == reservations[k].direction
           from == IF origin[k] = "asked" THEN "settled" ELSE origin[k]
<1>1. Directional(k) /\ Gives(k, m, d, from) /\ m \in Nat
  BY ConstantsAssumption DEF Settle
<1>2. d \in Sides
  BY <1>1 DEF TypeOK, MapOK, Directional, Reservation, Directions
<1>3. origin[k] \in Origins \ {"none"}
  BY <1>1 DEF TypeOK, MapOK
<1>4. from \in Origins \ {"none"} /\ from # "asked"
      /\ (from = "settled" => origin[k] \in {"asked", "settled"})
  BY <1>3 DEF Origins
<1> HIDE DEF d, from
<1> QED
  BY <1>1, <1>2, <1>4
----------------------------------------------------------------------------
\* Every step keeps the types, and either reserves with a side, where no other key of the coin
\* has one, or shrinks one coin.
LEMMA StepShape ==
    ASSUME TypeOK, Next
    PROVE  /\ TypeOK'
           /\ \/ \E k \in BotKeys, m \in Margins, d \in Sides : Open(k, m, d) \/ Restore(k, m, d)
              \/ \E k \in BotKeys, m \in Margins : Settle(k, m)
              \/ \E s \in Symbols : Shrinks(s)
              \/ UNCHANGED <<reservations, origin>>
<1>1. ASSUME NEW e \in Equities, SetAccountEquity(e)
      PROVE  TypeOK' /\ UNCHANGED <<reservations, origin>>
  BY <1>1, EquityStep
<1>2. ASSUME NEW k \in BotKeys, Release(k)
      PROVE  TypeOK' /\ \E s \in Symbols : Shrinks(s)
  BY <1>2, ReleaseStep, KeyShape
<1>3. ASSUME NEW k \in BotKeys, NEW m \in Margins, NEW d \in Sides,
             Open(k, m, d) \/ Restore(k, m, d)
      PROVE  TypeOK'
  BY <1>3, OpenStep, RestoreStep, GivesStep
<1>4. ASSUME NEW k \in BotKeys, NEW m \in Margins, Settle(k, m)
      PROVE  TypeOK'
  <2>1. PICK d \in Sides, from \in Origins \ {"none"} : m \in Nat /\ Gives(k, m, d, from)
    BY <1>4, SettleStep
  <2> QED
    BY <2>1, GivesStep
<1>5. ASSUME NEW s \in Symbols, ReleaseGroup(s)
      PROVE  TypeOK' /\ Shrinks(s)
  BY <1>5, ReleaseGroupStep
<1>6. ASSUME NEW s \in Symbols, NEW capital \in Capitals, ArmLegacy(s, capital)
      PROVE  TypeOK' /\ Shrinks(s)
  BY <1>6, ArmLegacyStep
<1>7. ASSUME NEW s \in Symbols, NEW capital \in Capitals,
             NEW S \in (SUBSET Strategies) \ {{}},
             ArmGroup(s, S, capital) \/ RearmGroup(s, S, capital)
      PROVE  TypeOK' /\ Shrinks(s)
  BY <1>7, GroupReservedStep DEF ArmGroup, RearmGroup
<1> QED
  BY <1>1, <1>2, <1>3, <1>4, <1>5, <1>6, <1>7 DEF Next

\* The state of the coordinator keeps its type.
THEOREM TypeCorrect == Spec => []TypeOK
<1>1. TypeOK /\ UNCHANGED coordinatorVars => TypeOK'
  BY DEF TypeOK, MapOK, coordinatorVars, Held, Directional
<1>2. TypeOK /\ [Next]_coordinatorVars => TypeOK'
  BY <1>1, StepShape
<1> QED
  BY InitType, <1>2, PTL DEF Spec

\* A key that gets a side, or keeps it, is alone on its coin.
LEMMA SideStep ==
    ASSUME TypeOK, OneOpenPerSymbol, Next
    PROVE  \/ \E k \in BotKeys : /\ FreeFor(k) /\ Directional(k)'
                                 /\ \A j \in BotKeys \ {k} : Directional(j)' <=> Directional(j)
           \/ \E s \in Symbols : Shrinks(s)
           \/ UNCHANGED <<reservations, origin>>
<1>1. ASSUME NEW k \in BotKeys, NEW m \in Margins, NEW d \in Sides,
             Open(k, m, d) \/ Restore(k, m, d)
      PROVE  /\ FreeFor(k) /\ Directional(k)'
             /\ \A j \in BotKeys \ {k} : Directional(j)' <=> Directional(j)
  BY <1>1, OpenStep, RestoreStep, GivesStep
<1>2. ASSUME NEW k \in BotKeys, NEW m \in Margins, Settle(k, m)
      PROVE  /\ FreeFor(k) /\ Directional(k)'
             /\ \A j \in BotKeys \ {k} : Directional(j)' <=> Directional(j)
  <2>1. PICK d \in Sides, from \in Origins \ {"none"} :
           m \in Nat /\ Gives(k, m, d, from) /\ Directional(k)
    BY <1>2, SettleStep
  <2>2. FreeFor(k)
    BY <2>1 DEF OneOpenPerSymbol, FreeFor
  <2> QED
    BY <2>1, <2>2, GivesStep
<1> QED
  BY <1>1, <1>2, StepShape

LEMMA OneOpenStep ==
    ASSUME TypeOK, OneOpenPerSymbol, Next
    PROVE  OneOpenPerSymbol'
<1>1. ASSUME NEW k \in BotKeys, FreeFor(k),
             \A j \in BotKeys \ {k} : Directional(j)' <=> Directional(j)
      PROVE  OneOpenPerSymbol'
  <2>1. ASSUME NEW i \in BotKeys, NEW j \in BotKeys,
               Directional(i)', Directional(j)', KeySymbol(i) = KeySymbol(j)
        PROVE  i = j
    <3>1. CASE i = k \/ j = k
      BY <1>1, <2>1, <3>1 DEF FreeFor
    <3>2. CASE i # k /\ j # k
      BY <1>1, <2>1, <3>2 DEF OneOpenPerSymbol
    <3> QED
      BY <3>1, <3>2
  <2> QED
    BY <2>1 DEF OneOpenPerSymbol
<1>2. ASSUME \A j \in BotKeys : Directional(j)' => Directional(j)
      PROVE  OneOpenPerSymbol'
  BY <1>2 DEF OneOpenPerSymbol
<1>3. ASSUME NEW s \in Symbols, Shrinks(s)
      PROVE  \A j \in BotKeys : Directional(j)' => Directional(j)
  BY <1>3 DEF Shrinks
<1>4. ASSUME reservations' = reservations
      PROVE  \A j \in BotKeys : Directional(j)' => Directional(j)
  BY <1>4 DEF Directional, Held
<1> QED
  BY <1>1, <1>2, <1>3, <1>4, SideStep

\* At most one reservation of a coin carries a side, for any number of coins, strategies and
\* margins: the race-to-confirm of canOpen, which what is restored beside it leaves alone.
THEOREM RaceToConfirm == Spec => []OneOpenPerSymbol
<1>1. Init => OneOpenPerSymbol
  BY DEF Init, Empty, OneOpenPerSymbol, Directional, Held, NoReservation
<1>2. TypeOK /\ OneOpenPerSymbol /\ [Next]_coordinatorVars => OneOpenPerSymbol'
  <2>1. OneOpenPerSymbol /\ UNCHANGED coordinatorVars => OneOpenPerSymbol'
    BY DEF OneOpenPerSymbol, coordinatorVars, Directional, Held
  <2> QED
    BY <2>1, OneOpenStep
<1> QED
  BY <1>1, <1>2, TypeCorrect, PTL DEF Spec
----------------------------------------------------------------------------
\* The margin of the other keys is the same before and after key k opens: equal
\* functions have equal sums.
LEMMA CommittedUnchanged ==
    ASSUME NEW k \in BotKeys,
           \A j \in BotKeys \ {k} : reservations'[j] = reservations[j]
    PROVE  CommittedMargin(k)' = CommittedMargin(k)
<1>1. [j \in BotKeys \ {k} |-> reservations'[j].margin]
        = [j \in BotKeys \ {k} |-> reservations[j].margin]
  OBVIOUS
<1> QED
  BY <1>1 DEF CommittedMargin, MarginOf

\* canOpen lets no entry through unless the margin of the whole account, restored positions and
\* that entry included, fits the budget of the known equity.
THEOREM MarginGate == Spec => OpenFitsBudget
<1> DEFINE Fits == \A k \in BotKeys : OpensFor(k) /\ accountEquity > 0
                     => WithinBudget(CommittedMargin(k) + reservations[k].margin)'
<1>1. ASSUME TypeOK, NEW k \in BotKeys, NEW m \in Margins, NEW d \in Sides, Open(k, m, d)
      PROVE  Fits
  <2>1. /\ reservations'[k] = Entry(m, d) /\ accountEquity' = accountEquity
        /\ \A j \in BotKeys \ {k} : reservations'[j] = reservations[j]
    BY <1>1, OpenStep, GivesStep
  <2>2. ASSUME accountEquity > 0
        PROVE  WithinBudget(CommittedMargin(k) + reservations[k].margin)'
    <3>1. WithinBudget(CommittedMargin(k) + m)
      BY <1>1, <2>2 DEF Open, CanOpen
    <3>2. reservations'[k].margin = m
      BY <2>1 DEF Entry
    <3>3. CommittedMargin(k)' = CommittedMargin(k)
      BY <2>1, CommittedUnchanged
    <3> QED
      BY <2>1, <3>1, <3>2, <3>3 DEF WithinBudget
  <2> QED
    BY <2>1, <2>2 DEF OpensFor
<1>2. ASSUME TypeOK, NEW k \in BotKeys, NEW m \in Nat, NEW d \in Sides,
             NEW from \in Origins \ {"none"}, from # "asked", Gives(k, m, d, from)
      PROVE  Fits
  BY <1>2, GivesStep DEF OpensFor
<1>3. ASSUME TypeOK, NEW k \in BotKeys, NEW m \in Margins, NEW d \in Sides, Restore(k, m, d)
      PROVE  Fits
  BY <1>2, <1>3, RestoreStep
<1>4. ASSUME TypeOK, NEW k \in BotKeys, NEW m \in Margins, Settle(k, m)
      PROVE  Fits
  <2>1. PICK d \in Sides, from \in Origins \ {"none"} :
           m \in Nat /\ Gives(k, m, d, from) /\ from # "asked"
    BY <1>4, SettleStep
  <2> QED
    BY <1>2, <1>4, <2>1
<1>5. ASSUME TypeOK', NEW s \in Symbols, Shrinks(s)
      PROVE  Fits
  BY <1>5 DEF Shrinks, OpensFor, TypeOK, MapOK
<1>6. ASSUME UNCHANGED <<reservations, origin>>
      PROVE  Fits
  BY <1>6 DEF OpensFor
<1>7. TypeOK /\ [Next]_coordinatorVars => [Fits]_coordinatorVars
  BY <1>1, <1>3, <1>4, <1>5, <1>6, StepShape DEF coordinatorVars
<1> QED
  BY <1>7, TypeCorrect, PTL DEF Spec, OpenFitsBudget
----------------------------------------------------------------------------
\* The keys that hold the slot of a coin.
LEMMA HoldersDef ==
    /\ holders \in [Symbols -> SUBSET BotKeys]
    /\ \A s \in Symbols : holders[s] = {k \in BotKeys : KeySymbol(k) = s /\ Directional(k)}
BY DEF holders

LEMMA SideAcquires ==
    ASSUME NEW k \in BotKeys, FreeFor(k), Directional(k)',
           \A j \in BotKeys \ {k} : Directional(j)' <=> Directional(j)
    PROVE  Slot!Acquire(KeySymbol(k), k)
<1> DEFINE s == KeySymbol(k)
<1>1. s \in Symbols
  BY KeyShape
<1>2. holders[s] \subseteq {k}
  BY <1>1, HoldersDef DEF FreeFor
<1>3. holders' = [t \in Symbols |-> {j \in BotKeys : KeySymbol(j) = t /\ Directional(j)'}]
  BY DEF holders
<1>4. holders'[s] = {k}
  BY <1>1, <1>2, <1>3, HoldersDef
<1>5. \A t \in Symbols \ {s} : holders'[t] = holders[t]
  <2> SUFFICES ASSUME NEW t \in Symbols \ {s}
               PROVE  {j \in BotKeys : KeySymbol(j) = t /\ Directional(j)'}
                        = {j \in BotKeys : KeySymbol(j) = t /\ Directional(j)}
    BY <1>3, HoldersDef
  <2> QED
    OBVIOUS
<1> QED
  BY <1>1, <1>2, <1>3, <1>4, <1>5, HoldersDef DEF Slot!Acquire

LEMMA ShrinkFrees ==
    ASSUME OneOpenPerSymbol, NEW s \in Symbols, Shrinks(s)
    PROVE  Slot!Free(s) \/ holders' = holders
<1>1. holders' = [t \in Symbols |-> {j \in BotKeys : KeySymbol(j) = t /\ Directional(j)'}]
  BY DEF holders
<1>2. \A t \in Symbols \ {s} : holders'[t] = holders[t]
  <2> SUFFICES ASSUME NEW t \in Symbols \ {s}, NEW j \in BotKeys, KeySymbol(j) = t
               PROVE  Directional(j)' <=> Directional(j)
    BY <1>1, HoldersDef
  <2> QED
    BY DEF Shrinks, Directional, Held
<1>3. holders'[s] \subseteq holders[s]
  BY <1>1, HoldersDef DEF Shrinks
<1>4. \A i, j \in holders[s] : i = j
  BY HoldersDef DEF OneOpenPerSymbol
<1>5. holders'[s] = {} \/ holders'[s] = holders[s]
  BY <1>3, <1>4
<1> QED
  BY <1>1, <1>2, <1>5, HoldersDef DEF Slot!Free

\* The coordinator implements the exclusive slot per coin: seen through the keys
\* whose reservation carries a side, every step of it acquires or frees one slot.
THEOREM Refinement == Spec => SlotSpec
<1>1. Init => Slot!Init
  BY DEF Init, Empty, Slot!Init, holders, Directional, Held, NoReservation
<1>2. TypeOK /\ OneOpenPerSymbol /\ [Next]_coordinatorVars => [Slot!Next]_holders
  <2>1. ASSUME NEW k \in BotKeys, FreeFor(k), Directional(k)',
               \A j \in BotKeys \ {k} : Directional(j)' <=> Directional(j)
        PROVE  Slot!Next
    BY <2>1, SideAcquires, KeyShape DEF Slot!Next
  <2>2. ASSUME OneOpenPerSymbol, NEW s \in Symbols, Shrinks(s)
        PROVE  [Slot!Next]_holders
    BY <2>2, ShrinkFrees DEF Slot!Next
  <2>3. ASSUME reservations' = reservations
        PROVE  holders' = holders
    BY <2>3 DEF holders, Directional, Held
  <2> QED
    BY <2>1, <2>2, <2>3, SideStep DEF coordinatorVars
<1> QED
  BY <1>1, <1>2, TypeCorrect, RaceToConfirm, PTL DEF Spec, SlotSpec, Slot!Spec
----------------------------------------------------------------------------
LEMMA FiniteKeys == \A K \in SUBSET BotKeys : IsFiniteSet(K)
<1>1. IsFiniteSet(Strategies \cup {Legacy})
  BY FS_AddElement, ConstantsAssumption
<1>2. IsFiniteSet(BotKeys)
  BY <1>1, FS_Product, ConstantsAssumption DEF BotKeys
<1> QED
  BY <1>2, FS_Subset

Asked == {j \in BotKeys : origin[j] \in {"asked", "settled"}}

LEMMA BoundedStep ==
    ASSUME TypeOK, OpenPositionsBounded, Next
    PROVE  OpenPositionsBounded'
<1>1. ASSUME NEW k \in BotKeys, NEW m \in Margins, NEW d \in Sides, Open(k, m, d),
             MaxConcurrent > 0
      PROVE  Cardinality(Asked') <= MaxConcurrent
  <2> DEFINE H == {j \in BotKeys \ {k} : Held(j)}
  <2>1. Cardinality(H) < MaxConcurrent
    BY <1>1 DEF Open, CanOpen, OpenCount
  <2>2. Asked' \subseteq H \cup {k}
    <3>1. \A j \in BotKeys \ {k} : origin'[j] = origin[j]
      BY <1>1, OpenStep, GivesStep
    <3>2. \A j \in BotKeys : origin[j] # "none" => Held(j)
      BY DEF TypeOK, MapOK, Directional
    <3> QED
      BY <3>1, <3>2 DEF Asked
  <2>3. IsFiniteSet(H) /\ IsFiniteSet(H \cup {k}) /\ k \notin H
    BY FiniteKeys
  <2>4. Cardinality(H \cup {k}) = Cardinality(H) + 1 /\ Cardinality(H) \in Nat
    BY <2>3, FS_AddElement, FS_CardinalityType
  <2>5. Cardinality(Asked') <= Cardinality(H \cup {k}) /\ Cardinality(Asked') \in Nat
    BY <2>2, <2>3, FS_Subset, FS_CardinalityType
  <2> HIDE DEF H
  <2> QED
    BY <2>1, <2>4, <2>5, ConstantsAssumption
<1>2. ASSUME Asked' \subseteq Asked, MaxConcurrent > 0
      PROVE  Cardinality(Asked') <= MaxConcurrent
  <2>1. Cardinality(Asked') <= Cardinality(Asked) /\ Cardinality(Asked) \in Nat
        /\ Cardinality(Asked') \in Nat
    <3>1. IsFiniteSet(Asked)
      BY FiniteKeys DEF Asked
    <3> QED
      BY <1>2, <3>1, FS_Subset, FS_CardinalityType
  <2>2. Cardinality(Asked) <= MaxConcurrent
    BY <1>2 DEF OpenPositionsBounded, Asked
  <2> QED
    BY <2>1, <2>2, ConstantsAssumption
<1>3. ASSUME NEW k \in BotKeys, NEW m \in Margins, NEW d \in Sides, Restore(k, m, d)
      PROVE  Asked' \subseteq Asked
  <2>1. origin'[k] = "restored" /\ \A j \in BotKeys \ {k} : origin'[j] = origin[j]
    BY <1>3, RestoreStep, GivesStep
  <2> QED
    BY <2>1 DEF Asked
<1>4. ASSUME NEW k \in BotKeys, NEW m \in Margins, Settle(k, m)
      PROVE  Asked' \subseteq Asked
  <2>1. PICK d \in Sides, from \in Origins \ {"none"} :
           /\ m \in Nat /\ Gives(k, m, d, from)
           /\ from \in {"asked", "settled"} => origin[k] \in {"asked", "settled"}
    BY <1>4, SettleStep
  <2>2. origin'[k] = from /\ \A j \in BotKeys \ {k} : origin'[j] = origin[j]
    BY <2>1, GivesStep
  <2> QED
    BY <2>1, <2>2 DEF Asked
<1>5. ASSUME TypeOK', NEW s \in Symbols, Shrinks(s)
      PROVE  Asked' \subseteq Asked
  <2>1. \A j \in BotKeys : origin'[j] # "none" => origin'[j] = origin[j]
    BY <1>5 DEF Shrinks, TypeOK, MapOK
  <2> QED
    BY <2>1 DEF Asked
<1>6. ASSUME UNCHANGED <<reservations, origin>>
      PROVE  Asked' \subseteq Asked
  BY <1>6 DEF Asked
<1>7. MaxConcurrent > 0 => Cardinality(Asked') <= MaxConcurrent
  BY <1>1, <1>2, <1>3, <1>4, <1>5, <1>6, StepShape
<1> QED
  BY <1>7 DEF OpenPositionsBounded, Asked

\* The concurrency gate bounds the positions it let through, whatever is armed or restored.
THEOREM ConcurrencyGate == Spec => []OpenPositionsBounded
<1>1. Init => OpenPositionsBounded
  <2>1. ASSUME Init
        PROVE  Asked = {}
    BY <2>1 DEF Init, Empty, Asked
  <2> QED
    BY <2>1, FS_EmptySet, ConstantsAssumption DEF OpenPositionsBounded, Asked
<1>2. TypeOK /\ OpenPositionsBounded /\ [Next]_coordinatorVars => OpenPositionsBounded'
  <2>1. OpenPositionsBounded /\ UNCHANGED coordinatorVars => OpenPositionsBounded'
    BY DEF OpenPositionsBounded, coordinatorVars
  <2> QED
    BY <2>1, BoundedStep
<1> QED
  BY <1>1, <1>2, TypeCorrect, PTL DEF Spec

----------------------------------------------------------------------------
(* RiskDay *)

Days == [count : 0..MaxTrades, loss : 0..LossLimit, streak : 0..MaxConsec]
TickStages == {"idle", "monitor", "report", "gate", "enter"}

\* What an engine did today is in what it has counted: its loss at all times, and in the rows
\* it would be restored from if all could be written, the rest as long as nothing was restored.
\* A tick that began on another day adds nothing, and an engine whose counters are of another
\* day has done nothing yet.
CountInv ==
    \A e \in Engines :
        /\ done[e].loss <= counters[e].loss
        /\ e \notin missed => done[e].loss <= rows[e].loss
        /\ restarts = 0 => /\ done[e].count <= counters[e].count
                           /\ done[e].streak <= counters[e].streak
        /\ stale[e] => done[e] = Day!Blank
        /\ old[e] /\ e \notin adaptive => done[e] = Day!Blank /\ (pc[e] = "idle" \/ stale[e])

\* An engine that reports, and is past its report, has reported what it lost.
ReportInv ==
    restarts = 0 =>
        \A e \in Engines \ adaptive :
            pc[e] \notin {"monitor", "report"} => done[e].loss <= report[e]

RiskInv == Day!TypeOK /\ CountInv /\ ReportInv

LEMMA RiskBounds ==
    ASSUME Day!RiskDayAssumption
    PROVE  /\ MaxTrades \in Nat /\ MaxTrades > 0 /\ MaxConsec \in Nat /\ MaxConsec > 0
           /\ LossLimit \in Nat /\ LossLimit > 0 /\ AccountLimit \in Nat /\ AccountLimit > 0
           /\ MaxRestarts \in Nat /\ IsFiniteSet(Engines) /\ Kinds \subseteq SUBSET Engines
BY DEF Day!RiskDayAssumption, Day!IsFiniteSet, IsFiniteSet

LEMMA BlankIs ==
    ASSUME Day!RiskDayAssumption
    PROVE  Day!Blank \in Days /\ Day!Blank.loss = 0 /\ Day!Blank.count = 0 /\ Day!Blank.streak = 0
BY RiskBounds DEF Day!Blank, Days

\* A counter that is less stays less.
LEMMA UpToIs ==
    ASSUME NEW l \in Nat, NEW n \in 0..l, NEW m \in 0..l
    PROVE  /\ Day!UpTo(l, n + 1) \in 0..l
           /\ m <= n => Day!UpTo(l, m + 1) <= Day!UpTo(l, n + 1)
           /\ n <= Day!UpTo(l, n + 1)
BY DEF Day!UpTo

LEMMA LostIs ==
    ASSUME Day!RiskDayAssumption, NEW c \in Days, NEW lost \in BOOLEAN
    PROVE  /\ Day!Lost(c, lost) \in Days /\ Day!Counted(c) \in Days
           /\ Day!Lost(c, lost).count = c.count
           /\ Day!Lost(c, lost).loss = IF lost THEN Day!UpTo(LossLimit, c.loss + 1) ELSE c.loss
           /\ Day!Lost(c, lost).streak = IF lost THEN Day!UpTo(MaxConsec, c.streak + 1) ELSE 0
           /\ Day!Counted(c).loss = c.loss /\ Day!Counted(c).streak = c.streak
           /\ Day!Counted(c).count = Day!UpTo(MaxTrades, c.count + 1)
<1>1. /\ c.count \in 0..MaxTrades /\ c.loss \in 0..LossLimit /\ c.streak \in 0..MaxConsec
  BY DEF Days
<1>2. /\ Day!UpTo(MaxTrades, c.count + 1) \in 0..MaxTrades
      /\ Day!UpTo(LossLimit, c.loss + 1) \in 0..LossLimit
      /\ Day!UpTo(MaxConsec, c.streak + 1) \in 0..MaxConsec
  BY <1>1, RiskBounds, UpToIs
<1> DEFINE v == Day!Lost(c, lost)
           w == Day!Counted(c)
           l == IF lost THEN Day!UpTo(LossLimit, c.loss + 1) ELSE c.loss
           n == IF lost THEN Day!UpTo(MaxConsec, c.streak + 1) ELSE 0
<1>3. v = [count |-> c.count, loss |-> l, streak |-> n]
  BY DEF Day!Lost, Days
<1>4. w = [count |-> Day!UpTo(MaxTrades, c.count + 1), loss |-> c.loss, streak |-> c.streak]
  BY DEF Day!Counted, Days
<1>5. l \in 0..LossLimit /\ n \in 0..MaxConsec
  BY <1>1, <1>2, RiskBounds
<1> HIDE DEF v, w, l, n
<1>6. /\ v \in Days /\ w \in Days
      /\ v.count = c.count /\ v.loss = l /\ v.streak = n
      /\ w.loss = c.loss /\ w.streak = c.streak /\ w.count = Day!UpTo(MaxTrades, c.count + 1)
  BY <1>1, <1>2, <1>3, <1>4, <1>5 DEF Days
<1> QED
  BY <1>6, Zenon DEF v, w, l, n

\* Two counters that take the same result keep their order.
LEMMA LostKeeps ==
    ASSUME Day!RiskDayAssumption, NEW c \in Days, NEW d \in Days, NEW lost \in BOOLEAN
    PROVE  /\ d.loss <= c.loss => Day!Lost(d, lost).loss <= Day!Lost(c, lost).loss
           /\ d.streak <= c.streak => Day!Lost(d, lost).streak <= Day!Lost(c, lost).streak
           /\ d.count <= c.count => Day!Counted(d).count <= Day!Counted(c).count
           /\ c.loss <= Day!Lost(c, lost).loss /\ c.count <= Day!Counted(c).count
           /\ MaxConsec <= LossLimit /\ c.streak <= c.loss
                 => Day!Lost(c, lost).streak <= Day!Lost(c, lost).loss
<1>1. /\ c.count \in 0..MaxTrades /\ c.loss \in 0..LossLimit /\ c.streak \in 0..MaxConsec
      /\ d.count \in 0..MaxTrades /\ d.loss \in 0..LossLimit /\ d.streak \in 0..MaxConsec
  BY DEF Days
<1>2. /\ d.loss <= c.loss => Day!UpTo(LossLimit, d.loss + 1) <= Day!UpTo(LossLimit, c.loss + 1)
      /\ d.streak <= c.streak
            => Day!UpTo(MaxConsec, d.streak + 1) <= Day!UpTo(MaxConsec, c.streak + 1)
      /\ d.count <= c.count => Day!UpTo(MaxTrades, d.count + 1) <= Day!UpTo(MaxTrades, c.count + 1)
      /\ c.loss <= Day!UpTo(LossLimit, c.loss + 1) /\ c.count <= Day!UpTo(MaxTrades, c.count + 1)
  BY <1>1, RiskBounds, UpToIs
<1>3. MaxConsec <= LossLimit /\ c.streak <= c.loss
         => Day!UpTo(MaxConsec, c.streak + 1) <= Day!UpTo(LossLimit, c.loss + 1)
  BY <1>1, RiskBounds DEF Day!UpTo
<1> QED
  BY <1>1, <1>2, <1>3, RiskBounds, LostIs

LEMMA RiskIs ==
    ASSUME Day!RiskDayAssumption, Day!TypeOK, NEW e \in Engines
    PROVE  /\ counters[e] \in Days /\ rows[e] \in Days /\ done[e] \in Days
           /\ MaxConsec <= LossLimit => /\ counters[e].streak <= counters[e].loss
                                        /\ rows[e].streak <= rows[e].loss
           /\ report[e] \in 0..LossLimit /\ old[e] \in BOOLEAN /\ stale[e] \in BOOLEAN
           /\ pc[e] \in TickStages
           /\ Day!Mates(e) \subseteq Engines /\ e \in Day!Mates(e)
BY RiskBounds DEF Day!TypeOK, Days, TickStages, Day!Mates

LEMMA InitRisk == ASSUME Day!RiskDayAssumption, Day!Init PROVE RiskInv
<1>1. Day!Blank \in Days /\ Day!Blank.streak <= Day!Blank.loss /\ Day!Blank.loss = 0
  BY BlankIs
<1>2. Day!TypeOK
  BY <1>1, RiskBounds DEF Day!Init, Day!TypeOK, Days
<1>3. CountInv /\ ReportInv
  BY <1>1, <1>2, RiskIs, BlankIs, RiskBounds DEF Day!Init, CountInv, ReportInv
<1> QED
  BY <1>2, <1>3 DEF RiskInv

LEMMA TickRisk ==
    ASSUME Day!RiskDayAssumption, RiskInv, NEW e \in Engines, Day!Tick(e)
    PROVE  RiskInv'
<1> USE DEF RiskInv
<1>1. /\ pc[e] = "idle" /\ pc' = [pc EXCEPT ![e] = "monitor"]
      /\ stale' = [stale EXCEPT ![e] = FALSE]
      /\ UNCHANGED <<adaptive, report, holding, rows, missed, done, restarts>>
  BY DEF Day!Tick, Day!Goto
<1>2. \/ /\ old[e] /\ e \notin adaptive
         /\ counters' = [counters EXCEPT ![e] = Day!Blank] /\ old' = [old EXCEPT ![e] = FALSE]
      \/ ~(old[e] /\ e \notin adaptive) /\ UNCHANGED <<counters, old>>
  BY DEF Day!Tick
<1>3. Day!TypeOK'
  <2>1. Day!Blank \in Days /\ Day!Blank.streak <= Day!Blank.loss
    BY BlankIs
  <2>2. CASE old[e] /\ e \notin adaptive
    <3>1. counters' = [counters EXCEPT ![e] = Day!Blank] /\ old' = [old EXCEPT ![e] = FALSE]
      BY <1>2, <2>2
    <3>2. counters' \in [Engines -> Days] /\ old' \in [Engines -> BOOLEAN]
      BY <2>1, <3>1 DEF Day!TypeOK, Days
    <3>3. \A f \in Engines : MaxConsec <= LossLimit => counters'[f].streak <= counters'[f].loss
      BY <2>1, <3>1, RiskIs DEF Day!TypeOK
    <3> QED
      BY <1>1, <3>2, <3>3 DEF Day!TypeOK, Days
  <2>3. CASE ~(old[e] /\ e \notin adaptive)
    BY <1>1, <1>2, <2>3 DEF Day!TypeOK
  <2> QED
    BY <2>2, <2>3
<1>4. \A f \in Engines : /\ f # e => /\ counters'[f] = counters[f] /\ old'[f] = old[f]
                                     /\ pc'[f] = pc[f] /\ stale'[f] = stale[f]
                         /\ done'[f] = done[f] /\ rows'[f] = rows[f] /\ report'[f] = report[f]
  BY <1>1, <1>2 DEF Day!TypeOK
<1>5. /\ pc'[e] = "monitor" /\ ~stale'[e]
      /\ ~(old'[e] /\ e \notin adaptive')
      /\ counters'[e] = counters[e] \/ (done[e] = Day!Blank /\ counters'[e] = Day!Blank)
  BY <1>1, <1>2 DEF Day!TypeOK, CountInv
<1>6. CountInv'
  BY <1>1, <1>4, <1>5, RiskIs, BlankIs DEF CountInv
<1>7. ReportInv'
  BY <1>1, <1>4, <1>5, RiskIs DEF ReportInv
<1> QED
  BY <1>3, <1>6, <1>7

LEMMA MonitorRisk ==
    ASSUME Day!RiskDayAssumption, RiskInv, NEW e \in Engines, Day!Monitor(e)
    PROVE  RiskInv'
<1> USE DEF RiskInv
<1>1. /\ pc[e] = "monitor" /\ pc' = [pc EXCEPT ![e] = IF e \in adaptive THEN "gate" ELSE "report"]
      /\ UNCHANGED <<adaptive, old, report, stale, restarts>>
  BY DEF Day!Monitor, Day!Goto
<1>2. ReportInv'
  <2>1. ASSUME restarts = 0, NEW f \in Engines \ adaptive, pc'[f] \notin {"monitor", "report"}
        PROVE  done'[f].loss <= report[f]
    <3>1. f # e /\ pc[f] \notin {"monitor", "report"}
      BY <1>1, <2>1 DEF Day!TypeOK
    <3>2. done'[f] = done[f]
      BY <3>1 DEF Day!Monitor, Day!TypeOK
    <3> QED
      BY <2>1, <3>1, <3>2 DEF ReportInv
  <2> QED
    BY <1>1, <2>1 DEF ReportInv
<1>3. CASE UNCHANGED <<counters, rows, missed, done>> /\ holding' \in {holding, holding \ {e}}
  <2>1. Day!TypeOK'
    BY <1>1, <1>3 DEF Day!TypeOK
  <2>2. CountInv'
    <3>1. \A f \in Engines : pc'[f] = "idle" \/ stale'[f] <=> pc[f] = "idle" \/ stale[f]
      BY <1>1 DEF Day!TypeOK
    <3> QED
      BY <1>1, <1>3, <3>1 DEF CountInv
  <2> QED
    BY <1>2, <2>1, <2>2
<1>4. ASSUME NEW lost \in BOOLEAN,
             counters' = [counters EXCEPT ![e] = Day!Lost(@, lost)],
             \/ /\ UNCHANGED missed
                /\ rows' = [f \in Engines |->
                              IF f \in Day!Mates(e) THEN Day!Counted(Day!Lost(rows[f], lost))
                              ELSE rows[f]]
             \/ missed' = missed \cup {e} /\ UNCHANGED rows,
             done' = IF stale[e] THEN done ELSE [done EXCEPT ![e] = Day!Lost(@, lost)],
             holding' = holding \ {e}
      PROVE  RiskInv'
  <2> DEFINE c == Day!Lost(counters[e], lost)
             d == Day!Lost(done[e], lost)
             r(f) == Day!Counted(Day!Lost(rows[f], lost))
  <2>1. /\ c \in Days /\ d \in Days /\ d.loss <= c.loss
        /\ restarts = 0 => d.streak <= c.streak /\ d.count <= c.count
        /\ counters[e].loss <= c.loss
        /\ MaxConsec <= LossLimit => c.streak <= c.loss
    <3>1. counters[e] \in Days /\ done[e] \in Days
      BY RiskIs
    <3>2. /\ done[e].loss <= counters[e].loss
          /\ restarts = 0 => /\ done[e].count <= counters[e].count
                             /\ done[e].streak <= counters[e].streak
          /\ MaxConsec <= LossLimit => counters[e].streak <= counters[e].loss
      BY RiskIs DEF CountInv
    <3>3. c \in Days /\ d \in Days /\ c.count = counters[e].count /\ d.count = done[e].count
      BY <3>1, LostIs
    <3>4. /\ d.loss <= c.loss /\ (restarts = 0 => d.streak <= c.streak)
          /\ counters[e].loss <= c.loss
          /\ MaxConsec <= LossLimit => c.streak <= c.loss
      BY <3>1, <3>2, LostKeeps
    <3> HIDE DEF c, d
    <3> QED
      BY <3>2, <3>3, <3>4
  <2>2. ASSUME NEW f \in Engines
        PROVE  /\ r(f) \in Days /\ rows[f].loss <= r(f).loss
               /\ f = e /\ f \notin missed => d.loss <= r(f).loss
               /\ MaxConsec <= LossLimit => r(f).streak <= r(f).loss
    <3>1. Day!Lost(rows[f], lost) \in Days
      BY RiskIs, LostIs
    <3>2. /\ r(f) \in Days /\ r(f).loss = Day!Lost(rows[f], lost).loss
          /\ r(f).streak = Day!Lost(rows[f], lost).streak
      BY <3>1, LostIs
    <3>3. /\ rows[f].loss <= Day!Lost(rows[f], lost).loss
          /\ MaxConsec <= LossLimit
                => Day!Lost(rows[f], lost).streak <= Day!Lost(rows[f], lost).loss
          /\ f = e /\ f \notin missed => d.loss <= Day!Lost(rows[f], lost).loss
      BY RiskIs, LostKeeps DEF CountInv
    <3> QED
      BY <3>2, <3>3
  <2>3. /\ counters' = [counters EXCEPT ![e] = c]
        /\ \/ /\ UNCHANGED missed
              /\ rows' = [f \in Engines |-> IF f \in Day!Mates(e) THEN r(f) ELSE rows[f]]
           \/ missed' = missed \cup {e} /\ UNCHANGED rows
        /\ done' = IF stale[e] THEN done ELSE [done EXCEPT ![e] = d]
    BY <1>4
  <2> HIDE DEF c, d, r
  <2>4. Day!TypeOK'
    <3>1. counters' \in [Engines -> Days] /\ done' \in [Engines -> Days]
      BY <2>1, <2>3 DEF Day!TypeOK, Days
    <3>2. rows' \in [Engines -> Days] /\ missed' \subseteq Engines
      <4>1. rows \in [Engines -> Days] /\ missed \subseteq Engines
        BY DEF Day!TypeOK, Days
      <4> QED
        BY <2>2, <2>3, <4>1
    <3>3. \A f \in Engines : MaxConsec <= LossLimit => /\ counters'[f].streak <= counters'[f].loss
                                                       /\ rows'[f].streak <= rows'[f].loss
      BY <2>1, <2>2, <2>3, RiskIs DEF Day!TypeOK
    <3>4. /\ pc' \in [Engines -> TickStages] /\ holding' \subseteq Engines
      BY <1>1, <1>4 DEF Day!TypeOK, TickStages
    <3> QED
      BY <1>1, <3>1, <3>2, <3>3, <3>4 DEF Day!TypeOK, Days, TickStages
  <2>5. ASSUME NEW f \in Engines
        PROVE  /\ done'[f].loss <= counters'[f].loss
               /\ f \notin missed' => done'[f].loss <= rows'[f].loss
               /\ restarts = 0 => /\ done'[f].count <= counters'[f].count
                                  /\ done'[f].streak <= counters'[f].streak
               /\ stale[f] => done'[f] = Day!Blank
               /\ old[f] /\ f \notin adaptive
                     => done'[f] = Day!Blank /\ (pc'[f] = "idle" \/ stale[f])
    <3>1. /\ rows'[f] \in Days /\ rows[f].loss <= rows'[f].loss
          /\ f \notin missed' => f \notin missed /\ (f = e => d.loss <= rows'[f].loss)
      BY <2>2, <2>3, RiskIs DEF Days
    <3>2. CASE f # e
      <4>1. counters'[f] = counters[f] /\ done'[f] = done[f] /\ pc'[f] = pc[f]
        BY <1>1, <2>3, <3>2 DEF Day!TypeOK
      <4> QED
        BY <3>1, <4>1, RiskIs DEF CountInv, Days
    <3>3. CASE f = e /\ stale[e]
      <4>1. counters'[f] = c /\ done'[f] = Day!Blank /\ done[f] = Day!Blank
        BY <2>3, <3>3 DEF Day!TypeOK, CountInv
      <4> QED
        BY <2>1, <3>1, <3>3, <4>1, BlankIs, RiskBounds DEF Days
    <3>4. CASE f = e /\ ~stale[e]
      <4>1. counters'[f] = c /\ done'[f] = d
        BY <2>3, <3>4 DEF Day!TypeOK
      <4>2. ~(old[f] /\ f \notin adaptive)
        BY <1>1, <3>4 DEF CountInv
      <4> QED
        BY <2>1, <3>1, <3>4, <4>1, <4>2
    <3> QED
      BY <3>2, <3>3, <3>4
  <2>6. CountInv'
    BY <1>1, <2>5 DEF CountInv
  <2> QED
    BY <1>2, <2>4, <2>6
<1> QED
  BY <1>3, <1>4 DEF Day!Monitor

LEMMA ReportRisk ==
    ASSUME Day!RiskDayAssumption, RiskInv, NEW e \in Engines, Day!Report(e)
    PROVE  RiskInv'
<1> USE DEF RiskInv
<1>1. /\ pc[e] = "report" /\ pc' = [pc EXCEPT ![e] = "gate"]
      /\ report' = [report EXCEPT ![e] = counters[e].loss]
      /\ UNCHANGED <<adaptive, counters, old, stale, holding, rows, missed, done, restarts>>
  BY DEF Day!Report, Day!Goto
<1>2. Day!TypeOK'
  <2>1. report' \in [Engines -> 0..LossLimit]
    BY <1>1, RiskIs DEF Day!TypeOK, Days
  <2> QED
    BY <1>1, <2>1 DEF Day!TypeOK
<1>3. CountInv'
  <2>1. \A f \in Engines : pc'[f] = "idle" \/ stale'[f] <=> pc[f] = "idle" \/ stale[f]
    BY <1>1 DEF Day!TypeOK
  <2> QED
    BY <1>1, <2>1 DEF CountInv
<1>4. ReportInv'
  <2>1. \A f \in Engines : f # e => pc'[f] = pc[f] /\ report'[f] = report[f]
    BY <1>1 DEF Day!TypeOK
  <2>2. report'[e] = counters[e].loss
    BY <1>1 DEF Day!TypeOK
  <2> QED
    BY <1>1, <2>1, <2>2 DEF ReportInv, CountInv
<1> QED
  BY <1>2, <1>3, <1>4

LEMMA GateRisk ==
    ASSUME Day!RiskDayAssumption, RiskInv, NEW e \in Engines, Day!Gate(e)
    PROVE  RiskInv'
<1> USE DEF RiskInv
<1>1. /\ pc[e] = "gate"
      /\ pc' = [pc EXCEPT ![e] = "enter"] \/ pc' = [pc EXCEPT ![e] = "idle"]
      /\ UNCHANGED <<adaptive, counters, old, report, stale, holding, rows, missed, done, restarts>>
  BY DEF Day!Gate, Day!Goto
<1>2. \A f \in Engines :
          /\ pc[f] = "idle" => pc'[f] = "idle"
          /\ pc'[f] \notin {"monitor", "report"} => pc[f] \notin {"monitor", "report"}
  BY <1>1 DEF Day!TypeOK
<1>3. Day!TypeOK'
  BY <1>1 DEF Day!TypeOK
<1> QED
  BY <1>1, <1>2, <1>3 DEF CountInv, ReportInv

LEMMA EnterRisk ==
    ASSUME Day!RiskDayAssumption, RiskInv, NEW e \in Engines, Day!Enter(e)
    PROVE  RiskInv'
<1> USE DEF RiskInv
<1> DEFINE c == Day!Counted(counters[e])
           d == Day!Counted(done[e])
<1>1. /\ pc[e] = "enter" /\ pc' = [pc EXCEPT ![e] = "idle"]
      /\ UNCHANGED <<adaptive, old, report, stale, rows, missed, restarts>>
      /\ \/ /\ counters' = [counters EXCEPT ![e] = c]
            /\ done' = IF stale[e] THEN done ELSE [done EXCEPT ![e] = d]
            /\ holding' \in {holding \cup {e}, holding}
         \/ UNCHANGED <<counters, done, holding>>
  BY DEF Day!Enter, Day!Goto
<1>2. /\ c \in Days /\ d \in Days
      /\ c.loss = counters[e].loss /\ c.streak = counters[e].streak
      /\ d.loss = done[e].loss /\ d.streak = done[e].streak
  BY RiskIs, LostIs
<1>3. /\ counters[e].count <= c.count
      /\ done[e].count <= counters[e].count => d.count <= c.count
  BY RiskIs, LostKeeps
<1> HIDE DEF c, d
<1>4. /\ \A f \in Engines : f # e => /\ counters'[f] = counters[f] /\ done'[f] = done[f]
                                     /\ pc'[f] = pc[f]
      /\ pc'[e] = "idle"
      /\ \/ counters'[e] = c /\ done'[e] = IF stale[e] THEN done[e] ELSE d
         \/ counters'[e] = counters[e] /\ done'[e] = done[e]
  BY <1>1 DEF Day!TypeOK
<1>5. Day!TypeOK'
  <2>0. counters \in [Engines -> Days] /\ done \in [Engines -> Days]
    BY DEF Day!TypeOK, Days
  <2>1. counters' \in [Engines -> Days] /\ done' \in [Engines -> Days]
    <3>1. CASE UNCHANGED <<counters, done>>
      BY <2>0, <3>1
    <3>2. CASE /\ counters' = [counters EXCEPT ![e] = c]
               /\ done' = IF stale[e] THEN done ELSE [done EXCEPT ![e] = d]
      BY <1>2, <2>0, <3>2
    <3> QED
      BY <1>1, <3>1, <3>2
  <2>2. \A f \in Engines : MaxConsec <= LossLimit => /\ counters'[f].streak <= counters'[f].loss
                                                     /\ rows'[f].streak <= rows'[f].loss
    BY <1>1, <1>2, <1>4, RiskIs
  <2>3. pc' \in [Engines -> TickStages] /\ holding' \subseteq Engines
    BY <1>1 DEF Day!TypeOK, TickStages
  <2> QED
    BY <1>1, <2>1, <2>2, <2>3 DEF Day!TypeOK, Days, TickStages
<1>6. ASSUME NEW f \in Engines
      PROVE  /\ done'[f].loss <= counters'[f].loss
             /\ f \notin missed => done'[f].loss <= rows[f].loss
             /\ done'[f].loss = done[f].loss
             /\ restarts = 0 => /\ done'[f].count <= counters'[f].count
                                /\ done'[f].streak <= counters'[f].streak
             /\ stale[f] => done'[f] = Day!Blank
             /\ old[f] /\ f \notin adaptive => done'[f] = Day!Blank /\ (pc'[f] = "idle" \/ stale[f])
  <2>1. CASE f # e
    BY <1>4, <2>1 DEF CountInv
  <2>2. CASE f = e /\ stale[e]
    <3>1. done'[f] = done[f] /\ done[f] = Day!Blank
      BY <1>4, <2>2 DEF CountInv
    <3>2. /\ Day!Blank.loss = 0 /\ Day!Blank.count = 0 /\ Day!Blank.streak = 0
          /\ counters'[f] \in Days /\ rows[f] \in Days
      BY <1>2, <1>4, <2>2, RiskIs, BlankIs
    <3> QED
      BY <1>4, <2>2, <3>1, <3>2, RiskBounds DEF Days
  <2>3. CASE f = e /\ ~stale[e]
    <3>1. ~(old[f] /\ f \notin adaptive)
      BY <1>1, <2>3 DEF CountInv
    <3> QED
      BY <1>2, <1>3, <1>4, <2>3, <3>1 DEF CountInv
  <2> QED
    BY <2>1, <2>2, <2>3
<1>7. CountInv'
  BY <1>1, <1>6 DEF CountInv
<1>8. ReportInv'
  <2>1. ASSUME restarts = 0, NEW f \in Engines \ adaptive, pc'[f] \notin {"monitor", "report"}
        PROVE  done'[f].loss <= report[f]
    <3>1. pc[f] \notin {"monitor", "report"}
      BY <1>1, <1>4, <2>1
    <3> QED
      BY <1>6, <2>1, <3>1 DEF ReportInv
  <2> QED
    BY <1>1, <2>1 DEF ReportInv
<1> QED
  BY <1>5, <1>7, <1>8

LEMMA NewDayRisk == ASSUME Day!RiskDayAssumption, RiskInv, Day!NewDay PROVE RiskInv'
<1> USE DEF RiskInv
<1>1. /\ old' = [e \in Engines |-> TRUE] /\ stale' = [e \in Engines |-> pc[e] # "idle"]
      /\ rows' = [e \in Engines |-> Day!Blank] /\ done' = [e \in Engines |-> Day!Blank]
      /\ missed' = {}
      /\ UNCHANGED <<adaptive, counters, report, pc, holding, restarts>>
  BY DEF Day!NewDay
<1>2. /\ Day!Blank \in Days /\ Day!Blank.loss = 0 /\ Day!Blank.count = 0 /\ Day!Blank.streak = 0
      /\ rows' \in [Engines -> Days] /\ done' \in [Engines -> Days]
  BY <1>1, BlankIs
<1>3. Day!TypeOK'
  <2>1. \A f \in Engines : MaxConsec <= LossLimit => /\ counters'[f].streak <= counters'[f].loss
                                                     /\ rows'[f].streak <= rows'[f].loss
    BY <1>1, <1>2, RiskIs
  <2>2. old' \in [Engines -> BOOLEAN] /\ stale' \in [Engines -> BOOLEAN]
    BY <1>1
  <2> QED
    BY <1>1, <1>2, <2>1, <2>2 DEF Day!TypeOK, Days
<1>4. CountInv' /\ ReportInv'
  <2>1. \A f \in Engines :
           /\ done'[f] = Day!Blank /\ rows'[f] = Day!Blank /\ counters'[f] = counters[f]
           /\ counters[f] \in Days /\ report[f] \in 0..LossLimit
           /\ pc[f] = "idle" \/ stale'[f]
    BY <1>1, RiskIs
  <2> QED
    BY <1>1, <1>2, <2>1, RiskBounds DEF CountInv, ReportInv, Days
<1> QED
  BY <1>3, <1>4

LEMMA RestartRisk == ASSUME Day!RiskDayAssumption, RiskInv, Day!Restart PROVE RiskInv'
<1> USE DEF RiskInv
<1>1. PICK unread \in SUBSET Engines :
          Day!Restarted(unread) /\ old' = [e \in Engines |-> e \in unread]
  BY DEF Day!Restart
<1>2. /\ restarts < MaxRestarts /\ restarts' = restarts + 1
      /\ counters' = [e \in Engines |-> IF e \in unread THEN Day!Blank ELSE rows[e]]
      /\ report' = [e \in Engines |-> 0]
      /\ pc' = [e \in Engines |-> "idle"] /\ stale' = [e \in Engines |-> FALSE]
      /\ done' = [e \in Engines |-> IF e \in unread \cup missed THEN Day!Blank ELSE done[e]]
      /\ missed' = {} /\ UNCHANGED <<adaptive, holding, rows>>
  BY <1>1 DEF Day!Restarted
<1>3. restarts' \in 0..MaxRestarts /\ restarts' # 0
  BY <1>2, RiskBounds DEF Day!TypeOK
<1>4. Day!Blank \in Days /\ Day!Blank.loss = 0 /\ Day!Blank.streak = 0
  BY BlankIs
<1>5. Day!TypeOK'
  <2>1. counters' \in [Engines -> Days] /\ done' \in [Engines -> Days]
    BY <1>2, <1>4, RiskIs
  <2>2. \A f \in Engines : MaxConsec <= LossLimit => counters'[f].streak <= counters'[f].loss
    BY <1>2, <1>4, RiskIs
  <2>3. old' \in [Engines -> BOOLEAN]
    BY <1>1
  <2> QED
    BY <1>2, <1>3, <2>1, <2>2, <2>3, RiskBounds DEF Day!TypeOK, Days
<1>6. CountInv'
  <2>1. ASSUME NEW e \in Engines
        PROVE  /\ done'[e].loss <= counters'[e].loss /\ done'[e].loss <= rows[e].loss
               /\ ~stale'[e] /\ pc'[e] = "idle" /\ (old'[e] => done'[e] = Day!Blank)
    <3>1. rows[e].loss \in Nat /\ rows[e].loss >= 0
      BY RiskIs, RiskBounds DEF Days
    <3>2. CASE e \in unread \cup missed
      <4>1. done'[e] = Day!Blank /\ counters'[e] \in {Day!Blank, rows[e]}
        BY <1>2, <3>2
      <4> QED
        BY <1>1, <1>2, <1>4, <3>1, <4>1
    <3>3. CASE e \notin unread \cup missed
      <4>1. done'[e] = done[e] /\ counters'[e] = rows[e] /\ ~old'[e]
        BY <1>1, <1>2, <3>3
      <4>2. done[e].loss <= rows[e].loss
        BY <3>3 DEF CountInv
      <4> QED
        BY <1>2, <4>1, <4>2
    <3> QED
      BY <3>2, <3>3
  <2> QED
    BY <1>2, <1>3, <2>1 DEF CountInv
<1> QED
  BY <1>2, <1>3, <1>5, <1>6 DEF ReportInv

LEMMA NextRisk == Day!RiskDayAssumption /\ RiskInv /\ [Day!Next]_(Day!vars) => RiskInv'
<1> SUFFICES ASSUME Day!RiskDayAssumption, RiskInv, [Day!Next]_(Day!vars) PROVE RiskInv'
  OBVIOUS
<1>1. CASE Day!Next
  BY <1>1, TickRisk, MonitorRisk, ReportRisk, GateRisk, EnterRisk, NewDayRisk, RestartRisk
     DEF Day!Next, Day!Ticking
<1>2. CASE UNCHANGED Day!vars
  BY <1>2 DEF Day!vars, RiskInv, Day!TypeOK, CountInv, ReportInv
<1> QED
  BY <1>1, <1>2

\* BotEngine's counters and the day's rows keep their types, and in both a losing streak is
\* part of the day's loss.
THEOREM DayTypeCorrect == Day!RiskDayAssumption => (Day!Spec => []Day!TypeOK)
<1> SUFFICES ASSUME Day!RiskDayAssumption PROVE Day!Spec => []Day!TypeOK
  OBVIOUS
<1>1. Day!Init => RiskInv
  BY InitRisk
<1>2. RiskInv /\ [Day!Next]_(Day!vars) => RiskInv'
  BY NextRisk
<1>3. RiskInv => Day!TypeOK
  BY DEF RiskInv
<1> QED
  BY <1>1, <1>2, <1>3, PTL DEF Day!Spec

\* A sum over engines is that of the lemmas.
LEMMA SumsAre ==
    ASSUME Day!RiskDayAssumption, Day!TypeOK, NEW T \in SUBSET Engines
    PROVE  Day!MapThenSumSet(LAMBDA f : done[f].loss, T) = SumOf([f \in T |-> done[f].loss], T)
<1> DEFINE h == [f \in T |-> done[f].loss]
           k == CHOOSE k : k = [s \in SUBSET T |->
                   IF s = {} THEN 0 ELSE done[OneOf(s)].loss + k[s \ {OneOf(s)}]]
<1>1. IsFiniteSet(T)
  BY RiskBounds, FS_Subset
<1>2. PICK g : IsSum(g, h, T)
  BY <1>1, SumExists
<1>3. \A s \in SUBSET T : s # {} => h[OneOf(s)] = done[OneOf(s)].loss
  BY OneOfIs
<1>4. g = [s \in SUBSET T |-> IF s = {} THEN 0 ELSE done[OneOf(s)].loss + g[s \ {OneOf(s)}]]
  BY <1>2, <1>3 DEF IsSum
<1>5. k = [s \in SUBSET T |-> IF s = {} THEN 0 ELSE done[OneOf(s)].loss + k[s \ {OneOf(s)}]]
  BY <1>4
<1>6. Day!MapThenSumSet(LAMBDA f : done[f].loss, T) = k[T]
  BY DEF Day!MapThenSumSet, Day!MapThenFoldSet, OneOf
<1> HIDE DEF k, h
<1>7. IsSum(k, h, T)
  BY <1>3, <1>5 DEF IsSum
<1>8. k[T] = SumOf(h, T)
  BY <1>1, <1>7, SumMeans
<1> QED
  BY <1>6, <1>8 DEF h

LEMMA AdmittedIs ==
    ASSUME Day!RiskDayAssumption, RiskInv, [Day!Next]_(Day!vars), NEW e \in Engines, Day!Admitted(e)
    PROVE  ~Day!Blocked(e) /\ ~Day!AccountBlocked
<1>1. pc[e] = "gate" /\ pc'[e] = "enter" /\ e \in DOMAIN pc
  BY DEF Day!Admitted, RiskInv, Day!TypeOK
<1>2. PICK f \in Engines : Day!Ticking(f)
  BY <1>1 DEF Day!Next, Day!NewDay, Day!Restart, Day!Restarted, Day!vars
<1>3. f = e
  BY <1>1, <1>2 DEF Day!Ticking, Day!Tick, Day!Monitor, Day!Report, Day!Gate, Day!Enter, Day!Goto,
                    RiskInv, Day!TypeOK
<1> QED
  BY <1>1, <1>2, <1>3 DEF Day!Ticking, Day!Tick, Day!Monitor, Day!Report, Day!Gate, Day!Enter,
                          Day!Goto, RiskInv, Day!TypeOK

LEMMA KeptOut ==
    ASSUME Day!RiskDayAssumption, RiskInv, [Day!Next]_(Day!vars), NEW e \in Engines, Day!Admitted(e)
    PROVE  Day!InLimits(e)
<1>1. ~Day!Blocked(e) /\ ~Day!AccountBlocked
  BY AdmittedIs
<1>2. /\ done[e].loss < LossLimit
      /\ restarts = 0 => done[e].count < MaxTrades /\ done[e].streak < MaxConsec
  <2>1. counters[e] \in Days /\ done[e] \in Days
    BY RiskIs DEF RiskInv
  <2> QED
    BY <1>1, <2>1, RiskBounds DEF Day!Blocked, RiskInv, CountInv, Days
<1>3. ASSUME restarts = 0
      PROVE  Day!MapThenSumSet(LAMBDA f : done[f].loss, Day!Told) < AccountLimit
  <2> DEFINE h == [f \in Day!Told |-> done[f].loss]
  <2>1. Day!Told \in SUBSET Engines /\ IsFiniteSet(Day!Told) /\ IsFiniteSet(Engines)
    BY RiskBounds, FS_Subset DEF Day!Told
  <2>2. Day!MapThenSumSet(LAMBDA f : done[f].loss, Day!Told) = SumOf(h, Day!Told)
    BY <2>1, SumsAre DEF RiskInv
  <2>3. Amounts(h, Day!Told) /\ Amounts(report, Engines) /\ Amounts(report, Day!Told)
    BY <2>1, RiskIs, RiskBounds DEF Amounts, RiskInv, Days
  <2>4. \A f \in Day!Told : h[f] <= report[f]
    BY <1>3 DEF RiskInv, ReportInv, Day!Told
  <2>5. Day!MapThenSumSet(LAMBDA f : report[f], Engines) = SumOf(report, Engines)
    BY Zenon DEF SumOf, Day!MapThenSumSet, Day!MapThenFoldSet, MapThenSumSet, MapThenFoldSet
  <2> HIDE DEF h
  <2>6. SumOf(h, Day!Told) <= SumOf(report, Day!Told)
    BY <2>1, <2>3, <2>4, SumLess
  <2>7. SumOf(report, Day!Told) <= SumOf(report, Engines)
    BY <2>1, <2>3, SumWithin
  <2>8. /\ SumOf(h, Day!Told) \in Nat /\ SumOf(report, Day!Told) \in Nat
        /\ SumOf(report, Engines) \in Nat
    BY <2>1, <2>3, SumNat
  <2>9. SumOf(report, Engines) < AccountLimit
    BY <1>1, <2>5, <2>8, RiskBounds DEF Day!AccountBlocked
  <2> QED
    BY <2>2, <2>6, <2>7, <2>8, <2>9, RiskBounds
<1> QED
  BY <1>2, <1>3 DEF Day!InLimits

\* _checkRiskGates: what an engine lost today keeps it out at its limit, also after restarts
\* that find all of it in the rows; without a restart so do
\* its trades, its streak, and what the engines that report have lost.
THEOREM LimitsAreKept == Day!RiskDayAssumption => (Day!Spec => Day!LimitsHold)
<1> SUFFICES ASSUME Day!RiskDayAssumption PROVE Day!Spec => Day!LimitsHold
  OBVIOUS
<1>1. Day!Init => RiskInv
  BY InitRisk
<1>2. RiskInv /\ [Day!Next]_(Day!vars) => RiskInv'
  BY NextRisk
<1>3. RiskInv /\ [Day!Next]_(Day!vars) => [\A e \in Engines :
                                              Day!Admitted(e) => Day!InLimits(e)]_(Day!vars)
  BY KeptOut
<1> QED
  BY <1>1, <1>2, <1>3, PTL DEF Day!Spec, Day!LimitsHold


----------------------------------------------------------------------------
(* MCAccountCoordinator: a step of the day is a step of RiskDay, or none *)

\* In MCAccountCoordinator, too, the counters of the day have their types, and no limit of
\* the day is passed, that of the loss not even through a restart that finds its rows.
THEOREM SharedLimits == MCSpec => LimitsHold
<1>1. MCInit => RiskInv
  BY InitRisk, DayAssumption DEF MCInit
<1>2. [MCNext]_all => [Day!Next]_(Day!vars)
  BY DEF MCNext, Alone, all, risk, Day!vars
<1>3. RiskInv /\ [MCNext]_all => RiskInv'
  BY <1>2, NextRisk, DayAssumption
<1>4. RiskInv /\ [MCNext]_all => [\A e \in Engines : Day!Admitted(e) => Day!InLimits(e)]_(Day!vars)
  BY <1>2, KeptOut, DayAssumption
<1>5. RiskInv => Day!TypeOK
  BY DEF RiskInv
<1> QED
  BY <1>1, <1>3, <1>4, <1>5, PTL DEF MCSpec, LimitsHold, Day!LimitsHold
=============================================================================
