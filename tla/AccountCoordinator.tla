------------------------- MODULE AccountCoordinator -------------------------
(***************************************************************************)
(* src/src/modules/trading/domain/AccountCoordinator.js: the per-user      *)
(* object every engine of that user asks before it sends an order.  It     *)
(* keeps a map of margin reservations, keyed by bot, and the last equity   *)
(* anyone reported.  All its methods are synchronous, so each is atomic in *)
(* the single Node process.                                                *)
(*                                                                         *)
(* A bot key is <<symbol, slot>>.  A slot that is a strategy belongs to    *)
(* the multi-strategy group of the symbol (groupKey = userId:symbol); the  *)
(* slot Legacy is the single-engine bot (botKey = userId:symbol, groupKey  *)
(* null).  Symbol and group of an entry are functions of its key: every    *)
(* caller passes the pair that belongs to the key it passes.               *)
(*                                                                         *)
(* Amounts are integers; maxAccountUtilization is the fraction             *)
(* UtilNum / UtilDen, so "x <= equity * utilization" is written            *)
(* x * UtilDen <= equity * UtilNum.                                        *)
(***************************************************************************)
EXTENDS Naturals, FiniteSets, Functions

CONSTANTS Symbols,        \* coins the user trades
          Strategies,     \* strategies armed together on a coin
          Legacy,         \* slot of a single-engine bot
          Margins,        \* margins of entries
          Capitals,       \* of bots that are armed
          Equities,       \* equities an exchange may report
          UtilNum, UtilDen,
          MaxConcurrent   \* maxConcurrentPositions, 0 = unlimited

ASSUME ConstantsAssumption ==
    /\ IsFiniteSet(Symbols) /\ IsFiniteSet(Strategies)
    /\ Legacy \notin Strategies
    /\ Margins \subseteq Nat /\ Capitals \subseteq Nat
    /\ Equities \subseteq Nat
    /\ UtilNum \in Nat /\ UtilDen \in Nat \ {0} /\ UtilNum <= UtilDen
    /\ MaxConcurrent \in Nat

VARIABLES reservations,   \* botKey -> reservation (NoReservation = not in the Map)
          accountEquity,  \* 0 until some bot reads its balance
          origin          \* history: where the side of a reservation came from

coordinatorVars == <<reservations, accountEquity, origin>>

BotKeys    == Symbols \X (Strategies \cup {Legacy})
Sides      == {"LONG", "SHORT"}
Directions == Sides \cup {"none"}

Reservation   == [held : BOOLEAN, margin : Nat, direction : Directions]
NoReservation == [held |-> FALSE, margin |-> 0, direction |-> "none"]

\* asked: canOpen let the entry through; settled: reserved again after it, with another
\* margin; restored: reserved without asking.
Origins == {"none", "asked", "settled", "restored"}

KeySymbol(k) == k[1]
Grouped(k)   == k[2] # Legacy
GroupKeys(s) == {s} \X Strategies
SameGroup(j, k) == Grouped(j) /\ Grouped(k) /\ KeySymbol(j) = KeySymbol(k)

Opposite(d) == IF d = "LONG" THEN "SHORT" ELSE "LONG"
----------------------------------------------------------------------------
(* Queries over the Map. *)

Held(k)         == reservations[k].held
Directional(k)  == Held(k) /\ reservations[k].direction # "none"

\* Sum of the margins a function assigns to a set of keys.
MarginSum(f) == FoldFunction(LAMBDA x, y : x + y, 0, f)

MarginOf(K) == MarginSum([j \in K |-> reservations[j].margin])

CommittedMargin(k) == MarginOf(BotKeys \ {k})

OpenCount(k) == Cardinality({j \in BotKeys \ {k} : Held(j)})

\* Mutant: a grouped caller skips the coin's other reservations altogether.
HasSymbolUngrouped(k, exceptGroup) ==
    \E j \in BotKeys \ {k} : ~exceptGroup /\ Held(j) /\ KeySymbol(j) = KeySymbol(k)

\* exceptGroup: slots of the caller's own group do not count.
HasSymbol(k, exceptGroup) ==
    \E j \in BotKeys \ {k} :
        /\ Held(j)
        /\ KeySymbol(j) = KeySymbol(k)
        /\ ~(exceptGroup /\ SameGroup(j, k))

HasGroupOpenPosition(k) ==
    \E j \in BotKeys \ {k} : SameGroup(j, k) /\ Directional(j)

HasGroupDirection(k, d) ==
    \E j \in BotKeys \ {k} : SameGroup(j, k) /\ Held(j) /\ reservations[j].direction = d

WithinBudget(amount) == amount * UtilDen <= accountEquity * UtilNum

\* Mutants of CanOpen: no race-to-confirm gate; the own margin left out of the sum;
\* the concurrency limit off by one.
CanOpenNoRace(k, m, d) ==
    /\ ~HasSymbol(k, Grouped(k))
    /\ Grouped(k) /\ d # "none" => ~HasGroupDirection(k, Opposite(d))
    /\ accountEquity > 0 => m > 0 /\ WithinBudget(CommittedMargin(k) + m)

CanOpenOthersOnly(k, m, d) ==
    /\ Grouped(k) => ~HasGroupOpenPosition(k)
    /\ ~HasSymbol(k, Grouped(k))
    /\ accountEquity > 0 => m > 0 /\ WithinBudget(CommittedMargin(k))

CanOpenOneMore(k, m, d) ==
    /\ MaxConcurrent > 0 => OpenCount(k) <= MaxConcurrent
    /\ Grouped(k) => ~HasGroupOpenPosition(k)
    /\ ~HasSymbol(k, Grouped(k))
    /\ accountEquity > 0 => m > 0 /\ WithinBudget(CommittedMargin(k) + m)

\* May bot k open a position of side d that needs margin m?
CanOpen(k, m, d) ==
    /\ MaxConcurrent > 0 => OpenCount(k) < MaxConcurrent
    /\ Grouped(k) => ~HasGroupOpenPosition(k)
    /\ ~HasSymbol(k, Grouped(k))
    /\ Grouped(k) /\ d # "none" => ~HasGroupDirection(k, Opposite(d))
    /\ accountEquity > 0 => m > 0 /\ WithinBudget(CommittedMargin(k) + m)

\* May a bot of this capital be armed on symbol s?  Reservations of s itself are
\* left out: a restart replaces them.  Unknown equity fails closed.
CanStartBot(s, capital) ==
    /\ accountEquity > 0
    /\ capital > 0
    /\ WithinBudget(MarginOf({k \in BotKeys : KeySymbol(k) # s}) + capital)
----------------------------------------------------------------------------
(* Updates of the Map. *)

Entry(m, d) == [held |-> TRUE, margin |-> m, direction |-> d]

Reserved(k, m, d) == [reservations EXCEPT ![k] = Entry(m, d)]

\* Mutant: the entry is marked free but keeps its margin and side.
ReleasedInPlace(k) == [reservations EXCEPT ![k].held = FALSE]

Released(k) == [reservations EXCEPT ![k] = NoReservation]

\* reserveGroup: drop the whole group, then one directionless slot per strategy.
GroupReserved(s, strategies, total) ==
    [k \in BotKeys |->
        IF k \notin GroupKeys(s) THEN reservations[k]
        ELSE IF k[2] \in strategies
             THEN Entry(total \div Cardinality(strategies), "none")
             ELSE NoReservation]

GroupReleased(s) ==
    [k \in BotKeys |-> IF k \in GroupKeys(s) THEN NoReservation ELSE reservations[k]]

EquityAfter(e) == IF e > 0 THEN e ELSE accountEquity
----------------------------------------------------------------------------
(* The protocol callers follow, as actions. *)

Empty == reservations = [k \in BotKeys |-> NoReservation] /\ accountEquity = 0

Init ==
    /\ Empty
    /\ origin = [k \in BotKeys |-> "none"]

SetAccountEquity(e) ==
    /\ accountEquity' = EquityAfter(e)
    /\ UNCHANGED <<reservations, origin>>

\* What has lost its side has no origin any more.
Arms(map) ==
    /\ reservations' = map
    /\ origin' = [k \in BotKeys |-> IF map[k].direction = "none" THEN "none" ELSE origin[k]]
    /\ UNCHANGED accountEquity

Gives(k, m, d, from) ==
    /\ reservations' = Reserved(k, m, d)
    /\ origin' = [origin EXCEPT ![k] = from]
    /\ UNCHANGED accountEquity

\* An engine that got its verdict reserves in the same turn of the event loop.
Open(k, m, d) == CanOpen(k, m, d) /\ Gives(k, m, d, "asked")

\* After the fill it reserves again: in live mode what it had, in dry-run mode the margin of the
\* simulation.
Settle(k, m) ==
    /\ Directional(k) /\ m # reservations[k].margin
    /\ Gives(k, m, reservations[k].direction, IF origin[k] = "asked" THEN "settled" ELSE origin[k])

\* A side without asking: of a position found when an engine starts, or of an order filled after
\* a stop dropped its reservation. Nothing else has a side on the coin, as at most one bot had
\* a position there.
Restore(k, m, d) ==
    /\ \A j \in BotKeys \ {k} : KeySymbol(j) = KeySymbol(k) => ~Directional(j)
    /\ Gives(k, m, d, "restored")

Release(k) == Held(k) /\ Arms(Released(k))

\* POST /start: gate on the full capital, then reserve before any await.
ArmGroup(s, strategies, capital) ==
    CanStartBot(s, capital) /\ Arms(GroupReserved(s, strategies, capital))

ArmLegacy(s, capital) ==
    CanStartBot(s, capital) /\ Arms(Reserved(<<s, Legacy>>, capital, "none"))

\* MultiStrategyCoordinator.start: reserves its capital without asking.
RearmGroup(s, strategies, capital) == Arms(GroupReserved(s, strategies, capital))

ReleaseGroup(s) ==
    /\ \E k \in GroupKeys(s) : Held(k)
    /\ Arms(GroupReleased(s))
----------------------------------------------------------------------------
Next ==
    \/ \E e \in Equities : SetAccountEquity(e)
    \/ \E k \in BotKeys :
          \/ Release(k)
          \/ \E m \in Margins : Settle(k, m)
          \/ \E m \in Margins, d \in Sides : Open(k, m, d) \/ Restore(k, m, d)
    \/ \E s \in Symbols :
          \/ ReleaseGroup(s)
          \/ \E capital \in Capitals :
                \/ ArmLegacy(s, capital)
                \/ \E strategies \in (SUBSET Strategies) \ {{}} :
                      ArmGroup(s, strategies, capital) \/ RearmGroup(s, strategies, capital)

Spec == Init /\ [][Next]_coordinatorVars
----------------------------------------------------------------------------
(* Properties. *)

MapOK ==
    /\ reservations \in [BotKeys -> Reservation]
    /\ \A k \in BotKeys : ~Held(k) => reservations[k] = NoReservation
    /\ accountEquity \in Nat

TypeOK ==
    /\ MapOK
    /\ origin \in [BotKeys -> Origins]
    /\ \A k \in BotKeys : Directional(k) <=> origin[k] # "none"

\* Race-to-confirm: however many engines, grouped or legacy, compete for a coin,
\* at most one reservation of that coin carries a side (canOpen gate 2).
OneOpenPerSymbol ==
    \A j, k \in BotKeys :
        Directional(j) /\ Directional(k) /\ KeySymbol(j) = KeySymbol(k) => j = k

\* maxConcurrentPositions counts armed slots too, and arming is never refused by it; yet it
\* bounds the sides that canOpen let through, whatever is restored beside them.
OpenPositionsBounded ==
    MaxConcurrent > 0 =>
        Cardinality({k \in BotKeys : origin[k] \in {"asked", "settled"}}) <= MaxConcurrent

\* All positions of the account (false: those found again when engines start are not asked for).
SidesBounded ==
    MaxConcurrent > 0 => Cardinality({k \in BotKeys : Directional(k)}) <= MaxConcurrent

\* The entry that canOpen lets through leaves the margin of the whole account, what was restored
\* and its own included and its armed slot replaced, within the budget of the known equity.
OpensFor(k) == origin'[k] = "asked" /\ reservations'[k] # reservations[k]
OpenFitsBudget ==
    [][\A k \in BotKeys : OpensFor(k) /\ accountEquity > 0
            => WithinBudget(CommittedMargin(k) + reservations[k].margin)']_coordinatorVars

\* The abstract slot of each coin: the keys whose reservation carries a side.
holders == [s \in Symbols |-> {k \in BotKeys : KeySymbol(k) = s /\ Directional(k)}]

\* The coordinator implements the exclusive slot per coin.
Slot == INSTANCE PositionSlot WITH Owners <- BotKeys, holders <- holders
SlotSpec == Slot!Spec
=============================================================================
