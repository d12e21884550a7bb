----------------------------- MODULE OrderEntry -----------------------------
(***************************************************************************)
(* One entry of a live engine as it places its orders (BotEngine, the      *)
(* clients BitgetClient and CcxtFuturesClient): post-only quotes that are  *)
(* polled, cancelled and counted, the rest at market, then a stop loss and *)
(* a target, or the emergency close.  The exchange fills a resting quote   *)
(* between any two calls.                                                  *)
(*                                                                         *)
(* The engine does not ask what it holds before it enters: what an entry   *)
(* leaves behind is there at the next one.  After an entry is tracked the  *)
(* position is that of PositionLadder.                                     *)
(***************************************************************************)
EXTENDS Naturals, Sequences, FiniteSetsExt, SequencesExt

CONSTANTS Size,        \* of an order
          MaxRequotes,
          MaxAttempts, \* at stop loss and target
          MaxEntries,
          Worlds       \* what may happen, a set of sets of EntryEvents

EntryEvents == {"maker",         \* entryMode
                "embeds",        \* Bitget: a market order carries stop loss and target
                "rejects",       \* a post-only order that would match is refused
                "voids",         \* the exchange cancels a quote
                "ticker_fails", "order_fails", "fetch_fails", "cancel_fails",
                "sl_fails", "tp_fails", "close_fails",
                "crash"}

OrderEntryAssumption ==
    /\ {Size, MaxAttempts, MaxEntries} \subseteq Nat \ {0} /\ MaxRequotes \in Nat
    /\ Worlds \subseteq SUBSET EntryEvents

VARIABLES world,
          pc, entries,
          attempt,      \* at the quote, or at stop loss and target
          filledMaker,
          seen,         \* of the quote filled, when last polled
          book,         \* quotes, the last one that of this entry
          position,     \* on the exchange
          stops, targets, \* plan orders on the exchange, by entry
          tracked,      \* the entry in openPositions and in the table, 0 if none
          manual        \* watched by software

vars == <<world, pc, entries, attempt, filledMaker, seen, book, position, stops, targets,
          tracked, manual>>

plans  == <<stops, targets>>
engine == <<tracked, manual>>

Maker  == "maker" \in world
Embeds == "embeds" \in world
Quoted == Last(book)
Live(i) == book[i].live
----------------------------------------------------------------------------
(* openPositionMaker *)

Signal ==
    /\ pc = "idle" /\ tracked = 0 /\ entries < MaxEntries
    /\ entries' = entries + 1
    /\ pc' = IF Maker THEN "quote" ELSE "taker"
    /\ attempt' = 0 /\ filledMaker' = 0 /\ seen' = 0
    /\ UNCHANGED <<world, book, position, plans, engine>>

\* Nothing was filled: another quote, or the market.
Requotes ==
    IF attempt < MaxRequotes THEN pc' = "quote" /\ attempt' = attempt + 1
    ELSE pc' = "taker" /\ attempt' = attempt

Quote ==
    /\ pc = "quote"
    /\ book' = Append(book, [left |-> Size, filled |-> 0, live |-> TRUE])
    /\ pc' = "resting" /\ seen' = 0
    /\ UNCHANGED <<world, entries, attempt, filledMaker, position, plans, engine>>

QuoteRejected ==
    /\ "rejects" \in world /\ pc = "quote" /\ Requotes
    /\ UNCHANGED <<world, entries, filledMaker, seen, book, position, plans, engine>>

NoTicker ==
    /\ "ticker_fails" \in world /\ pc = "quote" /\ pc' = "taker"
    /\ UNCHANGED <<world, entries, attempt, filledMaker, seen, book, position, plans, engine>>

\* The order throws: the entry is given up, whatever was filled.
OrderFails ==
    /\ "order_fails" \in world /\ pc \in {"quote", "taker"} /\ pc' = "idle"
    /\ UNCHANGED <<world, entries, attempt, filledMaker, seen, book, position, plans, engine>>

Poll ==
    /\ pc = "resting"
    /\ IF Quoted.left = 0
       THEN pc' = "plans" /\ filledMaker' = Quoted.filled /\ seen' = seen
       ELSE /\ pc' = IF Quoted.live THEN "resting" ELSE "cancel"
            /\ seen' = Quoted.filled /\ filledMaker' = filledMaker
    /\ attempt' = IF pc' = "plans" THEN 1 ELSE attempt
    /\ UNCHANGED <<world, entries, book, position, plans, engine>>

\* Mutant: a quote that is partly filled is waited for.
DeadlineUnfilled ==
    /\ pc = "resting" /\ seen = 0 /\ pc' = "cancel"
    /\ UNCHANGED <<world, entries, attempt, filledMaker, seen, book, position, plans, engine>>

\* fillTimeoutMs, with polls that failed or not.
Deadline ==
    /\ pc = "resting" /\ pc' = "cancel"
    /\ UNCHANGED <<world, entries, attempt, filledMaker, seen, book, position, plans, engine>>

\* A failure is taken for an order that is gone already.
Cancel ==
    /\ pc = "cancel" /\ pc' = "count"
    /\ \/ book' = [book EXCEPT ![Len(book)].live = FALSE]
       \/ "cancel_fails" \in world /\ book' = book
    /\ UNCHANGED <<world, entries, attempt, filledMaker, seen, position, plans, engine>>

Counts(filled) ==
    /\ pc = "count" /\ filledMaker' = filled
    /\ \/ filled = 0 /\ Requotes
       \/ 0 < filled /\ filled < Size /\ pc' = "taker" /\ attempt' = attempt
       \/ filled = Size /\ pc' = "plans" /\ attempt' = 1
    /\ UNCHANGED <<world, entries, seen, book, position, plans, engine>>

\* Mutant: the last poll counts.
CountSeen == Counts(seen)

\* The order is fetched once more.
Count == Counts(Quoted.filled) \/ ("fetch_fails" \in world /\ Counts(seen))

\* A market order without a maker part carries stop loss and target.
Taker ==
    /\ pc = "taker"
    /\ position' = position + Size - filledMaker
    /\ IF Embeds /\ filledMaker = 0
       THEN pc' = "insert" /\ stops' = stops \cup {entries} /\ targets' = targets \cup {entries}
       ELSE pc' = "plans" /\ UNCHANGED plans
    /\ attempt' = 1
    /\ UNCHANGED <<world, entries, filledMaker, seen, book, engine>>
----------------------------------------------------------------------------
(* Stop loss and target: setTPSL, with its ways to place them, and the retries *)

\* A way that works, or none does.
Places(kind, old, may_fail) == {old \cup {entries}} \cup (IF may_fail \in world THEN {old} ELSE {})

\* Mutant: without a stop loss the position is kept.
ProtectByTarget ==
    /\ pc = "plans"
    /\ stops' \in Places("loss_plan", stops, "sl_fails")
    /\ targets' \in Places("profit_plan", targets, "tp_fails")
    /\ pc' = IF attempt < MaxAttempts /\ entries \notin stops' \cap targets' THEN "plans"
             ELSE IF entries \in stops' \cup targets' THEN "insert" ELSE "emergency"
    /\ attempt' = attempt + 1
    /\ UNCHANGED <<world, entries, filledMaker, seen, book, position, tracked, manual>>

Protect ==
    /\ pc = "plans"
    /\ stops' \in IF entries \in stops THEN {stops} ELSE Places("loss_plan", stops, "sl_fails")
    /\ targets' \in IF entries \in targets THEN {targets} ELSE Places("profit_plan", targets, "tp_fails")
    /\ pc' = IF attempt < MaxAttempts /\ entries \notin stops' \cap targets' THEN "plans"
             ELSE IF entries \in stops' THEN "insert" ELSE "emergency"
    /\ attempt' = attempt + 1
    /\ manual' = (pc' = "insert" /\ entries \notin targets')
    /\ UNCHANGED <<world, entries, filledMaker, seen, book, position, tracked>>

\* Reduce-only; plan orders of a position go with it on Bitget alone.
Emergency ==
    /\ pc = "emergency" /\ pc' = "idle"
    /\ position' = IF position > Size THEN position - Size ELSE 0
    /\ targets' = IF Embeds /\ position' = 0 THEN {} ELSE targets
    /\ UNCHANGED <<world, entries, attempt, filledMaker, seen, book, stops, engine>>

EmergencyFails ==
    /\ "close_fails" \in world /\ pc = "emergency"
    /\ pc' = "insert" /\ manual' = TRUE
    /\ UNCHANGED <<world, entries, attempt, filledMaker, seen, book, position, plans, tracked>>

Insert ==
    /\ pc = "insert" /\ pc' = "idle" /\ tracked' = entries
    /\ UNCHANGED <<world, entries, attempt, filledMaker, seen, book, position, plans, manual>>
----------------------------------------------------------------------------
(* The exchange, and the end of the process *)

Fill(i, n) ==
    /\ Live(i) /\ n <= book[i].left
    /\ book' = [book EXCEPT ![i] = [left |-> @.left - n, filled |-> @.filled + n, live |-> n < @.left]]
    /\ position' = position + n
    /\ UNCHANGED <<world, pc, entries, attempt, filledMaker, seen, plans, engine>>

Voided(i) ==
    /\ "voids" \in world /\ Live(i) /\ book' = [book EXCEPT ![i].live = FALSE]
    /\ UNCHANGED <<world, pc, entries, attempt, filledMaker, seen, position, plans, engine>>

Crash ==
    /\ "crash" \in world /\ pc # "idle" /\ pc' = "idle" /\ manual' = FALSE
    /\ UNCHANGED <<world, entries, attempt, filledMaker, seen, book, position, plans, tracked>>

Idles ==
    /\ pc = "idle" /\ entries = 0 /\ attempt = 0 /\ filledMaker = 0 /\ seen = 0
    /\ book = <<>> /\ position = 0
    /\ stops = {} /\ targets = {}
    /\ tracked = 0 /\ manual = FALSE

Init == world \in Worlds /\ Idles

Entering ==
    \/ Quote \/ QuoteRejected \/ NoTicker \/ OrderFails
    \/ Poll \/ Deadline \/ Cancel \/ Count \/ Taker
    \/ Protect \/ Emergency \/ EmergencyFails \/ Insert

Exchange == \E i \in DOMAIN book : Voided(i) \/ \E n \in 1..Size : Fill(i, n)

Next == Signal \/ Entering \/ Exchange \/ Crash

\* Calls have timeouts, and a quote is polled until its deadline.
Fairness == WF_vars(Entering)

Spec == Init /\ [][Next]_vars /\ Fairness
----------------------------------------------------------------------------
(* Properties *)

Order == [left : 0..Size, filled : 0..Size, live : BOOLEAN]

TypeOK ==
    /\ world \in Worlds /\ entries \in 0..MaxEntries /\ tracked \in 0..entries /\ manual \in BOOLEAN
    /\ pc \in {"idle", "quote", "resting", "cancel", "count", "taker", "plans", "emergency", "insert"}
    /\ attempt \in 0..MaxRequotes \/ attempt \in 1..(MaxAttempts + 1)
    /\ {filledMaker, seen} \subseteq 0..Size /\ position \in Nat
    /\ stops \cup targets \subseteq 1..entries
    /\ book \in Seq(Order)
    /\ \A i \in DOMAIN book :
          book[i].left + book[i].filled = Size /\ (Live(i) => book[i].left > 0)

\* Calls that can go wrong without the entry knowing what is left behind.
Reliable ==
    /\ world \cap {"fetch_fails", "cancel_fails", "crash"} = {}
    /\ ~{"maker", "order_fails"} \subseteq world

\* BitgetClient 537: whatever is filled while it polls and cancels, the whole order and no
\* more is held when an entry is tracked, and no quote is left.
TrackedIsWhole ==
    Reliable /\ tracked # 0 => position = Size /\ \A i \in DOMAIN book : ~Live(i)

\* Once an entry is over, the position is tracked, and has a stop loss or is watched.
EntryProtected ==
    Reliable /\ pc = "idle" /\ position > 0 => tracked # 0 /\ (tracked \in stops \/ manual)

\* An entry ends, whatever fails.
EntryEnds == pc # "idle" ~> pc = "idle"

\* BotEngine 2709: "no order without a stop loss"; after the emergency close nothing of the
\* entry is left on the exchange.
NothingLeft == pc = "idle" /\ position = 0 => stops = {} /\ targets = {}
=============================================================================
