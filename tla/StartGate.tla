------------------------------ MODULE StartGate -----------------------------
(***************************************************************************)
(* POST /bots/:symbol/start for the live bots of one user: the per-user    *)
(* start lock of server/app.js, the balance read under it, canStartBot and *)
(* reserveGroup of the AccountCoordinator, and what the footprint goes     *)
(* through afterwards: MultiStrategyCoordinator.start reserves again, the  *)
(* engines replace and release their slots as they trade, a failed warm-up *)
(* or a stop releases the group, a crash loses the map and the boot resume *)
(* arms again without asking.                                              *)
(*                                                                         *)
(* botOpLock admits one start or stop per coin at a time, so a coin has at *)
(* most one request.                                                       *)
(***************************************************************************)
EXTENDS Naturals, FiniteSets, Sequences, Functions

CONSTANTS Symbols, Strategies, Legacy, Margins, Equities, UtilNum, UtilDen, MaxConcurrent,
          Capital,      \* coin -> capital of its bot
          NoOne,        \* the start lock is free
          Events        \* subset of {"trade", "stop", "crash"}

ASSUME StartGateAssumption ==
    /\ Capital \in [Symbols -> Nat \ {0}]
    /\ IsFiniteSet(Symbols) /\ NoOne \notin Symbols
    /\ IsFiniteSet(Strategies) /\ Strategies # {} /\ Legacy \notin Strategies
    /\ Margins \subseteq Nat /\ Equities \subseteq Nat
    /\ UtilNum \in Nat /\ UtilDen \in Nat

VARIABLES reservations, accountEquity,
          lock, queue,   \* startLocks of the user; requests awaiting its promise, in order
          pc,            \* where the bot of a coin stands
          running        \* Bot.running in the database

coordinator == <<reservations, accountEquity>>
vars == <<coordinator, lock, queue, pc, running>>

\* Its history of sides is not kept here.
Coordinator   == INSTANCE AccountCoordinator WITH Capitals <- Margins, origin <- <<>>
WithEquity(q) == INSTANCE AccountCoordinator
                     WITH accountEquity <- q, Capitals <- Margins, origin <- <<>>

Stages == {"off", "lock", "balance", "persist", "warmup", "up"}
Goto(s, stage) == pc' = [pc EXCEPT ![s] = stage]

GroupArmed(s) == Coordinator!GroupReserved(s, Strategies, Capital[s])
----------------------------------------------------------------------------
Request(s) ==
    /\ pc[s] = "off"
    /\ Goto(s, "lock")
    /\ queue' = Append(queue, s)
    /\ UNCHANGED <<coordinator, lock, running>>

\* Mutant: the lock is looked at once, not in a loop.
AcquireAtOnce(s) ==
    /\ pc[s] = "lock"
    /\ lock' = s
    /\ queue' = SelectSeq(queue, LAMBDA r : r # s)
    /\ Goto(s, "balance")
    /\ UNCHANGED <<coordinator, running>>

\* while (startLocks.get(userId)) await ...: promise reactions run in the order they
\* were added, so the requests get the lock in the order they asked.
AcquireStartLock(s) ==
    /\ pc[s] = "lock" /\ lock = NoOne /\ queue # <<>> /\ s = Head(queue)
    /\ lock' = s
    /\ queue' = Tail(queue)
    /\ Goto(s, "balance")
    /\ UNCHANGED <<coordinator, running>>

\* Mutant: the answer 503 leaves the lock behind.
BalanceUnreadKeepsLock(s) ==
    /\ pc[s] = "balance"
    /\ Goto(s, "off")
    /\ UNCHANGED <<coordinator, lock, queue, running>>

\* 503 when the balance cannot be read or the equity is 0; finally unlocks.
BalanceUnread(s) ==
    /\ pc[s] = "balance"
    /\ lock' = NoOne
    /\ Goto(s, "off")
    /\ UNCHANGED <<coordinator, queue, running>>

\* Mutant: the gate looks at the margin of the capital at leverage 2.
AffordableAtLeverage(s, q) == WithEquity(q)!CanStartBot(s, Capital[s] \div 2)

Affordable(s, q) == WithEquity(q)!CanStartBot(s, Capital[s])

\* One turn after the balance answer: report it, gate on the full capital, reserve,
\* unlock.
GateRefuses(s) ==
    /\ pc[s] = "balance"
    /\ \E q \in Equities \ {0} : ~Affordable(s, q) /\ accountEquity' = q
    /\ lock' = NoOne
    /\ Goto(s, "off")
    /\ UNCHANGED <<reservations, queue, running>>

GateArms(s) ==
    /\ pc[s] = "balance"
    /\ \E q \in Equities \ {0} : Affordable(s, q) /\ accountEquity' = q
    /\ reservations' = GroupArmed(s)
    /\ lock' = NoOne
    /\ Goto(s, "persist")
    /\ UNCHANGED <<queue, running>>

\* running = true in the database, then MultiStrategyCoordinator.start up to its
\* first await, which reserves the group once more.
Persist(s) ==
    /\ pc[s] = "persist"
    /\ running' = [running EXCEPT ![s] = TRUE]
    /\ reservations' = GroupArmed(s)
    /\ Goto(s, "warmup")
    /\ UNCHANGED <<accountEquity, lock, queue>>

\* The update of the row throws, or the building of the engines after it: the request ends with
\* the outer catch, which gives no reservation back.
PersistFails(s) ==
    /\ pc[s] = "persist"
    /\ \E written \in BOOLEAN : running' = [running EXCEPT ![s] = written \/ @]
    /\ Goto(s, "off")
    /\ UNCHANGED <<coordinator, lock, queue>>

WarmedUp(s) ==
    /\ pc[s] = "warmup"
    /\ Goto(s, "up")
    /\ UNCHANGED <<coordinator, lock, queue, running>>

\* The route's catch: releaseGroup, and running = false in the database.
WarmupFails(s) ==
    /\ pc[s] = "warmup"
    /\ reservations' = Coordinator!GroupReleased(s)
    /\ running' = [running EXCEPT ![s] = FALSE]
    /\ Goto(s, "off")
    /\ UNCHANGED <<accountEquity, lock, queue>>

Stopped(s) ==
    /\ pc[s] = "up" /\ "stop" \in Events
    /\ reservations' = Coordinator!GroupReleased(s)
    /\ running' = [running EXCEPT ![s] = FALSE]
    /\ Goto(s, "off")
    /\ UNCHANGED <<accountEquity, lock, queue>>
----------------------------------------------------------------------------
(* Engines of a running coin: the real margin replaces the armed slot, and the close
   releases it. *)

EngineOpens(s) ==
    /\ pc[s] = "up" /\ "trade" \in Events
    /\ \E q \in Equities \ {0}, k \in Coordinator!GroupKeys(s), m \in Margins, d \in {"LONG"} :
          /\ ~Coordinator!Directional(k)
          /\ WithEquity(q)!CanOpen(k, m, d)
          /\ accountEquity' = q
          /\ reservations' = Coordinator!Reserved(k, m, d)
    /\ UNCHANGED <<lock, queue, pc, running>>

EngineCloses(s) ==
    /\ pc[s] = "up"
    /\ \E k \in Coordinator!GroupKeys(s) :
          /\ Coordinator!Directional(k)
          /\ reservations' = Coordinator!Released(k)
    /\ UNCHANGED <<accountEquity, lock, queue, pc, running>>
----------------------------------------------------------------------------
(* The process dies; on boot every bot with running = true is started again, while
   requests may already come in. *)

Crash ==
    /\ "crash" \in Events
    /\ reservations' = [k \in Coordinator!BotKeys |-> Coordinator!NoReservation]
    /\ accountEquity' = 0
    /\ lock' = NoOne /\ queue' = <<>>
    /\ pc' = [s \in Symbols |-> "off"]
    /\ UNCHANGED running

\* resumeOneBot, at boot or from the watchdog, which looks for rows that run without an
\* instance: MultiStrategyCoordinator.start without lock and without gate.
Resume(s) ==
    /\ pc[s] = "off" /\ running[s] /\ "crash" \in Events
    /\ reservations' = GroupArmed(s)
    /\ Goto(s, "warmup")
    /\ UNCHANGED <<accountEquity, lock, queue, running>>
----------------------------------------------------------------------------
Init ==
    /\ Coordinator!Empty
    /\ lock = NoOne /\ queue = <<>>
    /\ pc = [s \in Symbols |-> "off"]
    /\ running = [s \in Symbols |-> FALSE]

Handle(s) ==
    \/ AcquireStartLock(s) \/ BalanceUnread(s) \/ GateRefuses(s) \/ GateArms(s)
    \/ Persist(s) \/ PersistFails(s) \/ WarmedUp(s) \/ WarmupFails(s)

Next ==
    \/ \E s \in Symbols :
          \/ Request(s) \/ Handle(s) \/ Stopped(s)
          \/ EngineOpens(s) \/ EngineCloses(s) \/ Resume(s)
    \/ Crash

\* Node carries every handler on.
Spec == Init /\ [][Next]_vars /\ \A s \in Symbols : WF_vars(Handle(s))
----------------------------------------------------------------------------
(* Properties. *)

TypeOK ==
    /\ Coordinator!MapOK
    /\ lock \in Symbols \cup {NoOne}
    /\ queue \in Seq(Symbols)
    /\ pc \in [Symbols -> Stages]
    /\ running \in [Symbols -> BOOLEAN]

\* The section of the lock: at most one request of the user is between reading the
\* balance and its reservation, and it is the holder.
LockExclusive == \A s \in Symbols : pc[s] = "balance" <=> lock = s

\* The capital of all armed bots stays within the utilization of the equity
\* (canStartBot's invariant), once some bot has read it, for an equity that does not move.
\* It fails after a trade and after a crash, see README.
Armed == {s \in Symbols : pc[s] \in {"persist", "warmup", "up"}}
ArmedCapital == FoldFunctionOnSet(LAMBDA x, y : x + y, 0, Capital, Armed)
ArmedWithinBudget == accountEquity > 0 => Coordinator!WithinBudget(ArmedCapital)

\* A reservation belongs to a coin whose bot runs or is being started.  It fails, see README.
ReservedIsServed ==
    \A k \in Coordinator!BotKeys : Coordinator!Held(k) => Coordinator!KeySymbol(k) \in Armed

\* A start that is let through leaves the account's committed margin, its own capital
\* included, within the budget of the equity it read.
GateKeepsBudget ==
    [][\A s \in Symbols : pc[s] = "balance" /\ pc'[s] = "persist"
          => Coordinator!WithinBudget(Coordinator!MarginOf(Coordinator!BotKeys))']_vars

\* Every start is answered: nobody waits for the lock forever, whatever the balance
\* reads of those before it came to.
StartAnswered == \A s \in Symbols : pc[s] = "lock" ~> pc[s] \notin {"lock", "balance"}
=============================================================================
