---------------------------- MODULE ExchangeSwitch ----------------------------
(***************************************************************************)
(* The exchange of one user: the switch to another one, keys saved and     *)
(* deleted beside it, and what a bot started before or after it trades on. *)
(* A row of UserExchange is active or soft-deleted; the User columns hold  *)
(* a copy of the active one.                                               *)
(*                                                                         *)
(* One live bot; BotLifecycle has its starts and stops in full, here they  *)
(* are the reads of the keys and what comes of them.  The two reads of a   *)
(* start are one step.  Keys are what their exchange is; the checks of the *)
(* request's form are left out.                                            *)
(***************************************************************************)
EXTENDS Integers, FiniteSets

CONSTANTS Exchanges, None, Requests,
          MaxSwitches,     \* in 24 hours
          Worlds           \* what may happen, a set of sets of EventKinds

EventKinds == {"keys", "delete",   \* POST and DELETE /keys
               "rejected",         \* the exchange does not take the new keys
               "conflict",         \* the new key belongs to another account
               "concurrent"}       \* requests overlap

ExchangeSwitchAssumption ==
    /\ None \notin Exchanges /\ IsFiniteSet(Exchanges) /\ IsFiniteSet(Requests)
    /\ MaxSwitches \in Nat \ {0} /\ Worlds \subseteq SUBSET EventKinds

VARIABLES world,
          row,      \* UserExchange: exchange -> "none", "active" or "deleted"
          legacy,   \* the exchange in the columns of User
          recent,   \* EXCHANGE_SWITCH in the AuditLog of the last 24 hours
          running,  \* the bot's row
          engine,   \* the exchange its engine trades on
          held,     \* where a position of the bot is open
          tracked,  \* an open row of the trades table
          req       \* requests, and the watchdog's resume

vars == <<world, row, legacy, recent, running, engine, held, tracked, req>>
keys == <<row, legacy>>
bot  == <<running, engine, held, tracked>>

Kinds  == {"none", "switch", "keys", "delete", "start", "resume"}
Stages == {"idle", "limit", "status", "validate", "stopRows", "revoke", "upsert", "dropOthers", "sync",
           "clear", "enforce", "audit", "columns", "read", "persist", "serve"}

NoRequest == [kind |-> "none", at |-> "idle", x |-> None]
Idle == \A r \in Requests : req[r].at = "idle"
Free(r) == req[r].at = "idle" /\ ("concurrent" \in world \/ Idle)

Active == {x \in Exchanges : row[x] = "active"}

Goto(r, at) == req' = [req EXCEPT ![r].at = at]
Begins(r, kind, at, x) == req' = [req EXCEPT ![r] = [kind |-> kind, at |-> at, x |-> x]]
Ends(r) == req' = [req EXCEPT ![r] = NoRequest]

At(r, at) == req[r].at = at
----------------------------------------------------------------------------
(* POST /exchange/switch, switchExchange *)

\* The route drops the engines in memory before anything is looked at.
SwitchBegins(r, x) ==
    /\ Free(r)
    /\ Begins(r, "switch", "limit", x)
    /\ engine' = None
    /\ UNCHANGED <<world, keys, recent, running, held, tracked>>

CountsSwitches(r) ==
    /\ At(r, "limit")
    /\ IF recent >= MaxSwitches THEN Ends(r) ELSE Goto(r, "status")
    /\ UNCHANGED <<world, keys, recent, bot>>

\* getExchangeStatus asks the model Trade for open positions, a table the runtime does not
\* write, and the bots for running ones.
OpenTrades == {}

Status(r) ==
    /\ At(r, "status")
    /\ IF OpenTrades # {} \/ running THEN Ends(r) ELSE Goto(r, "validate")
    /\ UNCHANGED <<world, keys, recent, bot>>

\* Mutant: the old keys go before the new ones are tried.
ValidatesLate(r) ==
    /\ At(r, "validate")
    /\ row' = [x \in Exchanges |-> IF row[x] = "active" THEN "deleted" ELSE row[x]]
    /\ Goto(r, "stopRows") \/ ("rejected" \in world /\ Ends(r))
    /\ UNCHANGED <<world, legacy, recent, bot>>

Validates(r) ==
    /\ At(r, "validate")
    /\ Goto(r, "stopRows") \/ ("rejected" \in world /\ Ends(r))
    /\ UNCHANGED <<world, keys, recent, bot>>

StopsRows(r) ==
    /\ At(r, "stopRows")
    /\ running' = FALSE /\ Goto(r, "revoke")
    /\ UNCHANGED <<world, keys, recent, engine, held, tracked>>

Revoked(xs) == row' = [x \in Exchanges |-> IF x \in xs /\ row[x] = "active" THEN "deleted" ELSE row[x]]

Revokes(r) ==
    /\ At(r, "revoke")
    /\ Revoked(Exchanges) /\ Goto(r, "upsert")
    /\ UNCHANGED <<world, legacy, recent, bot>>

\* upsertExchange: a key of another account is found out only here.
Upserts(r) ==
    /\ At(r, "upsert")
    /\ \/ row' = [row EXCEPT ![req[r].x] = "active"] /\ Goto(r, "dropOthers")
       \/ "conflict" \in world /\ Ends(r) /\ UNCHANGED row
    /\ UNCHANGED <<world, legacy, recent, bot>>

DropsOthers(r) ==
    /\ At(r, "dropOthers")
    /\ Revoked(Exchanges \ {req[r].x}) /\ Goto(r, "sync")
    /\ UNCHANGED <<world, legacy, recent, bot>>

Syncs(r) ==
    /\ At(r, "sync")
    /\ legacy' = IF row[req[r].x] = "active" THEN req[r].x ELSE legacy
    /\ IF req[r].kind = "switch" THEN Goto(r, "clear") ELSE Ends(r)
    /\ UNCHANGED <<world, row, recent, bot>>

Clears(r) ==
    /\ At(r, "clear")
    /\ row' = [row EXCEPT ![req[r].x] = IF @ = "none" THEN @ ELSE "active"]
    /\ Goto(r, "enforce")
    /\ UNCHANGED <<world, legacy, recent, bot>>

Enforces(r) ==
    /\ At(r, "enforce")
    /\ Revoked(Exchanges \ {req[r].x}) /\ Goto(r, "audit")
    /\ UNCHANGED <<world, legacy, recent, bot>>

Audits(r) ==
    /\ At(r, "audit")
    /\ recent' = recent + 1 /\ Ends(r)
    /\ UNCHANGED <<world, keys, bot>>

\* An entry of the AuditLog is a day old.
Forgets ==
    /\ recent > 0 /\ recent' = recent - 1
    /\ UNCHANGED <<world, keys, bot, req>>
----------------------------------------------------------------------------
(* POST and DELETE /keys: no look at bots or positions. *)

KeysBegins(r, x) ==
    /\ "keys" \in world /\ Free(r)
    /\ Begins(r, "keys", "upsert", x)
    /\ UNCHANGED <<world, keys, recent, bot>>

\* migrateLegacyIfNeeded: the columns become a row if no row is active; the insert throws
\* when there is a row already.
Migrates  == Active = {} /\ legacy # None
Throws    == Migrates /\ row[legacy] # "none"
Migrated  == IF Migrates THEN [row EXCEPT ![legacy] = "active"] ELSE row

DeleteBegins(r, x) ==
    /\ "delete" \in world /\ Free(r) /\ ~Throws
    /\ IF Migrated[x] = "none"
       THEN row' = Migrated /\ UNCHANGED req
       ELSE row' = [Migrated EXCEPT ![x] = "none"] /\ Begins(r, "delete", "columns", x)
    /\ UNCHANGED <<world, legacy, recent, bot>>

DeleteSyncs(r) ==
    /\ At(r, "columns")
    /\ legacy' \in (IF Active = {} THEN {None} ELSE Active)
    /\ Ends(r)
    /\ UNCHANGED <<world, row, recent, bot>>
----------------------------------------------------------------------------
(* The bot *)

\* getConnectedExchange, which keeps one row if there are more, and getExchangeCredentials.
\* Without keys a resume gives the bot up.
ReadsKeys(r) ==
    /\ At(r, "read")
    /\ \/ /\ Throws /\ Ends(r) /\ UNCHANGED <<keys, running>>
       \/ /\ ~Throws /\ Active = {} /\ legacy = None
          /\ Ends(r) /\ running' = (running /\ req[r].kind # "resume") /\ UNCHANGED keys
       \/ /\ ~Throws
          /\ \E x \in (IF Active = {} THEN {legacy} \ {None} ELSE Active) :
                /\ req' = [req EXCEPT ![r].x = x,
                                      ![r].at = IF req[r].kind = "resume" THEN "serve" ELSE "persist"]
                /\ row' = [y \in Exchanges |-> IF y # x /\ row[y] = "active" THEN "deleted" ELSE Migrated[y]]
                /\ legacy' = IF Cardinality(Active) > 1 THEN x ELSE legacy
          /\ UNCHANGED running
    /\ UNCHANGED <<world, recent, engine, held, tracked>>

StartBegins(r) ==
    /\ Free(r) /\ ~running
    /\ Begins(r, "start", "read", None)
    /\ UNCHANGED <<world, keys, recent, bot>>

StartPersists(r) ==
    /\ At(r, "persist")
    /\ running' = TRUE /\ Goto(r, "serve")
    /\ UNCHANGED <<world, keys, recent, engine, held, tracked>>

\* The engine adopts the open row, or books it as closed while it was away if its exchange
\* has no such position.
Serves(r) ==
    /\ At(r, "serve")
    /\ IF engine = None
       THEN engine' = req[r].x /\ tracked' = (tracked /\ req[r].x \in held)
       ELSE UNCHANGED <<engine, tracked>>
    /\ Ends(r)
    /\ UNCHANGED <<world, keys, recent, running, held>>

\* Mutant: bots whose engine was dropped are not looked for.
WatchdogNever(r) == FALSE

\* The watchdog resumes a running row without an engine.
Watchdog(r) ==
    /\ Free(r) /\ running /\ engine = None
    /\ \A q \in Requests : req[q].kind \notin {"start", "resume"}
    /\ Begins(r, "resume", "read", None)
    /\ UNCHANGED <<world, keys, recent, bot>>

Stop ==
    /\ running /\ ("concurrent" \in world \/ Idle)
    /\ running' = FALSE /\ engine' = None
    /\ UNCHANGED <<world, keys, recent, held, tracked, req>>

Trades ==
    /\ engine # None /\ ~tracked
    /\ held' = held \cup {engine} /\ tracked' = TRUE
    /\ UNCHANGED <<world, keys, recent, running, engine, req>>

\* Stop loss or target: a running engine books it.
MarketCloses(x) ==
    /\ x \in held /\ held' = held \ {x}
    /\ tracked' = (tracked /\ engine # x)
    /\ UNCHANGED <<world, keys, recent, running, engine, req>>
----------------------------------------------------------------------------
\* A user with an exchange, saved as a row or before there were rows.
Init ==
    /\ world \in Worlds
    /\ \E x \in Exchanges :
          /\ legacy = x
          /\ row \in {[y \in Exchanges |-> IF y = x THEN s ELSE "none"] : s \in {"none", "active"}}
    /\ recent = 0 /\ running = FALSE /\ engine = None /\ held = {} /\ tracked = FALSE
    /\ req = [r \in Requests |-> NoRequest]

Step(r) ==
    \/ CountsSwitches(r) \/ Status(r) \/ Validates(r) \/ StopsRows(r) \/ Revokes(r)
    \/ Upserts(r) \/ DropsOthers(r) \/ Syncs(r) \/ Clears(r) \/ Enforces(r) \/ Audits(r)
    \/ DeleteSyncs(r) \/ ReadsKeys(r) \/ StartPersists(r) \/ Serves(r)

Next ==
    \/ \E r \in Requests :
          \/ Step(r) \/ StartBegins(r) \/ Watchdog(r)
          \/ \E x \in Exchanges : SwitchBegins(r, x) \/ KeysBegins(r, x) \/ DeleteBegins(r, x)
    \/ Forgets \/ Stop \/ Trades \/ \E x \in Exchanges : MarketCloses(x)

\* Requests are answered; the watchdog looks again and again, and gets its turn between them.
Fairness == \A r \in Requests : WF_vars(Step(r)) /\ SF_vars(Watchdog(r))

Spec == Init /\ [][Next]_vars /\ Fairness
----------------------------------------------------------------------------
(* Properties *)

TypeOK ==
    /\ world \in Worlds
    /\ row \in [Exchanges -> {"none", "active", "deleted"}] /\ legacy \in Exchanges \cup {None}
    /\ recent \in 0..(MaxSwitches + IF "concurrent" \in world THEN Cardinality(Requests) - 1 ELSE 0)
    /\ running \in BOOLEAN /\ engine \in Exchanges \cup {None}
    /\ held \subseteq Exchanges /\ tracked \in BOOLEAN
    /\ req \in [Requests -> [kind : Kinds, at : Stages, x : Exchanges \cup {None}]]
    /\ \A r \in Requests : req[r].at = "idle" <=> req[r].kind = "none"

Calm == world \cap {"concurrent", "conflict"} = {}

\* "hanya satu exchange aktif": no two exchanges are active.
OneExchange == Cardinality(Active) <= 1

\* The columns of User name the exchange that is active.
ColumnsFollow == Active # {} => legacy \in Active

\* The user has keys a bot can be started with.
KeysAreLeft == Active # {} \/ (legacy # None /\ ~Throws)

\* A bot does not trade on an exchange the user has left.
TradesWhereConnected == engine # None => engine \in Active

\* When the requests are through, however they overlapped and whichever failed, one
\* exchange is active at most. When they came one by one and no key was another account's,
\* rows, columns and engine agree as well, and a refused switch has not cost the keys.
Consistent ==
    Idle =>
        /\ OneExchange
        /\ Calm => ColumnsFollow
        /\ Calm /\ "delete" \notin world => KeysAreLeft
        /\ Calm /\ world \cap {"keys", "delete"} = {} => TradesWhereConnected

\* The engines are dropped before a switch is refused; a bot that is still to run is served
\* again.
ServedAgain == Calm /\ running /\ engine = None ~> engine # None \/ ~running

\* "Cannot switch while there are OPEN positions": positions are on the user's exchange.
NothingStranded == Idle => held \subseteq Active
=============================================================================
