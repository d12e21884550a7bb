----------------------------- MODULE CandleCache ----------------------------
(***************************************************************************)
(* The candles an engine acts on: rows of candle_cache younger than their  *)
(* time to live, or the exchange behind a gate that lets one call through  *)
(* at a time (candleFetch, exchangeRateGate, getCandles of the clients),   *)
(* written back without waiting.  A backtest reads and writes the same     *)
(* table, with a pool of its own before it (HistoricalKlinesService,       *)
(* BacktestCandleCache).                                                   *)
(*                                                                         *)
(* One coin and one timeframe.  An engine reads its own timeframe with one *)
(* time to live and a higher one with another, the same whatever the       *)
(* timeframe: from a fraction of a bar to three of them.  A candle is the  *)
(* moment the exchange was asked: before the bar's end it stands for a bar *)
(* still forming.                                                          *)
(***************************************************************************)
EXTENDS Integers, Sequences, FiniteSetsExt, Functions, SequencesExt

CONSTANTS Engines,
          Limit,       \* bars the exchange returns
          MinBars,     \* bars an engine needs
          Ttls,        \* LTF_CACHE_TTL, HTF_CACHE_TTL, in ticks
          MaxTime,
          MaxRequests, \* of backtests
          Worlds       \* what may happen, a set of sets of CandleEvents

CandleEvents == {"down",       \* calls fail
                 "limited",    \* calls are refused for their rate
                 "fallback",   \* the client tries CCXT after its own request
                 "late_write", \* a write to the table takes longer than others
                 "short",      \* an answer has one bar: the coin is new, or the exchange says so
                 "past",       \* a backtest of the past
                 "recent"}     \* a backtest until now

Bar      == 2                 \* ticks
StaleTtl == 4 * Bar           \* a day
PoolTtl  == 2 * Bar           \* half an hour
Frontier == 3 * Bar           \* of bars that are refreshed

CandleCacheAssumption ==
    /\ Limit \in Nat /\ MinBars \in 2..Limit
    /\ Ttls \subseteq 1..Limit * Bar    \* of 200 bars, to 900 seconds
    /\ MaxTime \in Nat /\ MaxTime >= Limit * Bar /\ MaxRequests \in Nat
    /\ Worlds \subseteq SUBSET CandleEvents /\ "history" \notin Engines

VARIABLES world, now,
          table,      \* candle_cache: bar -> when it was fetched and stored
          writes,     \* cacheCandles on their way, [by, rows]
          gate,       \* calls waiting for their turn, the first one out
          phase,      \* of an engine's fetch
          tries,
          got,        \* what the last step gave to an engine: [from, rows, age]
          pool,       \* of the backtest: [rows, used]
          wanted,     \* by the backtest: [at, start, end, have]
          requests

vars == <<world, now, table, writes, gate, phase, tries, got, pool, wanted, requests>>

feed    == <<phase, tries>>
history == <<pool, wanted, requests>>

None     == [b \in {} |-> 0]
Cur      == now \div Bar

\* getCachedCandles
Young(ttl)   == {b \in DOMAIN table : table[b].at > now - ttl}
Cached(bars) == [b \in bars |-> table[b].asof]
Fetched(bars) == [b \in bars \cap 0..Cur |-> now]

\* The later one wins.
Over(new, old) == [b \in DOMAIN new \cup DOMAIN old |-> IF b \in DOMAIN new THEN new[b] ELSE old[b]]

Stores(who, rows) == writes' = IF rows = None THEN writes ELSE writes \cup {[by |-> who, rows |-> rows]}
\* age: how old a row may be.
Gives(from, rows, age) == got' = [from |-> from, rows |-> rows, age |-> age]
GivesNone == Gives("none", None, 0)
----------------------------------------------------------------------------
(* An engine: fetchCandlesWithCache, the gate and the retries of a client *)

FromCache(e) ==
    /\ phase[e] = "idle"
    /\ \E ttl \in Ttls :
          Cardinality(Young(ttl)) >= MinBars /\ Gives("cache", Cached(Young(ttl)), ttl)
    /\ UNCHANGED <<world, now, table, writes, gate, phase, tries, history>>

Asks(e) ==
    /\ phase[e] = "idle" /\ \E ttl \in Ttls : Cardinality(Young(ttl)) < MinBars
    /\ gate' = Append(gate, e)
    /\ phase' = [phase EXCEPT ![e] = "calling"]
    /\ GivesNone
    /\ UNCHANGED <<world, now, table, writes, tries, history>>

Turn(who) == gate # <<>> /\ Head(gate) = who

Done(e) == phase' = [phase EXCEPT ![e] = "idle"] /\ tries' = [tries EXCEPT ![e] = 0]

\* Too few bars, and older rows are taken if there are enough.
Answered(e) ==
    /\ Turn(e) /\ gate' = Tail(gate) /\ Done(e)
    /\ \E n \in {Limit} \cup (IF "short" \in world THEN {1} ELSE {}) :
          LET rows == Fetched(Cur - n + 1 .. Cur)  old == Young(StaleTtl) IN
          /\ Stores(e, rows)
          /\ IF n < MinBars /\ Cardinality(old) >= MinBars
             THEN Gives("stale", Cached(old), StaleTtl)
             ELSE Gives("exchange", rows, 0)
    /\ UNCHANGED <<world, now, table, history>>

Limited(e) ==
    /\ "limited" \in world /\ Turn(e) /\ tries[e] < 2
    /\ gate' = Tail(gate)
    /\ phase' = [phase EXCEPT ![e] = "waits"] /\ tries' = [tries EXCEPT ![e] = @ + 1]
    /\ GivesNone
    /\ UNCHANGED <<world, now, table, writes, history>>

AsksAgain(e) ==
    /\ phase[e] = "waits"
    /\ gate' = Append(gate, e)
    /\ phase' = [phase EXCEPT ![e] = "calling"]
    /\ GivesNone
    /\ UNCHANGED <<world, now, table, writes, tries, history>>

\* The other endpoint, once.
FallsBack(e) ==
    /\ {"down", "fallback"} \subseteq world /\ Turn(e) /\ tries[e] < 3
    /\ gate' = Append(Tail(gate), e)
    /\ tries' = [tries EXCEPT ![e] = 3]
    /\ GivesNone
    /\ UNCHANGED <<world, now, table, writes, phase, history>>

\* Mutant: the chain of the gate ends with the call that fails.
FailsAll(e) ==
    /\ world \cap {"down", "limited"} # {} /\ Turn(e) /\ ("fallback" \in world => tries[e] = 3)
    /\ Done(e) /\ Gives("simulated", None, 0)
    /\ UNCHANGED <<world, now, table, writes, gate, history>>

\* The engine makes candles up: nothing catches the error before that.
Fails(e) ==
    /\ world \cap {"down", "limited"} # {} /\ Turn(e)
    /\ "fallback" \in world => tries[e] = 3
    /\ "down" \notin world => tries[e] = 2
    /\ gate' = Tail(gate) /\ Done(e)
    /\ Gives("simulated", None, 0)
    /\ UNCHANGED <<world, now, table, writes, history>>

\* Mutant: what is there is kept, and looks young.
LandsOnNew(w) ==
    /\ w \in writes /\ writes' = writes \ {w}
    /\ table' = Over([b \in DOMAIN table \cap DOMAIN w.rows |-> [table[b] EXCEPT !.at = now]],
                     Over([b \in DOMAIN w.rows |-> [asof |-> w.rows[b], at |-> now]], table))
    /\ GivesNone
    /\ UNCHANGED <<world, now, gate, feed, history>>

\* cacheCandles, which nobody waits for.
Lands(w) ==
    /\ w \in writes /\ writes' = writes \ {w}
    /\ table' = Over([b \in DOMAIN w.rows |-> [asof |-> w.rows[b], at |-> now]], table)
    /\ GivesNone
    /\ UNCHANGED <<world, now, gate, feed, history>>
----------------------------------------------------------------------------
(* A backtest: fetchHistoricalKlines *)

Within(rows, start, end) == Restrict(rows, {b \in DOMAIN rows : start <= b * Bar /\ b * Bar <= end})

Expected(start, end) == Max({1, (end - start) \div Bar})
Covers(rows, start, end, percent) ==
    rows # None /\ 100 * Cardinality(DOMAIN rows) >= percent * Expected(start, end)

\* Of the pool, unless it was left alone too long.
Pooled == IF pool.used + PoolTtl >= now THEN pool.rows ELSE None
Merges(rows) ==
    pool' = IF rows = None THEN [pool EXCEPT !.rows = Pooled]
            ELSE [rows |-> Over(rows, Pooled), used |-> now]

\* Bars behind the frontier are taken for final.
FromTable == Cached({b \in DOMAIN table : b * Bar < now - Frontier \/ b \in Young(StaleTtl)})

\* findMissingRanges: before the first bar and after the last one.
Missing(rows, start, end) ==
    LET first == Min(DOMAIN rows) * Bar  last == Max(DOMAIN rows) * Bar IN
    {b \in 0..Cur : \/ first > start + 1 /\ start <= b * Bar /\ b * Bar < first /\ start < first - Bar
                    \/ last < end - 1 /\ last < b * Bar /\ b * Bar <= end /\ last + Bar < end}

Requested(start, end) ==
    /\ wanted.at = "idle" /\ requests < MaxRequests /\ requests' = requests + 1
    /\ start # end
    /\ \/ "past" \in world /\ start = 0 /\ end = 2 * Bar - 1
       \/ "recent" \in world /\ start = 0 /\ end = now

Idle == [at |-> "idle", start |-> 0, end |-> 0, have |-> None]

HistoryHits(start, end) ==
    /\ Requested(start, end)
    /\ Covers(Within(Pooled, start, end), start, end, 85)
    /\ pool' = [pool EXCEPT !.used = now]
    /\ GivesNone
    /\ UNCHANGED <<world, now, table, writes, gate, feed, wanted>>

\* The pool's part of it, or else the table's.
Have(start, end) ==
    LET pooled == Within(Pooled, start, end) IN
    IF pooled # None THEN pooled ELSE Within(FromTable, start, end)

HistoryReads(start, end) ==
    /\ Requested(start, end)
    /\ ~Covers(Within(Pooled, start, end), start, end, 85)
    /\ Covers(Have(start, end), start, end, 85)
    /\ Merges(Have(start, end))
    /\ GivesNone
    /\ UNCHANGED <<world, now, table, writes, gate, feed, wanted>>

\* No end is missing: what there is counts, holes and all.
HistorySettles(start, end) ==
    /\ Requested(start, end)
    /\ LET have == Have(start, end) IN
       /\ ~Covers(have, start, end, 85) /\ Covers(have, start, end, 30)
       /\ Missing(have, start, end) = {}
       /\ Stores("history", have) /\ Merges(have)
    /\ GivesNone
    /\ UNCHANGED <<world, now, table, gate, feed, wanted>>

HistoryAsks(start, end) ==
    /\ Requested(start, end)
    /\ LET have == Have(start, end) IN
       /\ ~Covers(have, start, end, 85)
       /\ Covers(have, start, end, 30) => Missing(have, start, end) # {}
       /\ wanted' = [at |-> "calling", start |-> start, end |-> end,
                     have |-> IF Covers(have, start, end, 30) THEN have ELSE None]
    /\ gate' = Append(gate, "history")
    /\ GivesNone
    /\ UNCHANGED <<world, now, table, writes, feed, pool>>

\* A page that fails ends the fetch, and what there is counts.
HistoryAnswered ==
    /\ Turn("history") /\ gate' = Tail(gate)
    /\ LET have == wanted.have
           ask  == IF have = None THEN {b \in 0..Cur : wanted.start <= b * Bar /\ b * Bar <= wanted.end}
                   ELSE Missing(have, wanted.start, wanted.end) IN
       \E page \in {Fetched(ask)} \cup (IF "down" \in world THEN {None} ELSE {}) :
          Stores("history", Over(page, have)) /\ Merges(Over(page, have))
    /\ wanted' = Idle
    /\ GivesNone
    /\ UNCHANGED <<world, now, table, feed, requests>>
----------------------------------------------------------------------------
Passes ==
    /\ now < MaxTime /\ (writes = {} \/ "late_write" \in world)
    /\ now' = now + 1
    /\ GivesNone
    /\ UNCHANGED <<world, table, writes, gate, feed, history>>

Idles ==
    /\ now = Limit * Bar
    /\ table = None /\ writes = {} /\ gate = <<>>
    /\ phase = [e \in Engines |-> "idle"] /\ tries = [e \in Engines |-> 0]
    /\ got = [from |-> "none", rows |-> None, age |-> 0]
    /\ pool = [rows |-> None, used |-> 0]
    /\ wanted = Idle /\ requests = 0

Init == world \in Worlds /\ Idles

Replies(e)  == Answered(e) \/ Limited(e) \/ FallsBack(e) \/ Fails(e)
Fetching(e) == FromCache(e) \/ Asks(e) \/ Replies(e) \/ AsksAgain(e)

History ==
    \/ \E start, end \in 0..MaxTime :
          \/ HistoryHits(start, end) \/ HistoryReads(start, end)
          \/ HistorySettles(start, end) \/ HistoryAsks(start, end)
    \/ HistoryAnswered

Next == (\E e \in Engines : Fetching(e)) \/ (\E w \in writes : Lands(w)) \/ History \/ Passes

\* The clients have timeouts: a call that is out is answered or fails.
Fairness ==
    /\ \A e \in Engines : WF_vars(Replies(e)) /\ WF_vars(AsksAgain(e))
    /\ WF_vars(HistoryAnswered)

Spec == Init /\ [][Next]_vars /\ Fairness
----------------------------------------------------------------------------
(* Properties *)

TypeOK ==
    /\ world \in Worlds /\ now \in 0..MaxTime /\ requests \in 0..MaxRequests
    /\ \A b \in DOMAIN table : table[b].asof >= b * Bar /\ table[b].at >= table[b].asof
    /\ \A w \in writes : w.by \in Engines \cup {"history"} /\ DOMAIN w.rows # {}
    /\ IsInjective(gate) /\ Range(gate) \subseteq Engines \cup {"history"}
    /\ phase \in [Engines -> {"idle", "calling", "waits"}] /\ tries \in [Engines -> 0..3]
    /\ \A e \in Engines : (phase[e] = "calling") = (e \in Range(gate))
    /\ got.from \in {"none", "cache", "exchange", "stale", "simulated"}
    /\ (wanted.at = "calling") = ("history" \in Range(gate))

Fresh == got.from \in {"cache", "exchange"} /\ Cardinality(DOMAIN got.rows) >= MinBars

\* The bar before the last one, on which an engine decides.
Confirmed(rows) == Max(DOMAIN rows \ {Max(DOMAIN rows)})

\* candleFetch 33-42: however the engines share the table, and unless stale rows must do, the
\* last bar an engine is given was the current one a time to live ago or later, no bar is missing
\* between the first and the last, and the one it decides on had ended when it was fetched.
ServedIsCurrent ==
    Fresh /\ world \cap {"short", "past", "recent", "late_write"} = {} =>
        LET rows == got.rows  last == Max(DOMAIN rows) IN
        /\ last >= (now - got.age) \div Bar
        /\ DOMAIN rows = Min(DOMAIN rows)..last
        /\ rows[Confirmed(rows)] >= (Confirmed(rows) + 1) * Bar

\* An engine decides on the bar that ended last or on the one before (false with bars shorter
\* than the time to live: LTF_CACHE_TTL is three bars of 5 minutes).
LastIsCurrent ==
    Fresh /\ world \cap {"short", "past", "recent", "late_write"} = {} =>
        Max(DOMAIN got.rows) >= Cur - 1

\* A call that fails or is refused lets the next one through: every fetch ends.
FetchEnds == \A e \in Engines : phase[e] # "idle" ~> phase[e] = "idle"

\* database 1342: "closed historical bars skip TTL (immutable pool)"; a bar behind the
\* frontier has its final values.
FrozenIsFinal == \A b \in DOMAIN table : b * Bar < now - Frontier => table[b].asof >= (b + 1) * Bar

\* CcxtFuturesClient 81: another error "fails fast so that the 24 hour cache fallback
\* keeps running"; candles are made up only without candles of the last day.
StaleBeforeSimulated ==
    [][got'.from = "simulated" => Cardinality(Young(StaleTtl)) < MinBars]_vars
=============================================================================
