--------------------------- MODULE Account_proofs --------------------------
(***************************************************************************)
(* What keeps the account of a user in order.                              *)
(*                                                                         *)
(* StartGate, for any coins and capitals: the start lock is a mutual       *)
(* exclusion, and what the gate lets start stays within the budget of the  *)
(* account, whatever trades, stops, failed starts and crashes happen       *)
(* around it.                                                              *)
(*                                                                         *)
(* ExchangeSwitch, for any exchanges and requests: the requests about the  *)
(* exchange of a user, whatever overlaps or fails, leave one exchange      *)
(* active at most, and those which come one by one leave rows, columns     *)
(* and engine in agreement.                                                *)
(*                                                                         *)
(* Replay, for any length of day, order and position: an order that waited *)
(* is filled within the limits, though it is filled without a look at them.*)
(*                                                                         *)
(* LegReplay, for any number of legs: a replay without a time stop never   *)
(* has more lost and at stake than the limit of the day and one full loss  *)
(* of each leg.                                                            *)
(*                                                                         *)
(* The proofs carry over to MCAccount, where one of them runs.             *)
(***************************************************************************)
EXTENDS MCAccount, SumTheorems, SequenceTheorems

(* StartGate *)

\* The inductive invariant: the lock belongs to the request that stands between the
\* balance read and the reservation.  pc must be a function for its updates to mean
\* anything.
LockInv == pc \in [Symbols -> Stages] /\ LockExclusive

LEMMA LockInit == Init => LockInv
BY StartGateAssumption DEF Init, LockInv, LockExclusive, Stages

\* The only step into the section of the lock: it finds the lock free, so nobody is inside.
LEMMA AcquireKeeps ==
    ASSUME LockInv, NEW s \in Symbols, AcquireStartLock(s)
    PROVE  LockInv'
<1>1. pc' = [pc EXCEPT ![s] = "balance"] /\ lock' = s /\ lock = NoOne
  BY DEF AcquireStartLock, Goto
<1>2. \A r \in Symbols : pc[r] # "balance"
  BY <1>1, StartGateAssumption DEF LockInv, LockExclusive
<1> QED
  BY <1>1, <1>2 DEF LockInv, LockExclusive, Stages

\* The three ways out of the section free the lock.
LEMMA LeaveKeeps ==
    ASSUME LockInv, NEW s \in Symbols, BalanceUnread(s) \/ GateRefuses(s) \/ GateArms(s)
    PROVE  LockInv'
<1>1. pc[s] = "balance" /\ lock' = NoOne
  BY DEF BalanceUnread, GateRefuses, GateArms
<1>2. PICK stage \in Stages \ {"balance"} : pc' = [pc EXCEPT ![s] = stage]
  BY DEF BalanceUnread, GateRefuses, GateArms, Goto, Stages
<1>3. \A r \in Symbols \ {s} : pc[r] # "balance"
  BY <1>1 DEF LockInv, LockExclusive
<1> QED
  BY <1>1, <1>2, <1>3, StartGateAssumption DEF LockInv, LockExclusive

\* Every other step of a coin moves it between stages outside the section.
Outside(s) ==
    /\ lock' = lock
    /\ pc[s] # "balance"
    /\ \E stage \in Stages \ {"balance"} : pc' = [pc EXCEPT ![s] = stage]

LEMMA OutsideKeeps ==
    ASSUME LockInv, NEW s \in Symbols, Outside(s)
    PROVE  LockInv'
BY DEF LockInv, LockExclusive, Outside

LEMMA StageSteps ==
    ASSUME NEW s \in Symbols,
           \/ Request(s) \/ Persist(s) \/ PersistFails(s) \/ WarmedUp(s) \/ WarmupFails(s)
           \/ Stopped(s) \/ Resume(s)
    PROVE  Outside(s)
<1>1. lock' = lock /\ pc[s] # "balance"
  BY DEF Request, Persist, PersistFails, WarmedUp, WarmupFails, Stopped, Resume
<1>2. \E stage \in Stages \ {"balance"} : pc' = [pc EXCEPT ![s] = stage]
  BY DEF Request, Persist, PersistFails, WarmedUp, WarmupFails, Stopped, Resume, Goto, Stages
<1> QED
  BY <1>1, <1>2 DEF Outside

LEMMA CrashKeeps == Crash => LockInv'
BY StartGateAssumption DEF Crash, LockInv, LockExclusive, Stages

LEMMA LockStep ==
    ASSUME LockInv, [Next]_vars
    PROVE  LockInv'
<1>1. ASSUME NEW s \in Symbols, Handle(s)
      PROVE  LockInv'
  BY <1>1, AcquireKeeps, LeaveKeeps, StageSteps, OutsideKeeps DEF Handle
<1>2. ASSUME NEW s \in Symbols, Request(s) \/ Stopped(s) \/ Resume(s)
      PROVE  LockInv'
  BY <1>2, StageSteps, OutsideKeeps
<1>3. ASSUME NEW s \in Symbols, EngineOpens(s) \/ EngineCloses(s)
      PROVE  LockInv'
  BY <1>3 DEF EngineOpens, EngineCloses, LockInv, LockExclusive
<1>4. ASSUME UNCHANGED vars
      PROVE  LockInv'
  BY <1>4 DEF vars, LockInv, LockExclusive
<1> QED
  BY <1>1, <1>2, <1>3, <1>4, CrashKeeps DEF Next

\* acquireStartLock is a mutual exclusion: at most one start of the user is between
\* reading the balance and reserving, and it is the holder of the lock.
THEOREM StartLock == Spec => []LockExclusive
<1>1. LockInv => LockExclusive
  BY DEF LockInv
<1> QED
  BY <1>1, LockInit, LockStep, PTL DEF Spec
----------------------------------------------------------------------------
(* The requests that await the lock, for the types. *)

QueueInv == pc \in [Symbols -> Stages] /\ queue \in Seq(Symbols)

LEMMA QueueInit == Init => QueueInv
BY DEF Init, QueueInv, Stages

\* Steps of a coin but its request and its turn leave the queue alone.
LEMMA QueueWaits ==
    ASSUME QueueInv, NEW s \in Symbols,
           \/ BalanceUnread(s) \/ GateRefuses(s) \/ GateArms(s) \/ Persist(s) \/ PersistFails(s)
           \/ WarmedUp(s) \/ WarmupFails(s) \/ Stopped(s) \/ Resume(s)
    PROVE  QueueInv'
<1>1. queue' = queue
  BY DEF BalanceUnread, GateRefuses, GateArms, Persist, PersistFails, WarmedUp, WarmupFails,
         Stopped, Resume
<1>2. \E stage \in Stages : pc' = [pc EXCEPT ![s] = stage]
  BY DEF BalanceUnread, GateRefuses, GateArms, Persist, PersistFails, WarmedUp, WarmupFails,
         Stopped, Resume, Goto, Stages
<1> QED
  BY <1>1, <1>2 DEF QueueInv

LEMMA QueueStep ==
    ASSUME QueueInv, [Next]_vars
    PROVE  QueueInv'
<1>1. ASSUME NEW s \in Symbols, Request(s) \/ AcquireStartLock(s)
      PROVE  QueueInv'
  <2>1. queue' = Append(queue, s) \/ (queue # <<>> /\ queue' = Tail(queue))
    BY <1>1 DEF Request, AcquireStartLock
  <2>2. pc' = [pc EXCEPT ![s] = "lock"] \/ pc' = [pc EXCEPT ![s] = "balance"]
    BY <1>1 DEF Request, AcquireStartLock, Goto
  <2>3. queue' \in Seq(Symbols)
    BY <2>1 DEF QueueInv
  <2>4. pc' \in [Symbols -> Stages]
    BY <2>2 DEF QueueInv, Stages
  <2> QED
    BY <2>3, <2>4 DEF QueueInv
<1>2. ASSUME NEW s \in Symbols, EngineOpens(s) \/ EngineCloses(s)
      PROVE  QueueInv'
  BY <1>2 DEF EngineOpens, EngineCloses, QueueInv
<1>3. CASE Crash
  BY <1>3 DEF Crash, QueueInv, Stages
<1>4. CASE UNCHANGED vars
  BY <1>4 DEF vars, QueueInv
<1> QED
  BY <1>1, <1>2, <1>3, <1>4, QueueWaits DEF Next, Handle

----------------------------------------------------------------------------
(* The margins *)

\* The map of reservations, which the legacy slots take no part in.
MapInv(R) ==
    /\ R \in [Coordinator!BotKeys -> Coordinator!Reservation]
    /\ \A k \in Coordinator!BotKeys : ~R[k].held => R[k] = Coordinator!NoReservation
    /\ \A s \in Symbols : R[<<s, Legacy>>].margin = 0

LEMMA KeysAre ==
    ASSUME NEW s \in Symbols
    PROVE  /\ Coordinator!GroupKeys(s) \in SUBSET Coordinator!BotKeys
           /\ <<s, Legacy>> \in Coordinator!BotKeys
           /\ \A k \in Coordinator!GroupKeys(s) :
                 Coordinator!KeySymbol(k) = s /\ k[2] \in Strategies /\ k[2] # Legacy
           /\ \A k \in Coordinator!BotKeys :
                 \/ Coordinator!KeySymbol(k) # s /\ k \notin Coordinator!GroupKeys(s)
                 \/ k \in Coordinator!GroupKeys(s)
                 \/ k = <<s, Legacy>> /\ k \notin Coordinator!GroupKeys(s)
<1>1. \A k \in Coordinator!GroupKeys(s) :
         k = <<k[1], k[2]>> /\ k[1] = s /\ k[2] \in Strategies /\ k[2] # Legacy
  BY StartGateAssumption DEF Coordinator!GroupKeys
<1>2. \A k \in Coordinator!BotKeys :
         /\ k = <<k[1], k[2]>> /\ k[1] \in Symbols
         /\ k[2] \in Strategies \/ k[2] = Legacy
  BY DEF Coordinator!BotKeys
<1> QED
  BY <1>1, <1>2, StartGateAssumption
  DEF Coordinator!GroupKeys, Coordinator!BotKeys, Coordinator!KeySymbol

LEMMA NothingIs ==
    /\ Coordinator!NoReservation \in Coordinator!Reservation
    /\ Coordinator!NoReservation.margin = 0
    /\ Coordinator!NoReservation.held = FALSE
BY DEF Coordinator!NoReservation, Coordinator!Reservation, Coordinator!Directions

LEMMA EntryIs ==
    ASSUME NEW m \in Nat, NEW d \in {"LONG", "none"}
    PROVE  /\ Coordinator!Entry(m, d) \in Coordinator!Reservation
           /\ Coordinator!Entry(m, d).margin = m /\ Coordinator!Entry(m, d).held = TRUE
BY DEF Coordinator!Entry, Coordinator!Reservation, Coordinator!Directions, Coordinator!Sides

\* What an engine does to its own slot.
LEMMA SlotIs ==
    ASSUME NEW R, MapInv(R), NEW s \in Symbols, NEW k \in Coordinator!GroupKeys(s),
           NEW e \in Coordinator!Reservation, ~e.held => e = Coordinator!NoReservation
    PROVE  MapInv([R EXCEPT ![k] = e])
<1> DEFINE Q == [R EXCEPT ![k] = e]
<1>1. k \in Coordinator!BotKeys /\ \A t \in Symbols : <<t, Legacy>> # k
  <2>1. k \in Coordinator!BotKeys /\ k[2] # Legacy
    BY KeysAre
  <2>2. \A t \in Symbols : <<t, Legacy>>[2] = Legacy
    OBVIOUS
  <2> QED
    BY <2>1, <2>2
<1>2. /\ Q \in [Coordinator!BotKeys -> Coordinator!Reservation] /\ Q[k] = e
      /\ \A j \in Coordinator!BotKeys : j # k => Q[j] = R[j]
  BY <1>1 DEF MapInv
<1> HIDE DEF Q
<1>3. MapInv(Q)
  BY <1>1, <1>2, KeysAre DEF MapInv
<1> QED
  BY <1>3 DEF Q

\* What the group of a coin takes, and gives back.
LEMMA SharesAre ==
    ASSUME NEW s \in Symbols
    PROVE  /\ Cardinality(Strategies) \in Nat \ {0}
           /\ Coordinator!Cardinality(Strategies) = Cardinality(Strategies)
           /\ Capital[s] \in Nat
           /\ Capital[s] \div Cardinality(Strategies) \in Nat
           /\ (Capital[s] \div Cardinality(Strategies)) * Cardinality(Strategies) <= Capital[s]
<1>1. Cardinality(Strategies) \in Nat \ {0}
  BY StartGateAssumption, FS_CardinalityType, FS_EmptySet
<1>2. Coordinator!Cardinality(Strategies) = Cardinality(Strategies)
  BY Zenon DEF Coordinator!Cardinality, Cardinality
<1>3. Capital[s] \in Nat
  BY StartGateAssumption
<1> DEFINE n == Cardinality(Strategies)
           c == Capital[s]
<1> HIDE DEF n, c
<1>4. ASSUME n \in Nat \ {0}, c \in Nat
      PROVE  c \div n \in Nat /\ (c \div n) * n <= c
  BY <1>4
<1> QED
  BY <1>1, <1>2, <1>3, <1>4 DEF n, c

LEMMA GroupIs ==
    ASSUME MapInv(reservations), NEW s \in Symbols
    PROVE  /\ MapInv(GroupArmed(s)) /\ MapInv(Coordinator!GroupReleased(s))
           /\ \A k \in Coordinator!BotKeys :
                 /\ k \in Coordinator!GroupKeys(s) =>
                       GroupArmed(s)[k].margin = Capital[s] \div Cardinality(Strategies)
                 /\ k \notin Coordinator!GroupKeys(s) => GroupArmed(s)[k] = reservations[k]
<1> DEFINE c == Capital[s] \div Cardinality(Strategies)
           e == Coordinator!Entry(c, "none")
           A == GroupArmed(s)
           F == Coordinator!GroupReleased(s)
<1>1. c \in Nat /\ e \in Coordinator!Reservation /\ e.margin = c /\ e.held = TRUE
  BY SharesAre, EntryIs
<1>2. A = [k \in Coordinator!BotKeys |->
              IF k \notin Coordinator!GroupKeys(s) THEN reservations[k]
              ELSE IF k[2] \in Strategies THEN e ELSE Coordinator!NoReservation]
  BY SharesAre, Zenon DEF GroupArmed, Coordinator!GroupReserved
<1>3. F = [k \in Coordinator!BotKeys |->
              IF k \in Coordinator!GroupKeys(s) THEN Coordinator!NoReservation
              ELSE reservations[k]]
  BY Zenon DEF Coordinator!GroupReleased
<1> HIDE DEF A, F, e, c
<1>4. \A t \in Symbols : <<t, Legacy>> \in Coordinator!BotKeys
                         /\ <<t, Legacy>> \notin Coordinator!GroupKeys(s)
  BY KeysAre
<1>5. \A k \in Coordinator!BotKeys : A[k] = IF k \in Coordinator!GroupKeys(s) THEN e
                                            ELSE reservations[k]
  BY <1>2, KeysAre
<1>6. MapInv(A)
  BY <1>1, <1>2, <1>4, <1>5, NothingIs DEF MapInv
<1>7. MapInv(F)
  BY <1>3, <1>4, NothingIs DEF MapInv
<1> QED
  BY <1>1, <1>5, <1>6, <1>7 DEF A, F, c

\* What is known of the account: the map, and an equity.
AccountInv == MapInv(reservations) /\ accountEquity \in Nat

LEMMA AccountInit == Init => AccountInv
<1>1. \A s \in Symbols : <<s, Legacy>> \in Coordinator!BotKeys
  BY KeysAre
<1> QED
  BY <1>1, NothingIs DEF Init, Coordinator!Empty, AccountInv, MapInv

LEMMA AccountStep ==
    ASSUME AccountInv, [Next]_vars
    PROVE  AccountInv'
<1> USE DEF AccountInv
<1>1. ASSUME NEW s \in Symbols,
             \/ Request(s) \/ AcquireStartLock(s) \/ BalanceUnread(s) \/ GateRefuses(s)
             \/ WarmedUp(s)
      PROVE  AccountInv'
  <2>1. /\ reservations' = reservations
        /\ accountEquity' = accountEquity \/ accountEquity' \in Equities
    BY <1>1 DEF Request, AcquireStartLock, BalanceUnread, GateRefuses, WarmedUp, coordinator
  <2> QED
    BY <2>1, StartGateAssumption DEF MapInv
<1>8. ASSUME NEW s \in Symbols, PersistFails(s)
      PROVE  AccountInv'
  BY <1>8 DEF PersistFails, coordinator, MapInv
<1>2. ASSUME NEW s \in Symbols, GateArms(s) \/ Persist(s) \/ Resume(s)
      PROVE  AccountInv'
  <2>1. /\ reservations' = GroupArmed(s)
        /\ accountEquity' = accountEquity \/ accountEquity' \in Equities
    BY <1>2 DEF GateArms, Persist, Resume
  <2> QED
    BY <2>1, GroupIs, StartGateAssumption
<1>3. ASSUME NEW s \in Symbols, WarmupFails(s) \/ Stopped(s)
      PROVE  AccountInv'
  <2>1. reservations' = Coordinator!GroupReleased(s) /\ accountEquity' = accountEquity
    BY <1>3 DEF WarmupFails, Stopped
  <2> QED
    BY <2>1, GroupIs
<1>4. ASSUME NEW s \in Symbols, EngineOpens(s)
      PROVE  AccountInv'
  <2>1. PICK q \in Equities \ {0}, k \in Coordinator!GroupKeys(s), m \in Margins, d \in {"LONG"} :
           accountEquity' = q /\ reservations' = Coordinator!Reserved(k, m, d)
    BY <1>4 DEF EngineOpens
  <2>2. reservations' = [reservations EXCEPT ![k] = Coordinator!Entry(m, d)]
    BY <2>1 DEF Coordinator!Reserved
  <2>3. m \in Nat /\ d \in {"LONG", "none"} /\ q \in Nat
    BY <2>1, StartGateAssumption
  <2> DEFINE e == Coordinator!Entry(m, d)
  <2>4. e \in Coordinator!Reservation /\ e.held = TRUE
    BY <2>3, EntryIs
  <2>5. reservations' = [reservations EXCEPT ![k] = e]
    BY <2>2
  <2> HIDE DEF e
  <2>6. MapInv([reservations EXCEPT ![k] = e])
    BY <2>1, <2>4, SlotIs
  <2> QED
    BY <2>1, <2>3, <2>5, <2>6
<1>5. ASSUME NEW s \in Symbols, EngineCloses(s)
      PROVE  AccountInv'
  <2>1. PICK k \in Coordinator!GroupKeys(s) : reservations' = Coordinator!Released(k)
    BY <1>5 DEF EngineCloses
  <2>2. reservations' = [reservations EXCEPT ![k] = Coordinator!NoReservation]
    BY <2>1 DEF Coordinator!Released
  <2>3. accountEquity' = accountEquity
    BY <1>5 DEF EngineCloses
  <2> QED
    BY <2>2, <2>3, SlotIs, NothingIs
<1>6. CASE Crash
  <2>1. \A s \in Symbols : <<s, Legacy>> \in Coordinator!BotKeys
    BY KeysAre
  <2> QED
    BY <1>6, <2>1, NothingIs DEF Crash, MapInv
<1>7. CASE UNCHANGED vars
  BY <1>7 DEF vars, coordinator
<1> QED
  BY <1>1, <1>2, <1>3, <1>4, <1>5, <1>6, <1>7, <1>8 DEF Next, Handle

\* The lock and the flag of each bot.
FlagInv == lock \in Symbols \cup {NoOne} /\ running \in [Symbols -> BOOLEAN]

LEMMA FlagStep == FlagInv /\ [Next]_vars => FlagInv'
<1> SUFFICES ASSUME FlagInv, [Next]_vars PROVE FlagInv'
  OBVIOUS
<1>1. ASSUME NEW s \in Symbols, Handle(s) PROVE FlagInv'
  BY <1>1 DEF FlagInv, Handle, AcquireStartLock, BalanceUnread, GateRefuses, GateArms, Persist,
              PersistFails, WarmedUp, WarmupFails
<1>2. ASSUME NEW s \in Symbols,
             Request(s) \/ Stopped(s) \/ EngineOpens(s) \/ EngineCloses(s) \/ Resume(s)
      PROVE  FlagInv'
  BY <1>2 DEF FlagInv, Request, Stopped, EngineOpens, EngineCloses, Resume
<1>3. CASE Crash \/ UNCHANGED vars
  BY <1>3 DEF FlagInv, Crash, vars
<1> QED
  BY <1>1, <1>2, <1>3 DEF Next

GateInv == AccountInv /\ FlagInv /\ QueueInv

LEMMA GateStart == Init => GateInv
<1>1. Init => FlagInv
  BY DEF Init, FlagInv
<1> QED
  BY <1>1, AccountInit, QueueInit DEF GateInv

LEMMA GateNext == GateInv /\ [Next]_vars => GateInv'
BY AccountStep, FlagStep, QueueStep DEF GateInv

LEMMA GateTypes == GateInv => TypeOK
BY DEF GateInv, AccountInv, MapInv, FlagInv, QueueInv, TypeOK, Coordinator!MapOK,
       Coordinator!Held

\* The account, the lock with its queue and the bots keep their types, through crashes and
\* resumes as well.
THEOREM GateTypeCorrect == Spec => []TypeOK
BY GateStart, GateNext, GateTypes, PTL DEF Spec
----------------------------------------------------------------------------
(* The budget *)

Total(R) == Coordinator!MarginSum([j \in Coordinator!BotKeys |-> R[j].margin])

MarginsIn(K) == [j \in K |-> reservations[j].margin]
Others(s)    == {k \in Coordinator!BotKeys : Coordinator!KeySymbol(k) # s}

LEMMA MarginSumIs ==
    ASSUME NEW K, IsFiniteSet(K), NEW f \in [K -> Nat]
    PROVE  Coordinator!MarginSum(f) = SumOf(f, K)
<1> DEFINE k == CHOOSE k : k = [s \in SUBSET K |->
                   IF s = {} THEN 0 ELSE f[OneOf(s)] + k[s \ {OneOf(s)}]]
<1>1. PICK g : IsSum(g, f, K)
  BY SumExists
<1>2. DOMAIN f = K
  OBVIOUS
<1>3. Coordinator!MarginSum(f) = Coordinator!FoldFunctionOnSet(LAMBDA x, y : x + y, 0, f, K)
  BY <1>2, Zenon DEF Coordinator!MarginSum, Coordinator!FoldFunction
<1>4. Coordinator!FoldFunctionOnSet(LAMBDA x, y : x + y, 0, f, K) = k[K]
  BY DEF Coordinator!FoldFunctionOnSet, Coordinator!MapThenFoldSet, OneOf
<1>5. g = [s \in SUBSET K |-> IF s = {} THEN 0 ELSE f[OneOf(s)] + g[s \ {OneOf(s)}]]
  BY <1>1 DEF IsSum
<1>6. k = [s \in SUBSET K |-> IF s = {} THEN 0 ELSE f[OneOf(s)] + k[s \ {OneOf(s)}]]
  BY <1>5
<1> HIDE DEF k
<1>7. IsSum(k, f, K)
  BY <1>6 DEF IsSum
<1> QED
  BY <1>3, <1>4, <1>7, SumMeans

LEMMA MarginSumAt ==
    ASSUME NEW q, NEW K, IsFiniteSet(K), NEW f \in [K -> Nat]
    PROVE  WithEquity(q)!MarginSum(f) = SumOf(f, K)
<1> DEFINE k == CHOOSE k : k = [s \in SUBSET K |->
                   IF s = {} THEN 0 ELSE f[OneOf(s)] + k[s \ {OneOf(s)}]]
<1>1. PICK g : IsSum(g, f, K)
  BY SumExists
<1>2. DOMAIN f = K
  OBVIOUS
<1>3. WithEquity(q)!MarginSum(f) = WithEquity(q)!FoldFunctionOnSet(LAMBDA x, y : x + y, 0, f, K)
  BY <1>2, Zenon DEF WithEquity!MarginSum, WithEquity!FoldFunction
<1>4. WithEquity(q)!FoldFunctionOnSet(LAMBDA x, y : x + y, 0, f, K) = k[K]
  BY DEF WithEquity!FoldFunctionOnSet, WithEquity!MapThenFoldSet, OneOf
<1>5. g = [s \in SUBSET K |-> IF s = {} THEN 0 ELSE f[OneOf(s)] + g[s \ {OneOf(s)}]]
  BY <1>1 DEF IsSum
<1>6. k = [s \in SUBSET K |-> IF s = {} THEN 0 ELSE f[OneOf(s)] + k[s \ {OneOf(s)}]]
  BY <1>5
<1> HIDE DEF k
<1>7. IsSum(k, f, K)
  BY <1>6 DEF IsSum
<1> QED
  BY <1>3, <1>4, <1>7, SumMeans

LEMMA CanStart ==
    ASSUME NEW q, NEW s \in Symbols, Affordable(s, q), IsFiniteSet(Others(s)),
           Amounts(MarginsIn(Others(s)), Others(s))
    PROVE  /\ Capital[s] > 0
           /\ (SumOf(MarginsIn(Others(s)), Others(s)) + Capital[s]) * UtilDen <= q * UtilNum
<1>1. /\ Capital[s] > 0
      /\ WithEquity(q)!WithinBudget(
             WithEquity(q)!MarginOf({k \in WithEquity(q)!BotKeys : WithEquity(q)!KeySymbol(k) # s})
                + Capital[s])
  BY DEF Affordable, WithEquity!CanStartBot
<1>2. {k \in WithEquity(q)!BotKeys : WithEquity(q)!KeySymbol(k) # s} = Others(s)
  BY DEF WithEquity!BotKeys, WithEquity!KeySymbol, Others, Coordinator!BotKeys,
         Coordinator!KeySymbol
<1>3. WithEquity(q)!WithinBudget(WithEquity(q)!MarginOf(Others(s)) + Capital[s])
  BY <1>1, <1>2, Zenon
<1>4. WithEquity(q)!MarginOf(Others(s)) = WithEquity(q)!MarginSum(MarginsIn(Others(s)))
  BY Zenon DEF WithEquity!MarginOf, MarginsIn
<1>5. MarginsIn(Others(s)) \in [Others(s) -> Nat]
  BY DEF Amounts, MarginsIn
<1>6. WithEquity(q)!MarginOf(Others(s)) = SumOf(MarginsIn(Others(s)), Others(s))
  BY <1>4, <1>5, MarginSumAt
<1> QED
  BY <1>1, <1>3, <1>6 DEF WithEquity!WithinBudget

LEMMA KeysFinite == IsFiniteSet(Coordinator!BotKeys)
<1>1. IsFiniteSet(Strategies \cup {Legacy})
  BY FS_AddElement, StartGateAssumption
<1> QED
  BY <1>1, FS_Product, StartGateAssumption DEF Coordinator!BotKeys

\* What is taken of the capital of a bot does not exceed it.
LEMMA SharesWithin ==
    ASSUME NEW s \in Symbols
    PROVE  /\ IsFiniteSet(Coordinator!GroupKeys(s))
           /\ Cardinality(Coordinator!GroupKeys(s)) = Cardinality(Strategies)
<1>1. IsFiniteSet({s}) /\ Cardinality({s}) = 1
  BY FS_Singleton
<1>2. /\ IsFiniteSet({s} \X Strategies)
      /\ Cardinality({s} \X Strategies) = Cardinality({s}) * Cardinality(Strategies)
  BY <1>1, StartGateAssumption, FS_Product
<1>3. Cardinality({s}) * Cardinality(Strategies) = Cardinality(Strategies)
  BY <1>1, SharesAre
<1> QED
  BY <1>2, <1>3, Zenon DEF Coordinator!GroupKeys

\* The group that is armed adds no more than its capital to the margins of the others.
LEMMA ArmedTotal ==
    ASSUME AccountInv, NEW s \in Symbols
    PROVE  /\ Amounts(MarginsIn(Others(s)), Others(s)) /\ IsFiniteSet(Others(s))
           /\ SumOf(MarginsIn(Others(s)), Others(s)) \in Nat
           /\ Total(GroupArmed(s)) \in Nat
           /\ Total(GroupArmed(s)) <= SumOf(MarginsIn(Others(s)), Others(s)) + Capital[s]
<1> DEFINE K == Coordinator!BotKeys
           G == Coordinator!GroupKeys(s)
           O == Others(s)
           A == GroupArmed(s)
           c == Capital[s] \div Cardinality(Strategies)
           h == [j \in K |-> A[j].margin]
           a == [j \in K |-> IF j \in O THEN reservations[j].margin ELSE 0]
           b == [j \in K |-> IF j \in G THEN c ELSE 0]
<1>1. IsFiniteSet(K) /\ O \in SUBSET K /\ IsFiniteSet(O) /\ G \in SUBSET K /\ IsFiniteSet(G)
  BY KeysFinite, KeysAre, FS_Subset DEF Others
<1>2. \A j \in K : reservations[j].margin \in Nat
  BY DEF AccountInv, MapInv, Coordinator!Reservation
<1>3. c \in Nat /\ c * Cardinality(Strategies) <= Capital[s] /\ Capital[s] \in Nat
      /\ Cardinality(Strategies) \in Nat
  BY SharesAre
<1>4. ASSUME NEW j \in K
      PROVE  h[j] = a[j] + b[j] /\ a[j] \in Nat /\ b[j] \in Nat
  <2>1. /\ j \in G => A[j].margin = c
        /\ j \notin G => A[j] = reservations[j]
    BY GroupIs DEF AccountInv
  <2>2. \/ j \in O /\ j \notin G
        \/ j \in G /\ j \notin O
        \/ j = <<s, Legacy>> /\ j \notin G /\ j \notin O
    BY KeysAre DEF Others, Coordinator!KeySymbol
  <2>3. reservations[<<s, Legacy>>].margin = 0
    BY DEF AccountInv, MapInv
  <2>4. /\ h[j] = A[j].margin
        /\ a[j] = IF j \in O THEN reservations[j].margin ELSE 0
        /\ b[j] = IF j \in G THEN c ELSE 0
    OBVIOUS
  <2> HIDE DEF K, G, O, A, c, h, a, b
  <2> QED
    BY <1>2, <1>3, <1>4, <2>1, <2>2, <2>3, <2>4
<1>5. Amounts(MarginsIn(O), O) /\ \A j \in O : a[j] = MarginsIn(O)[j]
  BY <1>1, <1>2 DEF Amounts, MarginsIn
<1>6. \A j \in K \ O : a[j] = 0
  OBVIOUS
<1>7. (\A j \in K \ G : b[j] = 0) /\ \A j \in G : b[j] = c
  BY <1>1
<1>8. h \in [K -> Nat]
  BY <1>4
<1>9. Total(A) = Coordinator!MarginSum(h)
  BY DEF Total
<1> HIDE DEF K, G, O, A, c, h, a, b
<1>10. Amounts(a, K) /\ Amounts(b, K) /\ Amounts(a, O) /\ Amounts(b, G) /\ Amounts(h, K)
  BY <1>1, <1>4, <1>8 DEF Amounts
<1>11. Total(A) = SumOf(h, K) /\ SumOf(h, K) = SumOf(a, K) + SumOf(b, K)
  BY <1>1, <1>4, <1>8, <1>9, <1>10, MarginSumIs, SumPlus
<1>12. SumOf(a, K) = SumOf(a, O) /\ SumOf(a, O) = SumOf(MarginsIn(O), O)
  BY <1>1, <1>5, <1>6, <1>10, SumSupport, SumSame
<1>13. SumOf(b, K) = SumOf(b, G) /\ SumOf(b, G) <= c * Cardinality(G)
  <2>1. \A j \in G : b[j] <= c
    BY <1>3, <1>7
  <2> QED
    BY <1>1, <1>3, <1>7, <1>10, <2>1, SumSupport, SumAtMost
<1>14. c * Cardinality(G) = c * Cardinality(Strategies)
  BY SharesWithin DEF G
<1>15. SumOf(a, K) \in Nat /\ SumOf(b, K) \in Nat
  BY <1>1, <1>10, SumNat
<1>16. Total(A) \in Nat /\ Total(A) <= SumOf(MarginsIn(O), O) + Capital[s]
       /\ SumOf(MarginsIn(O), O) \in Nat
  <2> DEFINE x == c * Cardinality(Strategies)
  <2>1. SumOf(b, K) <= x /\ x <= Capital[s] /\ x \in Int
    BY <1>3, <1>13, <1>14
  <2> HIDE DEF x
  <2> QED
    BY <1>3, <1>11, <1>12, <1>15, <2>1
<1> QED
  BY <1>1, <1>5, <1>16 DEF O, A

LEMMA Grows ==
    ASSUME NEW x \in Nat, NEW y \in Nat, x <= y, NEW d \in Nat
    PROVE  x * d <= y * d
OBVIOUS

LEMMA WithinIs ==
    Coordinator!WithinBudget(Coordinator!MarginOf(Coordinator!BotKeys))
        <=> Total(reservations) * UtilDen <= accountEquity * UtilNum
BY Zenon DEF Coordinator!WithinBudget, Coordinator!MarginOf, Total

LEMMA WithinNext ==
    (Coordinator!WithinBudget(Coordinator!MarginOf(Coordinator!BotKeys))
        <=> Total(reservations) * UtilDen <= accountEquity * UtilNum)'
BY WithinIs, PTL

LEMMA GateStep ==
    ASSUME AccountInv, NEW s \in Symbols, GateArms(s)
    PROVE  Coordinator!WithinBudget(Coordinator!MarginOf(Coordinator!BotKeys))'
<1>1. PICK q \in Equities \ {0} : Affordable(s, q) /\ accountEquity' = q
  BY DEF GateArms
<1>2. reservations' = GroupArmed(s)
  BY DEF GateArms
<1> DEFINE t == Total(GroupArmed(s))
           y == SumOf(MarginsIn(Others(s)), Others(s)) + Capital[s]
<1>3. t \in Nat /\ t <= y /\ y \in Nat
  BY ArmedTotal, SharesAre
<1>4. y * UtilDen <= q * UtilNum
  BY <1>1, ArmedTotal, CanStart
<1>5. UtilDen \in Nat /\ UtilNum \in Nat /\ q \in Nat
  BY StartGateAssumption
<1> HIDE DEF t, y
<1>6. t * UtilDen <= y * UtilDen
  BY <1>3, <1>5, Grows
<1>7. t * UtilDen \in Nat /\ y * UtilDen \in Nat /\ q * UtilNum \in Nat
  BY <1>3, <1>5
<1>8. t * UtilDen <= q * UtilNum
  BY <1>4, <1>6, <1>7
<1>9. Total(reservations') * UtilDen <= accountEquity' * UtilNum
  BY <1>1, <1>2, <1>8, Zenon DEF t
<1> QED
  BY <1>9, WithinNext

\* Only the gate lets a start go on from its balance.
LEMMA OnlyGateArms ==
    ASSUME pc \in [Symbols -> Stages], [Next]_vars, NEW s \in Symbols, pc[s] = "balance",
           pc'[s] = "persist"
    PROVE  GateArms(s)
<1>1. ASSUME NEW r \in Symbols,
             \/ Request(r) \/ AcquireStartLock(r) \/ BalanceUnread(r) \/ GateRefuses(r)
             \/ Persist(r) \/ PersistFails(r) \/ WarmedUp(r) \/ WarmupFails(r) \/ Stopped(r)
             \/ Resume(r)
      PROVE  pc'[s] # "persist"
  <2>1. \E stage \in Stages \ {"persist"} : pc' = [pc EXCEPT ![r] = stage]
    BY <1>1 DEF Request, AcquireStartLock, BalanceUnread, GateRefuses, Persist, PersistFails,
                WarmedUp, WarmupFails, Stopped, Resume, Goto, Stages
  <2> QED
    BY <2>1
<1>2. ASSUME NEW r \in Symbols, GateArms(r)
      PROVE  r = s
  BY <1>2 DEF GateArms, Goto
<1>3. ASSUME NEW r \in Symbols, EngineOpens(r) \/ EngineCloses(r)
      PROVE  pc' = pc
  BY <1>3 DEF EngineOpens, EngineCloses
<1>4. Crash => pc'[s] = "off"
  BY DEF Crash
<1> QED
  BY <1>1, <1>2, <1>3, <1>4 DEF Next, Handle, vars

\* A start that is let through leaves the margin of the whole account, its own capital
\* included, within the budget of the equity it read, for any coins, capitals and equities.
THEOREM StartWithinBudget == Spec => GateKeepsBudget
<1>1. AccountInv /\ QueueInv /\ [Next]_vars
         => [\A s \in Symbols : pc[s] = "balance" /\ pc'[s] = "persist"
                => Coordinator!WithinBudget(Coordinator!MarginOf(Coordinator!BotKeys))']_vars
  BY OnlyGateArms, GateStep DEF QueueInv
<1> QED
  BY <1>1, AccountInit, AccountStep, QueueInit, QueueStep, PTL DEF Spec, GateKeepsBudget

----------------------------------------------------------------------------
(* ExchangeSwitch *)

(* The library's lemmas, for the operators ExchangeSwitch and LegReplay have from it *)

LEMMA SameSize ==
    \A S : (Switch!IsFiniteSet(S) <=> IsFiniteSet(S)) /\ Switch!Cardinality(S) = Cardinality(S)
BY DEF Switch!IsFiniteSet, Switch!Cardinality, IsFiniteSet, Cardinality

LEMMA SameCount == \A S : Several!Cardinality(S) = Cardinality(S)
BY DEF Several!Cardinality, Cardinality

LEMMA SizeIs ==
    ASSUME NEW S, Switch!IsFiniteSet(S)
    PROVE  Switch!Cardinality(S) \in Nat
BY SameSize, FS_CardinalityType

LEMMA SubsetIs ==
    ASSUME NEW S, Switch!IsFiniteSet(S), NEW T \in SUBSET S
    PROVE  /\ Switch!IsFiniteSet(T)
           /\ Switch!Cardinality(T) <= Switch!Cardinality(S)
BY SameSize, FS_Subset

LEMMA NoneIs == \A S : S = {} => Switch!IsFiniteSet(S) /\ Switch!Cardinality(S) = 0
BY SameSize, FS_EmptySet

LEMMA OneIs ==
    ASSUME NEW x
    PROVE  Switch!IsFiniteSet({x}) /\ Switch!Cardinality({x}) = 1
BY SameSize, FS_Singleton

LEMMA RemovedIs ==
    ASSUME NEW S, Switch!IsFiniteSet(S), NEW x, x \in S
    PROVE  Switch!Cardinality(S \ {x}) = Switch!Cardinality(S) - 1
BY SameSize, FS_RemoveElement

----------------------------------------------------------------------------
RequestState == [kind : Switch!Kinds, at : Switch!Stages, x : Exchanges \cup {None}]

\* Where a request is about an exchange, and the parts of switchExchange that POST /keys does
\* not share.
Named    == {"limit", "status", "validate", "stopRows", "revoke", "upsert", "dropOthers", "sync",
             "clear", "enforce", "audit", "persist", "serve"}
OfSwitch == {"limit", "status", "validate", "stopRows", "revoke", "clear", "enforce", "audit"}

Staged ==
    \A r \in Requests :
        /\ req[r].at = "idle" <=> req[r].kind = "none"
        /\ req[r].at \in Named => req[r].x \in Exchanges
        /\ req[r].at \in OfSwitch => req[r].kind = "switch"

\* The types, but for the bound of recent.
Typed ==
    /\ row \in [Exchanges -> {"none", "active", "deleted"}] /\ legacy \in Exchanges \cup {None}
    /\ recent \in Nat
    /\ botRunning \in BOOLEAN /\ engine \in Exchanges \cup {None}
    /\ held \subseteq Exchanges /\ tracked \in BOOLEAN
    /\ req \in [Requests -> RequestState]
    /\ Staged

----------------------------------------------------------------------------
(* What a step does to the requests. *)

\* Only r moves.
Moves(r) == \A q \in Requests : q # r => req'[q] = req[q]

LEMMA Goes ==
    ASSUME Typed, NEW r \in Requests, NEW at \in Switch!Stages, Switch!Goto(r, at)
    PROVE  /\ Moves(r) /\ req' \in [Requests -> RequestState]
           /\ req'[r].at = at /\ req'[r].kind = req[r].kind /\ req'[r].x = req[r].x
<1>1. req \in [Requests -> RequestState] /\ req[r] \in RequestState
  BY DEF Typed
<1>2. req' = [req EXCEPT ![r] = [req[r] EXCEPT !.at = at]]
  BY <1>1 DEF Switch!Goto, RequestState
<1>3. [req[r] EXCEPT !.at = at] \in RequestState
  BY <1>1 DEF RequestState
<1> QED
  BY <1>1, <1>2, <1>3 DEF Moves, RequestState

LEMMA Started ==
    ASSUME Typed, NEW r \in Requests, NEW kind \in Switch!Kinds, NEW at \in Switch!Stages,
           NEW x \in Exchanges \cup {None}, Switch!Begins(r, kind, at, x)
    PROVE  /\ Moves(r) /\ req' \in [Requests -> RequestState]
           /\ req'[r].at = at /\ req'[r].kind = kind /\ req'[r].x = x
BY DEF Switch!Begins, Typed, RequestState, Moves

LEMMA Ended ==
    ASSUME Typed, NEW r \in Requests, Switch!Ends(r)
    PROVE  /\ Moves(r) /\ req' \in [Requests -> RequestState]
           /\ req'[r].at = "idle" /\ req'[r].kind = "none" /\ req'[r].x = None
BY DEF Switch!Ends, Switch!NoRequest, Typed, RequestState, Moves, Switch!Kinds, Switch!Stages

LEMMA RevokedIs ==
    ASSUME Typed, NEW xs, Switch!Revoked(xs)
    PROVE  /\ row' \in [Exchanges -> {"none", "active", "deleted"}]
           /\ \A y \in Exchanges : row'[y] = "active" <=> row[y] = "active" /\ y \notin xs
BY DEF Switch!Revoked, Typed

LEMMA MigratedIs ==
    ASSUME Typed, None \notin Exchanges
    PROVE  /\ Switch!Migrated \in [Exchanges -> {"none", "active", "deleted"}]
           /\ \A y \in Exchanges :
                 Switch!Migrated[y] = "active"
                    <=> row[y] = "active" \/ (Switch!Migrates /\ y = legacy)
           /\ Switch!Migrates => legacy \in Exchanges /\ \A y \in Exchanges : row[y] # "active"
BY DEF Switch!Migrated, Switch!Migrates, Switch!Active, Typed

\* What ReadsKeys keeps active: the exchange it read.
LEMMA ReadIs ==
    ASSUME Typed, None \notin Exchanges, NEW r \in Requests, Switch!ReadsKeys(r)
    PROVE  \/ Switch!Ends(r) /\ UNCHANGED Switch!keys /\ botRunning' \in BOOLEAN
           \/ \E x \in Exchanges :
                 /\ Moves(r) /\ req' \in [Requests -> RequestState]
                 /\ req'[r].kind = req[r].kind /\ req'[r].x = x
                 /\ req'[r].at \in {"serve", "persist"}
                 /\ row' \in [Exchanges -> {"none", "active", "deleted"}]
                 /\ \A y \in Exchanges : row'[y] = "active" <=> y = x
                 /\ IF Switch!Active = {} THEN x = legacy ELSE x \in Switch!Active
                 /\ legacy' = IF Switch!Cardinality(Switch!Active) > 1 THEN x ELSE legacy
                 /\ UNCHANGED botRunning
<1>1. CASE Switch!Ends(r) /\ UNCHANGED Switch!keys /\ botRunning' \in BOOLEAN
  BY <1>1
<1>2. CASE /\ ~Switch!Throws
           /\ \E x \in (IF Switch!Active = {} THEN {legacy} \ {None} ELSE Switch!Active) :
                /\ req' = [req EXCEPT
                              ![r].x = x,
                              ![r].at = IF req[r].kind = "resume" THEN "serve" ELSE "persist"]
                /\ row' = [y \in Exchanges |->
                              IF y # x /\ row[y] = "active" THEN "deleted" ELSE Switch!Migrated[y]]
                /\ legacy' = IF Switch!Cardinality(Switch!Active) > 1 THEN x ELSE legacy
           /\ UNCHANGED botRunning
  <2>1. PICK x \in (IF Switch!Active = {} THEN {legacy} \ {None} ELSE Switch!Active) :
                /\ req' = [req EXCEPT
                              ![r].x = x,
                              ![r].at = IF req[r].kind = "resume" THEN "serve" ELSE "persist"]
                /\ row' = [y \in Exchanges |->
                              IF y # x /\ row[y] = "active" THEN "deleted" ELSE Switch!Migrated[y]]
                /\ legacy' = IF Switch!Cardinality(Switch!Active) > 1 THEN x ELSE legacy
    BY <1>2
  <2>2. x \in Exchanges /\ IF Switch!Active = {} THEN x = legacy ELSE x \in Switch!Active
    BY DEF Switch!Active, Typed
  <2> DEFINE at == IF req[r].kind = "resume" THEN "serve" ELSE "persist"
  <2>3. req[r] \in RequestState /\ req \in [Requests -> RequestState]
    BY DEF Typed
  <2>4. req' = [req EXCEPT ![r] = [req[r] EXCEPT !.x = x, !.at = at]]
    BY <2>1, <2>3
  <2>5. at \in {"serve", "persist"}
    OBVIOUS
  <2> HIDE DEF at
  <2>6. /\ [req[r] EXCEPT !.x = x, !.at = at] \in RequestState
        /\ [req[r] EXCEPT !.x = x, !.at = at].x = x
        /\ [req[r] EXCEPT !.x = x, !.at = at].at = at
        /\ [req[r] EXCEPT !.x = x, !.at = at].kind = req[r].kind
    BY <2>2, <2>3, <2>5 DEF RequestState, Switch!Stages
  <2>7. /\ Moves(r) /\ req' \in [Requests -> RequestState]
        /\ req'[r].kind = req[r].kind /\ req'[r].x = x /\ req'[r].at \in {"serve", "persist"}
    BY <2>3, <2>4, <2>5, <2>6 DEF Moves
  <2>8. \A y \in Exchanges :
           Switch!Migrated[y] = "active" <=> row[y] = "active" \/ (Switch!Migrates /\ y = legacy)
    BY MigratedIs
  <2>9. Switch!Migrates <=> Switch!Active = {}
    BY <2>1, <2>2 DEF Switch!Migrates, Switch!Active
  <2>10. \A y \in Exchanges : row'[y] = "active" <=> y = x
    BY <2>1, <2>2, <2>8, <2>9 DEF Switch!Active
  <2>11. row' \in [Exchanges -> {"none", "active", "deleted"}]
    BY <2>1, MigratedIs
  <2> QED
    BY <1>2, <2>1, <2>2, <2>7, <2>10, <2>11
<1> QED
  BY <1>1, <1>2 DEF Switch!ReadsKeys, Typed
----------------------------------------------------------------------------
(* Types *)

\* A step of r leaves the stages of the others alone: what it does to its own is enough.
LEMMA StagesStay ==
    ASSUME Typed, NEW r \in Requests, Moves(r), req' \in [Requests -> RequestState],
           req'[r].at = "idle" <=> req'[r].kind = "none",
           req'[r].at \in Named => req'[r].x \in Exchanges,
           req'[r].at \in OfSwitch => req'[r].kind = "switch"
    PROVE  Staged'
BY DEF Typed, Staged, Moves

\* The steps that change nothing but the stage of a request.
LEMMA AskingKeepsTypes ==
    ASSUME Typed, None \notin Exchanges, NEW r \in Requests,
           \/ Switch!CountsSwitches(r) \/ Switch!Status(r) \/ Switch!Validates(r)
           \/ Switch!StartBegins(r) \/ Switch!Watchdog(r)
           \/ \E x \in Exchanges : Switch!KeysBegins(r, x)
    PROVE  Typed'
<1>1. UNCHANGED <<row, legacy, recent, botRunning, engine, held, tracked>>
  BY DEF Switch!CountsSwitches, Switch!Status, Switch!Validates, Switch!StartBegins,
         Switch!Watchdog, Switch!KeysBegins, Switch!keys, Switch!bot
<1>2. /\ Moves(r) /\ req' \in [Requests -> RequestState]
      /\ req'[r].at = "idle" <=> req'[r].kind = "none"
      /\ req'[r].at \in Named => req'[r].x \in Exchanges
      /\ req'[r].at \in OfSwitch => req'[r].kind = "switch"
  <2>1. CASE Switch!CountsSwitches(r)
    BY <2>1, Goes, Ended DEF Switch!CountsSwitches, Switch!At, Typed, Staged, Switch!Stages, Named,
                             OfSwitch
  <2>2. CASE Switch!Status(r)
    BY <2>2, Goes, Ended DEF Switch!Status, Switch!At, Typed, Staged, Switch!Stages, Named, OfSwitch
  <2>3. CASE Switch!Validates(r)
    BY <2>3, Goes, Ended DEF Switch!Validates, Switch!At, Typed, Staged, Switch!Stages, Named,
                             OfSwitch
  <2>4. CASE Switch!StartBegins(r)
    BY <2>4, Started DEF Switch!StartBegins, Switch!Kinds, Switch!Stages, Named, OfSwitch
  <2>5. CASE Switch!Watchdog(r)
    BY <2>5, Started DEF Switch!Watchdog, Switch!Kinds, Switch!Stages, Named, OfSwitch
  <2>6. CASE \E x \in Exchanges : Switch!KeysBegins(r, x)
    BY <2>6, Started DEF Switch!KeysBegins, Switch!Kinds, Switch!Stages, Named, OfSwitch
  <2> QED
    BY <2>1, <2>2, <2>3, <2>4, <2>5, <2>6
<1>3. Staged'
  BY <1>2, StagesStay
<1> QED
  BY <1>1, <1>2, <1>3 DEF Typed

\* The steps of a switch, of keys saved and of keys deleted that write.
LEMMA WritingKeepsTypes ==
    ASSUME Typed, None \notin Exchanges, NEW r \in Requests,
           \/ \E x \in Exchanges : Switch!SwitchBegins(r, x) \/ Switch!DeleteBegins(r, x)
           \/ Switch!StopsRows(r) \/ Switch!Revokes(r) \/ Switch!Upserts(r)
           \/ Switch!DropsOthers(r) \/ Switch!Syncs(r)
           \/ Switch!Clears(r) \/ Switch!Enforces(r) \/ Switch!Audits(r) \/ Switch!DeleteSyncs(r)
    PROVE  Typed'
<1>1. UNCHANGED <<held, tracked>> /\ botRunning' \in BOOLEAN /\ engine' \in Exchanges \cup {None}
  BY DEF Switch!SwitchBegins, Switch!DeleteBegins, Switch!StopsRows, Switch!Revokes, Switch!Upserts,
         Switch!DropsOthers, Switch!Syncs, Switch!Clears, Switch!Enforces, Switch!Audits,
         Switch!DeleteSyncs, Switch!keys, Switch!bot, Typed
<1>2. row' \in [Exchanges -> {"none", "active", "deleted"}]
  <2>1. CASE \E x \in Exchanges : Switch!DeleteBegins(r, x)
    BY <2>1, MigratedIs DEF Switch!DeleteBegins
  <2>2. CASE \E xs : Switch!Revoked(xs)
    BY <2>2, RevokedIs
  <2>3. CASE row' = row \/ Switch!Upserts(r) \/ Switch!Clears(r)
    BY <2>3 DEF Typed, Switch!Upserts, Switch!Clears
  <2> QED
    BY <2>1, <2>2, <2>3 DEF Switch!SwitchBegins, Switch!StopsRows, Switch!Revokes,
                            Switch!DropsOthers, Switch!Syncs, Switch!Enforces, Switch!Audits,
                            Switch!DeleteSyncs, Switch!keys
<1>3. legacy' \in Exchanges \cup {None} /\ recent' \in Nat
  <2>1. CASE Switch!Syncs(r)
    BY <2>1 DEF Switch!Syncs, Switch!At, Typed, Staged, Named
  <2>2. CASE Switch!DeleteSyncs(r)
    BY <2>2 DEF Switch!DeleteSyncs, Switch!Active, Typed
  <2>3. CASE Switch!Audits(r)
    BY <2>3 DEF Switch!Audits, Switch!keys, Typed
  <2>4. CASE UNCHANGED <<legacy, recent>>
    BY <2>4 DEF Typed
  <2> QED
    BY <2>1, <2>2, <2>3, <2>4 DEF Switch!SwitchBegins, Switch!DeleteBegins, Switch!StopsRows,
                                  Switch!Revokes, Switch!Upserts, Switch!DropsOthers, Switch!Clears,
                                  Switch!Enforces, Switch!keys
<1>4. /\ Moves(r) /\ req' \in [Requests -> RequestState]
      /\ req'[r].at = "idle" <=> req'[r].kind = "none"
      /\ req'[r].at \in Named => req'[r].x \in Exchanges
      /\ req'[r].at \in OfSwitch => req'[r].kind = "switch"
  <2>1. CASE \E x \in Exchanges : Switch!SwitchBegins(r, x)
    BY <2>1, Started DEF Switch!SwitchBegins, Switch!Kinds, Switch!Stages, Named, OfSwitch
  <2>2. CASE \E x \in Exchanges : Switch!DeleteBegins(r, x)
    <3>1. CASE UNCHANGED req
      BY <3>1 DEF Moves, Typed, Staged
    <3>2. CASE \E x \in Exchanges : Switch!Begins(r, "delete", "columns", x)
      BY <3>2, Started DEF Switch!Kinds, Switch!Stages, Named, OfSwitch
    <3> QED
      BY <2>2, <3>1, <3>2 DEF Switch!DeleteBegins
  <2>3. CASE \/ Switch!StopsRows(r) \/ Switch!Revokes(r) \/ Switch!Clears(r)
             \/ Switch!Enforces(r) \/ Switch!DropsOthers(r)
             \/ Switch!Upserts(r) /\ ~Switch!Ends(r)
    <3>1. PICK at \in Switch!Stages :
              /\ Switch!Goto(r, at) /\ at # "idle" /\ req[r].at \in Named
              /\ at \in OfSwitch => req[r].at \in OfSwitch
      BY <2>3 DEF Switch!StopsRows, Switch!Revokes, Switch!Upserts, Switch!Clears, Switch!Enforces,
                  Switch!DropsOthers, Switch!At, Switch!Stages, Named, OfSwitch
    <3>2. /\ Moves(r) /\ req' \in [Requests -> RequestState]
          /\ req'[r].at = at /\ req'[r].kind = req[r].kind /\ req'[r].x = req[r].x
      BY <3>1, Goes
    <3>3. req[r].kind # "none"
      BY <3>1 DEF Typed, Staged, Named
    <3> QED
      BY <3>1, <3>2, <3>3 DEF Typed, Staged
  <2>4. CASE Switch!Syncs(r) /\ ~Switch!Ends(r)
    BY <2>4, Goes DEF Typed, Staged, Switch!Stages, Switch!Syncs, Switch!At, Named, OfSwitch
  <2>5. CASE Switch!Ends(r)
    BY <2>5, Ended DEF Named, OfSwitch
  <2> QED
    BY <2>1, <2>2, <2>3, <2>4, <2>5 DEF Switch!Audits, Switch!DeleteSyncs
<1>5. Staged'
  BY <1>4, StagesStay
<1> QED
  BY <1>1, <1>2, <1>3, <1>4, <1>5 DEF Typed

\* The steps of starts and resumes, and of the bot itself.
LEMMA BotKeepsTypes ==
    ASSUME Typed, None \notin Exchanges,
           \/ \E r \in Requests : Switch!ReadsKeys(r) \/ Switch!StartPersists(r) \/ Switch!Serves(r)
           \/ Switch!Forgets \/ Switch!Stop \/ Switch!Trades
           \/ \E x \in Exchanges : Switch!MarketCloses(x)
    PROVE  Typed'
<1>1. CASE \E r \in Requests : Switch!ReadsKeys(r)
  <2>1. PICK r \in Requests : Switch!ReadsKeys(r)
    BY <1>1
  <2>2. UNCHANGED <<recent, engine, held, tracked>>
    BY <2>1 DEF Switch!ReadsKeys
  <2>3. CASE Switch!Ends(r) /\ UNCHANGED Switch!keys /\ botRunning' \in BOOLEAN
    BY <2>2, <2>3, Ended, StagesStay DEF Switch!keys, Typed, Named, OfSwitch
  <2>4. CASE /\ Moves(r) /\ req' \in [Requests -> RequestState]
             /\ req'[r].kind = req[r].kind /\ req'[r].x \in Exchanges
             /\ req'[r].at \in {"serve", "persist"}
             /\ row' \in [Exchanges -> {"none", "active", "deleted"}]
             /\ legacy' \in {req'[r].x, legacy}
             /\ UNCHANGED botRunning
    <3>1. req[r].at = "read"
      BY <2>1 DEF Switch!ReadsKeys, Switch!At
    <3>2. Staged'
      BY <2>4, <3>1, StagesStay DEF Named, OfSwitch, Typed, Staged
    <3> QED
      BY <2>2, <2>4, <3>2 DEF Typed
  <2> QED
    BY <2>1, <2>3, <2>4, ReadIs
<1>2. CASE \E r \in Requests : Switch!StartPersists(r)
  <2>1. PICK r \in Requests : Switch!StartPersists(r)
    BY <1>2
  <2>2. Staged' /\ req' \in [Requests -> RequestState]
    BY <2>1, Goes, StagesStay DEF Switch!StartPersists, Switch!At, Typed, Staged, Switch!Stages,
                                  Named, OfSwitch
  <2> QED
    BY <2>1, <2>2 DEF Typed, Switch!StartPersists, Switch!keys
<1>3. CASE \E r \in Requests : Switch!Serves(r)
  <2>1. PICK r \in Requests : Switch!Serves(r)
    BY <1>3
  <2>2. Staged' /\ req' \in [Requests -> RequestState]
    BY <2>1, Ended, StagesStay DEF Switch!Serves, Named, OfSwitch
  <2>3. req[r].x \in Exchanges
    BY <2>1 DEF Switch!Serves, Switch!At, Typed, Staged, Named
  <2> QED
    BY <2>1, <2>2, <2>3 DEF Typed, Switch!Serves, Switch!keys
<1>4. CASE Switch!Forgets
  BY <1>4 DEF Switch!Forgets, Typed, Staged, Switch!keys, Switch!bot
<1>5. CASE Switch!Stop \/ Switch!Trades \/ \E x \in Exchanges : Switch!MarketCloses(x)
  BY <1>5 DEF Switch!Stop, Switch!Trades, Switch!MarketCloses, Typed, Staged, Switch!keys
<1> QED
  BY <1>1, <1>2, <1>3, <1>4, <1>5

LEMMA NextTyped == ASSUME Typed, None \notin Exchanges, [Switch!Next]_(Switch!vars) PROVE Typed'
<1>1. CASE Switch!Next
  BY <1>1, AskingKeepsTypes, WritingKeepsTypes, BotKeepsTypes DEF Switch!Next, Switch!Step
<1>2. CASE UNCHANGED Switch!vars
  BY <1>2 DEF Switch!vars, Typed, Staged
<1> QED
  BY <1>1, <1>2
----------------------------------------------------------------------------
(* How many switches a day counts *)

\* Switches that were let past the limit and are not in the AuditLog yet.
Past == {r \in Requests : req[r].kind = "switch" /\ req[r].at # "limit"}

\* Requests one after the other.
OneByOne ==
    "concurrent" \notin world =>
        \A r, q \in Requests : req[r].at # "idle" /\ req[q].at # "idle" => r = q

\* Requests that overlap are let past the limit together.
Overlap == IF "concurrent" \in world THEN Switch!Cardinality(Requests) ELSE 1
Counted == recent + Switch!Cardinality(Past) <= MaxSwitches - 1 + Overlap

LEMMA NextOneByOne ==
    ASSUME Typed, OneByOne, None \notin Exchanges, [Switch!Next]_(Switch!vars)
    PROVE  OneByOne' /\ world' = world
<1>1. CASE \E r \in Requests :
              \/ Switch!StartBegins(r) \/ Switch!Watchdog(r)
              \/ \E x \in Exchanges :
                    \/ Switch!SwitchBegins(r, x) \/ Switch!KeysBegins(r, x)
                    \/ Switch!DeleteBegins(r, x)
  <2>1. PICK r \in Requests :
              \/ Switch!StartBegins(r) \/ Switch!Watchdog(r)
              \/ \E x \in Exchanges :
                    \/ Switch!SwitchBegins(r, x) \/ Switch!KeysBegins(r, x)
                    \/ Switch!DeleteBegins(r, x)
    BY <1>1
  <2>2. Switch!Free(r) /\ world' = world
    BY <2>1 DEF Switch!StartBegins, Switch!Watchdog, Switch!SwitchBegins, Switch!KeysBegins,
                Switch!DeleteBegins
  <2>3. Moves(r) \/ UNCHANGED req
    BY <2>1, Started DEF Switch!StartBegins, Switch!Watchdog, Switch!SwitchBegins,
                         Switch!KeysBegins, Switch!DeleteBegins, Switch!Kinds, Switch!Stages
  <2> QED
    BY <2>2, <2>3 DEF Switch!Free, Switch!Idle, OneByOne, Moves
<1>2. CASE \E r \in Requests : Switch!Step(r)
  <2>1. PICK r \in Requests : Switch!Step(r)
    BY <1>2
  <2>2. req[r].at # "idle" /\ world' = world
    BY <2>1 DEF Switch!Step, Switch!CountsSwitches, Switch!Status, Switch!Validates,
                Switch!StopsRows, Switch!Revokes, Switch!Upserts, Switch!DropsOthers, Switch!Syncs,
                Switch!Clears, Switch!Enforces, Switch!Audits, Switch!DeleteSyncs, Switch!ReadsKeys,
                Switch!StartPersists, Switch!Serves, Switch!At
  <2>3. Moves(r)
    <3>1. CASE Switch!Ends(r) \/ \E at \in Switch!Stages : Switch!Goto(r, at)
      BY <3>1, Goes, Ended
    <3>2. CASE Switch!ReadsKeys(r)
      BY <3>2, ReadIs, Ended
    <3> QED
      BY <2>1, <3>1, <3>2 DEF Switch!Step, Switch!CountsSwitches, Switch!Status, Switch!Validates,
                              Switch!StopsRows, Switch!Revokes, Switch!Upserts, Switch!DropsOthers,
                              Switch!Syncs, Switch!Clears, Switch!Enforces, Switch!Audits,
                              Switch!DeleteSyncs, Switch!StartPersists, Switch!Serves, Switch!Stages
  <2> QED
    BY <2>2, <2>3 DEF OneByOne, Moves
<1>3. CASE \/ Switch!Forgets \/ Switch!Stop \/ Switch!Trades
           \/ \E x \in Exchanges : Switch!MarketCloses(x)
           \/ UNCHANGED Switch!vars
  BY <1>3 DEF Switch!Forgets, Switch!Stop, Switch!Trades, Switch!MarketCloses, OneByOne, Switch!vars
<1> QED
  BY <1>1, <1>2, <1>3 DEF Switch!Next

\* Only the look at the limit lets a switch past it.
LEMMA PastShrinks ==
    ASSUME Typed, None \notin Exchanges, [Switch!Next]_(Switch!vars),
           ~ \E r \in Requests : Switch!CountsSwitches(r) \/ Switch!Audits(r)
    PROVE  Past' \subseteq Past /\ recent' <= recent
<1>1. CASE \E r \in Requests :
              \/ Switch!StartBegins(r) \/ Switch!Watchdog(r)
              \/ \E x \in Exchanges :
                    \/ Switch!SwitchBegins(r, x) \/ Switch!KeysBegins(r, x)
                    \/ Switch!DeleteBegins(r, x)
  <2>1. PICK r \in Requests :
              \/ Switch!StartBegins(r) \/ Switch!Watchdog(r)
              \/ \E x \in Exchanges :
                    \/ Switch!SwitchBegins(r, x) \/ Switch!KeysBegins(r, x)
                    \/ Switch!DeleteBegins(r, x)
    BY <1>1
  <2>2. recent' = recent
    BY <2>1 DEF Switch!StartBegins, Switch!Watchdog, Switch!SwitchBegins, Switch!KeysBegins,
                Switch!DeleteBegins
  <2>3. \/ UNCHANGED req
        \/ Moves(r) /\ (req'[r].kind # "switch" \/ req'[r].at = "limit")
    BY <2>1, Started DEF Switch!StartBegins, Switch!Watchdog, Switch!SwitchBegins,
                         Switch!KeysBegins, Switch!DeleteBegins, Switch!Kinds, Switch!Stages
  <2> QED
    BY <2>2, <2>3 DEF Past, Moves, Typed
<1>2. CASE \E r \in Requests : Switch!Step(r)
  <2>1. PICK r \in Requests : Switch!Step(r)
    BY <1>2
  <2>2. recent' = recent
    BY <2>1 DEF Switch!Step, Switch!CountsSwitches, Switch!Status, Switch!Validates,
                Switch!StopsRows, Switch!Revokes, Switch!Upserts, Switch!DropsOthers, Switch!Syncs,
                Switch!Clears, Switch!Enforces, Switch!DeleteSyncs, Switch!ReadsKeys,
                Switch!StartPersists, Switch!Serves, Switch!keys, Switch!bot
  <2>3. req[r].at # "limit" /\ Moves(r) /\ req'[r].kind \in {"none", req[r].kind}
    <3>1. req[r].at # "limit"
      BY <2>1 DEF Switch!Step, Switch!CountsSwitches, Switch!Status, Switch!Validates,
                  Switch!StopsRows, Switch!Revokes, Switch!Upserts, Switch!DropsOthers,
                  Switch!Syncs, Switch!Clears, Switch!Enforces, Switch!DeleteSyncs,
                  Switch!ReadsKeys, Switch!StartPersists, Switch!Serves, Switch!At
    <3>2. CASE Switch!Ends(r) \/ \E at \in Switch!Stages : Switch!Goto(r, at)
      BY <3>1, <3>2, Goes, Ended
    <3>3. CASE Switch!ReadsKeys(r)
      BY <3>1, <3>3, ReadIs, Ended
    <3> QED
      BY <2>1, <3>2, <3>3 DEF Switch!Step, Switch!CountsSwitches, Switch!Status, Switch!Validates,
                              Switch!StopsRows, Switch!Revokes, Switch!Upserts, Switch!DropsOthers,
                              Switch!Syncs, Switch!Clears, Switch!Enforces, Switch!Audits,
                              Switch!DeleteSyncs, Switch!StartPersists, Switch!Serves, Switch!Stages
  <2> QED
    BY <2>2, <2>3 DEF Past, Moves, Typed
<1>3. CASE \/ Switch!Forgets \/ Switch!Stop \/ Switch!Trades
           \/ \E x \in Exchanges : Switch!MarketCloses(x)
           \/ UNCHANGED Switch!vars
  BY <1>3 DEF Switch!Forgets, Switch!Stop, Switch!Trades, Switch!MarketCloses, Switch!vars, Past,
              Typed
<1> QED
  BY <1>1, <1>2, <1>3 DEF Switch!Next

LEMMA NextCounted ==
    ASSUME Typed, OneByOne, Counted, Switch!ExchangeSwitchAssumption, [Switch!Next]_(Switch!vars)
    PROVE  Counted'
<1>1. /\ None \notin Exchanges /\ MaxSwitches \in Nat \ {0} /\ Switch!IsFiniteSet(Requests)
      /\ world' = world /\ Typed' /\ OneByOne'
  BY NextOneByOne, NextTyped DEF Switch!ExchangeSwitchAssumption
<1>2. /\ Switch!IsFiniteSet(Past) /\ Switch!IsFiniteSet(Past') /\ Switch!Cardinality(Past) \in Nat
      /\ Switch!Cardinality(Past') \in Nat
  <2>1. Past \subseteq Requests /\ Past' \subseteq Requests
    BY DEF Past
  <2> QED
    BY <1>1, <2>1, SubsetIs, SizeIs
<1>3. recent \in Nat /\ recent' \in Nat /\ Switch!Cardinality(Requests) \in Nat
  BY <1>1, SizeIs DEF Typed
<1>4. CASE \E r \in Requests : Switch!CountsSwitches(r)
  <2>1. PICK r \in Requests : Switch!CountsSwitches(r)
    BY <1>4
  <2>2. recent' = recent
    BY <2>1 DEF Switch!CountsSwitches
  <2>3. CASE Switch!Ends(r)
    <3>1. Past' \subseteq Past
      BY <2>3, Ended DEF Past, Moves, Typed
    <3>2. Switch!Cardinality(Past') <= Switch!Cardinality(Past)
      BY <1>2, <3>1, SubsetIs
    <3> QED
      BY <1>1, <1>2, <1>3, <2>2, <3>2 DEF Counted, Overlap
  <2>4. CASE recent < MaxSwitches /\ Switch!Goto(r, "status")
    <3>1. Switch!Cardinality(Past') <= Overlap'
      <4>1. CASE "concurrent" \in world
        <5>1. Past' \subseteq Requests
          BY DEF Past
        <5> QED
          BY <1>1, <4>1, <5>1, SubsetIs DEF Overlap
      <4>2. CASE "concurrent" \notin world
        <5>1. Past' \subseteq {r}
          <6>1. req'[r].at = "status"
            BY <2>4, Goes DEF Switch!Stages
          <6>2. \A q \in Requests : req'[q].at = "idle" => req'[q].kind = "none"
            BY <1>1 DEF Typed, Staged
          <6> QED
            BY <1>1, <4>2, <6>1, <6>2 DEF Past, OneByOne
        <5>2. Switch!Cardinality(Past') <= 1
          <6>1. Switch!IsFiniteSet({r}) /\ Switch!Cardinality({r}) = 1
            BY OneIs
          <6>2. Switch!Cardinality(Past') <= Switch!Cardinality({r})
            BY <5>1, <6>1, SubsetIs
          <6> QED
            BY <6>1, <6>2
        <5> QED
          BY <1>1, <4>2, <5>2 DEF Overlap
      <4> QED
        BY <4>1, <4>2
    <3>2. Overlap' \in Nat
      BY <1>3 DEF Overlap
    <3> QED
      BY <1>1, <1>2, <1>3, <2>2, <2>4, <3>1, <3>2 DEF Counted
  <2> QED
    BY <1>1, <1>3, <2>1, <2>3, <2>4 DEF Switch!CountsSwitches
<1>5. CASE \E r \in Requests : Switch!Audits(r)
  <2>1. PICK r \in Requests : Switch!Audits(r)
    BY <1>5
  <2>2. recent' = recent + 1 /\ Switch!Ends(r) /\ r \in Past
    BY <2>1 DEF Switch!Audits, Switch!At, Past, Typed, Staged, OfSwitch
  <2>3. Past' = Past \ {r}
    BY <2>2, Ended DEF Past, Moves, Typed
  <2>4. Switch!Cardinality(Past') = Switch!Cardinality(Past) - 1
    BY <1>2, <2>2, <2>3, RemovedIs
  <2> QED
    BY <1>1, <1>2, <1>3, <2>2, <2>4 DEF Counted, Overlap
<1>6. CASE ~ \E r \in Requests : Switch!CountsSwitches(r) \/ Switch!Audits(r)
  <2>1. Past' \subseteq Past /\ recent' <= recent
    BY <1>1, <1>6, PastShrinks
  <2>2. Switch!Cardinality(Past') <= Switch!Cardinality(Past)
    BY <1>2, <2>1, SubsetIs
  <2> QED
    BY <1>1, <1>2, <1>3, <2>1, <2>2 DEF Counted, Overlap
<1> QED
  BY <1>4, <1>5, <1>6
----------------------------------------------------------------------------
(* One exchange *)

One == \A x, y \in Exchanges : row[x] = "active" /\ row[y] = "active" => x = y

\* Two are active only as long as somebody is still to drop the others.
OneInv == One \/ \E r \in Requests : req[r].at \in {"dropOthers", "enforce"}

\* A step after which nothing is active that was not before.
LEMMA NothingAdded ==
    ASSUME Typed, OneInv, NEW r \in Requests, Moves(r) \/ UNCHANGED req,
           req[r].at \notin {"dropOthers", "enforce"} \/ UNCHANGED req,
           \A y \in Exchanges : row'[y] = "active" => row[y] = "active"
    PROVE  OneInv'
BY DEF OneInv, One, Moves

LEMMA NextOneInv ==
    ASSUME Typed, OneInv, None \notin Exchanges, [Switch!Next]_(Switch!vars)
    PROVE  OneInv'
<1>1. CASE \E r \in Requests :
              \/ Switch!StartBegins(r) \/ Switch!Watchdog(r)
              \/ \E x \in Exchanges : Switch!SwitchBegins(r, x) \/ Switch!KeysBegins(r, x)
  <2>1. PICK r \in Requests :
              \/ Switch!StartBegins(r) \/ Switch!Watchdog(r)
              \/ \E x \in Exchanges : Switch!SwitchBegins(r, x) \/ Switch!KeysBegins(r, x)
    BY <1>1
  <2>2. Moves(r) /\ req[r].at = "idle" /\ row' = row
    BY <2>1, Started DEF Switch!StartBegins, Switch!Watchdog, Switch!SwitchBegins,
                         Switch!KeysBegins, Switch!Kinds, Switch!Stages, Switch!Free, Switch!keys
  <2> QED
    BY <2>2, NothingAdded
<1>2. CASE \E r \in Requests, x \in Exchanges : Switch!DeleteBegins(r, x)
  <2>1. PICK r \in Requests, x \in Exchanges : Switch!DeleteBegins(r, x)
    BY <1>2
  <2>2. Moves(r) \/ UNCHANGED req
    BY <2>1, Started DEF Switch!DeleteBegins, Switch!Kinds, Switch!Stages
  <2>3. req[r].at = "idle"
    BY <2>1 DEF Switch!DeleteBegins, Switch!Free
  <2>4. \A y \in Exchanges : row'[y] = "active" => Switch!Migrated[y] = "active"
    BY <2>1, MigratedIs DEF Switch!DeleteBegins
  <2>5. CASE Switch!Migrates
    BY <2>4, <2>5, MigratedIs DEF OneInv, One
  <2>6. CASE ~Switch!Migrates
    BY <2>2, <2>3, <2>4, <2>6, MigratedIs, NothingAdded
  <2> QED
    BY <2>5, <2>6
<1>3. CASE \E r \in Requests : Switch!Step(r)
  <2>1. PICK r \in Requests : Switch!Step(r)
    BY <1>3
  <2>2. CASE Switch!DropsOthers(r) \/ Switch!Enforces(r)
    <3>1. req[r].x \in Exchanges
      BY <2>2 DEF Switch!DropsOthers, Switch!Enforces, Switch!At, Typed, Staged, Named
    <3>2. \A y \in Exchanges : row'[y] = "active" => y = req[r].x
      BY <2>2, RevokedIs DEF Switch!DropsOthers, Switch!Enforces
    <3> QED
      BY <3>2 DEF OneInv, One
  <2>3. CASE (Switch!Upserts(r) /\ Switch!Goto(r, "dropOthers")) \/ Switch!Clears(r)
    BY <2>3, Goes DEF Switch!Clears, OneInv, Switch!Stages
  <2>4. CASE Switch!ReadsKeys(r)
    <3>1. CASE Switch!Ends(r) /\ UNCHANGED Switch!keys
      BY <2>4, <3>1, Ended, NothingAdded DEF Switch!keys, Switch!ReadsKeys, Switch!At
    <3>2. CASE \E x \in Exchanges : \A y \in Exchanges : row'[y] = "active" <=> y = x
      BY <3>2 DEF OneInv, One
    <3> QED
      BY <2>4, <3>1, <3>2, ReadIs
  <2>5. CASE \/ Switch!CountsSwitches(r) \/ Switch!Status(r) \/ Switch!Validates(r)
             \/ Switch!StopsRows(r) \/ Switch!Revokes(r)
             \/ Switch!Upserts(r) /\ Switch!Ends(r) /\ UNCHANGED row
             \/ Switch!Syncs(r) \/ Switch!Audits(r) \/ Switch!DeleteSyncs(r)
             \/ Switch!StartPersists(r) \/ Switch!Serves(r)
    <3>1. Moves(r)
      <4>1. Switch!Ends(r) \/ \E at \in Switch!Stages : Switch!Goto(r, at)
        BY <2>5 DEF Switch!CountsSwitches, Switch!Status, Switch!Validates, Switch!StopsRows,
                    Switch!Revokes, Switch!Syncs, Switch!Audits, Switch!DeleteSyncs,
                    Switch!StartPersists, Switch!Serves, Switch!Stages
      <4> QED
        BY <4>1, Goes, Ended
    <3>2. req[r].at \notin {"dropOthers", "enforce"}
      BY <2>5 DEF Switch!CountsSwitches, Switch!Status, Switch!Validates, Switch!StopsRows,
                  Switch!Revokes, Switch!Upserts, Switch!Syncs, Switch!Audits, Switch!DeleteSyncs,
                  Switch!StartPersists, Switch!Serves, Switch!At
    <3>3. \A y \in Exchanges : row'[y] = "active" => row[y] = "active"
      BY <2>5, RevokedIs DEF Switch!CountsSwitches, Switch!Status, Switch!Validates,
                             Switch!StopsRows, Switch!Revokes, Switch!Syncs, Switch!Audits,
                             Switch!DeleteSyncs, Switch!StartPersists, Switch!Serves, Switch!keys
    <3> QED
      BY <3>1, <3>2, <3>3, NothingAdded
  <2> QED
    BY <2>1, <2>2, <2>3, <2>4, <2>5 DEF Switch!Step, Switch!Upserts
<1>4. CASE \/ Switch!Forgets \/ Switch!Stop \/ Switch!Trades
           \/ \E x \in Exchanges : Switch!MarketCloses(x)
           \/ UNCHANGED Switch!vars
  BY <1>4 DEF Switch!Forgets, Switch!Stop, Switch!Trades, Switch!MarketCloses, Switch!vars,
              Switch!keys, OneInv, One
<1> QED
  BY <1>1, <1>2, <1>3, <1>4 DEF Switch!Next

LEMMA OneActive == ASSUME One PROVE Switch!OneExchange
<1>1. CASE Switch!Active = {}
  <2>1. Switch!Cardinality(Switch!Active) = 0
    BY <1>1, NoneIs, Zenon
  <2> QED
    BY <2>1 DEF Switch!OneExchange
<1>2. CASE Switch!Active # {}
  <2>1. PICK x \in Exchanges : Switch!Active = {x}
    BY <1>2 DEF Switch!Active, One
  <2>2. Switch!Cardinality(Switch!Active) = 1
    BY <2>1, OneIs, Zenon
  <2> QED
    BY <2>2 DEF Switch!OneExchange
<1> QED
  BY <1>1, <1>2
----------------------------------------------------------------------------
(* Rows, columns and engine, when requests come one by one and no key is another account's *)

Untouched == {"idle", "limit", "status", "validate", "stopRows", "revoke", "read", "persist",
              "serve"}
Switching == {"limit", "status", "validate", "stopRows", "revoke", "upsert", "dropOthers", "sync",
              "clear", "enforce", "audit"}

Settled == Switch!ColumnsFollow /\ ("delete" \notin world => Switch!KeysAreLeft)
Only(x) == \A y \in Exchanges : row[y] = "active" <=> y = x

\* How far the request has brought rows, columns and engine.
Fits(s) ==
    /\ s.at \in Untouched => Settled
    /\ s.at = "dropOthers" => row[s.x] = "active"
    /\ s.at \in {"sync", "clear", "enforce", "audit"} => Only(s.x)
    /\ s.at \in {"clear", "enforce", "audit"} => legacy = s.x
    /\ s.at \in {"persist", "serve"} => row[s.x] = "active"
    /\ s.at = "columns" => "delete" \in world
    /\ world \cap {"keys", "delete"} = {} /\ s.at \in Switching => engine = None

Traded == world \cap {"keys", "delete"} = {} => Switch!TradesWhereConnected

CalmInv ==
    Switch!Calm => /\ Traded
                   /\ Switch!Idle => Settled
                   /\ \A r \in Requests : req[r].at # "idle" => Fits(req[r])

\* The step of the one request there is.
Turn(r) == /\ Switch!Calm /\ Typed /\ Traded /\ None \notin Exchanges
           /\ One \/ req[r].at \in {"dropOthers", "enforce"}
           /\ \A q \in Requests : q # r => req[q].at = "idle"
           /\ Fits(req[r])
           /\ world' = world

\* What a look at the keys may be refused by, and what Migrates needs, in terms of rows.
LEMMA ActiveIs ==
    ASSUME Typed, None \notin Exchanges
    PROVE  /\ Switch!ColumnsFollow <=> (legacy \in Exchanges /\ row[legacy] = "active")
                                  \/ \A y \in Exchanges : row[y] # "active"
           /\ Switch!KeysAreLeft <=> \/ \E y \in Exchanges : row[y] = "active"
                                     \/ legacy # None /\ row[legacy] = "none"
           /\ Switch!TradesWhereConnected
                 <=> (engine # None => engine \in Exchanges /\ row[engine] = "active")
           /\ \A x \in Exchanges :
                 Only(x) => (Switch!ColumnsFollow <=> legacy = x) /\ Switch!KeysAreLeft
BY DEF Typed, Switch!ColumnsFollow, Switch!KeysAreLeft, Switch!Throws, Switch!Migrates,
       Switch!Active, Switch!TradesWhereConnected, Only

LEMMA ActiveNext ==
    ASSUME Typed', None \notin Exchanges
    PROVE  /\ Switch!ColumnsFollow' <=> (legacy' \in Exchanges /\ row'[legacy'] = "active")
                                   \/ \A y \in Exchanges : row'[y] # "active"
           /\ Switch!KeysAreLeft' <=> \/ \E y \in Exchanges : row'[y] = "active"
                                      \/ legacy' # None /\ row'[legacy'] = "none"
           /\ Switch!TradesWhereConnected'
                <=> (engine' # None => engine' \in Exchanges /\ row'[engine'] = "active")
           /\ \A x \in Exchanges :
                 Only(x)' => (Switch!ColumnsFollow' <=> legacy' = x) /\ Switch!KeysAreLeft'
BY DEF Typed, Switch!ColumnsFollow, Switch!KeysAreLeft, Switch!Throws, Switch!Migrates,
       Switch!Active, Switch!TradesWhereConnected, Only

\* What does not touch rows, columns and engine, at a stage that does not need them changed.
LEMMA Unmoved ==
    ASSUME NEW r \in Requests, Turn(r), UNCHANGED <<row, legacy, engine>>,
           \/ req[r].at \in Untouched \/ req'[r].at \notin Untouched,
           req'[r].at \in Untouched \cup {"upsert", "columns"},
           req'[r].at \in {"persist", "serve"} => row[req'[r].x] = "active",
           req'[r].at = "columns" => req[r].at = "columns",
           req'[r].at \in Switching => req[r].at \in Switching \/ "keys" \in world
    PROVE  Fits(req[r])' /\ Traded'
<1>1. Traded' = Traded /\ Settled' = Settled
  BY DEF Turn, Traded, Switch!TradesWhereConnected, Settled, Switch!ColumnsFollow,
         Switch!KeysAreLeft, Switch!Throws, Switch!Migrates, Switch!Active
<1> QED
  BY <1>1 DEF Turn, Fits, Untouched, Switching

LEMMA BeginsFit ==
    ASSUME NEW r \in Requests, Turn(r), Typed', req[r].at = "idle",
           \/ Switch!StartBegins(r) \/ Switch!Watchdog(r)
           \/ \E x \in Exchanges :
                 Switch!SwitchBegins(r, x) \/ Switch!KeysBegins(r, x) \/ Switch!DeleteBegins(r, x)
    PROVE  Fits(req[r])' /\ Traded'
<1>1. Settled
  BY DEF Turn, Fits, Untouched
<1>2. CASE \/ Switch!StartBegins(r) \/ Switch!Watchdog(r)
           \/ \E x \in Exchanges : Switch!KeysBegins(r, x)
  <2>1. \/ req'[r].at = "read"
        \/ "keys" \in world /\ req'[r].at = "upsert"
    BY <1>2, Started DEF Turn, Switch!StartBegins, Switch!Watchdog, Switch!KeysBegins, Switch!Kinds,
                         Switch!Stages
  <2> QED
    BY <1>2, <2>1, Unmoved DEF Switch!StartBegins, Switch!Watchdog, Switch!KeysBegins, Switch!keys,
                               Switch!bot, Untouched, Switching
<1>3. CASE \E x \in Exchanges : Switch!SwitchBegins(r, x)
  <2>1. engine' = None /\ req'[r].at = "limit" /\ UNCHANGED <<row, legacy, world>>
    BY <1>3, Started DEF Turn, Switch!SwitchBegins, Switch!Kinds, Switch!Stages, Switch!keys
  <2>2. Settled'
    BY <1>1, <2>1 DEF Settled, Switch!ColumnsFollow, Switch!KeysAreLeft, Switch!Throws,
                      Switch!Migrates, Switch!Active
  <2> QED
    BY <2>1, <2>2 DEF Fits, Traded, Switch!TradesWhereConnected
<1>4. CASE \E x \in Exchanges : Switch!DeleteBegins(r, x)
  <2>1. PICK x \in Exchanges : Switch!DeleteBegins(r, x)
    BY <1>4
  <2>2. "delete" \in world /\ UNCHANGED <<world, legacy>>
    BY <2>1 DEF Switch!DeleteBegins
  <2>3. Traded'
    BY <2>2 DEF Traded
  <2>4. CASE row' = Switch!Migrated /\ UNCHANGED req
    <3>1. Switch!ColumnsFollow'
      BY <1>1, <2>2, <2>4, MigratedIs, ActiveIs, ActiveNext DEF Turn, Settled
    <3> QED
      BY <2>2, <2>3, <2>4, <3>1 DEF Fits, Settled, Turn, Untouched
  <2>5. CASE Switch!Begins(r, "delete", "columns", x)
    <3>1. req'[r].at = "columns"
      BY <2>5, Started DEF Turn, Switch!Kinds, Switch!Stages
    <3> QED
      BY <2>2, <2>3, <3>1 DEF Fits, Untouched, Switching
  <2> QED
    BY <2>1, <2>4, <2>5 DEF Switch!DeleteBegins
<1> QED
  BY <1>2, <1>3, <1>4

\* switchExchange, saveKeys and DELETE /keys.
LEMMA WritesFit ==
    ASSUME NEW r \in Requests, Turn(r), Typed',
           \/ Switch!CountsSwitches(r) \/ Switch!Status(r) \/ Switch!Validates(r)
           \/ Switch!StopsRows(r) \/ Switch!Revokes(r)
           \/ Switch!Upserts(r) \/ Switch!DropsOthers(r) \/ Switch!Syncs(r) \/ Switch!Clears(r)
           \/ Switch!Enforces(r) \/ Switch!Audits(r)
           \/ Switch!DeleteSyncs(r)
    PROVE  Fits(req[r])' /\ Traded'
<1>1. CASE \/ Switch!CountsSwitches(r) \/ Switch!Status(r) \/ Switch!Validates(r)
           \/ Switch!StopsRows(r)
  <2>1. /\ req[r].at \in {"limit", "status", "validate", "stopRows"}
        /\ req'[r].at \in {"idle", "status", "validate", "stopRows", "revoke"}
    BY <1>1, Goes, Ended DEF Turn, Switch!CountsSwitches, Switch!Status, Switch!Validates,
                             Switch!StopsRows, Switch!At, Switch!Stages
  <2>2. UNCHANGED <<row, legacy, engine>>
    BY <1>1 DEF Switch!CountsSwitches, Switch!Status, Switch!Validates, Switch!StopsRows,
                Switch!keys, Switch!bot
  <2> QED
    BY <2>1, <2>2, Unmoved DEF Untouched, Switching
<1>2. CASE Switch!Revokes(r)
  <2>1. req[r].at = "revoke" /\ req'[r].at = "upsert" /\ UNCHANGED engine
    BY <1>2, Goes DEF Turn, Switch!Revokes, Switch!At, Switch!Stages, Switch!bot
  <2> QED
    BY <2>1, ActiveNext DEF Turn, Fits, Traded, Untouched, Switching
<1>3. CASE Switch!Upserts(r)
  <2>1. /\ Switch!Goto(r, "dropOthers") /\ row' = [row EXCEPT ![req[r].x] = "active"]
        /\ UNCHANGED engine
    BY <1>3 DEF Turn, Switch!Upserts, Switch!Calm, Switch!bot
  <2>2. /\ req[r].at = "upsert" /\ req'[r].at = "dropOthers" /\ req'[r].x = req[r].x
        /\ req[r].x \in Exchanges
    BY <1>3, <2>1, Goes DEF Turn, Switch!Upserts, Switch!At, Switch!Stages, Typed, Staged, Named
  <2>3. row'[req'[r].x] = "active"
    BY <2>1, <2>2 DEF Turn, Typed
  <2> QED
    BY <2>1, <2>2, <2>3, ActiveNext DEF Turn, Fits, Traded, Untouched, Switching
<1>4. CASE Switch!DropsOthers(r) \/ Switch!Enforces(r)
  <2>1. PICK x \in Exchanges : x = req[r].x
    BY <1>4 DEF Turn, Switch!DropsOthers, Switch!Enforces, Switch!At, Typed, Staged, Named
  <2>2. /\ \/ req[r].at = "dropOthers" /\ req'[r].at = "sync"
           \/ req[r].at = "enforce" /\ req'[r].at = "audit"
        /\ req'[r].x = x
    BY <1>4, <2>1, Goes DEF Turn, Switch!DropsOthers, Switch!Enforces, Switch!At, Switch!Stages
  <2>3. UNCHANGED <<engine, legacy>> /\ Switch!Revoked(Exchanges \ {x})
    BY <1>4, <2>1 DEF Switch!DropsOthers, Switch!Enforces, Switch!bot
  <2>4. row[x] = "active"
    BY <2>1, <2>2 DEF Turn, Fits, Only
  <2>5. Only(x)'
    BY <2>3, <2>4, RevokedIs DEF Turn, Only
  <2> QED
    BY <2>1, <2>2, <2>3, <2>5, ActiveNext DEF Turn, Fits, Traded, Untouched, Switching
<1>5. CASE Switch!Syncs(r)
  <2>1. PICK x \in Exchanges : x = req[r].x
    BY <1>5 DEF Turn, Switch!Syncs, Switch!At, Typed, Staged, Named
  <2>2. req[r].at = "sync" /\ Only(x) /\ UNCHANGED <<row, engine>>
    BY <1>5, <2>1 DEF Turn, Switch!Syncs, Switch!At, Fits, Switch!bot
  <2>3. legacy' = x /\ Only(x)'
    BY <1>5, <2>1, <2>2 DEF Switch!Syncs, Only
  <2>4. Settled'
    BY <2>3, ActiveNext DEF Turn, Settled
  <2>5. \/ req'[r].at = "clear" /\ req'[r].x = x
        \/ req'[r].at = "idle"
    BY <1>5, <2>1, Goes, Ended DEF Turn, Switch!Syncs, Switch!Stages
  <2>6. world \cap {"keys", "delete"} = {} => engine' = None
    BY <2>2 DEF Turn, Fits, Switching
  <2>7. Traded'
    BY <2>6 DEF Traded, Switch!TradesWhereConnected, Turn
  <2> QED
    BY <2>3, <2>4, <2>5, <2>6, <2>7 DEF Turn, Fits, Switching
<1>6. CASE Switch!Clears(r)
  <2>1. PICK x \in Exchanges : x = req[r].x
    BY <1>6 DEF Turn, Switch!Clears, Switch!At, Typed, Staged, Named
  <2>2. /\ req[r].at = "clear" /\ req'[r].at = "enforce" /\ req'[r].x = x
        /\ Only(x) /\ legacy = x /\ UNCHANGED <<engine, legacy>>
    BY <1>6, <2>1, Goes DEF Turn, Switch!Clears, Switch!At, Fits, Switch!bot, Switch!Stages
  <2>3. Only(x)'
    BY <1>6, <2>1, <2>2 DEF Turn, Typed, Only, Switch!Clears
  <2> QED
    BY <2>2, <2>3, ActiveNext DEF Turn, Fits, Traded, Untouched, Switching
<1>7. CASE Switch!Audits(r)
  <2>1. PICK x \in Exchanges : x = req[r].x
    BY <1>7 DEF Turn, Switch!Audits, Switch!At, Typed, Staged, Named
  <2>2. /\ req[r].at = "audit" /\ req'[r].at = "idle"
        /\ Only(x) /\ legacy = x /\ UNCHANGED <<row, engine, legacy>>
    BY <1>7, <2>1, Ended DEF Turn, Switch!Audits, Switch!At, Fits, Switch!keys, Switch!bot
  <2>3. Only(x)'
    BY <2>2 DEF Only
  <2>4. Settled'
    BY <2>2, <2>3, ActiveNext DEF Turn, Settled
  <2>5. world \cap {"keys", "delete"} = {} => engine' = None
    BY <2>2 DEF Turn, Fits, Switching
  <2> QED
    BY <2>2, <2>4, <2>5 DEF Turn, Fits, Traded, Switching, Switch!TradesWhereConnected
<1>8. CASE Switch!DeleteSyncs(r)
  <2>1. req[r].at = "columns" /\ req'[r].at = "idle" /\ UNCHANGED <<row, engine>>
    BY <1>8, Ended DEF Turn, Switch!DeleteSyncs, Switch!At, Switch!bot
  <2>2. Switch!ColumnsFollow'
    BY <1>8, <2>1 DEF Switch!DeleteSyncs, Switch!ColumnsFollow, Switch!Active
  <2>3. "delete" \in world /\ world' = world
    BY <2>1 DEF Turn, Fits
  <2> QED
    BY <2>1, <2>2, <2>3 DEF Fits, Settled, Traded, Switching
<1> QED
  BY <1>1, <1>2, <1>3, <1>4, <1>5, <1>6, <1>7, <1>8

\* The reads of a start or a resume, and the engine that comes of them.
LEMMA ReadsFit ==
    ASSUME NEW r \in Requests, Turn(r), Typed', Switch!ReadsKeys(r)
    PROVE  Fits(req[r])' /\ Traded'
<1>1. req[r].at = "read" /\ engine' = engine
  BY DEF Switch!ReadsKeys, Switch!At
<1>2. CASE Switch!Ends(r) /\ UNCHANGED Switch!keys
  <2>1. req'[r].at = "idle"
    BY <1>2, Ended DEF Turn
  <2> QED
    BY <1>1, <1>2, <2>1, Unmoved DEF Switch!keys, Untouched, Switching
<1>3. CASE \E x \in Exchanges :
              /\ req'[r].x = x /\ req'[r].at \in {"serve", "persist"}
              /\ \A y \in Exchanges : row'[y] = "active" <=> y = x
              /\ IF Switch!Active = {} THEN x = legacy ELSE x \in Switch!Active
              /\ legacy' = IF Switch!Cardinality(Switch!Active) > 1 THEN x ELSE legacy
  <2>1. PICK x \in Exchanges :
              /\ req'[r].x = x /\ req'[r].at \in {"serve", "persist"}
              /\ \A y \in Exchanges : row'[y] = "active" <=> y = x
              /\ IF Switch!Active = {} THEN x = legacy ELSE x \in Switch!Active
              /\ legacy' = IF Switch!Cardinality(Switch!Active) > 1 THEN x ELSE legacy
    BY <1>3
  <2>2. One /\ Settled
    BY <1>1 DEF Turn, Fits, Untouched
  <2>3. Only(x)'
    BY <2>1 DEF Only
  <2>4. legacy' = x
    <3>1. CASE Switch!Active = {}
      BY <2>1, <3>1, NoneIs
    <3>2. CASE Switch!Active # {}
      <4>1. legacy \in Switch!Active /\ x \in Switch!Active
        BY <2>1, <2>2, <3>2 DEF Settled, Switch!ColumnsFollow
      <4> QED
        BY <2>1, <2>2, <4>1 DEF One, Switch!Active
    <3> QED
      BY <3>1, <3>2
  <2>5. Settled'
    BY <2>3, <2>4, ActiveNext DEF Turn, Settled
  <2>6. Traded'
    <3>1. CASE world \cap {"keys", "delete"} = {} /\ engine # None
      <4>1. engine \in Switch!Active
        BY <3>1 DEF Turn, Traded, Switch!TradesWhereConnected
      <4>2. engine = x
        BY <2>1, <2>2, <4>1 DEF One, Switch!Active
      <4> QED
        BY <1>1, <2>1, <4>2, ActiveNext DEF Turn, Traded
    <3> QED
      BY <1>1, <3>1 DEF Turn, Traded, Switch!TradesWhereConnected
  <2> QED
    BY <2>1, <2>5, <2>6 DEF Fits, Switching
<1> QED
  BY <1>2, <1>3, ReadIs DEF Turn

LEMMA BotFits ==
    ASSUME NEW r \in Requests, Turn(r), Typed', Switch!StartPersists(r) \/ Switch!Serves(r)
    PROVE  Fits(req[r])' /\ Traded'
<1>1. CASE Switch!StartPersists(r)
  <2>1. /\ req[r].at = "persist" /\ req'[r].at = "serve" /\ req'[r].x = req[r].x
        /\ UNCHANGED <<row, legacy, engine>>
    BY <1>1, Goes DEF Turn, Switch!StartPersists, Switch!At, Switch!Stages, Switch!keys
  <2>2. row[req'[r].x] = "active"
    BY <2>1 DEF Turn, Fits
  <2> QED
    BY <2>1, <2>2, Unmoved DEF Untouched, Switching
<1>2. CASE Switch!Serves(r)
  <2>1. PICK x \in Exchanges : x = req[r].x
    BY <1>2 DEF Turn, Switch!Serves, Switch!At, Typed, Staged, Named
  <2>2. /\ req[r].at = "serve" /\ req'[r].at = "idle" /\ row[x] = "active"
        /\ UNCHANGED <<row, legacy>> /\ engine' \in {engine, x}
    BY <1>2, <2>1, Ended DEF Turn, Switch!Serves, Switch!At, Fits, Switch!keys
  <2>3. Settled
    BY <2>2 DEF Turn, Fits, Untouched
  <2>4. Settled'
    BY <2>2, <2>3 DEF Turn, Settled, Switch!ColumnsFollow, Switch!KeysAreLeft, Switch!Throws,
                      Switch!Migrates, Switch!Active
  <2>5. Traded'
    BY <2>2, ActiveIs, ActiveNext DEF Turn, Traded
  <2> QED
    BY <2>2, <2>4, <2>5 DEF Fits, Switching
<1> QED
  BY <1>1, <1>2

LEMMA NextCalm ==
    ASSUME Typed, OneByOne, OneInv, CalmInv, None \notin Exchanges, [Switch!Next]_(Switch!vars)
    PROVE  CalmInv'
<1>1. Typed' /\ OneByOne' /\ world' = world
  BY NextTyped, NextOneByOne
<1> SUFFICES ASSUME Switch!Calm PROVE CalmInv'
  BY <1>1 DEF CalmInv, Switch!Calm
<1>2. \A r, q \in Requests : req[r].at # "idle" /\ req[q].at # "idle" => r = q
  BY DEF OneByOne, Switch!Calm
<1>3. CASE \E r \in Requests :
              \/ Switch!Step(r) \/ Switch!StartBegins(r) \/ Switch!Watchdog(r)
              \/ \E x \in Exchanges :
                    \/ Switch!SwitchBegins(r, x) \/ Switch!KeysBegins(r, x)
                    \/ Switch!DeleteBegins(r, x)
  <2>1. PICK r \in Requests :
              \/ Switch!Step(r) \/ Switch!StartBegins(r) \/ Switch!Watchdog(r)
              \/ \E x \in Exchanges :
                    \/ Switch!SwitchBegins(r, x) \/ Switch!KeysBegins(r, x)
                    \/ Switch!DeleteBegins(r, x)
    BY <1>3
  <2>2. \/ req[r].at # "idle" /\ Switch!Step(r)
        \/ /\ Switch!Idle
           /\ \/ Switch!StartBegins(r) \/ Switch!Watchdog(r)
              \/ \E x \in Exchanges :
                    \/ Switch!SwitchBegins(r, x) \/ Switch!KeysBegins(r, x)
                    \/ Switch!DeleteBegins(r, x)
    <3>1. CASE Switch!Step(r)
      BY <3>1 DEF Switch!Step, Switch!CountsSwitches, Switch!Status, Switch!Validates,
                  Switch!StopsRows, Switch!Revokes, Switch!Upserts, Switch!DropsOthers,
                  Switch!Syncs, Switch!Clears, Switch!Enforces, Switch!Audits, Switch!DeleteSyncs,
                  Switch!ReadsKeys, Switch!StartPersists, Switch!Serves, Switch!At
    <3>2. CASE \/ Switch!StartBegins(r) \/ Switch!Watchdog(r)
               \/ \E x \in Exchanges :
                     \/ Switch!SwitchBegins(r, x) \/ Switch!KeysBegins(r, x)
                     \/ Switch!DeleteBegins(r, x)
      BY <3>2 DEF Switch!StartBegins, Switch!Watchdog, Switch!SwitchBegins, Switch!KeysBegins,
                  Switch!DeleteBegins, Switch!Free, Switch!Calm
    <3> QED
      BY <2>1, <3>1, <3>2
  <2>3. \A q \in Requests : q # r => req[q].at = "idle"
    BY <1>2, <2>2 DEF Switch!Idle
  <2>4. One \/ req[r].at \in {"dropOthers", "enforce"}
    BY <2>3 DEF OneInv
  <2>5. Fits(req[r])
    <3>1. CASE req[r].at = "idle"
      <4>1. Settled
        BY <2>3, <3>1 DEF CalmInv, Switch!Idle
      <4> QED
        BY <3>1, <4>1 DEF Fits, Switching
    <3> QED
      BY <3>1 DEF CalmInv
  <2>6. Turn(r)
    BY <1>1, <2>3, <2>4, <2>5 DEF Turn, CalmInv
  <2>7. Fits(req[r])' /\ Traded'
    <3>1. CASE req[r].at # "idle" /\ Switch!Step(r)
      BY <1>1, <2>6, <3>1, WritesFit, ReadsFit, BotFits DEF Switch!Step
    <3>2. CASE Switch!Idle /\ ~Switch!Step(r)
      BY <1>1, <2>1, <2>6, <3>2, BeginsFit DEF Switch!Idle
    <3> QED
      BY <1>1, <2>2, <2>6, <3>1, BeginsFit DEF Switch!Idle
  <2>8. Moves(r) \/ UNCHANGED req
    <3>1. CASE Switch!Ends(r) \/ \E at \in Switch!Stages : Switch!Goto(r, at)
      BY <3>1, Goes, Ended
    <3>2. CASE \E kind \in Switch!Kinds, at \in Switch!Stages, x \in Exchanges \cup {None} :
                  Switch!Begins(r, kind, at, x)
      BY <3>2, Started
    <3>3. CASE Switch!ReadsKeys(r)
      BY <3>3, ReadIs, Ended
    <3>4. CASE Switch!Step(r)
      BY <3>1, <3>3, <3>4 DEF Switch!Step, Switch!CountsSwitches, Switch!Status, Switch!Validates,
                              Switch!StopsRows, Switch!Revokes, Switch!Upserts, Switch!DropsOthers,
                              Switch!Syncs, Switch!Clears, Switch!Enforces, Switch!Audits,
                              Switch!DeleteSyncs, Switch!StartPersists, Switch!Serves, Switch!Stages
    <3>5. CASE \/ Switch!StartBegins(r) \/ Switch!Watchdog(r)
               \/ \E x \in Exchanges :
                     \/ Switch!SwitchBegins(r, x) \/ Switch!KeysBegins(r, x)
                     \/ Switch!DeleteBegins(r, x)
      BY <3>2, <3>5 DEF Switch!StartBegins, Switch!Watchdog, Switch!SwitchBegins, Switch!KeysBegins,
                        Switch!DeleteBegins, Switch!Kinds, Switch!Stages
    <3> QED
      BY <2>1, <3>4, <3>5
  <2>9. \A q \in Requests : q # r => req'[q].at = "idle"
    BY <2>3, <2>8 DEF Moves
  <2>10. Switch!Idle' => Settled'
    BY <2>7 DEF Switch!Idle, Fits, Untouched
  <2>11. \A q \in Requests : req'[q].at # "idle" => q = r
    BY <2>9
  <2> QED
    BY <2>7, <2>10, <2>11 DEF CalmInv
<1>4. CASE \/ Switch!Forgets \/ Switch!Stop \/ Switch!Trades
           \/ \E x \in Exchanges : Switch!MarketCloses(x)
           \/ UNCHANGED Switch!vars
  <2>1. UNCHANGED <<row, legacy, req>> /\ engine' \in {engine, None}
    BY <1>4 DEF Switch!Forgets, Switch!Stop, Switch!Trades, Switch!MarketCloses, Switch!vars,
                Switch!keys, Switch!bot
  <2>2. Settled' = Settled /\ Switch!Idle' = Switch!Idle
    BY <1>1, <2>1 DEF Settled, Switch!ColumnsFollow, Switch!KeysAreLeft, Switch!Throws,
                      Switch!Migrates, Switch!Active, Switch!Idle
  <2>3. Traded'
    BY <1>1, <2>1 DEF CalmInv, Traded, Switch!TradesWhereConnected, Switch!Active
  <2>4. \A r \in Requests : Fits(req[r]) => Fits(req[r])'
    BY <1>1, <2>1, <2>2 DEF Fits, Only
  <2> QED
    BY <2>1, <2>2, <2>3, <2>4 DEF CalmInv
<1> QED
  BY <1>3, <1>4 DEF Switch!Next
----------------------------------------------------------------------------
SwitchInv == Typed /\ world \in Worlds /\ OneByOne /\ Counted /\ OneInv /\ CalmInv

LEMMA SwitchInit == ASSUME Switch!ExchangeSwitchAssumption, Switch!Init PROVE SwitchInv
<1>1. PICK x \in Exchanges :
          /\ legacy = x
          /\ row \in {[y \in Exchanges |-> IF y = x THEN s ELSE "none"] : s \in {"none", "active"}}
  BY DEF Switch!Init
<1>2. PICK s \in {"none", "active"} : row = [y \in Exchanges |-> IF y = x THEN s ELSE "none"]
  BY <1>1
<1>3. \A r \in Requests : req[r].at = "idle" /\ req[r].kind = "none"
  BY DEF Switch!Init, Switch!NoRequest
<1>4. Typed
  <2>1. req \in [Requests -> RequestState]
    BY DEF Switch!Init, Switch!NoRequest, RequestState, Switch!Kinds, Switch!Stages
  <2>2. Staged
    BY <1>3 DEF Staged, Named, OfSwitch
  <2> QED
    BY <1>1, <1>2, <2>1, <2>2 DEF Switch!Init, Typed
<1>5. OneByOne
  BY <1>3 DEF OneByOne
<1>6. Counted
  <2>1. Past = {}
    BY <1>3 DEF Past
  <2>2. Switch!Cardinality(Past) = 0 /\ recent = 0
    BY <2>1, NoneIs DEF Switch!Init
  <2>3. "concurrent" \notin world => Overlap = 1
    BY DEF Overlap
  <2>4. "concurrent" \in world => Overlap = Switch!Cardinality(Requests)
    BY DEF Overlap
  <2>5. Switch!Cardinality(Requests) \in Nat /\ MaxSwitches \in Nat \ {0}
    BY SizeIs DEF Switch!ExchangeSwitchAssumption
  <2> QED
    BY <2>2, <2>3, <2>4, <2>5 DEF Counted
<1>7. OneInv
  BY <1>2 DEF OneInv, One
<1>8. CalmInv
  <2>1. None \notin Exchanges
    BY DEF Switch!ExchangeSwitchAssumption
  <2>2. Switch!ColumnsFollow /\ Switch!KeysAreLeft
    BY <1>1, <1>2, <1>4, <2>1, ActiveIs
  <2>3. engine = None
    BY DEF Switch!Init
  <2> QED
    BY <1>3, <2>2, <2>3 DEF CalmInv, Settled, Traded, Switch!TradesWhereConnected
<1> QED
  BY <1>4, <1>5, <1>6, <1>7, <1>8 DEF SwitchInv, Switch!Init

LEMMA NextSwitch ==
    ASSUME Switch!ExchangeSwitchAssumption, SwitchInv, [Switch!Next]_(Switch!vars)
    PROVE  SwitchInv'
<1>1. None \notin Exchanges
  BY DEF Switch!ExchangeSwitchAssumption
<1> QED
  BY <1>1, NextTyped, NextOneByOne, NextCounted, NextOneInv, NextCalm DEF SwitchInv
----------------------------------------------------------------------------
LEMMA SwitchTypes == ASSUME Switch!ExchangeSwitchAssumption, SwitchInv PROVE Switch!TypeOK
<1>1. /\ Switch!IsFiniteSet(Past) /\ Switch!Cardinality(Past) \in Nat
      /\ Switch!Cardinality(Requests) \in Nat
  <2>1. Switch!IsFiniteSet(Requests) /\ Past \subseteq Requests
    BY DEF Switch!ExchangeSwitchAssumption, Past
  <2> QED
    BY <2>1, SubsetIs, SizeIs
<1>2. recent \in 0..(MaxSwitches
                     + IF "concurrent" \in world THEN Switch!Cardinality(Requests) - 1 ELSE 0)
  <2>1. recent \in Nat /\ MaxSwitches \in Nat
    BY DEF SwitchInv, Typed, Switch!ExchangeSwitchAssumption
  <2>2. recent + Switch!Cardinality(Past) <= MaxSwitches - 1 + Overlap
    BY DEF SwitchInv, Counted
  <2> QED
    BY <1>1, <2>1, <2>2 DEF Overlap
<1> QED
  BY <1>2 DEF SwitchInv, Typed, Staged, Switch!TypeOK, RequestState

LEMMA SwitchAgrees == ASSUME SwitchInv PROVE Switch!Consistent
<1> SUFFICES ASSUME Switch!Idle PROVE Switch!Consistent
  BY DEF Switch!Consistent
<1>1. Switch!OneExchange
  BY OneActive DEF SwitchInv, OneInv, Switch!Idle
<1> QED
  BY <1>1 DEF SwitchInv, CalmInv, Settled, Traded, Switch!Consistent

\* Types, and the limit of a day: requests that overlap are let past it together, one after
\* the other they are not.
THEOREM SwitchTypeCorrect == Switch!ExchangeSwitchAssumption => (Switch!Spec => []Switch!TypeOK)
<1> SUFFICES ASSUME Switch!ExchangeSwitchAssumption PROVE Switch!Spec => []Switch!TypeOK
  OBVIOUS
<1>1. Switch!Init => SwitchInv
  BY SwitchInit
<1>2. SwitchInv /\ [Switch!Next]_(Switch!vars) => SwitchInv'
  BY NextSwitch
<1>3. SwitchInv => Switch!TypeOK
  BY SwitchTypes
<1> QED
  BY <1>1, <1>2, <1>3, PTL DEF Switch!Spec

\* When the requests of a user are through, however they overlapped and whichever of them
\* failed, one exchange is active at most; when they came one by one, rows, columns and engine
\* agree and a refused switch has not cost the keys.
THEOREM ExchangesAgree == Switch!ExchangeSwitchAssumption => (Switch!Spec => []Switch!Consistent)
<1> SUFFICES ASSUME Switch!ExchangeSwitchAssumption PROVE Switch!Spec => []Switch!Consistent
  OBVIOUS
<1>1. Switch!Init => SwitchInv
  BY SwitchInit
<1>2. SwitchInv /\ [Switch!Next]_(Switch!vars) => SwitchInv'
  BY NextSwitch
<1>3. SwitchInv => Switch!Consistent
  BY SwitchAgrees
<1> QED
  BY <1>1, <1>2, <1>3, PTL DEF Switch!Spec


----------------------------------------------------------------------------
(* Replay *)

Days      == [trades : 0..MaxTrades, loss : Nat, streak : 0..MaxConsec]
Positions == [open : BOOLEAN, sl : {Backtest!Stop, 3, 10}, remaining : 0..Backtest!Size,
              m : [1..2 -> BOOLEAN], age : 0..(MaxHold + 1)]
Bars      == [low : Backtest!Gains, high : Backtest!Gains, close : Backtest!Gains,
              stop : {Backtest!Stop, 3, 10}, touched : BOOLEAN, through : BOOLEAN]
Orders    == [on : BOOLEAN, ttl : -1..Ttl]

\* The gates hold while an order waits: it is an order of a retest, nothing is open beside it.
Allowed ==
    /\ cool = 0 /\ day.streak < MaxConsec /\ day.trades < MaxTrades /\ day.loss < LossLimit

\* The phases of a bar: its position first, then the order and the signal, if none is open.
PhaseInv ==
    /\ phase \in {"milestones", "exit"} => position.open
    /\ phase \in {"pending", "signal"} => ~position.open
    /\ phase = "bar" /\ position.open => position.age <= MaxHold
    /\ phase \in {"bar", "signal"} /\ pending.on => pending.ttl >= 0

PendingInv ==
    /\ pending.on => Allowed /\ "retest" \in mode
    /\ position.open => ~pending.on /\ day.streak < MaxConsec

ReplayInv == Backtest!TypeOK /\ booked \in Nat /\ PhaseInv /\ PendingInv

LEMMA ReplayBounds ==
    ASSUME Backtest!ReplayAssumption
    PROVE  /\ MaxTrades \in Nat /\ MaxTrades > 0 /\ MaxConsec \in Nat /\ MaxConsec > 0
           /\ LossLimit \in Nat /\ LossLimit > 0 /\ BarsPerDay \in Nat /\ BarsPerDay > 0
           /\ Cooldown \in Nat /\ Ttl \in Nat /\ MaxHold \in Nat
BY DEF Backtest!ReplayAssumption

\* What is flat, fresh and empty.
LEMMA StartsAre ==
    ASSUME Backtest!ReplayAssumption
    PROVE  /\ Backtest!Flat \in Positions /\ ~Backtest!Flat.open /\ Backtest!Flat.remaining = 0
           /\ Backtest!Fresh \in Positions /\ Backtest!Fresh.open
           /\ Backtest!Fresh.remaining = Backtest!Size /\ Backtest!Fresh.age = 0
           /\ Backtest!NoOrder \in Orders /\ ~Backtest!NoOrder.on
           /\ Backtest!NewDay \in Days /\ Backtest!NewDay.streak = 0 /\ Backtest!NewDay.trades = 0
           /\ Backtest!NewDay.loss = 0
           /\ Backtest!NoBar \in Bars
<1>1. /\ Backtest!Flat \in Positions /\ ~Backtest!Flat.open /\ Backtest!Flat.remaining = 0
      /\ Backtest!Flat.age = 0
  BY ReplayBounds DEF Backtest!Flat, Positions, Backtest!Size
<1>2. /\ Backtest!Fresh \in Positions /\ Backtest!Fresh.open
      /\ Backtest!Fresh.remaining = Backtest!Size /\ Backtest!Fresh.age = 0
  <2> DEFINE f == Backtest!Flat
  <2>1. Backtest!Fresh = [f EXCEPT !.open = TRUE, !.remaining = Backtest!Size]
    BY DEF Backtest!Fresh
  <2> HIDE DEF f
  <2>2. f \in Positions /\ f.age = 0
    BY <1>1 DEF f
  <2>3. Backtest!Fresh = [open |-> TRUE, sl |-> f.sl, remaining |-> Backtest!Size, m |-> f.m, age
        |-> f.age]
    BY <2>1, <2>2 DEF Positions
  <2> QED
    BY <2>2, <2>3 DEF Positions, Backtest!Size
<1>3. Backtest!NoOrder \in Orders /\ ~Backtest!NoOrder.on
  BY ReplayBounds DEF Backtest!NoOrder, Orders
<1>4. /\ Backtest!NewDay \in Days /\ Backtest!NewDay.streak = 0 /\ Backtest!NewDay.trades = 0
      /\ Backtest!NewDay.loss = 0
  BY ReplayBounds DEF Backtest!NewDay, Days
<1>5. Backtest!NoBar \in Bars
  BY DEF Backtest!NoBar, Bars, Backtest!Gains, Backtest!Stop
<1> QED
  BY <1>1, <1>2, <1>3, <1>4, <1>5

LEMMA TypeIs ==
    Backtest!TypeOK <=> /\ mode \in Modes
                        /\ phase \in {"bar", "milestones", "exit", "pending", "signal"}
                        /\ bar \in Bars /\ hour \in 0..(BarsPerDay - 1) /\ cool \in 0..Cooldown
                        /\ day \in Days /\ position \in Positions /\ pending \in Orders
                        /\ booked + position.remaining = Backtest!Size
BY DEF Backtest!TypeOK, Bars, Days, Positions, Orders

LEMMA TypeIsNext ==
    (Backtest!TypeOK <=> /\ mode \in Modes
                         /\ phase \in {"bar", "milestones", "exit", "pending", "signal"}
                         /\ bar \in Bars /\ hour \in 0..(BarsPerDay - 1) /\ cool \in 0..Cooldown
                         /\ day \in Days /\ position \in Positions /\ pending \in Orders
                         /\ booked + position.remaining = Backtest!Size)'
BY TypeIs, PTL

LEMMA CandlesAre ==
    ASSUME Backtest!TypeOK, NEW c \in Backtest!Candles
    PROVE  c \in Bars
<1> DEFINE on == pending.on
           sl == position.sl
           A == [low : Backtest!Gains, high : Backtest!Gains, close : Backtest!Gains, stop : {sl},
                 touched : {FALSE, on}, through : {FALSE}]
           B == [low : {0}, high : {0}, close : {0}, stop : {Backtest!Stop},
                 touched : {FALSE, on}, through : BOOLEAN]
<1>1. on \in BOOLEAN /\ sl \in {Backtest!Stop, 3, 10}
  BY TypeIs DEF Orders, Positions
<1>2. \/ c \in {b \in A : b.low <= b.close /\ b.close <= b.high}
      \/ c \in {b \in B : b.through => b.touched}
  BY DEF Backtest!Candles
<1> HIDE DEF A, B
<1>3. c \in A \/ c \in B
  BY <1>2
<1> HIDE DEF on, sl
<1>4. A \subseteq Bars
  BY <1>1 DEF A, Bars
<1>5. B \subseteq Bars
  BY <1>1 DEF B, Bars, Backtest!Gains
<1> QED
  BY <1>3, <1>4, <1>5

\* A milestone leaves the position open, and no larger.
LEMMA ClimbedIs ==
    ASSUME NEW p \in Positions, NEW k \in 1..2, NEW part \in Nat, NEW sl \in {3, 10}
    PROVE  /\ Backtest!Climbed(p, k, part, sl) \in Positions
           /\ Backtest!Climbed(p, k, part, sl).open = p.open
           /\ Backtest!Climbed(p, k, part, sl).age = p.age
           /\ Backtest!Climbed(p, k, part, sl).remaining <= p.remaining
<1> DEFINE c == Backtest!Climbed(p, k, part, sl)
           n == IF part < p.remaining THEN p.remaining - part ELSE p.remaining
           f == [p.m EXCEPT ![k] = TRUE]
           q == [p EXCEPT !.m = f, !.sl = sl, !.remaining = n]
<1>1. c = p \/ c = q
  BY DEF Backtest!Climbed
<1>2. n \in 0..Backtest!Size /\ n <= p.remaining
  BY DEF Positions, Backtest!Size
<1>3. f \in [1..2 -> BOOLEAN]
  BY DEF Positions
<1>0. q = [p EXCEPT !.m = f, !.sl = sl, !.remaining = n]
  OBVIOUS
<1> HIDE DEF c, n, f, q
<1>4. q = [open |-> p.open, sl |-> sl, remaining |-> n, m |-> f, age |-> p.age]
  <2>1. p = [open |-> p.open, sl |-> p.sl, remaining |-> p.remaining, m |-> p.m, age |-> p.age]
    BY DEF Positions
  <2> QED
    BY <1>0, <2>1
<1>5. q \in Positions /\ q.open = p.open /\ q.age = p.age /\ q.remaining = n
  <2>1. p.open \in BOOLEAN /\ p.age \in 0..(MaxHold + 1)
    BY DEF Positions
  <2> QED
    BY <1>2, <1>3, <1>4, <2>1 DEF Positions
<1>6. p.remaining \in Nat
  BY DEF Positions, Backtest!Size
<1> QED
  BY <1>1, <1>2, <1>5, <1>6 DEF c

\* closePosition leaves the counters of the day where they can be.
LEMMA ClosesIs ==
    ASSUME Backtest!ReplayAssumption, cool \in 0..Cooldown, NEW at \in Int, NEW size \in Nat,
           NEW taken \in Days, taken.streak < MaxConsec, Backtest!Closes(at, size, taken)
    PROVE  /\ day' \in Days /\ day'.trades = taken.trades
           /\ cool' \in 0..Cooldown /\ position' = Backtest!Flat
<1> DEFINE gain == at * size
<1>1. gain \in Int
  OBVIOUS
<1>2. /\ day' = IF gain < 0 THEN [taken EXCEPT !.loss = taken.loss - gain,
                                                !.streak = taken.streak + 1]
                ELSE [taken EXCEPT !.streak = 0]
      /\ cool' = IF gain < 0 THEN Cooldown ELSE cool
      /\ position' = Backtest!Flat
  BY DEF Backtest!Closes
<1> HIDE DEF gain
<1>3. /\ taken.trades \in 0..MaxTrades /\ taken.loss \in Nat /\ taken.streak \in 0..MaxConsec
      /\ taken = [trades |-> taken.trades, loss |-> taken.loss, streak |-> taken.streak]
  BY DEF Days
<1>4. CASE gain < 0
  <2>1. day' = [trades |-> taken.trades, loss |-> taken.loss - gain, streak |-> taken.streak + 1]
    BY <1>2, <1>3, <1>4
  <2>2. taken.loss - gain \in Nat /\ taken.streak + 1 \in 0..MaxConsec
    BY <1>1, <1>3, <1>4, ReplayBounds
  <2> QED
    BY <1>2, <1>3, <1>4, <2>1, <2>2, ReplayBounds DEF Days
<1>5. CASE ~(gain < 0)
  <2>1. day' = [trades |-> taken.trades, loss |-> taken.loss, streak |-> 0]
    BY <1>2, <1>3, <1>5
  <2> QED
    BY <1>2, <1>3, <1>5, <2>1, ReplayBounds DEF Days
<1> QED
  BY <1>4, <1>5

\* A trade is counted.
LEMMA OpenedIs ==
    ASSUME Backtest!ReplayAssumption, day \in Days, day.trades < MaxTrades
    PROVE  /\ Backtest!Opened \in Days /\ Backtest!Opened.trades = day.trades + 1
           /\ Backtest!Opened.streak = day.streak /\ Backtest!Opened.loss = day.loss
<1>1. Backtest!Opened = [trades |-> day.trades + 1, loss |-> day.loss, streak |-> day.streak]
  BY DEF Backtest!Opened, Days
<1>2. day.trades + 1 \in 0..MaxTrades
  BY ReplayBounds DEF Days
<1> QED
  BY <1>1, <1>2 DEF Days
----------------------------------------------------------------------------
(* The steps *)

\* What an entry is allowed by.
Within == Backtest!Opens => cool = 0 /\ day.streak < MaxConsec /\ day'.trades <= MaxTrades
                   /\ day.loss < LossLimit

LEMMA NextBarOK ==
    ASSUME Backtest!ReplayAssumption, ReplayInv, Backtest!NextBar
    PROVE  ReplayInv' /\ Within
<1>1. bar' \in Bars /\ hour' \in 0..(BarsPerDay - 1)
  <2>1. bar' \in Bars
    BY CandlesAre DEF Backtest!NextBar, ReplayInv
  <2>2. hour' = (hour + 1) % BarsPerDay /\ hour \in Nat
    BY TypeIs, ReplayBounds DEF Backtest!NextBar, ReplayInv
  <2> QED
    BY <2>1, <2>2, ReplayBounds
<1>2. /\ day' \in Days /\ day'.trades <= day.trades
      /\ day.streak < MaxConsec => day'.streak < MaxConsec
      /\ Allowed => day'.trades < MaxTrades /\ day'.loss < LossLimit /\ day'.streak < MaxConsec
  <2>1. day' = day \/ day' = Backtest!NewDay
    BY DEF Backtest!NextBar, Backtest!Rolled
  <2>2. day \in Days /\ day.trades \in Nat
    BY TypeIs DEF ReplayInv, Days
  <2> QED
    BY <2>1, <2>2, StartsAre, ReplayBounds DEF Allowed
<1>3. cool' \in 0..Cooldown /\ (cool = 0 => cool' = 0)
  BY TypeIs, ReplayBounds DEF Backtest!NextBar, ReplayInv
<1>4. /\ position' \in Positions /\ position'.open = position.open
      /\ position'.remaining = position.remaining
  <2>1. CASE position.open
    <3> DEFINE n == position.age + 1
    <3>1. position' = [position EXCEPT !.age = n]
      BY <2>1 DEF Backtest!NextBar
    <3>2. n \in 0..(MaxHold + 1) /\ position \in Positions
      BY <2>1, TypeIs, ReplayBounds DEF Backtest!NextBar, ReplayInv, PhaseInv, Positions
    <3> HIDE DEF n
    <3>3. position' = [open |-> position.open, sl |-> position.sl,
                       remaining |-> position.remaining, m |-> position.m, age |-> n]
      BY <3>1, <3>2 DEF Positions
    <3> QED
      BY <3>2, <3>3 DEF Positions
  <2>2. CASE ~position.open
    BY <2>2, TypeIs DEF Backtest!NextBar, ReplayInv
  <2> QED
    BY <2>1, <2>2
<1>5. pending' \in Orders /\ pending'.on = pending.on
  <2>1. CASE pending.on
    <3> DEFINE n == pending.ttl - 1
    <3>1. pending' = [pending EXCEPT !.ttl = n]
      BY <2>1 DEF Backtest!NextBar
    <3>2. n \in -1..Ttl /\ pending \in Orders
      BY <2>1, TypeIs, ReplayBounds DEF Backtest!NextBar, ReplayInv, PhaseInv, Orders
    <3> HIDE DEF n
    <3>3. pending' = [on |-> pending.on, ttl |-> n]
      BY <3>1, <3>2 DEF Orders
    <3> QED
      BY <3>2, <3>3 DEF Orders
  <2>2. CASE ~pending.on
    BY <2>2, TypeIs DEF Backtest!NextBar, ReplayInv
  <2> QED
    BY <2>1, <2>2
<1>6. /\ phase = "bar" /\ mode' = mode /\ booked' = booked
      /\ phase' = IF position.open THEN "milestones" ELSE "pending"
  BY DEF Backtest!NextBar
<1>7. Backtest!TypeOK' /\ booked' \in Nat
  BY <1>1, <1>2, <1>3, <1>4, <1>5, <1>6, TypeIs, TypeIsNext DEF ReplayInv
<1>8. PhaseInv'
  BY <1>4, <1>6 DEF PhaseInv
<1>9. PendingInv'
  BY <1>2, <1>3, <1>4, <1>5, <1>6 DEF ReplayInv, PendingInv, Allowed
<1>10. ~Backtest!Opens
  <2>1. day'.trades \in Nat /\ day.trades \in Nat
    BY <1>2, TypeIs DEF ReplayInv, Days
  <2> QED
    BY <1>2, <1>4, <2>1 DEF Backtest!Opens
<1> QED
  BY <1>7, <1>8, <1>9, <1>10 DEF ReplayInv, Within

LEMMA MilestonesOK ==
    ASSUME Backtest!ReplayAssumption, ReplayInv, Backtest!Milestones
    PROVE  ReplayInv' /\ Within
<1> DEFINE one == Backtest!Climbed(position, 1, (Backtest!Size * 2) \div 5, 3)
           two == Backtest!Climbed(one, 2,
                          Backtest!Least((Backtest!Size * 11) \div 40, (one.remaining * 9) \div 10),
                          10)
           p   == IF "partial" \in mode THEN two ELSE position
<1>1. /\ phase = "milestones" /\ phase' = "exit"
      /\ mode' = mode /\ bar' = bar /\ hour' = hour /\ day' = day /\ cool' = cool
      /\ pending' = pending
      /\ position' = p /\ booked' = booked + (position.remaining - p.remaining)
  BY DEF Backtest!Milestones
<1>2. /\ one \in Positions /\ one.open = position.open /\ one.age = position.age
      /\ one.remaining <= position.remaining
  <2>1. position \in Positions /\ (Backtest!Size * 2) \div 5 \in Nat /\ 1 \in 1..2 /\ 3 \in {3, 10}
    BY TypeIs DEF ReplayInv, Backtest!Size
  <2> QED
    BY <2>1, ClimbedIs
<1>3. /\ two \in Positions /\ two.open = position.open /\ two.remaining <= position.remaining
  <2> DEFINE part == Backtest!Least((Backtest!Size * 11) \div 40, (one.remaining * 9) \div 10)
  <2>1. one.remaining \in Nat /\ position.remaining \in Nat
    BY <1>2, TypeIs DEF ReplayInv, Positions, Backtest!Size
  <2>2. part \in Nat
    <3> HIDE DEF one
    <3> QED
      BY <2>1 DEF Backtest!Least, Backtest!Size
  <2> HIDE DEF one, part
  <2>3. 2 \in 1..2 /\ 10 \in {3, 10}
    OBVIOUS
  <2> DEFINE c == Backtest!Climbed(one, 2, part, 10)
  <2>4. c \in Positions /\ c.open = one.open /\ c.remaining <= one.remaining
    BY <1>2, <2>2, <2>3, ClimbedIs
  <2>5. c.remaining \in Nat
    BY <2>4 DEF Positions, Backtest!Size
  <2> HIDE DEF c
  <2>6. c \in Positions /\ c.open = position.open /\ c.remaining <= position.remaining
    BY <1>2, <2>1, <2>4, <2>5
  <2> QED
    BY <2>6 DEF c, part
<1> HIDE DEF one, two
<1>4. p \in Positions /\ p.open = position.open /\ p.remaining <= position.remaining
  BY <1>3, TypeIs DEF ReplayInv, Positions, Backtest!Size
<1> HIDE DEF p
<1>5. booked' \in Nat /\ booked' + p.remaining = Backtest!Size
  BY <1>1, <1>4, TypeIs DEF ReplayInv, Positions, Backtest!Size
<1>6. Backtest!TypeOK'
  BY <1>1, <1>4, <1>5, TypeIs, TypeIsNext DEF ReplayInv
<1>7. PhaseInv' /\ PendingInv'
  BY <1>1, <1>4 DEF ReplayInv, PhaseInv, PendingInv, Allowed
<1>8. ~Backtest!Opens
  <2>1. day.trades \in Nat
    BY TypeIs DEF ReplayInv, Days
  <2> QED
    BY <1>1, <1>4, <2>1 DEF Backtest!Opens
<1> QED
  BY <1>5, <1>6, <1>7, <1>8 DEF ReplayInv, Within

LEMMA ExitOK ==
    ASSUME Backtest!ReplayAssumption, ReplayInv, Backtest!Exit
    PROVE  ReplayInv' /\ Within
<1>1. /\ phase = "exit" /\ position.open /\ ~pending.on /\ day.streak < MaxConsec
      /\ mode' = mode /\ bar' = bar /\ hour' = hour /\ pending' = pending
      /\ booked' = booked + (position.remaining - position'.remaining)
      /\ phase' = IF position'.open THEN "bar" ELSE "pending"
  BY DEF Backtest!Exit, ReplayInv, PhaseInv, PendingInv
<1>2. /\ day \in Days /\ position \in Positions /\ cool \in 0..Cooldown /\ bar \in Bars
      /\ booked \in Nat /\ booked + position.remaining = Backtest!Size
  BY TypeIs DEF ReplayInv
<1>3. \/ \E at \in {bar.close, position.sl, Backtest!Target} :
            Backtest!Closes(at, position.remaining, day)
      \/ position.age <= MaxHold /\ day' = day /\ cool' = cool /\ position' = position
  <2>1. position.age \in Nat
    BY <1>2, ReplayBounds DEF Positions
  <2> QED
    BY <2>1, ReplayBounds DEF Backtest!Exit
<1>4. \A at \in {bar.close, position.sl, Backtest!Target} : at \in Int
  BY <1>2 DEF Bars, Positions, Backtest!Gains, Backtest!Stop, Backtest!Target
<1>5. /\ day' \in Days /\ day'.trades = day.trades /\ cool' \in 0..Cooldown
      /\ \/ position' = Backtest!Flat
         \/ position' = position /\ position.age <= MaxHold /\ day' = day
  <2>1. position.remaining \in Nat
    BY <1>2 DEF Positions, Backtest!Size
  <2>2. CASE \E at \in {bar.close, position.sl, Backtest!Target} :
                Backtest!Closes(at, position.remaining, day)
    <3>1. PICK at \in {bar.close, position.sl, Backtest!Target} : Backtest!Closes(at,
          position.remaining, day)
      BY <2>2
    <3>2. at \in Int
      BY <1>4
    <3> QED
      BY <1>1, <1>2, <2>1, <3>1, <3>2, ClosesIs
  <2> QED
    BY <1>2, <1>3, <2>2
<1>6. position' \in Positions /\ booked' \in Nat /\ booked' + position'.remaining = Backtest!Size
  <2>1. position' \in Positions
    BY <1>2, <1>5, StartsAre
  <2>2. position.remaining \in 0..Backtest!Size /\ position'.remaining \in 0..Backtest!Size
    BY <1>2, <2>1 DEF Positions
  <2>3. position'.remaining = 0 \/ position'.remaining = position.remaining
    BY <1>5, StartsAre
  <2> QED
    BY <1>1, <1>2, <2>1, <2>2, <2>3 DEF Backtest!Size
<1>7. Backtest!TypeOK'
  BY <1>1, <1>5, <1>6, TypeIs, TypeIsNext DEF ReplayInv
<1>8. PhaseInv' /\ PendingInv'
  BY <1>1, <1>5, StartsAre DEF PhaseInv, PendingInv
<1>9. ~Backtest!Opens
  <2>1. day.trades \in Nat
    BY <1>2 DEF Days
  <2> QED
    BY <1>1, <1>5, <2>1 DEF Backtest!Opens
<1> QED
  BY <1>6, <1>7, <1>8, <1>9 DEF ReplayInv, Within

LEMMA FillsOK ==
    ASSUME Backtest!ReplayAssumption, ReplayInv, Backtest!Fills
    PROVE  ReplayInv' /\ Within
<1>1. /\ phase = "pending" /\ ~position.open /\ Allowed
      /\ mode' = mode /\ bar' = bar /\ hour' = hour
      /\ pending' = Backtest!NoOrder /\ phase' = "bar"
  BY DEF Backtest!Fills, ReplayInv, PhaseInv, PendingInv
<1>2. /\ day \in Days /\ cool \in 0..Cooldown
  BY TypeIs DEF ReplayInv
<1>3. /\ Backtest!Opened \in Days /\ Backtest!Opened.trades = day.trades + 1
      /\ Backtest!Opened.streak = day.streak
  BY <1>1, <1>2, OpenedIs DEF Allowed
<1>4. /\ day' \in Days /\ day'.trades = day.trades + 1 /\ cool' \in 0..Cooldown
      /\ \/ position' = Backtest!Flat /\ booked' = Backtest!Size
         \/ position' = Backtest!Fresh /\ booked' = 0 /\ day'.streak = day.streak
  <2>1. CASE bar.through
    <3>1. Backtest!Closes(Backtest!Stop, Backtest!Size, Backtest!Opened) /\ booked' = Backtest!Size
      BY <2>1 DEF Backtest!Fills
    <3>2. Backtest!Stop \in Int /\ Backtest!Size \in Nat
      BY DEF Backtest!Stop, Backtest!Size
    <3> QED
      BY <1>1, <1>2, <1>3, <3>1, <3>2, ClosesIs DEF Allowed
  <2>2. CASE ~bar.through
    BY <1>2, <1>3, <2>2 DEF Backtest!Fills
  <2> QED
    BY <2>1, <2>2
<1>5. position' \in Positions /\ booked' \in Nat /\ booked' + position'.remaining = Backtest!Size
  BY <1>4, StartsAre DEF Backtest!Size
<1>6. Backtest!TypeOK'
  BY <1>1, <1>4, <1>5, StartsAre, TypeIs, TypeIsNext DEF ReplayInv
<1>7. PhaseInv' /\ PendingInv'
  <2>1. position'.open => position'.age <= MaxHold /\ day'.streak < MaxConsec
    BY <1>1, <1>4, StartsAre, ReplayBounds DEF Allowed
  <2> QED
    BY <1>1, <2>1, StartsAre DEF PhaseInv, PendingInv
<1>8. Within
  BY <1>1, <1>4 DEF Within, Allowed, Days
<1> QED
  BY <1>5, <1>6, <1>7, <1>8 DEF ReplayInv

LEMMA WaitsOK ==
    ASSUME Backtest!ReplayAssumption, ReplayInv, Backtest!Waits
    PROVE  ReplayInv' /\ Within
<1>1. /\ phase = "pending" /\ phase' = "signal"
      /\ pending' = IF pending.ttl < 0 THEN Backtest!NoOrder ELSE pending
      /\ mode' = mode /\ bar' = bar /\ hour' = hour /\ day' = day /\ cool' = cool
      /\ position' = position /\ booked' = booked
  BY DEF Backtest!Waits
<1>2. /\ pending' \in Orders /\ (pending'.on => pending.on /\ pending'.ttl >= 0)
  BY <1>1, StartsAre, TypeIs DEF ReplayInv, Orders
<1>3. Backtest!TypeOK'
  BY <1>1, <1>2, TypeIs, TypeIsNext DEF ReplayInv
<1>4. PhaseInv' /\ PendingInv'
  BY <1>1, <1>2 DEF ReplayInv, PhaseInv, PendingInv, Allowed
<1>5. ~Backtest!Opens
  <2>1. day.trades \in Nat
    BY TypeIs DEF ReplayInv, Days
  <2> QED
    BY <1>1, <2>1 DEF Backtest!Opens
<1> QED
  BY <1>1, <1>3, <1>4, <1>5 DEF ReplayInv, Within

LEMMA SignalOK ==
    ASSUME Backtest!ReplayAssumption, ReplayInv, Backtest!Signal
    PROVE  ReplayInv' /\ Within
<1>1. /\ phase = "signal" /\ ~position.open /\ Allowed /\ phase' = "bar"
      /\ mode' = mode /\ bar' = bar /\ hour' = hour /\ cool' = cool
  BY DEF Backtest!Signal, Backtest!Gates, Allowed, ReplayInv, PhaseInv
<1>2. /\ day \in Days /\ cool \in 0..Cooldown /\ position \in Positions /\ pending \in Orders
      /\ booked \in Nat /\ booked + position.remaining = Backtest!Size
  BY TypeIs DEF ReplayInv
<1>3. CASE "retest" \in mode
  <2>1. /\ pending' = [on |-> TRUE, ttl |-> Ttl]
        /\ day' = day /\ position' = position /\ booked' = booked
    BY <1>3 DEF Backtest!Signal
  <2>2. pending' \in Orders /\ pending'.ttl >= 0
    BY <2>1, ReplayBounds DEF Orders
  <2>3. Backtest!TypeOK'
    BY <1>1, <1>2, <2>1, <2>2, TypeIs, TypeIsNext DEF ReplayInv
  <2>4. PhaseInv' /\ PendingInv'
    BY <1>1, <1>3, <2>1, <2>2 DEF PhaseInv, PendingInv, Allowed
  <2>5. ~Backtest!Opens
    BY <1>1, <1>2, <2>1 DEF Backtest!Opens, Days
  <2> QED
    BY <1>2, <2>1, <2>3, <2>4, <2>5 DEF ReplayInv, Within
<1>4. CASE "retest" \notin mode
  <2>1. day' = Backtest!Opened /\ position' = Backtest!Fresh /\ booked' = 0 /\ pending' = pending
    BY <1>4 DEF Backtest!Signal
  <2>2. ~pending.on
    BY <1>4 DEF ReplayInv, PendingInv
  <2>3. /\ Backtest!Opened \in Days /\ Backtest!Opened.trades = day.trades + 1
        /\ Backtest!Opened.streak = day.streak
    BY <1>1, <1>2, OpenedIs DEF Allowed
  <2>4. booked' \in Nat /\ booked' + position'.remaining = Backtest!Size
    BY <2>1, StartsAre DEF Backtest!Size
  <2>5. Backtest!TypeOK'
    BY <1>1, <1>2, <2>1, <2>3, <2>4, StartsAre, TypeIs, TypeIsNext DEF ReplayInv
  <2>6. PhaseInv' /\ PendingInv'
    BY <1>1, <2>1, <2>2, <2>3, StartsAre, ReplayBounds DEF PhaseInv, PendingInv, Allowed
  <2>7. Within
    BY <1>1, <2>1, <2>3 DEF Within, Allowed, Days
  <2> QED
    BY <2>4, <2>5, <2>6, <2>7 DEF ReplayInv
<1> QED
  BY <1>3, <1>4

LEMMA NextReplay ==
    ASSUME Backtest!ReplayAssumption, ReplayInv, [Backtest!Next]_(Backtest!vars)
    PROVE  ReplayInv' /\ [Within]_(Backtest!vars)
<1>1. CASE Backtest!NoSignal \/ UNCHANGED Backtest!vars
  <2>1. /\ mode' = mode /\ bar' = bar /\ hour' = hour /\ day' = day /\ cool' = cool
        /\ position' = position /\ booked' = booked /\ pending' = pending
        /\ phase' = phase \/ (phase = "signal" /\ phase' = "bar")
    BY <1>1 DEF Backtest!NoSignal, Backtest!vars
  <2>2. Backtest!TypeOK'
    BY <2>1, TypeIs, TypeIsNext DEF ReplayInv
  <2>3. PhaseInv' /\ PendingInv'
    BY <2>1 DEF ReplayInv, PhaseInv, PendingInv, Allowed
  <2>4. ~Backtest!Opens
    BY <2>1, TypeIs DEF Backtest!Opens, ReplayInv, Days
  <2> QED
    BY <2>1, <2>2, <2>3, <2>4 DEF ReplayInv, Within
<1> QED
  BY <1>1, NextBarOK, MilestonesOK, ExitOK, FillsOK, WaitsOK, SignalOK DEF Backtest!Next

LEMMA StartReplay == ASSUME Backtest!ReplayAssumption, Backtest!Init PROVE ReplayInv
<1>1. Backtest!TypeOK
  BY StartsAre, TypeIs, ReplayBounds DEF Backtest!Init, Backtest!Size
<1> QED
  BY <1>1, StartsAre DEF Backtest!Init, ReplayInv, PhaseInv, PendingInv, Backtest!Size

\* A position does not outlive its time stop by more than a bar, nor an order its Ttl; the
\* trades of a position add up to its size at every moment.
THEOREM ReplayTypeCorrect == Backtest!ReplayAssumption => (Backtest!Spec => []Backtest!TypeOK)
<1> SUFFICES ASSUME Backtest!ReplayAssumption PROVE Backtest!Spec => []Backtest!TypeOK
  OBVIOUS
<1>1. Backtest!Init => ReplayInv
  BY StartReplay
<1>2. ReplayInv /\ [Backtest!Next]_(Backtest!vars) => ReplayInv'
  BY NextReplay
<1>3. ReplayInv => Backtest!TypeOK
  BY DEF ReplayInv
<1> QED
  BY <1>1, <1>2, <1>3, PTL DEF Backtest!Spec

\* A waiting order is filled without a look at the limits of the day, and they hold all the same.
THEOREM FillsAreWithinLimits ==
    Backtest!ReplayAssumption => (Backtest!Spec => Backtest!FillWithinLimits)
<1> SUFFICES ASSUME Backtest!ReplayAssumption PROVE Backtest!Spec => Backtest!FillWithinLimits
  OBVIOUS
<1>1. Backtest!Init => ReplayInv
  BY StartReplay
<1>2. ReplayInv /\ [Backtest!Next]_(Backtest!vars) => ReplayInv'
  BY NextReplay
<1>3. ReplayInv /\ [Backtest!Next]_(Backtest!vars)
         => [Backtest!Opens => cool = 0 /\ day.streak < MaxConsec /\ day'.trades <= MaxTrades
                      /\ day.loss < LossLimit]_(Backtest!vars)
  BY NextReplay DEF Within
<1> QED
  BY <1>1, <1>2, <1>3, PTL DEF Backtest!Spec, Backtest!FillWithinLimits


----------------------------------------------------------------------------
(* LegReplay *)

LegPositions == [side : {"none", "LONG", "SHORT"}, gain : -9..(Several!Target - 1), sl : {-10, 3,
      10},
              remaining : 0..Several!Size, m : 0..2, age : 0..(LegMaxHold + 1)]
Aging == [side : {"none", "LONG", "SHORT"}, gain : -9..(Several!Target - 1), sl : {-10, 3, 10},
          remaining : 0..Several!Size, m : 0..2, age : Nat]

\* The legs of a replay, and what a position can lose at its stop loss.
Members(r) == {l \in Several!All : Several!Book(l) = r}
AtStop(p)  == IF p.sl = -10 THEN 10 * p.remaining ELSE 0
AtStops(P) == [l \in Several!All |-> AtStop(P[l])]

LEMMA LegBounds ==
    ASSUME Several!LegReplayAssumption
    PROVE  /\ Legs \in Nat /\ Legs > 0 /\ MaxTrades \in Nat /\ MaxTrades > 0
           /\ MaxConsec \in Nat /\ LegLossLimit \in Nat /\ LegLossLimit > 0
           /\ LegBarsPerDay \in Nat /\ LegBarsPerDay > 0 /\ Cooldown \in Nat /\ LegMaxHold \in Nat
           /\ IsFiniteSet(Several!All)
<1>1. Legs \in Nat
  BY DEF Several!LegReplayAssumption
<1>2. IsFiniteSet(Several!All)
  BY <1>1, FS_Interval DEF Several!All
<1> QED
  BY <1>1, <1>2 DEF Several!LegReplayAssumption

LEMMA FlatIs ==
    ASSUME Several!LegReplayAssumption
    PROVE  /\ Several!Flat \in LegPositions /\ Several!Flat.side = "none"
           /\ AtStop(Several!Flat) = 0
           /\ \A side \in {"LONG", "SHORT"} :
                 Several!Opened(side) \in LegPositions /\ Several!Opened(side).side = side
<1>1. Several!Flat \in LegPositions /\ Several!Flat.side = "none" /\ Several!Flat.remaining = 0
  BY LegBounds DEF Several!Flat, LegPositions, Several!Target, Several!Size
<1>2. AtStop(Several!Flat) = 0
  BY <1>1 DEF AtStop
<1>3. ASSUME NEW side \in {"LONG", "SHORT"}
      PROVE  Several!Opened(side) \in LegPositions /\ Several!Opened(side).side = side
  <2> DEFINE o == Several!Opened(side)
             f == Several!Flat
  <2>1. o = [f EXCEPT !.side = side, !.remaining = Several!Size]
    BY DEF Several!Opened
  <2> HIDE DEF o, f
  <2>2. f \in LegPositions
    BY <1>1 DEF f
  <2>3. o = [side |-> side, gain |-> f.gain, sl |-> f.sl, remaining |-> Several!Size, m |-> f.m,
             age |-> f.age]
    BY <2>1, <2>2 DEF LegPositions
  <2>4. o \in LegPositions /\ o.side = side
    BY <2>2, <2>3, LegBounds DEF LegPositions, Several!Target, Several!Size
  <2> QED
    BY <2>4 DEF o
<1> QED
  BY <1>1, <1>2, <1>3

LEMMA LeastOf ==
    ASSUME NEW x \in Int, NEW y \in Int
    PROVE  /\ Several!Min({x, y}) = IF x < y THEN x ELSE y
           /\ Several!Max({x, y}) = IF x < y THEN y ELSE x
<1>1. \E z \in {x, y} : \A w \in {x, y} : z <= w
  OBVIOUS
<1>2. \E z \in {x, y} : \A w \in {x, y} : z >= w
  OBVIOUS
<1>3. Several!Min({x, y}) \in {x, y} /\ \A w \in {x, y} : Several!Min({x, y}) <= w
  BY <1>1 DEF Several!Min
<1>4. Several!Max({x, y}) \in {x, y} /\ \A w \in {x, y} : Several!Max({x, y}) >= w
  BY <1>2 DEF Several!Max
<1> QED
  BY <1>3, <1>4

\* checkPartialMilestones leaves a position as it is, or without risk and no larger.
LEMMA StepIs ==
    ASSUME NEW p \in Aging, NEW m \in 1..2, NEW part \in Int, part >= 0, NEW sl \in {3, 10}
    PROVE  /\ Several!Step(p, m, part, sl) \in Aging
           /\ Several!Step(p, m, part, sl).sl = sl /\ Several!Step(p, m, part, sl).m = m
           /\ Several!Step(p, m, part, sl).remaining <= p.remaining
           /\ Several!Step(p, m, part, sl).side = p.side
           /\ Several!Step(p, m, part, sl).gain = p.gain
           /\ Several!Step(p, m, part, sl).age = p.age
<1> DEFINE q == Several!Step(p, m, part, sl)
           n == IF part < p.remaining THEN p.remaining - part ELSE p.remaining
<1>0. q = [p EXCEPT !.m = m, !.sl = sl, !.remaining = n]
  BY DEF Several!Step
<1>2. p.remaining \in 0..Several!Size /\ Several!Size = 40
  BY DEF Aging, Several!Size
<1>3. n \in 0..Several!Size /\ n <= p.remaining
  BY <1>2
<1> HIDE DEF q, n
<1>1. q = [side |-> p.side, gain |-> p.gain, sl |-> sl, remaining |-> n, m |-> m, age |-> p.age]
  BY <1>0 DEF Aging
<1>4. /\ q \in Aging /\ q.sl = sl /\ q.m = m /\ q.remaining <= p.remaining
      /\ q.side = p.side /\ q.gain = p.gain /\ q.age = p.age
  BY <1>1, <1>3 DEF Aging
<1> QED
  BY <1>4 DEF q

LEMMA LegClimbs ==
    ASSUME NEW p \in Aging, NEW b \in Several!Bars
    PROVE  /\ Several!Climbed(p, b) \in Aging
           /\ Several!Climbed(p, b).side = p.side /\ Several!Climbed(p, b).gain = p.gain
           /\ Several!Climbed(p, b).age = p.age
           /\ Several!Climbed(p, b) = p \/ Several!Climbed(p, b).sl \in {3, 10}
           /\ Several!Climbed(p, b).remaining <= p.remaining
<1> DEFINE half == Several!Step(p, 1, (Several!Size * 2) \div 5, 3)
           one == IF p.m = 0 /\ Several!Best(p, b) >= 10 THEN half ELSE p
           part == Several!Min({(Several!Size * 11) \div 40, (one.remaining * 9) \div 10})
           rest == Several!Step(one, 2, part, 10)
           two == IF one.m = 1 /\ Several!Best(p, b) >= 20 THEN rest ELSE one
<1>1. (Several!Size * 2) \div 5 = 16 /\ (Several!Size * 11) \div 40 = 11
  BY DEF Several!Size
<1>2. p.remaining \in 0..40
  BY DEF Aging, Several!Size
<1>3. /\ half \in Aging /\ half.sl = 3 /\ half.remaining <= p.remaining
      /\ half.side = p.side /\ half.gain = p.gain /\ half.age = p.age
  BY <1>1, StepIs
<1> HIDE DEF half
<1>4. /\ one \in Aging /\ (one = p \/ one.sl = 3)
      /\ one.remaining <= p.remaining /\ one.remaining \in 0..40
      /\ one.side = p.side /\ one.gain = p.gain /\ one.age = p.age
  <2>1. half.remaining \in 0..40
    BY <1>3 DEF Aging, Several!Size
  <2> QED
    BY <1>2, <1>3, <2>1
<1> HIDE DEF one
<1>5. part \in Int /\ part >= 0
  <2>1. (one.remaining * 9) \div 10 \in Int /\ (one.remaining * 9) \div 10 >= 0
    BY <1>4
  <2> QED
    BY <1>1, <2>1, LeastOf
<1> HIDE DEF part
<1>6. /\ rest \in Aging /\ rest.sl = 10 /\ rest.remaining <= one.remaining
      /\ rest.side = one.side /\ rest.gain = one.gain /\ rest.age = one.age
      /\ rest.remaining \in 0..40
  <2>1. /\ rest \in Aging /\ rest.sl = 10 /\ rest.remaining <= one.remaining
        /\ rest.side = one.side /\ rest.gain = one.gain /\ rest.age = one.age
    <3>1. one \in Aging /\ 2 \in 1..2 /\ 10 \in {3, 10}
      BY <1>4
    <3> QED
      BY <1>5, <3>1, StepIs
  <2> QED
    BY <2>1 DEF Aging, Several!Size
<1> HIDE DEF rest
<1>7. /\ two \in Aging /\ (two = p \/ two.sl \in {3, 10})
      /\ two.side = p.side /\ two.gain = p.gain /\ two.age = p.age
  BY <1>2, <1>4, <1>6
<1>8. two.remaining <= p.remaining
  BY <1>2, <1>4, <1>6
<1>9. Several!Climbed(p, b) = two \/ Several!Climbed(p, b) = p
  BY DEF Several!Climbed, two, rest, part, one, half
<1> HIDE DEF two
<1> QED
  BY <1>2, <1>7, <1>8, <1>9

LEMMA SingleSum ==
    ASSUME NEW v
    PROVE  Several!SumSet({}) = 0 /\ (v \in Nat => Several!SumSet({v}) = v)
<1> DEFINE h(S) == [x \in S |-> x]
           k(S) == CHOOSE k : k = [s \in SUBSET S |->
                      IF s = {} THEN 0 ELSE OneOf(s) + k[s \ {OneOf(s)}]]
<1>1. IsFiniteSet({v}) /\ IsFiniteSet({})
  BY FS_Singleton, FS_EmptySet
<1>2. ASSUME NEW S, IsFiniteSet(S) PROVE Several!SumSet(S) = SumOf(h(S), S)
  <2>1. PICK g : IsSum(g, h(S), S)
    BY <1>2, SumExists
  <2>2. \A s \in SUBSET S : s # {} => h(S)[OneOf(s)] = OneOf(s)
    BY OneOfIs
  <2>3. g = [s \in SUBSET S |-> IF s = {} THEN 0 ELSE OneOf(s) + g[s \ {OneOf(s)}]]
    BY <2>1, <2>2 DEF IsSum
  <2>4. k(S) = [s \in SUBSET S |-> IF s = {} THEN 0 ELSE OneOf(s) + k(S)[s \ {OneOf(s)}]]
    BY <2>3
  <2>5. Several!SumSet(S) = k(S)[S]
    BY DEF Several!SumSet, Several!FoldSet, Several!MapThenFoldSet, OneOf
  <2> HIDE DEF k, h
  <2>6. IsSum(k(S), h(S), S)
    BY <2>2, <2>4 DEF IsSum
  <2> QED
    BY <1>2, <2>5, <2>6, SumMeans
<1>3. Several!SumSet({}) = 0
  BY <1>1, <1>2, SumEmpty
<1>4. ASSUME v \in Nat PROVE Several!SumSet({v}) = v
  <2>1. Several!SumSet({v}) = SumOf(h({v}), {v})
    BY <1>1, <1>2
  <2>2. Amounts(h({v}), {v}) /\ h({v})[v] = v
    BY <1>4 DEF Amounts
  <2> HIDE DEF h
  <2>3. SumOf(h({v}), {v}) = h({v})[v] + SumOf(h({v}), {v} \ {v})
    BY <1>1, <2>2, SumWithout
  <2>4. SumOf(h({v}), {v} \ {v}) = 0
    <3>1. {v} \ {v} = {}
      OBVIOUS
    <3> QED
      BY <3>1, SumEmpty, Zenon
  <2> QED
    BY <1>4, <2>1, <2>2, <2>3, <2>4
<1> QED
  BY <1>3, <1>4

\* What a bar makes of a position, as far as it does not end it, and what it loses.
Moved(l, b) == Several!Climbed(Several!Aged(l, positions[l]), b)

LEMMA BarIs ==
    ASSUME NEW b \in Several!Bars
    PROVE  /\ b.low \in Int /\ b.high \in Int /\ b.close \in Int
           /\ b.low <= b.close /\ b.close <= b.high
BY DEF Several!Bars, Several!Moves

LEMMA PositionsAre ==
    ASSUME Several!LegReplayAssumption, Several!TypeOK, NEW l \in Several!All
    PROVE  positions[l] \in LegPositions /\ Several!Book(l) \in Several!All
<1>1. positions[l] \in LegPositions
  BY DEF Several!TypeOK, LegPositions
<1>2. l \in 1..Legs /\ 1 \in 1..Legs
  BY LegBounds DEF Several!All
<1> QED
  BY <1>1, <1>2 DEF Several!Book, Several!All

LEMMA MovedIs ==
    ASSUME Several!LegReplayAssumption, Several!TypeOK,
           NEW l \in Several!All, NEW b \in Several!Bars
    PROVE  /\ Moved(l, b) \in Aging
           /\ Moved(l, b).side = positions[l].side
           /\ AtStop(Moved(l, b)) <= AtStop(positions[l])
           /\ Moved(l, b).age = IF Several!Timed(l) THEN positions[l].age + 1 ELSE positions[l].age
<1> DEFINE p == positions[l]
           q == Several!Aged(l, p)
           c == Several!Climbed(q, b)
<1>1. p \in LegPositions
  BY PositionsAre
<1> HIDE DEF p
<1>2. /\ q \in Aging /\ q.side = p.side /\ q.sl = p.sl /\ q.remaining = p.remaining
      /\ q.age = IF Several!Timed(l) THEN p.age + 1 ELSE p.age
  <2>1. CASE Several!Timed(l)
    <3>1. q = [p EXCEPT !.age = p.age + 1]
      BY <2>1 DEF Several!Aged
    <3> HIDE DEF q
    <3> QED
      BY <1>1, <2>1, <3>1, LegBounds DEF LegPositions, Aging
  <2>2. CASE ~Several!Timed(l)
    <3>1. q = p
      BY <2>2 DEF Several!Aged
    <3> HIDE DEF q
    <3> QED
      BY <1>1, <2>2, <3>1, LegBounds DEF LegPositions, Aging
  <2> QED
    BY <2>1, <2>2
<1> HIDE DEF q
<1>3. /\ c \in Aging /\ c.side = q.side /\ c.age = q.age
      /\ c = q \/ c.sl \in {3, 10}
      /\ c.remaining <= q.remaining
  BY <1>2, LegClimbs
<1> HIDE DEF c
<1>4. AtStop(c) <= AtStop(p)
  BY <1>1, <1>2, <1>3 DEF AtStop, LegPositions, Several!Size
<1>5. c \in Aging /\ c.side = p.side /\ c.age = IF Several!Timed(l) THEN p.age + 1 ELSE p.age
  BY <1>2, <1>3
<1> QED
  BY <1>4, <1>5 DEF Moved, c, q, p

\* A position that goes on stays within its stop loss, its target and its time.
LEMMA StaysIs ==
    ASSUME Several!LegReplayAssumption, Several!TypeOK,
           NEW l \in Several!All, NEW b \in Several!Bars, Several!Open(l),
           Several!Exits(l, Moved(l, b), b) = {}
    PROVE  LET new == [Moved(l, b) EXCEPT !.gain = Several!Gain(Moved(l, b), b.close)] IN
           new \in LegPositions /\ AtStop(new) = AtStop(Moved(l, b))
<1> DEFINE q == Moved(l, b)
           g == Several!Gain(q, b.close)
           new == [q EXCEPT !.gain = g]
<1>1. /\ q \in Aging /\ q.side \in {"LONG", "SHORT"}
      /\ q.age = IF Several!Timed(l) THEN positions[l].age + 1 ELSE positions[l].age
      /\ positions[l].age \in 0..(LegMaxHold + 1)
  BY MovedIs, PositionsAre DEF Several!Open, LegPositions
<1>2. /\ ~(Several!Timed(l) /\ q.age > LegMaxHold) /\ ~(Several!Worst(q, b) <= q.sl)
      /\ ~(Several!Best(q, b) >= Several!Target)
  BY DEF Several!Exits
<1> HIDE DEF q
<1>3. q.sl \in {-10, 3, 10} /\ q.gain \in Int /\ q.age \in Nat
  BY <1>1 DEF Aging
<1>4. g \in -9..(Several!Target - 1)
  <2>0. b.low \in Int /\ b.high \in Int /\ b.close \in Int /\ b.low <= b.close /\ b.close <= b.high
    BY BarIs
  <2>1. CASE q.side = "LONG"
    BY <1>2, <1>3, <2>0, <2>1 DEF Several!Gain, Several!Worst, Several!Best, Several!Target
  <2>2. CASE q.side # "LONG"
    BY <1>2, <1>3, <2>0, <2>2 DEF Several!Gain, Several!Worst, Several!Best, Several!Target
  <2> QED
    BY <2>1, <2>2
<1>5. q.age \in 0..(LegMaxHold + 1)
  <2>1. CASE Several!Timed(l)
    BY <1>2, <1>3, <2>1, LegBounds
  <2>2. CASE ~Several!Timed(l)
    BY <1>1, <2>2, LegBounds
  <2> QED
    BY <2>1, <2>2
<1> HIDE DEF g
<1>6. new \in LegPositions /\ new.sl = q.sl /\ new.remaining = q.remaining
  BY <1>1, <1>4, <1>5 DEF LegPositions, Aging
<1> HIDE DEF new
<1>7. new \in LegPositions /\ AtStop(new) = AtStop(q)
  BY <1>6 DEF AtStop
<1> QED
  BY <1>7 DEF new, g, q

LEMMA LostIs ==
    ASSUME Several!LegReplayAssumption, Several!TypeOK,
           NEW l \in Several!All, NEW b \in Several!Bars
    PROVE  /\ Several!Lost(l, Moved(l, b), b) \in Nat
           /\ "timed" \notin setup => Several!Lost(l, Moved(l, b), b) <= AtStop(Moved(l, b))
<1> DEFINE q == Moved(l, b)
           loss(g) == IF g < 0 THEN -g * q.remaining ELSE 0
<1>1. q \in Aging
  BY MovedIs
<1>2. Several!Lost(l, q, b) = Several!SumSet({loss(g) : g \in Several!Exits(l, q, b)})
  BY DEF Several!Lost
<1> HIDE DEF q
<1>3. /\ q.sl \in {-10, 3, 10} /\ q.gain \in Int /\ q.remaining \in 0..40
      /\ AtStop(q) = IF q.sl = -10 THEN 10 * q.remaining ELSE 0
  BY <1>1 DEF Aging, Several!Size, AtStop
<1>4. ASSUME NEW g \in Int PROVE loss(g) \in Nat
  <2>1. CASE g < 0
    <3>1. q.remaining \in Nat
      BY <1>3
    <3> DEFINE n == q.remaining
    <3> HIDE DEF n
    <3>2. n \in Nat => -(g * n) \in Nat
      BY <2>1
    <3> QED
      BY <2>1, <3>1, <3>2 DEF n
  <2>2. CASE ~(g < 0)
    BY <2>2
  <2> QED
    BY <2>1, <2>2
<1>5. /\ Several!Gain(q, b.close) \in Int /\ Several!Target \in Int
      /\ loss(Several!Target) = 0 /\ loss(q.sl) = AtStop(q)
  BY <1>3, BarIs DEF Several!Gain, Several!Target
<1>6. \/ Several!Exits(l, q, b) = {Several!Gain(q, b.close)} /\ "timed" \in setup
      \/ Several!Exits(l, q, b) = {q.sl}
      \/ Several!Exits(l, q, b) = {Several!Target}
      \/ Several!Exits(l, q, b) = {}
  BY DEF Several!Exits, Several!Timed
<1>7. ASSUME NEW g \in Int, Several!Exits(l, q, b) = {g} PROVE Several!Lost(l, q, b) = loss(g)
  <2>1. {loss(h) : h \in Several!Exits(l, q, b)} = {loss(g)}
    BY <1>7
  <2>2. Several!SumSet({loss(g)}) = loss(g)
    BY <1>4, SingleSum
  <2> HIDE DEF loss
  <2> QED
    BY <1>2, <2>1, <2>2, Zenon
<1>8. ASSUME Several!Exits(l, q, b) = {} PROVE Several!Lost(l, q, b) = 0
  <2>1. {loss(h) : h \in Several!Exits(l, q, b)} = {}
    BY <1>8
  <2>2. Several!SumSet({}) = 0
    BY SingleSum
  <2> HIDE DEF loss
  <2> QED
    BY <1>2, <2>1, <2>2, Zenon
<1>9. AtStop(q) \in Nat
  BY <1>3
<1> HIDE DEF loss
<1>10. /\ Several!Lost(l, q, b) \in Nat
       /\ "timed" \notin setup => Several!Lost(l, q, b) <= AtStop(q)
  <2>1. CASE Several!Exits(l, q, b) = {Several!Gain(q, b.close)} /\ "timed" \in setup
    BY <1>4, <1>5, <1>7, <2>1
  <2>2. CASE Several!Exits(l, q, b) = {q.sl}
    BY <1>3, <1>5, <1>7, <1>9, <2>2
  <2>3. CASE Several!Exits(l, q, b) = {Several!Target}
    BY <1>5, <1>7, <1>9, <2>3
  <2>4. CASE Several!Exits(l, q, b) = {}
    BY <1>8, <1>9, <2>4
  <2> QED
    BY <1>6, <2>1, <2>2, <2>3, <2>4
<1> QED
  BY <1>10 DEF q

----------------------------------------------------------------------------
(* The sums *)

RiskOf(P, M)     == Several!MapThenSumSet(LAMBDA l : Several!Max({0, -P[l].sl}) * P[l].remaining, M)
FloatOf(P, M)    == Several!MapThenSumSet(LAMBDA l : Several!Max({0, -P[l].gain}) * P[l].remaining,
      M)
LossOf(at, b, M) == Several!MapThenSumSet(LAMBDA l : Several!Lost(l, at[l], b), M)

LEMMA RiskOfIs ==
    ASSUME Several!LegReplayAssumption, NEW P \in [Several!All -> LegPositions], NEW M \in SUBSET
          Several!All
    PROVE  RiskOf(P, M) = SumOf(AtStops(P), M)
<1> DEFINE term(l) == Several!Max({0, -P[l].sl}) * P[l].remaining
           h == AtStops(P)
           k == CHOOSE k : k = [s \in SUBSET M |->
                   IF s = {} THEN 0 ELSE term(OneOf(s)) + k[s \ {OneOf(s)}]]
<1>1. IsFiniteSet(M)
  BY LegBounds, FS_Subset
<1>2. PICK g : IsSum(g, h, M)
  BY <1>1, SumExists
<1>3. ASSUME NEW l \in M PROVE h[l] = term(l)
  <2>1. P[l].sl \in {-10, 3, 10} /\ P[l].remaining \in 0..40
    BY DEF LegPositions, Several!Size
  <2>2. Several!Max({0, -P[l].sl}) = IF P[l].sl = -10 THEN 10 ELSE 0
    <3> DEFINE n == -P[l].sl
    <3>1. n \in Int /\ 0 \in Int /\ P[l].sl = -n
      BY <2>1
    <3> HIDE DEF n
    <3>2. Several!Max({0, n}) = IF 0 < n THEN n ELSE 0
      BY <3>1, LeastOf, Zenon
    <3>3. Several!Max({0, n}) = IF P[l].sl = -10 THEN 10 ELSE 0
      BY <2>1, <3>1, <3>2
    <3> QED
      BY <3>3 DEF n
  <2>3. h[l] = IF P[l].sl = -10 THEN 10 * P[l].remaining ELSE 0
    BY DEF AtStops, AtStop
  <2> QED
    BY <2>1, <2>2, <2>3
<1>4. \A s \in SUBSET M : s # {} => h[OneOf(s)] = term(OneOf(s))
  BY <1>3, OneOfIs
<1>5. RiskOf(P, M) = k[M]
  BY DEF RiskOf, Several!MapThenSumSet, Several!MapThenFoldSet, OneOf
<1> HIDE DEF h, term
<1>6. g = [s \in SUBSET M |-> IF s = {} THEN 0 ELSE term(OneOf(s)) + g[s \ {OneOf(s)}]]
  BY <1>2, <1>4 DEF IsSum
<1>7. k = [s \in SUBSET M |-> IF s = {} THEN 0 ELSE term(OneOf(s)) + k[s \ {OneOf(s)}]]
  BY <1>6
<1> HIDE DEF k
<1>8. IsSum(k, h, M)
  BY <1>4, <1>7 DEF IsSum
<1>9. k[M] = SumOf(h, M)
  BY <1>1, <1>8, SumMeans
<1> QED
  BY <1>5, <1>9 DEF h

LEMMA FloatOfIs ==
    ASSUME Several!LegReplayAssumption, NEW P \in [Several!All -> LegPositions], NEW M \in SUBSET
          Several!All
    PROVE  FloatOf(P, M) \in Nat
<1> DEFINE term(l) == Several!Max({0, -P[l].gain}) * P[l].remaining
           h == [l \in M |-> term(l)]
           k == CHOOSE k : k = [s \in SUBSET M |->
                   IF s = {} THEN 0 ELSE term(OneOf(s)) + k[s \ {OneOf(s)}]]
<1>1. IsFiniteSet(M)
  BY LegBounds, FS_Subset
<1>2. PICK g : IsSum(g, h, M)
  BY <1>1, SumExists
<1>3. ASSUME NEW l \in M PROVE h[l] = term(l) /\ term(l) \in Nat
  <2>1. P[l].gain \in Int /\ P[l].remaining \in Nat
    BY DEF LegPositions, Several!Size
  <2>2. Several!Max({0, -P[l].gain}) \in Nat
    <3> DEFINE n == -P[l].gain
    <3>1. n \in Int /\ 0 \in Int /\ P[l].gain = -n
      BY <2>1
    <3> HIDE DEF n
    <3>2. Several!Max({0, n}) = IF 0 < n THEN n ELSE 0
      BY <3>1, LeastOf, Zenon
    <3>3. Several!Max({0, n}) \in Nat
      BY <2>1, <3>1, <3>2
    <3> QED
      BY <3>3 DEF n
  <2> DEFINE x == Several!Max({0, -P[l].gain})
             y == P[l].remaining
  <2>3. x \in Nat /\ y \in Nat
    BY <2>1, <2>2
  <2> HIDE DEF x, y
  <2>4. x * y \in Nat
    BY <2>3
  <2> QED
    BY <2>4 DEF x, y
<1>4. \A s \in SUBSET M : s # {} => h[OneOf(s)] = term(OneOf(s))
  BY <1>3, OneOfIs
<1>5. FloatOf(P, M) = k[M]
  BY DEF FloatOf, Several!MapThenSumSet, Several!MapThenFoldSet, OneOf
<1>6. Amounts(h, M)
  BY <1>3 DEF Amounts
<1> HIDE DEF h, term
<1>7. g = [s \in SUBSET M |-> IF s = {} THEN 0 ELSE term(OneOf(s)) + g[s \ {OneOf(s)}]]
  BY <1>2, <1>4 DEF IsSum
<1>8. k = [s \in SUBSET M |-> IF s = {} THEN 0 ELSE term(OneOf(s)) + k[s \ {OneOf(s)}]]
  BY <1>7
<1> HIDE DEF k
<1>9. IsSum(k, h, M)
  BY <1>4, <1>8 DEF IsSum
<1> QED
  BY <1>1, <1>5, <1>6, <1>9, SumMeans, SumNat

LEMMA LossOfIs ==
    ASSUME Several!LegReplayAssumption, NEW at, NEW b, NEW M \in SUBSET Several!All
    PROVE  LossOf(at, b, M) = SumOf([l \in M |-> Several!Lost(l, at[l], b)], M)
<1> DEFINE term(l) == Several!Lost(l, at[l], b)
           h == [l \in M |-> term(l)]
           k == CHOOSE k : k = [s \in SUBSET M |->
                   IF s = {} THEN 0 ELSE term(OneOf(s)) + k[s \ {OneOf(s)}]]
<1>1. IsFiniteSet(M)
  BY LegBounds, FS_Subset
<1>2. PICK g : IsSum(g, h, M)
  BY <1>1, SumExists
<1>4. \A s \in SUBSET M : s # {} => h[OneOf(s)] = term(OneOf(s))
  BY OneOfIs
<1>5. LossOf(at, b, M) = k[M]
  BY DEF LossOf, Several!MapThenSumSet, Several!MapThenFoldSet, OneOf
<1> HIDE DEF h, term
<1>6. g = [s \in SUBSET M |-> IF s = {} THEN 0 ELSE term(OneOf(s)) + g[s \ {OneOf(s)}]]
  BY <1>2, <1>4 DEF IsSum
<1>7. k = [s \in SUBSET M |-> IF s = {} THEN 0 ELSE term(OneOf(s)) + k[s \ {OneOf(s)}]]
  BY <1>6
<1> HIDE DEF k
<1>8. IsSum(k, h, M)
  BY <1>4, <1>7 DEF IsSum
<1>9. k[M] = SumOf(h, M)
  BY <1>1, <1>8, SumMeans
<1> QED
  BY <1>5, <1>9 DEF h, term

LEMMA AtStopIs ==
    ASSUME NEW p \in LegPositions
    PROVE  AtStop(p) \in Nat /\ AtStop(p) <= Several!Risk
BY DEF AtStop, LegPositions, Several!Size, Several!Risk

LEMMA AtStopsAre ==
    ASSUME NEW P \in [Several!All -> LegPositions], NEW M \in SUBSET Several!All
    PROVE  Amounts(AtStops(P), M) /\ \A l \in M : AtStops(P)[l] = AtStop(P[l])
BY AtStopIs DEF AtStops, Amounts

\* At most one full loss of each leg is at stake.
LEMMA RiskOfAtMost ==
    ASSUME Several!LegReplayAssumption, NEW P \in [Several!All -> LegPositions], NEW M \in SUBSET
          Several!All
    PROVE  RiskOf(P, M) \in Nat /\ RiskOf(P, M) <= Several!Risk * Cardinality(M)
<1>1. IsFiniteSet(M) /\ Several!Risk \in Nat
  BY LegBounds, FS_Subset DEF Several!Risk, Several!Size
<1>2. Amounts(AtStops(P), M) /\ \A l \in M : AtStops(P)[l] <= Several!Risk
  BY AtStopsAre, AtStopIs
<1> QED
  BY <1>1, <1>2, RiskOfIs, SumAtMost, SumNat

----------------------------------------------------------------------------
(* The steps *)

LEMMA AtRiskIs ==
    \A r \in Several!All : Several!AtRisk(r) = RiskOf(positions, Members(r))
<1>1. ASSUME NEW r \in Several!All
      PROVE  Several!AtRisk(r) = RiskOf(positions, Members(r))
  BY Zenon DEF Several!AtRisk, RiskOf, Members
<1> QED
  BY <1>1

LEMMA AtRiskNext ==
    (\A r \in Several!All : Several!AtRisk(r) = RiskOf(positions, Members(r)))'
BY AtRiskIs, PTL

LEMMA AtRiskNextIs ==
    \A r \in Several!All : Several!AtRisk(r)' = RiskOf(positions', Members(r)')
BY AtRiskNext, Zenon

LEMMA MembersAre ==
    ASSUME Several!LegReplayAssumption, NEW r \in Several!All
    PROVE  Members(r) \in SUBSET Several!All /\ IsFiniteSet(Members(r)) /\ Cardinality(Members(r))
          \in Nat
<1>1. Members(r) \in SUBSET Several!All
  BY DEF Members
<1> QED
  BY <1>1, LegBounds, FS_Subset, FS_CardinalityType

LEMMA BarTerms ==
    ASSUME Several!LegReplayAssumption, Several!TypeOK, NEW b \in Several!Bars, Several!Bar(b)
    PROVE  LET at  == [l \in Several!All |-> Moved(l, b)]
               out == {l \in Several!All : Several!Open(l) /\ Several!Exits(l, at[l], b) # {}}
               bad == {l \in out : Several!Lost(l, at[l], b) > 0}
               new == time = LegBarsPerDay - 1
               base == IF new THEN [r \in Several!All |-> Several!NewDay] ELSE books IN
           /\ turn' = 1 /\ time' = (time + 1) % LegBarsPerDay /\ setup' = setup
           /\ positions' = [l \in Several!All |->
                 IF l \in out \/ ~Several!Open(l) THEN Several!Flat
                 ELSE [at[l] EXCEPT !.gain = Several!Gain(at[l], b.close)]]
           /\ books' = [r \in Several!All |-> [base[r] EXCEPT !.loss =
                        base[r].loss + LossOf(at, b, {l \in bad : Several!Book(l) = r})]]
           /\ streak' = [l \in Several!All |-> IF l \in bad THEN (IF new THEN 0 ELSE streak[l]) + 1
                                       ELSE IF l \in out \/ new THEN 0 ELSE streak[l]]
           /\ pause' = [l \in Several!All |-> IF l \in bad THEN Cooldown
                                             ELSE Several!Max({pause[l] - 1, 0})]
BY Zenon DEF Several!Bar, Moved, LossOf

\* The steps of the counters of each leg.
LEMMA CoolIs ==
    ASSUME Several!LegReplayAssumption, NEW c \in 0..Cooldown
    PROVE  Several!Max({c - 1, 0}) \in 0..Cooldown
<1> DEFINE n == c - 1
<1>1. n \in Int /\ 0 \in Int /\ n <= Cooldown
  BY LegBounds
<1> HIDE DEF n
<1>2. Several!Max({n, 0}) = IF n < 0 THEN 0 ELSE n
  BY <1>1, LeastOf, Zenon
<1>3. Several!Max({n, 0}) \in 0..Cooldown
  BY <1>1, <1>2, LegBounds
<1> QED
  BY <1>3 DEF n

\* A bar loses no more than was at stake.
LEMMA BarLeg ==
    ASSUME Several!LegReplayAssumption, Several!TypeOK, NEW b \in Several!Bars, Several!Bar(b)
    PROVE  /\ Several!TypeOK'
           /\ "timed" \notin setup => \A r \in Several!All :
                 \/ books'[r].loss + Several!AtRisk(r)' <= books[r].loss + Several!AtRisk(r)
                 \/ books'[r].loss + Several!AtRisk(r)' <= Several!AtRisk(r)
<1> DEFINE at  == [l \in Several!All |-> Moved(l, b)]
           out == {l \in Several!All : Several!Open(l) /\ Several!Exits(l, at[l], b) # {}}
           bad == {l \in out : Several!Lost(l, at[l], b) > 0}
           new == time = LegBarsPerDay - 1
           base == IF new THEN [r \in Several!All |-> Several!NewDay] ELSE books
           M(r) == {l \in bad : Several!Book(l) = r}
           loss(r) == LossOf(at, b, M(r))
           part == [l \in Several!All |-> IF l \in bad THEN Several!Lost(l, at[l], b) ELSE 0]
<1>1. /\ turn' = 1 /\ time' = (time + 1) % LegBarsPerDay /\ setup' = setup
      /\ positions' = [l \in Several!All |-> IF l \in out \/ ~Several!Open(l) THEN Several!Flat
                                     ELSE [at[l] EXCEPT !.gain = Several!Gain(at[l], b.close)]]
      /\ books' = [r \in Several!All |-> [base[r] EXCEPT !.loss = base[r].loss + loss(r)]]
      /\ streak' = [l \in Several!All |-> IF l \in bad THEN (IF new THEN 0 ELSE streak[l]) + 1
                                  ELSE IF l \in out \/ new THEN 0 ELSE streak[l]]
      /\ pause' = [l \in Several!All |-> IF l \in bad THEN Cooldown
                                        ELSE Several!Max({pause[l] - 1, 0})]
  BY BarTerms
<1>2. ASSUME NEW l \in Several!All
      PROVE  /\ Several!Lost(l, at[l], b) \in Nat /\ part[l] \in Nat
             /\ part[l] <= Several!Lost(l, at[l], b)
             /\ positions'[l] \in LegPositions
             /\ "timed" \notin setup => part[l] + AtStop(positions'[l]) <= AtStop(positions[l])
  <2>1. Several!Lost(l, at[l], b) \in Nat
    BY LostIs
  <2>2. part[l] = IF l \in bad THEN Several!Lost(l, at[l], b) ELSE 0
    OBVIOUS
  <2>3. AtStop(at[l]) <= AtStop(positions[l]) /\ at[l] \in Aging
    BY MovedIs
  <2>4. AtStop(positions[l]) \in Nat
    BY PositionsAre, AtStopIs
  <2>5. AtStop(at[l]) \in Nat
    BY <2>3 DEF Aging, AtStop, Several!Size
  <2>6. CASE l \in out \/ ~Several!Open(l)
    <3>1. positions'[l] = Several!Flat
      BY <1>1, <2>6
    <3>2. Several!Flat \in LegPositions /\ AtStop(Several!Flat) = 0
      BY FlatIs
    <3>3. "timed" \notin setup => Several!Lost(l, at[l], b) <= AtStop(at[l])
      BY LostIs
    <3> HIDE DEF part, at, bad, out
    <3> QED
      BY <2>1, <2>2, <2>3, <2>4, <2>5, <3>1, <3>2, <3>3
  <2>7. CASE ~(l \in out \/ ~Several!Open(l))
    <3>1. positions'[l] = [at[l] EXCEPT !.gain = Several!Gain(at[l], b.close)]
      BY <1>1, <2>7
    <3>2. Several!Open(l) /\ Several!Exits(l, at[l], b) = {} /\ l \notin bad
      BY <2>7
    <3>3. /\ [at[l] EXCEPT !.gain = Several!Gain(at[l], b.close)] \in LegPositions
          /\ AtStop([at[l] EXCEPT !.gain = Several!Gain(at[l], b.close)]) = AtStop(at[l])
      BY <3>2, StaysIs
    <3>4. positions'[l] \in LegPositions /\ AtStop(positions'[l]) = AtStop(at[l])
      BY <3>1, <3>3
    <3> HIDE DEF part, at, bad, out
    <3> QED
      BY <2>1, <2>2, <2>3, <2>4, <2>5, <3>2, <3>4
  <2> QED
    BY <2>6, <2>7
<1>3. positions' \in [Several!All -> LegPositions] /\ positions \in [Several!All -> LegPositions]
  BY <1>1, <1>2, PositionsAre DEF Several!TypeOK
<1>4. bad \subseteq Several!All /\ \A r \in Several!All : M(r) \in SUBSET Members(r)
  BY DEF Members
<1>5. \A l \in bad : part[l] = Several!Lost(l, at[l], b)
  <2> HIDE DEF bad, at
  <2> QED
    BY <1>4
<1>6. ASSUME NEW r \in Several!All
      PROVE  loss(r) = SumOf(part, M(r)) /\ loss(r) \in Nat /\ loss(r) <= SumOf(part, Members(r))
  <2> DEFINE h == [l \in M(r) |-> Several!Lost(l, at[l], b)]
  <2>1. M(r) \in SUBSET Several!All /\ IsFiniteSet(M(r)) /\ M(r) \subseteq bad
    BY <1>4, LegBounds, FS_Subset
  <2>2. loss(r) = SumOf(h, M(r))
    BY <2>1, LossOfIs
  <2>3. \A l \in M(r) : h[l] = part[l]
    BY <1>5, <2>1
  <2> HIDE DEF part, at, M, bad, h, loss
  <2>4. Amounts(part, Members(r)) /\ Amounts(part, M(r)) /\ Amounts(h, M(r))
    BY <1>2, <2>1, <2>3, MembersAre DEF Amounts
  <2>5. SumOf(h, M(r)) = SumOf(part, M(r))
    BY <2>1, <2>3, <2>4, SumSame
  <2>6. SumOf(part, M(r)) <= SumOf(part, Members(r)) /\ SumOf(part, M(r)) \in Nat
    BY <1>4, <2>1, <2>4, MembersAre, SumWithin, SumNat
  <2> QED
    BY <2>2, <2>5, <2>6
<1>7. ASSUME NEW r \in Several!All
      PROVE  /\ base[r] \in [trades : 0..MaxTrades, loss : Nat]
             /\ base[r].loss = 0 \/ base[r].loss = books[r].loss
  BY LegBounds DEF Several!TypeOK, Several!NewDay
<1>8. ASSUME NEW r \in Several!All
      PROVE  /\ books'[r] \in [trades : 0..MaxTrades, loss : Nat]
             /\ books'[r].loss = base[r].loss + loss(r)
  <2> DEFINE d == base[r]
             n == d.loss + loss(r)
  <2>1. books'[r] = [d EXCEPT !.loss = n]
    BY <1>1
  <2>2. d \in [trades : 0..MaxTrades, loss : Nat] /\ loss(r) \in Nat
    BY <1>6, <1>7
  <2> HIDE DEF base, loss, d
  <2>3. n \in Nat
    BY <2>2
  <2> HIDE DEF n
  <2>4. books'[r] = [trades |-> d.trades, loss |-> n]
    BY <2>1, <2>2
  <2>5. books'[r] \in [trades : 0..MaxTrades, loss : Nat] /\ books'[r].loss = n
    BY <2>2, <2>3, <2>4
  <2> QED
    BY <2>5 DEF n, d
<1>9. Several!TypeOK'
  <2>1. turn' \in 0..Legs /\ time' \in 0..(LegBarsPerDay - 1) /\ setup' \in LegModes
    <3>1. time \in Nat /\ (time + 1) % LegBarsPerDay \in 0..(LegBarsPerDay - 1)
      BY LegBounds DEF Several!TypeOK
    <3> QED
      BY <1>1, <3>1, LegBounds DEF Several!TypeOK
  <2>2. streak' \in [Several!All -> Nat]
    <3>1. \A l \in Several!All : streak[l] \in Nat
      BY DEF Several!TypeOK
    <3> HIDE DEF bad, out, new
    <3> QED
      BY <1>1, <3>1
  <2>3. pause' \in [Several!All -> 0..Cooldown]
    <3>1. \A l \in Several!All : Several!Max({pause[l] - 1, 0}) \in 0..Cooldown
      BY CoolIs DEF Several!TypeOK
    <3> HIDE DEF bad
    <3> QED
      BY <1>1, <3>1, LegBounds
  <2>4. books' \in [Several!All -> [trades : 0..MaxTrades, loss : Nat]]
    <3> HIDE DEF base, loss
    <3> QED
      BY <1>1, <1>8
  <2> QED
    BY <1>3, <2>1, <2>2, <2>3, <2>4 DEF Several!TypeOK, LegPositions
<1>10. ASSUME "timed" \notin setup, NEW r \in Several!All
       PROVE  books'[r].loss + Several!AtRisk(r)' <= base[r].loss + Several!AtRisk(r)
  <2> DEFINE S == Members(r)
             t == [l \in Several!All |-> part[l] + AtStops(positions')[l]]
  <2>1. S \in SUBSET Several!All /\ IsFiniteSet(S)
    BY MembersAre
  <2>2. Members(r)' = S
    BY <1>1 DEF Members, Several!Book
  <2>3. /\ Several!AtRisk(r) = SumOf(AtStops(positions), S)
        /\ Several!AtRisk(r)' = SumOf(AtStops(positions'), S)
    BY <1>3, <2>1, <2>2, AtRiskIs, AtRiskNextIs, RiskOfIs
  <2> HIDE DEF part
  <2>4. /\ Amounts(part, S) /\ Amounts(AtStops(positions), S) /\ Amounts(AtStops(positions'), S)
        /\ \A l \in S : AtStops(positions)[l] = AtStop(positions[l])
        /\ \A l \in S : AtStops(positions')[l] = AtStop(positions'[l])
    BY <1>2, <1>3, <2>1, AtStopsAre DEF Amounts
  <2>5. \A l \in S : t[l] = part[l] + AtStops(positions')[l]
    BY <2>1
  <2> HIDE DEF t
  <2>6. SumOf(t, S) = SumOf(part, S) + SumOf(AtStops(positions'), S)
    BY <2>1, <2>4, <2>5, SumPlus
  <2>7. Amounts(t, S) /\ \A l \in S : t[l] <= AtStops(positions)[l]
    BY <1>2, <1>10, <2>1, <2>4, <2>5 DEF Amounts
  <2>8. SumOf(t, S) <= SumOf(AtStops(positions), S)
    BY <2>1, <2>4, <2>7, SumLess
  <2>9. /\ SumOf(part, S) \in Nat /\ SumOf(AtStops(positions'), S) \in Nat
        /\ SumOf(AtStops(positions), S) \in Nat
    BY <2>1, <2>4, SumNat
  <2>10. loss(r) \in Nat /\ loss(r) <= SumOf(part, S) /\ base[r].loss \in Nat
    BY <1>6, <1>7
  <2>11. books'[r].loss = base[r].loss + loss(r)
    BY <1>8
  <2> HIDE DEF base, loss, S
  <2> QED
    BY <2>3, <2>6, <2>8, <2>9, <2>10, <2>11
<1>11. \A r \in Several!All : Several!AtRisk(r) \in Nat /\ Several!AtRisk(r)' \in Nat
  <2>1. \A r \in Several!All : Members(r)' = Members(r)
    BY <1>1 DEF Members, Several!Book
  <2> QED
    BY <1>3, <2>1, AtRiskIs, AtRiskNextIs, MembersAre, RiskOfAtMost
<1> HIDE DEF base
<1> QED
  BY <1>7, <1>9, <1>10, <1>11

\* The books and the limits that the gates look at.
LEMMA BookIs ==
    ASSUME Several!LegReplayAssumption, NEW l \in Several!All
    PROVE  Several!Book(l) \in Several!All /\ l \in Members(Several!Book(l))
BY LegBounds DEF Several!All, Several!Book, Members

LEMMA FloatingIs ==
    ASSUME NEW l \in Several!All
    PROVE  Several!Floating(l) = FloatOf(positions, Members(Several!Book(l)))
BY Zenon DEF Several!Floating, FloatOf, Members

LEMMA TurnIs ==
    ASSUME Several!LegReplayAssumption, turn \in 0..Legs, Several!Turn
    PROVE  turn' \in 0..Legs
BY LegBounds DEF Several!Turn

\* An entry puts one full loss at stake, in the replay whose limits let it through.
LEMMA OpensLeg ==
    ASSUME Several!LegReplayAssumption, Several!TypeOK, NEW side \in {"LONG", "SHORT"},
          Several!Opens(side)
    PROVE  /\ Several!TypeOK'
           /\ \A r \in Several!All :
                 \/ books'[r].loss = books[r].loss /\ Several!AtRisk(r)' = Several!AtRisk(r)
                 \/ books'[r].loss < LegLossLimit
<1> DEFINE b == Several!Book(turn)
<1>1. turn \in Several!All /\ b \in Several!All
  BY BookIs DEF Several!TypeOK, Several!Opens, Several!All
<1>2. /\ Several!Gates(turn) /\ Several!Turn
      /\ positions' = [positions EXCEPT ![turn] = Several!Opened(side)]
      /\ books' = [books EXCEPT ![b].trades = books[b].trades + 1]
      /\ setup' = setup /\ time' = time /\ streak' = streak /\ pause' = pause
  BY DEF Several!Opens
<1>3. books[b] \in [trades : 0..MaxTrades, loss : Nat]
  BY <1>1 DEF Several!TypeOK
<1>4. books[b].trades < MaxTrades /\ books[b].loss + Several!Floating(turn) < LegLossLimit
  BY <1>2 DEF Several!Gates
<1>5. positions \in [Several!All -> LegPositions]
  BY DEF Several!TypeOK, LegPositions
<1>6. books[b].loss < LegLossLimit
  <2>1. Members(b) \in SUBSET Several!All
    BY <1>1, MembersAre
  <2>2. FloatOf(positions, Members(b)) \in Nat
    BY <1>5, <2>1, FloatOfIs
  <2>3. Several!Floating(turn) \in Nat
    BY <1>1, <2>2, FloatingIs
  <2> HIDE DEF b
  <2> QED
    BY <1>3, <1>4, <2>3, LegBounds
<1> HIDE DEF b
<1>7. positions' \in [Several!All -> LegPositions] /\ \A l \in Several!All :
                                                         l # turn => positions'[l] = positions[l]
  BY <1>1, <1>2, <1>5, FlatIs
<1>8. /\ books'[b] = [trades |-> books[b].trades + 1, loss |-> books[b].loss]
      /\ \A r \in Several!All : r # b => books'[r] = books[r]
      /\ books' \in [Several!All -> [trades : 0..MaxTrades, loss : Nat]]
  <2> DEFINE d == books[b]
             e == [d EXCEPT !.trades = d.trades + 1]
  <2>1. books' = [books EXCEPT ![b] = e]
    BY <1>2
  <2>2. e = [trades |-> d.trades + 1, loss |-> d.loss]
    BY <1>3
  <2>3. e \in [trades : 0..MaxTrades, loss : Nat]
    BY <1>3, <1>4, <2>2, LegBounds
  <2> HIDE DEF e
  <2>4. books \in [Several!All -> [trades : 0..MaxTrades, loss : Nat]]
    BY DEF Several!TypeOK
  <2> QED
    BY <1>1, <2>1, <2>2, <2>3, <2>4
<1>9. Several!TypeOK'
  BY <1>2, <1>7, <1>8, TurnIs DEF Several!TypeOK, LegPositions
<1>10. ASSUME NEW r \in Several!All, r # b
       PROVE  books'[r].loss = books[r].loss /\ Several!AtRisk(r)' = Several!AtRisk(r)
  <2> DEFINE S == Members(r)
  <2>1. S \in SUBSET Several!All /\ IsFiniteSet(S)
    BY MembersAre
  <2>2. Members(r)' = S
    BY <1>2 DEF Members, Several!Book
  <2>3. /\ Several!AtRisk(r) = SumOf(AtStops(positions), S)
        /\ Several!AtRisk(r)' = SumOf(AtStops(positions'), S)
    BY <1>5, <1>7, <2>1, <2>2, AtRiskIs, AtRiskNextIs, RiskOfIs
  <2>4. turn \notin S
    BY <1>10 DEF Members, b
  <2> HIDE DEF S
  <2>5. /\ Amounts(AtStops(positions), S)
        /\ \A l \in S : AtStops(positions)[l] = AtStop(positions[l])
        /\ \A l \in S : AtStops(positions')[l] = AtStop(positions'[l])
    BY <1>5, <1>7, <2>1, AtStopsAre
  <2>6. \A l \in S : AtStops(positions)[l] = AtStops(positions')[l]
    BY <1>7, <2>1, <2>4, <2>5
  <2>7. SumOf(AtStops(positions), S) = SumOf(AtStops(positions'), S)
    BY <2>1, <2>5, <2>6, SumSame
  <2> QED
    BY <1>8, <1>10, <2>3, <2>7
<1>11. books'[b].loss < LegLossLimit
  BY <1>6, <1>8
<1> QED
  BY <1>9, <1>10, <1>11

\* What a replay has lost and at stake, below the limit and one full loss of each leg.
Bounded == \A r \in Several!All :
              books[r].loss + Several!AtRisk(r) < LegLossLimit + Several!Risk *
                    Cardinality(Members(r))

LEMMA LossBoundedIs == Several!LossBounded <=> ("timed" \notin setup => Bounded)
<1>1. ASSUME NEW r \in Several!All PROVE {l \in Several!All : Several!Book(l) = r} = Members(r)
  BY DEF Members
<1> QED
  BY <1>1, SameCount, Zenon DEF Several!LossBounded, Bounded

LEMMA LossBoundedNext == (Several!LossBounded <=> ("timed" \notin setup => Bounded))'
BY LossBoundedIs, PTL

LEMMA AtRiskBounds ==
    ASSUME Several!LegReplayAssumption, Several!TypeOK, Several!TypeOK', setup' = setup,
           NEW r \in Several!All
    PROVE  /\ Members(r)' = Members(r) /\ Several!Risk * Cardinality(Members(r)) \in Nat
           /\ Several!AtRisk(r) \in Nat
           /\ Several!AtRisk(r) <= Several!Risk * Cardinality(Members(r))
           /\ Several!AtRisk(r)' \in Nat
           /\ Several!AtRisk(r)' <= Several!Risk * Cardinality(Members(r))
<1>1. Members(r)' = Members(r) /\ Members(r) \in SUBSET Several!All
  BY DEF Members, Several!Book
<1>2. positions \in [Several!All -> LegPositions] /\ positions' \in [Several!All -> LegPositions]
  BY DEF Several!TypeOK, LegPositions
<1>3. Several!Risk \in Nat /\ Cardinality(Members(r)) \in Nat
  BY MembersAre DEF Several!Risk, Several!Size
<1> DEFINE c == Cardinality(Members(r))
<1>4. Several!Risk * c \in Nat
  <2> HIDE DEF c
  <2> QED
    BY <1>3 DEF c
<1> QED
  BY <1>1, <1>2, <1>4, AtRiskIs, AtRiskNextIs, RiskOfAtMost

LegInv == Several!TypeOK /\ Several!LossBounded

LEMMA LegStart == ASSUME Several!LegReplayAssumption, Several!Init PROVE LegInv
<1>1. Several!TypeOK
  <2>1. \A l \in Several!All : Several!Flat \in LegPositions
    BY FlatIs
  <2>2. Several!NewDay \in [trades : 0..MaxTrades, loss : Nat]
    BY LegBounds DEF Several!NewDay
  <2> HIDE DEF Several!Flat, Several!NewDay
  <2> QED
    BY <2>1, <2>2, LegBounds DEF Several!Init, Several!TypeOK, LegPositions
<1>2. Bounded
  <2>1. ASSUME NEW r \in Several!All
        PROVE  books[r].loss + Several!AtRisk(r) < LegLossLimit + Several!Risk *
              Cardinality(Members(r))
    <3> DEFINE S == Members(r)
               c == Cardinality(S)
    <3>1. S \in SUBSET Several!All /\ IsFiniteSet(S) /\ c \in Nat
      BY MembersAre
    <3>2. /\ positions \in [Several!All -> LegPositions]
          /\ \A l \in Several!All : positions[l] = Several!Flat
      BY <1>1, PositionsAre DEF Several!Init
    <3>3. Amounts(AtStops(positions), S) /\ \A l \in S : AtStops(positions)[l] <= 0
      BY <3>1, <3>2, AtStopsAre, FlatIs
    <3>4. Several!AtRisk(r) = SumOf(AtStops(positions), S)
      BY <3>1, <3>2, AtRiskIs, RiskOfIs
    <3> HIDE DEF S, c
    <3>5. Several!AtRisk(r) <= 0 * Cardinality(S) /\ Several!AtRisk(r) \in Nat
      BY <3>1, <3>3, <3>4, SumAtMost, SumNat
    <3>6. books[r].loss = 0
      BY DEF Several!Init, Several!NewDay
    <3>7. Several!Risk * c \in Nat
      BY <3>1 DEF Several!Risk, Several!Size
    <3> QED
      BY <3>1, <3>5, <3>6, <3>7, LegBounds DEF S, c
  <2> QED
    BY <2>1 DEF Bounded
<1> QED
  BY <1>1, <1>2, LossBoundedIs DEF LegInv

LEMMA NextLeg ==
    ASSUME Several!LegReplayAssumption, LegInv, [Several!Next]_(Several!vars)
    PROVE  LegInv'
<1> USE DEF LegInv
<1>1. ASSUME NEW b \in Several!Bars, Several!Bar(b) PROVE LegInv'
  <2>1. Several!TypeOK' /\ setup' = setup
    BY <1>1, BarLeg, BarTerms
  <2>2. ASSUME "timed" \notin setup PROVE Bounded'
    <3>1. \A r \in Several!All :
             books[r].loss + Several!AtRisk(r) < LegLossLimit + Several!Risk *
                   Cardinality(Members(r))
      BY <2>2, LossBoundedIs DEF Bounded
    <3>2. ASSUME NEW r \in Several!All
          PROVE  books'[r].loss + Several!AtRisk(r)' < LegLossLimit + Several!Risk *
                Cardinality(Members(r))
      <4> DEFINE w == Several!Risk * Cardinality(Members(r))
      <4>1. \/ books'[r].loss + Several!AtRisk(r)' <= books[r].loss + Several!AtRisk(r)
            \/ books'[r].loss + Several!AtRisk(r)' <= Several!AtRisk(r)
        BY <1>1, <2>2, BarLeg
      <4>2. /\ w \in Nat /\ Several!AtRisk(r) \in Nat /\ Several!AtRisk(r) <= w
            /\ Several!AtRisk(r)' \in Nat
        BY <2>1, AtRiskBounds
      <4>3. books[r].loss + Several!AtRisk(r) < LegLossLimit + w
        BY <3>1
      <4>4. books[r].loss \in Nat /\ books'[r].loss \in Nat
        BY <2>1 DEF Several!TypeOK
      <4> HIDE DEF w
      <4>5. books'[r].loss + Several!AtRisk(r)' < LegLossLimit + w
        BY <4>1, <4>2, <4>3, <4>4, LegBounds
      <4> QED
        BY <4>5 DEF w
    <3>3. \A r \in Several!All : Members(r)' = Members(r)
      BY <2>1, AtRiskBounds
    <3> QED
      BY <3>2, <3>3 DEF Bounded
  <2> QED
    BY <2>1, <2>2, LossBoundedNext
<1>2. CASE Several!NoSignal
  <2>1. Several!TypeOK' /\ setup' = setup
    BY <1>2, TurnIs DEF Several!NoSignal, Several!TypeOK
  <2>2. positions' = positions /\ books' = books
    BY <1>2 DEF Several!NoSignal
  <2>3. \A r \in Several!All : Members(r)' = Members(r) /\ Several!AtRisk(r)' = Several!AtRisk(r)
    BY <2>1, <2>2, AtRiskBounds, AtRiskIs, AtRiskNextIs
  <2>4. Bounded => Bounded'
    BY <2>2, <2>3 DEF Bounded
  <2> QED
    BY <2>1, <2>4, LossBoundedIs, LossBoundedNext
<1>3. ASSUME NEW side \in {"LONG", "SHORT"}, Several!Opens(side) PROVE LegInv'
  <2>1. Several!TypeOK' /\ setup' = setup
    BY <1>3, OpensLeg DEF Several!Opens
  <2>2. ASSUME Bounded PROVE Bounded'
    <3>2. ASSUME NEW r \in Several!All
          PROVE  books'[r].loss + Several!AtRisk(r)' < LegLossLimit + Several!Risk *
                Cardinality(Members(r))
      <4> DEFINE w == Several!Risk * Cardinality(Members(r))
      <4>1. \/ books'[r].loss = books[r].loss /\ Several!AtRisk(r)' = Several!AtRisk(r)
            \/ books'[r].loss < LegLossLimit
        BY <1>3, OpensLeg
      <4>2. w \in Nat /\ Several!AtRisk(r)' \in Nat /\ Several!AtRisk(r)' <= w
        BY <2>1, AtRiskBounds
      <4>3. books[r].loss + Several!AtRisk(r) < LegLossLimit + w
        BY <2>2 DEF Bounded
      <4>4. books'[r].loss \in Nat
        BY <2>1 DEF Several!TypeOK
      <4> HIDE DEF w
      <4>5. books'[r].loss + Several!AtRisk(r)' < LegLossLimit + w
        BY <4>1, <4>2, <4>3, <4>4, LegBounds
      <4> QED
        BY <4>5 DEF w
    <3>3. \A r \in Several!All : Members(r)' = Members(r)
      BY <2>1, AtRiskBounds
    <3> QED
      BY <3>2, <3>3 DEF Bounded
  <2> QED
    BY <2>1, <2>2, LossBoundedIs, LossBoundedNext
<1>4. CASE UNCHANGED Several!vars
  <2>1. Several!TypeOK' /\ setup' = setup
    BY <1>4 DEF Several!TypeOK, Several!vars
  <2>2. positions' = positions /\ books' = books
    BY <1>4 DEF Several!vars
  <2>3. \A r \in Several!All : Members(r)' = Members(r) /\ Several!AtRisk(r)' = Several!AtRisk(r)
    BY <2>1, <2>2, AtRiskBounds, AtRiskIs, AtRiskNextIs
  <2>4. Bounded => Bounded'
    BY <2>2, <2>3 DEF Bounded
  <2> QED
    BY <2>1, <2>4, LossBoundedIs, LossBoundedNext
<1> QED
  BY <1>1, <1>2, <1>3, <1>4 DEF Several!Next

\* Each leg's position, streak, cooldown and day stay what they can be.
THEOREM LegTypeCorrect == Several!LegReplayAssumption => (Several!Spec => []Several!TypeOK)
<1> SUFFICES ASSUME Several!LegReplayAssumption PROVE Several!Spec => []Several!TypeOK
  OBVIOUS
<1>1. Several!Init => LegInv
  BY LegStart
<1>2. LegInv /\ [Several!Next]_(Several!vars) => LegInv'
  BY NextLeg
<1>3. LegInv => Several!TypeOK
  BY DEF LegInv
<1> QED
  BY <1>1, <1>2, <1>3, PTL DEF Several!Spec

\* However the entries of the legs follow each other and whatever was open when the day began:
\* a replay without a time stop never has more lost and at stake than the limit of the day and
\* one full loss of each of its legs.
THEOREM LossIsBounded == Several!LegReplayAssumption => (Several!Spec => []Several!LossBounded)
<1> SUFFICES ASSUME Several!LegReplayAssumption PROVE Several!Spec => []Several!LossBounded
  OBVIOUS
<1>1. Several!Init => LegInv
  BY LegStart
<1>2. LegInv /\ [Several!Next]_(Several!vars) => LegInv'
  BY NextLeg
<1>3. LegInv => Several!LossBounded
  BY DEF LegInv
<1> QED
  BY <1>1, <1>2, <1>3, PTL DEF Several!Spec


----------------------------------------------------------------------------
(* MCAccount: a step is a step of one unit, or of none *)

LEMMA OneRuns ==
    [MCNext]_all => /\ [Next]_vars /\ [Switch!Next]_(Switch!vars)
                    /\ [Backtest!Next]_(Backtest!vars) /\ [Several!Next]_(Several!vars)
<1>1. UNCHANGED all => UNCHANGED vars /\ UNCHANGED switch /\ UNCHANGED replay /\ UNCHANGED legs
  BY DEF all
<1>2. /\ UNCHANGED switch => UNCHANGED Switch!vars
      /\ UNCHANGED replay => UNCHANGED Backtest!vars
      /\ UNCHANGED legs => UNCHANGED Several!vars
  BY DEF switch, replay, legs, Switch!vars, Backtest!vars, Several!vars
<1> QED
  BY <1>1, <1>2 DEF MCNext, Alone

\* What each unit keeps: that of the gate, of the switch and of the two replays.
AccountsInv == GateInv /\ SwitchInv /\ ReplayInv /\ LegInv

LEMMA AccountsStart == MCInit => AccountsInv
BY GateStart, SwitchInit, StartReplay, LegStart, AccountAssumption DEF MCInit, AccountsInv

LEMMA AccountsNext == AccountsInv /\ [MCNext]_all => AccountsInv'
BY OneRuns, GateNext, NextSwitch, NextReplay, NextLeg, AccountAssumption DEF AccountsInv

\* Starts, switches and both replays have their types; in the replay of one position the
\* trades of a position add up to its size.
THEOREM AccountTyped == MCSpec => []TypesOK
<1>1. AccountsInv => TypesOK
  BY GateTypes, SwitchTypes, AccountAssumption DEF TypesOK, AccountsInv, ReplayInv, LegInv
<1> QED
  BY <1>1, AccountsStart, AccountsNext, PTL DEF MCSpec

\* Whatever requests overlap and fail: once they are through, one exchange is active at most,
\* and rows, columns and engine agree if they came one by one.
THEOREM AccountConsistent == MCSpec => []Consistent
<1>1. AccountsInv => Consistent
  BY SwitchAgrees DEF Consistent, AccountsInv
<1> QED
  BY <1>1, AccountsStart, AccountsNext, PTL DEF MCSpec

\* A retest is filled within the limits of the day, and what the legs of a replay have lost
\* and at stake stays bounded.
THEOREM ReplaysWithinLimits == MCSpec => FillWithinLimits
<1>1. AccountsInv /\ [MCNext]_all
         => [Backtest!Opens => cool = 0 /\ day.streak < MaxConsec /\ day'.trades <= MaxTrades
                               /\ day.loss < LossLimit]_(Backtest!vars)
  BY OneRuns, NextReplay, AccountAssumption DEF AccountsInv, Within
<1>2. AccountsInv => Several!LossBounded
  BY DEF AccountsInv, LegInv
<1> QED
  BY <1>1, <1>2, AccountsStart, AccountsNext, PTL
  DEF MCSpec, FillWithinLimits, Backtest!FillWithinLimits
=============================================================================
