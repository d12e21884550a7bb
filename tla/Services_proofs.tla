-------------------------- MODULE Services_proofs --------------------------
(***************************************************************************)
(* What keeps the books of the two services beside trading.                *)
(*                                                                         *)
(* Payments: the slots of a voucher are counted, and a paid order is       *)
(* granted once, for any number of users, orders and concurrent requests,  *)
(* whatever the gateway announces and whatever throws.                     *)
(*                                                                         *)
(* BacktestJobs: every way a job can end gives its slot back exactly once, *)
(* no job waits beside a free slot, and a result that has arrived stays,   *)
(* for any number of jobs and workers.                                     *)
(*                                                                         *)
(* Both proofs carry over to MCServices, where one of them runs.           *)
(***************************************************************************)
EXTENDS MCServices, SumTheorems, SequenceTheorems

(* Payments *)

Places == {"none", "reserve", "store", "snap", "unreserve", "unuse",
           "giveback", "open", "failed", "refused"}
Stages == {"idle", "apply", "grant", "expire", "create", "unuse", "giveback"}

\* Where an order stands.  A checkout that has to return a slot used the voucher; a usage row
\* belongs to a stored payment; only an order the gateway was asked for is announced, handled
\* by a webhook or granted, and that one is stored.
Placed(o) ==
    /\ checkout[o].at \in {"reserve", "unreserve", "unuse", "giveback"} => checkout[o].voucher
    /\ checkout[o].at \in {"snap", "open", "unuse", "giveback", "failed"} => payment[o] # "none"
    /\ o \in usage => checkout[o].voucher /\ checkout[o].at \in {"snap", "open", "unuse", "failed"}
    /\ gateway[o] # "none" => checkout[o].at \in {"open", "unuse", "giveback", "failed"}
    /\ announced[o] # {} => gateway[o] # "none"
    /\ granted[o] > 0 => announced[o] # {}

Anchored ==
    /\ \A o \in Orders : Placed(o)
    /\ \A h \in Hooks : ~HookAt(h, "idle") => announced[hook[h].order] # {}

Base == Typed /\ Anchored

----------------------------------------------------------------------------
(* What a step does to the two kinds of requests *)

LEMMA NewRows ==
    /\ NotMade \in CheckoutState /\ NotMade.at = "none" /\ ~NotMade.voucher
    /\ Idle \in HookState /\ Idle.at = "idle"
BY PaymentsAssumption DEF NotMade, CheckoutState, Idle, HookState, Statuses

LEMMA StepIs ==
    ASSUME Typed, NEW o \in Orders, NEW at \in Places, Step(o, at)
    PROVE  /\ checkout' \in [Orders -> CheckoutState]
           /\ checkout'[o].at = at /\ checkout'[o].voucher = checkout[o].voucher
           /\ \A p \in Orders : checkout'[p].user = checkout[p].user
           /\ \A p \in Orders \ {o} : checkout'[p] = checkout[p]
<1> DEFINE c == [checkout[o] EXCEPT !.at = at]
<1>1. checkout \in [Orders -> CheckoutState] /\ checkout[o] \in CheckoutState
  BY DEF Typed
<1>2. /\ c \in CheckoutState /\ c.at = at
      /\ c.voucher = checkout[o].voucher /\ c.user = checkout[o].user
  BY <1>1 DEF CheckoutState, Places
<1>3. checkout' = [checkout EXCEPT ![o] = c]
  BY <1>1 DEF Step
<1> HIDE DEF c
<1> QED
  BY <1>1, <1>2, <1>3

LEMMA HookStepIs ==
    ASSUME Typed, NEW h \in Hooks, NEW at \in Stages, HookStep(h, at)
    PROVE  /\ hook' \in [Hooks -> HookState]
           /\ hook'[h].at = at /\ hook'[h].order = hook[h].order
           /\ hook'[h].new = hook[h].new /\ hook'[h].replaces = hook[h].replaces
           /\ \A k \in Hooks \ {h} : hook'[k] = hook[k]
<1> DEFINE r == [hook[h] EXCEPT !.at = at]
<1>1. hook \in [Hooks -> HookState] /\ hook[h] \in HookState
  BY DEF Typed
<1>2. /\ r \in HookState /\ r.at = at /\ r.order = hook[h].order
      /\ r.new = hook[h].new /\ r.replaces = hook[h].replaces
  BY <1>1 DEF HookState, Stages
<1>3. hook' = [hook EXCEPT ![h] = r]
  BY <1>1 DEF HookStep
<1> HIDE DEF r
<1> QED
  BY <1>1, <1>2, <1>3

LEMMA EndIs ==
    ASSUME Typed, NEW h \in Hooks, hook' = [hook EXCEPT ![h] = Idle]
    PROVE  /\ hook' \in [Hooks -> HookState] /\ hook'[h].at = "idle"
           /\ \A k \in Hooks \ {h} : hook'[k] = hook[k]
BY NewRows DEF Typed

LEMMA UsesAre ==
    ASSUME Typed, NEW n \in Nat, voucher' = [voucher EXCEPT !.uses = n]
    PROVE  /\ voucher' \in [active : BOOLEAN, limited : BOOLEAN, uses : Nat]
           /\ voucher'.uses = n /\ voucher'.limited = voucher.limited
BY DEF Typed

LEMMA IncrementIs ==
    ASSUME Typed, Increment
    PROVE  /\ voucher' \in [active : BOOLEAN, limited : BOOLEAN, uses : Nat]
           /\ voucher'.uses = voucher.uses + 1 /\ voucher'.limited = voucher.limited
<1>1. voucher.uses + 1 \in Nat /\ voucher' = [voucher EXCEPT !.uses = voucher.uses + 1]
  BY DEF Typed, Increment
<1> QED
  BY <1>1, UsesAre

LEMMA DecrementIs ==
    ASSUME Typed, Decrement
    PROVE  /\ voucher' \in [active : BOOLEAN, limited : BOOLEAN, uses : Nat]
           /\ voucher'.uses = (IF voucher.uses > 0 THEN voucher.uses - 1 ELSE 0)
           /\ voucher'.limited = voucher.limited
<1> DEFINE n == IF voucher.uses > 0 THEN voucher.uses - 1 ELSE 0
<1>1. n \in Nat /\ voucher' = [voucher EXCEPT !.uses = n]
  BY DEF Typed, Decrement
<1> QED
  BY <1>1, UsesAre

----------------------------------------------------------------------------
(* Types and places *)

LEMMA BaseInit == Init => Base
<1> SUFFICES ASSUME Init PROVE Base
  OBVIOUS
<1>1. Typed
  <2>1. voucher \in [active : BOOLEAN, limited : BOOLEAN, uses : Nat]
    BY DEF Init
  <2>2. checkout \in [Orders -> CheckoutState] /\ hook \in [Hooks -> HookState]
    BY NewRows DEF Init
  <2>3. faults \in Nat /\ granted \in [Orders -> Nat] /\ active \in [Orders -> Nat]
    BY PaymentsAssumption DEF Init
  <2> QED
    BY <2>1, <2>2, <2>3 DEF Init, Typed
<1>2. Anchored
  BY NewRows DEF Init, Anchored, Placed, HookAt
<1> QED
  BY <1>1, <1>2 DEF Base

\* A step of the checkout of o leaves the webhooks, what was announced and granted alone.
CheckoutFrame ==
    /\ world' = world /\ faults' \in Nat /\ faults <= faults'
    /\ announced' = announced /\ due' = due /\ hook' = hook
    /\ granted' = granted /\ active' = active /\ lapsed' = lapsed /\ legacyTier' = legacyTier

LEMMA FaultTypes ==
    ASSUME Typed, NEW kind, Fault(kind) \/ Swallow
    PROVE  faults' \in Nat /\ faults <= faults'
BY DEF Typed, Fault, Swallow

LEMMA CheckoutFrameHolds ==
    ASSUME Typed, NEW o \in Orders, Initiating(o)
    PROVE  CheckoutFrame
<1>1. faults' = faults \/ \E kind \in {"store_fails", "snap_fails"} : Fault(kind) \/ Swallow
  BY DEF Initiating, ReserveSlot, StorePayment, StoreFails, Unreserve, OpenSnap, SnapFails,
         Unuse, GiveBack, UnreserveFails, ReleaseFails
<1>2. faults' \in Nat /\ faults <= faults'
  BY <1>1, FaultTypes DEF Typed
<1> QED
  BY <1>2 DEF CheckoutFrame, Initiating, ReserveSlot, StorePayment, StoreFails, Unreserve,
       OpenSnap, SnapFails, Unuse, GiveBack, UnreserveFails, ReleaseFails, access, bank

LEMMA CheckoutMoves ==
    ASSUME Typed, NEW o \in Orders, Initiating(o)
    PROVE  \E at \in Places \ {"none", "reserve"} : Step(o, at)
BY DEF Initiating, ReserveSlot, StorePayment, StoreFails, Unreserve, OpenSnap, SnapFails,
       Unuse, GiveBack, UnreserveFails, ReleaseFails, Places

LEMMA CheckoutTypes ==
    ASSUME Base, NEW o \in Orders, Initiating(o)
    PROVE  Typed'
<1>1. Typed /\ CheckoutFrame
  BY CheckoutFrameHolds DEF Base
<1>2. checkout' \in [Orders -> CheckoutState]
  BY <1>1, CheckoutMoves, StepIs
<1>3. voucher' \in [active : BOOLEAN, limited : BOOLEAN, uses : Nat]
  <2>1. voucher' = voucher \/ Increment \/ Decrement
    BY DEF Initiating, ReserveSlot, StorePayment, StoreFails, Unreserve, OpenSnap, SnapFails,
           Unuse, GiveBack, UnreserveFails, ReleaseFails
  <2> QED
    BY <1>1, <2>1, IncrementIs, DecrementIs DEF Typed
<1>4. payment' \in [Orders -> Statuses \cup {"none"}]
  BY <1>1 DEF Typed, Statuses, Initiating, ReserveSlot, StorePayment, StoreFails, Unreserve,
       OpenSnap, SnapFails, Unuse, GiveBack, UnreserveFails, ReleaseFails
<1>5. usage' \subseteq Orders
  BY <1>1 DEF Typed, Initiating, ReserveSlot, StorePayment, StoreFails, Unreserve,
       OpenSnap, SnapFails, Unuse, GiveBack, UnreserveFails, ReleaseFails
<1>6. gateway' \in [Orders -> Statuses \cup {"none", "open"}]
  BY <1>1 DEF Typed, Statuses, Initiating, ReserveSlot, StorePayment, StoreFails, Unreserve,
       OpenSnap, SnapFails, Unuse, GiveBack, UnreserveFails, ReleaseFails, bank
<1> QED
  BY <1>1, <1>2, <1>3, <1>4, <1>5, <1>6 DEF Typed, CheckoutFrame

\* What its steps do to the place of the order, and no other order moves.
LEMMA CheckoutPlaces ==
    ASSUME Base, NEW o \in Orders, Initiating(o)
    PROVE  Anchored'
<1> DEFINE Others == \A p \in Orders \ {o} :
                        /\ checkout'[p] = checkout[p]
                        /\ payment'[p] = payment[p]
                        /\ gateway'[p] = gateway[p]
                        /\ p \in usage' => p \in usage
<1>1. Typed /\ Anchored /\ CheckoutFrame /\ Placed(o)
  BY CheckoutFrameHolds DEF Base, Anchored
<1>2. Others
  <2>0. \A p \in Orders \ {o} : p # o
    OBVIOUS
  <2>1. \A p \in Orders \ {o} : checkout'[p] = checkout[p]
    BY <1>1, CheckoutMoves, StepIs
  <2>2. \A p \in Orders \ {o} : payment'[p] = payment[p]
    BY <1>1 DEF Typed, Initiating, ReserveSlot, StorePayment, StoreFails, Unreserve, OpenSnap,
         SnapFails, Unuse, GiveBack, UnreserveFails, ReleaseFails
  <2>3. \A p \in Orders \ {o} : gateway'[p] = gateway[p] /\ (p \in usage' => p \in usage)
    BY <1>1 DEF Typed, Initiating, ReserveSlot, StorePayment, StoreFails, Unreserve, OpenSnap,
         SnapFails, Unuse, GiveBack, UnreserveFails, ReleaseFails, bank
  <2> QED
    BY <2>1, <2>2, <2>3
<1>3. \A p \in Orders \ {o} : Placed(p)'
  BY <1>1, <1>2 DEF Anchored, Placed, CheckoutFrame
<1>4. Placed(o)'
  <2>0. \A at \in Places : Step(o, at) => /\ checkout'[o].at = at
                                          /\ checkout'[o].voucher = checkout[o].voucher
    BY <1>1, StepIs
  <2> USE <1>1 DEF Typed, Placed, CheckoutFrame, Places
  <2>1. CASE ReserveSlot(o)
    <3>1. checkout'[o].at \in {"store", "refused"} /\ checkout[o].at = "reserve"
      BY <2>0, <2>1 DEF ReserveSlot
    <3> QED
      BY <2>0, <2>1, <3>1 DEF ReserveSlot, bank
  <2>2. CASE Unreserve(o) \/ UnreserveFails(o)
    <3>1. checkout'[o].at = "refused" /\ checkout[o].at = "unreserve"
      BY <2>0, <2>2 DEF Unreserve, UnreserveFails
    <3> QED
      BY <2>0, <2>2, <3>1 DEF Unreserve, UnreserveFails, bank
  <2>3. CASE StorePayment(o)
    <3>1. checkout'[o].at = "snap" /\ checkout[o].at = "store" /\ payment'[o] = "PENDING"
      BY <2>0, <2>3 DEF StorePayment
    <3> QED
      BY <2>0, <2>3, <3>1 DEF StorePayment, bank
  <2>4. CASE StoreFails(o)
    <3>1. /\ checkout'[o].at = (IF checkout[o].voucher THEN "unreserve" ELSE "refused")
          /\ checkout'[o].voucher = checkout[o].voucher /\ checkout[o].at = "store"
      BY <2>0, <2>4 DEF StoreFails
    <3> QED
      BY <2>4, <3>1 DEF StoreFails, bank
  <2>5. CASE OpenSnap(o)
    <3>1. checkout'[o].at = "open" /\ checkout[o].at = "snap"
      BY <2>0, <2>5 DEF OpenSnap
    <3> QED
      BY <2>0, <2>5, <3>1 DEF OpenSnap
  <2>6. CASE SnapFails(o)
    <3>1. /\ checkout'[o].at = (IF checkout[o].voucher THEN "unuse" ELSE "failed")
          /\ checkout'[o].voucher = checkout[o].voucher /\ checkout[o].at = "snap"
          /\ payment'[o] # "none"
      BY <2>0, <2>6 DEF SnapFails
    <3>2. o \in usage => checkout[o].voucher
      BY <3>1
    <3> QED
      BY <2>6, <3>1, <3>2 DEF SnapFails
  <2>7. CASE Unuse(o)
    <3>1. /\ checkout'[o].at \in {"giveback", "failed"} /\ checkout[o].at = "unuse"
          /\ checkout'[o].voucher = checkout[o].voucher
      BY <2>0, <2>7 DEF Unuse
    <3> QED
      BY <2>7, <3>1 DEF Unuse, bank
  <2>8. CASE GiveBack(o) \/ ReleaseFails(o)
    <3>1. /\ checkout'[o].at = "failed" /\ checkout[o].at \in {"unuse", "giveback"}
          /\ checkout'[o].voucher = checkout[o].voucher
      BY <2>0, <2>8 DEF GiveBack, ReleaseFails
    <3> QED
      BY <2>8, <3>1 DEF GiveBack, ReleaseFails, bank
  <2> QED
    BY <2>1, <2>2, <2>3, <2>4, <2>5, <2>6, <2>7, <2>8 DEF Initiating
<1> QED
  BY <1>1, <1>3, <1>4 DEF Anchored, CheckoutFrame, HookAt

LEMMA NewCheckout ==
    ASSUME Base, NEW o \in Orders, NEW u \in Users, NEW v \in BOOLEAN, Checkout(o, u, v)
    PROVE  /\ Base'
           /\ checkout[o].at = "none" /\ checkout'[o].at \in {"reserve", "store"}
           /\ checkout'[o].at = "store" => ~checkout'[o].voucher
           /\ \A p \in Orders \ {o} : checkout'[p] = checkout[p]
<1> DEFINE c == [at |-> IF v THEN "reserve" ELSE "store", user |-> u, voucher |-> v]
<1>1. Typed /\ Anchored
  BY DEF Base
<1>2. c \in CheckoutState /\ c.at = (IF v THEN "reserve" ELSE "store") /\ c.voucher = v
  BY DEF CheckoutState
<1>3. checkout' = [checkout EXCEPT ![o] = c] /\ checkout[o].at = "none"
  BY DEF Checkout
<1> HIDE DEF c
<1>4. /\ checkout' \in [Orders -> CheckoutState] /\ checkout'[o] = c
      /\ \A p \in Orders \ {o} : checkout'[p] = checkout[p]
  BY <1>1, <1>2, <1>3 DEF Typed
<1>5. Typed'
  BY <1>1, <1>4 DEF Typed, Checkout, access, bank
<1>6. Anchored'
  BY <1>1, <1>2, <1>3, <1>4 DEF Anchored, Placed, HookAt, Checkout, access, bank
<1> QED
  BY <1>2, <1>3, <1>4, <1>5, <1>6 DEF Base

LEMMA AnnounceBase ==
    ASSUME Base, NEW o \in Orders, NEW s \in Statuses, Announce(o, s)
    PROVE  Base'
<1>1. Typed /\ Anchored
  BY DEF Base
<1>2. Typed'
  BY <1>1 DEF Typed, Announce, shop, access
<1>3. Anchored'
  BY <1>1 DEF Typed, Anchored, Placed, HookAt, Announce, shop, access, Statuses
<1> QED
  BY <1>2, <1>3 DEF Base

\* The steps of a webhook leave the checkouts and the gateway alone; what it ends, grants or
\* gives back is of the order it was received for.
LEMMA ReceiveBase ==
    ASSUME Base, NEW h \in Hooks, NEW o \in Orders, NEW s \in Statuses, Receive(h, o, s)
    PROVE  /\ Base'
           /\ HookAt(h, "idle") /\ hook'[h].at = "apply"
           /\ \A k \in Hooks \ {h} : hook'[k] = hook[k]
<1> DEFINE r == [at |-> "apply", order |-> o, new |-> s, seen |-> payment[o], replaces |-> {}]
<1>1. Typed /\ Anchored /\ announced[o] # {}
  BY DEF Base, Receive
<1>2. payment[o] \in Statuses
  BY <1>1 DEF Typed, Anchored, Placed
<1>3. r \in HookState /\ r.at = "apply" /\ r.order = o
  BY <1>2 DEF HookState
<1>4. hook' = [hook EXCEPT ![h] = r] /\ HookAt(h, "idle")
  BY DEF Receive
<1> HIDE DEF r
<1>5. /\ hook' \in [Hooks -> HookState] /\ hook'[h] = r
      /\ \A k \in Hooks \ {h} : hook'[k] = hook[k]
  BY <1>1, <1>3, <1>4 DEF Typed
<1>6. Typed'
  BY <1>1, <1>5 DEF Typed, Receive, shop, bank, access
<1>7. Anchored'
  BY <1>1, <1>3, <1>5 DEF Anchored, Placed, HookAt, Receive, shop, bank, access
<1> QED
  BY <1>3, <1>4, <1>5, <1>6, <1>7 DEF Base

HookFrame == /\ world' = world /\ faults' \in Nat /\ faults <= faults'
             /\ checkout' = checkout /\ gateway' = gateway /\ announced' = announced
             /\ lapsed' = lapsed /\ usage' \subseteq usage /\ due' \subseteq due

LEMMA HookFrameHolds ==
    ASSUME Typed, NEW h \in Hooks, Handling(h)
    PROVE  /\ HookFrame /\ ~HookAt(h, "idle")
           /\ hook' \in [Hooks -> HookState]
           /\ hook'[h].at # "idle" => hook'[h].order = hook[h].order
           /\ \A k \in Hooks \ {h} : hook'[k] = hook[k]
<1>1. ~HookAt(h, "idle")
  BY DEF Handling, Apply, GrantLooksUp, GrantExpires, GrantCommits, HookUnuse, HookGiveBack,
         HookFails, HookAt
<1>2. faults' \in Nat /\ faults <= faults'
  BY FaultTypes DEF Typed, Handling, Apply, GrantLooksUp, GrantExpires, GrantCommits, HookUnuse,
         HookGiveBack, HookFails
<1>3. HookFrame
  BY <1>2 DEF HookFrame, Handling, Apply, GrantLooksUp, GrantExpires, GrantCommits, HookUnuse,
         HookGiveBack, HookFails, shop, bank, access, Acknowledge
<1>4. CASE GrantExpires(h)
  <2> DEFINE r == [hook[h] EXCEPT !.at = "create",
                                 !.replaces = {o \in OrdersOf(User(hook[h].order)) : active[o] > 0}]
  <2>1. hook \in [Hooks -> HookState] /\ hook[h] \in HookState
    BY DEF Typed
  <2>2. r \in HookState /\ r.order = hook[h].order
    BY <2>1 DEF HookState, OrdersOf
  <2>3. hook' = [hook EXCEPT ![h] = r]
    BY <1>4, <2>1 DEF GrantExpires
  <2> HIDE DEF r
  <2> QED
    BY <1>1, <1>3, <2>1, <2>2, <2>3
<1>5. CASE \/ hook' = [hook EXCEPT ![h] = Idle]
           \/ \E at \in Stages : HookStep(h, at)
  BY <1>1, <1>3, <1>5, EndIs, HookStepIs
<1> QED
  BY <1>4, <1>5 DEF Handling, Apply, GrantLooksUp, GrantCommits, HookUnuse, HookGiveBack,
         HookFails, Acknowledge, Stages

LEMMA HookTypes ==
    ASSUME Base, NEW h \in Hooks, Handling(h)
    PROVE  Typed'
<1>1. Typed /\ HookFrame /\ hook' \in [Hooks -> HookState]
  BY HookFrameHolds DEF Base
<1>2. hook[h] \in HookState
  BY <1>1 DEF Typed
<1>3. voucher' \in [active : BOOLEAN, limited : BOOLEAN, uses : Nat]
  BY <1>1, DecrementIs DEF Typed, Handling, Apply, GrantLooksUp, GrantExpires, GrantCommits,
         HookUnuse, HookGiveBack, HookFails, shop
<1>4. payment' \in [Orders -> Statuses \cup {"none"}]
  BY <1>1, <1>2 DEF Typed, HookState, Handling, Apply, GrantLooksUp, GrantExpires, GrantCommits,
         HookUnuse, HookGiveBack, HookFails
<1>5. /\ granted' \in [Orders -> Nat] /\ active' \in [Orders -> Nat]
      /\ legacyTier' \in [Users -> {"free", "paid"}]
  <2>1. CASE GrantCommits(h)
    <3> DEFINE o    == hook[h].order
               kept == [p \in Orders |-> IF p \in hook[h].replaces THEN 0 ELSE active[p]]
    <3>1. o \in Orders /\ kept \in [Orders -> Nat]
      BY <1>1, <1>2 DEF Typed, HookState
    <3>2. /\ granted' = [granted EXCEPT ![o] = granted[o] + 1]
          /\ active' = [kept EXCEPT ![o] = kept[o] + 1]
          /\ legacyTier' = [legacyTier EXCEPT ![User(o)] = "paid"]
      BY <2>1 DEF GrantCommits
    <3> HIDE DEF o, kept
    <3>3. granted[o] + 1 \in Nat /\ kept[o] + 1 \in Nat
      BY <1>1, <3>1 DEF Typed
    <3>4. granted' \in [Orders -> Nat] /\ active' \in [Orders -> Nat]
      BY <1>1, <3>1, <3>2, <3>3 DEF Typed
    <3>5. legacyTier' \in [Users -> {"free", "paid"}]
      BY <1>1, <3>2 DEF Typed
    <3> QED
      BY <3>4, <3>5
  <2> QED
    BY <1>1, <2>1 DEF Typed, Handling, Apply, GrantLooksUp, GrantExpires,
         HookUnuse, HookGiveBack, HookFails, access
<1> QED
  BY <1>1, <1>3, <1>4, <1>5 DEF Typed, HookFrame

LEMMA HookBase ==
    ASSUME Base, NEW h \in Hooks, Handling(h)
    PROVE  Base'
<1>1. /\ Typed /\ Anchored /\ HookFrame /\ ~HookAt(h, "idle")
      /\ hook'[h].at # "idle" => hook'[h].order = hook[h].order
      /\ \A k \in Hooks \ {h} : hook'[k] = hook[k]
  BY HookFrameHolds DEF Base
<1>2. hook[h] \in HookState
  BY <1>1 DEF Typed
<1>3. \A o \in Orders : payment'[o] = payment[o] \/ payment'[o] # "none"
  BY <1>1, <1>2 DEF Typed, HookState, Statuses, Handling, Apply, GrantLooksUp, GrantExpires,
       GrantCommits, HookUnuse, HookGiveBack, HookFails
<1>4. \A o \in Orders : granted'[o] > 0 => granted[o] > 0 \/ announced[o] # {}
  <2>1. CASE GrantCommits(h)
    BY <1>1, <1>2, <2>1 DEF Typed, Anchored, GrantCommits
  <2> QED
    BY <1>1, <2>1 DEF Handling, Apply, GrantLooksUp, GrantExpires, HookUnuse, HookGiveBack,
         HookFails, access
<1>5. Anchored'
  BY <1>1, <1>3, <1>4 DEF Anchored, Placed, HookAt, HookFrame
<1> QED
  BY <1>5, HookTypes DEF Base

LEMMA AccessBase ==
    ASSUME Base,
           \/ \E o \in Orders : Lapse(o) \/ Sweep(o)
           \/ \E u \in Users, t \in {"free", "paid"} : ChangeTier(u, t)
           \/ Deactivate \/ UNCHANGED vars
    PROVE  /\ Base' /\ UNCHANGED <<world, faults, checkout, usage, hook, granted>>
           /\ voucher'.uses = voucher.uses /\ voucher'.limited = voucher.limited
           /\ \A o \in Orders : active'[o] <= active[o]
<1>1. Typed /\ Anchored
  BY DEF Base
<1>2. UNCHANGED <<world, faults, checkout, payment, usage, gateway, announced, due, hook, granted>>
  BY DEF Lapse, Sweep, ChangeTier, Deactivate, vars, shop, bank, access
<1>3. /\ voucher' \in [active : BOOLEAN, limited : BOOLEAN, uses : Nat]
      /\ voucher'.uses = voucher.uses /\ voucher'.limited = voucher.limited
  BY <1>1 DEF Typed, Lapse, Sweep, ChangeTier, Deactivate, vars, shop
<1>4. active' \in [Orders -> Nat] /\ \A o \in Orders : active'[o] <= active[o]
  <2>1. ASSUME NEW o \in Orders, Sweep(o)
        PROVE  active' \in [Orders -> Nat] /\ \A p \in Orders : active'[p] <= active[p]
    BY <1>1, <2>1 DEF Typed, Sweep
  <2>2. ASSUME active' = active
        PROVE  active' \in [Orders -> Nat] /\ \A p \in Orders : active'[p] <= active[p]
    BY <1>1, <2>2 DEF Typed
  <2> QED
    BY <2>1, <2>2 DEF Lapse, ChangeTier, Deactivate, vars, access
<1>5. lapsed' \subseteq Orders /\ legacyTier' \in [Users -> {"free", "paid"}]
  BY <1>1 DEF Typed, Lapse, Sweep, ChangeTier, Deactivate, vars, access
<1>6. Typed'
  BY <1>1, <1>2, <1>3, <1>4, <1>5 DEF Typed
<1>7. Anchored'
  BY <1>1, <1>2 DEF Anchored, Placed, HookAt
<1> QED
  BY <1>2, <1>3, <1>4, <1>6, <1>7 DEF Base

LEMMA NextBase == Base /\ [Next]_vars => Base'
<1> SUFFICES ASSUME Base, [Next]_vars PROVE Base'
  OBVIOUS
<1>1. CASE \E o \in Orders, u \in Users, v \in BOOLEAN : Checkout(o, u, v)
  BY <1>1, NewCheckout
<1>2. CASE \E o \in Orders : Initiating(o)
  BY <1>2, CheckoutTypes, CheckoutPlaces DEF Base
<1>3. CASE \E o \in Orders, s \in Statuses : Announce(o, s)
  BY <1>3, AnnounceBase
<1>4. CASE \E h \in Hooks, o \in Orders, s \in Statuses : Receive(h, o, s)
  BY <1>4, ReceiveBase
<1>5. CASE \E h \in Hooks : Handling(h)
  BY <1>5, HookBase
<1> QED
  BY <1>1, <1>2, <1>3, <1>4, <1>5, AccessBase DEF Next

----------------------------------------------------------------------------
(* The slots of the voucher *)

\* Orders that asked for a slot.
Takers == {o \in Orders : checkout[o].voucher
                          /\ checkout[o].at \notin {"none", "reserve"}}

FiniteSlots == /\ IsFiniteSet(usage) /\ IsFiniteSet(Reserving)
               /\ IsFiniteSet(GivingBack) /\ IsFiniteSet(Takers)

SlotsInv == FiniteSlots /\ SlotsCounted /\ voucher.uses <= Cardinality(Takers)

\* One element more, one element less.
LEMMA OneMore ==
    ASSUME NEW S, IsFiniteSet(S), NEW x, x \notin S, NEW T, T = S \cup {x}
    PROVE  IsFiniteSet(T) /\ Cardinality(T) = Cardinality(S) + 1 /\ Cardinality(S) \in Nat
BY FS_AddElement, FS_CardinalityType

LEMMA OneLess ==
    ASSUME NEW S, IsFiniteSet(S), NEW x \in S, NEW T, T = S \ {x}
    PROVE  /\ IsFiniteSet(T) /\ Cardinality(T) = Cardinality(S) - 1
           /\ Cardinality(S) \in Nat /\ Cardinality(T) \in Nat
BY FS_RemoveElement, FS_CardinalityType

LEMMA MaybeLess ==
    ASSUME NEW S, IsFiniteSet(S), NEW x, NEW T, T = S \ {x}
    PROVE  /\ IsFiniteSet(T) /\ Cardinality(T) \in Nat /\ Cardinality(T) <= Cardinality(S)
           /\ Cardinality(S) <= Cardinality(T) + 1
<1>1. CASE x \in S
  BY <1>1, OneLess
<1>2. CASE x \notin S
  <2>1. T = S /\ Cardinality(S) \in Nat
    BY <1>2, FS_CardinalityType
  <2> QED
    BY <2>1
<1> QED
  BY <1>1, <1>2

LEMMA Counts ==
    ASSUME SlotsInv
    PROVE  /\ Cardinality(usage) \in Nat /\ Cardinality(Reserving) \in Nat
           /\ Cardinality(GivingBack) \in Nat /\ Cardinality(Takers) \in Nat
BY FS_CardinalityType DEF SlotsInv, FiniteSlots

\* Nothing is taken, nothing returned.
SlotsKept == /\ usage' = usage /\ Reserving' = Reserving /\ GivingBack' = GivingBack
             /\ Takers' = Takers /\ world' = world
             /\ faults' \in Nat /\ faults <= faults'
             /\ voucher'.uses = voucher.uses /\ voucher'.limited = voucher.limited

LEMMA KeptSlots == Typed /\ SlotsInv /\ SlotsKept => SlotsInv'
<1> SUFFICES ASSUME Typed, SlotsInv, SlotsKept PROVE SlotsInv'
  OBVIOUS
<1>1. faults \in Nat /\ voucher.uses \in Nat
  BY DEF Typed
<1>2. Held \in Nat /\ Held' = Held
  BY Counts DEF Held, SlotsKept
<1> QED
  BY <1>1, <1>2 DEF SlotsInv, SlotsKept, FiniteSlots, SlotsCounted

\* The counter moves with the slots held.
LEMMA BalancedSlots ==
    ASSUME Typed, SlotsInv, FiniteSlots', world' = world, faults' \in Nat, faults <= faults',
           NEW d \in Int, Held' = Held + d,
           voucher'.uses = voucher.uses + d, voucher'.limited = voucher.limited,
           voucher.limited => d <= 0 \/ voucher.uses + d <= MaxUses,
           voucher'.uses <= Cardinality(Takers)'
    PROVE  SlotsInv'
<1>1. faults \in Nat /\ voucher.uses \in Nat /\ MaxUses \in Nat
  BY PaymentsAssumption DEF Typed
<1>2. Held \in Nat
  BY Counts DEF Held
<1>3. /\ Held <= voucher.uses /\ voucher.uses <= Held + faults
      /\ voucher.limited => voucher.uses <= MaxUses
      /\ "hook_fails" \notin world /\ "catch_fails" \notin world => Held = voucher.uses
  BY DEF SlotsInv, SlotsCounted
<1>4. /\ Held' <= voucher'.uses /\ voucher'.uses <= Held' + faults'
      /\ voucher'.limited => voucher'.uses <= MaxUses
      /\ "hook_fails" \notin world' /\ "catch_fails" \notin world' => Held' = voucher'.uses
  BY <1>1, <1>2, <1>3
<1> QED
  BY <1>4 DEF SlotsInv, SlotsCounted

LEMMA SameBalance ==
    ASSUME Typed, SlotsInv, FiniteSlots', world' = world, faults' \in Nat, faults <= faults',
           Held' = Held, Takers' = Takers \/ voucher.uses <= Cardinality(Takers'),
           voucher'.uses = voucher.uses, voucher'.limited = voucher.limited
    PROVE  SlotsInv'
<1>1. /\ voucher.uses \in Nat /\ voucher.uses <= Cardinality(Takers)
      /\ Held \in Nat /\ 0 \in Int /\ Held + 0 = Held /\ voucher.uses + 0 = voucher.uses
  BY Counts DEF Typed, SlotsInv, Held
<1>2. voucher'.uses <= Cardinality(Takers')
  BY <1>1
<1> QED
  BY <1>1, <1>2, BalancedSlots

LEMMA LessBalance ==
    ASSUME Typed, SlotsInv, FiniteSlots', world' = world, faults' \in Nat, faults <= faults',
           Held' = Held - 1, Takers' = Takers,
           voucher'.uses = voucher.uses - 1, voucher'.limited = voucher.limited
    PROVE  SlotsInv'
<1> DEFINE d == 0 - 1
<1>1. /\ voucher.uses \in Nat /\ voucher.uses <= Cardinality(Takers)
      /\ Cardinality(Takers) \in Nat /\ Held \in Nat
  BY Counts DEF Typed, SlotsInv, Held
<1>2. d \in Int /\ d <= 0 /\ Held' = Held + d /\ voucher'.uses = voucher.uses + d
  BY <1>1
<1>3. voucher'.uses <= Cardinality(Takers)'
  BY <1>1
<1> HIDE DEF d
<1> QED
  BY <1>2, <1>3, BalancedSlots

\* A call that throws leaves a slot counted that nobody holds.
LEMMA LostSlot ==
    ASSUME Typed, SlotsInv, FiniteSlots', world' = world, faults' = faults + 1,
           "hook_fails" \in world \/ "catch_fails" \in world,
           Held' \in Nat, Held' <= Held, Held <= Held' + 1, Takers' = Takers, voucher' = voucher
    PROVE  SlotsInv'
<1>1. faults \in Nat /\ voucher.uses \in Nat /\ Held \in Nat
  BY Counts DEF Typed, Held
<1>2. Held <= voucher.uses /\ voucher.uses <= Held + faults
  BY DEF SlotsInv, SlotsCounted
<1>3. Held' <= voucher'.uses /\ voucher'.uses <= Held' + faults'
  <2>1. \A h, l, u, f \in Nat :
           h <= u /\ u <= h + f /\ l <= h /\ h <= l + 1 => l <= u /\ u <= l + (f + 1)
    OBVIOUS
  <2> QED
    BY <1>1, <1>2, <2>1
<1>4. voucher'.limited => voucher'.uses <= MaxUses
  BY DEF SlotsInv, SlotsCounted
<1>5. SlotsCounted'
  BY <1>3, <1>4 DEF SlotsCounted
<1> QED
  BY <1>5 DEF SlotsInv

LEMMA SlotsInit == Init => SlotsInv
<1> SUFFICES ASSUME Init PROVE SlotsInv
  OBVIOUS
<1>1. usage = {} /\ Reserving = {} /\ GivingBack = {} /\ Takers = {} /\ voucher.uses = 0
      /\ faults = 0
  BY NewRows DEF Init, Reserving, GivingBack, Takers, HookAt
<1>2. MaxUses \in Nat
  BY PaymentsAssumption
<1> QED
  BY <1>1, <1>2, FS_EmptySet DEF SlotsInv, FiniteSlots, SlotsCounted, Held

\* The sets of orders and hooks change by the one that moves.
LEMMA OrderSets ==
    ASSUME NEW o \in Orders, \A p \in Orders \ {o} : checkout'[p] = checkout[p]
    PROVE  /\ Reserving' = IF checkout'[o].voucher
                              /\ checkout'[o].at \in {"store", "unreserve", "giveback"}
                           THEN Reserving \cup {o} ELSE Reserving \ {o}
           /\ Takers' = IF checkout'[o].voucher
                           /\ checkout'[o].at \notin {"none", "reserve"}
                        THEN Takers \cup {o} ELSE Takers \ {o}
BY DEF Reserving, Takers

LEMMA HookSets ==
    ASSUME NEW h \in Hooks, \A k \in Hooks \ {h} : hook'[k] = hook[k]
    PROVE  GivingBack' = IF hook'[h].at = "giveback" THEN GivingBack \cup {h} ELSE GivingBack \ {h}
BY DEF GivingBack, HookAt

\* A checkout takes a slot, moves it to its usage row and back, and returns it.
LEMMA CheckoutSlots ==
    ASSUME Base, SlotsInv, NEW o \in Orders, Initiating(o)
    PROVE  SlotsInv'
<1>1. /\ Typed /\ Placed(o) /\ CheckoutFrame
      /\ \A p \in Orders \ {o} : checkout'[p] = checkout[p]
      /\ \A at \in Places : Step(o, at) => /\ checkout'[o].at = at
                                          /\ checkout'[o].voucher = checkout[o].voucher
  BY CheckoutFrameHolds, CheckoutMoves, StepIs DEF Base, Anchored
<1>2. /\ Reserving' = IF checkout'[o].voucher
                         /\ checkout'[o].at \in {"store", "unreserve", "giveback"}
                      THEN Reserving \cup {o} ELSE Reserving \ {o}
      /\ Takers' = IF checkout'[o].voucher
                      /\ checkout'[o].at \notin {"none", "reserve"}
                   THEN Takers \cup {o} ELSE Takers \ {o}
      /\ GivingBack' = GivingBack /\ world' = world
      /\ faults' \in Nat /\ faults <= faults'
  BY <1>1, OrderSets DEF GivingBack, HookAt, CheckoutFrame
<1>3. /\ o \in Reserving <=> /\ checkout[o].voucher
                             /\ checkout[o].at \in {"store", "unreserve", "giveback"}
      /\ o \in Takers <=> /\ checkout[o].voucher
                          /\ checkout[o].at \notin {"none", "reserve"}
  BY DEF Reserving, Takers
<1>4. voucher.uses \in Nat /\ faults \in Nat
  BY <1>1 DEF Typed
<1>5. /\ Cardinality(usage) \in Nat /\ Cardinality(Reserving) \in Nat
      /\ Cardinality(GivingBack) \in Nat /\ Cardinality(Takers) \in Nat
      /\ FiniteSlots /\ SlotsCounted /\ voucher.uses <= Cardinality(Takers)
      /\ MaxUses \in Nat
  BY Counts, PaymentsAssumption DEF SlotsInv
<1> USE DEF FiniteSlots
<1>6. CASE ReserveSlot(o)
  <2>0. checkout[o].at = "reserve" /\ checkout[o].voucher /\ usage' = usage
    BY <1>1, <1>6 DEF ReserveSlot, Placed
  <2>1. CASE Increment /\ Step(o, "store") /\ (voucher.limited => voucher.uses < MaxUses)
    <3>1. checkout'[o].at = "store" /\ checkout'[o].voucher
      BY <1>1, <2>0, <2>1 DEF Places
    <3>2. /\ Reserving' = Reserving \cup {o} /\ o \notin Reserving
          /\ Takers' = Takers \cup {o} /\ o \notin Takers
      BY <1>2, <1>3, <2>0, <3>1
    <3>3. /\ IsFiniteSet(Reserving') /\ Cardinality(Reserving') = Cardinality(Reserving) + 1
          /\ IsFiniteSet(Takers') /\ Cardinality(Takers') = Cardinality(Takers) + 1
      BY <1>5, <3>2, OneMore
    <3>4. voucher'.uses = voucher.uses + 1 /\ voucher'.limited = voucher.limited
      BY <1>1, <2>1, IncrementIs
    <3>5. Held' = Held + 1 /\ FiniteSlots'
      BY <1>2, <1>5, <2>0, <3>3 DEF Held
    <3>6. voucher'.uses <= Cardinality(Takers')
      BY <1>4, <1>5, <3>3, <3>4
    <3> QED
      BY <1>1, <1>2, <1>4, <1>5, <2>1, <3>4, <3>5, <3>6, BalancedSlots
  <2>2. CASE Step(o, "refused") /\ UNCHANGED voucher
    <3>1. checkout'[o].at = "refused"
      BY <1>1, <2>2 DEF Places
    <3>2. Reserving' = Reserving /\ Takers' = Takers \cup {o} /\ o \notin Takers
      BY <1>1, <1>2, <1>3, <2>0, <2>2, <3>1 DEF Places
    <3>3. IsFiniteSet(Takers') /\ Cardinality(Takers') = Cardinality(Takers) + 1
      BY <1>5, <3>2, OneMore
    <3>4. voucher'.uses = voucher.uses /\ voucher'.limited = voucher.limited
      BY <2>2
    <3>5. Held' = Held
      BY <1>2, <2>0, <3>2 DEF Held
    <3>6. FiniteSlots'
      BY <1>2, <1>5, <2>0, <3>2, <3>3
    <3>7. voucher.uses <= Cardinality(Takers')
      BY <1>4, <1>5, <3>3
    <3> QED
      BY <1>1, <1>2, <3>4, <3>5, <3>6, <3>7, SameBalance
  <2> QED
    BY <1>6, <2>1, <2>2 DEF ReserveSlot
<1>7. CASE StorePayment(o)
  <2>0. checkout[o].at = "store" /\ checkout'[o].at = "snap" /\ voucher' = voucher
        /\ checkout'[o].voucher = checkout[o].voucher /\ o \notin usage
    BY <1>1, <1>7 DEF StorePayment, Placed, Places
  <2>1. CASE checkout[o].voucher
    <3>1. /\ usage' = usage \cup {o} /\ o \in Reserving /\ Reserving' = Reserving \ {o}
          /\ Takers' = Takers
      BY <1>2, <1>3, <1>7, <2>0, <2>1 DEF StorePayment
    <3>2. /\ IsFiniteSet(usage') /\ Cardinality(usage') = Cardinality(usage) + 1
          /\ IsFiniteSet(Reserving') /\ Cardinality(Reserving') = Cardinality(Reserving) - 1
      BY <1>5, <2>0, <3>1, OneMore, OneLess
    <3>3. Held' = Held
      BY <1>2, <1>5, <3>1, <3>2 DEF Held
    <3>4. FiniteSlots'
      BY <1>2, <1>5, <3>1, <3>2
    <3> QED
      BY <1>1, <1>2, <2>0, <3>1, <3>3, <3>4, SameBalance
  <2>2. CASE ~checkout[o].voucher
    <3>1. usage' = usage /\ Reserving' = Reserving /\ Takers' = Takers
      BY <1>2, <1>3, <1>7, <2>0, <2>2 DEF StorePayment
    <3> QED
      BY <1>1, <1>2, <2>0, <3>1, KeptSlots DEF SlotsKept
  <2> QED
    BY <2>1, <2>2
<1>8. CASE StoreFails(o) \/ OpenSnap(o) \/ SnapFails(o)
  <2>1. usage' = usage /\ voucher' = voucher
    BY <1>8 DEF StoreFails, OpenSnap, SnapFails
  <2>2. Reserving' = Reserving /\ Takers' = Takers
    <3>1. CASE StoreFails(o)
      <4>1. /\ checkout[o].at = "store" /\ checkout'[o].voucher = checkout[o].voucher
            /\ checkout'[o].at = IF checkout[o].voucher THEN "unreserve" ELSE "refused"
        BY <1>1, <3>1 DEF StoreFails, Places
      <4> QED
        BY <1>2, <1>3, <4>1
    <3>2. CASE OpenSnap(o)
      <4>1. /\ checkout[o].at = "snap" /\ checkout'[o].voucher = checkout[o].voucher
            /\ checkout'[o].at = "open"
        BY <1>1, <3>2 DEF OpenSnap, Places
      <4> QED
        BY <1>2, <1>3, <4>1
    <3>3. CASE SnapFails(o)
      <4>1. /\ checkout[o].at = "snap" /\ checkout'[o].voucher = checkout[o].voucher
            /\ checkout'[o].at = IF checkout[o].voucher THEN "unuse" ELSE "failed"
        BY <1>1, <3>3 DEF SnapFails, Places
      <4> QED
        BY <1>2, <1>3, <4>1
    <3> QED
      BY <1>8, <3>1, <3>2, <3>3
  <2> QED
    BY <1>1, <1>2, <2>1, <2>2, KeptSlots DEF SlotsKept
<1>9. CASE Unuse(o)
  <2>0. /\ checkout[o].at = "unuse" /\ voucher' = voucher /\ checkout[o].voucher
        /\ checkout'[o].voucher = checkout[o].voucher
        /\ checkout'[o].at = (IF o \in usage THEN "giveback" ELSE "failed")
        /\ usage' = usage \ {o}
    BY <1>1, <1>9 DEF Unuse, Placed, Places
  <2>1. CASE o \in usage
    <3>1. Reserving' = Reserving \cup {o} /\ o \notin Reserving /\ Takers' = Takers
      BY <1>2, <1>3, <2>0, <2>1
    <3>2. /\ IsFiniteSet(usage') /\ Cardinality(usage') = Cardinality(usage) - 1
          /\ IsFiniteSet(Reserving') /\ Cardinality(Reserving') = Cardinality(Reserving) + 1
      BY <1>5, <2>0, <2>1, <3>1, OneMore, OneLess
    <3>3. Held' = Held
      BY <1>2, <1>5, <3>1, <3>2 DEF Held
    <3>4. FiniteSlots'
      BY <1>2, <1>5, <3>1, <3>2
    <3> QED
      BY <1>1, <1>2, <2>0, <3>1, <3>3, <3>4, SameBalance
  <2>2. CASE o \notin usage
    <3>1. usage' = usage /\ Reserving' = Reserving /\ Takers' = Takers
      BY <1>2, <1>3, <2>0, <2>2
    <3> QED
      BY <1>1, <1>2, <2>0, <3>1, KeptSlots DEF SlotsKept
  <2> QED
    BY <2>1, <2>2
<1>10. CASE Unreserve(o) \/ GiveBack(o)
  <2>0. /\ checkout[o].at \in {"unreserve", "giveback"} /\ checkout[o].voucher
        /\ checkout'[o].at = (IF checkout[o].at = "unreserve" THEN "refused" ELSE "failed")
        /\ checkout'[o].voucher = checkout[o].voucher /\ Decrement /\ usage' = usage
    BY <1>1, <1>10 DEF Unreserve, GiveBack, Placed, Places
  <2>1. /\ o \in Reserving /\ Reserving' = Reserving \ {o}
        /\ Takers' = Takers
    BY <1>2, <1>3, <2>0
  <2>2. /\ IsFiniteSet(Reserving') /\ Cardinality(Reserving') = Cardinality(Reserving) - 1
        /\ Cardinality(Reserving') \in Nat
    BY <1>5, <2>1, OneLess
  <2>3. voucher'.uses = voucher.uses - 1 /\ voucher'.limited = voucher.limited
    BY <1>1, <1>4, <1>5, <2>0, <2>2, DecrementIs DEF SlotsCounted, Held
  <2>4. Held' = Held - 1
    BY <1>2, <1>5, <2>0, <2>1, <2>2 DEF Held
  <2>5. FiniteSlots'
    BY <1>2, <1>5, <2>0, <2>1, <2>2
  <2> QED
    BY <1>1, <1>2, <2>1, <2>3, <2>4, <2>5, LessBalance
<1>11. CASE UnreserveFails(o) \/ ReleaseFails(o)
  <2>0. /\ checkout[o].at \in {"unreserve", "unuse", "giveback"} /\ checkout[o].voucher
        /\ checkout'[o].at \in {"refused", "failed"} /\ usage' = usage /\ voucher' = voucher
        /\ checkout'[o].voucher = checkout[o].voucher
        /\ "catch_fails" \in world /\ faults' = faults + 1
    BY <1>1, <1>11 DEF UnreserveFails, ReleaseFails, Placed, Places, Swallow
  <2>1. Reserving' = Reserving \ {o} /\ Takers' = Takers
    BY <1>2, <1>3, <2>0
  <2>2. /\ IsFiniteSet(Reserving') /\ Cardinality(Reserving') \in Nat
        /\ Cardinality(Reserving') <= Cardinality(Reserving)
        /\ Cardinality(Reserving) <= Cardinality(Reserving') + 1
    <3>1. IsFiniteSet(Reserving)
      BY <1>5
    <3> QED
      BY <2>1, <3>1, MaybeLess
  <2>3. Held' \in Nat /\ Held' <= Held /\ Held <= Held' + 1
    BY <1>2, <1>5, <2>0, <2>2 DEF Held
  <2>4. FiniteSlots'
    BY <1>2, <1>5, <2>0, <2>1, <2>2
  <2> QED
    BY <1>1, <1>2, <2>0, <2>1, <2>3, <2>4, LostSlot
<1> QED
  BY <1>6, <1>7, <1>8, <1>9, <1>10, <1>11 DEF Initiating

\* A webhook takes a usage row and returns its slot; if it throws in between, the slot is lost.
LEMMA HookSlots ==
    ASSUME Base, SlotsInv, NEW h \in Hooks, Handling(h)
    PROVE  SlotsInv'
<1>1. /\ Typed /\ HookFrame
      /\ \A k \in Hooks \ {h} : hook'[k] = hook[k]
  BY HookFrameHolds DEF Base
<1>2. /\ Reserving' = Reserving /\ Takers' = Takers /\ world' = world
      /\ faults' \in Nat /\ faults <= faults'
      /\ GivingBack' = IF hook'[h].at = "giveback" THEN GivingBack \cup {h} ELSE GivingBack \ {h}
      /\ h \in GivingBack <=> hook[h].at = "giveback"
  BY <1>1, HookSets DEF Reserving, Takers, HookFrame, GivingBack, HookAt
<1>4. voucher.uses \in Nat /\ faults \in Nat
  BY <1>1 DEF Typed
<1>5. /\ Cardinality(usage) \in Nat /\ Cardinality(Reserving) \in Nat
      /\ Cardinality(GivingBack) \in Nat /\ Cardinality(Takers) \in Nat
      /\ FiniteSlots /\ SlotsCounted /\ voucher.uses <= Cardinality(Takers)
      /\ MaxUses \in Nat
  BY Counts, PaymentsAssumption DEF SlotsInv
<1>6. hook' = [hook EXCEPT ![h] = Idle] => hook'[h].at = "idle"
  BY <1>1, EndIs
<1>7. \A at \in Stages : HookStep(h, at) => hook'[h].at = at
  BY <1>1, HookStepIs
<1> USE DEF FiniteSlots
<1>8. CASE Apply(h) \/ GrantLooksUp(h) \/ GrantExpires(h) \/ GrantCommits(h)
  <2>1. hook[h].at # "giveback" /\ usage' = usage /\ voucher' = voucher
    BY <1>8 DEF Apply, GrantLooksUp, GrantExpires, GrantCommits, HookAt, shop
  <2>2. hook'[h].at # "giveback"
    <3>1. CASE GrantExpires(h)
      BY <1>1, <3>1 DEF GrantExpires, Typed, HookState
    <3> QED
      BY <1>6, <1>7, <1>8, <3>1 DEF Apply, GrantLooksUp, GrantCommits, Acknowledge, Stages
  <2> QED
    BY <1>1, <1>2, <2>1, <2>2, KeptSlots DEF SlotsKept
<1>9. CASE HookUnuse(h)
  <2> DEFINE o == hook[h].order
  <2>0. hook[h].at = "unuse" /\ usage' = usage \ {o} /\ voucher' = voucher
    BY <1>9 DEF HookUnuse, HookAt
  <2>1. CASE o \in usage
    <3>1. hook'[h].at = "giveback"
      BY <1>7, <1>9, <2>1 DEF HookUnuse, Stages
    <3>2. GivingBack' = GivingBack \cup {h} /\ h \notin GivingBack
      BY <1>2, <2>0, <3>1
    <3>3. /\ IsFiniteSet(usage') /\ Cardinality(usage') = Cardinality(usage) - 1
          /\ IsFiniteSet(GivingBack') /\ Cardinality(GivingBack') = Cardinality(GivingBack) + 1
      BY <1>5, <2>0, <2>1, <3>2, OneMore, OneLess
    <3>4. Held' = Held /\ FiniteSlots'
      BY <1>2, <1>5, <3>3 DEF Held
    <3> QED
      BY <1>1, <1>2, <2>0, <3>4, SameBalance DEF HookFrame
  <2>2. CASE o \notin usage
    <3>1. hook'[h].at = "idle"
      BY <1>6, <1>9, <2>2 DEF HookUnuse, Acknowledge
    <3>2. usage' = usage /\ GivingBack' = GivingBack
      BY <1>2, <2>0, <2>2, <3>1
    <3> QED
      BY <1>1, <1>2, <2>0, <3>2, KeptSlots DEF SlotsKept
  <2> QED
    BY <2>1, <2>2
<1>10. CASE HookGiveBack(h)
  <2>0. hook[h].at = "giveback" /\ hook'[h].at = "idle" /\ usage' = usage /\ Decrement
    BY <1>6, <1>10 DEF HookGiveBack, Acknowledge, HookAt
  <2>1. h \in GivingBack /\ GivingBack' = GivingBack \ {h}
    BY <1>2, <2>0
  <2>2. /\ IsFiniteSet(GivingBack') /\ Cardinality(GivingBack') = Cardinality(GivingBack) - 1
        /\ Cardinality(GivingBack') \in Nat
    BY <1>5, <2>1, OneLess
  <2>3. voucher'.uses = voucher.uses - 1 /\ voucher'.limited = voucher.limited
    BY <1>1, <1>4, <1>5, <2>0, <2>2, DecrementIs DEF SlotsCounted, Held
  <2>4. Held' = Held - 1 /\ FiniteSlots'
    BY <1>2, <1>5, <2>0, <2>2 DEF Held
  <2> QED
    BY <1>1, <1>2, <2>3, <2>4, LessBalance
<1>11. CASE HookFails(h)
  <2>0. hook'[h].at = "idle" /\ usage' = usage /\ voucher' = voucher /\ "hook_fails" \in world
        /\ faults' = faults + 1
    BY <1>6, <1>11 DEF HookFails, shop, Fault
  <2>1. GivingBack' = GivingBack \ {h}
    BY <1>2, <2>0
  <2>2. /\ IsFiniteSet(GivingBack') /\ Cardinality(GivingBack') \in Nat
        /\ Cardinality(GivingBack') <= Cardinality(GivingBack)
        /\ Cardinality(GivingBack) <= Cardinality(GivingBack') + 1
    <3>1. IsFiniteSet(GivingBack)
      BY <1>5
    <3> QED
      BY <2>1, <3>1, MaybeLess
  <2>3. Held' \in Nat /\ Held' <= Held /\ Held <= Held' + 1
    BY <1>2, <1>5, <2>0, <2>2 DEF Held
  <2>4. FiniteSlots'
    BY <1>2, <1>5, <2>0, <2>2
  <2> QED
    BY <1>1, <1>2, <2>0, <2>3, <2>4, LostSlot
<1> QED
  BY <1>8, <1>9, <1>10, <1>11 DEF Handling

LEMMA NextSlots == Base /\ SlotsInv /\ [Next]_vars => SlotsInv'
<1> SUFFICES ASSUME Base, SlotsInv, [Next]_vars PROVE SlotsInv'
  OBVIOUS
<1>0. Typed /\ faults \in Nat /\ faults <= faults
  BY DEF Base, Typed
<1>1. ASSUME NEW o \in Orders, NEW u \in Users, NEW v \in BOOLEAN, Checkout(o, u, v)
      PROVE  SlotsInv'
  <2>1. /\ checkout[o].at = "none" /\ checkout'[o].at \in {"reserve", "store"}
        /\ checkout'[o].at = "store" => ~checkout'[o].voucher
        /\ \A p \in Orders \ {o} : checkout'[p] = checkout[p]
    BY <1>1, NewCheckout
  <2>2. Reserving' = Reserving /\ Takers' = Takers
    BY <2>1, OrderSets DEF Reserving, Takers
  <2>3. UNCHANGED <<world, faults, voucher, usage, hook>>
    BY <1>1 DEF Checkout
  <2> QED
    BY <1>0, <2>2, <2>3, KeptSlots DEF SlotsKept, GivingBack, HookAt
<1>2. CASE \E o \in Orders : Initiating(o)
  BY <1>2, CheckoutSlots
<1>3. CASE \E o \in Orders, s \in Statuses : Announce(o, s)
  <2>1. UNCHANGED <<world, faults, voucher, usage, checkout, hook>>
    BY <1>3 DEF Announce, shop
  <2> QED
    BY <1>0, <2>1, KeptSlots DEF SlotsKept, GivingBack, HookAt, Reserving, Takers
<1>4. ASSUME NEW h \in Hooks, NEW o \in Orders, NEW s \in Statuses, Receive(h, o, s)
      PROVE  SlotsInv'
  <2>1. GivingBack' = GivingBack
    BY <1>4, ReceiveBase DEF GivingBack, HookAt
  <2>2. UNCHANGED <<world, faults, voucher, usage, checkout>>
    BY <1>4 DEF Receive, shop
  <2> QED
    BY <1>0, <2>1, <2>2, KeptSlots DEF SlotsKept, Reserving, Takers
<1>5. CASE \E h \in Hooks : Handling(h)
  BY <1>5, HookSlots
<1>6. CASE /\ UNCHANGED <<world, faults, checkout, usage, hook>>
           /\ voucher'.uses = voucher.uses /\ voucher'.limited = voucher.limited
  BY <1>0, <1>6, KeptSlots DEF SlotsKept, GivingBack, HookAt, Reserving, Takers
<1> QED
  BY <1>1, <1>2, <1>3, <1>4, <1>5, <1>6, AccessBase DEF Next

\* A voucher's counter covers every slot that somebody holds, is never above its limit, loses
\* one slot at most to a call that throws and none unless a webhook or the undoing of a
\* checkout throws, however checkouts and webhooks interleave.
THEOREM VoucherCounted == Spec => []SlotsCounted
<1>1. Init => Base /\ SlotsInv
  BY BaseInit, SlotsInit
<1>2. Base /\ SlotsInv /\ [Next]_vars => (Base /\ SlotsInv)'
  BY NextBase, NextSlots
<1>3. SlotsInv => SlotsCounted
  BY DEF SlotsInv
<1> QED
  BY <1>1, <1>2, <1>3, PTL DEF Spec

LEMMA PaymentTypes == ASSUME IsFiniteSet(Orders), Base, SlotsInv PROVE TypeOK
<1>1. Cardinality(Takers) <= Cardinality(Orders) /\ Cardinality(Orders) \in Nat
  BY FS_Subset, FS_CardinalityType DEF Takers
<1> QED
  BY <1>1, Counts DEF Base, SlotsInv, TypeOK, Typed

\* Every variable has its type; in particular a shop with finitely many orders never counts a
\* use of the voucher that no order made.
THEOREM TypeCorrect == IsFiniteSet(Orders) => (Spec => []TypeOK)
<1> SUFFICES ASSUME IsFiniteSet(Orders) PROVE Spec => []TypeOK
  OBVIOUS
<1>1. Init => Base /\ SlotsInv
  BY BaseInit, SlotsInit
<1>2. Base /\ SlotsInv /\ [Next]_vars => (Base /\ SlotsInv)'
  BY NextBase, NextSlots
<1>3. Base /\ SlotsInv => TypeOK
  BY PaymentTypes
<1> QED
  BY <1>1, <1>2, <1>3, PTL DEF Spec

----------------------------------------------------------------------------
(* The grant of a paid order *)

\* One request at a time: who is about to grant found the order without a subscription, and
\* expires every subscription its user has.
GrantInv ==
    "concurrent" \notin world =>
        /\ \A h, k \in Hooks : ~HookAt(h, "idle") /\ ~HookAt(k, "idle") => h = k
        /\ \A h \in Hooks : hook[h].at \in {"expire", "create"} => granted[hook[h].order] = 0
        /\ \A h \in Hooks : HookAt(h, "create") =>
              \A o \in Orders : User(o) = User(hook[h].order) /\ active[o] > 0
                                => o \in hook[h].replaces
        /\ \A o \in Orders : active[o] <= granted[o] /\ granted[o] <= 1
        /\ \A o, p \in Orders : User(o) = User(p) /\ active[o] > 0 /\ active[p] > 0 => o = p

LEMMA GrantInit == Init => GrantInv
BY NewRows DEF Init, GrantInv, HookAt

\* What grants nothing keeps it: the orders of the subscriptions keep their users.
GrantKept ==
    /\ world' = world /\ granted' = granted
    /\ \A o \in Orders : active'[o] <= active[o]
    /\ \A o \in Orders : granted[o] > 0 \/ announced[o] # {} => User(o)' = User(o)

LEMMA KeptGrants ==
    ASSUME Base, GrantInv, GrantKept, active' \in [Orders -> Nat], hook' = hook
    PROVE  GrantInv'
<1> SUFFICES ASSUME "concurrent" \notin world
             PROVE  GrantInv'
  BY DEF GrantInv, GrantKept
<1>1. Typed /\ Anchored
  BY DEF Base
<1>2. \A o \in Orders : /\ active[o] \in Nat /\ active'[o] \in Nat /\ granted[o] \in Nat
                        /\ active'[o] <= active[o] /\ active[o] <= granted[o] /\ granted[o] <= 1
  BY <1>1 DEF Typed, GrantInv, GrantKept
<1>3. \A o \in Orders : active'[o] > 0 => active[o] > 0 /\ granted[o] > 0 /\ User(o)' = User(o)
  BY <1>2 DEF GrantKept
<1>4. \A h \in Hooks : HookAt(h, "create") => /\ hook[h].order \in Orders
                                              /\ User(hook[h].order)' = User(hook[h].order)
  BY <1>1 DEF Typed, HookState, Anchored, HookAt, GrantKept
<1>5. \A o \in Orders : active'[o] <= granted'[o] /\ granted'[o] <= 1
  BY <1>2 DEF GrantKept
<1>6. \A o, p \in Orders : User(o)' = User(p)' /\ active'[o] > 0 /\ active'[p] > 0 => o = p
  BY <1>3 DEF GrantInv
<1>7. \A h \in Hooks : HookAt(h, "create") =>
          \A o \in Orders : User(o)' = User(hook[h].order)' /\ active'[o] > 0
                            => o \in hook[h].replaces
  BY <1>3, <1>4 DEF GrantInv
<1> QED
  BY <1>5, <1>6, <1>7 DEF GrantInv, GrantKept, HookAt

LEMMA CheckoutGrants ==
    ASSUME Base, GrantInv, NEW o \in Orders,
           (\E u \in Users, v \in BOOLEAN : Checkout(o, u, v)) \/ Initiating(o)
    PROVE  GrantInv'
<1>1. Typed /\ Anchored
  BY DEF Base
<1>2. CASE \E u \in Users, v \in BOOLEAN : Checkout(o, u, v)
  <2>1. /\ checkout[o].at = "none" /\ \A p \in Orders \ {o} : checkout'[p] = checkout[p]
        /\ UNCHANGED <<world, granted, active, hook>>
    BY <1>2, NewCheckout DEF Checkout, access
  <2>2. announced[o] = {} /\ ~(granted[o] > 0)
    BY <1>1, <2>1 DEF Anchored, Placed
  <2>3. active' \in [Orders -> Nat] /\ \A p \in Orders : active'[p] <= active[p]
    BY <1>1, <2>1 DEF Typed
  <2> QED
    BY <2>1, <2>2, <2>3, KeptGrants DEF GrantKept, User
<1>3. CASE Initiating(o)
  <2>1. CheckoutFrame /\ \A p \in Orders : checkout'[p].user = checkout[p].user
    BY <1>1, <1>3, CheckoutFrameHolds, CheckoutMoves, StepIs
  <2>2. active' \in [Orders -> Nat] /\ \A p \in Orders : active'[p] <= active[p]
    BY <1>1, <2>1 DEF Typed, CheckoutFrame
  <2> QED
    BY <2>1, <2>2, KeptGrants DEF GrantKept, User, CheckoutFrame
<1> QED
  BY <1>2, <1>3

LEMMA ReceiveGrants ==
    ASSUME Base, GrantInv, NEW h \in Hooks, NEW o \in Orders, NEW s \in Statuses, Receive(h, o, s)
    PROVE  GrantInv'
<1> SUFFICES ASSUME "concurrent" \notin world
             PROVE  GrantInv'
  BY DEF GrantInv, Receive
<1>1. /\ \A k \in Hooks : HookAt(k, "idle")
      /\ hook'[h].at = "apply" /\ \A k \in Hooks \ {h} : hook'[k] = hook[k]
      /\ UNCHANGED <<world, checkout, granted, active>>
  BY ReceiveBase DEF Receive, shop, access
<1> QED
  BY <1>1 DEF GrantInv, HookAt, User

\* The steps of a webhook other than the grant itself.
LEMMA HookGrants ==
    ASSUME Base, GrantInv, NEW h \in Hooks, Handling(h)
    PROVE  GrantInv'
<1> SUFFICES ASSUME "concurrent" \notin world
             PROVE  GrantInv'
  BY HookFrameHolds DEF GrantInv, Base, HookFrame
<1>1. /\ Typed /\ Anchored /\ HookFrame /\ ~HookAt(h, "idle")
      /\ hook'[h].at # "idle" => hook'[h].order = hook[h].order
      /\ \A k \in Hooks \ {h} : hook'[k] = hook[k]
  BY HookFrameHolds DEF Base
<1>2. hook[h] \in HookState /\ hook[h].order \in Orders
  BY <1>1 DEF Typed, HookState
<1>3. \A k \in Hooks \ {h} : HookAt(k, "idle") /\ HookAt(k, "idle")'
  BY <1>1 DEF GrantInv, HookAt
<1>4. \A o \in Orders : User(o)' = User(o)
  BY <1>1 DEF HookFrame, User
<1>5. \A o \in Orders : active[o] \in Nat /\ granted[o] \in Nat
  BY <1>1 DEF Typed
<1>6. hook' = [hook EXCEPT ![h] = Idle] => hook'[h].at = "idle"
  BY <1>1, EndIs
<1>7. \A at \in Stages : HookStep(h, at) => hook'[h].at = at
  BY <1>1, HookStepIs
<1>8. CASE GrantCommits(h)
  <2> DEFINE o    == hook[h].order
             kept == [p \in Orders |-> IF p \in hook[h].replaces THEN 0 ELSE active[p]]
  <2>1. /\ granted[o] = 0 /\ active[o] = 0 /\ o \in Orders
        /\ \A p \in Orders : User(p) = User(o) /\ active[p] > 0 => p \in hook[h].replaces
    BY <1>2, <1>5, <1>8 DEF GrantInv, GrantCommits, HookAt
  <2>2. /\ granted' = [granted EXCEPT ![o] = granted[o] + 1]
        /\ active' = [kept EXCEPT ![o] = kept[o] + 1] /\ hook'[h].at = "idle"
    BY <1>6, <1>8 DEF GrantCommits, Acknowledge
  <2>3. kept \in [Orders -> Nat] /\ kept[o] = 0
        /\ \A p \in Orders : /\ kept[p] <= active[p]
                             /\ User(p) = User(o) => kept[p] = 0
    BY <1>5, <2>1
  <2> HIDE DEF o, kept
  <2>4. granted'[o] = 1 /\ \A p \in Orders \ {o} : granted'[p] = granted[p]
    BY <1>1, <2>1, <2>2 DEF Typed
  <2>5. active'[o] = 1 /\ \A p \in Orders \ {o} : active'[p] = kept[p]
    BY <2>1, <2>2, <2>3
  <2>6. \A p \in Orders \ {o} : /\ active'[p] <= active[p] /\ active'[p] \in Nat
                                /\ active'[p] > 0 => active[p] > 0 /\ User(p) # User(o)
    BY <1>5, <2>3, <2>5
  <2>7. \A p \in Orders : active'[p] <= granted'[p] /\ granted'[p] <= 1
    BY <1>5, <2>4, <2>5, <2>6 DEF GrantInv
  <2>8. \A p, q \in Orders : User(p)' = User(q)' /\ active'[p] > 0 /\ active'[q] > 0 => p = q
    BY <1>4, <2>1, <2>6 DEF GrantInv
  <2> QED
    BY <1>3, <2>2, <2>7, <2>8 DEF GrantInv, HookAt
<1>9. CASE ~GrantCommits(h)
  <2>1. UNCHANGED <<granted, active>>
    BY <1>9 DEF Handling, Apply, GrantLooksUp, GrantExpires, HookUnuse, HookGiveBack,
           HookFails, access
  <2>2. hook'[h].at \in {"expire", "create"} => granted[hook'[h].order] = 0
    <3>1. CASE GrantLooksUp(h)
      <4>1. CASE granted[hook[h].order] > 0
        BY <1>6, <3>1, <4>1 DEF GrantLooksUp, Acknowledge
      <4>2. CASE granted[hook[h].order] = 0
        BY <1>1, <1>7, <3>1, <4>2 DEF GrantLooksUp, Stages
      <4> QED
        BY <1>2, <1>5, <4>1, <4>2
    <3>2. CASE GrantExpires(h)
      BY <1>1, <3>2 DEF GrantInv, GrantExpires, HookAt
    <3> QED
      BY <1>6, <1>7, <1>9, <3>1, <3>2 DEF Handling, Apply, HookUnuse, HookGiveBack, HookFails,
         Acknowledge, Stages
  <2>3. hook'[h].at = "create" =>
            \A o \in Orders : User(o) = User(hook'[h].order) /\ active[o] > 0
                              => o \in hook'[h].replaces
    <3>1. CASE GrantExpires(h)
      <4> DEFINE old == {o \in OrdersOf(User(hook[h].order)) : active[o] > 0}
                 r   == [hook[h] EXCEPT !.at = "create", !.replaces = old]
      <4>1. \A o \in Orders : User(o) = User(hook[h].order) /\ active[o] > 0 => o \in old
        <5>1. \A o \in Orders : active[o] > 0 => checkout[o].at # "none"
          BY <1>1, <1>5 DEF GrantInv, Anchored, Placed
        <5> QED
          BY <5>1 DEF OrdersOf
      <4>2. r.replaces = old /\ r.order = hook[h].order
        BY <1>2 DEF HookState
      <4>3. hook' = [hook EXCEPT ![h] = r]
        BY <1>1, <3>1 DEF GrantExpires, Typed
      <4> HIDE DEF r
      <4>4. hook'[h] = r
        BY <1>1, <4>3 DEF Typed
      <4> QED
        BY <4>1, <4>2, <4>4
    <3> QED
      BY <1>6, <1>7, <1>9, <3>1 DEF Handling, Apply, GrantLooksUp, HookUnuse, HookGiveBack,
         HookFails, Acknowledge, Stages
  <2>4. hook'[h].order \in Orders
    BY <1>1, HookFrameHolds DEF HookState
  <2>5. hook'[h].at = "create" =>
            \A o \in Orders : User(o)' = User(hook[h].order)' /\ active'[o] > 0
                              => o \in hook'[h].replaces
    BY <1>1, <1>2, <1>4, <2>1, <2>3
  <2> QED
    BY <1>1, <1>3, <1>4, <2>1, <2>2, <2>5 DEF GrantInv, HookAt
<1> QED
  BY <1>8, <1>9

LEMMA NextGrants == Base /\ GrantInv /\ [Next]_vars => GrantInv'
<1> SUFFICES ASSUME Base, GrantInv, [Next]_vars PROVE GrantInv'
  OBVIOUS
<1>0. Base'
  BY NextBase
<1>1. CASE \E o \in Orders : (\E u \in Users, v \in BOOLEAN : Checkout(o, u, v)) \/ Initiating(o)
  BY <1>1, CheckoutGrants
<1>2. CASE \E h \in Hooks, o \in Orders, s \in Statuses : Receive(h, o, s)
  BY <1>2, ReceiveGrants
<1>3. CASE \E h \in Hooks : Handling(h)
  BY <1>3, HookGrants
<1>4. ASSUME UNCHANGED <<world, checkout, hook, granted>>,
             \A o \in Orders : active'[o] <= active[o]
      PROVE  GrantInv'
  <2>1. active' \in [Orders -> Nat]
    BY <1>0 DEF Base, Typed
  <2> QED
    BY <1>4, <2>1, KeptGrants DEF GrantKept, User
<1>5. CASE \E o \in Orders, s \in Statuses : Announce(o, s)
  <2>1. UNCHANGED <<world, checkout, hook, granted, active>>
    BY <1>5 DEF Announce, shop, access
  <2>2. \A o \in Orders : active'[o] <= active[o]
    BY <2>1 DEF Base, Typed
  <2> QED
    BY <1>4, <2>1, <2>2
<1> QED
  BY <1>1, <1>2, <1>3, <1>4, <1>5, AccessBase DEF Next

\* A payment whose notifications are served one at a time grants one subscription at most, and
\* a user has one active subscription: whatever is announced, repeated, late or retried.
THEOREM PaymentGrantedOnce == Spec => []GrantedOnce
<1>1. Init => Base /\ GrantInv
  BY BaseInit, GrantInit
<1>2. Base /\ GrantInv /\ [Next]_vars => (Base /\ GrantInv)'
  BY NextBase, NextGrants
<1>3. Base /\ GrantInv => GrantedOnce
  <2> SUFFICES ASSUME Typed, GrantInv PROVE GrantedOnce
    BY DEF Base
  <2>1. \A o \in Orders : active[o] \in Nat /\ granted[o] \in Nat
    BY DEF Typed
  <2> QED
    BY <2>1 DEF GrantInv, GrantedOnce
<1> QED
  BY <1>1, <1>2, <1>3, PTL DEF Spec

----------------------------------------------------------------------------
(* BacktestJobs *)

(* The library's lemmas, for the operators BacktestJobs has from it *)

LEMMA SameSize ==
    \A S : /\ Backtest!IsFiniteSet(S) <=> IsFiniteSet(S)
           /\ Backtest!Cardinality(S) = Cardinality(S)
BY DEF Backtest!IsFiniteSet, Backtest!Cardinality, IsFiniteSet, Cardinality

LEMMA SizeIs ==
    ASSUME NEW S, Backtest!IsFiniteSet(S)
    PROVE  Backtest!Cardinality(S) \in Nat
BY SameSize, FS_CardinalityType

LEMMA NoneIs == Backtest!IsFiniteSet({}) /\ Backtest!Cardinality({}) = 0
BY SameSize, FS_EmptySet

LEMMA AddedIs ==
    ASSUME NEW S, Backtest!IsFiniteSet(S), NEW x, x \notin S
    PROVE  /\ Backtest!IsFiniteSet(S \cup {x})
           /\ Backtest!Cardinality(S \cup {x}) = Backtest!Cardinality(S) + 1
BY SameSize, FS_AddElement

LEMMA RemovedIs ==
    ASSUME NEW S, Backtest!IsFiniteSet(S), NEW x, x \in S
    PROVE  /\ Backtest!IsFiniteSet(S \ {x})
           /\ Backtest!Cardinality(S \ {x}) = Backtest!Cardinality(S) - 1
BY SameSize, FS_RemoveElement

----------------------------------------------------------------------------
States == {"none", "queued", "running"} \cup Backtest!Finished

\* The slots: who holds one was dispatched, who may be called waits in the queue while
\* all slots are taken.
SlotInv ==
    /\ Backtest!IsFiniteSet(holding) /\ activeCount = Backtest!Cardinality(holding)
    /\ \A j \in holding : status[j] \notin {"none", "queued"}
    /\ \A j \in Jobs :
          Backtest!Valid(j) => activeCount = MaxWorkers /\ j \in Backtest!ToSet(waitQueue)

JobInv == Backtest!TypeOK /\ SlotInv

----------------------------------------------------------------------------
(* The first element of a sequence that passes a test, and what is left without it *)

LEMMA LeastIndex ==
    ASSUME NEW n \in Nat, NEW I \in SUBSET (1 .. n), I # {}
    PROVE  Backtest!Min(I) \in I /\ \A i \in I : Backtest!Min(I) <= i
<1>1. I \in SUBSET Nat
  OBVIOUS
<1>2. PICK x \in I : \A y \in I : x <= y
  BY <1>1, SmallestNumber
<1> QED
  BY <1>2 DEF Backtest!Min

\* The members of a queue behind a place.
LEMMA Behind ==
    ASSUME NEW q \in Seq(Jobs), NEW i \in 0 .. Len(q)
    PROVE  /\ SubSeq(q, i + 1, Len(q)) \in Seq(Jobs)
           /\ \A k \in (i + 1) .. Len(q) : q[k] \in Backtest!ToSet(SubSeq(q, i + 1, Len(q)))
<1> DEFINE s == SubSeq(q, i + 1, Len(q))
<1>1. Len(q) \in Nat /\ q \in [1 .. Len(q) -> Jobs]
  BY LenProperties
<1>2. \A k \in (i + 1) .. Len(q) : q[k] \in Jobs
  BY <1>1
<1>3. /\ s \in Seq(Jobs) /\ Len(s) = (IF i + 1 <= Len(q) THEN Len(q) - (i + 1) + 1 ELSE 0)
      /\ \A k \in 1 .. Len(q) - (i + 1) + 1 : s[k] = q[i + 1 + k - 1]
  BY <1>1, <1>2, SubSeqProperties
<1> HIDE DEF s
<1>4. DOMAIN s = 1 .. Len(s)
  BY <1>3, LenProperties
<1>5. ASSUME NEW k \in (i + 1) .. Len(q) PROVE q[k] \in Backtest!ToSet(s)
  <2>0. i \in Nat /\ k \in Nat /\ Len(q) \in Nat /\ i + 1 <= k /\ k <= Len(q)
    BY <1>1
  <2>1. k - i \in 1 .. Len(s) /\ k - i \in 1 .. Len(q) - (i + 1) + 1 /\ i + 1 + (k - i) - 1 = k
    <3>1. Len(s) = Len(q) - (i + 1) + 1
      BY <1>3, <2>0
    <3> QED
      BY <2>0, <3>1
  <2>2. s[k - i] = q[k]
    BY <1>3, <2>1
  <2> QED
    BY <1>4, <2>1, <2>2 DEF Backtest!ToSet
<1> QED
  BY <1>3, <1>5 DEF s

\* The members before it.
LEMMA Before ==
    ASSUME NEW q \in Seq(Jobs), NEW i \in 1 .. Len(q)
    PROVE  /\ SubSeq(q, 1, i - 1) \in Seq(Jobs)
           /\ \A k \in 1 .. (i - 1) : q[k] \in Backtest!ToSet(SubSeq(q, 1, i - 1))
<1> DEFINE s == SubSeq(q, 1, i - 1)
<1>1. Len(q) \in Nat /\ q \in [1 .. Len(q) -> Jobs]
  BY LenProperties
<1>2. \A k \in 1 .. (i - 1) : q[k] \in Jobs
  BY <1>1
<1>3. /\ s \in Seq(Jobs) /\ Len(s) = (IF 1 <= i - 1 THEN i - 1 - 1 + 1 ELSE 0)
      /\ \A k \in 1 .. i - 1 - 1 + 1 : s[k] = q[1 + k - 1]
  BY <1>1, <1>2, SubSeqProperties
<1> HIDE DEF s
<1>4. DOMAIN s = 1 .. Len(s)
  BY <1>3, LenProperties
<1>5. ASSUME NEW k \in 1 .. (i - 1) PROVE q[k] \in Backtest!ToSet(s)
  <2>1. k \in 1 .. Len(s) /\ k \in 1 .. i - 1 - 1 + 1 /\ 1 + k - 1 = k
    BY <1>1, <1>3
  <2>2. s[k] = q[k]
    BY <1>3, <2>1
  <2> QED
    BY <1>4, <2>1, <2>2 DEF Backtest!ToSet
<1> QED
  BY <1>3, <1>5 DEF s

LEMMA Joined ==
    ASSUME NEW s \in Seq(Jobs), NEW t \in Seq(Jobs)
    PROVE  /\ s \o t \in Seq(Jobs)
           /\ Backtest!ToSet(s) \cup Backtest!ToSet(t) \subseteq Backtest!ToSet(s \o t)
<1>1. /\ Len(s) \in Nat /\ Len(t) \in Nat /\ DOMAIN s = 1 .. Len(s) /\ DOMAIN t = 1 .. Len(t)
  BY LenProperties
<1>2. /\ s \o t \in Seq(Jobs) /\ Len(s \o t) = Len(s) + Len(t)
      /\ \A i \in 1 .. Len(s) + Len(t) : (s \o t)[i] = IF i <= Len(s) THEN s[i] ELSE t[i - Len(s)]
  BY ConcatProperties
<1>3. DOMAIN (s \o t) = 1 .. Len(s) + Len(t)
  BY <1>2, LenProperties
<1>4. ASSUME NEW i \in DOMAIN s PROVE s[i] \in Backtest!ToSet(s \o t)
  <2>1. i \in 1 .. Len(s) + Len(t) /\ i <= Len(s)
    BY <1>1
  <2> QED
    BY <1>2, <1>3, <2>1 DEF Backtest!ToSet
<1>5. ASSUME NEW i \in DOMAIN t PROVE t[i] \in Backtest!ToSet(s \o t)
  <2>1. i + Len(s) \in 1 .. Len(s) + Len(t) /\ ~(i + Len(s) <= Len(s)) /\ i + Len(s) - Len(s) = i
    BY <1>1
  <2> QED
    BY <1>2, <1>3, <2>1 DEF Backtest!ToSet
<1> QED
  BY <1>2, <1>4, <1>5 DEF Backtest!ToSet

\* Out of the queue goes one job, and all others stay.
LEMMA RemoveFirstIs ==
    ASSUME NEW q \in Seq(Jobs), NEW j \in Jobs
    PROVE  /\ Backtest!RemoveFirst(q, j) \in Seq(Jobs)
           /\ Backtest!ToSet(q) \ {j} \subseteq Backtest!ToSet(Backtest!RemoveFirst(q, j))
<1>1. CASE \E i \in 1 .. Len(q) : q[i] = j
  <2> DEFINE I == {i \in 1 .. Len(q) : q[i] = j}
             n == Backtest!Min(I)
  <2>1. Len(q) \in Nat /\ DOMAIN q = 1 .. Len(q)
    BY LenProperties
  <2>2. n \in I
    BY <1>1, <2>1, LeastIndex
  <2>3. n \in 1 .. Len(q) /\ q[n] = j
    BY <2>2
  <2>4. Backtest!RemoveFirst(q, j) = SubSeq(q, 1, n - 1) \o SubSeq(q, n + 1, Len(q))
    BY <1>1 DEF Backtest!RemoveFirst, Backtest!RemoveAt, Backtest!SelectInSeq
  <2> HIDE DEF n
  <2>5. /\ SubSeq(q, 1, n - 1) \in Seq(Jobs) /\ SubSeq(q, n + 1, Len(q)) \in Seq(Jobs)
        /\ \A k \in 1 .. (n - 1) : q[k] \in Backtest!ToSet(SubSeq(q, 1, n - 1))
        /\ \A k \in (n + 1) .. Len(q) : q[k] \in Backtest!ToSet(SubSeq(q, n + 1, Len(q)))
    <3>1. n \in 0 .. Len(q)
      BY <2>3
    <3> QED
      BY <2>3, <3>1, Before, Behind
  <2>6. \A k \in 1 .. Len(q) : q[k] # j => k \in 1 .. (n - 1) \/ k \in (n + 1) .. Len(q)
    BY <2>1, <2>3
  <2>7. /\ Backtest!RemoveFirst(q, j) \in Seq(Jobs)
        /\ Backtest!ToSet(SubSeq(q, 1, n - 1)) \cup Backtest!ToSet(SubSeq(q, n + 1, Len(q)))
              \subseteq Backtest!ToSet(Backtest!RemoveFirst(q, j))
    BY <2>4, <2>5, Joined
  <2>8. ASSUME NEW k \in 1 .. Len(q), q[k] # j
        PROVE  q[k] \in Backtest!ToSet(Backtest!RemoveFirst(q, j))
    BY <2>5, <2>6, <2>7, <2>8
  <2>9. \A x \in Backtest!ToSet(q) : \E k \in 1 .. Len(q) : x = q[k]
    BY <2>1 DEF Backtest!ToSet
  <2> QED
    BY <2>7, <2>8, <2>9
<1>2. CASE ~ \E i \in 1 .. Len(q) : q[i] = j
  BY <1>2 DEF Backtest!RemoveFirst
<1> QED
  BY <1>1, <1>2

\* The first job of the queue that may be called, and that all others are behind it.
Called == Backtest!SelectInSeq(waitQueue, Backtest!Valid)

LEMMA NextIs ==
    ASSUME Backtest!TypeOK
    PROVE  \/ Called = 0 /\ \A i \in 1 .. Len(waitQueue) : ~Backtest!Valid(waitQueue[i])
           \/ /\ Called \in 1 .. Len(waitQueue) /\ Called > 0 /\ Backtest!Valid(waitQueue[Called])
              /\ \A i \in 1 .. Len(waitQueue) : Backtest!Valid(waitQueue[i]) => Called <= i
<1> DEFINE I == {i \in 1 .. Len(waitQueue) : Backtest!Valid(waitQueue[i])}
<1>1. Len(waitQueue) \in Nat
  BY LenProperties DEF Backtest!TypeOK
<1>2. Called = IF I # {} THEN Backtest!Min(I) ELSE 0
  BY DEF Backtest!SelectInSeq, Called
<1>3. CASE I # {}
  <2>1. Called \in I /\ \A i \in I : Called <= i
    BY <1>1, <1>2, <1>3, LeastIndex
  <2>2. Called \in 1 .. Len(waitQueue) /\ Backtest!Valid(waitQueue[Called])
    BY <2>1
  <2>3. \A i \in 1 .. Len(waitQueue) : Backtest!Valid(waitQueue[i]) => Called <= i
    BY <2>1
  <2>4. Called > 0
    BY <1>1, <2>2
  <2> QED
    BY <2>2, <2>3, <2>4
<1>4. CASE I = {}
  BY <1>2, <1>4
<1> QED
  BY <1>3, <1>4

----------------------------------------------------------------------------
(* The slots *)

\* The statuses a job takes when it is served, cancelled or left alone.
Update(j, now) ==
    /\ now \in [Jobs -> States]
    /\ \A k \in Jobs \ {j} : now[k] = status[k]
    /\ now[j] = "queued" => status[j] = "queued"
    /\ now[j] = "none" => status[j] = "none"

\* A job settles: its slot is free, or already the next one's.
LEMMA SettledSlots ==
    ASSUME Backtest!BacktestJobsAssumption, Backtest!TypeOK, SlotInv, NEW j \in Jobs, NEW now,
          Update(j, now), Backtest!Settled(j, now),
           stored' = stored, aborted \subseteq aborted'
    PROVE  /\ SlotInv'
           /\ status' \in [Jobs -> States] /\ waitQueue' \in Seq(Jobs)
           /\ activeCount' \in 0 .. MaxWorkers /\ holding' \subseteq Jobs
           /\ worker' \in [Jobs -> {"none", "fetch", "compute", "write", "written", "sent", "dead"}]
<1>1. /\ status \in [Jobs -> States] /\ waitQueue \in Seq(Jobs) /\ activeCount \in 0 .. MaxWorkers
      /\ holding \subseteq Jobs /\ Len(waitQueue) \in Nat /\ MaxWorkers \in Nat
      /\ DOMAIN waitQueue = 1 .. Len(waitQueue)
      /\ worker \in [Jobs -> {"none", "fetch", "compute", "write", "written", "sent", "dead"}]
  BY LenProperties DEF Backtest!TypeOK, States, Backtest!BacktestJobsAssumption
<1>2. /\ Backtest!IsFiniteSet(holding) /\ activeCount = Backtest!Cardinality(holding)
      /\ activeCount \in Nat
      /\ \A k \in holding : status[k] \notin {"none", "queued"}
      /\ \A k \in Jobs : Backtest!Valid(k) => activeCount = MaxWorkers
      /\ \A k \in Jobs : Backtest!Valid(k) => \E i \in 1 .. Len(waitQueue) : waitQueue[i] = k
  BY <1>1, SizeIs DEF SlotInv, Backtest!ToSet
<1>3. \A k \in Jobs : /\ now[k] = "queued" => status[k] = "queued"
                      /\ now[k] = "none" => status[k] = "none"
  BY DEF Update
<1>4. CASE j \notin holding
  <2>1. status' = now /\ UNCHANGED <<waitQueue, activeCount, holding, worker>>
    BY <1>4 DEF Backtest!Settled, Backtest!queueing
  <2>2. \A k \in Jobs : Backtest!Valid(k)' => Backtest!Valid(k)
    BY <1>3, <2>1 DEF Backtest!Valid
  <2> QED
    BY <1>1, <1>2, <1>3, <2>1, <2>2 DEF SlotInv, Update
<1>5. CASE j \in holding
  <2> DEFINE n == Called
  <2>0. ~Backtest!Valid(j)
    BY <1>2, <1>5 DEF Backtest!Valid
  <2>1. CASE n > 0
    <3> DEFINE k == waitQueue[n]
    <3>0. /\ n \in 1 .. Len(waitQueue) /\ Backtest!Valid(k)
          /\ \A i \in 1 .. Len(waitQueue) : Backtest!Valid(waitQueue[i]) => n <= i
      BY <2>1, NextIs
    <3>1. /\ n \in 1 .. Len(waitQueue) /\ Backtest!Valid(k) /\ k \in Jobs
          /\ \A i \in 1 .. Len(waitQueue) : Backtest!Valid(waitQueue[i]) => n <= i
      <4>1. k \in Jobs
        <5> HIDE DEF n
        <5> QED
          BY <1>1, <3>0, LenProperties
      <4> QED
        BY <3>0, <4>1
    <3>2. /\ status' = [now EXCEPT ![k] = "running"]
          /\ waitQueue' = SubSeq(waitQueue, n + 1, Len(waitQueue))
          /\ holding' = (holding \ {j}) \cup {k} /\ activeCount' = activeCount
          /\ worker' = [worker EXCEPT ![k] = "fetch"]
      BY <1>5, <2>1 DEF Backtest!Settled, Called
    <3>3. n \in 0 .. Len(waitQueue) /\ n \in Nat
      BY <3>1
    <3> HIDE DEF n
    <3>4. /\ waitQueue' \in Seq(Jobs)
          /\ \A i \in (n + 1) .. Len(waitQueue) : waitQueue[i] \in Backtest!ToSet(waitQueue')
      BY <1>1, <3>2, <3>3, Behind
    <3> HIDE DEF k
    <3>5. /\ k \notin holding /\ k # j
          /\ status'[k] = "running" /\ \A i \in Jobs \ {k} : status'[i] = now[i]
          /\ status' \in [Jobs -> States]
      BY <1>2, <1>5, <3>1, <3>2 DEF Backtest!Valid, Update, States
    <3>6. Backtest!IsFiniteSet(holding') /\ Backtest!Cardinality(holding') = activeCount
      <4>1. /\ Backtest!IsFiniteSet(holding \ {j})
            /\ Backtest!Cardinality(holding \ {j}) = activeCount - 1
        BY <1>2, <1>5, RemovedIs
      <4>2. k \notin holding \ {j}
        BY <3>5
      <4>3. /\ Backtest!IsFiniteSet((holding \ {j}) \cup {k})
            /\ Backtest!Cardinality((holding \ {j}) \cup {k}) = Backtest!Cardinality(holding \ {j})
                  + 1
        BY <4>1, <4>2, AddedIs
      <4> QED
        BY <1>2, <3>2, <4>1, <4>3
    <3>7. \A i \in holding' : status'[i] \notin {"none", "queued"}
      BY <1>1, <1>2, <1>3, <3>2, <3>5
    <3>8. ASSUME NEW i \in Jobs, Backtest!Valid(i)'
          PROVE  activeCount' = MaxWorkers /\ i \in Backtest!ToSet(waitQueue')
      <4>1. Backtest!Valid(i) /\ i # k
        BY <1>3, <3>5, <3>8 DEF Backtest!Valid
      <4>2. PICK p \in 1 .. Len(waitQueue) : waitQueue[p] = i
        BY <1>2, <4>1
      <4>3. n <= p /\ p # n
        BY <3>1, <4>1, <4>2 DEF k
      <4>4. p \in (n + 1) .. Len(waitQueue)
        BY <1>1, <3>3, <4>3
      <4> QED
        BY <1>2, <3>2, <3>4, <4>1, <4>2, <4>4
    <3>9. holding' \subseteq Jobs /\ activeCount' \in 0 .. MaxWorkers
          /\ worker' \in [Jobs -> {"none", "fetch", "compute", "write", "written", "sent", "dead"}]
      BY <1>1, <3>1, <3>2
    <3> QED
      BY <3>2, <3>4, <3>5, <3>6, <3>7, <3>8, <3>9 DEF SlotInv
  <2>2. CASE ~(n > 0)
    <3>1. \A i \in 1 .. Len(waitQueue) : ~Backtest!Valid(waitQueue[i])
      BY <2>2, NextIs
    <3>2. /\ status' = now /\ waitQueue' = <<>> /\ holding' = holding \ {j}
          /\ activeCount' = activeCount - 1 /\ worker' = worker
      BY <1>5, <2>2 DEF Backtest!Settled, Called
    <3>3. Backtest!IsFiniteSet(holding') /\ Backtest!Cardinality(holding') = activeCount - 1
          /\ Backtest!Cardinality(holding') \in Nat
      BY <1>2, <1>5, <3>2, RemovedIs, SizeIs
    <3>4. \A i \in Jobs : ~Backtest!Valid(i)'
      <4>1. \A i \in Jobs : Backtest!Valid(i)' => Backtest!Valid(i)
        BY <1>3, <3>2 DEF Backtest!Valid
      <4> QED
        BY <1>2, <3>1, <4>1
    <3>5. activeCount' \in 0 .. MaxWorkers /\ waitQueue' \in Seq(Jobs)
      BY <1>1, <3>2, <3>3
    <3> QED
      BY <1>1, <1>2, <1>3, <3>2, <3>3, <3>4, <3>5 DEF SlotInv, Update
  <2> QED
    BY <2>1, <2>2
<1> QED
  BY <1>4, <1>5

\* What leaves queue and slots alone and queues nobody.
LEMMA StillSlots ==
    ASSUME SlotInv, UNCHANGED <<waitQueue, activeCount, holding>>,
           stored' \subseteq stored, aborted \subseteq aborted',
           \A k \in Jobs : /\ status'[k] = "queued" => status[k] = "queued"
                           /\ status'[k] = "none" => status[k] = "none",
           holding \subseteq Jobs
    PROVE  SlotInv'
<1>1. \A k \in Jobs : Backtest!Valid(k)' => Backtest!Valid(k)
  BY DEF Backtest!Valid
<1> QED
  BY <1>1 DEF SlotInv

LEMMA CreateKeeps ==
    ASSUME Backtest!BacktestJobsAssumption, JobInv, NEW j \in Jobs, Backtest!Create(j)
    PROVE  JobInv'
<1>1. /\ Backtest!TypeOK /\ status \in [Jobs -> States] /\ status[j] = "none"
      /\ Backtest!IsFiniteSet(holding) /\ activeCount = Backtest!Cardinality(holding)
      /\ waitQueue \in Seq(Jobs) /\ Len(waitQueue) \in Nat
      /\ DOMAIN waitQueue = 1 .. Len(waitQueue)
      /\ activeCount \in 0 .. MaxWorkers /\ holding \subseteq Jobs /\ MaxWorkers \in Nat
  BY LenProperties DEF JobInv, Backtest!TypeOK, SlotInv, Backtest!Create, States,
                       Backtest!BacktestJobsAssumption
<1>2. CASE activeCount >= MaxWorkers
  <2>1. /\ status' = [status EXCEPT ![j] = "queued"] /\ waitQueue' = Append(waitQueue, j)
        /\ stored' = stored \cup {j} /\ UNCHANGED <<activeCount, holding, worker, aborted>>
    BY <1>2 DEF Backtest!Create, Backtest!Set
  <2>2. /\ waitQueue' \in Seq(Jobs) /\ Len(waitQueue') = Len(waitQueue) + 1
        /\ \A i \in 1 .. Len(waitQueue) : waitQueue'[i] = waitQueue[i]
        /\ waitQueue'[Len(waitQueue) + 1] = j
    BY <1>1, <2>1, AppendProperties
  <2>3. DOMAIN waitQueue' = 1 .. Len(waitQueue) + 1
    BY <2>2, LenProperties
  <2>4. Backtest!ToSet(waitQueue) \cup {j} \subseteq Backtest!ToSet(waitQueue')
    <3>1. \A i \in 1 .. Len(waitQueue) : i \in DOMAIN waitQueue'
      BY <1>1, <2>3
    <3>2. Len(waitQueue) + 1 \in DOMAIN waitQueue'
      BY <1>1, <2>3
    <3> QED
      BY <1>1, <2>2, <3>1, <3>2 DEF Backtest!ToSet
  <2>5. activeCount = MaxWorkers
    BY <1>1, <1>2
  <2>6. \A k \in Jobs : Backtest!Valid(k)' => Backtest!Valid(k) \/ k = j
    BY <1>1, <2>1 DEF Backtest!Valid
  <2>7. SlotInv'
    BY <1>1, <2>1, <2>4, <2>5, <2>6 DEF JobInv, SlotInv
  <2>8. Backtest!TypeOK'
    BY <1>1, <1>2, <2>1, <2>2 DEF Backtest!TypeOK, Backtest!Create, States
  <2> QED
    BY <2>7, <2>8 DEF JobInv
<1>3. CASE ~(activeCount >= MaxWorkers)
  <2>1. /\ status' = [status EXCEPT ![j] = "running"] /\ waitQueue' = waitQueue
        /\ activeCount' = activeCount + 1 /\ holding' = holding \cup {j}
        /\ worker' = [worker EXCEPT ![j] = "fetch"]
        /\ stored' = stored \cup {j} /\ UNCHANGED aborted
    BY <1>3 DEF Backtest!Create, Backtest!Set
  <2>2. activeCount + 1 \in 0 .. MaxWorkers
    BY <1>1, <1>3
  <2>3. j \notin holding
    BY <1>1 DEF JobInv, SlotInv
  <2>4. Backtest!IsFiniteSet(holding') /\ activeCount' = Backtest!Cardinality(holding')
    BY <1>1, <2>1, <2>3, AddedIs
  <2>5. \A k \in Jobs : ~Backtest!Valid(k)'
    <3>1. activeCount # MaxWorkers
      BY <1>1, <1>3
    <3>2. \A k \in Jobs : Backtest!Valid(k)' => Backtest!Valid(k)
      BY <1>1, <2>1 DEF Backtest!Valid
    <3> QED
      BY <3>1, <3>2 DEF JobInv, SlotInv
  <2>6. \A k \in holding' : status'[k] \notin {"none", "queued"}
    BY <1>1, <2>1 DEF JobInv, SlotInv
  <2>7. Backtest!TypeOK'
    BY <1>1, <1>3, <2>1, <2>2 DEF Backtest!TypeOK, Backtest!Create, States
  <2> QED
    BY <2>4, <2>5, <2>6, <2>7 DEF JobInv, SlotInv
<1> QED
  BY <1>2, <1>3

\* A job is served, or cancelled while it has a slot.
LEMMA SettleKeeps ==
    ASSUME Backtest!BacktestJobsAssumption, JobInv, NEW j \in Jobs, NEW now, Update(j, now),
          Backtest!Settled(j, now),
           stored' = stored, aborted \subseteq aborted', aborted' \subseteq Jobs,
           UNCHANGED <<allowed, file, result>>,
           killed' \subseteq Jobs, ipcSettled' \subseteq Jobs, resultFile' \subseteq Jobs,
           mail' \in [Jobs -> SUBSET {"done", "error", "exit"}],
           reader' \in [Jobs -> [Backtest!Readers -> {"none", "read", "unlink", "loaded"}]],
           stream' \in [Jobs -> {"none", "open", "empty", "result"} \cup Backtest!Finished]
    PROVE  JobInv'
BY SettledSlots DEF JobInv, Backtest!TypeOK, States

LEMMA HearsTypes ==
    ASSUME Backtest!TypeOK, NEW j \in Jobs, NEW event \in {"result"} \cup Backtest!Finished,
          Backtest!Hears(j, event)
    PROVE  stream' \in [Jobs -> {"none", "open", "empty", "result"} \cup Backtest!Finished]
BY DEF Backtest!TypeOK, Backtest!Hears

LEMMA ReadTypes ==
    ASSUME Backtest!TypeOK, NEW j \in Jobs, NEW r \in Backtest!Readers,
           NEW at \in {"none", "read", "unlink", "loaded"}, Backtest!Read(j, r, at)
    PROVE  reader' \in [Jobs -> [Backtest!Readers -> {"none", "read", "unlink", "loaded"}]]
<1>1. reader[j] \in [Backtest!Readers -> {"none", "read", "unlink", "loaded"}]
  BY DEF Backtest!TypeOK
<1>2. [reader[j] EXCEPT ![r] = at] \in [Backtest!Readers -> {"none", "read", "unlink", "loaded"}]
  BY <1>1
<1> QED
  BY <1>2 DEF Backtest!TypeOK, Backtest!Read

LEMMA ServeKeeps ==
    ASSUME Backtest!BacktestJobsAssumption, JobInv, NEW j \in Jobs, Backtest!Serving(j)
    PROVE  JobInv'
<1>1. /\ Backtest!TypeOK /\ status \in [Jobs -> States] /\ j \in Jobs
      /\ {aborted, killed, ipcSettled, resultFile} \subseteq SUBSET Jobs
      /\ \A x \in Backtest!Finished : Update(j, [status EXCEPT ![j] = x])
      /\ Update(j, status)
  BY DEF JobInv, Backtest!TypeOK, Update, States, Backtest!Finished
<1>2. ASSUME NEW m, Backtest!Served(j, m)
      PROVE  mail' \in [Jobs -> SUBSET {"done", "error", "exit"}]
  BY <1>1, <1>2 DEF Backtest!TypeOK, Backtest!Served
<1>3. UNCHANGED stream
         => stream' \in [Jobs -> {"none", "open", "empty", "result"} \cup Backtest!Finished]
  BY <1>1 DEF Backtest!TypeOK
<1>4. CASE Backtest!ServeDone(j)
  <2>1. "done" \in Backtest!Finished /\ "loader" \in Backtest!Readers
    BY DEF Backtest!Finished, Backtest!Readers
  <2>2. reader' \in [Jobs -> [Backtest!Readers -> {"none", "read", "unlink", "loaded"}]]
    BY <1>1, <1>4, <2>1, ReadTypes DEF Backtest!ServeDone
  <2>3. /\ mail' \in [Jobs -> SUBSET {"done", "error", "exit"}]
        /\ killed' \subseteq Jobs /\ ipcSettled' \subseteq Jobs /\ resultFile' \subseteq Jobs
    BY <1>1, <1>2, <1>4 DEF Backtest!ServeDone, Backtest!Kill
  <2>4. /\ Backtest!Settled(j, [status EXCEPT ![j] = "done"])
        /\ UNCHANGED <<allowed, stored, aborted, file, result, stream>>
    BY <1>4 DEF Backtest!ServeDone
  <2> QED
    BY <1>1, <1>3, <2>1, <2>2, <2>3, <2>4, SettleKeeps
<1>5. CASE Backtest!ServeError(j)
  <2>1. "error" \in Backtest!Finished
    BY DEF Backtest!Finished
  <2>2. /\ mail' \in [Jobs -> SUBSET {"done", "error", "exit"}]
        /\ killed' \subseteq Jobs /\ ipcSettled' \subseteq Jobs /\ resultFile' \subseteq Jobs
        /\ UNCHANGED <<allowed, stored, aborted, file, result, reader>>
    BY <1>1, <1>2, <1>5 DEF Backtest!ServeError, Backtest!Kill
  <2>3. reader' \in [Jobs -> [Backtest!Readers -> {"none", "read", "unlink", "loaded"}]]
    BY <1>1, <2>2 DEF Backtest!TypeOK
  <2>4. PICK now \in {status, [status EXCEPT ![j] = "error"]} :
            Backtest!Settled(j, now) /\ (UNCHANGED stream \/ Backtest!Hears(j, "error"))
    BY <1>5 DEF Backtest!ServeError
  <2>5. stream' \in [Jobs -> {"none", "open", "empty", "result"} \cup Backtest!Finished]
    BY <1>1, <1>3, <2>1, <2>4, HearsTypes
  <2> QED
    BY <1>1, <2>1, <2>2, <2>3, <2>4, <2>5, SettleKeeps
<1>6. CASE Backtest!ServeExit(j)
  <2>1. "error" \in Backtest!Finished
    BY DEF Backtest!Finished
  <2>2. /\ mail' \in [Jobs -> SUBSET {"done", "error", "exit"}]
        /\ UNCHANGED <<allowed, stored, aborted, killed, ipcSettled, file, resultFile, result,
                       reader>>
    BY <1>1, <1>2, <1>6 DEF Backtest!ServeExit
  <2>3. reader' \in [Jobs -> [Backtest!Readers -> {"none", "read", "unlink", "loaded"}]]
    BY <1>1, <2>2 DEF Backtest!TypeOK
  <2>4. PICK now \in {status, [status EXCEPT ![j] = "error"]} :
            Backtest!Settled(j, now) /\ (UNCHANGED stream \/ Backtest!Hears(j, "error"))
    BY <1>6 DEF Backtest!ServeExit
  <2>5. stream' \in [Jobs -> {"none", "open", "empty", "result"} \cup Backtest!Finished]
    BY <1>1, <1>3, <2>1, <2>4, HearsTypes
  <2> QED
    BY <1>1, <2>1, <2>2, <2>3, <2>4, <2>5, SettleKeeps
<1> QED
  BY <1>4, <1>5, <1>6 DEF Backtest!Serving

\* Cancelled while it waits, a job leaves the queue and nobody else does.
LEMMA CancelKeeps ==
    ASSUME Backtest!BacktestJobsAssumption, JobInv, NEW j \in Jobs, Backtest!Cancel(j)
    PROVE  JobInv'
<1>1. /\ Backtest!TypeOK /\ status \in [Jobs -> States] /\ waitQueue \in Seq(Jobs)
      /\ {aborted, killed, ipcSettled, resultFile, holding} \subseteq SUBSET Jobs
      /\ Update(j, [status EXCEPT ![j] = "cancelled"])
  BY DEF JobInv, Backtest!TypeOK, Update, States, Backtest!Finished
<1>2. /\ stream' \in [Jobs -> {"none", "open", "empty", "result"} \cup Backtest!Finished]
      /\ aborted' = aborted \cup {j} /\ killed' \subseteq Jobs
      /\ UNCHANGED <<allowed, stored, mail, ipcSettled, file, resultFile, result, reader>>
  <2>1. "cancelled" \in Backtest!Finished
    BY DEF Backtest!Finished
  <2> QED
    BY <1>1, <2>1, HearsTypes DEF Backtest!Cancel
<1>3. CASE j \in holding
  <2>1. Backtest!Settled(j, [status EXCEPT ![j] = "cancelled"])
    BY <1>3 DEF Backtest!Cancel
  <2>2. /\ mail' \in [Jobs -> SUBSET {"done", "error", "exit"}]
        /\ reader' \in [Jobs -> [Backtest!Readers -> {"none", "read", "unlink", "loaded"}]]
        /\ ipcSettled' \subseteq Jobs /\ resultFile' \subseteq Jobs /\ aborted' \subseteq Jobs
    BY <1>1, <1>2 DEF Backtest!TypeOK
  <2>3. aborted \subseteq aborted' /\ stored' = stored /\ UNCHANGED <<allowed, file, result>>
    BY <1>2
  <2> QED
    BY <1>1, <1>2, <2>1, <2>2, <2>3, SettleKeeps
<1>4. CASE j \notin holding
  <2>1. /\ status' = [status EXCEPT ![j] = "cancelled"]
        /\ waitQueue' = Backtest!RemoveFirst(waitQueue, j)
        /\ UNCHANGED <<activeCount, holding, worker>>
    BY <1>4 DEF Backtest!Cancel, Backtest!Set
  <2>2. /\ waitQueue' \in Seq(Jobs)
        /\ Backtest!ToSet(waitQueue) \ {j} \subseteq Backtest!ToSet(waitQueue')
    BY <1>1, <2>1, RemoveFirstIs
  <2>3. \A k \in Jobs : Backtest!Valid(k)' => Backtest!Valid(k) /\ k # j
    BY <1>1, <1>2, <2>1 DEF Backtest!Valid
  <2>4. SlotInv'
    BY <1>1, <1>4, <2>1, <2>2, <2>3 DEF JobInv, SlotInv
  <2>5. Backtest!TypeOK'
    BY <1>1, <1>2, <2>1, <2>2 DEF Backtest!TypeOK, States, Backtest!Finished
  <2> QED
    BY <2>4, <2>5 DEF JobInv
<1> QED
  BY <1>3, <1>4

\* Workers, readers, clients and the cleanup touch neither queue nor slots.
LEMMA OthersKeep ==
    ASSUME JobInv, NEW j \in Jobs,
           \/ Backtest!GetResult(j) \/ Backtest!Purge(j) \/ Backtest!OpenStream(j)
           \/ Backtest!Working(j) \/ Backtest!WorkerExits(j)
           \/ \E r \in Backtest!Readers : Backtest!Reading(j, r)
    PROVE  JobInv'
<1>1. /\ Backtest!TypeOK /\ SlotInv /\ holding \subseteq Jobs /\ status \in [Jobs -> States]
  BY DEF JobInv, Backtest!TypeOK, States
<1>2. UNCHANGED <<waitQueue, activeCount, holding, aborted>> /\ stored' \subseteq stored
  BY DEF Backtest!GetResult, Backtest!Purge, Backtest!OpenStream, Backtest!Working,
         Backtest!WorkerExits, Backtest!Reading, Backtest!WorkerFetches, Backtest!WorkerComputes,
         Backtest!WorkerWrites, Backtest!WorkerSends, Backtest!WorkerThrows, Backtest!ReadFile,
         Backtest!ReadFails, Backtest!Unlink, Backtest!Loaded, Backtest!queueing
<1>3. status' = status \/ status' = [status EXCEPT ![j] = "error"]
  BY DEF Backtest!GetResult, Backtest!Purge, Backtest!OpenStream, Backtest!Working,
         Backtest!WorkerExits, Backtest!Reading, Backtest!WorkerFetches, Backtest!WorkerComputes,
         Backtest!WorkerWrites, Backtest!WorkerSends, Backtest!WorkerThrows, Backtest!ReadFile,
         Backtest!ReadFails, Backtest!Unlink, Backtest!Loaded, Backtest!Fail, Backtest!Set
<1>4. SlotInv'
  <2>1. \A k \in Jobs : /\ status'[k] = "queued" => status[k] = "queued"
                        /\ status'[k] = "none" => status[k] = "none"
    BY <1>1, <1>3
  <2> QED
    BY <1>1, <1>2, <2>1, StillSlots
<1>5. Backtest!TypeOK'
  <2>1. status' \in [Jobs -> States]
    BY <1>1, <1>3 DEF States, Backtest!Finished
  <2>2. /\ killed' \subseteq Jobs /\ file' \subseteq Jobs /\ resultFile' \subseteq Jobs
        /\ result' \subseteq Jobs /\ UNCHANGED <<allowed, ipcSettled>>
    BY <1>1 DEF Backtest!TypeOK, Backtest!GetResult, Backtest!Purge, Backtest!OpenStream,
                Backtest!Working, Backtest!WorkerExits, Backtest!Reading, Backtest!WorkerFetches,
                Backtest!WorkerComputes, Backtest!WorkerWrites, Backtest!WorkerSends,
                Backtest!WorkerThrows, Backtest!ReadFile, Backtest!ReadFails, Backtest!Unlink,
                Backtest!Loaded
  <2>3. /\ worker' \in [Jobs -> {"none", "fetch", "compute", "write", "written", "sent", "dead"}]
        /\ mail' \in [Jobs -> SUBSET {"done", "error", "exit"}]
    <3>1. CASE Backtest!Working(j) \/ Backtest!WorkerExits(j)
      <4>1. PICK at \in {"compute", "write", "written", "sent", "dead"} : Backtest!Process(j, at)
        BY <3>1 DEF Backtest!Working, Backtest!WorkerFetches, Backtest!WorkerComputes,
                    Backtest!WorkerWrites, Backtest!WorkerSends, Backtest!WorkerThrows,
                    Backtest!WorkerExits
      <4>2. mail' = mail \/ \E m \in {"done", "error", "exit"} : Backtest!Send(j, m)
        BY <3>1 DEF Backtest!Working, Backtest!WorkerFetches, Backtest!WorkerComputes,
                    Backtest!WorkerWrites, Backtest!WorkerSends, Backtest!WorkerThrows,
                    Backtest!WorkerExits
      <4>3. mail' \in [Jobs -> SUBSET {"done", "error", "exit"}]
        BY <1>1, <4>2 DEF Backtest!TypeOK, Backtest!Send
      <4> QED
        BY <1>1, <4>1, <4>3 DEF Backtest!TypeOK, Backtest!Process
    <3>2. CASE UNCHANGED <<worker, mail>>
      BY <1>1, <3>2 DEF Backtest!TypeOK
    <3> QED
      BY <3>1, <3>2 DEF Backtest!GetResult, Backtest!Purge, Backtest!OpenStream, Backtest!Reading,
                        Backtest!ReadFile, Backtest!ReadFails, Backtest!Unlink, Backtest!Loaded
  <2>4. reader' \in [Jobs -> [Backtest!Readers -> {"none", "read", "unlink", "loaded"}]]
    <3>1. \/ reader' = reader
          \/ \E r \in Backtest!Readers, at \in {"none", "read", "unlink", "loaded"} :
                Backtest!Read(j, r, at)
      BY DEF Backtest!GetResult, Backtest!Purge, Backtest!OpenStream, Backtest!Working,
             Backtest!WorkerExits, Backtest!Reading, Backtest!WorkerFetches,
             Backtest!WorkerComputes, Backtest!WorkerWrites, Backtest!WorkerSends,
             Backtest!WorkerThrows, Backtest!ReadFile, Backtest!ReadFails, Backtest!Unlink,
             Backtest!Loaded, Backtest!Readers
    <3> QED
      BY <1>1, <3>1, ReadTypes DEF Backtest!TypeOK
  <2>5. stream' \in [Jobs -> {"none", "open", "empty", "result"} \cup Backtest!Finished]
    <3>1. CASE Backtest!OpenStream(j)
      BY <1>1, <3>1 DEF Backtest!TypeOK, Backtest!OpenStream, Backtest!Finished
    <3>2. CASE stream' = stream \/ Backtest!Hears(j, "error") \/ Backtest!Hears(j, "result")
      BY <1>1, <3>2, HearsTypes DEF Backtest!TypeOK, Backtest!Finished
    <3> QED
      BY <3>1, <3>2 DEF Backtest!GetResult, Backtest!Purge, Backtest!Working, Backtest!WorkerExits,
                        Backtest!Reading, Backtest!WorkerFetches, Backtest!WorkerComputes,
                        Backtest!WorkerWrites, Backtest!WorkerSends, Backtest!WorkerThrows,
                        Backtest!ReadFile, Backtest!ReadFails, Backtest!Unlink, Backtest!Loaded,
                        Backtest!Fail
  <2> QED
    BY <1>1, <1>2, <2>1, <2>2, <2>3, <2>4, <2>5 DEF Backtest!TypeOK, States
<1> QED
  BY <1>4, <1>5 DEF JobInv

LEMMA InitJobs == ASSUME Backtest!BacktestJobsAssumption, Backtest!Init PROVE JobInv
<1>1. Backtest!TypeOK
  BY DEF Backtest!Init, Backtest!TypeOK, Backtest!BacktestJobsAssumption, Backtest!Readers
<1>2. SlotInv
  BY NoneIs DEF Backtest!Init, SlotInv, Backtest!Valid
<1> QED
  BY <1>1, <1>2 DEF JobInv

LEMMA NextJobs ==
    ASSUME Backtest!BacktestJobsAssumption, JobInv, [Backtest!Next]_(Backtest!vars)
    PROVE  JobInv'
<1>1. CASE UNCHANGED Backtest!vars
  BY <1>1 DEF JobInv, Backtest!TypeOK, SlotInv, Backtest!Valid, Backtest!vars, Backtest!queueing
<1>2. CASE Backtest!Next
  BY <1>2, CreateKeeps, CancelKeeps, ServeKeeps, OthersKeep DEF Backtest!Next
<1> QED
  BY <1>1, <1>2

\* Every variable has its type; in particular no more workers run than allowed.
THEOREM JobTypeCorrect == Backtest!BacktestJobsAssumption => (Backtest!Spec => []Backtest!TypeOK)
<1> SUFFICES ASSUME Backtest!BacktestJobsAssumption PROVE Backtest!Spec => []Backtest!TypeOK
  OBVIOUS
<1>1. JobInv => Backtest!TypeOK
  BY DEF JobInv
<1> QED
  BY <1>1, InitJobs, NextJobs, PTL DEF Backtest!Spec

\* However jobs end, fail, stall and are cancelled, each gives its slot back exactly once, and
\* a job that waits is in the queue with every slot taken.
THEOREM SlotsGivenOn == Backtest!BacktestJobsAssumption => (Backtest!Spec => []Backtest!SlotsMove)
<1> SUFFICES ASSUME Backtest!BacktestJobsAssumption PROVE Backtest!Spec => []Backtest!SlotsMove
  OBVIOUS
<1>1. JobInv => Backtest!SlotsMove
  BY DEF JobInv, SlotInv, Backtest!SlotsMove
<1> QED
  BY <1>1, InitJobs, NextJobs, PTL DEF Backtest!Spec
----------------------------------------------------------------------------
(* A result is kept *)

\* As long as clients do not ask for the result themselves: a worker sends its result or an
\* error, never both and after it nothing else, and the file is there until the parent that
\* was told of it has read it.
Kept(j) ==
    /\ status[j] \in {"none", "queued"} => worker[j] = "none" /\ mail[j] = {}
    /\ worker[j] \in {"none", "fetch", "compute", "write", "written"} =>
          /\ "done" \notin mail[j] /\ "error" \notin mail[j] /\ status[j] # "done"
          /\ j \notin resultFile /\ reader[j]["loader"] = "none"
    /\ worker[j] = "written" => j \in file
    /\ "error" \in mail[j] => "done" \notin mail[j] /\ status[j] # "done"
    /\ "done" \in mail[j] => j \in file /\ j \notin resultFile /\ reader[j]["loader"] = "none"
    /\ reader[j]["loader"] = "read" => j \in file
    /\ reader[j]["client"] = "none"

KeptInv == "fetch" \notin allowed => \A j \in Jobs : Kept(j)

\* A job whose turn it is not: at most it is called.
Beside(k) ==
    /\ mail'[k] = mail[k] /\ reader'[k] = reader[k]
    /\ k \in file' <=> k \in file
    /\ k \in resultFile' <=> k \in resultFile
    /\ \/ status'[k] = status[k] /\ worker'[k] = worker[k]
       \/ status[k] = "queued" /\ status'[k] = "running" /\ worker'[k] = "fetch"

LEMMA BesideKept == ASSUME NEW k \in Jobs, Kept(k), Beside(k) PROVE Kept(k)'
BY DEF Kept, Beside

\* What settling leaves of statuses and workers.
LEMMA SettledMoves ==
    ASSUME JobInv, NEW j \in Jobs, NEW now, Update(j, now), Backtest!Settled(j, now)
    PROVE  /\ status'[j] = now[j] /\ worker'[j] = worker[j]
           /\ \A k \in Jobs \ {j} :
                 \/ status'[k] = status[k] /\ worker'[k] = worker[k]
                 \/ status[k] = "queued" /\ status'[k] = "running" /\ worker'[k] = "fetch"
<1>1. /\ now \in [Jobs -> States] /\ worker \in [Jobs -> {"none", "fetch", "compute", "write",
                                                         "written", "sent", "dead"}]
      /\ \A k \in Jobs \ {j} : now[k] = status[k]
  BY DEF Update, JobInv, Backtest!TypeOK
<1>2. CASE status' = now /\ worker' = worker
  BY <1>1, <1>2
<1>3. CASE j \in holding /\ Called > 0
  <2> DEFINE k == waitQueue[Called]
  <2>1. Called \in 1 .. Len(waitQueue) /\ Backtest!Valid(k)
    BY <1>3, NextIs DEF JobInv
  <2>2. k \in Jobs
    BY <2>1, LenProperties DEF JobInv, Backtest!TypeOK
  <2>3. status' = [now EXCEPT ![k] = "running"] /\ worker' = [worker EXCEPT ![k] = "fetch"]
    BY <1>3 DEF Backtest!Settled, Called
  <2> HIDE DEF k
  <2>4. status[k] = "queued" /\ k # j
    BY <1>3, <2>1 DEF Backtest!Valid, JobInv, SlotInv
  <2> QED
    BY <1>1, <2>2, <2>3, <2>4
<1> QED
  BY <1>2, <1>3 DEF Backtest!Settled, Called

\* The same with the status that the job has got, and with none.
LEMMA SettledAs ==
    ASSUME JobInv, NEW j \in Jobs, NEW x \in Backtest!Finished, Backtest!Settled(j, [status EXCEPT
          ![j] = x])
    PROVE  /\ status'[j] = x /\ worker'[j] = worker[j]
           /\ \A k \in Jobs \ {j} :
                 \/ status'[k] = status[k] /\ worker'[k] = worker[k]
                 \/ status[k] = "queued" /\ status'[k] = "running" /\ worker'[k] = "fetch"
<1> DEFINE now == [status EXCEPT ![j] = x]
<1>1. status \in [Jobs -> States]
  BY DEF JobInv, Backtest!TypeOK, States
<1>2. now[j] = x /\ Update(j, now)
  BY <1>1 DEF Update, States, Backtest!Finished
<1>3. Backtest!Settled(j, now)
  OBVIOUS
<1> HIDE DEF now
<1> QED
  BY <1>2, <1>3, SettledMoves

LEMMA SettledSame ==
    ASSUME JobInv, NEW j \in Jobs, Backtest!Settled(j, status)
    PROVE  /\ status'[j] = status[j] /\ worker'[j] = worker[j]
           /\ \A k \in Jobs \ {j} :
                 \/ status'[k] = status[k] /\ worker'[k] = worker[k]
                 \/ status[k] = "queued" /\ status'[k] = "running" /\ worker'[k] = "fetch"
<1>1. Update(j, status)
  BY DEF JobInv, Backtest!TypeOK, Update, States
<1> QED
  BY <1>1, SettledMoves

LEMMA CreateKept ==
    ASSUME JobInv, NEW j \in Jobs, Backtest!Create(j), NEW k \in Jobs, Kept(k)
    PROVE  Kept(k)' /\ (status'[k] = status[k] \/ status'[k] # "error")
<1>1. /\ status \in [Jobs -> States] /\ status[j] = "none"
      /\ UNCHANGED <<mail, file, resultFile, reader>>
      /\ worker \in [Jobs -> {"none", "fetch", "compute", "write", "written", "sent", "dead"}]
  BY DEF JobInv, Backtest!TypeOK, Backtest!Create, States
<1>2. \/ Backtest!Set(j, "queued") /\ worker' = worker
      \/ Backtest!Set(j, "running") /\ worker' = [worker EXCEPT ![j] = "fetch"]
  BY DEF Backtest!Create
<1> QED
  BY <1>1, <1>2 DEF Kept, Backtest!Set

LEMMA WorkerKept ==
    ASSUME JobInv, NEW j \in Jobs, Backtest!Working(j) \/ Backtest!WorkerExits(j), Kept(j)
    PROVE  Kept(j)' /\ status' = status /\ \A k \in Jobs \ {j} : Beside(k)
<1>1. /\ worker \in [Jobs -> {"none", "fetch", "compute", "write", "written", "sent", "dead"}]
      /\ mail \in [Jobs -> SUBSET {"done", "error", "exit"}]
  BY DEF JobInv, Backtest!TypeOK
<1>2. UNCHANGED <<status, resultFile, reader>>
  BY DEF Backtest!Working, Backtest!WorkerExits, Backtest!WorkerFetches, Backtest!WorkerComputes,
         Backtest!WorkerWrites, Backtest!WorkerSends, Backtest!WorkerThrows
<1>3. CASE Backtest!WorkerFetches(j)
  BY <1>1, <1>3 DEF Backtest!WorkerFetches, Backtest!Process, Kept, Beside
<1>4. CASE Backtest!WorkerComputes(j)
  BY <1>1, <1>4 DEF Backtest!WorkerComputes, Backtest!Process, Kept, Beside
<1>5. CASE Backtest!WorkerWrites(j)
  BY <1>1, <1>5 DEF Backtest!WorkerWrites, Backtest!Process, Kept, Beside
<1>6. CASE Backtest!WorkerSends(j)
  BY <1>1, <1>6 DEF Backtest!WorkerSends, Backtest!Process, Backtest!Send, Kept, Beside
<1>7. CASE Backtest!WorkerThrows(j)
  BY <1>1, <1>7 DEF Backtest!WorkerThrows, Backtest!Process, Backtest!Send, Kept, Beside
<1>8. CASE Backtest!WorkerExits(j)
  BY <1>1, <1>8 DEF Backtest!WorkerExits, Backtest!Process, Backtest!Send, Kept, Beside
<1> QED
  BY <1>2, <1>3, <1>4, <1>5, <1>6, <1>7, <1>8 DEF Backtest!Working

\* An error is served only of a job that is not done, an exit does not touch one that is.
LEMMA ServeKept ==
    ASSUME JobInv, NEW j \in Jobs, Backtest!Serving(j), Kept(j)
    PROVE  /\ Kept(j)' /\ \A k \in Jobs \ {j} : Beside(k)
           /\ status[j] = "done" => status'[j] # "error"
<1>1. /\ mail \in [Jobs -> SUBSET {"done", "error", "exit"}]
      /\ reader \in [Jobs -> [Backtest!Readers -> {"none", "read", "unlink", "loaded"}]]
      /\ status \in [Jobs -> States]
      /\ worker \in [Jobs -> {"none", "fetch", "compute", "write", "written", "sent", "dead"}]
  BY DEF JobInv, Backtest!TypeOK, States
<1>3. CASE Backtest!ServeDone(j)
  <2>1. /\ status'[j] = "done" /\ worker'[j] = worker[j]
        /\ \A k \in Jobs \ {j} :
              \/ status'[k] = status[k] /\ worker'[k] = worker[k]
              \/ status[k] = "queued" /\ status'[k] = "running" /\ worker'[k] = "fetch"
    BY <1>3, SettledAs DEF Backtest!ServeDone, Backtest!Finished
  <2>2. /\ "done" \in mail[j] /\ mail' = [mail EXCEPT ![j] = @ \ {"done"}]
        /\ resultFile' = resultFile \cup {j} /\ Backtest!Read(j, "loader", "read") /\ file' = file
    BY <1>3 DEF Backtest!ServeDone, Backtest!Served
  <2>3. /\ reader'[j]["loader"] = "read" /\ reader'[j]["client"] = reader[j]["client"]
        /\ \A k \in Jobs \ {j} : reader'[k] = reader[k]
    BY <1>1, <2>2 DEF Backtest!Read, Backtest!Readers
  <2>4. Kept(j)'
    BY <1>1, <2>1, <2>2, <2>3 DEF Kept
  <2> QED
    BY <1>1, <2>1, <2>2, <2>3, <2>4 DEF Beside
<1>4. CASE Backtest!ServeError(j)
  <2>1. "error" \in mail[j] /\ mail' = [mail EXCEPT ![j] = @ \ {"error"}]
        /\ UNCHANGED <<resultFile, reader, file>>
    BY <1>4 DEF Backtest!ServeError, Backtest!Served
  <2>2. /\ status'[j] \in {status[j], "error"} /\ worker'[j] = worker[j]
        /\ \A k \in Jobs \ {j} :
              \/ status'[k] = status[k] /\ worker'[k] = worker[k]
              \/ status[k] = "queued" /\ status'[k] = "running" /\ worker'[k] = "fetch"
    BY <1>4, SettledAs, SettledSame DEF Backtest!ServeError, Backtest!Finished
  <2>3. Kept(j)'
    BY <1>1, <2>1, <2>2 DEF Kept
  <2> QED
    BY <1>1, <2>1, <2>2, <2>3 DEF Beside, Kept
<1>5. CASE Backtest!ServeExit(j)
  <2>1. "exit" \in mail[j] /\ mail' = [mail EXCEPT ![j] = @ \ {"exit"}]
        /\ UNCHANGED <<resultFile, reader, file>>
    BY <1>5 DEF Backtest!ServeExit, Backtest!Served
  <2>2. /\ \/ status'[j] = status[j]
           \/ status[j] \in {"running", "queued"} /\ status'[j] = "error"
        /\ worker'[j] = worker[j]
        /\ \A k \in Jobs \ {j} :
              \/ status'[k] = status[k] /\ worker'[k] = worker[k]
              \/ status[k] = "queued" /\ status'[k] = "running" /\ worker'[k] = "fetch"
    <3>1. CASE j \notin ipcSettled /\ status[j] \in {"running", "queued"}
      BY <1>5, <3>1, SettledAs DEF Backtest!ServeExit, Backtest!Finished
    <3>2. CASE ~(j \notin ipcSettled /\ status[j] \in {"running", "queued"})
      BY <1>5, <3>2, SettledSame DEF Backtest!ServeExit
    <3> QED
      BY <3>1, <3>2
  <2>3. Kept(j)'
    BY <1>1, <2>1, <2>2 DEF Kept
  <2> QED
    BY <1>1, <2>1, <2>2, <2>3 DEF Beside
<1> QED
  BY <1>3, <1>4, <1>5 DEF Backtest!Serving

LEMMA CancelKept ==
    ASSUME JobInv, NEW j \in Jobs, Backtest!Cancel(j), Kept(j)
    PROVE  Kept(j)' /\ status'[j] # "error" /\ \A k \in Jobs \ {j} : Beside(k)
<1>1. status \in [Jobs -> States] /\ UNCHANGED <<mail, reader, file, resultFile>>
  BY DEF JobInv, Backtest!TypeOK, Backtest!Cancel, States
<1>3. /\ status'[j] = "cancelled" /\ worker'[j] = worker[j]
      /\ \A k \in Jobs \ {j} :
            \/ status'[k] = status[k] /\ worker'[k] = worker[k]
            \/ status[k] = "queued" /\ status'[k] = "running" /\ worker'[k] = "fetch"
  <2>1. CASE j \in holding
    BY <2>1, SettledAs DEF Backtest!Cancel, Backtest!Finished
  <2>2. CASE j \notin holding
    BY <1>1, <2>2 DEF Backtest!Cancel, Backtest!Set
  <2> QED
    BY <2>1, <2>2
<1> QED
  BY <1>1, <1>3 DEF Kept, Beside

\* The parent's own reading, the cleanup and the streams, as long as no client reads.
LEMMA ReadKept ==
    ASSUME JobInv, NEW j \in Jobs, Kept(j), "fetch" \notin allowed,
           \/ Backtest!Purge(j) \/ Backtest!OpenStream(j)
           \/ \E r \in Backtest!Readers : Backtest!Reading(j, r)
    PROVE  /\ Kept(j)' /\ \A k \in Jobs \ {j} : Beside(k)
           /\ status[j] = "done" => status'[j] # "error"
<1>1. /\ reader \in [Jobs -> [Backtest!Readers -> {"none", "read", "unlink", "loaded"}]]
      /\ status \in [Jobs -> States]
  BY DEF JobInv, Backtest!TypeOK, States
<1>2. UNCHANGED <<mail, worker>>
  BY DEF Backtest!Purge, Backtest!OpenStream, Backtest!Reading, Backtest!ReadFile,
         Backtest!ReadFails, Backtest!Unlink, Backtest!Loaded
<1>3. CASE Backtest!Purge(j)
  BY <1>1, <1>2, <1>3 DEF Backtest!Purge, Backtest!Fail, Backtest!Set, Kept, Beside,
                          Backtest!Readers
<1>4. CASE Backtest!OpenStream(j)
  BY <1>2, <1>4 DEF Backtest!OpenStream, Kept, Beside
<1>5. CASE \E r \in Backtest!Readers : Backtest!Reading(j, r)
  <2>1. Backtest!Reading(j, "loader")
    BY <1>5 DEF Backtest!Reading, Backtest!ReadFile, Backtest!ReadFails, Backtest!Unlink,
                Backtest!Loaded, Kept, Backtest!Readers
  <2>2. reader[j]["loader"] # "none" /\ ~Backtest!ReadFails(j, "loader")
    BY <2>1 DEF Backtest!Reading, Backtest!ReadFile, Backtest!ReadFails, Backtest!Unlink,
                Backtest!Loaded, Kept
  <2>3. PICK at \in {"unlink", "loaded", "none"} : Backtest!Read(j, "loader", at)
    BY <2>1 DEF Backtest!Reading, Backtest!ReadFile, Backtest!ReadFails, Backtest!Unlink,
                Backtest!Loaded
  <2>4. /\ reader'[j]["loader"] = at /\ reader'[j]["client"] = reader[j]["client"]
        /\ \A k \in Jobs \ {j} : reader'[k] = reader[k]
    BY <1>1, <2>3 DEF Backtest!Read, Backtest!Readers
  <2>5. status' = status /\ file \ {j} \subseteq file' /\ file' \subseteq file
        /\ resultFile \ {j} \subseteq resultFile' /\ resultFile' \subseteq resultFile
    BY <2>1, <2>2 DEF Backtest!Reading, Backtest!ReadFile, Backtest!Unlink, Backtest!Loaded
  <2> QED
    BY <1>2, <2>2, <2>3, <2>4, <2>5 DEF Kept, Beside
<1> QED
  BY <1>3, <1>4, <1>5

\* One step: KeptInv holds on, and no job that is done fails.
LEMMA NextKept ==
    ASSUME JobInv, KeptInv, [Backtest!Next]_(Backtest!vars)
    PROVE  /\ KeptInv'
           /\ \A j \in Jobs : status[j] = "done" /\ status'[j] = "error" => "fetch" \in allowed
<1>1. allowed' = allowed
  BY DEF Backtest!Next, Backtest!vars, Backtest!Create, Backtest!GetResult, Backtest!Cancel,
         Backtest!Purge, Backtest!OpenStream, Backtest!Working, Backtest!WorkerFetches,
         Backtest!WorkerComputes, Backtest!WorkerWrites, Backtest!WorkerSends,
         Backtest!WorkerThrows, Backtest!WorkerExits, Backtest!Serving, Backtest!ServeDone,
         Backtest!ServeError, Backtest!ServeExit, Backtest!Reading, Backtest!ReadFile,
         Backtest!ReadFails, Backtest!Unlink, Backtest!Loaded
<1> SUFFICES ASSUME "fetch" \notin allowed
             PROVE  \A k \in Jobs : Kept(k)' /\ ~(status[k] = "done" /\ status'[k] = "error")
  BY <1>1 DEF KeptInv
<1>2. \A k \in Jobs : Kept(k)
  BY DEF KeptInv
<1>3. CASE UNCHANGED Backtest!vars
  BY <1>2, <1>3 DEF Backtest!vars, Kept
<1>4. ASSUME NEW j \in Jobs,
             \/ Backtest!Create(j) \/ Backtest!Cancel(j) \/ Backtest!Purge(j)
             \/ Backtest!OpenStream(j) \/ Backtest!Working(j) \/ Backtest!WorkerExits(j)
             \/ Backtest!Serving(j) \/ \E r \in Backtest!Readers : Backtest!Reading(j, r)
      PROVE  \A k \in Jobs : Kept(k)' /\ ~(status[k] = "done" /\ status'[k] = "error")
  <2>1. CASE Backtest!Create(j)
    BY <1>2, <2>1, CreateKept
  <2>2. CASE ~Backtest!Create(j)
    <3>1. /\ Kept(j)' /\ \A k \in Jobs \ {j} : Beside(k)
          /\ ~(status[j] = "done" /\ status'[j] = "error")
      BY <1>2, <1>4, <2>2, WorkerKept, ServeKept, CancelKept, ReadKept
    <3>2. \A k \in Jobs \ {j} : Kept(k)'
      BY <1>2, <3>1, BesideKept
    <3> QED
      BY <3>1, <3>2 DEF Beside
  <2> QED
    BY <2>1, <2>2
<1>5. \A j \in Jobs : ~Backtest!GetResult(j)
  BY DEF Backtest!GetResult
<1> QED
  BY <1>3, <1>4, <1>5 DEF Backtest!Next

LEMMA InitKept == ASSUME Backtest!Init PROVE KeptInv
BY DEF Backtest!Init, KeptInv, Kept, Backtest!Readers

\* A result that arrived stays: neither the exit of its worker nor the cleanup nor the parent's
\* own reading of the file turns it into an error. Only a client that reads the file beside
\* the parent does.
THEOREM ResultStays == Backtest!BacktestJobsAssumption => (Backtest!Spec => Backtest!ResultKept)
<1> SUFFICES ASSUME Backtest!BacktestJobsAssumption PROVE Backtest!Spec => Backtest!ResultKept
  OBVIOUS
<1>1. Backtest!Init => JobInv /\ KeptInv
  BY InitJobs, InitKept
<1>2. JobInv /\ KeptInv /\ [Backtest!Next]_(Backtest!vars) => JobInv' /\ KeptInv'
  BY NextJobs, NextKept
<1>3. JobInv /\ KeptInv /\ [Backtest!Next]_(Backtest!vars)
        => [\A j \in Jobs :
               status[j] = "done" /\ status'[j] = "error" => "fetch" \in allowed]_(Backtest!vars)
  BY NextKept
<1> QED
  BY <1>1, <1>2, <1>3, PTL DEF Backtest!Spec, Backtest!ResultKept


----------------------------------------------------------------------------
(* MCServices: a step is a step of one service, or of none *)

LEMMA OneServes == [MCNext]_all => [Next]_vars /\ [Backtest!Next]_(Backtest!vars)
<1>1. UNCHANGED jobs => UNCHANGED Backtest!vars
  BY DEF jobs, Backtest!vars, Backtest!queueing
<1>2. UNCHANGED all => UNCHANGED vars /\ UNCHANGED jobs
  BY DEF all
<1> QED
  BY <1>1, <1>2 DEF MCNext

\* Checkouts, webhooks and backtests have their types, whichever service runs.
THEOREM ServicesTyped == IsFiniteSet(Orders) => (MCSpec => []TypesOK)
<1> SUFFICES ASSUME IsFiniteSet(Orders) PROVE MCSpec => []TypesOK
  OBVIOUS
<1>1. MCInit => Base /\ SlotsInv /\ JobInv
  BY BaseInit, SlotsInit, InitJobs, ServicesAssumption DEF MCInit
<1>2. Base /\ SlotsInv /\ JobInv /\ [MCNext]_all => (Base /\ SlotsInv /\ JobInv)'
  BY OneServes, NextBase, NextSlots, NextJobs, ServicesAssumption
<1>3. Base /\ SlotsInv /\ JobInv => TypesOK
  BY PaymentTypes DEF TypesOK, JobInv
<1> QED
  BY <1>1, <1>2, <1>3, PTL DEF MCSpec

\* In MCServices, too, each job gives its slot back exactly once, and a job that waits is in
\* the queue with every slot taken.
THEOREM ServicesSlots == MCSpec => []SlotsMove
<1>1. MCInit => JobInv
  BY InitJobs, ServicesAssumption DEF MCInit
<1>2. JobInv /\ [MCNext]_all => JobInv'
  BY OneServes, NextJobs, ServicesAssumption
<1>3. JobInv => SlotsMove
  BY DEF JobInv, SlotInv, SlotsMove, Backtest!SlotsMove
<1> QED
  BY <1>1, <1>2, <1>3, PTL DEF MCSpec
=============================================================================
