------------------------------ MODULE Payments ------------------------------
(***************************************************************************)
(* Payments through Midtrans (PaymentService): checkouts that reserve a    *)
(* slot of a voucher, the webhook that moves a payment from status to      *)
(* status, and the subscription a paid order grants.                       *)
(*                                                                         *)
(* A step is the code between two awaits on the database or the gateway.   *)
(* Checkouts and webhooks run concurrently; a webhook carries the payment  *)
(* it loaded (seen) past its later awaits.  The gateway may deliver what   *)
(* it announced of an order in any order and any number of times, and it   *)
(* repeats a notification until it is acknowledged.                        *)
(***************************************************************************)
EXTENDS Naturals, FiniteSets

CONSTANTS Users, Orders, Hooks,
          MaxUses, MaxUsesPerUser,   \* of the one voucher
          MaxAnnounced,              \* bound on statuses announced of one order
          MaxFaults,                 \* bound on faults in a behaviour
          Worlds                     \* what may happen, a set of sets of EventKinds

Statuses == {"PENDING", "CHALLENGE", "PAID", "FAILED", "EXPIRED", "REFUNDED"}

\* Statuses the gateway may announce, and
EventKinds == Statuses \cup
          {"voucher",      \* checkouts with the voucher
           "concurrent",   \* a second notification while one is handled
           "store_fails",  \* the transaction that creates the payment throws
           "snap_fails",   \* the gateway or the update of the snap token throws
           "catch_fails",  \* so does what initiatePayment undoes then, which it swallows
           "hook_fails",   \* an await of a webhook throws
           "deactivate",   \* an admin deletes or deactivates the voucher
           "lapse",        \* a paid period ends
           "switch"}       \* the user subscribes or unsubscribes without a payment

ASSUME PaymentsAssumption ==
    /\ {MaxUses, MaxUsesPerUser, MaxAnnounced} \subseteq Nat \ {0} /\ MaxFaults \in Nat
    /\ Worlds \subseteq SUBSET EventKinds
    /\ Users # {} /\ Orders # {}

VARIABLES world,         \* the events of this behaviour, chosen once
          faults,        \* how many things threw
          voucher,       \* its row
          checkout,      \* initiatePayment of each order
          payment,       \* status of its row
          usage,         \* orders with a VoucherUsage row
          gateway,       \* what Midtrans last decided
          announced,     \* and all it announced of each order
          due,           \* announcements not acknowledged yet
          hook,          \* webhook requests
          granted,       \* subscriptions created for each order
          active,        \* of which ACTIVE
          lapsed,        \* orders whose period is over
          legacyTier     \* userStrategy.tier

vars == <<world, faults, voucher, checkout, payment, usage, gateway, announced, due,
          hook, granted, active, lapsed, legacyTier>>
shop    == <<voucher, checkout, usage>>
bank    == <<gateway, announced>>
access  == <<granted, active, lapsed, legacyTier>>

TerminalFail == {"FAILED", "EXPIRED"}

\* mapTransactionStatus keeps these apart; a denied attempt may be followed by a paid one.
Successors(s) ==
    CASE s = "open"      -> {"PENDING", "CHALLENGE", "PAID", "FAILED", "EXPIRED"}
      [] s = "PENDING"   -> {"PAID", "FAILED", "EXPIRED"}
      [] s = "CHALLENGE" -> {"PAID", "FAILED"}
      [] s = "FAILED"    -> {"PAID"}
      [] s = "PAID"      -> {"REFUNDED"}
      [] OTHER           -> {}

NotMade == [at |-> "none", user |-> CHOOSE u \in Users : TRUE, voucher |-> FALSE]
Idle    == [at |-> "idle", order |-> CHOOSE o \in Orders : TRUE, new |-> "PENDING",
            seen |-> "PENDING", replaces |-> {}]

User(o)     == checkout[o].user
OrdersOf(u) == {o \in Orders : checkout[o].at # "none" /\ User(o) = u}
UsedBy(u)   == Cardinality({o \in usage : User(o) = u})

Step(o, at) == checkout' = [checkout EXCEPT ![o].at = at]
Fault(kind) == kind \in world /\ faults < MaxFaults /\ faults' = faults + 1

\* .catch(() => {}): a call that failed is passed over.  It follows a fault, which bounds it.
Swallow == "catch_fails" \in world /\ faults' = faults + 1

Increment == voucher' = [voucher EXCEPT !.uses = @ + 1]

\* releaseVoucher: decrement, never below zero.
Decrement == voucher' = [voucher EXCEPT !.uses = IF @ > 0 THEN @ - 1 ELSE 0]
----------------------------------------------------------------------------
(* initiatePayment *)

\* validateAndApplyVoucher: the voucher's row, then the user's count.
VoucherValid(u) ==
    /\ voucher.active
    /\ voucher.limited => voucher.uses < MaxUses
    /\ UsedBy(u) < MaxUsesPerUser

Checkout(o, u, withVoucher) ==
    /\ checkout[o].at = "none"
    /\ withVoucher => "voucher" \in world /\ VoucherValid(u)
    /\ checkout' = [checkout EXCEPT ![o] =
                       [at |-> IF withVoucher THEN "reserve" ELSE "store",
                        user |-> u, voucher |-> withVoucher]]
    /\ UNCHANGED <<world, faults, voucher, payment, usage, bank, due, hook, access>>

\* The conditional increment, whose count says whether the slot was there; a voucher
\* without a limit is incremented whatever became of it since.
ReserveSlot(o) ==
    /\ checkout[o].at = "reserve"
    /\ IF voucher.limited => voucher.active /\ voucher.uses < MaxUses
       THEN Increment /\ Step(o, "store")
       ELSE Step(o, "refused") /\ UNCHANGED voucher
    /\ UNCHANGED <<world, faults, payment, usage, bank, due, hook, access>>

StorePayment(o) ==
    /\ checkout[o].at = "store"
    /\ payment' = [payment EXCEPT ![o] = "PENDING"]
    /\ usage' = IF checkout[o].voucher THEN usage \cup {o} ELSE usage
    /\ Step(o, "snap")
    /\ UNCHANGED <<world, faults, voucher, bank, due, hook, access>>

StoreFails(o) ==
    /\ checkout[o].at = "store" /\ Fault("store_fails")
    /\ Step(o, IF checkout[o].voucher THEN "unreserve" ELSE "refused")
    /\ UNCHANGED <<world, voucher, payment, usage, bank, due, hook, access>>

Unreserve(o) ==
    /\ checkout[o].at = "unreserve"
    /\ Decrement
    /\ Step(o, "refused")
    /\ UNCHANGED <<world, faults, payment, usage, bank, due, hook, access>>

UnreserveFails(o) ==
    /\ checkout[o].at = "unreserve" /\ Swallow
    /\ Step(o, "refused")
    /\ UNCHANGED <<world, voucher, payment, usage, bank, due, hook, access>>

OpenSnap(o) ==
    /\ checkout[o].at = "snap"
    /\ Step(o, "open")
    /\ gateway' = [gateway EXCEPT ![o] = "open"]
    /\ UNCHANGED <<world, faults, voucher, payment, usage, announced, due, hook, access>>

\* The catch: FAILED, unless that write fails too, then the slot is returned through the
\* usage row.  The gateway knows the order when the update of the snap token threw.
SnapFails(o) ==
    /\ checkout[o].at = "snap" /\ Fault("snap_fails")
    /\ gateway' \in {gateway, [gateway EXCEPT ![o] = "open"]}
    /\ \/ payment' = [payment EXCEPT ![o] = "FAILED"]
       \/ "catch_fails" \in world /\ UNCHANGED payment
    /\ Step(o, IF checkout[o].voucher THEN "unuse" ELSE "failed")
    /\ UNCHANGED <<world, voucher, usage, announced, due, hook, access>>

\* releaseVoucherForPayment: only who deletes the usage row decrements.
Unuse(o) ==
    /\ checkout[o].at = "unuse"
    /\ usage' = usage \ {o}
    /\ Step(o, IF o \in usage THEN "giveback" ELSE "failed")
    /\ UNCHANGED <<world, faults, voucher, payment, bank, due, hook, access>>

GiveBack(o) ==
    /\ checkout[o].at = "giveback"
    /\ Decrement
    /\ Step(o, "failed")
    /\ UNCHANGED <<world, faults, payment, usage, bank, due, hook, access>>

\* releaseVoucherForPayment throws, before or after the usage row is deleted.
ReleaseFails(o) ==
    /\ checkout[o].at \in {"unuse", "giveback"} /\ Swallow
    /\ Step(o, "failed")
    /\ UNCHANGED <<world, voucher, payment, usage, bank, due, hook, access>>

\* DELETE or PATCH of the voucher by an admin.
Deactivate ==
    /\ voucher.active /\ "deactivate" \in world
    /\ voucher' = [voucher EXCEPT !.active = FALSE]
    /\ UNCHANGED <<world, faults, checkout, payment, usage, bank, due, hook, access>>
----------------------------------------------------------------------------
(* The gateway *)

Announce(o, s) ==
    /\ gateway[o] # "none"
    /\ s \in Successors(gateway[o]) \cap world /\ Cardinality(announced[o]) < MaxAnnounced
    /\ gateway' = [gateway EXCEPT ![o] = s]
    /\ announced' = [announced EXCEPT ![o] = @ \cup {s}]
    /\ due' = due \cup {<<o, s>>}
    /\ UNCHANGED <<world, faults, shop, payment, hook, access>>
----------------------------------------------------------------------------
(* handleWebhookNotification *)

HookAt(h, at) == hook[h].at = at
HookStep(h, at) == hook' = [hook EXCEPT ![h].at = at]

\* The 2xx answer: the gateway stops repeating the notification.
Acknowledge(h) ==
    /\ hook' = [hook EXCEPT ![h] = Idle]
    /\ due' = due \ {<<hook[h].order, hook[h].new>>}

\* The signature holds and the payment is loaded.
Receive(h, o, s) ==
    /\ HookAt(h, "idle") /\ s \in announced[o]
    /\ h = CHOOSE k \in Hooks : HookAt(k, "idle")
    /\ "concurrent" \in world \/ \A k \in Hooks : HookAt(k, "idle")
    /\ hook' = [hook EXCEPT ![h] = [at |-> "apply", order |-> o, new |-> s,
                                    seen |-> payment[o], replaces |-> {}]]
    /\ UNCHANGED <<world, faults, shop, payment, bank, due, access>>

\* Mutant: only a payment that is still PENDING moves.
ApplyPending(h) ==
    LET o == hook[h].order  s == hook[h].new IN
    /\ HookAt(h, "apply")
    /\ IF hook[h].seen # "PENDING" THEN Acknowledge(h) /\ UNCHANGED payment
       ELSE /\ payment' = [payment EXCEPT ![o] = s]
            /\ IF s = "PAID" THEN HookStep(h, "grant") /\ UNCHANGED due
               ELSE IF s \in TerminalFail /\ checkout[o].voucher
                    THEN HookStep(h, "unuse") /\ UNCHANGED due
                    ELSE Acknowledge(h)
    /\ UNCHANGED <<world, faults, shop, bank, access>>

\* Idempotency on the status loaded before; then the status is written, and what it
\* brings about follows.
Apply(h) ==
    LET o == hook[h].order  s == hook[h].new IN
    /\ HookAt(h, "apply")
    /\ IF hook[h].seen = s THEN Acknowledge(h) /\ UNCHANGED payment
       ELSE /\ payment' = [payment EXCEPT ![o] = s]
            /\ IF s = "PAID" THEN HookStep(h, "grant") /\ UNCHANGED due
               ELSE IF s \in TerminalFail /\ checkout[o].voucher
                    THEN HookStep(h, "unuse") /\ UNCHANGED due
                    ELSE Acknowledge(h)
    /\ UNCHANGED <<world, faults, shop, bank, access>>

\* Mutant: only the status of the payment is trusted.
GrantUnasked(h) ==
    /\ HookAt(h, "grant")
    /\ HookStep(h, "expire")
    /\ UNCHANGED <<world, faults, shop, payment, bank, due, access>>

\* grantSubscription: a subscription of this payment ends it.
GrantLooksUp(h) ==
    /\ HookAt(h, "grant")
    /\ IF granted[hook[h].order] > 0
       THEN Acknowledge(h)
       ELSE HookStep(h, "expire") /\ UNCHANGED due
    /\ UNCHANGED <<world, faults, shop, payment, bank, access>>

\* The transaction: the statement that expires the old subscriptions sees those
\* committed when it starts, and what another transaction commits later stays ACTIVE.
GrantExpires(h) ==
    /\ HookAt(h, "expire")
    /\ hook' = [hook EXCEPT ![h].at = "create",
                            ![h].replaces = {o \in OrdersOf(User(hook[h].order)) : active[o] > 0}]
    /\ UNCHANGED <<world, faults, shop, payment, bank, due, access>>

GrantCommits(h) ==
    LET o == hook[h].order
        kept == [p \in Orders |-> IF p \in hook[h].replaces THEN 0 ELSE active[p]] IN
    /\ HookAt(h, "create")
    /\ granted' = [granted EXCEPT ![o] = @ + 1]
    /\ active' = [kept EXCEPT ![o] = @ + 1]
    /\ legacyTier' = [legacyTier EXCEPT ![User(o)] = "paid"]
    /\ Acknowledge(h)
    /\ UNCHANGED <<world, faults, shop, payment, bank, lapsed>>

\* Mutant: whoever gets here decrements.
HookUnuseAlways(h) ==
    LET o == hook[h].order IN
    /\ HookAt(h, "unuse")
    /\ usage' = usage \ {o}
    /\ HookStep(h, "giveback")
    /\ UNCHANGED <<world, faults, voucher, checkout, payment, bank, due, access>>

HookUnuse(h) ==
    LET o == hook[h].order IN
    /\ HookAt(h, "unuse")
    /\ usage' = usage \ {o}
    /\ IF o \in usage THEN HookStep(h, "giveback") /\ UNCHANGED due ELSE Acknowledge(h)
    /\ UNCHANGED <<world, faults, voucher, checkout, payment, bank, access>>

HookGiveBack(h) ==
    /\ HookAt(h, "giveback")
    /\ Decrement
    /\ Acknowledge(h)
    /\ UNCHANGED <<world, faults, checkout, usage, payment, bank, access>>

\* An await throws: an answer that is not 2xx, and the notification stays due.
HookFails(h) ==
    /\ ~HookAt(h, "idle") /\ Fault("hook_fails")
    /\ hook' = [hook EXCEPT ![h] = Idle]
    /\ UNCHANGED <<world, shop, payment, bank, due, access>>
----------------------------------------------------------------------------
(* entitlement and the subscription routes *)

Current(u) == {o \in OrdersOf(u) : active[o] > 0 /\ o \notin lapsed}

\* getUserTier: a current subscription, then, for one who never had any, the legacy tier.
UserTier(u) ==
    IF Current(u) # {} THEN "paid"
    ELSE IF \E o \in OrdersOf(u) : granted[o] > 0 THEN "free"
    ELSE legacyTier[u]

\* POST subscribe and POST unsubscribe write the legacy tier.
ChangeTier(u, tier) ==
    /\ UserTier(u) # tier /\ "switch" \in world
    /\ legacyTier' = [legacyTier EXCEPT ![u] = tier]
    /\ UNCHANGED <<world, faults, shop, payment, bank, due, hook, granted, active, lapsed>>

\* The period of the subscriptions of an order ends.
Lapse(o) ==
    /\ granted[o] > 0 /\ o \notin lapsed /\ "lapse" \in world
    /\ lapsed' = lapsed \cup {o}
    /\ UNCHANGED <<world, faults, shop, payment, bank, due, hook, granted, active, legacyTier>>

\* getActiveSubscription sets a lapsed one it meets to EXPIRED.
Sweep(o) ==
    /\ o \in lapsed /\ active[o] > 0
    /\ active' = [active EXCEPT ![o] = @ - 1]
    /\ UNCHANGED <<world, faults, shop, payment, bank, due, hook, granted, lapsed, legacyTier>>
----------------------------------------------------------------------------
Init ==
    /\ world \in Worlds /\ faults = 0
    /\ voucher \in [active : BOOLEAN, limited : BOOLEAN, uses : {0}]
    /\ voucher.active /\ ("voucher" \notin world => voucher.limited)
    /\ checkout = [o \in Orders |-> NotMade]
    /\ payment = [o \in Orders |-> "none"]
    /\ usage = {}
    /\ gateway = [o \in Orders |-> "none"]
    /\ announced = [o \in Orders |-> {}]
    /\ due = {}
    /\ hook = [h \in Hooks |-> Idle]
    /\ granted = [o \in Orders |-> 0] /\ active = [o \in Orders |-> 0] /\ lapsed = {}
    /\ legacyTier = [u \in Users |-> "free"]

Initiating(o) ==
    \/ ReserveSlot(o) \/ StorePayment(o) \/ StoreFails(o) \/ Unreserve(o) \/ UnreserveFails(o)
    \/ OpenSnap(o) \/ SnapFails(o) \/ Unuse(o) \/ GiveBack(o) \/ ReleaseFails(o)

Handling(h) ==
    \/ Apply(h) \/ GrantLooksUp(h) \/ GrantExpires(h) \/ GrantCommits(h)
    \/ HookUnuse(h) \/ HookGiveBack(h) \/ HookFails(h)

Next ==
    \/ \E o \in Orders, u \in Users, v \in BOOLEAN : Checkout(o, u, v)
    \/ \E o \in Orders : Initiating(o) \/ Lapse(o) \/ Sweep(o)
    \/ \E o \in Orders, s \in Statuses : Announce(o, s)
    \/ \E h \in Hooks, o \in Orders, s \in Statuses : Receive(h, o, s)
    \/ \E h \in Hooks : Handling(h)
    \/ \E u \in Users, t \in {"free", "paid"} : ChangeTier(u, t)
    \/ Deactivate

\* Node carries every request on; Midtrans repeats what was not acknowledged.
Redeliver(o, s) == <<o, s>> \in due /\ \E h \in Hooks : Receive(h, o, s)
Fairness ==
    /\ \A o \in Orders : WF_vars(Initiating(o))
    /\ \A h \in Hooks : WF_vars(Handling(h))
    /\ \A o \in Orders : SF_vars(Redeliver(o, "PAID"))

Spec == Init /\ [][Next]_vars /\ Fairness
----------------------------------------------------------------------------
(* Properties *)

CheckoutState == [at : {"none", "reserve", "store", "snap", "unreserve", "unuse",
                        "giveback", "open", "failed", "refused"},
                  user : Users, voucher : BOOLEAN]
HookState     == [at : {"idle", "apply", "grant", "expire", "create", "unuse", "giveback"},
                  order : Orders, new : Statuses, seen : Statuses, replaces : SUBSET Orders]

Typed ==
    /\ world \in Worlds /\ faults \in Nat
    /\ voucher \in [active : BOOLEAN, limited : BOOLEAN, uses : Nat]
    /\ checkout \in [Orders -> CheckoutState]
    /\ payment \in [Orders -> Statuses \cup {"none"}]
    /\ usage \subseteq Orders /\ lapsed \subseteq Orders
    /\ gateway \in [Orders -> Statuses \cup {"none", "open"}]
    /\ announced \in [Orders -> SUBSET Statuses]
    /\ due \subseteq Orders \X Statuses
    /\ hook \in [Hooks -> HookState]
    /\ granted \in [Orders -> Nat] /\ active \in [Orders -> Nat]
    /\ legacyTier \in [Users -> {"free", "paid"}]

\* The types, and the counter of the voucher never counts an order twice.
TypeOK == Typed /\ voucher.uses <= Cardinality(Orders)

\* Slots of the voucher that somebody holds: a usage row, a checkout between reserving
\* and storing or giving back, a webhook about to give back.
Reserving  == {o \in Orders : checkout[o].voucher
                              /\ checkout[o].at \in {"store", "unreserve", "giveback"}}
GivingBack == {h \in Hooks : HookAt(h, "giveback")}
Held == Cardinality(usage) + Cardinality(Reserving) + Cardinality(GivingBack)

\* However checkouts and webhooks interleave, fail and repeat, the counter covers every
\* slot held, a limited voucher has no more slots held than it has, a call that throws
\* costs the voucher one slot at most, and as long as neither a webhook nor what a failed
\* checkout undoes throws, a slot that is given up returns.  It is about slots, not about
\* orders paid with the discount: see DiscountsCounted.
SlotsCounted ==
    /\ Held <= voucher.uses /\ voucher.uses <= Held + faults
    /\ voucher.limited => voucher.uses <= MaxUses
    /\ "hook_fails" \notin world /\ "catch_fails" \notin world => Held = voucher.uses

\* No more orders are paid with the discount of a limited voucher than it has slots.  Not
\* so: an order denied and then paid gave its slot back, and somebody else used it.
DiscountsCounted ==
    voucher.limited =>
        Cardinality({o \in Orders : checkout[o].voucher /\ payment[o] = "PAID"}) <= MaxUses

\* Repeated, late and retried notifications, served one at a time, grant a payment one
\* subscription at most (two at a time can grant two, see README), and a grant leaves the
\* user one ACTIVE subscription, the new one.
GrantedOnce ==
    "concurrent" \notin world =>
        \A o, p \in Orders :
            /\ granted[o] <= 1 /\ active[o] <= 1
            /\ User(o) = User(p) /\ active[o] > 0 /\ active[p] > 0 => o = p

\* A paid order gets its subscription.
PaidIsGranted == \A o \in Orders : "PAID" \in announced[o] ~> granted[o] > 0

\* It does when no webhook throws: whatever else is announced, early, late or twice.
PaidIsGrantedUnlessFailing == "hook_fails" \notin world => PaidIsGranted
=============================================================================
