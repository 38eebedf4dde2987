--------------------------- MODULE BillingProofs ---------------------------
(***************************************************************************)
(* Proofs about Billing, for any number of tenants, subscriptions, orders, *)
(* transactions, plans and any period and time limit.                      *)
(***************************************************************************)
EXTENDS Billing, TLAPS

\* The inductive invariant.  OneLivePerTenant needs CheckoutMatchesSubscription
\* (an activation replaces the live rows of the PAYMENT's tenant, so the payment
\* and its subscription must belong to the same one), which in turn needs the
\* types; TypeOK needs OneLivePerTenant for the start of an extended period.
Inv ==
    /\ TypeOK
    /\ OneLivePerTenant
    /\ OnePendingPerTenant
    /\ CheckoutMatchesSubscription

USE DEF PaymentStatus, SubscriptionStatus, LiveSubscriptionStates, OpenPaymentStates

\* The states a transition may start from.
LEMMA TransitionSources ==
    ASSUME NEW current, NEW target, CanTransition(current, target)
    PROVE  /\ current \in {"created", "pending", "expired"}
           /\ target \in {"pending", "succeeded", "failed", "canceled", "expired"}
           /\ current = "expired" => target = "succeeded"
           /\ target = "pending" => current = "created"
BY DEF CanTransition, Transitions

\* The empty tables satisfy the invariant.
LEMMA InitInv == Init => Inv
<1> SUFFICES ASSUME Init PROVE Inv
    OBVIOUS
<1> USE DEF Init
<1>1. TypeOK
    BY BillingAssumption DEF TypeOK, NoPayment, NoSub, NoLedgerRow, PaymentRow,
       SubRow, LedgerRow
<1>2. OneLivePerTenant /\ OnePendingPerTenant
    BY DEF OneLivePerTenant, OnePendingPerTenant, Live, Pending, NoSub
<1>3. CheckoutMatchesSubscription
    BY BillingAssumption DEF CheckoutMatchesSubscription, NoSub, NoPayment, Payments
<1>4. QED
    BY <1>1, <1>2, <1>3 DEF Inv

\* Only these three invariant parts look at rows; each depends on a few fields.
\* A step that keeps status, tenant and plan of every subscription, and status
\* and tenant of the subscription payments, keeps them.
LEMMA SameRows ==
    ASSUME Inv, emitted \subseteq emitted',
           \A s \in Subs : /\ subs'[s].status = subs[s].status
                           /\ subs'[s].tenant = subs[s].tenant
                           /\ subs'[s].plan = subs[s].plan,
           \A s \in Subs : /\ payments'[s].status = payments[s].status
                           /\ payments'[s].tenant = payments[s].tenant
    PROVE  OneLivePerTenant' /\ OnePendingPerTenant' /\ CheckoutMatchesSubscription'
<1>1. \A t \in Tenants : Live(t)' = Live(t) /\ Pending(t)' = Pending(t)
    BY DEF Live, Pending
<1>2. OneLivePerTenant' /\ OnePendingPerTenant'
    BY <1>1 DEF Inv, OneLivePerTenant, OnePendingPerTenant
<1>3. CheckoutMatchesSubscription'
    BY DEF Inv, CheckoutMatchesSubscription
<1>4. QED
    BY <1>2, <1>3

\* create_payment for an order leaves every subscription and its payment alone.
LEMMA OrderCheckoutInv ==
    ASSUME Inv, NEW o \in Orders, NEW t \in Tenants, NEW prov \in Providers,
           OrderCheckout(o, t, prov)
    PROVE  Inv'
<1> USE DEF OrderCheckout, CreatePayment
<1>1. TypeOK'
    BY DEF Inv, TypeOK, PaymentRow, Event, EventName, Ev, Payments
<1>2. \A s \in Subs : payments'[s] = payments[s]
    BY BillingAssumption DEF Inv, TypeOK, Payments
<1>3. QED
    BY <1>1, <1>2, SameRows DEF Inv

\* start_subscription opens the only pending row of its tenant, with its payment.
LEMMA StartSubscriptionInv ==
    ASSUME Inv, NEW t \in Tenants, NEW plan \in PaidPlans, NEW prov \in Providers,
           StartSubscription(t, plan, prov)
    PROVE  Inv'
<1>1. PICK s \in Unused :
        /\ subs' = [subs EXCEPT ![s] =
                [status |-> "pending", tenant |-> t, plan |-> plan,
                 end |-> now + Period, cancel |-> FALSE]]
        /\ CreatePayment(s, t, prov)
        /\ emitted' = emitted \cup {Ev("payment.created", s, None)}
    BY DEF StartSubscription
<1>2. s \in Subs /\ subs[s].status = "none" /\ payments[s].status = "none"
    BY <1>1 DEF Unused, CreatePayment
<1>3. UNCHANGED <<ledger, now>> /\ Pending(t) = {}
    BY DEF StartSubscription, CheckoutInProgress
<1>4. TypeOK'
    <2>1. subs' \in [Subs -> SubRow]
        BY <1>1, <1>2, BillingAssumption DEF Inv, TypeOK, SubRow, Plans
    <2>2. payments' \in [Payments -> PaymentRow]
        BY <1>1, <1>2 DEF Inv, TypeOK, CreatePayment, PaymentRow, Payments
    <2>3. emitted' \subseteq Event
        BY <1>1, <1>2 DEF Inv, TypeOK, Event, EventName, Ev, Payments
    <2>4. QED
        BY <2>1, <2>2, <2>3, <1>3 DEF Inv, TypeOK
<1>5. \A u \in Tenants : /\ Live(u)' = Live(u)
                         /\ Pending(u)' = IF u = t THEN {s} ELSE Pending(u)
    BY <1>1, <1>2, <1>3 DEF Inv, TypeOK, Live, Pending
<1>6. OneLivePerTenant' /\ OnePendingPerTenant'
    BY <1>5 DEF Inv, OneLivePerTenant, OnePendingPerTenant
<1>7. CheckoutMatchesSubscription'
    <2> SUFFICES ASSUME NEW o \in Subs
                 PROVE  (CheckoutMatchesSubscription!(o))'
        BY DEF CheckoutMatchesSubscription
    <2>1. CASE o = s
        BY <2>1, <1>1, <1>2 DEF Inv, TypeOK, CreatePayment, Payments
    <2>2. CASE o # s
        BY <2>2, <1>1, <1>2 DEF Inv, TypeOK, CreatePayment, Payments,
           CheckoutMatchesSubscription
    <2>3. QED
        BY <2>1, <2>2
<1>8. QED
    BY <1>4, <1>6, <1>7 DEF Inv

\* A fresh free row in a tenant without another live one: what auto_subscribe
\* and the fallback of the period-end sweep do to the three row invariants.
\* Row c, if it is a subscription, leaves the live statuses in the same step.
LEMMA FreeRowInv ==
    ASSUME Inv, NEW t \in Tenants, NEW f \in Subs, NEW c,
           subs[f].status = "none", c # f,
           Live(t) \subseteq {c},
           c \in Subs => subs[c].status \in LiveSubscriptionStates,
           NEW closed \in {"canceled", "expired"},
           subs' = [s \in Subs |-> IF s = f THEN FreeSub(t)
                                  ELSE IF s = c THEN [subs[c] EXCEPT !.status = closed]
                                  ELSE subs[s]],
           UNCHANGED payments, emitted \subseteq emitted'
    PROVE  OneLivePerTenant' /\ OnePendingPerTenant' /\ CheckoutMatchesSubscription'
<1> USE DEF FreeSub
<1>0. payments[f].status = "none"
    BY DEF Inv, TypeOK, CheckoutMatchesSubscription, PaymentRow, Payments
<1>1. Live(t)' \subseteq {f}
    BY DEF Live, Inv, TypeOK, SubRow
<1>2. \A u \in Tenants : u # t => Live(u)' \subseteq Live(u)
    BY DEF Live, Inv, TypeOK, SubRow
<1>3. \A u \in Tenants : Pending(u)' \subseteq Pending(u)
    BY DEF Pending, Inv, TypeOK, SubRow
<1>4. OneLivePerTenant' /\ OnePendingPerTenant'
    BY <1>1, <1>2, <1>3 DEF Inv, OneLivePerTenant, OnePendingPerTenant
<1>5. CheckoutMatchesSubscription'
    <2> SUFFICES ASSUME NEW o \in Subs
                 PROVE  (CheckoutMatchesSubscription!(o))'
        BY DEF CheckoutMatchesSubscription
    <2>1. CASE o = f
        BY <2>1, <1>0
    <2>2. CASE o # f /\ o = c
        BY <2>2 DEF Inv, TypeOK, SubRow, CheckoutMatchesSubscription
    <2>3. CASE o # f /\ o # c
        BY <2>3 DEF Inv, CheckoutMatchesSubscription
    <2>4. QED
        BY <2>1, <2>2, <2>3
<1>6. QED
    BY <1>4, <1>5

\* The row auto_subscribe inserts has the type of a subscription.
LEMMA FreeSubType ==
    ASSUME Inv, NEW t \in Tenants
    PROVE  FreeSub(t) \in SubRow
BY BillingAssumption DEF Inv, TypeOK, FreeSub, SubRow, Plans

\* auto_subscribe fills an empty live slot and no other.
LEMMA AutoSubscribeInv ==
    ASSUME Inv, NEW t \in Tenants, AutoSubscribe(t)
    PROVE  Inv'
<1>1. PICK f \in Unused : /\ subs' = [subs EXCEPT ![f] = FreeSub(t)]
                          /\ emitted' = emitted \cup {Ev("subscription.activated", f, None)}
    BY DEF AutoSubscribe
<1>2. f \in Subs /\ subs[f].status = "none" /\ None \notin Subs
    BY BillingAssumption DEF Unused
<1>3. UNCHANGED <<payments, ledger, now>> /\ Live(t) = {}
    BY DEF AutoSubscribe
<1>4. TypeOK'
    BY <1>1, <1>2, <1>3, FreeSubType DEF Inv, TypeOK, Event, EventName, Ev, Payments
<1>5. subs' = [s \in Subs |-> IF s = f THEN FreeSub(t)
                             ELSE IF s = None THEN [subs[None] EXCEPT !.status = "expired"]
                             ELSE subs[s]]
    BY <1>1, <1>2 DEF Inv, TypeOK
<1>6. OneLivePerTenant' /\ OnePendingPerTenant' /\ CheckoutMatchesSubscription'
    <2>1. /\ None # f /\ Live(t) \subseteq {None} /\ UNCHANGED payments
          /\ emitted \subseteq emitted' /\ "expired" \in {"canceled", "expired"}
          /\ None \in Subs => subs[None].status \in LiveSubscriptionStates
        BY <1>1, <1>2, <1>3
    <2>2. QED
        BY <1>2, <1>5, <2>1, FreeRowInv, Zenon
<1>7. QED
    BY <1>4, <1>6 DEF Inv

\* _close: payment and pending subscription leave the open states together.
LEMMA CloseInv ==
    ASSUME Inv, NEW p \in Payments, NEW target \in {"failed", "canceled", "expired"},
           Close(p, target), ledger' \in [LedgerKey -> LedgerRow], UNCHANGED now
    PROVE  Inv'
<1>1. payments[p].status \in OpenPaymentStates
    BY TransitionSources DEF Close
<1>2. payments' = [payments EXCEPT ![p].status = target]
    BY DEF Close
<1>3. subs' = DroppedSubs(p, target)
    BY DEF Close
<1>4. TypeOK'
    <2>1. payments' \in [Payments -> PaymentRow]
        BY <1>2 DEF Inv, TypeOK, PaymentRow
    <2>2. subs' \in [Subs -> SubRow]
        BY <1>3 DEF Inv, TypeOK, SubRow, DroppedSubs
    <2>3. emitted' \subseteq Event
        BY DEF Close, Inv, TypeOK, Event, EventName, Ev, ClosedEvent
    <2>4. QED
        BY <2>1, <2>2, <2>3 DEF Inv, TypeOK
<1>5. emitted \subseteq emitted'
    BY DEF Close
<1>6. \A u \in Tenants : Live(u)' = Live(u) /\ Pending(u)' \subseteq Pending(u)
    BY <1>3 DEF Live, Pending, DroppedSubs, Inv, TypeOK, SubRow
<1>7. OneLivePerTenant' /\ OnePendingPerTenant'
    BY <1>6 DEF Inv, OneLivePerTenant, OnePendingPerTenant
<1>8. CheckoutMatchesSubscription'
    <2> SUFFICES ASSUME NEW o \in Subs
                 PROVE  (CheckoutMatchesSubscription!(o))'
        BY DEF CheckoutMatchesSubscription
    <2>1. CASE o = p
        BY <2>1, <1>1, <1>2, <1>3 DEF Inv, TypeOK, SubRow, PaymentRow, Payments,
           DroppedSubs, CheckoutMatchesSubscription
    <2>2. CASE o # p
        BY <2>2, <1>2, <1>3, <1>5 DEF Inv, TypeOK, Payments, DroppedSubs,
           CheckoutMatchesSubscription
    <2>3. QED
        BY <2>1, <2>2
<1>9. QED
    BY <1>4, <1>7, <1>8 DEF Inv

\* An activation starts now, or where the one replaced period of the plan ends.
LEMMA ActivationStartType ==
    ASSUME Inv, NEW p \in Subs, payments[p].tenant \in Tenants
    PROVE  ActivationStart(p) \in Nat
<1> DEFINE same == {r \in Replaced(p) : subs[r].plan = subs[p].plan}
           starts == {now} \cup {subs[o].end : o \in same}
<1>1. \A o \in Subs : subs[o].end \in Nat
    BY DEF Inv, TypeOK, SubRow
<1>2. now \in Nat
    BY DEF Inv, TypeOK
<1>3. \A a, b \in same : a = b
    BY DEF Inv, OneLivePerTenant, Replaced
<1>4. same \subseteq Subs
    BY DEF Replaced, Live
<1>5. \E e \in starts : \A f \in starts : f <= e
    <2>1. CASE same = {}
        BY <2>1, <1>2
    <2>2. CASE same # {}
        <3>1. PICK o \in same : same = {o}
            BY <2>2, <1>3
        <3>2. starts = {now, subs[o].end}
            BY <3>1
        <3>3. subs[o].end \in Nat
            BY <3>1, <1>1, <1>4
        <3>4. now <= subs[o].end \/ subs[o].end <= now
            BY <3>3, <1>2
        <3>5. now <= now /\ subs[o].end <= subs[o].end
            BY <3>3, <1>2
        <3> HIDE DEF starts, same
        <3>6. QED
            BY <3>2, <3>4, <3>5
    <2>3. QED
        BY <2>1, <2>2
<1>6. ActivationStart(p) \in starts
    BY <1>5 DEF ActivationStart
<1>7. starts \subseteq Nat
    BY <1>1, <1>2, <1>4
<1>8. QED
    BY <1>6, <1>7

\* Activation: the payment's tenant ends up with exactly the paid row live.
LEMMA MarkSucceededInv ==
    ASSUME Inv, NEW p \in Payments, MarkSucceeded(p),
           ledger' \in [LedgerKey -> LedgerRow], UNCHANGED now
    PROVE  Inv'
<1>1. payments[p].status \in {"created", "pending", "expired"}
    BY TransitionSources DEF MarkSucceeded
<1>2. payments' = [payments EXCEPT ![p].status = "succeeded"]
    BY DEF MarkSucceeded
<1>3. payments' \in [Payments -> PaymentRow]
    BY <1>2 DEF Inv, TypeOK, PaymentRow
<1>4. SucceededEvent(p) \in Event
    BY DEF SucceededEvent, Ev, Event, EventName
<1>5. emitted \subseteq emitted'
    BY DEF MarkSucceeded
<1>6. CASE p \notin Subs
    <2>1. subs' = subs /\ emitted' = emitted \cup {SucceededEvent(p)}
        BY <1>6 DEF MarkSucceeded
    <2>2. TypeOK'
        BY <2>1, <1>3, <1>4 DEF Inv, TypeOK
    <2>3. \A s \in Subs : payments'[s] = payments[s]
        BY <1>2, <1>6 DEF Inv, TypeOK, Payments
    <2>4. QED
        BY <2>1, <2>2, <2>3, <1>5, SameRows DEF Inv
<1>7. CASE p \in Subs
    <2>1. subs' = ActivatedSubs(p)
        BY <1>7 DEF MarkSucceeded
    <2>2. emitted' = emitted \cup {Ev("subscription.replaced", o, p) : o \in Replaced(p)}
                             \cup {Ev("subscription.activated", p, None), SucceededEvent(p)}
        BY <1>7 DEF MarkSucceeded, ReplacedEvents
    <2>3. Replaced(p) \subseteq Subs \ {p}
        BY DEF Replaced, Live
    <2>4. /\ subs[p].tenant = payments[p].tenant /\ subs[p].plan \in PaidPlans
          /\ subs[p].status \in {"pending", "expired"}
        BY <1>1, <1>7 DEF Inv, CheckoutMatchesSubscription
    <2>5. ActivationStart(p) + Period \in Nat
        <3>1. payments[p].tenant \in Tenants
            BY <2>4, <1>7 DEF Inv, CheckoutMatchesSubscription
        <3>2. QED
            BY <3>1, <1>7, ActivationStartType, BillingAssumption
    <2>6. /\ subs'[p].status = "active" /\ subs'[p].tenant = subs[p].tenant
          /\ subs'[p].plan = subs[p].plan
        BY <2>1, <1>7 DEF ActivatedSubs, Inv, TypeOK, SubRow
    <2>7. \A o \in Replaced(p) : /\ subs'[o].status = "canceled"
                                 /\ subs'[o].tenant = subs[o].tenant
                                 /\ subs'[o].plan = subs[o].plan
        BY <2>1, <2>3 DEF ActivatedSubs, Inv, TypeOK, SubRow
    <2>8. \A o \in Subs : o # p /\ o \notin Replaced(p) => subs'[o] = subs[o]
        BY <2>1 DEF ActivatedSubs
    <2>9. TypeOK'
        <3>1. subs' \in [Subs -> SubRow]
            <4>1. subs'[p] \in SubRow
                BY <2>1, <2>5, <1>7 DEF ActivatedSubs, Inv, TypeOK, SubRow
            <4>2. \A o \in Replaced(p) : subs'[o] \in SubRow
                BY <2>1, <2>3 DEF ActivatedSubs, Inv, TypeOK, SubRow
            <4>3. \A o \in Subs : o # p /\ o \notin Replaced(p) => subs'[o] \in SubRow
                BY <2>8 DEF Inv, TypeOK
            <4>4. subs' = [o \in Subs |-> subs'[o]]
                BY <2>1 DEF ActivatedSubs
            <4>5. QED
                BY <4>1, <4>2, <4>3, <4>4
        <3>2. emitted' \subseteq Event
            BY <2>2, <2>3, <1>4, <1>7 DEF Inv, TypeOK, Event, EventName, Ev, Payments
        <3>3. QED
            BY <3>1, <3>2, <1>3 DEF Inv, TypeOK
    <2>10. \A u \in Tenants : /\ u = subs[p].tenant => Live(u)' \subseteq {p}
                              /\ u # subs[p].tenant => Live(u)' \subseteq Live(u)
                              /\ Pending(u)' \subseteq Pending(u)
        BY <2>3, <2>4, <2>6, <2>7, <2>8 DEF Live, Pending, Replaced
    <2>11. OneLivePerTenant' /\ OnePendingPerTenant'
        BY <2>10 DEF Inv, OneLivePerTenant, OnePendingPerTenant
    <2>12. CheckoutMatchesSubscription'
        <3> SUFFICES ASSUME NEW o \in Subs
                     PROVE  (CheckoutMatchesSubscription!(o))'
            BY DEF CheckoutMatchesSubscription
        <3>1. CASE o = p
            <4>1. payments'[p].status = "succeeded" /\ payments'[p].tenant = payments[p].tenant
                BY <1>2, <1>7 DEF Inv, TypeOK, PaymentRow, Payments
            <4>2. subs[p].tenant \in Tenants
                BY <2>4, <1>7 DEF Inv, CheckoutMatchesSubscription
            <4>3. Ev("subscription.activated", p, None) \in emitted'
                BY <2>2
            <4>4. QED
                BY <3>1, <4>1, <4>2, <4>3, <2>4, <2>6
        <3>2. CASE o \in Replaced(p)
            BY <3>2, <1>2, <1>5, <2>3, <2>7 DEF Inv, TypeOK, CheckoutMatchesSubscription,
               Replaced, Live, Payments
        <3>3. CASE o # p /\ o \notin Replaced(p)
            BY <3>3, <1>2, <1>5, <2>8 DEF Inv, TypeOK, CheckoutMatchesSubscription, Payments
        <3>4. QED
            BY <3>1, <3>2, <3>3
    <2>13. QED
        BY <2>9, <2>11, <2>12 DEF Inv
<1>8. QED
    BY <1>6, <1>7

\* mark_pending keeps the payment open and the subscription as it was.
LEMMA MarkPendingInv ==
    ASSUME Inv, NEW p \in Payments, NEW txn \in Txns, MarkPending(p, txn),
           ledger' \in [LedgerKey -> LedgerRow], UNCHANGED now
    PROVE  Inv'
<1>1. payments[p].status = "created"
    BY TransitionSources DEF MarkPending
<1>2. payments' = [payments EXCEPT ![p].status = "pending", ![p].txn = txn]
    BY DEF MarkPending
<1>3. UNCHANGED <<subs, emitted>>
    BY DEF MarkPending
<1>4. TypeOK'
    <2>1. payments' \in [Payments -> PaymentRow]
        <3>1. payments[p] \in PaymentRow
            BY DEF Inv, TypeOK
        <3>2. [payments[p] EXCEPT !.status = "pending", !.txn = txn] \in PaymentRow
            BY <3>1 DEF PaymentRow
        <3>3. payments' = [payments EXCEPT ![p] =
                              [payments[p] EXCEPT !.status = "pending", !.txn = txn]]
            BY <1>2 DEF Inv, TypeOK
        <3>4. QED
            BY <3>2, <3>3 DEF Inv, TypeOK
    <2>2. QED
        BY <2>1, <1>3 DEF Inv, TypeOK
<1>5. OneLivePerTenant' /\ OnePendingPerTenant'
    BY <1>3 DEF Inv, OneLivePerTenant, OnePendingPerTenant, Live, Pending
<1>6. CheckoutMatchesSubscription'
    BY <1>1, <1>2, <1>3 DEF Inv, TypeOK, PaymentRow, CheckoutMatchesSubscription, Payments
<1>7. QED
    BY <1>4, <1>5, <1>6 DEF Inv

\* Processing or replaying any callback keeps the invariant.
LEMMA WebhookInv ==
    ASSUME Inv, NEW cb \in Callback, Webhook(cb)
    PROVE  Inv'
<1>1. /\ DedupKey(cb) \in LedgerKey /\ cb.txn \in Txns
      /\ FindPayment(cb) \subseteq Payments
    BY DEF DedupKey, LedgerKey, Callback, FindPayment
<1>2. UNCHANGED now
    BY DEF Webhook
<1>3. ASSUME NEW status \in {"processed", "rejected", "failed"},
             NEW error \in {"", "not_found", "amount"}, NEW p \in Payments \cup {None},
             RecordLedger(cb, status, error, p)
      PROVE  ledger' \in [LedgerKey -> LedgerRow]
    BY <1>1, <1>3 DEF RecordLedger, LedgerRow, Inv, TypeOK
<1>4. ASSUME ledger' \in [LedgerKey -> LedgerRow], UNCHANGED <<payments, subs, emitted>>
      PROVE  Inv'
    <2>1. TypeOK'
        BY <1>2, <1>4 DEF Inv, TypeOK
    <2>2. QED
        BY <2>1, <1>4, SameRows DEF Inv
<1>5. CASE ledger[DedupKey(cb)].status # "none"
    <2>1. UNCHANGED <<payments, subs, ledger, emitted>>
        BY <1>5 DEF Webhook
    <2>2. QED
        BY <2>1, <1>4 DEF Inv, TypeOK
<1>6. CASE ProcessTransition(cb)
    <2>1. CASE /\ FindPayment(cb) = {}
               /\ RecordLedger(cb, "rejected", "not_found", None)
               /\ UNCHANGED <<payments, subs, emitted>>
        BY <2>1, <1>3, <1>4
    <2>2. ASSUME NEW p \in FindPayment(cb),
                 RecordLedger(cb, "rejected", "amount", p) \/ RecordLedger(cb, "failed", "", p),
                 UNCHANGED <<payments, subs, emitted>>
          PROVE  Inv'
        BY <2>2, <1>1, <1>3, <1>4
    <2>3. ASSUME NEW p \in FindPayment(cb), ApplyAction(cb, p),
                 RecordLedger(cb, "processed", "", p)
          PROVE  Inv'
        <3>1. p \in Payments /\ ledger' \in [LedgerKey -> LedgerRow]
            BY <2>3, <1>1, <1>3
        <3>2. CASE MarkPending(p, cb.txn)
            BY <3>1, <3>2, <1>1, <1>2, MarkPendingInv
        <3>3. CASE MarkSucceeded(p)
            BY <3>1, <3>3, <1>2, MarkSucceededInv
        <3>4. CASE Close(p, "canceled")
            BY <3>1, <3>4, <1>2, CloseInv
        <3>5. QED
            BY <2>3, <3>2, <3>3, <3>4 DEF ApplyAction
    <2>4. QED
        BY <1>6, <2>1, <2>2, <2>3 DEF ProcessTransition
<1>7. QED
    BY <1>5, <1>6 DEF Webhook

\* cancel_subscription only flags the live row.
LEMMA CancelSubscriptionInv ==
    ASSUME Inv, NEW t \in Tenants, CancelSubscription(t)
    PROVE  Inv'
<1>1. PICK s \in Live(t) : /\ subs' = [subs EXCEPT ![s].cancel = TRUE]
                           /\ emitted' = emitted \cup {Ev("subscription.canceled", s, None)}
    BY DEF CancelSubscription
<1>2. UNCHANGED <<payments, ledger, now>>
    BY DEF CancelSubscription
<1>3. s \in Subs
    BY DEF Live
<1>4. TypeOK'
    <2>1. subs' \in [Subs -> SubRow]
        BY <1>1, <1>3 DEF Inv, TypeOK, SubRow
    <2>2. emitted' \subseteq Event
        BY <1>1, <1>3 DEF Inv, TypeOK, Event, EventName, Ev, Payments
    <2>3. QED
        BY <1>2, <2>1, <2>2 DEF Inv, TypeOK
<1>5. \A o \in Subs : /\ subs'[o].status = subs[o].status
                      /\ subs'[o].tenant = subs[o].tenant
                      /\ subs'[o].plan = subs[o].plan
    BY <1>1, <1>3 DEF Inv, TypeOK, SubRow
<1>6. QED
    BY <1>1, <1>2, <1>4, <1>5, SameRows DEF Inv

\* Rolling a free period forward keeps the row live.
LEMMA RollForwardInv ==
    ASSUME Inv, NEW s \in Subs, RollForward(s)
    PROVE  Inv'
<1>1. PICK k \in 1..(now + 1) :
        subs' = [subs EXCEPT ![s].end = subs[s].end + k * Period, ![s].status = "active"]
    BY DEF RollForward
<1>2. UNCHANGED <<payments, ledger, emitted, now>> /\ subs[s].status \in LiveSubscriptionStates
    BY DEF RollForward, PeriodEnded
<1>3. subs[s].end + k * Period \in Nat
    <2>1. k \in Nat /\ Period \in Nat /\ subs[s].end \in Nat
        BY BillingAssumption DEF Inv, TypeOK, SubRow
    <2>2. QED
        BY <2>1
<1>4. subs' = [subs EXCEPT ![s] =
                  [subs[s] EXCEPT !.end = subs[s].end + k * Period, !.status = "active"]]
    BY <1>1 DEF Inv, TypeOK
<1> DEFINE row == [subs[s] EXCEPT !.end = subs[s].end + k * Period, !.status = "active"]
<1>5. row \in SubRow /\ row.status = "active" /\ row.tenant = subs[s].tenant
      /\ row.plan = subs[s].plan
    BY <1>3 DEF Inv, TypeOK, SubRow
<1> HIDE DEF row
<1>6. subs' = [subs EXCEPT ![s] = row]
    BY <1>4 DEF row
<1>7. TypeOK'
    BY <1>2, <1>5, <1>6 DEF Inv, TypeOK
<1>8. \A u \in Tenants : Live(u)' = Live(u) /\ Pending(u)' = Pending(u)
    BY <1>2, <1>5, <1>6 DEF Inv, TypeOK, Live, Pending
<1>9. OneLivePerTenant' /\ OnePendingPerTenant'
    BY <1>8 DEF Inv, OneLivePerTenant, OnePendingPerTenant
<1>10. CheckoutMatchesSubscription'
    <2> SUFFICES ASSUME NEW o \in Subs
                 PROVE  (CheckoutMatchesSubscription!(o))'
        BY DEF CheckoutMatchesSubscription
    <2>1. CASE o = s
        BY <2>1, <1>2, <1>5, <1>6 DEF Inv, TypeOK, SubRow, CheckoutMatchesSubscription
    <2>2. CASE o # s
        BY <2>2, <1>2, <1>6 DEF Inv, TypeOK, CheckoutMatchesSubscription
    <2>3. QED
        BY <2>1, <2>2
<1>11. QED
    BY <1>7, <1>9, <1>10 DEF Inv

\* close_ended_period vacates the live slot before the free fallback takes it.
LEMMA EndPeriodInv ==
    ASSUME Inv, NEW s \in Subs, EndPeriod(s)
    PROVE  Inv'
<1> DEFINE to == IF subs[s].cancel THEN "canceled" ELSE "expired"
           closed == [subs EXCEPT ![s].status = to]
           t == subs[s].tenant
<1>1. /\ UNCHANGED <<payments, ledger, now>> /\ subs[s].status \in LiveSubscriptionStates
      /\ to \in {"canceled", "expired"}
    BY DEF EndPeriod, PeriodEnded
<1>2. t \in Tenants
    BY <1>1 DEF Inv, CheckoutMatchesSubscription
<1>3. closed \in [Subs -> SubRow]
    BY DEF Inv, TypeOK, SubRow
<1>4. CASE subs' = closed /\ emitted' = emitted \cup {Ev("subscription.ended", s, None)}
    <2>1. TypeOK'
        BY <1>1, <1>3, <1>4 DEF Inv, TypeOK, Event, EventName, Ev, Payments
    <2>2. /\ subs'[s].status = to /\ subs'[s].tenant = t /\ subs'[s].plan = subs[s].plan
          /\ \A o \in Subs : o # s => subs'[o] = subs[o]
        BY <1>4 DEF Inv, TypeOK, SubRow
    <2> HIDE DEF closed, to
    <2>3. \A u \in Tenants : Live(u)' \subseteq Live(u) /\ Pending(u)' \subseteq Pending(u)
        BY <1>1, <2>2 DEF Live, Pending
    <2>4. OneLivePerTenant' /\ OnePendingPerTenant'
        BY <2>3 DEF Inv, OneLivePerTenant, OnePendingPerTenant
    <2>5. CheckoutMatchesSubscription'
        <3> SUFFICES ASSUME NEW o \in Subs
                     PROVE  (CheckoutMatchesSubscription!(o))'
            BY DEF CheckoutMatchesSubscription
        <3>1. CASE o = s
            BY <3>1, <1>1, <1>2, <1>4, <2>2 DEF Inv, CheckoutMatchesSubscription
        <3>2. CASE o # s
            BY <3>2, <1>1, <1>4, <2>2 DEF Inv, CheckoutMatchesSubscription
        <3>3. QED
            BY <3>1, <3>2
    <2>6. QED
        BY <2>1, <2>4, <2>5 DEF Inv
<1>5. ASSUME Live(t) = {s}, NEW f \in Unused,
             subs' = [closed EXCEPT ![f] = FreeSub(t)],
             emitted' = emitted \cup {Ev("subscription.ended", s, None),
                                      Ev("subscription.activated", f, None)}
      PROVE  Inv'
    <2>1. f \in Subs /\ subs[f].status = "none" /\ f # s
        BY <1>1 DEF Unused
    <2>2. TypeOK'
        BY <1>1, <1>2, <1>3, <1>5, <2>1, FreeSubType
           DEF Inv, TypeOK, Event, EventName, Ev, Payments
    <2>3. subs' = [o \in Subs |-> IF o = f THEN FreeSub(t)
                                 ELSE IF o = s THEN [subs[s] EXCEPT !.status = to]
                                 ELSE subs[o]]
        BY <1>5, <2>1 DEF Inv, TypeOK
    <2>4. /\ s # f /\ Live(t) \subseteq {s} /\ UNCHANGED payments /\ emitted \subseteq emitted'
          /\ s \in Subs => subs[s].status \in LiveSubscriptionStates
        BY <1>1, <1>5, <2>1
    <2> HIDE DEF closed, to, t
    <2>5. to \in {"canceled", "expired"} /\ s \in Subs
        BY <1>1
    <2>6. OneLivePerTenant' /\ OnePendingPerTenant' /\ CheckoutMatchesSubscription'
        BY <1>2, <2>1, <2>3, <2>4, <2>5, FreeRowInv, ZenonT(30)
    <2>7. QED
        BY <2>2, <2>6 DEF Inv
<1>6. QED
    BY <1>4, <1>5 DEF EndPeriod

\* Every step of the billing component keeps the invariant.
LEMMA NextInv == Inv /\ [Next]_vars => Inv'
<1> SUFFICES ASSUME Inv, [Next]_vars PROVE Inv'
    OBVIOUS
<1>1. ASSUME NEW t \in Tenants, NEW prov \in Providers, NEW o \in Orders,
             OrderCheckout(o, t, prov)
      PROVE  Inv'
    BY <1>1, OrderCheckoutInv
<1>2. ASSUME NEW t \in Tenants, NEW prov \in Providers, NEW plan \in PaidPlans,
             StartSubscription(t, plan, prov)
      PROVE  Inv'
    BY <1>2, StartSubscriptionInv
<1>3. ASSUME NEW t \in Tenants, AutoSubscribe(t) \/ CancelSubscription(t)
      PROVE  Inv'
    BY <1>3, AutoSubscribeInv, CancelSubscriptionInv
<1>4. ASSUME NEW cb \in Callback, Webhook(cb)
      PROVE  Inv'
    BY <1>4, WebhookInv
<1>5. ASSUME NEW p \in Payments, CancelPayment(p) \/ MarkFailed(p) \/ ExpireCheckout(p)
      PROVE  Inv'
    <2>1. UNCHANGED <<ledger, now>> /\ ledger' \in [LedgerKey -> LedgerRow]
        BY <1>5 DEF CancelPayment, MarkFailed, ExpireCheckout, Inv, TypeOK
    <2>2. \E target \in {"failed", "canceled", "expired"} : Close(p, target)
        BY <1>5 DEF CancelPayment, MarkFailed, ExpireCheckout
    <2>3. QED
        BY <2>1, <2>2, CloseInv
<1>6. ASSUME NEW s \in Subs, RollForward(s) \/ EndPeriod(s)
      PROVE  Inv'
    BY <1>6, RollForwardInv, EndPeriodInv
<1>7. CASE Tick
    <2>1. UNCHANGED <<payments, subs, ledger, emitted>> /\ now' \in Nat
        BY <1>7 DEF Tick, Inv, TypeOK
    <2>2. TypeOK'
        BY <2>1 DEF Inv, TypeOK
    <2>3. QED
        BY <2>1, <2>2, SameRows DEF Inv
<1>8. CASE UNCHANGED vars
    <2>1. TypeOK'
        BY <1>8 DEF vars, Inv, TypeOK
    <2>2. QED
        BY <2>1, <1>8, SameRows DEF vars, Inv
<1>9. QED
    BY <1>1, <1>2, <1>3, <1>4, <1>5, <1>6, <1>7, <1>8 DEF Next

\* The rows always have their types, a tenant never has two live subscriptions
\* or two open checkouts, and a checkout always agrees with its subscription,
\* for any number of tenants, subscriptions, callbacks and sweeps.
THEOREM BillingInvariant == Spec => []Inv
<1>1. Init => Inv
    BY InitInv
<1>2. Inv /\ [Next]_vars => Inv'
    BY NextInv
<1>3. QED
    BY <1>1, <1>2, PTL DEF Spec

\* The one-live rule of the subscription lifecycle.
THEOREM OneLive == Spec => []OneLivePerTenant
<1>1. Inv => OneLivePerTenant
    BY DEF Inv
<1>2. QED
    BY <1>1, BillingInvariant, PTL

\* "Money taken, subscription inactive" is impossible.
THEOREM MoneyMeansSubscription == Spec => []CheckoutMatchesSubscription
<1>1. Inv => CheckoutMatchesSubscription
    BY DEF Inv
<1>2. QED
    BY <1>1, BillingInvariant, PTL

\* A tenant never has two checkouts in progress.
THEOREM OnePending == Spec => []OnePendingPerTenant
<1>1. Inv => OnePendingPerTenant
    BY DEF Inv
<1>2. QED
    BY <1>1, BillingInvariant, PTL

\* What one step does to one payment (the step formula of ForwardOnly).
Forward ==
    \A p \in Payments :
        payments[p].status # "none" /\ payments'[p].status # payments[p].status
            => CanTransition(payments[p].status, payments'[p].status)

\* Every action that writes a payment status checks the transition first
\* (assert_transition), or creates the row.
LEMMA ForwardStep == Inv /\ [Next]_vars => Forward
<1> SUFFICES ASSUME Inv, [Next]_vars PROVE Forward
    OBVIOUS
<1>1. payments \in [Payments -> PaymentRow]
    BY DEF Inv, TypeOK
<1>2. ASSUME UNCHANGED payments
      PROVE  Forward
    BY <1>2 DEF Forward
<1>3. ASSUME NEW p \in Payments, NEW t, NEW prov, CreatePayment(p, t, prov)
      PROVE  Forward
    BY <1>1, <1>3 DEF Forward, CreatePayment
<1>4. ASSUME NEW p \in Payments, NEW target, CanTransition(payments[p].status, target),
             payments' = [payments EXCEPT ![p].status = target]
      PROVE  Forward
    BY <1>1, <1>4 DEF Forward, PaymentRow
<1>5. ASSUME NEW p \in Payments, NEW txn, MarkPending(p, txn)
      PROVE  Forward
    <2>1. payments' = [payments EXCEPT ![p].status = "pending", ![p].txn = txn]
        BY <1>5 DEF MarkPending
    <2>2. payments'[p].status = "pending" /\ \A q \in Payments : q # p => payments'[q] = payments[q]
        BY <1>1, <2>1 DEF PaymentRow
    <2>3. QED
        BY <1>5, <2>2 DEF Forward, MarkPending
<1>6. ASSUME NEW t \in Tenants, NEW prov \in Providers, NEW o \in Orders,
             OrderCheckout(o, t, prov)
      PROVE  Forward
    BY <1>3, <1>6 DEF OrderCheckout, Payments
<1>7. ASSUME NEW t \in Tenants, NEW prov \in Providers, NEW plan \in PaidPlans,
             StartSubscription(t, plan, prov)
      PROVE  Forward
    <2>1. PICK s \in Unused : CreatePayment(s, t, prov)
        BY <1>7 DEF StartSubscription
    <2>2. QED
        BY <2>1, <1>3 DEF Unused, Payments
<1>8. ASSUME NEW p \in Payments, NEW target, Close(p, target)
      PROVE  Forward
    BY <1>4, <1>8 DEF Close
<1>9. ASSUME NEW cb \in Callback, Webhook(cb)
      PROVE  Forward
    <2>1. \/ UNCHANGED payments
          \/ \E p \in FindPayment(cb) : ApplyAction(cb, p)
        BY <1>9 DEF Webhook, ProcessTransition
    <2>2. ASSUME NEW p \in FindPayment(cb), ApplyAction(cb, p)
          PROVE  Forward
        <3>1. p \in Payments
            BY DEF FindPayment
        <3>2. CASE MarkPending(p, cb.txn)
            BY <3>1, <3>2, <1>5
        <3>3. CASE MarkSucceeded(p)
            BY <3>1, <3>3, <1>4 DEF MarkSucceeded
        <3>4. CASE Close(p, "canceled")
            BY <3>1, <3>4, <1>8
        <3>5. QED
            BY <2>2, <3>2, <3>3, <3>4 DEF ApplyAction
    <2>3. QED
        BY <2>1, <2>2, <1>2
<1>10. ASSUME NEW t \in Tenants, AutoSubscribe(t) \/ CancelSubscription(t)
       PROVE  Forward
    BY <1>2, <1>10 DEF AutoSubscribe, CancelSubscription
<1>11. ASSUME NEW p \in Payments, CancelPayment(p) \/ MarkFailed(p) \/ ExpireCheckout(p)
       PROVE  Forward
    BY <1>8, <1>11 DEF CancelPayment, MarkFailed, ExpireCheckout
<1>12. ASSUME NEW s \in Subs, RollForward(s) \/ EndPeriod(s)
       PROVE  Forward
    BY <1>2, <1>12 DEF RollForward, EndPeriod
<1>13. CASE Tick \/ UNCHANGED vars
    BY <1>2, <1>13 DEF Tick, vars
<1>14. QED
    BY <1>6, <1>7, <1>9, <1>10, <1>11, <1>12, <1>13 DEF Next

\* Payments only move forward: a callback, a cancel or a sweep never leaves a
\* terminal state, for every interleaving.
THEOREM PaymentsMoveForward == Spec => ForwardOnly
<1>1. Inv /\ [Next]_vars => [Forward]_vars
    BY ForwardStep
<1>2. Spec => [][Forward]_vars
    BY <1>1, BillingInvariant, PTL DEF Spec
<1>3. QED
    BY <1>2 DEF ForwardOnly, Forward
=============================================================================
