------------------------------ MODULE Billing ------------------------------
(***************************************************************************)
(* Payments, subscriptions, the webhook ledger and the two billing sweeps  *)
(* (core/billing: service.py, webhooks.py, jobs.py, subscribers.py), one   *)
(* action per database transaction.  Every transaction below locks the     *)
(* rows it changes, except cancel_subscription and the two inserts guarded *)
(* by partial unique indexes; what those three do to each other inside a   *)
(* transaction is the subject of module SubscriptionTx.                    *)
(*                                                                         *)
(* A payment is named by its idempotency key: the key "subscription:<id>"  *)
(* by the subscription id, the key "order:<id>" by the order id, so the    *)
(* unique index (tenant_id, idempotency_key) is the function payments.     *)
(*                                                                         *)
(* The provider is an open environment: it may send any callback, in any   *)
(* order, any number of times.                                             *)
(***************************************************************************)
EXTENDS Integers, FiniteSets, PaymentStates

CONSTANTS
    Tenants,        \* tenant ids
    Subs,           \* subscription ids (bound on subscriptions ever created)
    Orders,         \* ids of order checkouts (purpose /= "subscription")
    Txns,           \* provider transaction ids
    Providers,      \* enabled payment providers (enabled_payment_provider_list)
    PaidPlans,      \* plans with price_amount > 0
    FreePlan,       \* billing_default_plan_code, price_amount = 0
    FreeTrial,      \* FreePlan.trial_days > 0
    Period,         \* length of a plan period
    CheckoutTTL,    \* payment_checkout_ttl_seconds
    MaxTime,        \* bound on the clock
    None            \* SQL NULL

ASSUME BillingAssumption ==
    /\ Subs \cap Orders = {}
    /\ FreePlan \notin PaidPlans
    /\ Providers \subseteq {"payme", "click", "stripe"}
    /\ FreeTrial \in BOOLEAN
    /\ Period \in Nat \ {0}
    /\ CheckoutTTL \in Nat
    /\ MaxTime \in Nat
    /\ None \notin Tenants \cup Subs \cup Orders \cup Txns \cup Providers
    /\ None \notin PaidPlans \cup {FreePlan}

Payments == Subs \cup Orders
Plans == PaidPlans \cup {FreePlan}

VARIABLES
    payments,   \* the payments table
    subs,       \* the subscriptions table
    ledger,     \* payment_webhooks, by (provider, provider_txn_id, action)
    emitted,    \* every event published so far
    now         \* the clock

vars == <<payments, subs, ledger, emitted, now>>

----------------------------------------------------------------------------
(* Rows *)

\* callback.action of the state-changing callbacks (_STATE_CHANGING_ACTIONS).
Actions == {"create", "confirm", "cancel"}

\* What the adapters' parse_webhook can produce.  Payme names our payment and
\* the amount only in CreateTransaction; Click in Prepare and Complete (a failed
\* Complete becomes an amount-less cancel); Stripe has no create, and only the
\* completed event carries an amount.
CarriesReference(prov, action) == prov = "payme" => action = "create"
CarriesAmount(prov, action) ==
    \/ prov = "payme" /\ action = "create"
    \/ prov = "click" /\ action \in {"create", "confirm"}
    \/ prov = "stripe" /\ action = "confirm"
Sends(prov, action) == prov = "stripe" => action # "create"

\* A normalized, authenticated callback (ports.ProviderCallback).  ref is the
\* payment_reference; amountOk says whether the carried amount, if any, equals
\* the recorded one (_amount_ok).
Callback ==
    {cb \in [provider : Providers, txn : Txns, action : Actions,
             ref : Payments \cup {None}, amountOk : BOOLEAN] :
        /\ Sends(cb.provider, cb.action)
        /\ cb.ref # None <=> CarriesReference(cb.provider, cb.action)
        /\ ~cb.amountOk => CarriesAmount(cb.provider, cb.action)}

PaymentRow ==
    [status : PaymentStatus \cup {"none"}, tenant : Tenants \cup {None},
     provider : Providers \cup {None}, txn : Txns \cup {None}, created : Nat]

SubRow ==
    [status : SubscriptionStatus \cup {"none"}, tenant : Tenants \cup {None},
     plan : Plans \cup {None}, end : Nat, cancel : BOOLEAN]

\* A ledger row: "none" before it is claimed.  "received" never survives the
\* claiming transaction, so it is not a committed status.
LedgerRow ==
    [status : {"none", "processed", "rejected", "failed"},
     error : {"", "not_found", "amount"}, payment : Payments \cup {None}]

LedgerKey == Providers \X Txns \X Actions

EventName ==
    {"payment.created", "payment.succeeded", "payment.failed", "payment.canceled",
     "payment.expired", "subscription.activated", "subscription.replaced",
     "subscription.canceled", "subscription.ended"}

\* Published events.  "about" is the payment or subscription, "info" what the
\* consumers distinguish: whether payment.succeeded came late, the successor in
\* subscription.replaced.
Event ==
    [name : EventName, about : Payments, info : {"late", "on_time", None} \cup Subs]

NoPayment == [status |-> "none", tenant |-> None, provider |-> None,
              txn |-> None, created |-> 0]
NoSub == [status |-> "none", tenant |-> None, plan |-> None, end |-> 0,
          cancel |-> FALSE]
NoLedgerRow == [status |-> "none", error |-> "", payment |-> None]

Ev(name, about, info) == [name |-> name, about |-> about, info |-> info]

\* Subscriptions of tenant t in the live / in the pending statuses.
Live(t) == {s \in Subs : subs[s].tenant = t /\ subs[s].status \in LiveSubscriptionStates}
Pending(t) == {s \in Subs : subs[s].tenant = t /\ subs[s].status = "pending"}
Unused == {s \in Subs : subs[s].status = "none"}

Init ==
    /\ payments = [p \in Payments |-> NoPayment]
    /\ subs = [s \in Subs |-> NoSub]
    /\ ledger = [k \in LedgerKey |-> NoLedgerRow]
    /\ emitted = {}
    /\ now = 0

----------------------------------------------------------------------------
(* Creating payments and subscriptions *)

\* create_payment: an existing key replays the stored checkout (or conflicts)
\* and changes nothing; a provider failure in create_checkout rolls back.
CreatePayment(p, t, prov) ==
    /\ payments[p].status = "none"
    /\ payments' = [payments EXCEPT ![p] =
            [status |-> "created", tenant |-> t, provider |-> prov,
             txn |-> None, created |-> now]]

\* A checkout opened for another purpose than a subscription (commerce orders).
OrderCheckout(o, t, prov) ==
    /\ CreatePayment(o, t, prov)
    /\ emitted' = emitted \cup {Ev("payment.created", o, None)}
    /\ UNCHANGED <<subs, ledger, now>>

\* The lookup of a pending subscription in start_subscription.
CheckoutInProgress(t) == Pending(t) # {}

\* start_subscription: refused while another checkout is pending (the same plan
\* replays it); the free plan cannot be bought.  The live subscription stays.
StartSubscription(t, plan, prov) ==
    /\ plan \in PaidPlans
    /\ ~CheckoutInProgress(t)
    /\ \E s \in Unused :
        /\ subs' = [subs EXCEPT ![s] =
                [status |-> "pending", tenant |-> t, plan |-> plan,
                 end |-> now + Period, cancel |-> FALSE]]
        /\ CreatePayment(s, t, prov)
        /\ emitted' = emitted \cup {Ev("payment.created", s, None)}
    /\ UNCHANGED <<ledger, now>>

\* The row auto_subscribe inserts for a tenant without a live subscription.
FreeSub(t) ==
    [status |-> IF FreeTrial THEN "trialing" ELSE "active", tenant |-> t,
     plan |-> FreePlan, end |-> now + Period, cancel |-> FALSE]

\* auto_subscribe, run by auto_subscribe_new_tenant; a redelivery of the
\* tenant-created event finds the live row and returns.
AutoSubscribe(t) ==
    /\ Live(t) = {}
    /\ \E s \in Unused :
        /\ subs' = [subs EXCEPT ![s] = FreeSub(t)]
        /\ emitted' = emitted \cup {Ev("subscription.activated", s, None)}
    /\ UNCHANGED <<payments, ledger, now>>

----------------------------------------------------------------------------
(* Finalization: each operator gives what the transition writes *)

\* Mutant: drops the subscription on expiry only.
Mut_DroppedOnExpiry(p, target) ==
    IF p \in Subs /\ subs[p].status = "pending" /\ target = "expired"
    THEN [subs EXCEPT ![p].status = "expired"]
    ELSE subs

\* _drop_pending_subscription, as part of _close.
DroppedSubs(p, target) ==
    IF p \in Subs /\ subs[p].status = "pending"
    THEN [subs EXCEPT ![p].status = IF target = "expired" THEN "expired" ELSE "canceled"]
    ELSE subs

ClosedEvent ==
    [failed |-> "payment.failed", canceled |-> "payment.canceled", expired |-> "payment.expired"]

\* Mutant: no assert_transition.
Mut_Close(p, target) ==
    /\ payments[p].status # "none"
    /\ payments' = [payments EXCEPT ![p].status = target]
    /\ subs' = DroppedSubs(p, target)
    /\ emitted' = emitted \cup {Ev(ClosedEvent[target], p, None)}

\* _close: failed, canceled or expired; the pending subscription goes with it.
Close(p, target) ==
    /\ CanTransition(payments[p].status, target)
    /\ payments' = [payments EXCEPT ![p].status = target]
    /\ subs' = DroppedSubs(p, target)
    /\ emitted' = emitted \cup {Ev(ClosedEvent[target], p, None)}

\* Mutant: no tenant filter.
Mut_Replaced(s) == {o \in Subs \ {s} : subs[o].status \in LiveSubscriptionStates}

\* The live subscriptions an activation of s replaces.
Replaced(s) == Live(payments[s].tenant) \ {s}

\* Mutant: the period always starts now.
Mut_ActivationStart(s) == now

\* Paying early for the plan one already has extends it: the new period starts
\* where the latest replaced period of the same plan ends.
ActivationStart(s) ==
    LET starts == {now} \cup {subs[o].end : o \in {r \in Replaced(s) : subs[r].plan = subs[s].plan}}
    IN  CHOOSE e \in starts : \A f \in starts : f <= e

\* Mutant: leaves the other live subscriptions as they are.
Mut_ActivatedSubs(s) ==
    [subs EXCEPT ![s].status = "active", ![s].cancel = FALSE,
                 ![s].end = ActivationStart(s) + Period]

\* Mutant: activates a pending subscription only, so a late success is dropped.
Mut_ActivatedPending(s) ==
    IF subs[s].status = "pending" THEN Mut_ActivatedSubs(s) ELSE subs

\* _activate_subscription: replace every other live subscription of the payment's
\* tenant, then take the live slot, whatever status s had.
ActivatedSubs(s) ==
    [o \in Subs |->
        IF o = s
        THEN [subs[s] EXCEPT !.status = "active", !.cancel = FALSE,
                             !.end = ActivationStart(s) + Period]
        ELSE IF o \in Replaced(s) THEN [subs[o] EXCEPT !.status = "canceled"]
        ELSE subs[o]]

\* Mutant: a renewal of the same plan is not announced as a replacement.
Mut_ReplacedEvents(s) ==
    {Ev("subscription.replaced", o, s) : o \in {r \in Replaced(s) : subs[r].plan # subs[s].plan}}

ReplacedEvents(s) == {Ev("subscription.replaced", o, s) : o \in Replaced(s)}

\* The payment.succeeded event: late when our checkout had already expired.
SucceededEvent(p) ==
    Ev("payment.succeeded", p, IF payments[p].status = "expired" THEN "late" ELSE "on_time")

\* mark_succeeded: payment and subscription in one transaction.
MarkSucceeded(p) ==
    /\ CanTransition(payments[p].status, "succeeded")
    /\ payments' = [payments EXCEPT ![p].status = "succeeded"]
    /\ IF p \in Subs
       THEN /\ subs' = ActivatedSubs(p)
            /\ emitted' = emitted \cup ReplacedEvents(p)
                 \cup {Ev("subscription.activated", p, None), SucceededEvent(p)}
       ELSE /\ subs' = subs
            /\ emitted' = emitted \cup {SucceededEvent(p)}

\* mark_pending: bind the provider's transaction to the payment.
MarkPending(p, txn) ==
    /\ CanTransition(payments[p].status, "pending")
    /\ payments' = [payments EXCEPT ![p].status = "pending", ![p].txn = txn]
    /\ UNCHANGED <<subs, emitted>>

----------------------------------------------------------------------------
(* The webhook processor *)

\* _find_payment: our payment id first, else the bound provider transaction.
FindPayment(cb) ==
    LET byRef == {p \in Payments : /\ p = cb.ref
                                   /\ payments[p].status # "none"
                                   /\ payments[p].provider = cb.provider}
        byTxn == {p \in Payments : /\ payments[p].provider = cb.provider
                                   /\ payments[p].txn = cb.txn}
    IN  IF byRef # {} THEN byRef ELSE byTxn

\* The status guard of _apply_action and of the mark_ method it calls.
ActionAllowed(action, p) ==
    \/ action = "create" /\ payments[p].status = "created"
    \/ action = "confirm" /\ CanTransition(payments[p].status, "succeeded")
    \/ action = "cancel" /\ CanTransition(payments[p].status, "canceled")

\* _apply_action, when the guard holds.
ApplyAction(cb, p) ==
    \/ cb.action = "create" /\ payments[p].status = "created" /\ MarkPending(p, cb.txn)
    \/ cb.action = "confirm" /\ MarkSucceeded(p)
    \/ cb.action = "cancel" /\ Close(p, "canceled")

DedupKey(cb) == <<cb.provider, cb.txn, cb.action>>

RecordLedger(cb, status, error, p) ==
    ledger' = [ledger EXCEPT ![DedupKey(cb)] =
                  [status |-> status, error |-> error, payment |-> p]]

\* _process_transition with the ledger row just claimed: an unknown payment or
\* a wrong amount is rejected, a forbidden transition fails, each for good.
ProcessTransition(cb) ==
    \/ /\ FindPayment(cb) = {}
       /\ RecordLedger(cb, "rejected", "not_found", None)
       /\ UNCHANGED <<payments, subs, emitted>>
    \/ \E p \in FindPayment(cb) :
        \/ /\ ~cb.amountOk
           /\ RecordLedger(cb, "rejected", "amount", p)
           /\ UNCHANGED <<payments, subs, emitted>>
        \/ /\ cb.amountOk
           /\ ~ActionAllowed(cb.action, p)
           /\ RecordLedger(cb, "failed", "", p)
           /\ UNCHANGED <<payments, subs, emitted>>
        \/ /\ cb.amountOk
           /\ ApplyAction(cb, p)
           /\ RecordLedger(cb, "processed", "", p)

\* process / _dispatch of an authenticated state-changing callback.  A duplicate
\* is answered from the committed row (_replay, see ReplayOutcome) and writes
\* nothing.
Webhook(cb) ==
    /\ IF ledger[DedupKey(cb)].status = "none"
       THEN ProcessTransition(cb)
       ELSE UNCHANGED <<payments, subs, ledger, emitted>>
    /\ UNCHANGED now

\* Mutant: a wrong amount is replayed as a wrong state.
Mut_ReplayOutcome(row) ==
    IF row.status = "rejected" /\ row.error = "not_found" THEN "not_found"
    ELSE IF row.status \in {"rejected", "failed"} THEN "invalid_state" ELSE "already_processed"

\* _replay: what a duplicate of a recorded callback is answered.
ReplayOutcome(row) ==
    IF row.status = "rejected"
    THEN IF row.error = "amount" THEN "amount_mismatch" ELSE "not_found"
    ELSE IF row.status = "failed" THEN "invalid_state" ELSE "already_processed"

----------------------------------------------------------------------------
(* PaymentService entry points outside the webhook, and the sweeps *)

\* cancel_payment and mark_failed.
CancelPayment(p) == Close(p, "canceled") /\ UNCHANGED <<ledger, now>>
MarkFailed(p) == Close(p, "failed") /\ UNCHANGED <<ledger, now>>

\* Mutant: the scan forgets the payments the provider has already bound.
Mut_ExpireCheckout(p) ==
    /\ payments[p].status = "created"
    /\ payments[p].created + CheckoutTTL < now
    /\ Close(p, "expired")
    /\ UNCHANGED <<ledger, now>>

\* expire_stale_checkouts for one payment: stale in the scan, still open when
\* re-read under the row lock.
ExpireCheckout(p) ==
    /\ payments[p].status \in OpenPaymentStates
    /\ payments[p].created + CheckoutTTL < now
    /\ Close(p, "expired")
    /\ UNCHANGED <<ledger, now>>

\* cancel_subscription: flags the live row, ends nothing.
CancelSubscription(t) ==
    /\ \E s \in Live(t) :
        /\ subs' = [subs EXCEPT ![s].cancel = TRUE]
        /\ emitted' = emitted \cup {Ev("subscription.canceled", s, None)}
    /\ UNCHANGED <<payments, ledger, now>>

PeriodEnded(s) == subs[s].status \in LiveSubscriptionStates /\ subs[s].end <= now

\* close_ended_period, zero-price plan that nobody canceled: free never lapses.
\* The while loop advances by whole periods to the first boundary after now.
RollForward(s) ==
    /\ PeriodEnded(s)
    /\ subs[s].plan = FreePlan /\ ~subs[s].cancel
    /\ \E k \in 1..(now + 1) :
        LET end == subs[s].end + k * Period IN
        /\ end - Period <= now /\ now < end
        /\ subs' = [subs EXCEPT ![s].end = end, ![s].status = "active"]
    /\ UNCHANGED <<payments, ledger, emitted, now>>

\* close_ended_period otherwise: close, then fall back to the free plan when a
\* usable one is configured and nothing else is live.
EndPeriod(s) ==
    /\ PeriodEnded(s)
    /\ subs[s].plan # FreePlan \/ subs[s].cancel
    /\ LET closed == [subs EXCEPT ![s].status = IF subs[s].cancel THEN "canceled" ELSE "expired"]
           t == subs[s].tenant
       IN  \/ /\ subs' = closed
              /\ emitted' = emitted \cup {Ev("subscription.ended", s, None)}
           \/ /\ Live(t) = {s}
              /\ \E f \in Unused :
                  /\ subs' = [closed EXCEPT ![f] = FreeSub(t)]
                  /\ emitted' = emitted \cup {Ev("subscription.ended", s, None),
                                              Ev("subscription.activated", f, None)}
    /\ UNCHANGED <<payments, ledger, now>>

Tick == now < MaxTime /\ now' = now + 1 /\ UNCHANGED <<payments, subs, ledger, emitted>>

Next ==
    \/ \E t \in Tenants :
        \/ \E prov \in Providers :
            \/ \E o \in Orders : OrderCheckout(o, t, prov)
            \/ \E plan \in PaidPlans : StartSubscription(t, plan, prov)
        \/ AutoSubscribe(t)
        \/ CancelSubscription(t)
    \/ \E cb \in Callback : Webhook(cb)
    \/ \E p \in Payments : CancelPayment(p) \/ MarkFailed(p) \/ ExpireCheckout(p)
    \/ \E s \in Subs : RollForward(s) \/ EndPeriod(s)
    \/ Tick

Spec == Init /\ [][Next]_vars
----------------------------------------------------------------------------
(* Properties *)

TypeOK ==
    /\ payments \in [Payments -> PaymentRow]
    /\ subs \in [Subs -> SubRow]
    /\ ledger \in [LedgerKey -> LedgerRow]
    /\ emitted \subseteq Event
    /\ now \in Nat

\* A tenant has at most one live subscription: no transaction ever relies on the
\* partial unique index to stop a second one (service.py, lifecycle comment).
OneLivePerTenant ==
    \A t \in Tenants : \A a, b \in Live(t) : a = b

\* A tenant has at most one checkout in progress.
OnePendingPerTenant ==
    \A t \in Tenants : \A a, b \in Pending(t) : a = b

\* "Money taken, subscription inactive" is impossible: a subscription's checkout
\* and the subscription always agree.  A pending subscription has an open
\* payment and no other; a paid one was activated; a dropped one left nothing
\* pending behind that would block the tenant's next checkout; payment and
\* subscription belong to the same tenant.
CheckoutMatchesSubscription ==
    \A s \in Subs :
        LET pay == payments[s].status  sub == subs[s].status IN
        /\ pay \in OpenPaymentStates <=> sub = "pending"
        /\ pay = "succeeded" => /\ sub \in {"active", "canceled", "expired"}
                               /\ Ev("subscription.activated", s, None) \in emitted
        /\ pay = "expired" => sub = "expired"
        /\ pay \in {"failed", "canceled"} => sub = "canceled"
        /\ sub # "none" <=> subs[s].tenant \in Tenants
        /\ pay # "none" => subs[s].tenant = payments[s].tenant /\ subs[s].plan \in PaidPlans
        /\ pay = "none" /\ sub # "none" => subs[s].plan = FreePlan

\* A subscription that was announced as activated and is not live any more was
\* announced as replaced or ended: consumers can always learn that it is over.
EndIsAnnounced ==
    \A s \in Subs :
        Ev("subscription.activated", s, None) \in emitted
            => \/ subs[s].status \in LiveSubscriptionStates
               \/ Ev("subscription.ended", s, None) \in emitted
               \/ \E o \in Subs : Ev("subscription.replaced", s, o) \in emitted

\* A committed ledger row tells the truth about the payment it names, now and
\* at every later replay: "processed" is the answer the provider acts upon.  The
\* ledger alone keeps provider transactions apart: none is ever bound to two
\* payments, so the unique index on (provider, provider_transaction_id) never
\* turns a callback into an unhandled error.
LedgerMatchesPayment ==
    \A prov \in Providers, x \in Txns :
        LET row(a) == ledger[<<prov, x, a>>] IN
        /\ \A p, q \in {r \in Payments : payments[r].txn = x /\ payments[r].provider = prov} :
              p = q
        /\ row("create").status = "processed" =>
              payments[row("create").payment].txn = x
        /\ row("confirm").status = "processed" =>
              payments[row("confirm").payment].status = "succeeded"
        /\ row("cancel").status = "processed" =>
              payments[row("cancel").payment].status = "canceled"

\* A callback refused for the payment's state is refused for good: the replayed
\* "invalid_state" is what processing it afresh would still answer.
ReplayMatchesFresh ==
    \A prov \in Providers, x \in Txns, a \in Actions :
        LET row == ledger[<<prov, x, a>>] IN
        row.status # "none" /\ ReplayOutcome(row) = "invalid_state"
            => ~ActionAllowed(a, row.payment)

\* A step only moves a payment along the state machine: forward, out of no
\* terminal state, whatever callbacks, cancels and sweeps interleave.
ForwardOnly ==
    [][\A p \in Payments :
        payments[p].status # "none" /\ payments'[p].status # payments[p].status
            => CanTransition(payments[p].status, payments'[p].status)]_vars

RowsOf(t) ==
    <<[p \in Payments |-> IF payments[p].tenant = t THEN payments[p] ELSE NoPayment],
      [s \in Subs |-> IF subs[s].tenant = t THEN subs[s] ELSE NoSub]>>

\* A callback, a sweep or a request touches rows of one tenant only ("a callback
\* for tenant A can never touch tenant B", webhooks.py).
OneTenantPerStep ==
    [][\A t, u \in Tenants : RowsOf(t)' # RowsOf(t) /\ RowsOf(u)' # RowsOf(u) => t = u]_vars

\* No paid time is lost by paying early or late: whenever a payment succeeds, its
\* subscription runs a full period beyond now and beyond any subscription of the
\* same plan it replaces.
PaidTimeIsKept ==
    [][\A s \in Subs :
        payments[s].status # "succeeded" /\ payments'[s].status = "succeeded"
            => /\ subs'[s].status = "active"
               /\ subs'[s].end >= now + Period
               /\ \A o \in Live(subs[s].tenant) \ {s} :
                    subs[o].plan = subs[s].plan => subs'[s].end >= subs[o].end + Period]_vars

\* Cron jobs: the sweeps run again and again, and time passes.
Fairness ==
    /\ WF_vars(Tick)
    /\ \A p \in Payments : WF_vars(ExpireCheckout(p))
    /\ \A s \in Subs : WF_vars(RollForward(s)) /\ WF_vars(EndPeriod(s))

FairSpec == Spec /\ Fairness

\* The sweeps catch up.  An abandoned checkout never blocks its tenant for ever:
\* once past its time limit it is closed, and the pending subscription with it.
\* And a subscription never stays live on an ended period.
SweepsCatchUp ==
    /\ \A p \in Payments :
        (payments[p].status \in OpenPaymentStates /\ payments[p].created + CheckoutTTL < now)
            ~> payments[p].status \notin OpenPaymentStates
    /\ \A s \in Subs : PeriodEnded(s) ~> ~PeriodEnded(s)

\* The refinement mapping to the promise.
PromisedOwner == [s \in Subs |-> subs[s].tenant]
PromisedCheckout ==
    [s \in Subs |->
        IF payments[s].status \in {"none", "expired"} THEN payments[s].status
        ELSE IF payments[s].status \in OpenPaymentStates THEN "open"
        ELSE IF payments[s].status = "succeeded" THEN "paid"
        ELSE "void"]
PromisedSlot ==
    [t \in Tenants |-> IF Live(t) = {} THEN None ELSE CHOOSE s \in Live(t) : TRUE]

Promise == INSTANCE BillingPromise
    WITH owner <- PromisedOwner, checkout <- PromisedCheckout, slot <- PromisedSlot

\* Billing implements its promise: every transaction is one promised step (or
\* none), so money and subscription change together and no transaction leaves a
\* tenant with two live subscriptions or two open checkouts.
KeepsPromise == Promise!Spec
=============================================================================
