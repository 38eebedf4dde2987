------------------------- MODULE ProviderDialects -------------------------
(***************************************************************************)
(* The conversation about one payment, in the provider's own words: what   *)
(* create_checkout asks for, what parse_webhook understands of a message,  *)
(* and what build_webhook_response answers (core/billing/adapters).  The   *)
(* processor between the two is that of module Billing, reduced to one     *)
(* payment.  Messages are authentic and name this payment; they may be     *)
(* repeated, reordered, and carry any amount.                              *)
(*                                                                         *)
(* Payme counts tiyin, Click writes sums with a fraction, Stripe counts    *)
(* minor units and names the currency in lower case.  An amount of the     *)
(* wire is a number of these units (Click: of hundredths), or None for one *)
(* that cannot be read.                                                    *)
(***************************************************************************)
EXTENDS Integers, FiniteSets, PaymentStates

CONSTANTS Amounts,        \* payment amounts, in ledger minor units
          WireAmounts,    \* numbers a provider's message may carry
          Txns,           \* provider transaction (Stripe: event) ids
          MaxTime,        \* bound on the clock
          None

VARIABLES provider, amount, currency,     \* the payment; fixed
          payment,        \* its status, recorded times and failure code
          txn,            \* provider_transaction_id
          ledger,         \* payment_webhooks, by transaction and action
          now,
          charged,        \* history: the wire amount the provider went by
          said            \* history: the first success answered to each call

vars == <<provider, amount, currency, payment, txn, ledger, now, charged, said>>

Actions == {"create", "confirm", "cancel"}
Methods == [payme |-> {"CheckPerformTransaction", "CreateTransaction",
                       "PerformTransaction", "CancelTransaction", "CheckTransaction"},
            click |-> {"prepare", "complete", "complete_failed"},
            stripe |-> {"completed_paid", "expired", "other"}]
Codes == [uzs |-> "UZS", usd |-> "USD"]       \* _normalize_currency

Unpaid == [status |-> "created", pending_at |-> 0, paid_at |-> 0, closed_at |-> 0,
           failure |-> None]

----------------------------------------------------------------------------
(* Amounts *)

ToTiyin(sums) == sums * 100
ToSumAmount(sums) == sums * 100               \* "<sums>", read as hundredths

\* Sub-sum amounts truncate.
Mut_FromHundredths(wire) == IF wire = None \/ wire < 0 THEN None ELSE wire \div 100

\* minor_units_from_tiyin and minor_units_from_sum: whole sums only.
FromHundredths(wire) ==
    IF wire = None \/ wire < 0 \/ wire % 100 # 0 THEN None ELSE wire \div 100

\* create_checkout: what it asks the customer to pay, and whether it does.  A
\* checkout that is refused leaves no payment.
PaymeCheckout == [asks |-> ToTiyin(amount), accepts |-> currency = "UZS"]
ClickCheckout == [asks |-> ToSumAmount(amount), accepts |-> currency = "UZS"]
StripeCheckout == [asks |-> amount, accepts |-> TRUE]
Checkout == [payme |-> PaymeCheckout, click |-> ClickCheckout, stripe |-> StripeCheckout][provider]

\* Money of a UZS message: an unreadable amount is read as 0, which no payment has.
SumsOf(wire) ==
    [amount |-> IF FromHundredths(wire) = None THEN 0 ELSE FromHundredths(wire),
     currency |-> "UZS"]

----------------------------------------------------------------------------
(* parse_webhook *)

NoMoney == [amount |-> -1, currency |-> None]     \* the action carries no amount
Call(action, id, ours, money) ==
    [action |-> action, txn |-> id, ours |-> ours, money |-> money]

\* PaymeProvider._normalize: the account and the amount come with the first two
\* methods only, the transaction with the last four.
PaymeCall(method, id, wire) ==
    CASE method = "CheckPerformTransaction" -> Call("check", None, TRUE, SumsOf(wire))
      [] method = "CreateTransaction"       -> Call("create", id, TRUE, SumsOf(wire))
      [] method = "PerformTransaction"      -> Call("confirm", id, FALSE, NoMoney)
      [] method = "CancelTransaction"       -> Call("cancel", id, FALSE, NoMoney)
      [] method = "CheckTransaction"        -> Call("status", id, FALSE, NoMoney)

\* ClickProvider.parse_webhook: a Complete that reports an error is a cancel.
ClickCall(method, id, wire) ==
    CASE method = "prepare"         -> Call("create", id, TRUE, SumsOf(wire))
      [] method = "complete"        -> Call("confirm", id, TRUE, SumsOf(wire))
      [] method = "complete_failed" -> Call("cancel", id, TRUE, NoMoney)

\* StripeProvider._normalize; an unreadable amount raises, so nothing is recorded.
StripeReads(method, wire) == method = "completed_paid" => wire # None /\ wire >= 0
StripeCall(method, id, wire, code) ==
    CASE method = "completed_paid" ->
            Call("confirm", id, TRUE, [amount |-> wire, currency |-> Codes[code]])
      [] method = "expired" -> Call("cancel", id, TRUE, NoMoney)
      [] method = "other"   -> Call("status", None, FALSE, NoMoney)

----------------------------------------------------------------------------
(* The processor, for this payment *)

Finds(call) == call.ours \/ (call.txn # None /\ call.txn = txn)
AmountOk(call) == call.money = NoMoney
                  \/ call.money = [amount |-> amount, currency |-> currency]

Target == [create |-> "pending", confirm |-> "succeeded", cancel |-> "canceled"]
Applies(action) == /\ action = "create" => payment.status = "created"
                   /\ CanTransition(payment.status, Target[action])

\* What mark_pending, mark_succeeded and mark_canceled_by_provider write.
Written(action, reason) ==
    CASE action = "create"  -> [payment EXCEPT !.status = "pending", !.pending_at = now]
      [] action = "confirm" -> [payment EXCEPT !.status = "succeeded", !.paid_at = now]
      [] action = "cancel"  -> [payment EXCEPT !.status = "canceled", !.closed_at = now,
                                               !.failure = reason]

\* _handle_read_only: check and status are answered and change nothing.
ReadOnly(call) == call.action \notin Actions

\* The ledger row a first delivery leaves, named by the outcome it stands for.
Fresh(call) ==
    IF ~Finds(call) THEN "not_found"
    ELSE IF ~AmountOk(call) THEN "amount_mismatch"
    ELSE IF ~Applies(call.action) THEN "invalid_state" ELSE "ok"

Replay(row) == IF row = "ok" THEN "already_processed" ELSE row

----------------------------------------------------------------------------
(* build_webhook_response, from the payment as the call left it *)

\* _state and _reason.
PaymeState(p) == IF p.status = "succeeded" THEN 2
                 ELSE IF p.status \in OpenPaymentStates THEN 1 ELSE -1
PaymeReason(p) == IF PaymeState(p) # -1 THEN None
                  ELSE IF p.failure # None THEN p.failure
                  ELSE IF p.status = "expired" THEN 4 ELSE None

\* Times are taken from the clock of the answer.
Mut_PaymeResult(action, p) ==
    CASE action = "check"   -> <<"allow">>
      [] action = "create"  -> <<now, PaymeState(p)>>
      [] action = "confirm" -> <<now, PaymeState(p)>>
      [] action = "cancel"  -> <<now, PaymeState(p)>>
      [] action = "status"  -> <<p.pending_at, p.paid_at, p.closed_at, PaymeState(p),
                                 PaymeReason(p)>>

\* _success_result: rendered from the recorded times.
PaymeResult(action, p) ==
    CASE action = "check"   -> <<"allow">>
      [] action = "create"  -> <<p.pending_at, PaymeState(p)>>
      [] action = "confirm" -> <<p.paid_at, PaymeState(p)>>
      [] action = "cancel"  -> <<p.closed_at, PaymeState(p)>>
      [] action = "status"  -> <<p.pending_at, p.paid_at, p.closed_at, PaymeState(p),
                                 PaymeReason(p)>>

Success == {"ok", "already_processed"}

\* A repeated CreateTransaction succeeds only while the transaction is open.
PaymeOutcome(action, outcome, p) ==
    IF action = "create" /\ outcome \in Success /\ p.status # "pending"
    THEN "invalid_state" ELSE outcome

PaymeErrors == [amount_mismatch |-> -31001, invalid_state |-> -31008, not_found |-> -31050]
PaymeAnswer(action, outcome, p) ==
    LET o == PaymeOutcome(action, outcome, p) IN
    IF o \in Success THEN [ok |-> TRUE, body |-> PaymeResult(action, p)]
    ELSE [ok |-> FALSE,
          body |-> IF o = "not_found" /\ action \in {"confirm", "cancel", "status"}
                   THEN <<-31003>> ELSE <<PaymeErrors[o]>>]

ClickErrors == [amount_mismatch |-> -2, invalid_state |-> -4, not_found |-> -5]
ClickAnswer(action, outcome) ==
    IF outcome \in Success
    THEN [ok |-> TRUE, body |-> IF action = "cancel" THEN <<-9>> ELSE <<0>>]
    ELSE [ok |-> FALSE, body |-> <<ClickErrors[outcome]>>]

\* Every decided outcome is acknowledged.
StripeAnswer == [ok |-> TRUE, body |-> <<200>>]

Answer(action, outcome, p) ==
    IF provider = "payme" THEN PaymeAnswer(action, outcome, p)
    ELSE IF provider = "click" THEN ClickAnswer(action, outcome) ELSE StripeAnswer

----------------------------------------------------------------------------
(* Steps *)

Init == /\ provider \in {"payme", "click", "stripe"}
        /\ amount \in Amounts /\ currency \in {"UZS", "USD"}
        /\ Checkout.accepts
        /\ payment = Unpaid /\ txn = None /\ now = 1
        /\ ledger = [k \in Txns \X Actions |-> None]
        /\ charged = None
        /\ said = [k \in Txns \X Actions |-> None]

\* The first success answered to a state-changing call is remembered.
Remember(k, answer) ==
    said' = IF answer.ok /\ said[k] = None THEN [said EXCEPT ![k] = answer.body] ELSE said

\* process: one transaction, then the answer.
Process(call, wire, reason) ==
    /\ IF ReadOnly(call)
       THEN UNCHANGED <<payment, txn, ledger, charged, said>>
       ELSE LET k == <<call.txn, call.action>>
                done == ledger[k] = None /\ Fresh(call) = "ok"
                outcome == IF ledger[k] = None THEN Fresh(call) ELSE Replay(ledger[k])
            IN  /\ payment' = IF done THEN Written(call.action, reason) ELSE payment
                /\ txn' = IF done /\ call.action = "create" THEN call.txn ELSE txn
                /\ charged' = IF done /\ call.money # NoMoney THEN <<wire, call.money.currency>>
                              ELSE charged
                /\ ledger' = IF ledger[k] = None THEN [ledger EXCEPT ![k] = Fresh(call)]
                             ELSE ledger
                /\ Remember(k, Answer(call.action, outcome, payment'))
    /\ UNCHANGED <<provider, amount, currency, now>>

Payme(method, id, wire) ==
    /\ provider = "payme"
    /\ Process(PaymeCall(method, id, wire), wire,
               IF method = "CancelTransaction" THEN 5 ELSE None)

Click(method, id, wire) ==
    /\ provider = "click"
    /\ Process(ClickCall(method, id, wire), wire,
               IF method = "complete_failed" THEN -1 ELSE None)

Stripe(method, id, wire, code) ==
    /\ provider = "stripe"
    /\ StripeReads(method, wire)
    /\ Process(StripeCall(method, id, wire, code), wire, None)

\* The tenant cancels, or the sweep expires the checkout (_close).
CloseHere(status) ==
    /\ CanTransition(payment.status, status)
    /\ payment' = [payment EXCEPT !.status = status, !.closed_at = now]
    /\ UNCHANGED <<provider, amount, currency, txn, ledger, now, charged, said>>

Tick == /\ now < MaxTime
        /\ now' = now + 1
        /\ UNCHANGED <<provider, amount, currency, payment, txn, ledger, charged, said>>

Next == \/ \E id \in Txns, wire \in WireAmounts \cup {None} :
              \/ \E m \in Methods.payme : Payme(m, id, wire)
              \/ \E m \in Methods.click : Click(m, id, wire)
              \/ \E m \in Methods.stripe, code \in DOMAIN Codes : Stripe(m, id, wire, code)
        \/ CloseHere("canceled") \/ CloseHere("expired")
        \/ Tick

Spec == Init /\ [][Next]_vars
----------------------------------------------------------------------------
\* A payment is accepted only for what its checkout asked for, to the unit of
\* the wire and in its currency: the conversions of the adapters undo each
\* other and no other amount reconciles (to_tiyin, minor_units_from_tiyin,
\* to_sum_amount, minor_units_from_sum, minor_units_from_stripe).
PaidWhatWasAsked ==
    (payment.pending_at # 0 \/ payment.paid_at # 0) => charged = <<Checkout.asks, currency>>

\* A call that succeeded once is answered the same ever after, or refused:
\* "identical for the first answer and every replay" (PaymeProvider's
\* _success_result), although time passes and the payment moves on.
AnswersAgree ==
    \A k \in Txns \X Actions :
        LET again == Answer(k[2], Replay(ledger[k]), payment)
        IN  said[k] # None => (again.ok => again.body = said[k])
=============================================================================
