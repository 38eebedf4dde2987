--------------------------- MODULE PaymentStates ---------------------------
(***************************************************************************)
(* The payment state machine of core/billing/state_machine.py and the      *)
(* status vocabularies of core/billing/models.py.  Pure constants and      *)
(* operators, shared by every module that talks about payments.            *)
(*                                                                         *)
(* "none" is not a status of the code: it marks a row that does not exist. *)
(***************************************************************************)

\* Payment.status (the CHECK constraint of the payments table).
PaymentStatus ==
    {"created", "pending", "succeeded", "failed", "canceled", "expired"}

\* Subscription.status (the CHECK constraint of the subscriptions table).
SubscriptionStatus ==
    {"pending", "trialing", "active", "past_due", "canceled", "expired"}

\* LIVE_SUBSCRIPTION_STATES: the statuses the one-live index ranges over.
LiveSubscriptionStates == {"trialing", "active", "past_due"}

\* _LIVE_STATES of the expiry job: a checkout that can still be paid or dropped.
OpenPaymentStates == {"created", "pending"}

\* Mutant: a success can be canceled afterwards.
Mut_Transitions ==
    [created   |-> {"pending", "succeeded", "failed", "canceled", "expired"},
     pending   |-> {"succeeded", "failed", "canceled", "expired"},
     succeeded |-> {"canceled"},
     failed    |-> {},
     canceled  |-> {},
     expired   |-> {"succeeded"}]

\* _TRANSITIONS: an expired checkout may still succeed (late success), nothing
\* leaves succeeded, failed or canceled.
Transitions ==
    [created   |-> {"pending", "succeeded", "failed", "canceled", "expired"},
     pending   |-> {"succeeded", "failed", "canceled", "expired"},
     succeeded |-> {},
     failed    |-> {},
     canceled  |-> {},
     expired   |-> {"succeeded"}]

\* can_transition: the test assert_transition raises InvariantViolationError on.
CanTransition(current, target) ==
    /\ current \in PaymentStatus
    /\ target \in Transitions[current]
=============================================================================
