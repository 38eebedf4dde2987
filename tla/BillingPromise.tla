--------------------------- MODULE BillingPromise ---------------------------
(***************************************************************************)
(* What core/billing promises a tenant, free of rows, ledgers and clocks:  *)
(* each tenant has one slot for its live subscription and at most one      *)
(* checkout in progress; the step that takes the money is the step that    *)
(* puts the subscription into the slot; an abandoned checkout may still be *)
(* paid late; only the end of a period empties the slot.                   *)
(*                                                                         *)
(* Billing (whole transactions) and SubscriptionTx (locks, snapshots and   *)
(* unique indexes inside transactions) implement this specification.       *)
(***************************************************************************)
CONSTANTS Tenants, Subs, None

VARIABLES
    owner,      \* owner[s]: the tenant of subscription s, None until it exists
    checkout,   \* checkout[s]: how far paying for s has come
    slot        \* slot[t]: the live subscription of t, or None

vars == <<owner, checkout, slot>>

CheckoutStates == {"none", "open", "paid", "expired", "void"}

TypeOK ==
    /\ owner \in [Subs -> Tenants \cup {None}]
    /\ checkout \in [Subs -> CheckoutStates]
    /\ slot \in [Tenants -> Subs \cup {None}]

Init ==
    /\ owner = [s \in Subs |-> None]
    /\ checkout = [s \in Subs |-> "none"]
    /\ slot = [t \in Tenants |-> None]

\* A checkout is opened; the live subscription is not touched.
Open(s, t) ==
    /\ owner[s] = None
    /\ \A o \in Subs : owner[o] = t => checkout[o] # "open"
    /\ owner' = [owner EXCEPT ![s] = t]
    /\ checkout' = [checkout EXCEPT ![s] = "open"]
    /\ UNCHANGED slot

\* Money and subscription together; an expired checkout may be paid late.
Pay(s) ==
    /\ checkout[s] \in {"open", "expired"}
    /\ checkout' = [checkout EXCEPT ![s] = "paid"]
    /\ slot' = [slot EXCEPT ![owner[s]] = s]
    /\ UNCHANGED owner

\* The checkout is abandoned: by time (may come back) or for good.
Abandon(s) ==
    /\ checkout[s] = "open"
    /\ \E v \in {"expired", "void"} : checkout' = [checkout EXCEPT ![s] = v]
    /\ UNCHANGED <<owner, slot>>

\* A subscription nobody pays for, only ever into an empty slot.
Grant(s, t) ==
    /\ owner[s] = None
    /\ slot[t] = None
    /\ owner' = [owner EXCEPT ![s] = t]
    /\ slot' = [slot EXCEPT ![t] = s]
    /\ UNCHANGED checkout

\* The period of the live subscription ends, with or without a fallback.
Lapse(t) ==
    /\ slot[t] # None
    /\ slot' = [slot EXCEPT ![t] = None]
    /\ UNCHANGED <<owner, checkout>>

FallBack(s, t) ==
    /\ slot[t] # None
    /\ owner[s] = None
    /\ owner' = [owner EXCEPT ![s] = t]
    /\ slot' = [slot EXCEPT ![t] = s]
    /\ UNCHANGED checkout

Next ==
    \/ \E s \in Subs, t \in Tenants : Open(s, t) \/ Grant(s, t) \/ FallBack(s, t)
    \/ \E s \in Subs : Pay(s) \/ Abandon(s)
    \/ \E t \in Tenants : Lapse(t)

Spec == Init /\ [][Next]_vars
=============================================================================
