------------------------------- MODULE Orders -------------------------------
(***************************************************************************)
(* Commerce orders and the payment events that settle them                 *)
(* (modules/commerce/orders/service.py, subscribers.py).  An order is      *)
(* placed with a payment; billing moves the payment and publishes what     *)
(* happened; each event is handled by a worker in a transaction of its     *)
(* own, which reads the order in one step and writes it in another, without*)
(* a lock.  A failed handler is tried again behind what is queued by then. *)
(* That each event takes effect once is ReliableBus.                       *)
(***************************************************************************)
EXTENDS Naturals, Sequences, PaymentStates

CONSTANTS
    Ids,            \* orders, each with the payment made for it
    Workers,        \* handlers that may run at once
    MaxFailures,    \* bound on handlers that fail and are tried again
    None

VARIABLES
    order,      \* the status of each order
    payment,    \* the status of its payment (core/billing)
    queue,      \* published events, in the order of their publication
    run,        \* run[w]: the event w handles and the status it read
    receipts,   \* orders whose receipt is queued (dedup_key order_paid:<id>)
    failures

vars == <<order, payment, queue, run, receipts, failures>>

Idle == [event |-> None, read |-> None]

Init ==
    /\ order = [o \in Ids |-> "none"]
    /\ payment = [o \in Ids |-> "none"]
    /\ queue = <<>>
    /\ run = [w \in Workers |-> Idle]
    /\ receipts = {}
    /\ failures = 0

\* place_order: the order and its payment in one transaction.
Place(o) ==
    /\ order[o] = "none"
    /\ order' = [order EXCEPT ![o] = "pending"]
    /\ payment' = [payment EXCEPT ![o] = "created"]
    /\ UNCHANGED <<queue, run, receipts, failures>>

\* Billing moves the payment.  Every status but "pending" is published; a success
\* after the checkout expired says that it is late.
Settle(o, status) ==
    /\ CanTransition(payment[o], status)
    /\ payment' = [payment EXCEPT ![o] = status]
    /\ queue' = IF status = "pending" THEN queue
                ELSE Append(queue, [id |-> o, name |-> status, late |-> payment[o] = "expired"])
    /\ UNCHANGED <<order, run, receipts, failures>>

\* Mutant: a late success does not bring a canceled order back.
Mut_AfterSuccess(read, late) == IF read = "canceled" THEN read ELSE "paid"

\* mark_paid: what a success makes of the status it read.
AfterSuccess(read, late) == IF read = "canceled" /\ ~late THEN read ELSE "paid"

\* cancel: what a failure, a cancellation or an expiry makes of it.
AfterClosure(read) == IF read = "paid" THEN read ELSE "canceled"

\* The handler of the next event starts: _is_order_payment, then the SELECT.
Take(w) ==
    /\ run[w] = Idle /\ queue # <<>>
    /\ run' = [run EXCEPT ![w] = [event |-> Head(queue), read |-> order[Head(queue).id]]]
    /\ queue' = Tail(queue)
    /\ UNCHANGED <<order, payment, receipts, failures>>

\* ... and commits: mark_order_paid with its receipt, or _cancel_order.  The
\* UPDATE writes the status only if the handler changed the one it read.
Handle(w) ==
    /\ run[w] # Idle
    /\ LET e == run[w].event
           result == IF e.name = "succeeded" THEN AfterSuccess(run[w].read, e.late)
                     ELSE AfterClosure(run[w].read)
       IN  /\ order' = IF result = run[w].read THEN order ELSE [order EXCEPT ![e.id] = result]
           /\ receipts' = IF e.name = "succeeded" /\ result = "paid"
                          THEN receipts \cup {e.id} ELSE receipts
    /\ run' = [run EXCEPT ![w] = Idle]
    /\ UNCHANGED <<payment, queue, failures>>

\* The handler raises; dispatch_event defers it.
Fail(w) ==
    /\ run[w] # Idle
    /\ failures < MaxFailures /\ failures' = failures + 1
    /\ queue' = Append(queue, run[w].event)
    /\ run' = [run EXCEPT ![w] = Idle]
    /\ UNCHANGED <<order, payment, receipts>>

Work(w) == Take(w) \/ Handle(w)

Next ==
    \/ \E o \in Ids : Place(o) \/ \E status \in PaymentStatus : Settle(o, status)
    \/ \E w \in Workers : Work(w) \/ Fail(w)

Spec == Init /\ [][Next]_vars

\* Workers keep handling what is queued.
Fairness == \A w \in Workers : WF_vars(Work(w))
FairSpec == Spec /\ Fairness

----------------------------------------------------------------------------
(* Properties *)

\* Whoever paid gets the order: after a success, early or late, overtaken by the
\* expiry of its own checkout or not, the order ends up paid for good and its
\* receipt is queued.  This is checked for handlers that run one at a time (one
\* worker); for overlapping ones see PaidStaysPaid.
MoneyBuysOrder ==
    \A o \in Ids :
        payment[o] = "succeeded" ~> [](order[o] = "paid" /\ o \in receipts)

\* "A paid order is not canceled by a late failure" (OrderService.cancel).
PaidStaysPaid == [][\A o \in Ids : order[o] = "paid" => order'[o] = "paid"]_vars
=============================================================================
