----------------------------- MODULE MCWorkers -----------------------------
(***************************************************************************)
(* What must come to an end: the interleaved subscription transactions,    *)
(* the deduplicated send, the orders that follow payments, and a channel   *)
(* behind its circuit breaker.  The components share no state, so a        *)
(* behaviour exercises one of them, named by `focus'.                      *)
(***************************************************************************)
EXTENDS SubscriptionTx, Sequences

CONSTANTS Callers, Channels,                                       \* SendOnce
          Ids, Workers, MaxFailures,                               \* Orders
          Sends, Attempts, Threshold                               \* Resilience

VARIABLES
    focus,
    snd_table, snd_pc, snd_answer, snd_failures,
    ord_order, ord_payment, ord_queue, ord_run, ord_receipts, ord_failures,
    res_channel, res_state, res_failures, res_recovered, res_token, res_up, res_pc,
    res_attempt, res_bearer, res_refused

Sending == INSTANCE SendOnce
    WITH table <- snd_table, pc <- snd_pc, answer <- snd_answer, failures <- snd_failures
Order == INSTANCE Orders
    WITH order <- ord_order, payment <- ord_payment, queue <- ord_queue, run <- ord_run,
         receipts <- ord_receipts, failures <- ord_failures
Channel == INSTANCE Resilience
    WITH channel <- res_channel, state <- res_state, failures <- res_failures,
         recovered <- res_recovered, token <- res_token, up <- res_up, pc <- res_pc,
         attempt <- res_attempt, bearer <- res_bearer, refused <- res_refused

sending == <<snd_table, snd_pc, snd_answer, snd_failures>>
orders == <<ord_order, ord_payment, ord_queue, ord_run, ord_receipts, ord_failures>>
channel == <<res_channel, res_state, res_failures, res_recovered, res_token, res_up, res_pc,
             res_attempt, res_bearer, res_refused>>
allvars == <<focus, vars, sending, orders, channel>>

MCInit ==
    /\ focus \in {"transactions", "sending", "orders", "channel"}
    /\ Init /\ Sending!Init /\ Order!Init
    /\ Channel!Init
    /\ focus # "channel" => res_channel = "email"

\* A step of the component in focus.
Tx(A) == focus = "transactions" /\ A /\ UNCHANGED <<focus, sending, orders, channel>>
Snd(A) == focus = "sending" /\ A /\ UNCHANGED <<focus, vars, orders, channel>>
Ord(A) == focus = "orders" /\ A /\ UNCHANGED <<focus, vars, sending, channel>>
Chn(A) == focus = "channel" /\ A /\ UNCHANGED <<focus, vars, sending, orders>>

MCNext == \/ Tx(Next) \/ Snd(Sending!Next) \/ Ord(Order!Next) \/ Chn(Channel!Next)

MCSpec == MCInit /\ [][MCNext]_allvars

\* The fairness of each component (see there), for its own steps.
MCFairness ==
    /\ \A s \in Paid : SF_allvars(Tx(ConfirmStep(s)))
    /\ SF_allvars(Tx(SweepStep)) /\ SF_allvars(Tx(AutoStep)) /\ SF_allvars(Tx(CancelStep))
    /\ \A c \in Callers : WF_allvars(Snd(Sending!Call(c)))
    /\ \A w \in Workers : WF_allvars(Ord(Order!Work(w)))
    /\ \A s \in Sends : WF_allvars(Chn(Channel!Step(s)))
    /\ WF_allvars(Chn(Channel!RecoveryTimeEnds))

MCFairSpec == MCSpec /\ MCFairness

\* Every sender gets the id of the one notification in the end (SendOnce).
EveryCallerIsAnswered == focus = "sending" => Sending!EveryCallerIsAnswered

\* Whoever paid gets the order, and keeps it, with a receipt, when handlers do not
\* overlap (Orders).
MoneyBuysOrder == focus = "orders" => Order!MoneyBuysOrder

\* A provider that is up for good is called again in the end (Resilience).
Recovers == focus = "channel" => Channel!Recovers
=============================================================================
