---------------------------- MODULE Entitlements ----------------------------
(***************************************************************************)
(* The plan a tenant's features are granted by (modules/saas/entitlements) *)
(* against the subscription billing keeps for that tenant.  Billing        *)
(* publishes what becomes of the subscription; the handlers of those       *)
(* events maintain the tenant's one entitlement row.  A handler reads the  *)
(* row in one step and writes the columns it changed in another, without a *)
(* lock.  Events are published in order, but each is a job of its own: any *)
(* pending one may be started next, several may run at once, and a failed  *)
(* one is deferred and tried again behind later ones.                      *)
(*                                                                         *)
(* The subscription is reduced to what the events and the row speak of;    *)
(* its full life is Billing, and that each event takes effect once is      *)
(* ReliableBus.                                                            *)
(***************************************************************************)
EXTENDS Naturals, SequencesExt

CONSTANTS
    PaidPlans,
    FreePlan,       \* billing_default_plan_code: the fallback, with auto-subscribe
    Period,         \* clock units per billing period
    MaxTime,        \* bound on the clock, and on what is bought ahead
    MaxEvents,      \* bound on events not yet handled
    Workers,        \* handlers that may run at once
    None

VARIABLES
    now,
    live,       \* the tenant's live subscription
    queue,      \* events not yet handled, in the order of their publication
    run,        \* run[w]: the place of the event w handles, and the row it read
    row,        \* the tenant_entitlements row
    astray      \* history: an event was lost, handled late, or on a stale row,
                \* and no activation has put the row right since

vars == <<now, live, queue, run, row, astray>>

NoRow == [plan |-> None, end |-> 0, canceled |-> FALSE]
Idle == [at |-> 0, read |-> NoRow]

\* An event.  History: it is late once an activation that it would undo has been
\* handled, or lost, before it.
Activated(plan, end) == [name |-> "activated", plan |-> plan, at |-> end, late |-> FALSE]
Canceled == [name |-> "canceled", plan |-> None, at |-> 0, late |-> FALSE]
Ended(plan) == [name |-> "ended", plan |-> plan, at |-> now, late |-> FALSE]

Publish(events) ==
    /\ Len(queue) + Len(events) <= MaxEvents
    /\ queue' = queue \o events

\* A new tenant: auto_subscribe has run.
Init ==
    /\ now = 0
    /\ live = [plan |-> FreePlan, end |-> Period, canceled |-> FALSE]
    /\ queue = <<Activated(FreePlan, Period)>>
    /\ run = [w \in Workers |-> Idle]
    /\ row = NoRow
    /\ astray = FALSE

----------------------------------------------------------------------------
(* Billing *)

\* _activate_subscription: a purchase replaces what is live, and extends it when
\* it is the same plan and still running.
Activate(plan) ==
    LET start == IF live.plan = plan /\ live.end > now THEN live.end ELSE now IN
    /\ start <= MaxTime
    /\ live' = [plan |-> plan, end |-> start + Period, canceled |-> FALSE]
    /\ Publish(<<Activated(plan, start + Period)>>)
    /\ UNCHANGED <<now, run, row, astray>>

\* cancel_subscription: at the end of the period.
Cancel ==
    /\ live' = [live EXCEPT !.canceled = TRUE]
    /\ Publish(<<Canceled>>)
    /\ UNCHANGED <<now, run, row, astray>>

\* close_ended_period, a free plan nobody canceled: rolled forward, unannounced.
RollForward ==
    /\ live.end <= now /\ live.plan = FreePlan /\ ~live.canceled
    /\ live' = [live EXCEPT !.end = @ + Period * (1 + (now - @) \div Period)]
    /\ UNCHANGED <<now, queue, run, row, astray>>

\* close_ended_period, anything else: closed, and the free plan takes over.
EndPeriod ==
    /\ live.end <= now /\ (live.plan # FreePlan \/ live.canceled)
    /\ live' = [plan |-> FreePlan, end |-> now + Period, canceled |-> FALSE]
    /\ Publish(<<Ended(live.plan), Activated(FreePlan, now + Period)>>)
    /\ UNCHANGED <<now, run, row, astray>>

Tick ==
    /\ now < MaxTime /\ now' = now + 1
    /\ UNCHANGED <<live, queue, run, row, astray>>

----------------------------------------------------------------------------
(* The subscribers *)

\* A pending event's handler starts and reads the row.
Take(w) ==
    /\ run[w] = Idle
    /\ \E i \in DOMAIN queue :
        /\ \A v \in Workers : run[v].at # i
        /\ run' = [run EXCEPT ![w] = [at |-> i, read |-> row]]
    /\ UNCHANGED <<now, live, queue, row, astray>>

\* Mutant: the cancellation of the former plan is kept.
Mut_SetActivePlan(read, plan, end) == [read EXCEPT !.plan = plan, !.end = end]

\* set_active_plan.
SetActivePlan(read, plan, end) == [plan |-> plan, end |-> end, canceled |-> FALSE]

\* mark_canceled.
MarkCanceled(read) == IF read = NoRow THEN read ELSE [read EXCEPT !.canceled = TRUE]

\* end_plan: only for the plan the row still names.
EndPlan(read, plan, at) ==
    IF read.plan # plan THEN read
    ELSE [read EXCEPT !.canceled = TRUE, !.end = IF @ > at THEN at ELSE @]

\* What the handler of e makes of the row it read.
Handled(e, read) ==
    [activated |-> SetActivePlan(read, e.plan, e.at),
     canceled  |-> MarkCanceled(read),
     ended     |-> EndPlan(read, e.plan, e.at)][e.name]

\* Handling f before the older e does no harm: only an activation overrides what
\* came before it, and the end of another plan leaves the row alone even then
\* ("the free fallback may be processed first").
Harmless(e, f) == f.name # "activated" \/ (e.name = "ended" /\ e.plan # f.plan)

\* The event w handles is done with, handled or not.
Finish(w) ==
    LET i == run[w].at IN
    /\ queue' = RemoveAt(
            [j \in DOMAIN queue |->
                IF j < i /\ ~Harmless(queue[j], queue[i]) THEN [queue[j] EXCEPT !.late = TRUE]
                ELSE queue[j]], i)
    /\ run' = [v \in Workers |->
            IF v = w THEN Idle
            ELSE IF run[v].at > i THEN [run[v] EXCEPT !.at = @ - 1] ELSE run[v]]

\* The commit: an INSERT, or an UPDATE of the columns that changed.  An INSERT
\* that finds the row there fails on the unique index.
Handle(w) ==
    /\ run[w] # Idle
    /\ LET e == queue[run[w].at]  read == run[w].read  new == Handled(e, read) IN
        /\ ~(read = NoRow /\ new # read /\ row # NoRow)
        /\ row' = [c \in DOMAIN row |-> IF new[c] = read[c] THEN row[c] ELSE new[c]]
        /\ astray' = (e.late \/ row # read \/ (astray /\ e.name # "activated"))
    /\ Finish(w)
    /\ UNCHANGED <<now, live>>

\* dispatch_event: the handler fails and is rolled back, and the event waits to
\* be tried again ...
Fail(w) ==
    /\ run[w] # Idle
    /\ run' = [run EXCEPT ![w] = Idle]
    /\ UNCHANGED <<now, live, queue, row, astray>>

\* ... or has been tried often enough.
DeadLetter(w) ==
    /\ run[w] # Idle
    /\ Finish(w)
    /\ astray' = TRUE
    /\ UNCHANGED <<now, live, row>>

Next ==
    \/ \E plan \in PaidPlans : Activate(plan)
    \/ Cancel \/ RollForward \/ EndPeriod \/ Tick
    \/ \E w \in Workers : Take(w) \/ Handle(w) \/ Fail(w) \/ DeadLetter(w)

Spec == Init /\ [][Next]_vars

\* effective_plan_code.
EffectivePlan ==
    IF row = NoRow \/ (row.canceled /\ now >= row.end) THEN None ELSE row.plan

----------------------------------------------------------------------------
(* Properties *)

Drained == queue = <<>> /\ \A w \in Workers : run[w] = Idle

\* When everything published has been handled, the row is in step with billing:
\* a subscription that nobody canceled is what the features see, whatever was
\* bought, canceled, ended or fell back before; a canceled one is that or nothing.
\* A handler that loses an event, handles it late or on a stale row may break
\* this, and the next activation handled in turn repairs it ("keep the tenant's
\* active plan in step", subscribers.py).
InStep ==
    Drained /\ ~astray =>
        EffectivePlan = live.plan \/ (live.canceled /\ EffectivePlan = None)

\* "A canceled subscription still covers the tenant until its period end"
\* (effective_plan_code), when its events were handled in turn.
CoveredUntilEnd == Drained /\ ~astray /\ now < live.end => EffectivePlan = live.plan
=============================================================================
