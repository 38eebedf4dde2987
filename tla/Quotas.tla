------------------------------- MODULE Quotas -------------------------------
(***************************************************************************)
(* Checks followed by writes in the saas features, for one tenant: the     *)
(* plan limit (modules/saas/entitlements/service.py) and the onboarding    *)
(* checklist (modules/saas/onboarding/service.py) under the advisory lock  *)
(* of shared/locks.py, and the usage counters with their retention sweep   *)
(* (modules/saas/metering).                                                *)
(***************************************************************************)
EXTENDS Integers, FiniteSets, FiniteSetsExt

CONSTANTS
    Requests,
    Steps,          \* SAAS_ONBOARDING_STEPS
    Limits,         \* limits of the plans in the grid
    MaxObjects,     \* bound on the objects of the limited kind
    Days,           \* the days usage is recorded on, 1..n
    MaxUsage,       \* bound on a day's usage
    Batch,          \* _SWEEP_BATCH
    None

VARIABLES
    limit,      \* limit of the plan in force; None is unlimited or no plan
    objects,    \* committed objects of the limited kind
    done,       \* committed onboarding steps
    usage,      \* committed buckets of saas_usage_counters; 0 has no row
    cutoff,     \* the first day inside the retention horizon
    pc, task,
    allowed,    \* the limit a request has read
    found,      \* what a request has read under its lock
    guarded,    \* history: objects created under a limit
    exceeded,   \* history: some creation went past the limit it was checked against
    completed,  \* history: saas.onboarding.completed events
    metered     \* history: usage recorded on each day inside the horizon

vars == <<limit, objects, done, usage, cutoff, pc, task, allowed, found,
          guarded, exceeded, completed, metered>>
tables == <<limit, objects, done, usage, cutoff, guarded, exceeded, completed, metered>>

Init ==
    /\ limit \in Limits \cup {None}
    /\ objects = 0 /\ done = {} /\ usage = [d \in Days |-> 0] /\ cutoff = 1
    /\ pc = [r \in Requests |-> "idle"]
    /\ task = [r \in Requests |-> None]
    /\ allowed = [r \in Requests |-> None]
    /\ found = [r \in Requests |-> None]
    /\ guarded = 0 /\ exceeded = FALSE /\ completed = 0
    /\ metered = [d \in Days |-> 0]

At(r, place, job, cap, seen) ==
    /\ pc' = [pc EXCEPT ![r] = place]
    /\ task' = [task EXCEPT ![r] = job]
    /\ allowed' = [allowed EXCEPT ![r] = cap]
    /\ found' = [found EXCEPT ![r] = seen]
Close(r) == At(r, "idle", None, None, None)

\* require_within_limit() reads the limit before it locks; without one it neither
\* locks nor counts.
ReadLimit(r) ==
    /\ pc[r] = "idle"
    /\ IF limit = None
       THEN At(r, "writing", "create", None, None)
       ELSE At(r, "locking", "create", limit, None)
    /\ UNCHANGED tables

\* complete_step() of a configured step.
StartStep(r, s) ==
    /\ pc[r] = "idle"
    /\ At(r, "locking", s, None, None)
    /\ UNCHANGED tables

\* The advisory lock is keyed by what is counted and held to the end of the
\* transaction; the count or the steps are read under it.
Key(job) == IF job = "create" THEN "limit" ELSE "onboarding"
Holds(q, key) == pc[q] = "writing" /\ Key(task[q]) = key /\ found[q] # None

Counting(r, free) ==
    /\ pc[r] = "locking"
    /\ free
    /\ \/ /\ task[r] = "create" /\ objects < allowed[r]
          /\ At(r, "writing", "create", allowed[r], objects)
       \/ /\ task[r] # "create" /\ task[r] \notin done
          /\ At(r, "writing", task[r], None, done)
       \/ /\ \/ task[r] = "create" /\ objects >= allowed[r]
             \/ task[r] # "create" /\ task[r] \in done
          /\ Close(r)
    /\ UNCHANGED tables

\* Mutant: the lock is not taken (or ends with the statement).
Mut_LockAndRead(r) == Counting(r, TRUE)

LockAndRead(r) ==
    Counting(r, \A q \in Requests \ {r} : ~Holds(q, Key(task[r])))

\* The caller creates its object in the same transaction.
CommitObject(r) ==
    /\ pc[r] = "writing" /\ task[r] = "create"
    /\ objects < MaxObjects
    /\ objects' = objects + 1
    /\ guarded' = IF found[r] = None THEN guarded ELSE guarded + 1
    /\ exceeded' = (exceeded \/ (found[r] # None /\ guarded' > allowed[r]))
    /\ Close(r)
    /\ UNCHANGED <<limit, done, usage, cutoff, completed, metered>>

\* The unique index on (tenant, step) is never hit: the lock serialises.  The event
\* follows the commit that finds every step done.
CommitStep(r) ==
    /\ pc[r] = "writing" /\ task[r] \in Steps
    /\ done' = done \cup {task[r]}
    /\ completed' = IF Steps \subseteq found[r] \cup {task[r]} THEN completed + 1 ELSE completed
    /\ Close(r)
    /\ UNCHANGED <<limit, objects, usage, cutoff, guarded, exceeded, metered>>

Fail(r) ==
    /\ pc[r] # "idle"
    /\ Close(r)
    /\ UNCHANGED tables

\* The plan changes under the requests (entitlements/subscribers.py).
ChangePlan(l) ==
    /\ limit' = l /\ limit # l
    /\ UNCHANGED <<objects, done, usage, cutoff, pc, task, allowed, found,
                   guarded, exceeded, completed, metered>>

DeleteObject ==
    /\ objects > 0
    /\ objects' = objects - 1
    /\ guarded' \in {guarded, guarded - 1} \cap 0..objects'
    /\ UNCHANGED <<limit, done, usage, cutoff, pc, task, allowed, found,
                   exceeded, completed, metered>>

\* record(): one atomic upsert; the addition is made on the row as it is.
Record(d) ==
    /\ usage[d] < MaxUsage
    /\ usage' = [usage EXCEPT ![d] = @ + 1]
    /\ metered' = [metered EXCEPT ![d] = IF d >= cutoff THEN @ + 1 ELSE 0]
    /\ UNCHANGED <<limit, objects, done, cutoff, pc, task, allowed, found,
                   guarded, exceeded, completed>>

\* purge_expired_usage(): the oldest buckets before the cutoff, a batch of them.
PurgeUsage ==
    LET old == {d \in Days : usage[d] # 0 /\ d < cutoff}
        gone == {d \in old : Cardinality({e \in old : e < d}) < Batch}
    IN  /\ old # {}
        /\ usage' = [d \in Days |-> IF d \in gone THEN 0 ELSE usage[d]]
        /\ UNCHANGED <<limit, objects, done, cutoff, pc, task, allowed, found,
                       guarded, exceeded, completed, metered>>

\* A day passes and the horizon moves.
NextDay ==
    /\ cutoff < Max(Days)
    /\ cutoff' = cutoff + 1
    /\ metered' = [d \in Days |-> IF d <= cutoff THEN 0 ELSE metered[d]]
    /\ UNCHANGED <<limit, objects, done, usage, pc, task, allowed, found,
                   guarded, exceeded, completed>>

Next ==
    \/ \E l \in Limits \cup {None} : ChangePlan(l)
    \/ DeleteObject \/ PurgeUsage \/ NextDay
    \/ \E d \in Days : Record(d)
    \/ \E r \in Requests :
        \/ ReadLimit(r) \/ LockAndRead(r) \/ CommitObject(r) \/ CommitStep(r) \/ Fail(r)
        \/ \E s \in Steps : StartStep(r, s)

Spec == Init /\ [][Next]_vars

\* Concurrent requests count exactly: no creation goes past the limit it was checked
\* against (other than by creations that had no limit), the checklist announces
\* its completion once, when it is complete, and usage inside the horizon is what was
\* recorded, whatever the sweep removes (require_within_limit, complete_step, record).
TalliesAreExact ==
    /\ ~exceeded
    /\ completed = IF Steps \subseteq done THEN 1 ELSE 0
    /\ \A d \in Days : d >= cutoff => metered[d] = usage[d]
=============================================================================
