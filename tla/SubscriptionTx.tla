--------------------------- MODULE SubscriptionTx ---------------------------
(***************************************************************************)
(* The subscription transactions of ONE tenant, step by step: row locks    *)
(* (SELECT ... FOR UPDATE), READ COMMITTED snapshots and the partial       *)
(* unique index that allows one live row.  Module Billing runs each of     *)
(* these transactions in one step; here they interleave, block each other, *)
(* fail on the index and crash.                                            *)
(*                                                                         *)
(* External: PostgreSQL.  A locked read waits for the row, then re-checks  *)
(* its predicate on the newest version; rows inserted after the statement  *)
(* began are not seen; a write that would put a second live row into the   *)
(* index waits for the transaction that holds the other entry and fails if *)
(* that entry is committed.                                                *)
(***************************************************************************)
EXTENDS Naturals, FiniteSets, PaymentStates

CONSTANTS
    Paid,           \* subscriptions bought through a checkout
    Free,           \* ids of free subscriptions (bound on free rows)
    Tenant,         \* the tenant all rows belong to
    MaxCrashes,     \* bound on transactions lost to a crash
    None

ASSUME SubscriptionTxAssumption ==
    /\ Paid \cap Free = {}
    /\ None \notin Paid \cup Free \cup {Tenant}
    /\ MaxCrashes \in Nat

Subs == Paid \cup Free

\* The concurrent transactions: a confirm callback per checkout (duplicates
\* queue behind the ledger row), the period-end sweep, the tenant-created
\* handler, a user's cancel request.
Procs == Paid \cup {"sweep", "auto", "cancel"}

VARIABLES
    status,     \* committed subscription status
    flag,       \* committed cancel_at_period_end
    ended,      \* current_period_end <= now
    pay,        \* committed payment status of a paid subscription
    pc,         \* where each transaction stands
    target,     \* the row a transaction is about (sweep, cancel)
    seen,       \* rows its locked read still has to lock
    lock,       \* row locks on subscriptions
    plock,      \* row locks on payments
    wr,         \* uncommitted status writes: wr[pr][s], "none" = not written
    crashes

vars == <<status, flag, ended, pay, pc, target, seen, lock, plock, wr, crashes>>

IsLive(x) == x \in LiveSubscriptionStates
LiveRows == {s \in Subs : IsLive(status[s])}
Clean == [s \in Subs |-> "none"]

Init ==
    /\ status = [s \in Subs |-> "none"]
    /\ flag = [s \in Subs |-> FALSE]
    /\ ended = [s \in Subs |-> FALSE]
    /\ pay = [s \in Paid |-> "none"]
    /\ pc = [pr \in Procs |-> "idle"]
    /\ target = [pr \in Procs |-> None]
    /\ seen = [pr \in Procs |-> {}]
    /\ lock = [s \in Subs |-> None]
    /\ plock = [s \in Paid |-> None]
    /\ wr = [pr \in Procs |-> Clean]
    /\ crashes = 0

----------------------------------------------------------------------------
(* The database *)

\* Mutant: the row locks outlive the transaction.
Mut_Release(pr) ==
    /\ pc' = [pc EXCEPT ![pr] = "idle"]
    /\ target' = [target EXCEPT ![pr] = None]
    /\ seen' = [seen EXCEPT ![pr] = {}]
    /\ wr' = [wr EXCEPT ![pr] = Clean]
    /\ UNCHANGED <<lock, plock>>

\* The end of a transaction, committed or not: locks and buffers are released.
Release(pr) ==
    /\ pc' = [pc EXCEPT ![pr] = "idle"]
    /\ target' = [target EXCEPT ![pr] = None]
    /\ seen' = [seen EXCEPT ![pr] = {}]
    /\ lock' = [s \in Subs |-> IF lock[s] = pr THEN None ELSE lock[s]]
    /\ plock' = [s \in Paid |-> IF plock[s] = pr THEN None ELSE plock[s]]
    /\ wr' = [wr EXCEPT ![pr] = Clean]

Rollback(pr) ==
    /\ Release(pr)
    /\ UNCHANGED <<status, flag, ended, pay>>

Written(pr) == [s \in Subs |-> IF wr[pr][s] = "none" THEN status[s] ELSE wr[pr][s]]

\* Mutant: no partial unique index.
Mut_OtherEntries(pr, s) == {}

\* Live entries other than row s that pr does not itself vacate.
OtherEntries(pr, s) == {o \in LiveRows \ {s} : wr[pr][o] = "none"}

\* Some other transaction has put a row into the live index, or taken one out,
\* and has not ended: the index check of pr waits for it.
IndexBusy(pr, s) ==
    \E q \in Procs \ {pr} : \E o \in Subs :
        \/ IsLive(wr[q][o]) /\ ~IsLive(status[o])
        \/ o \in OtherEntries(pr, s) /\ wr[q][o] # "none" /\ ~IsLive(wr[q][o])

\* Taking the live slot for row s with value v: wait, fail, or hold the entry.
TakeSlot(pr, s, v) ==
    /\ ~IndexBusy(pr, s)
    /\ IF OtherEntries(pr, s) # {}
       THEN Rollback(pr)                    \* IntegrityError
       ELSE /\ wr' = [wr EXCEPT ![pr][s] = v]
            /\ pc' = [pc EXCEPT ![pr] = "commit"]
            /\ UNCHANGED <<status, flag, ended, pay, target, seen, lock, plock>>

LockRow(pr, s) == lock[s] = None /\ lock' = [lock EXCEPT ![s] = pr]

----------------------------------------------------------------------------
(* Requests that are one statement or that nothing here can interleave with *)

\* start_subscription of a paid plan, one checkout at a time.
Start(s) ==
    /\ status[s] = "none"
    /\ \A o \in Paid : status[o] # "pending"
    /\ status' = [status EXCEPT ![s] = "pending"]
    /\ pay' = [pay EXCEPT ![s] = "created"]
    /\ UNCHANGED <<flag, ended, pc, target, seen, lock, plock, wr, crashes>>

\* expire_stale_checkouts for one payment: payment row, then pending row.
Expire(s) ==
    /\ plock[s] = None /\ lock[s] = None
    /\ pay[s] = "created" /\ status[s] = "pending"
    /\ pay' = [pay EXCEPT ![s] = "expired"]
    /\ status' = [status EXCEPT ![s] = "expired"]
    /\ UNCHANGED <<flag, ended, pc, target, seen, lock, plock, wr, crashes>>

\* The period of a live subscription runs out.
PeriodEnds(s) ==
    /\ IsLive(status[s]) /\ ~ended[s]
    /\ ended' = [ended EXCEPT ![s] = TRUE]
    /\ UNCHANGED <<status, flag, pay, pc, target, seen, lock, plock, wr, crashes>>

----------------------------------------------------------------------------
(* A confirm callback: mark_succeeded and _activate_subscription *)

\* _find_payment FOR UPDATE, then assert_transition.
ConfirmBegin(s) ==
    /\ pc[s] = "idle"
    /\ plock[s] = None
    /\ pay[s] # "none" /\ CanTransition(pay[s], "succeeded")
    /\ plock' = [plock EXCEPT ![s] = s]
    /\ pc' = [pc EXCEPT ![s] = "own"]
    /\ UNCHANGED <<status, flag, ended, pay, target, seen, lock, wr, crashes>>

\* _locked_subscription.
ConfirmOwn(s) ==
    /\ pc[s] = "own"
    /\ LockRow(s, s)
    /\ pc' = [pc EXCEPT ![s] = "scan"]
    /\ UNCHANGED <<status, flag, ended, pay, target, seen, plock, wr, crashes>>

\* The snapshot of SELECT other live rows FOR UPDATE.
ConfirmScan(s) ==
    /\ pc[s] = "scan"
    /\ seen' = [seen EXCEPT ![s] = LiveRows \ {s}]
    /\ pc' = [pc EXCEPT ![s] = "lock"]
    /\ UNCHANGED <<status, flag, ended, pay, target, lock, plock, wr, crashes>>

\* ... locking row by row; a row that is no longer live drops out.
ConfirmLock(s) ==
    /\ pc[s] = "lock"
    /\ \E o \in seen[s] :
        /\ LockRow(s, o)
        /\ seen' = [seen EXCEPT ![s] = @ \ {o}]
        /\ wr' = [wr EXCEPT ![s][o] = IF IsLive(status[o]) THEN "canceled" ELSE "none"]
    /\ UNCHANGED <<status, flag, ended, pay, pc, target, plock, crashes>>

\* Second flush: subscription.status = "active".
ConfirmTake(s) ==
    /\ pc[s] = "lock" /\ seen[s] = {}
    /\ TakeSlot(s, s, "active")
    /\ UNCHANGED crashes

ConfirmCommit(s) ==
    /\ pc[s] = "commit"
    /\ status' = Written(s)
    /\ flag' = [flag EXCEPT ![s] = FALSE]
    /\ ended' = [ended EXCEPT ![s] = FALSE]
    /\ pay' = [pay EXCEPT ![s] = "succeeded"]
    /\ Release(s)
    /\ UNCHANGED crashes

----------------------------------------------------------------------------
(* The period-end sweep: expire_ended_subscriptions, close_ended_period *)

\* The scan; the row is worked on later, in its own transaction.
SweepScan ==
    /\ pc["sweep"] = "idle"
    /\ \E s \in LiveRows :
        /\ ended[s]
        /\ target' = [target EXCEPT !["sweep"] = s]
    /\ pc' = [pc EXCEPT !["sweep"] = "own"]
    /\ UNCHANGED <<status, flag, ended, pay, seen, lock, plock, wr, crashes>>

\* Re-read under FOR UPDATE: renewed or closed in between ends the step.
SweepLock ==
    /\ pc["sweep"] = "own"
    /\ LET s == target["sweep"] IN
        \/ /\ lock[s] = None
           /\ ~IsLive(status[s]) \/ ~ended[s]
           /\ Rollback("sweep")
        \/ /\ IsLive(status[s]) /\ ended[s]
           /\ LockRow("sweep", s)
           /\ IF s \in Free /\ ~flag[s]
              THEN /\ wr' = [wr EXCEPT !["sweep"][s] = "active"]
                   /\ pc' = [pc EXCEPT !["sweep"] = "commit"]
              ELSE /\ wr' = [wr EXCEPT !["sweep"][s] = IF flag[s] THEN "canceled" ELSE "expired"]
                   /\ pc' = [pc EXCEPT !["sweep"] = "fallback"]
           /\ UNCHANGED <<status, flag, ended, pay, target, seen, plock>>
    /\ UNCHANGED crashes

UnusedFree == {f \in Free : status[f] = "none" /\ \A q \in Procs : wr[q][f] = "none"}

\* The bound on free rows: every insert under way still finds an id.
IdLeft == Cardinality(UnusedFree) > Cardinality({q \in Procs : pc[q] = "insert"})

\* auto_subscribe inside the closing transaction: nothing to do when something
\* is live or no usable free plan is configured.
SweepFallback ==
    /\ pc["sweep"] = "fallback"
    /\ \/ pc' = [pc EXCEPT !["sweep"] = "commit"]
       \/ /\ OtherEntries("sweep", target["sweep"]) = {} /\ IdLeft
          /\ pc' = [pc EXCEPT !["sweep"] = "insert"]
    /\ UNCHANGED <<status, flag, ended, pay, target, seen, lock, plock, wr, crashes>>

\* The INSERT of a free row, in the sweep or in the tenant-created handler.
InsertFree(pr) ==
    /\ pc[pr] = "insert"
    /\ \E f \in UnusedFree : TakeSlot(pr, f, "active")
    /\ UNCHANGED crashes

SweepCommit ==
    /\ pc["sweep"] = "commit"
    /\ status' = Written("sweep")
    /\ ended' = [s \in Subs |-> IF IsLive(wr["sweep"][s]) THEN FALSE ELSE ended[s]]
    /\ Release("sweep")
    /\ UNCHANGED <<flag, pay, crashes>>

----------------------------------------------------------------------------
(* The tenant-created handler: auto_subscribe_new_tenant *)

AutoRead ==
    /\ pc["auto"] = "idle"
    /\ LiveRows = {} /\ IdLeft
    /\ pc' = [pc EXCEPT !["auto"] = "insert"]
    /\ UNCHANGED <<status, flag, ended, pay, target, seen, lock, plock, wr, crashes>>

AutoCommit ==
    /\ pc["auto"] = "commit"
    /\ status' = Written("auto")
    /\ Release("auto")
    /\ UNCHANGED <<flag, ended, pay, crashes>>

----------------------------------------------------------------------------
(* cancel_subscription: an unlocked read, then an UPDATE by id *)

CancelRead ==
    /\ pc["cancel"] = "idle"
    /\ \E s \in LiveRows : target' = [target EXCEPT !["cancel"] = s]
    /\ pc' = [pc EXCEPT !["cancel"] = "own"]
    /\ UNCHANGED <<status, flag, ended, pay, seen, lock, plock, wr, crashes>>

\* The UPDATE waits for the row lock and writes only the flag.
CancelWrite ==
    /\ pc["cancel"] = "own"
    /\ lock[target["cancel"]] = None
    /\ flag' = [flag EXCEPT ![target["cancel"]] = TRUE]
    /\ Release("cancel")
    /\ UNCHANGED <<status, ended, pay, crashes>>

----------------------------------------------------------------------------
\* A worker or web process dies inside a transaction.
Crash(pr) ==
    /\ pc[pr] # "idle"
    /\ crashes < MaxCrashes
    /\ crashes' = crashes + 1
    /\ Rollback(pr)

ConfirmStep(s) ==
    \/ ConfirmBegin(s) \/ ConfirmOwn(s) \/ ConfirmScan(s)
    \/ ConfirmLock(s) \/ ConfirmTake(s) \/ ConfirmCommit(s)
SweepStep == SweepScan \/ SweepLock \/ SweepFallback \/ InsertFree("sweep") \/ SweepCommit
AutoStep == AutoRead \/ InsertFree("auto") \/ AutoCommit
CancelStep == CancelRead \/ CancelWrite

Next ==
    \/ \E s \in Paid : Start(s) \/ Expire(s) \/ ConfirmStep(s)
    \/ \E s \in Subs : PeriodEnds(s)
    \/ SweepStep \/ AutoStep \/ CancelStep
    \/ \E pr \in Procs : Crash(pr)

Spec == Init /\ [][Next]_vars

----------------------------------------------------------------------------
(* Properties *)

TypeOK ==
    /\ status \in [Subs -> SubscriptionStatus \cup {"none"}]
    /\ flag \in [Subs -> BOOLEAN]
    /\ ended \in [Subs -> BOOLEAN]
    /\ pay \in [Paid -> PaymentStatus \cup {"none"}]
    /\ pc \in [Procs -> {"idle", "own", "scan", "lock", "fallback", "insert", "commit"}]
    /\ target \in [Procs -> Subs \cup {None}]
    /\ seen \in [Procs -> SUBSET Subs]
    /\ lock \in [Subs -> Procs \cup {None}]
    /\ plock \in [Paid -> Procs \cup {None}]
    /\ wr \in [Procs -> [Subs -> SubscriptionStatus \cup {"none"}]]
    /\ crashes \in 0..MaxCrashes

\* The refinement mapping: only committed rows count.
Slots == [t \in {Tenant} |-> IF LiveRows = {} THEN None ELSE CHOOSE s \in LiveRows : TRUE]
Owners == [s \in Subs |-> IF status[s] = "none" THEN None ELSE Tenant]
Checkouts ==
    [s \in Subs |->
        CASE s \in Free            -> "none"
          [] pay[s] = "created"    -> "open"
          [] pay[s] = "succeeded"  -> "paid"
          [] OTHER                 -> pay[s]]

Promise == INSTANCE BillingPromise
    WITH Tenants <- {Tenant}, owner <- Owners, checkout <- Checkouts, slot <- Slots

\* However the transactions interleave, block, fail and crash, the committed
\* rows change as BillingPromise says: a confirm that waited for the sweep, or
\* met the fallback row the sweep just inserted, never leaves two live rows and
\* never records the money without the subscription.
KeepsPromise == Promise!Spec

\* Transactions run to their end, the sweep and the provider come back: a
\* provider repeats a confirm it got no success for.  Strong fairness, because
\* PostgreSQL grants a contended row lock in the order of arrival: a lock that is
\* free again and again is obtained.
Fairness ==
    /\ \A s \in Paid : SF_vars(ConfirmStep(s))
    /\ SF_vars(SweepStep) /\ SF_vars(AutoStep) /\ SF_vars(CancelStep)

FairSpec == Spec /\ Fairness

\* No transaction waits for ever: the orders in which confirm, sweep, handler
\* and cancel take row locks and the index entry never close a circle.  And a
\* confirmed checkout is paid in the end, even when its first attempts fail on
\* the unique index or crash.
TransactionsEnd ==
    \A pr \in Procs :
        pc[pr] # "idle" ~> pc[pr] = "idle" /\ (pr \in Paid => pay[pr] = "succeeded")
=============================================================================
