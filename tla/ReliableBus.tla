----------------------------- MODULE ReliableBus -----------------------------
(***************************************************************************)
(* The unit of work, the event bus and the worker's dispatcher             *)
(* (shared/service.py, shared/events.py, app/worker.py,                    *)
(* shared/processed_events.py): a transaction commits, publishes its       *)
(* events to Redis afterwards, and a worker runs each handler in one       *)
(* transaction with the insert that deduplicates the delivery.             *)
(*                                                                         *)
(* External: arq.  A job is started again when its worker fell silent,     *)
(* also when that worker is only slow; it is forgotten after JobTTL.  A    *)
(* run is cut off (job_timeout) before the next clock unit ends.           *)
(***************************************************************************)
EXTENDS Naturals, FiniteSets

CONSTANTS
    Requests,       \* transactions of the web process
    Workers,        \* concurrent job slots of the worker processes
    Events,         \* event ids
    Deliveries,     \* pairs <<handler, event>>: the reliable subscriptions
    Emits,          \* Emits[r]: the events request r queues with Service.emit
    Chained,        \* Chained[d]: the events the handler of d queues
    MaxTries,       \* MAX_TRIES
    JobTTL,         \* arq: how long a job may still be (re)started
    Retention,      \* processed_events_retention_days
    MaxTime,        \* bound on the clock
    MaxCrashes,     \* bound on processes lost
    None

ASSUME ReliableBusAssumption ==
    /\ Requests \cap Workers = {}
    /\ Emits \in [Requests -> SUBSET Events]
    /\ Chained \in [Deliveries -> SUBSET Events]
    /\ \A d \in Deliveries : d[2] \in Events
    /\ MaxTries \in Nat \ {0}
    /\ JobTTL \in Nat /\ Retention \in Nat /\ JobTTL < Retention
    /\ MaxTime \in Nat /\ MaxCrashes \in Nat
    /\ None \notin Deliveries \cup Nat

Procs == Requests \cup Workers

VARIABLES
    req,        \* req[r]: "open", "committed", "rolled_back"
    fact,       \* events whose transaction committed
    todo,       \* todo[p]: deliveries p has yet to enqueue, in memory only
    job,        \* the arq job of each delivery
    run,        \* run[w]: the job a worker runs
    processed,  \* processed_events: when, or None
    effect,     \* how often the handler's writes were committed
    lost,       \* deliveries that never reached Redis
    now, crashes

vars == <<req, fact, todo, job, run, processed, effect, lost, now, crashes>>

NoJob == [state |-> "none", tries |-> 0, at |-> 0]
Idle == [d |-> None, try |-> 0, pc |-> "idle", since |-> 0]

Init ==
    /\ req = [r \in Requests |-> "open"]
    /\ fact = {}
    /\ todo = [p \in Procs |-> {}]
    /\ job = [d \in Deliveries |-> NoJob]
    /\ run = [w \in Workers |-> Idle]
    /\ processed = [d \in Deliveries |-> None]
    /\ effect = [d \in Deliveries |-> 0]
    /\ lost = {}
    /\ now = 0
    /\ crashes = 0

----------------------------------------------------------------------------
(* Publishing *)

\* subscriptions_for: the reliable deliveries of a set of events.
DeliveriesOf(events) == {d \in Deliveries : d[2] \in events}

\* UnitOfWork.__aexit__ of a request: commit, and only then the callbacks.
Commit(r) ==
    /\ req[r] = "open"
    /\ req' = [req EXCEPT ![r] = "committed"]
    /\ fact' = fact \cup Emits[r]
    /\ todo' = [todo EXCEPT ![r] = DeliveriesOf(Emits[r])]
    /\ UNCHANGED <<job, run, processed, effect, lost, now, crashes>>

\* An exception in the request: rollback, the queued events are discarded.
RollBack(r) ==
    /\ req[r] = "open"
    /\ req' = [req EXCEPT ![r] = "rolled_back"]
    /\ UNCHANGED <<fact, todo, job, run, processed, effect, lost, now, crashes>>

\* EventBus.publish: one enqueue per reliable subscription.
Enqueue(p) ==
    /\ \E d \in todo[p] :
        /\ todo' = [todo EXCEPT ![p] = @ \ {d}]
        /\ job' = [job EXCEPT ![d] = [state |-> "queued", tries |-> 0, at |-> now]]
    /\ UNCHANGED <<req, fact, run, processed, effect, lost, now, crashes>>

\* The enqueue raises: logged, this delivery is lost, the next one goes on.
EnqueueFails(p) ==
    /\ \E d \in todo[p] :
        /\ todo' = [todo EXCEPT ![p] = @ \ {d}]
        /\ lost' = lost \cup {d}
    /\ crashes < MaxCrashes /\ crashes' = crashes + 1
    /\ UNCHANGED <<req, fact, job, run, processed, effect, now>>

----------------------------------------------------------------------------
(* dispatch_event *)

\* arq starts a queued job; job_try counts the starts.
Take(w) ==
    /\ run[w] = Idle
    /\ \E d \in Deliveries :
        /\ job[d].state = "queued" /\ now <= job[d].at + JobTTL
        /\ job[d].tries < MaxTries
        /\ job' = [job EXCEPT ![d].state = "started", ![d].tries = @ + 1]
        /\ run' = [run EXCEPT ![w] =
                [d |-> d, try |-> job[d].tries + 1, pc |-> "insert", since |-> now]]
    /\ UNCHANGED <<req, fact, todo, processed, effect, lost, now, crashes>>

\* arq gives up on a job that is too old or was started too often.
Abandon(d) ==
    /\ job[d].state = "queued"
    /\ now > job[d].at + JobTTL \/ job[d].tries >= MaxTries
    /\ job' = [job EXCEPT ![d].state = "dead"]
    /\ UNCHANGED <<req, fact, todo, run, processed, effect, lost, now, crashes>>

\* Another worker holds the uncommitted dedup row of d.
Claimed(w, d) == \E v \in Workers \ {w} : run[v].d = d /\ run[v].pc = "handle"

\* The job is over; a late end of a second run changes nothing.
Finish(d, state) ==
    job' = [job EXCEPT ![d].state = IF @ \in {"done", "dead"} THEN @ ELSE state]

\* Mutant: the dedup row is not looked at.
Mut_Insert(w) ==
    /\ run[w].pc = "insert"
    /\ run' = [run EXCEPT ![w].pc = "handle"]
    /\ UNCHANGED <<req, fact, todo, job, processed, effect, lost, now, crashes>>

\* INSERT ... ON CONFLICT DO NOTHING: waits for a concurrent insert of the same
\* key; a committed key ends the run as a duplicate.
Insert(w) ==
    /\ run[w].pc = "insert"
    /\ ~Claimed(w, run[w].d)
    /\ IF processed[run[w].d] = None
       THEN run' = [run EXCEPT ![w].pc = "handle"] /\ UNCHANGED job
       ELSE run' = [run EXCEPT ![w] = Idle] /\ Finish(run[w].d, "done")
    /\ UNCHANGED <<req, fact, todo, processed, effect, lost, now, crashes>>

\* The handler returns: its writes and the dedup row commit together, then the
\* events it emitted are published.
HandlerCommits(w) ==
    /\ run[w].pc = "handle"
    /\ LET d == run[w].d IN
        /\ processed' = [processed EXCEPT ![d] = now]
        /\ effect' = [effect EXCEPT ![d] = @ + 1]
        /\ fact' = fact \cup Chained[d]
        /\ todo' = [todo EXCEPT ![w] = DeliveriesOf(Chained[d])]
    /\ run' = [run EXCEPT ![w].pc = "publish"]
    /\ UNCHANGED <<req, job, lost, now, crashes>>

\* The insert or the handler raises: rollback, then Retry or, on the last try,
\* dead letter.  A handler this process does not know is not tried again.
HandlerFails(w) ==
    /\ run[w].pc \in {"insert", "handle"}
    /\ \/ Finish(run[w].d, IF run[w].try >= MaxTries THEN "dead" ELSE "queued")
       \/ run[w].pc = "insert" /\ Finish(run[w].d, "dead")
    /\ run' = [run EXCEPT ![w] = Idle]
    /\ UNCHANGED <<req, fact, todo, processed, effect, lost, now, crashes>>

\* The callbacks have run; arq removes the job.
Return(w) ==
    /\ run[w].pc = "publish" /\ todo[w] = {}
    /\ Finish(run[w].d, "done")
    /\ run' = [run EXCEPT ![w] = Idle]
    /\ UNCHANGED <<req, fact, todo, processed, effect, lost, now, crashes>>

----------------------------------------------------------------------------
(* Failures and time *)

\* A process dies: its open transaction is rolled back, what it had yet to
\* enqueue is gone (the known limitation of shared/service.py).
Crash(p) ==
    /\ crashes < MaxCrashes /\ crashes' = crashes + 1
    /\ \/ p \in Requests /\ todo[p] # {} /\ UNCHANGED run
       \/ p \in Workers /\ run[p] # Idle /\ run' = [run EXCEPT ![p] = Idle]
    /\ lost' = lost \cup todo[p]
    /\ todo' = [todo EXCEPT ![p] = {}]
    /\ UNCHANGED <<req, fact, job, processed, effect, now>>

\* Mutant: a job whose worker died is never started again.
Mut_Redeliver(d) ==
    /\ job[d].state = "started" /\ \E w \in Workers : run[w].d = d
    /\ job' = [job EXCEPT ![d].state = "queued"]
    /\ UNCHANGED <<req, fact, todo, run, processed, effect, lost, now, crashes>>

\* arq: nobody has reported on a started job for too long.
Redeliver(d) ==
    /\ job[d].state = "started"
    /\ job' = [job EXCEPT ![d].state = "queued"]
    /\ UNCHANGED <<req, fact, todo, run, processed, effect, lost, now, crashes>>

\* purge_processed_events.
Purge(d) ==
    /\ processed[d] # None /\ processed[d] + Retention < now
    /\ processed' = [processed EXCEPT ![d] = None]
    /\ UNCHANGED <<req, fact, todo, job, run, effect, lost, now, crashes>>

\* A run started in an earlier clock unit has ended (job_timeout).
Tick ==
    /\ now < MaxTime
    /\ \A w \in Workers : run[w] # Idle => run[w].since = now
    /\ now' = now + 1
    /\ UNCHANGED <<req, fact, todo, job, run, processed, effect, lost, crashes>>

Publish(p) == Enqueue(p) \/ EnqueueFails(p)
Work(w) == Take(w) \/ Insert(w) \/ HandlerCommits(w) \/ HandlerFails(w) \/ Return(w)

Next ==
    \/ \E r \in Requests : Commit(r) \/ RollBack(r)
    \/ \E p \in Procs : Publish(p) \/ Crash(p)
    \/ \E w \in Workers : Work(w)
    \/ \E d \in Deliveries : Abandon(d) \/ Redeliver(d) \/ Purge(d)
    \/ Tick

Spec == Init /\ [][Next]_vars

----------------------------------------------------------------------------
(* Properties *)

TypeOK ==
    /\ req \in [Requests -> {"open", "committed", "rolled_back"}]
    /\ fact \subseteq Events
    /\ todo \in [Procs -> SUBSET Deliveries]
    /\ job \in [Deliveries -> [state : {"none", "queued", "started", "done", "dead"},
                               tries : 0..MaxTries, at : Nat]]
    /\ run \in [Workers -> [d : Deliveries \cup {None}, try : 0..MaxTries,
                            pc : {"idle", "insert", "handle", "publish"}, since : Nat]]
    /\ processed \in [Deliveries -> Nat \cup {None}]
    /\ effect \in [Deliveries -> Nat]
    /\ lost \subseteq Deliveries
    /\ now \in Nat /\ crashes \in Nat

\* However often arq starts a job, and however the runs overlap, crash or are
\* overtaken by the retention purge, a handler's writes commit at most once; for
\* a job arq considers done they did commit; and nobody acts on an event whose
\* transaction did not.
EffectivelyOnce ==
    \A d \in Deliveries :
        /\ effect[d] <= 1
        /\ job[d].state = "done" => effect[d] = 1
        /\ job[d].state # "none" \/ effect[d] > 0 => d[2] \in fact

\* Processes make progress, arq notices silent workers.
Fairness ==
    /\ \A p \in Procs : WF_vars(Publish(p))
    /\ \A w \in Workers : WF_vars(Work(w))
    /\ \A d \in Deliveries : WF_vars(Abandon(d)) /\ WF_vars(Redeliver(d))

FairSpec == Spec /\ Fairness

\* Each delivery of a committed event ends: handled, dead-lettered or lost.
DeliveriesEnd ==
    \A d \in Deliveries :
        d[2] \in fact ~> (effect[d] = 1 \/ job[d].state = "dead" \/ d \in lost)
=============================================================================
