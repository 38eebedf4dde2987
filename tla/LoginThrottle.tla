--------------------------- MODULE LoginThrottle ---------------------------
(***************************************************************************)
(* Registration and password logins of one e-mail address, with the        *)
(* counters Redis keeps: the fixed-window limiters and the failure counter *)
(* with its lockout (core/auth/service.py, core/auth/rate_limit.py).  Each *)
(* Redis command is a step of its own and every key ends by its TTL.       *)
(***************************************************************************)
EXTENDS Naturals, FiniteSets

CONSTANTS
    Requests,
    MaxFailures,    \* settings.login_max_failures
    IpLimit,        \* requests of one client address in a window
    None

VARIABLES
    account,    \* the request whose INSERT created the user, or None
    hits,       \* rl:login_ip and rl:register_ip
    failures,   \* auth:fail, by account key
    locked,     \* the account keys with an auth:lock
    pc,
    key,        \* the account key a login computed
    tries       \* history: wrong passwords checked since the key's counters last ended

vars == <<account, hits, failures, locked, pc, key, tries>>

Scopes == {"login_ip", "register_ip"}
Keys == {"email", "id"}
AccountKey == IF account = None THEN "email" ELSE "id"

Init ==
    /\ account = None
    /\ hits = [s \in Scopes |-> 0]
    /\ failures = [k \in Keys |-> 0]
    /\ locked = {}
    /\ pc = [r \in Requests |-> "idle"]
    /\ key = [r \in Requests |-> None]
    /\ tries = [k \in Keys |-> 0]

\* Fixed window: every call is counted, the ones above the limit are refused (the
\* count itself matters no more once it is above the limit).
Hit(s) == hits' = [hits EXCEPT ![s] = IF @ <= IpLimit THEN @ + 1 ELSE @]
Allowed(s) == hits[s] + 1 <= IpLimit

Goto(r, place) == pc' = [pc EXCEPT ![r] = place]
Close(r) == Goto(r, "idle") /\ key' = [key EXCEPT ![r] = None]

\* The per-address limiter, the first thing register() and authenticate() ask.
Arrive(r, s) ==
    /\ pc[r] = "idle"
    /\ Hit(s)
    /\ Goto(r, IF Allowed(s) THEN s ELSE "idle")
    /\ UNCHANGED <<account, failures, locked, key, tries>>

\* register(): the lookup by e-mail; a taken address is a conflict.
RegisterRead(r) ==
    /\ pc[r] = "register_ip"
    /\ Goto(r, IF account = None THEN "registering" ELSE "idle")
    /\ UNCHANGED <<account, hits, failures, locked, key, tries>>

\* The INSERT: the unique index on lower(email) refuses the second one.
RegisterWrite(r) ==
    /\ pc[r] = "registering"
    /\ account' = IF account = None THEN r ELSE account
    /\ Goto(r, "idle")
    /\ UNCHANGED <<hits, failures, locked, key, tries>>

\* authenticate(): the lookup by e-mail, and with it the key of the counters.
LoginRead(r) ==
    /\ pc[r] = "login_ip"
    /\ Goto(r, "keyed")
    /\ key' = [key EXCEPT ![r] = AccountKey]
    /\ UNCHANGED <<account, hits, failures, locked, tries>>

\* is_locked() and the password check.  A failure is recorded later, so other
\* requests pass the lockout test in between.
CheckPassword(r) ==
    /\ pc[r] = "keyed"
    /\ \/ key[r] \in locked /\ Close(r) /\ UNCHANGED tries
       \/ /\ key[r] \notin locked
          /\ Goto(r, "failing")
          /\ tries' = [tries EXCEPT ![key[r]] = @ + 1]
          /\ UNCHANGED key
       \/ /\ key[r] \notin locked /\ key[r] = "id"
          /\ Goto(r, "passed")
          /\ UNCHANGED <<key, tries>>
    /\ UNCHANGED <<account, hits, failures, locked>>

\* record_failure(): INCR and its TTL in one MULTI (counted up to the limit: beyond
\* it only the length of the lock changes) ...
CountUntil(r, limit) ==
    /\ pc[r] = "failing"
    /\ failures' = [failures EXCEPT ![key[r]] = IF @ < limit THEN @ + 1 ELSE @]
    /\ \/ failures'[key[r]] >= limit /\ Goto(r, "locking") /\ UNCHANGED key
       \/ failures'[key[r]] < limit /\ Close(r)
    /\ UNCHANGED <<account, hits, locked, tries>>

\* Mutant: the lockout starts one failure late.
Mut_RecordFailure(r) == CountUntil(r, MaxFailures + 1)

RecordFailure(r) == CountUntil(r, MaxFailures)

\* ... then SET of the lock as a second command.
Lock(r) ==
    /\ pc[r] = "locking"
    /\ locked' = locked \cup {key[r]}
    /\ Close(r)
    /\ UNCHANGED <<account, hits, failures, tries>>

\* clear() after a right password; the tokens that follow are module Sessions'.
Clear(r) ==
    /\ pc[r] = "passed"
    /\ failures' = [failures EXCEPT ![key[r]] = 0]
    /\ locked' = locked \ {key[r]}
    /\ tries' = [tries EXCEPT ![key[r]] = 0]
    /\ Close(r)
    /\ UNCHANGED <<account, hits>>

\* The TTLs of Redis.
WindowEnds(s) ==
    /\ hits[s] > 0
    /\ hits' = [hits EXCEPT ![s] = 0]
    /\ UNCHANGED <<account, failures, locked, pc, key, tries>>

FailuresEnd(k) ==
    /\ failures[k] > 0
    /\ failures' = [failures EXCEPT ![k] = 0]
    /\ tries' = [tries EXCEPT ![k] = 0]
    /\ UNCHANGED <<account, hits, locked, pc, key>>

LockEnds(k) ==
    /\ k \in locked
    /\ locked' = locked \ {k}
    /\ tries' = [tries EXCEPT ![k] = 0]
    /\ UNCHANGED <<account, hits, failures, pc, key>>

Next ==
    \/ \E s \in Scopes : WindowEnds(s)
    \/ \E k \in Keys : FailuresEnd(k) \/ LockEnds(k)
    \/ \E r \in Requests :
        \/ \E s \in Scopes : Arrive(r, s)
        \/ RegisterRead(r) \/ RegisterWrite(r)
        \/ LoginRead(r) \/ CheckPassword(r) \/ RecordFailure(r) \/ Lock(r) \/ Clear(r)

Spec == Init /\ [][Next]_vars

\* Between two resets of an account's counters, no more wrong passwords are checked
\* than the limit plus the requests that were already past the lockout test when
\* the last failure counted (LoginThrottle.is_locked and record_failure are
\* separate steps).
LockoutHolds == \A k \in Keys : tries[k] <= MaxFailures - 1 + Cardinality(Requests)
=============================================================================
