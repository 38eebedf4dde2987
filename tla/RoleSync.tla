----------------------------- MODULE RoleSync -----------------------------
(***************************************************************************)
(* sync_system_roles (core/tenants/sync.py): every web process, when it    *)
(* starts, writes the grants of its own code into the shared table         *)
(* role_permissions.  Processes start together, run different versions     *)
(* during a deployment, and may die at any point.  One system role stands  *)
(* for the three.  External: PostgreSQL, where a statement that meets a    *)
(* key another transaction has written waits for that transaction, and one *)
(* of two transactions that wait for each other is aborted.                *)
(***************************************************************************)
EXTENDS Naturals

CONSTANTS Processes,
          Permissions,
          Versions,        \* sets of permissions granted by some version's code
          MaxStarts        \* bound on starts after the first of each process

VARIABLES table,           \* committed keys: Role and the permissions granted
          version,         \* what the process's system_role_grants resolve to
          pc,
          todo, stale,     \* grants - current, current - grants
          wrote, erased,   \* its uncommitted inserts and deletes
          starts

vars == <<table, version, pc, todo, stale, wrote, erased, starts>>

Role == "role"             \* the row of roles itself
Keys == {Role} \cup Permissions

Init == /\ table \in {{}} \cup {{Role} \cup v : v \in Versions}
        /\ version \in [Processes -> Versions]
        /\ pc = [p \in Processes |-> "upsert"]
        /\ todo = [p \in Processes |-> {}]
        /\ stale = [p \in Processes |-> {}]
        /\ wrote = [p \in Processes |-> {}]
        /\ erased = [p \in Processes |-> {}]
        /\ starts = 0

Goto(p, l) == pc' = [pc EXCEPT ![p] = l]

----------------------------------------------------------------------------
(* PostgreSQL *)

\* The transactions that p's statement on key k waits for.
Holders(p, k) == {q \in Processes \ {p} : k \in wrote[q] \cup erased[q]}

\* READ COMMITTED, and its own writes.
Sees(p) == (table \cup wrote[p]) \ erased[p]

\* ON CONFLICT DO NOTHING, once nobody holds the key.
InsertKey(p, k) ==
    /\ Holders(p, k) = {}
    /\ wrote' = [wrote EXCEPT ![p] = IF k \in table THEN @ ELSE @ \cup {k}]

Rollback(p) == /\ wrote' = [wrote EXCEPT ![p] = {}]
               /\ erased' = [erased EXCEPT ![p] = {}]
               /\ todo' = [todo EXCEPT ![p] = {}]
               /\ stale' = [stale EXCEPT ![p] = {}]

----------------------------------------------------------------------------
(* sync_system_roles *)

UpsertRole(p) ==
    /\ pc[p] = "upsert"
    /\ InsertKey(p, Role)
    /\ Goto(p, "read")
    /\ UNCHANGED <<table, version, todo, stale, erased, starts>>

\* current: one SELECT; the two differences are computed from it.
ReadCurrent(p) ==
    /\ pc[p] = "read"
    /\ LET current == Sees(p) \ {Role} IN
        /\ todo' = [todo EXCEPT ![p] = version[p] \ current]
        /\ stale' = [stale EXCEPT ![p] = current \ version[p]]
    /\ Goto(p, "add")
    /\ UNCHANGED <<table, version, wrote, erased, starts>>

\* One INSERT per missing grant, in the order the set happens to have.
AddMissing(p, k) ==
    /\ pc[p] = "add" /\ k \in todo[p]
    /\ InsertKey(p, k)
    /\ todo' = [todo EXCEPT ![p] = @ \ {k}]
    /\ UNCHANGED <<table, version, pc, stale, erased, starts>>

\* Mutant: stale grants are left in place.
Mut_DropStale(p) ==
    /\ pc[p] = "add" /\ todo[p] = {}
    /\ Goto(p, "commit")
    /\ UNCHANGED <<table, version, todo, stale, wrote, erased, starts>>

\* One DELETE of the stale grants; it waits for every row another holds.
DropStale(p) ==
    /\ pc[p] = "add" /\ todo[p] = {}
    /\ \A k \in stale[p] : Holders(p, k) = {}
    /\ erased' = [erased EXCEPT ![p] = stale[p] \cap table]
    /\ Goto(p, "commit")
    /\ UNCHANGED <<table, version, todo, stale, wrote, starts>>

Commit(p) ==
    /\ pc[p] = "commit"
    /\ table' = Sees(p)
    /\ Rollback(p)
    /\ Goto(p, "up")
    /\ UNCHANGED <<version, starts>>

----------------------------------------------------------------------------
(* Processes die and start *)

\* The keys the next statement of p needs.
Wants(p) == CASE pc[p] = "upsert" -> {{Role}}
              [] pc[p] = "add" /\ todo[p] # {} -> {{k} : k \in todo[p]}
              [] pc[p] = "add" -> {stale[p]}
              [] OTHER -> {{}}

\* Each of the two may be waiting for the other: p is the victim, its start
\* fails, and the orchestrator starts it again.
AbortVictim(p) ==
    /\ \E q \in Processes \ {p} :
        /\ \E K \in Wants(p) : \E k \in K : q \in Holders(p, k)
        /\ \E K \in Wants(q) : \E k \in K : p \in Holders(q, k)
    /\ Rollback(p)
    /\ Goto(p, "upsert")
    /\ UNCHANGED <<table, version, starts>>

\* A crash or a deployment, with the same version or another one.
Restart(p) ==
    /\ starts < MaxStarts
    /\ \E v \in Versions : version' = [version EXCEPT ![p] = v]
    /\ Rollback(p)
    /\ Goto(p, "upsert")
    /\ starts' = starts + 1
    /\ UNCHANGED table

Next == \E p \in Processes :
            \/ UpsertRole(p) \/ ReadCurrent(p) \/ DropStale(p) \/ Commit(p)
            \/ AbortVictim(p) \/ Restart(p)
            \/ \E k \in Permissions : AddMissing(p, k)

Spec == Init /\ [][Next]_vars
----------------------------------------------------------------------------
\* Once every process is up, what all their versions grant is granted and
\* nothing is granted that none of them declares, however the syncs overlapped;
\* so processes of one version leave exactly its grants ("Reconcile grants: add
\* missing, drop stale").  Between two versions the last writer decides.
GrantsConverge ==
    (\A p \in Processes : pc[p] = "up") =>
        /\ Role \in table
        /\ \A k \in Permissions :
            /\ (\A p \in Processes : k \in version[p]) => k \in table
            /\ k \in table => \E p \in Processes : k \in version[p]
=============================================================================
