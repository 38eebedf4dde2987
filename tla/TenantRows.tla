---------------------------- MODULE TenantRows ----------------------------
(***************************************************************************)
(* Whose rows a unit of work writes, and by which right its actor does: the *)
(* contexts of core/auth/deps.py, the repositories of shared/, row-level   *)
(* security, and the permission check of core/auth.  One tenant-scoped     *)
(* table stands for all of them.                                           *)
(*                                                                         *)
(* A tenant's access token outlives the membership it was issued for.      *)
(* Memberships and tenant statuses change by other requests (module        *)
(* TenantMembership), here as steps of the environment.  External:         *)
(* PostgreSQL, which adds the policies' conditions to every statement.     *)
(***************************************************************************)
EXTENDS FiniteSets

CONSTANTS Tenants, Users,
          Rows,           \* bound on rows of the table
          Requests,       \* concurrent units of work
          None            \* SQL NULL, no tenant, no user

VARIABLES role,           \* role[t][u]: the membership, or None
          status,         \* tenants.status
          tokens,         \* tenant-scoped access tokens still valid
          rows,           \* rows[x]: its tenant_id, or None
          pc,
          kind,           \* the bundle or runtime the unit of work came from
          ctx,            \* its TenantContext
          guc,            \* app.tenant_id and app.user_id of its transaction
          resolved,       \* AccessService._resolved
          write,          \* what it has flushed: a row, or None
          held            \* history: its actor had the permission while it ran

vars == <<role, status, tokens, rows, pc, kind, ctx, guc, resolved, write, held>>
outside == <<role, status, tokens>>

\* Units of work under app_user: requests of members and of buyers, and event
\* handlers; under app_maintenance: cron jobs and provider callbacks.  Public
\* routes use no tenant-scoped table and are left out.
AppUserKinds == {"authed", "storefront", "handler"}
Kinds == AppUserKinds \cup {"job", "webhook"}

Nobody == [tenant |-> None, user |-> None]
Scope(t, u) == [tenant |-> t, user |-> u]

Init == /\ role = [t \in Tenants |-> [u \in Users |-> None]]
        /\ status = [t \in Tenants |-> "active"]
        /\ tokens = {}
        /\ rows = [x \in Rows |-> None]
        /\ pc = [r \in Requests |-> "idle"]
        /\ kind = [r \in Requests |-> None]
        /\ ctx = [r \in Requests |-> Nobody]
        /\ guc = [r \in Requests |-> Nobody]
        /\ resolved = [r \in Requests |-> None]
        /\ write = [r \in Requests |-> None]
        /\ held = [r \in Requests |-> FALSE]

----------------------------------------------------------------------------
(* Policies *)

\* app_user obeys the policies, app_maintenance has USING (true).
IsAppUser(r) == kind[r] \in AppUserKinds

\* enable_tenant_rls: USING and WITH CHECK tenant_id = app_current_tenant_id(),
\* which no row satisfies when the setting is empty.
RowPolicy(r, t) == IsAppUser(r) => (t = guc[r].tenant /\ t # None)

\* tenant_or_own on memberships, member_visible on tenants.
MembershipVisible(scope, t, u) == t = scope.tenant \/ u = scope.user
TenantVisible(scope, t) ==
    t = scope.tenant \/ (scope.user # None /\ role[t][scope.user] # None)

----------------------------------------------------------------------------
(* Tokens and contexts *)

\* has_active_membership, under a context without a tenant.
HasActiveMembership(t, u) ==
    LET scope == Scope(None, u) IN
    /\ MembershipVisible(scope, t, u) /\ role[t][u] # None
    /\ TenantVisible(scope, t) /\ status[t] = "active"

\* select_tenant: a tenant-scoped access token.
IssueTenantToken(t, u) ==
    /\ HasActiveMembership(t, u)
    /\ tokens' = tokens \cup {Scope(t, u)}
    /\ UNCHANGED <<role, status, rows, pc, kind, ctx, guc, resolved, write, held>>

TokenExpires(scope) ==
    /\ scope \in tokens
    /\ tokens' = tokens \ {scope}
    /\ UNCHANGED <<role, status, rows, pc, kind, ctx, guc, resolved, write, held>>

\* The actor's permission, as get_permission_codes joins it.
MayWrite(scope, t) == /\ scope.tenant = t /\ t # None
                      /\ scope.user # None /\ role[t][scope.user] = "owner"
                      /\ status[t] = "active"

\* What _context_from_request and _storefront_context accept; the tenant and
\* actor of a handler's envelope; the target of a job; a provider's callback.
Contexts(k) ==
    CASE k = "authed"     -> tokens \cup {Scope(None, u) : u \in Users}
      [] k = "storefront" -> {Scope(t, u) : t \in Tenants, u \in Users}
      [] k = "handler"    -> {Scope(t, u) : t \in Tenants, u \in Users \cup {None}}
      [] k = "job"        -> {Scope(t, None) : t \in Tenants}
      [] k = "webhook"    -> {Nobody}

\* apply_tenant_context: SET LOCAL of the context's tenant and user.
ApplyTenantContext(r, scope) == /\ ctx' = [ctx EXCEPT ![r] = scope]
                                /\ guc' = [guc EXCEPT ![r] = scope]

\* _open_bundle, dispatch_event: a unit of work whose first statements are
\* apply_tenant_context.  A storefront request goes on for an active shop only.
Begin(r, k, scope) ==
    /\ pc[r] = "idle"
    /\ scope \in Contexts(k)
    /\ k = "storefront" => TenantVisible(scope, scope.tenant) /\ status[scope.tenant] = "active"
    /\ pc' = [pc EXCEPT ![r] = "open"]
    /\ kind' = [kind EXCEPT ![r] = k]
    /\ ApplyTenantContext(r, scope)
    /\ held' = [held EXCEPT ![r] = MayWrite(scope, scope.tenant)]
    /\ UNCHANGED <<outside, rows, resolved, write>>

\* Context elevation: SystemRepository finds a row of any tenant, and the rest
\* of the transaction runs for that tenant (_process_transition).
Elevate(r) ==
    /\ pc[r] = "open" /\ kind[r] = "webhook" /\ ctx[r].tenant = None
    /\ \E x \in Rows :
        /\ rows[x] # None
        /\ ApplyTenantContext(r, [ctx[r] EXCEPT !.tenant = rows[x]])
    /\ UNCHANGED <<outside, rows, pc, kind, resolved, write, held>>

----------------------------------------------------------------------------
(* Repository and permissions *)

\* A repository needs a tenant (Repository.__init__).
Scoped(r) == pc[r] = "open" /\ ctx[r].tenant # None

\* _select: the repository's filter, and then the table's policy; another
\* tenant's row is as good as missing.
Select(r) == {x \in Rows : rows[x] = ctx[r].tenant /\ RowPolicy(r, rows[x])}

\* AccessService.list_permissions: resolved once per unit of work.  Both the
\* route's require_permission and the guard inside the service ask it.
Resolve(r) ==
    /\ Scoped(r) /\ kind[r] = "authed" /\ resolved[r] = None
    /\ resolved' = [resolved EXCEPT ![r] =
            IF MayWrite(guc[r], ctx[r].tenant) THEN "granted" ELSE "denied"]
    /\ UNCHANGED <<outside, rows, pc, kind, ctx, guc, write, held>>

\* PermissionGuard.require: internal actors pass.  What a buyer or a handler
\* does is guarded by no permission; a buyer's writes by ownership.
Passes(r) == kind[r] = "authed" => resolved[r] = "granted"

\* Repository.add: the row is stamped with the context's tenant.
Add(r) ==
    /\ Scoped(r) /\ write[r] = None /\ Passes(r)
    /\ RowPolicy(r, ctx[r].tenant)
    /\ \E x \in Rows :
        /\ rows[x] = None /\ \A q \in Requests : write[q] # x
        /\ write' = [write EXCEPT ![r] = x]
    /\ UNCHANGED <<outside, rows, pc, kind, ctx, guc, resolved, held>>

\* Repository.delete of a row it read; an update of one is the same here.
Delete(r) ==
    /\ Scoped(r) /\ write[r] = None /\ Passes(r)
    /\ \E x \in Select(r) :
        /\ \A q \in Requests : write[q] # x
        /\ write' = [write EXCEPT ![r] = x]
    /\ UNCHANGED <<outside, rows, pc, kind, ctx, guc, resolved, held>>

----------------------------------------------------------------------------
(* The end of a unit of work *)

Written(r) ==
    IF write[r] = None THEN rows
    ELSE [rows EXCEPT ![write[r]] = IF @ = None THEN ctx[r].tenant ELSE None]

\* Mutant: the permissions resolved for one request serve the next.
Mut_Clear(r) == UNCHANGED resolved

\* The bundle goes with the request, and its AccessService with it.
Clear(r) == resolved' = [resolved EXCEPT ![r] = None]

\* __aexit__: commit or roll back; the settings were local to the transaction.
End(r) ==
    /\ pc[r] = "open"
    /\ rows' \in {Written(r), rows}
    /\ pc' = [pc EXCEPT ![r] = "idle"]
    /\ kind' = [kind EXCEPT ![r] = None]
    /\ ApplyTenantContext(r, Nobody)
    /\ Clear(r)
    /\ write' = [write EXCEPT ![r] = None]
    /\ held' = [held EXCEPT ![r] = FALSE]
    /\ UNCHANGED outside

----------------------------------------------------------------------------
(* The environment: members come and go, tenants are suspended *)

Note(r) == held[r] \/ (/\ ctx[r].user # None /\ ctx[r].tenant # None
                       /\ role'[ctx[r].tenant][ctx[r].user] = "owner"
                       /\ status'[ctx[r].tenant] = "active")

ChangeMember(t, u, new) ==
    /\ role[t][u] # new
    /\ role' = [role EXCEPT ![t][u] = new]
    /\ UNCHANGED <<status, tokens, rows, pc, kind, ctx, guc, resolved, write>>
    /\ held' = [r \in Requests |-> Note(r)]

SetStatus(t) ==
    /\ status' = [status EXCEPT ![t] = IF @ = "active" THEN "suspended" ELSE "active"]
    /\ UNCHANGED <<role, tokens, rows, pc, kind, ctx, guc, resolved, write>>
    /\ held' = [r \in Requests |-> Note(r)]

Next == \/ \E t \in Tenants, u \in Users :
              IssueTenantToken(t, u) \/ TokenExpires(Scope(t, u))
        \/ \E r \in Requests, k \in Kinds : \E scope \in Contexts(k) : Begin(r, k, scope)
        \/ \E r \in Requests : Elevate(r) \/ Resolve(r) \/ Add(r) \/ Delete(r) \/ End(r)
        \/ \E t \in Tenants, u \in Users, new \in {None, "member", "owner"} :
              ChangeMember(t, u, new)
        \/ \E t \in Tenants : SetStatus(t)

Spec == Init /\ [][Next]_vars
----------------------------------------------------------------------------
\* A user writes only if they held the permission at some moment of that very
\* request: a token or a cached permission set that outlived the membership,
\* the role or the tenant's suspension is worth nothing in the next one
\* (AccessService, get_permission_codes, PermissionGuard).
NoRightsKept ==
    \A r \in Requests : kind[r] = "authed" /\ write[r] # None => held[r]
=============================================================================
