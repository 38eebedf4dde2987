-------------------------- MODULE TenantMembership --------------------------
(***************************************************************************)
(* The members, roles and invitations of one tenant (core/tenants/         *)
(* service.py).  A request reads and checks in one step and writes in      *)
(* another: under READ COMMITTED other requests may commit in between.     *)
(* Only accept_invitation locks the row it read.                           *)
(*                                                                         *)
(* External: PostgreSQL and SQLAlchemy.  An UPDATE of a deleted row fails  *)
(* the transaction, a DELETE of one does nothing.                          *)
(***************************************************************************)
EXTENDS Naturals, FiniteSets

CONSTANTS
    Users,
    Founder,        \* the user who created the tenant
    Invitations,    \* bound on invitations ever made
    Requests,       \* concurrent requests
    Roles,          \* the role codes in use, system roles and custom ones
    None

ASSUME TenantMembershipAssumption ==
    /\ Founder \in Users
    /\ "owner" \in Roles
    /\ None \notin Invitations \cup Roles
    /\ "founder" \notin Invitations

\* The system roles that hold tenants.member:invite, :remove and :update_role.
Managing == {"owner", "admin"}

VARIABLES
    member,     \* member[u]: the role, and what created the row (its identity)
    inv,        \* the invitations table; an email is named by its user
    tenant,     \* the tenant's status
    req,        \* the open transactions
    joins,      \* how many memberships each invitation has created
    collided    \* an accept failed on the unique index (tenant_id, user_id)

vars == <<member, inv, tenant, req, joins, collided>>

NoRow == [role |-> None, by |-> None]
Idle == [op |-> "idle", user |-> None, row |-> None, role |-> None, inv |-> None]

\* create_tenant: the creator is the owner.
Init ==
    /\ member = [u \in Users |->
            IF u = Founder THEN [role |-> "owner", by |-> "founder"] ELSE NoRow]
    /\ inv = [i \in Invitations |->
            [status |-> "none", email |-> None, role |-> None, expired |-> FALSE]]
    /\ tenant = "active"
    /\ req = [r \in Requests |-> Idle]
    /\ joins = [i \in Invitations |-> 0]
    /\ collided = FALSE

IsMember(u) == member[u] # NoRow
Owners == {u \in Users : member[u].role = "owner"}

\* get_permission_codes: some user may make this request.
Permitted == tenant = "active" /\ \E u \in Users : member[u].role \in Managing

Open(r, tx) == req[r] = Idle /\ req' = [req EXCEPT ![r] = tx]
Close(r) == req' = [req EXCEPT ![r] = Idle]

\* accept_invitation holds the row lock of the invitation it read.
Locked(i) == \E r \in Requests : req[r].op = "accept" /\ req[r].inv = i

----------------------------------------------------------------------------
(* Invitations *)

\* invite_member: one pending invitation per address (partial unique index),
\* whether or not it has expired.
Invite(u, role) ==
    /\ Permitted
    /\ \A i \in Invitations : ~(inv[i].status = "pending" /\ inv[i].email = u)
    /\ \E i \in Invitations :
        /\ inv[i].status = "none"
        /\ inv' = [inv EXCEPT ![i] =
                [status |-> "pending", email |-> u, role |-> role, expired |-> FALSE]]
    /\ UNCHANGED <<member, tenant, req, joins, collided>>

\* expires_at passes; nothing in the code sets the status "expired".
Expire(i) ==
    /\ inv[i].status = "pending" /\ ~inv[i].expired
    /\ inv' = [inv EXCEPT ![i].expired = TRUE]
    /\ UNCHANGED <<member, tenant, req, joins, collided>>

\* Mutant: no FOR UPDATE.
Mut_AcceptRead(r, i) ==
    /\ inv[i].status = "pending" /\ ~inv[i].expired
    /\ ~IsMember(inv[i].email)
    /\ Open(r, [Idle EXCEPT !.op = "accept", !.user = inv[i].email, !.inv = i])
    /\ UNCHANGED <<member, inv, tenant, joins, collided>>

\* accept_invitation by the invited user: SELECT ... FOR UPDATE, then the checks.
AcceptRead(r, i) ==
    /\ ~Locked(i)
    /\ inv[i].status = "pending" /\ ~inv[i].expired
    /\ ~IsMember(inv[i].email)
    /\ Open(r, [Idle EXCEPT !.op = "accept", !.user = inv[i].email, !.inv = i])
    /\ UNCHANGED <<member, inv, tenant, joins, collided>>

\* ... the membership and the invitation in one transaction.
AcceptWrite(r) ==
    /\ req[r].op = "accept"
    /\ LET i == req[r].inv  u == req[r].user IN
        IF IsMember(u)
        THEN collided' = TRUE /\ UNCHANGED <<member, inv, joins>>
        ELSE /\ member' = [member EXCEPT ![u] = [role |-> inv[i].role, by |-> i]]
             /\ inv' = [inv EXCEPT ![i].status = "accepted"]
             /\ joins' = [joins EXCEPT ![i] = @ + 1]
             /\ UNCHANGED collided
    /\ Close(r)
    /\ UNCHANGED tenant

\* revoke_invitation: read without a lock ...
RevokeRead(r, i) ==
    /\ Permitted
    /\ inv[i].status = "pending"
    /\ Open(r, [Idle EXCEPT !.op = "revoke", !.inv = i])
    /\ UNCHANGED <<member, inv, tenant, joins, collided>>

\* ... then UPDATE by id, which waits for an accept that holds the row.
RevokeWrite(r) ==
    /\ req[r].op = "revoke"
    /\ ~Locked(req[r].inv)
    /\ inv' = [inv EXCEPT ![req[r].inv].status = "revoked"]
    /\ Close(r)
    /\ UNCHANGED <<member, tenant, joins, collided>>

----------------------------------------------------------------------------
(* Members *)

\* _guard_last_owner refuses.
LastOwner(u) == u \in Owners /\ Cardinality(Owners) <= 1

\* change_member_role, up to the write.
ChangeRead(r, u, role) ==
    /\ Permitted
    /\ IsMember(u)
    /\ role # "owner" => ~LastOwner(u)
    /\ Open(r, [Idle EXCEPT !.op = "change", !.user = u, !.row = member[u].by, !.role = role])
    /\ UNCHANGED <<member, inv, tenant, joins, collided>>

\* UPDATE by id: a row deleted in the meantime fails the transaction.
ChangeWrite(r) ==
    /\ req[r].op = "change"
    /\ member' = IF member[req[r].user].by = req[r].row
                 THEN [member EXCEPT ![req[r].user].role = req[r].role] ELSE member
    /\ Close(r)
    /\ UNCHANGED <<inv, tenant, joins, collided>>

\* remove_member, up to the write.
RemoveRead(r, u) ==
    /\ Permitted
    /\ IsMember(u)
    /\ ~LastOwner(u)
    /\ Open(r, [Idle EXCEPT !.op = "remove", !.user = u, !.row = member[u].by])
    /\ UNCHANGED <<member, inv, tenant, joins, collided>>

\* DELETE by id.
RemoveWrite(r) ==
    /\ req[r].op = "remove"
    /\ member' = IF member[req[r].user].by = req[r].row
                 THEN [member EXCEPT ![req[r].user] = NoRow] ELSE member
    /\ Close(r)
    /\ UNCHANGED <<inv, tenant, joins, collided>>

\* set_status by the platform's administrator.
SetStatus(status) ==
    /\ tenant' = status
    /\ UNCHANGED <<member, inv, req, joins, collided>>

Next ==
    \/ \E u \in Users, role \in Roles : Invite(u, role)
    \/ \E i \in Invitations : Expire(i)
    \/ \E r \in Requests :
        \/ \E i \in Invitations : AcceptRead(r, i) \/ RevokeRead(r, i)
        \/ AcceptWrite(r) \/ RevokeWrite(r) \/ ChangeWrite(r) \/ RemoveWrite(r)
        \/ \E u \in Users : RemoveRead(r, u) \/ \E role \in Roles : ChangeRead(r, u, role)
    \/ \E status \in {"active", "suspended"} : SetStatus(status)

Spec == Init /\ [][Next]_vars

----------------------------------------------------------------------------
(* Properties *)

TypeOK ==
    /\ member \in [Users -> [role : Roles \cup {None},
                             by : Invitations \cup {"founder", None}]]
    /\ inv \in [Invitations -> [status : {"none", "pending", "accepted", "revoked"},
                                email : Users \cup {None}, role : Roles \cup {None},
                                expired : BOOLEAN]]
    /\ tenant \in {"active", "suspended"}
    /\ req \in [Requests -> [op : {"idle", "accept", "revoke", "change", "remove"},
                             user : Users \cup {None},
                             row : Invitations \cup {"founder", None},
                             role : Roles \cup {None}, inv : Invitations \cup {None}]]
    /\ joins \in [Invitations -> Nat]
    /\ collided \in BOOLEAN

\* An invitation lets its addressee in once: not a second time after they were
\* removed, not even when two accepts of it overlapped.  "A parallel repeat gets
\* 404/409, not 500" (core/tenants/README.md): no accept ever fails on the unique
\* index of memberships.
JoinsOnce == ~collided /\ \A i \in Invitations : joins[i] <= 1

\* "A tenant always has at least one owner" (core/tenants/README.md).
AlwaysHasOwner == Owners # {}
=============================================================================
