------------------------------ MODULE Sessions ------------------------------
(***************************************************************************)
(* The refresh tokens of one user (core/auth/service.py): rotation by      *)
(* compare-and-set against the revocation of a family, of one token and of *)
(* all tokens.  A request reads in one step and writes in a later one; the *)
(* rows a transaction has written stay locked until it commits.            *)
(***************************************************************************)
EXTENDS Naturals, FiniteSets

CONSTANTS
    Tokens,         \* ids of refresh tokens; the first of a login names its family
    Requests,       \* requests that may be in flight together
    MaxFaults,      \* bound on connections lost before a commit
    None

VARIABLES
    token,      \* the table refresh_tokens, committed rows
    active,     \* users.status = 'active'
    pc,         \* where a request stands
    holds,      \* the token a request was given
    next,       \* the successor a request has inserted and not yet committed
    seen,       \* the rows the snapshot of a revoking UPDATE selected
    faults

vars == <<token, active, pc, holds, next, seen, faults>>

Row == [family : Tokens, rotated : BOOLEAN, revoked : BOOLEAN]
Fresh(f) == [family |-> f, rotated |-> FALSE, revoked |-> FALSE]

TokenRows == {t \in Tokens : token[t] # None}
Unrevoked == {t \in TokenRows : ~token[t].revoked}
Usable(t) == t \in TokenRows /\ ~token[t].rotated /\ ~token[t].revoked
Family(f) == {t \in TokenRows : token[t].family = f}
Unused == {t \in Tokens : token[t] = None /\ \A r \in Requests : next[r] # t}

\* The request that has written a row and not committed yet.
Locked(t) == \E r \in Requests : pc[r] = "rotated" /\ holds[r] = t

Init ==
    /\ token = [t \in Tokens |-> None]
    /\ active = TRUE
    /\ pc = [r \in Requests |-> "idle"]
    /\ holds = [r \in Requests |-> None]
    /\ next = [r \in Requests |-> None]
    /\ seen = [r \in Requests |-> {}]
    /\ faults = 0

\* A login (or a completed second factor) opens a new family.
IssueTokens(t) ==
    /\ active
    /\ t \in Unused
    /\ token' = [token EXCEPT ![t] = Fresh(t)]
    /\ UNCHANGED <<active, pc, holds, next, seen, faults>>

\* The revoking UPDATEs select the rows of their snapshot; rows another
\* transaction has inserted and not committed are not among them.
BeginRevoke(r, rows) ==
    /\ pc' = [pc EXCEPT ![r] = "revoking"]
    /\ seen' = [seen EXCEPT ![r] = rows]
    /\ UNCHANGED <<token, active, holds, next, faults>>

\* refresh() up to its compare-and-set: an unlocked read and the early returns.  An
\* expired token changes nothing, so expiry is a request that takes no step.
RefreshRead(r, t) ==
    /\ pc[r] = "idle"
    /\ t \in TokenRows
    /\ \/ /\ token[t].rotated \/ token[t].revoked
          /\ BeginRevoke(r, Family(token[t].family) \cap Unrevoked)
       \/ /\ Usable(t) /\ ~active
          /\ BeginRevoke(r, Family(token[t].family) \cap Unrevoked)
       \/ /\ Usable(t) /\ active
          /\ pc' = [pc EXCEPT ![r] = "read"]
          /\ holds' = [holds EXCEPT ![r] = t]
          /\ UNCHANGED <<token, active, next, seen, faults>>

\* The compare-and-set waits for the lock of the row and then looks at it again;
\* the winner inserts the successor in the same transaction.
CompareAndSet(r, matches) ==
    /\ pc[r] = "read"
    /\ ~Locked(holds[r])
    /\ \/ /\ matches
          /\ \E n \in Unused : next' = [next EXCEPT ![r] = n]
          /\ pc' = [pc EXCEPT ![r] = "rotated"]
          /\ UNCHANGED holds
       \/ /\ ~matches
          /\ pc' = [pc EXCEPT ![r] = "idle"]
          /\ holds' = [holds EXCEPT ![r] = None]
          /\ UNCHANGED next
    /\ UNCHANGED <<token, active, seen, faults>>

\* Mutant: the compare-and-set forgets rotated_at.
Mut_RotateTwice(r) == CompareAndSet(r, ~token[holds[r]].revoked)

Rotate(r) == CompareAndSet(r, Usable(holds[r]))

Close(r) ==
    /\ pc' = [pc EXCEPT ![r] = "idle"]
    /\ holds' = [holds EXCEPT ![r] = None]
    /\ next' = [next EXCEPT ![r] = None]
    /\ seen' = [seen EXCEPT ![r] = {}]

CommitRotation(r) ==
    /\ pc[r] = "rotated"
    /\ token' = [token EXCEPT ![holds[r]].rotated = TRUE,
                              ![next[r]] = Fresh(token[holds[r]].family)]
    /\ Close(r)
    /\ UNCHANGED <<active, faults>>

\* A revocation waits for every row it selected, then marks those that are still
\* unrevoked and commits.
CommitRevoke(r) ==
    /\ pc[r] = "revoking"
    /\ \A t \in seen[r] : ~Locked(t)
    /\ token' = [t \in Tokens |->
                    IF t \in seen[r] THEN [token[t] EXCEPT !.revoked = TRUE] ELSE token[t]]
    /\ Close(r)
    /\ UNCHANGED <<active, faults>>

\* change_password and reset_password revoke every token of the user.
RevokeAll(r) ==
    /\ pc[r] = "idle"
    /\ BeginRevoke(r, Unrevoked)

Logout(t) ==
    /\ t \in Unrevoked
    /\ ~Locked(t)
    /\ token' = [token EXCEPT ![t].revoked = TRUE]
    /\ UNCHANGED <<active, pc, holds, next, seen, faults>>

\* The connection is lost before the commit: nothing of the transaction stays.
LoseConnection(r) ==
    /\ pc[r] # "idle"
    /\ faults < MaxFaults
    /\ faults' = faults + 1
    /\ Close(r)
    /\ UNCHANGED <<token, active>>

\* users.status is set from outside the service.
Block ==
    /\ active
    /\ active' = FALSE
    /\ UNCHANGED <<token, pc, holds, next, seen, faults>>

Next ==
    \/ Block
    \/ \E t \in Tokens : IssueTokens(t) \/ Logout(t)
    \/ \E r \in Requests :
        \/ \E t \in Tokens : RefreshRead(r, t)
        \/ Rotate(r) \/ CommitRotation(r)
        \/ RevokeAll(r) \/ CommitRevoke(r)
        \/ LoseConnection(r)

Spec == Init /\ [][Next]_vars

\* No usable token, and no rotation in progress.
Ended(f) ==
    /\ f \in TokenRows
    /\ \A t \in Family(f) : ~Usable(t) /\ ~Locked(t)

\* A family is one session.  Two devices that refresh with the same token at the
\* same moment never leave two usable tokens (the atomic compare-and-set of
\* AuthService.refresh), and a session that has ended stays ended: no request
\* that read a token before it was revoked brings the family back (refresh
\* against logout, reuse and password change).
OneSessionPerFamily ==
    [][\A f \in Tokens :
        /\ Cardinality({t \in Family(f) : Usable(t)})' <= 1
        /\ Ended(f) => Ended(f)']_vars
=============================================================================
