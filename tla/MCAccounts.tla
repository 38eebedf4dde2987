----------------------------- MODULE MCAccounts -----------------------------
(***************************************************************************)
(* Who may do what: members and invitations, sessions, the login throttle, *)
(* the second factor, the rights of a unit of work, and the start-up that  *)
(* wires features and grants.  The components share no state, so a         *)
(* behaviour exercises one of them, named by `focus'.  A component with    *)
(* several initial states keeps one of them while it is not in focus.      *)
(***************************************************************************)
EXTENDS TenantMembership

CONSTANTS Tokens, MaxFaults,                                      \* Sessions
          MaxFailures, IpLimit,                                   \* LoginThrottle
          Challenges, Resets, RecoveryCodes, Steps, MaxSecrets, MaxTime,
          Tenants, Members, Rows, Units,                          \* TenantRows
          Processes, Permissions, Versions, MaxStarts,            \* RoleSync
          Features                                                \* FeatureLoader

VARIABLES
    focus,
    ses_token, ses_active, ses_pc, ses_holds, ses_next, ses_seen, ses_faults,
    log_account, log_hits, log_failures, log_locked, log_pc, log_key, log_tries,
    two_now, two_totp, two_secret, two_recovery, two_challenges, two_resets, two_issued,
    two_mark, two_pc, two_purpose, two_holds, two_accepted,
    row_role, row_status, row_tokens, row_rows, row_pc, row_kind, row_ctx, row_guc,
    row_resolved, row_write, row_held,
    syn_table, syn_version, syn_pc, syn_todo, syn_stale, syn_wrote, syn_erased, syn_starts,
    ldr_enabled, ldr_requires, ldr_foreign, ldr_pc, ldr_remaining, ldr_ordered, ldr_todo,
    ldr_catalog, ldr_gates, ldr_markers

Session == INSTANCE Sessions
    WITH token <- ses_token, active <- ses_active, pc <- ses_pc, holds <- ses_holds,
         next <- ses_next, seen <- ses_seen, faults <- ses_faults
Login == INSTANCE LoginThrottle
    WITH account <- log_account, hits <- log_hits, failures <- log_failures,
         locked <- log_locked, pc <- log_pc, key <- log_key, tries <- log_tries
Factor == INSTANCE SecondFactor
    WITH now <- two_now, totp <- two_totp, secret <- two_secret, recovery <- two_recovery,
         challenges <- two_challenges, resets <- two_resets, issued <- two_issued,
         mark <- two_mark, pc <- two_pc, purpose <- two_purpose, holds <- two_holds,
         accepted <- two_accepted
Row == INSTANCE TenantRows
    WITH Users <- Members, Requests <- Units, role <- row_role, status <- row_status,
         tokens <- row_tokens, rows <- row_rows, pc <- row_pc, kind <- row_kind,
         ctx <- row_ctx, guc <- row_guc, resolved <- row_resolved, write <- row_write,
         held <- row_held
Sync == INSTANCE RoleSync
    WITH table <- syn_table, version <- syn_version, pc <- syn_pc, todo <- syn_todo,
         stale <- syn_stale, wrote <- syn_wrote, erased <- syn_erased, starts <- syn_starts
Loader == INSTANCE FeatureLoader
    WITH enabled <- ldr_enabled, requires <- ldr_requires, foreign <- ldr_foreign,
         pc <- ldr_pc, remaining <- ldr_remaining, ordered <- ldr_ordered, todo <- ldr_todo,
         catalog <- ldr_catalog, gates <- ldr_gates, markers <- ldr_markers

session == <<ses_token, ses_active, ses_pc, ses_holds, ses_next, ses_seen, ses_faults>>
login == <<log_account, log_hits, log_failures, log_locked, log_pc, log_key, log_tries>>
factor == <<two_now, two_totp, two_secret, two_recovery, two_challenges, two_resets,
            two_issued, two_mark, two_pc, two_purpose, two_holds, two_accepted>>
rights == <<row_role, row_status, row_tokens, row_rows, row_pc, row_kind, row_ctx,
            row_guc, row_resolved, row_write, row_held>>
sync == <<syn_table, syn_version, syn_pc, syn_todo, syn_stale, syn_wrote, syn_erased,
          syn_starts>>
loader == <<ldr_enabled, ldr_requires, ldr_foreign, ldr_pc, ldr_remaining, ldr_ordered,
            ldr_todo, ldr_catalog, ldr_gates, ldr_markers>>

MCInit ==
    /\ focus \in {"members", "sessions", "login", "factor", "rows", "sync", "loader"}
    /\ Init
    /\ Session!Init /\ Login!Init /\ Factor!Init /\ Row!Init
    /\ Sync!Init
    /\ focus # "sync" => /\ syn_table = {}
                         /\ syn_version = [p \in Processes |-> CHOOSE v \in Versions : TRUE]
    /\ Loader!Init
    /\ focus # "loader" => ldr_enabled = {}

MCNext ==
    \/ /\ focus = "members" /\ Next
       /\ UNCHANGED <<focus, session, login, factor, rights, sync, loader>>
    \/ /\ focus = "sessions" /\ Session!Next
       /\ UNCHANGED <<focus, vars, login, factor, rights, sync, loader>>
    \/ /\ focus = "login" /\ Login!Next
       /\ UNCHANGED <<focus, vars, session, factor, rights, sync, loader>>
    \/ /\ focus = "factor" /\ Factor!Next
       /\ UNCHANGED <<focus, vars, session, login, rights, sync, loader>>
    \/ /\ focus = "rows" /\ Row!Next
       /\ UNCHANGED <<focus, vars, session, login, factor, sync, loader>>
    \/ /\ focus = "sync" /\ Sync!Next
       /\ UNCHANGED <<focus, vars, session, login, factor, rights, loader>>
    \/ /\ focus = "loader" /\ Loader!Next
       /\ UNCHANGED <<focus, vars, session, login, factor, rights, sync>>

MCSpec == MCInit /\ [][MCNext]_<<focus, vars, session, login, factor, rights, sync, loader>>

\* A family of refresh tokens is one session, which stays ended once it has
\* ended, however refresh, logout and reuse overlap (Sessions).
OneSessionPerFamily == Session!OneSessionPerFamily

\* A locked account stays locked, whatever logins were in flight (LoginThrottle).
LockoutHolds == Login!LockoutHolds

\* A one-time code or token signs in, resets or disables once (SecondFactor).
SpentOnce == Factor!SpentOnce

\* A user writes only with a permission held during that request (TenantRows).
NoRightsKept == Row!NoRightsKept

\* Overlapping role syncs leave the grants their versions agree on (RoleSync).
GrantsConverge == Sync!GrantsConverge

=============================================================================
