---------------------------- MODULE SecondFactor ----------------------------
(***************************************************************************)
(* The one-time credentials of one user: 2FA challenges and password-reset *)
(* tokens in Redis, TOTP codes with the replay guard, recovery codes in    *)
(* the database (core/auth/service.py, core/auth/rate_limit.py).  Redis    *)
(* commands, the database read and the commit are separate steps.          *)
(***************************************************************************)
EXTENDS Integers, FiniteSets

CONSTANTS
    Requests,
    Challenges, Resets,     \* opaque tokens that may be issued
    RecoveryCodes,          \* recovery codes that may be generated
    Steps,                  \* TOTP time steps whose codes are typed in
    MaxSecrets,             \* bound on enrolments
    MaxTime,                \* bound on the clock
    None

VARIABLES
    now,            \* the clock; a TOTP step of 30 s is two ticks
    totp,           \* users_totp: none, pending or confirmed
    secret,         \* the stored secret, by number of generation
    recovery,       \* user_recovery_codes: none, fresh or spent
    challenges,     \* live challenge tokens
    resets,         \* live reset tokens
    issued,         \* challenge and reset tokens ever put
    mark,           \* auth:totp_used: when the mark of a code ends
    pc, purpose, holds, \* where a request stands, what it is for, what it presents
    accepted        \* history: how often a credential let a request pass

vars == <<now, totp, secret, recovery, challenges, resets, issued, mark,
          pc, purpose, holds, accepted>>

TicksPerStep == 2
\* A TOTP code: the secret it was computed from and its time step.
Codes == (1..MaxSecrets) \X Steps

\* verify_totp(): valid_window=1, one step early or late.
VerifyTotp(c) ==
    /\ c[1] = secret
    /\ c[2] \in (now \div TicksPerStep - 1)..(now \div TicksPerStep + 1)

\* TotpReplayGuard.window_seconds = 90, three steps.
MarkTicks == 3 * TicksPerStep

Init ==
    /\ now = 0
    /\ totp = "none"
    /\ secret = 0
    /\ recovery = [c \in RecoveryCodes |-> "none"]
    /\ challenges = {} /\ resets = {} /\ issued = {}
    /\ mark = [c \in Codes |-> 0]
    /\ pc = [r \in Requests |-> "idle"]
    /\ purpose = [r \in Requests |-> None]
    /\ holds = [r \in Requests |-> None]
    /\ accepted = [c \in Codes \cup RecoveryCodes \cup Challenges \cup Resets |-> 0]

At(r, place, what, c) ==
    /\ pc' = [pc EXCEPT ![r] = place]
    /\ purpose' = [purpose EXCEPT ![r] = what]
    /\ holds' = [holds EXCEPT ![r] = c]
Close(r) == At(r, "idle", None, None)
Accept(c) == accepted' = [accepted EXCEPT ![c] = @ + 1]

\* enable_totp(): read the row; an unconfirmed secret is replaced on the write.
EnableRead(r) ==
    /\ pc[r] = "idle"
    /\ totp # "confirmed"
    /\ secret < MaxSecrets
    /\ At(r, "enabling", "enable", None)
    /\ UNCHANGED <<now, totp, secret, recovery, challenges, resets, issued, mark, accepted>>

\* The ORM writes the secret column only, so a confirmation in between stays.
EnableWrite(r) ==
    /\ pc[r] = "enabling"
    /\ secret < MaxSecrets
    /\ secret' = secret + 1
    /\ totp' = IF totp = "none" THEN "pending" ELSE totp
    /\ Close(r)
    /\ UNCHANGED <<now, recovery, challenges, resets, issued, mark, accepted>>

\* confirm_totp(): the row is read and the code compared in memory.  The replay
\* guard is not asked: a code that confirms is neither marked nor looked up.
ConfirmRead(r) ==
    /\ pc[r] = "idle"
    /\ totp # "none"
    /\ \E c \in Codes : VerifyTotp(c)
    /\ At(r, "confirming", "confirm", None)
    /\ UNCHANGED <<now, totp, secret, recovery, challenges, resets, issued, mark, accepted>>

\* Its write confirms, also a second time, and each time adds new recovery codes.
ConfirmWrite(r, fresh) ==
    /\ pc[r] = "confirming"
    /\ totp # "none"
    /\ recovery[fresh] = "none" /\ accepted[fresh] = 0
    /\ totp' = "confirmed"
    /\ recovery' = [recovery EXCEPT ![fresh] = "fresh"]
    /\ Close(r)
    /\ UNCHANGED <<now, secret, challenges, resets, issued, mark, accepted>>

\* authenticate() with the second factor on: a challenge instead of tokens.
IssueChallenge(t) ==
    /\ totp = "confirmed"
    /\ t \in Challenges \ issued
    /\ challenges' = challenges \cup {t}
    /\ issued' = issued \cup {t}
    /\ UNCHANGED <<now, totp, secret, recovery, resets, mark, pc, purpose, holds, accepted>>

\* complete_two_factor() up to the code: GET and DEL in one MULTI, then the limiter,
\* which may refuse (its counter is module LoginThrottle's).  The challenge is gone
\* whatever happens next.
ConsumeChallenge(r, t) ==
    /\ pc[r] = "idle"
    /\ t \in challenges
    /\ challenges' = challenges \ {t}
    /\ Accept(t)
    /\ At(r, "verifying", "login", None) \/ Close(r)
    /\ UNCHANGED <<now, totp, secret, recovery, resets, issued, mark>>

\* disable_totp() verifies a code in the same way.
StartDisable(r) ==
    /\ pc[r] = "idle"
    /\ At(r, "verifying", "disable", None)
    /\ UNCHANGED <<now, totp, secret, recovery, challenges, resets, issued, mark, accepted>>

\* _verify_totp_or_recovery(): the row is read and the code compared in memory.
VerifyCode(r) ==
    /\ pc[r] = "verifying"
    /\ \/ totp # "none" /\ \E c \in Codes : VerifyTotp(c) /\ At(r, "marking", purpose[r], c)
       \/ totp # "none" /\ \E c \in RecoveryCodes : At(r, "spending", purpose[r], c)
       \/ Close(r)
    /\ UNCHANGED <<now, totp, secret, recovery, challenges, resets, issued, mark, accepted>>

\* check_and_mark(): SET NX EX.  An acceptance counts against the code while the
\* code is still valid; a request may stall past that.
MarkFor(r, ticks) ==
    /\ pc[r] = "marking"
    /\ \/ mark[holds[r]] > now /\ Close(r) /\ UNCHANGED <<mark, accepted>>
       \/ /\ mark[holds[r]] <= now
          /\ mark' = [mark EXCEPT ![holds[r]] = now + ticks]
          /\ At(r, "passed", purpose[r], None)
          /\ IF VerifyTotp(holds[r]) THEN Accept(holds[r]) ELSE UNCHANGED accepted
    /\ UNCHANGED <<now, totp, secret, recovery, challenges, resets, issued>>

\* Mutant: the mark lives for two steps, as if no clock skew were tolerated.
Mut_CheckAndMark(r) == MarkFor(r, 2 * TicksPerStep)

CheckAndMark(r) == MarkFor(r, MarkTicks)

\* The compare-and-set of a recovery code waits for a request that has spent it
\* and not committed.
SpendRecovery(r) ==
    /\ pc[r] = "spending"
    /\ \A q \in Requests \ {r} : ~(pc[q] = "passed" /\ holds[q] = holds[r])
    /\ IF recovery[holds[r]] = "fresh"
       THEN At(r, "passed", purpose[r], holds[r])
       ELSE Close(r)
    /\ UNCHANGED <<now, totp, secret, recovery, challenges, resets, issued, mark, accepted>>

\* The commit: a login spends its recovery code, disabling deletes the secret and
\* all codes.  A DELETE waits for rows another request has written.
Commit(r) ==
    /\ pc[r] = "passed"
    /\ \/ /\ purpose[r] = "login"
          /\ UNCHANGED <<totp, secret>>
          /\ recovery' = [c \in RecoveryCodes |-> IF c = holds[r] THEN "spent" ELSE recovery[c]]
       \/ /\ purpose[r] = "disable"
          /\ \A q \in Requests \ {r} : pc[q] = "passed" => holds[q] = None
          /\ totp' = "none"
          /\ UNCHANGED secret
          /\ recovery' = [c \in RecoveryCodes |-> "none"]
    /\ IF holds[r] # None THEN Accept(holds[r]) ELSE UNCHANGED accepted
    /\ Close(r)
    /\ UNCHANGED <<now, challenges, resets, issued, mark>>

\* A failing commit (of a confirmation: the row is gone by then) or a lost
\* request: what Redis was told stays done.
Fail(r) ==
    /\ pc[r] \in {"confirming", "passed", "resetting"}
    /\ Close(r)
    /\ UNCHANGED <<now, totp, secret, recovery, challenges, resets, issued, mark, accepted>>

\* request_password_reset(): over the limit it is dropped without a word, which
\* here is no step.
RequestReset(t) ==
    /\ t \in Resets \ issued
    /\ resets' = resets \cup {t}
    /\ issued' = issued \cup {t}
    /\ UNCHANGED <<now, totp, secret, recovery, challenges, mark, pc, purpose, holds, accepted>>

\* reset_password(): the token is consumed before the password is written.
ConsumeReset(r, t) ==
    /\ pc[r] = "idle"
    /\ t \in resets
    /\ resets' = resets \ {t}
    /\ At(r, "resetting", "reset", t)
    /\ UNCHANGED <<now, totp, secret, recovery, challenges, issued, mark, accepted>>

CommitReset(r) ==
    /\ pc[r] = "resetting"
    /\ Accept(holds[r])
    /\ Close(r)
    /\ UNCHANGED <<now, totp, secret, recovery, challenges, resets, issued, mark>>

\* TTLs of tokens, and the clock.
TokenEnds(t) ==
    /\ t \in challenges \cup resets
    /\ challenges' = challenges \ {t}
    /\ resets' = resets \ {t}
    /\ UNCHANGED <<now, totp, secret, recovery, issued, mark, pc, purpose, holds, accepted>>

Tick ==
    /\ now < MaxTime
    /\ now' = now + 1
    /\ UNCHANGED <<totp, secret, recovery, challenges, resets, issued, mark,
                   pc, purpose, holds, accepted>>

Next ==
    \/ Tick
    \/ \E t \in Challenges : IssueChallenge(t)
    \/ \E t \in Resets : RequestReset(t)
    \/ \E t \in Challenges \cup Resets : TokenEnds(t)
    \/ \E r \in Requests :
        \/ EnableRead(r) \/ EnableWrite(r) \/ StartDisable(r)
        \/ ConfirmRead(r) \/ \E c \in RecoveryCodes : ConfirmWrite(r, c)
        \/ \E t \in Challenges : ConsumeChallenge(r, t)
        \/ VerifyCode(r) \/ CheckAndMark(r) \/ SpendRecovery(r) \/ Commit(r) \/ Fail(r)
        \/ \E t \in Resets : ConsumeReset(r, t)
        \/ CommitReset(r)

Spec == Init /\ [][Next]_vars

\* Every one-time credential signs in, resets or disables at most once, however
\* requests overlap: a challenge and a reset token (EphemeralTokenStore.consume),
\* a recovery code (the compare-and-set), a TOTP code for as long as it is valid
\* (TotpReplayGuard).  The code that confirmed an enrolment is not counted as
\* accepted by that: confirm_totp passes the guard by, and one later use is open.
SpentOnce == \A c \in DOMAIN accepted : accepted[c] <= 1
=============================================================================
