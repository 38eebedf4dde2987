---------------------------- MODULE Resilience ----------------------------
(***************************************************************************)
(* A notification channel behind shared/resilience.py: each send runs its  *)
(* operation through call_resilient, which retries and consults the        *)
(* circuit breaker the channel's sends share.  The Eskiz channel also      *)
(* shares a bearer token, fetched when there is none and dropped on a 401. *)
(*                                                                         *)
(* Sends are coroutines of one process, so a step is what happens between  *)
(* two awaits.  There is no clock: `recovered' says that recovery_time has *)
(* passed since the breaker opened.  While `up' holds the provider answers *)
(* without a transient error; a 4xx is possible at any time.               *)
(***************************************************************************)
EXTENDS Naturals

CONSTANTS Sends,          \* coroutines that send, one message after another
          Attempts,       \* RetryPolicy.attempts
          Threshold,      \* CircuitBreaker.failure_threshold
          None

VARIABLES channel,        \* which channel this is; fixed
          state, failures, recovered,     \* the breaker
          token,          \* Eskiz: None, "good" or "stale"
          up,             \* the provider's health
          pc, attempt,    \* where each send is, and in which attempt
          bearer,         \* the token a request in flight carries
          refused         \* the last send ended in CircuitOpenError

vars == <<channel, state, failures, recovered, token, up, pc, attempt, bearer,
          refused>>
breaker == <<state, failures, recovered>>

ChannelKinds == {"sms_eskiz", "telegram", "email"}

Init == /\ channel \in ChannelKinds
        /\ state = "closed" /\ failures = 0 /\ recovered = FALSE
        /\ token = None /\ up = TRUE
        /\ pc = [s \in Sends |-> "idle"]
        /\ attempt = [s \in Sends |-> 1]
        /\ bearer = [s \in Sends |-> None]
        /\ refused = [s \in Sends |-> FALSE]

Goto(s, place) == pc' = [pc EXCEPT ![s] = place]

\* The send returns or raises, and its local variables are gone.
End(s) == /\ Goto(s, "idle")
          /\ attempt' = [attempt EXCEPT ![s] = 1]
          /\ bearer' = [bearer EXCEPT ![s] = None]

\* channel.send: a new message.  A channel without credentials is dormant: it
\* answers at once, touches none of this state, and is left out.
Send(s) ==
    /\ pc[s] = "idle"
    /\ Goto(s, "ready")
    /\ refused' = [refused EXCEPT ![s] = FALSE]
    /\ UNCHANGED <<channel, breaker, token, up, attempt, bearer>>

\* A message is rejected before any attempt: a number that is no UZ number.
NormalizeFails(s) ==
    /\ channel = "sms_eskiz" /\ pc[s] = "idle"
    /\ End(s)
    /\ refused' = [refused EXCEPT ![s] = FALSE]
    /\ UNCHANGED <<channel, breaker, token, up>>

\* allow(): open turns into half_open once recovery_time has passed, and a
\* half-open breaker lets every caller through.
Probing == state = "open" /\ recovered
\* A breaker that lets a single probe through while half-open.
Mut_Allows == state = "closed" \/ Probing

Allows == state # "open" \/ Probing
Allow == state' = IF Probing THEN "half_open" ELSE state

RecordSuccess == /\ failures' = 0
                 /\ state' = "closed"
                 /\ UNCHANGED recovered

\* record_failure(); the counter saturates at the threshold, where it opens
\* the breaker whatever its value.
RecordFailure ==
    LET n == IF failures < Threshold THEN failures + 1 ELSE failures IN
    /\ failures' = n
    /\ IF state = "half_open" \/ n >= Threshold
       THEN state' = "open" /\ recovered' = FALSE
       ELSE UNCHANGED <<state, recovered>>

RecoveryTimeEnds ==
    /\ state = "open" /\ ~recovered
    /\ recovered' = TRUE
    /\ UNCHANGED <<channel, state, failures, token, up, pc, attempt, bearer,
                   refused>>

\* _ensure_token: the cached token, or a login.
EnsureToken(s, cached, login, post) ==
    IF cached = None
    THEN Goto(s, login) /\ UNCHANGED bearer
    ELSE Goto(s, post) /\ bearer' = [bearer EXCEPT ![s] = cached]

\* The head of the retry loop: the breaker is asked again in every attempt.
StartAttempt(s) ==
    /\ pc[s] = "ready" /\ Allows
    /\ Allow
    /\ IF channel = "sms_eskiz"
       THEN EnsureToken(s, token, "login", "post")
       ELSE Goto(s, "post") /\ UNCHANGED bearer
    /\ UNCHANGED <<channel, failures, recovered, token, up, attempt, refused>>

CircuitOpen(s) ==
    /\ pc[s] = "ready" /\ ~Allows
    /\ End(s)
    /\ refused' = [refused EXCEPT ![s] = TRUE]
    /\ UNCHANGED <<channel, breaker, token, up>>

\* The operation raised a transient error, the timeout included: sleep and
\* try again, or give up.
Transient(s) ==
    /\ RecordFailure
    /\ IF attempt[s] < Attempts
       THEN /\ Goto(s, "ready")
            /\ attempt' = [attempt EXCEPT ![s] = @ + 1]
            /\ bearer' = [bearer EXCEPT ![s] = None]
       ELSE End(s)
    /\ UNCHANGED refused

\* Any other error leaves call_resilient at once; the breaker hears nothing.
Permanent(s) == End(s) /\ UNCHANGED <<breaker, refused>>

\* The login request is answered: a token, a transient error, or a 4xx.
Login(s) ==
    /\ pc[s] \in {"login", "relogin"}
    /\ \/ /\ token' = "good"
          /\ bearer' = [bearer EXCEPT ![s] = "good"]
          /\ Goto(s, IF pc[s] = "login" THEN "post" ELSE "repost")
          /\ UNCHANGED <<breaker, attempt, refused>>
       \/ ~up /\ Transient(s) /\ UNCHANGED token
       \/ Permanent(s) /\ UNCHANGED token
    /\ UNCHANGED <<channel, up>>

\* The message is accepted; or the attempt fails, whether or not the provider
\* took the message before its answer was lost; or it is refused.
Deliver(s) ==
    \/ RecordSuccess /\ End(s) /\ UNCHANGED refused
    \/ ~up /\ Transient(s)
    \/ Permanent(s)

\* A 401 drops the shared token, whoever has refreshed it meanwhile, and posts
\* once more with a new one.
Unauthorized(s) ==
    /\ token' = None
    /\ EnsureToken(s, None, "relogin", "repost")
    /\ UNCHANGED <<breaker, attempt, refused>>

\* The response to the first post of an operation, and to the second: a 401
\* there is an ordinary 4xx.
PostSms(s) ==
    /\ channel = "sms_eskiz" /\ pc[s] \in {"post", "repost"}
    /\ IF bearer[s] = "good" THEN Deliver(s) /\ UNCHANGED token
       ELSE \/ pc[s] = "post" /\ Unauthorized(s)
            \/ pc[s] = "repost" /\ Permanent(s) /\ UNCHANGED token
            \/ ~up /\ Transient(s) /\ UNCHANGED token
    /\ UNCHANGED <<channel, up>>

TelegramSend(s) ==
    /\ channel = "telegram" /\ pc[s] = "post"
    /\ Deliver(s)
    /\ UNCHANGED <<channel, token, up>>

\* The SMTP session runs in a thread that a timeout leaves behind: the message
\* may still be taken after the attempt has failed.
EmailDeliver(s) ==
    /\ channel = "email" /\ pc[s] = "post"
    /\ Deliver(s)
    /\ UNCHANGED <<channel, token, up>>

\* The job running the send is cancelled: CancelledError passes through.
Cancel(s) ==
    /\ pc[s] # "idle"
    /\ End(s)
    /\ UNCHANGED <<channel, breaker, token, up, refused>>

\* Eskiz ends the validity of the tokens it has issued.
TokenExpires ==
    /\ channel = "sms_eskiz"
    /\ token = "good" \/ \E s \in Sends : bearer[s] = "good"
    /\ token' = IF token = "good" THEN "stale" ELSE token
    /\ bearer' = [s \in Sends |-> IF bearer[s] = "good" THEN "stale" ELSE bearer[s]]
    /\ UNCHANGED <<channel, breaker, up, pc, attempt, refused>>

ChangeHealth ==
    /\ up' = ~up
    /\ UNCHANGED <<channel, breaker, token, pc, attempt, bearer, refused>>

Step(s) == \/ Send(s) \/ StartAttempt(s) \/ CircuitOpen(s)
           \/ Login(s) \/ PostSms(s) \/ TelegramSend(s) \/ EmailDeliver(s)

Next == \/ \E s \in Sends : Step(s) \/ NormalizeFails(s) \/ Cancel(s)
        \/ RecoveryTimeEnds \/ TokenExpires \/ ChangeHealth

\* Messages keep coming, coroutines run, time passes.
Fairness == /\ \A s \in Sends : WF_vars(Step(s))
            /\ WF_vars(RecoveryTimeEnds)

Spec == Init /\ [][Next]_vars /\ Fairness
---------------------------------------------------------------------------
\* When the provider is up for good, calls are refused only for a while: the
\* breaker never keeps a healthy channel shut, whatever cancelled probes and
\* permanent errors left behind.
Recovers == <>[]up => <>[](\A s \in Sends : ~refused[s])
=============================================================================
