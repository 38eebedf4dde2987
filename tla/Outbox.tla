------------------------------- MODULE Outbox -------------------------------
(***************************************************************************)
(* The notification outbox and its dispatcher (core/notifications:         *)
(* dispatcher.py, sms_cap.py, retention.py).  Several dispatch passes may  *)
(* run at once: the cron job starts one every 15 seconds, and a pass sends *)
(* its whole batch, row by row, on leases taken when it began.             *)
(*                                                                         *)
(* There is no clock: FallDue lets next_retry_at pass, whether it is a     *)
(* backoff or the lease of a pass that is still working, at any time (the  *)
(* overruns of live passes are bounded by MaxFaults).                      *)
(* External: the channel.  It may deliver and still report a failure.  One *)
(* that is not configured is dormant: its send reports success and sends   *)
(* nothing.  The channel is resolved anew for each attempt, from settings  *)
(* the tenant may change in between.                                       *)
(***************************************************************************)
EXTENDS Naturals, FiniteSets, SequencesExt

CONSTANTS
    Rows,           \* outbox rows, one per message and channel
    Sms,            \* the rows of the sms_eskiz channel
    Passes,         \* concurrent dispatch passes
    Batch,          \* rows per pass
    MaxAttempts,    \* notification_max_attempts
    Cap,            \* sms_daily_cap_per_tenant; 0 is unlimited
    MaxFaults       \* bound on crashes, unexpected errors and overrun leases

ASSUME OutboxAssumption ==
    /\ Sms \subseteq Rows
    /\ IsFiniteSet(Rows)
    /\ Batch \in Nat \ {0} /\ MaxAttempts \in Nat \ {0}
    /\ Cap \in Nat /\ MaxFaults \in Nat

VARIABLES
    row,        \* the notification_outbox table
    pass,       \* pass[w]: where pass w stands
    delivered,  \* rows the channel has delivered at least once
    skipped,    \* rows a dormant channel has swallowed
    count,      \* the Redis counter of the day
    texted,     \* SMS handed to the channel
    faults

vars == <<row, pass, delivered, skipped, count, texted, faults>>

DueStates == {"pending", "failed", "sending"}
TerminalStates == {"sent", "dead"}

\* A pass: the rows it has locked, with the attempts it read, then the rows it
\* still has to send.
Idle == [pc |-> "idle", locked |-> <<>>, left |-> <<>>, verdict |-> "none"]

Init ==
    /\ row = [r \in Rows |-> [status |-> "none", attempts |-> 0, due |-> FALSE]]
    /\ pass = [w \in Passes |-> Idle]
    /\ delivered = {}
    /\ skipped = {}
    /\ count = 0
    /\ texted = 0
    /\ faults = 0

\* NotificationService.send, for one of its rows: due at once.
Send(r) ==
    /\ row[r].status = "none"
    /\ row' = [row EXCEPT ![r] = [status |-> "pending", attempts |-> 0, due |-> TRUE]]
    /\ UNCHANGED <<pass, delivered, skipped, count, texted, faults>>

\* A live pass works on, or has yet to reach, the row it leased.
AtWork(r) ==
    \E w \in Passes : \E i \in DOMAIN pass[w].left :
        pass[w].left[i] = [id |-> r, attempts |-> row[r].attempts]

\* next_retry_at passes: a backoff, the lease of a dead pass, or the lease of a
\* pass that is too slow.
FallDue(r) ==
    /\ row[r].status \in DueStates /\ ~row[r].due
    /\ row' = [row EXCEPT ![r].due = TRUE]
    /\ IF row[r].status = "sending" /\ AtWork(r)
       THEN faults < MaxFaults /\ faults' = faults + 1
       ELSE UNCHANGED faults
    /\ UNCHANGED <<pass, delivered, skipped, count, texted>>

----------------------------------------------------------------------------
(* One dispatch pass *)

Due == {r \in Rows : row[r].status \in DueStates /\ row[r].due}

Locked == UNION {DOMAIN pass[w].locked : w \in Passes}

\* Mutant: SELECT without FOR UPDATE.
Mut_Claimable == Due

\* FOR UPDATE SKIP LOCKED.
Claimable == Due \ Locked

\* _claim_batch, the select: as many rows as the batch takes.
Select(w) ==
    /\ pass[w].pc = "idle"
    /\ Claimable # {}
    /\ \E B \in SUBSET Claimable :
        /\ Cardinality(B) = Min({Batch, Cardinality(Claimable)})
        /\ pass' = [pass EXCEPT ![w] = [Idle EXCEPT !.pc = "claim",
                                         !.locked = [r \in B |-> row[r].attempts]]]
    /\ UNCHANGED <<row, delivered, skipped, count, texted, faults>>

\* Mutant: claims without counting the attempt.
Mut_Leased(n) == [status |-> "sending", attempts |-> n, due |-> FALSE]

\* What a claim writes: a lease and one more attempt than it read.
Leased(n) == [status |-> "sending", attempts |-> n + 1, due |-> FALSE]

\* _claim_batch, flush and commit.
Claim(w) ==
    /\ pass[w].pc = "claim"
    /\ LET read == pass[w].locked  lease == [r \in DOMAIN read |-> Leased(read[r])] IN
        /\ row' = lease @@ row
        /\ \E order \in SetToSeqs(DOMAIN read) :
            pass' = [pass EXCEPT ![w] =
                [Idle EXCEPT !.pc = "prepare",
                             !.left = [i \in DOMAIN order |->
                                [id |-> order[i], attempts |-> lease[order[i]].attempts]]]]
    /\ UNCHANGED <<delivered, skipped, count, texted, faults>>

Current(w) == Head(pass[w].left)

\* The next row of the batch, or the end of the pass.
Advance(w) ==
    pass' = [pass EXCEPT ![w] =
        IF Len(pass[w].left) = 1 THEN Idle
        ELSE [Idle EXCEPT !.pc = "prepare", !.left = Tail(pass[w].left)]]

Decide(w, verdict) == pass' = [pass EXCEPT ![w].pc = "write", ![w].verdict = verdict]

\* Mutant: counts after comparing.
Mut_WithinCap(n) == Cap = 0 \/ n <= Cap + 1

\* SmsDailyCap.try_consume: INCR, then compare the value it returned.
WithinCap(n) == Cap = 0 \/ n <= Cap

\* The INCR of try_consume, which an unlimited tenant is spared.
Consume == count' = IF Cap = 0 THEN count ELSE count + 1

\* channel.send of a dormant channel: a no-op, without an await, that returns as
\* a success does.
DormantSend(w) == Decide(w, "sent") /\ skipped' = skipped \cup {Current(w).id}

\* _process_row up to the send.  An unknown template is dead; a dormant channel
\* is asked to send all the same, and spends nothing; an SMS over the cap is dead.
Prepare(w) ==
    /\ pass[w].pc = "prepare"
    /\ LET r == Current(w).id IN
        \/ Decide(w, "dead") /\ UNCHANGED <<count, texted, skipped>>
        \/ DormantSend(w) /\ UNCHANGED <<count, texted>>
        \/ /\ r \in Sms
           /\ Consume
           /\ IF WithinCap(count')
              THEN pass' = [pass EXCEPT ![w].pc = "send"] /\ texted' = texted + 1
              ELSE Decide(w, "dead") /\ UNCHANGED texted
           /\ UNCHANGED skipped
        \/ /\ r \notin Sms
           /\ pass' = [pass EXCEPT ![w].pc = "send"]
           /\ UNCHANGED <<count, texted, skipped>>
    /\ UNCHANGED <<row, delivered, faults>>

\* A temporary failure of the n-th attempt.
AfterFailure(n) == IF n >= MaxAttempts THEN "dead" ELSE "failed"

\* channel.send of a configured channel: success, a permanent error, or a
\* temporary one; a temporary error (a timeout) does not say whether the message
\* went out.
Deliver(w) ==
    /\ pass[w].pc = "send"
    /\ \/ Decide(w, "sent") /\ delivered' = delivered \cup {Current(w).id}
       \/ Decide(w, "dead") /\ UNCHANGED delivered
       \/ /\ Decide(w, AfterFailure(Current(w).attempts))
          /\ delivered' \in {delivered, delivered \cup {Current(w).id}}
    /\ UNCHANGED <<row, skipped, count, texted, faults>>

\* _mark_sent, _reschedule and _dead: the row is re-read by id and overwritten,
\* whatever another pass has made of it; a purged row is left alone.
Write(w) ==
    /\ pass[w].pc = "write"
    /\ Current(w).id \notin Locked
    /\ row' = [row EXCEPT ![Current(w).id] =
            IF @.status = "purged" THEN @
            ELSE [@ EXCEPT !.status = pass[w].verdict,
                           !.due = IF pass[w].verdict = "failed" THEN FALSE ELSE @]]
    /\ Advance(w)
    /\ UNCHANGED <<delivered, skipped, count, texted, faults>>

\* Any other error before or after the send (the channel config cannot be
\* decrypted, Redis or the database is away): logged, and the row is left to its
\* lease.
Unexpected(w) ==
    /\ pass[w].pc \in {"prepare", "write"}
    /\ faults < MaxFaults /\ faults' = faults + 1
    /\ Advance(w)
    /\ \/ UNCHANGED count
       \/ pass[w].pc = "prepare" /\ Current(w).id \in Sms /\ Consume
    /\ UNCHANGED <<row, delivered, skipped, texted>>

\* The worker dies; the rest of its batch waits for the leases.
Crash(w) ==
    /\ pass[w].pc # "idle"
    /\ faults < MaxFaults /\ faults' = faults + 1
    /\ pass' = [pass EXCEPT ![w] = Idle]
    /\ UNCHANGED <<row, delivered, skipped, count, texted>>

\* purge_expired_notifications: a terminal row past the retention horizon.
Purge(r) ==
    /\ row[r].status \in TerminalStates
    /\ row' = [row EXCEPT ![r].status = "purged"]
    /\ UNCHANGED <<pass, delivered, skipped, count, texted, faults>>

Step(w) == Select(w) \/ Claim(w) \/ Prepare(w) \/ Deliver(w) \/ Write(w)

Next ==
    \/ \E r \in Rows : Send(r) \/ FallDue(r) \/ Purge(r)
    \/ \E w \in Passes : Step(w) \/ Unexpected(w) \/ Crash(w)

Spec == Init /\ [][Next]_vars

----------------------------------------------------------------------------
(* Properties *)

TypeOK ==
    /\ row \in [Rows -> [status : DueStates \cup TerminalStates \cup {"none", "purged"},
                         attempts : Nat, due : BOOLEAN]]
    /\ DOMAIN pass = Passes
    /\ \A w \in Passes : \E B \in SUBSET Rows :
        pass[w] \in [pc : {"idle", "claim", "prepare", "send", "write"},
                    locked : [B -> Nat],
                    left : Seq([id : Rows, attempts : Nat]),
                    verdict : {"none", "sent", "failed", "dead"}]
    /\ delivered \subseteq Rows /\ skipped \subseteq Rows
    /\ count \in Nat /\ texted \in Nat /\ faults \in 0..MaxFaults

\* No attempt is made twice: two passes never work on the same attempt of a row,
\* so a row is sent again only after its lease or its backoff has passed.
OnePassPerAttempt ==
    \A v, w \in Passes :
        \A i \in DOMAIN pass[v].left, j \in DOMAIN pass[w].left :
            v # w => pass[v].left[i] # pass[w].left[j]

\* Concurrent passes never let more SMS through than the daily cap ("it never
\* lets more than the cap through", sms_cap.py).
CapHolds == Cap > 0 => texted <= Cap

\* Leases and backoffs pass, and the cron job keeps starting passes, which run
\* to their end.
Fairness ==
    /\ \A r \in Rows : WF_vars(FallDue(r))
    /\ \A w \in Passes : WF_vars(Step(w))

FairSpec == Spec /\ Fairness

\* Every queued message comes to rest, even when passes crash or overtake each
\* other ("no permanently stuck rows"): dead, or sent, and no row is called sent
\* unless some attempt of it was delivered or met a dormant channel, whose send
\* is "a logged no-op, never an error".
RowsComeToRest ==
    \A r \in Rows :
        row[r].status \in DueStates
            ~> \/ row[r].status = "sent" /\ r \in delivered \cup skipped
               \/ row[r].status \in {"dead", "purged"}
=============================================================================
