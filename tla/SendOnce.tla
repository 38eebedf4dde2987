------------------------------ MODULE SendOnce ------------------------------
(***************************************************************************)
(* NotificationService.send with a dedup_key (core/notifications/          *)
(* service.py), called from several transactions at once: the lookup by    *)
(* key, the insert under the unique index, and what the caller gets.       *)
(* Callers are bus handlers and requests: a failed handler runs again.     *)
(*                                                                         *)
(* External: PostgreSQL and SQLAlchemy.  The insert waits for a concurrent *)
(* insert of the same key and fails if that one commits; a failed flush    *)
(* leaves the session's transaction aborted, so that every further         *)
(* statement on it raises.                                                 *)
(***************************************************************************)
EXTENDS Naturals, FiniteSets

CONSTANTS
    Callers,        \* transactions that send under the one key
    Channels,       \* the channels the recipient has an address for
    MaxFailures,    \* bound on transactions that fail for other reasons
    None

VARIABLES
    table,      \* table[ch]: the committed row of the key, by its notification_id
    pc,         \* where each caller's transaction stands
    answer,     \* what send returned to each caller
    failures

vars == <<table, pc, answer, failures>>

\* The notification_id a caller would create is named by the caller.
Init ==
    /\ table = [ch \in Channels |-> None]
    /\ pc = [c \in Callers |-> "start"]
    /\ answer = [c \in Callers |-> None]
    /\ failures = 0

Existing == {table[ch] : ch \in Channels} \ {None}

\* notification_id_for_dedup: return what is there, else go on to insert.
Lookup(c) ==
    /\ pc[c] = "start"
    /\ IF Existing # {}
       THEN /\ \E id \in Existing : answer' = [answer EXCEPT ![c] = id]
            /\ pc' = [pc EXCEPT ![c] = "commit"]
       ELSE /\ pc' = [pc EXCEPT ![c] = "insert"]
            /\ UNCHANGED answer
    /\ UNCHANGED <<table, failures>>

\* Some other transaction holds an uncommitted row of the key.
KeyBusy(c) == \E d \in Callers \ {c} : pc[d] = "commit" /\ answer[d] = d

\* add_all: one row per channel.  On IntegrityError the key is looked up again
\* on the aborted transaction, which raises; the caller's transaction fails.
Insert(c) ==
    /\ pc[c] = "insert"
    /\ ~KeyBusy(c)
    /\ IF Existing = {}
       THEN answer' = [answer EXCEPT ![c] = c] /\ pc' = [pc EXCEPT ![c] = "commit"]
       ELSE pc' = [pc EXCEPT ![c] = "raised"] /\ UNCHANGED answer
    /\ UNCHANGED <<table, failures>>

\* The caller's transaction commits.
Commit(c) ==
    /\ pc[c] = "commit"
    /\ table' = IF answer[c] = c THEN [ch \in Channels |-> c] ELSE table
    /\ pc' = [pc EXCEPT ![c] = "done"]
    /\ UNCHANGED <<answer, failures>>

\* It fails for a reason of its own and rolls back.
Fail(c) ==
    /\ pc[c] \in {"insert", "commit"}
    /\ failures < MaxFailures /\ failures' = failures + 1
    /\ pc' = [pc EXCEPT ![c] = "raised"]
    /\ answer' = [answer EXCEPT ![c] = None]
    /\ UNCHANGED table

\* Mutant: the failed delivery is not tried again.
Mut_Retry(c) == FALSE /\ UNCHANGED vars

\* The dispatcher runs the failed handler again.
Retry(c) ==
    /\ pc[c] = "raised"
    /\ pc' = [pc EXCEPT ![c] = "start"]
    /\ UNCHANGED <<table, answer, failures>>

Call(c) == Lookup(c) \/ Insert(c) \/ Commit(c) \/ Retry(c)

Next == \E c \in Callers : Call(c) \/ Fail(c)

Spec == Init /\ [][Next]_vars

----------------------------------------------------------------------------
(* Properties *)

Fairness == \A c \in Callers : WF_vars(Call(c))
FairSpec == Spec /\ Fairness

\* One key, one message: every caller comes back in the end, the loser of a race
\* on its retry, and from then on holds the notification_id of the only
\* notification that was committed (NotificationService.send).
EveryCallerIsAnswered ==
    <>[](\A c \in Callers : pc[c] = "done" /\ Existing = {answer[c]})

\* "Concurrent send with the same dedup_key won the unique index; reuse it"
\* (service.py): a send is never refused because another one was faster.
LoserReusesWinner ==
    \A c \in Callers : failures = 0 => pc[c] # "raised"
=============================================================================
