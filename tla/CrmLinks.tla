------------------------------ MODULE CrmLinks ------------------------------
(***************************************************************************)
(* Links between the CRM features (modules/crm): a contact belongs to a    *)
(* company by foreign key; deals and activities hold ids by value, which   *)
(* are validated when they are set and cleared by the subscribers of the   *)
(* deletion events.  There is one row of each kind, so a row's links are a *)
(* set of kinds.                                                           *)
(***************************************************************************)
EXTENDS Naturals, FiniteSets

CONSTANTS
    Requests,
    MaxPatch,   \* bound on the links one update sets and clears
    None

VARIABLES
    rows,       \* the kinds whose row exists
    dead,       \* the kinds whose row was deleted
    links,      \* the committed links of each row
    queue,      \* deliveries: <<subscribing kind, deleted kind>>
    pc, work,   \* a request, and the row and links it has read and is to write
    clean       \* history: kinds deleted while no request was about to link them

vars == <<rows, dead, links, queue, pc, work, clean>>

Kinds == {"company", "contact", "deal", "activity"}
Fields == [company |-> {}, contact |-> {"company"}, deal |-> {"contact", "company"},
           activity |-> {"contact", "company", "deal"}]
\* The subscribers of each deletion event.
Subscribers == [company |-> {"deal", "activity"}, contact |-> {"deal", "activity"},
                deal |-> {"activity"}, activity |-> {}]

Init ==
    /\ rows = {} /\ dead = {}
    /\ links = [k \in Kinds |-> {}]
    /\ queue = {}
    /\ pc = [r \in Requests |-> "idle"]
    /\ work = [r \in Requests |-> None]
    /\ clean = {}

Frame == UNCHANGED <<rows, dead, links, queue, clean>>

\* _validate_links: each link is checked through the sibling's service.
Valid(set) == set \subseteq rows

CreateRead(r, k, set) ==
    /\ pc[r] = "idle"
    /\ k \notin rows \cup dead
    /\ Valid(set)
    /\ pc' = [pc EXCEPT ![r] = "creating"]
    /\ work' = [work EXCEPT ![r] = [kind |-> k, read |-> {}, set |-> set, clear |-> {}]]
    /\ Frame

\* The row is read, the links to be set are validated.
UpdateRead(r, k, set, clear) ==
    /\ pc[r] = "idle"
    /\ k \in rows
    /\ Valid(set)
    /\ pc' = [pc EXCEPT ![r] = "updating"]
    /\ work' = [work EXCEPT ![r] = [kind |-> k, read |-> links[k], set |-> set, clear |-> clear]]
    /\ Frame

CreateCompany(r) == CreateRead(r, "company", {})
CreateContact(r) == \E set \in SUBSET Fields["contact"] : CreateRead(r, "contact", set)
CreateDeal(r) == \E set \in SUBSET Fields["deal"] : CreateRead(r, "deal", set)
CreateActivity(r) == \E set \in SUBSET Fields["activity"] : CreateRead(r, "activity", set)

\* A patch sets some links and clears others; a link that is set is not cleared.
Patches(k) == {p \in (SUBSET Fields[k]) \X (SUBSET Fields[k]) :
                   p[1] \cap p[2] = {} /\ Cardinality(p[1] \cup p[2]) <= MaxPatch}

UpdateCompany(r) == UpdateRead(r, "company", {}, {})
\* None leaves the company as it is: this route cannot clear it.
UpdateContact(r) == \E set \in SUBSET Fields["contact"] : UpdateRead(r, "contact", set, {})
UpdateDeal(r) == \E p \in Patches("deal") : UpdateRead(r, "deal", p[1], p[2])
UpdateActivity(r) == \E p \in Patches("activity") : UpdateRead(r, "activity", p[1], p[2])

\* complete() and reopen() write the status only.
CompleteActivity(r) == UpdateRead(r, "activity", {}, {})
ReopenActivity(r) == UpdateRead(r, "activity", {}, {})

\* Only the foreign key of a contact is checked again by the write.
Refused(w) == w.kind = "contact" /\ ~(w.set \subseteq rows)

WriteLinks(r, new) ==
    LET w == work[r] IN
    /\ pc[r] \in {"creating", "updating"}
    /\ \/ /\ pc[r] = "creating" /\ w.kind \notin rows \cup dead /\ ~Refused(w)
          /\ rows' = rows \cup {w.kind}
          /\ links' = [links EXCEPT ![w.kind] = w.set]
       \/ /\ pc[r] = "updating" /\ w.kind \in rows /\ ~Refused(w)
          /\ links' = [links EXCEPT ![w.kind] = new]
          /\ UNCHANGED rows
       \/ /\ Refused(w) \/ (pc[r] = "updating" /\ w.kind \notin rows)
                        \/ (pc[r] = "creating" /\ w.kind \in rows \cup dead)
          /\ UNCHANGED <<rows, links>>
    /\ pc' = [pc EXCEPT ![r] = "idle"]
    /\ work' = [work EXCEPT ![r] = None]
    /\ UNCHANGED <<dead, queue, clean>>

\* Mutant: the update writes every column back as it was read.
Mut_Write(r) == WriteLinks(r, (work[r].read \ work[r].clear) \cup work[r].set)

\* The ORM writes the columns that differ from what was read.
Write(r) ==
    WriteLinks(r, (links[work[r].kind] \ (work[r].clear \cap work[r].read))
                    \cup (work[r].set \ work[r].read))

\* A request that has validated a link to k and not written it.
AboutToLink(r, k) == pc[r] # "idle" /\ k \in work[r].set

\* The event is published after the commit, one delivery for each subscriber.
Delete(k, unassigned) ==
    /\ k \in rows
    /\ rows' = rows \ {k}
    /\ dead' = dead \cup {k}
    /\ links' = [j \in Kinds |-> IF j = k THEN {}
                                ELSE IF j \in unassigned THEN links[j] \ {k} ELSE links[j]]
    /\ queue' = queue \cup {<<s, k>> : s \in Subscribers[k]}
    /\ clean' = IF \A r \in Requests : ~AboutToLink(r, k) THEN clean \cup {k} ELSE clean
    /\ UNCHANGED <<pc, work>>

\* The foreign key un-assigns the contacts of a deleted company.
DeleteCompany == Delete("company", {"contact"})
DeleteContact == Delete("contact", {})
DeleteDeal == Delete("deal", {})
DeleteActivity == Delete("activity", {})

\* unlink: the rows with the link are locked and cleared.
Unlink(s, k) ==
    /\ <<s, k>> \in queue
    /\ queue' = queue \ {<<s, k>>}
    /\ links' = [links EXCEPT ![s] = @ \ {k}]
    /\ UNCHANGED <<rows, dead, pc, work, clean>>

\* The subscribers of the deals and of the activities.
UnlinkDeals == \E k \in {"company", "contact"} : Unlink("deal", k)
UnlinkActivities == \E k \in {"company", "contact", "deal"} : Unlink("activity", k)

Next ==
    \/ DeleteCompany \/ DeleteContact \/ DeleteDeal \/ DeleteActivity
    \/ UnlinkDeals \/ UnlinkActivities
    \/ \E r \in Requests :
        \/ CreateCompany(r) \/ CreateContact(r) \/ CreateDeal(r) \/ CreateActivity(r)
        \/ UpdateCompany(r) \/ UpdateContact(r) \/ UpdateDeal(r) \/ UpdateActivity(r)
        \/ CompleteActivity(r) \/ ReopenActivity(r)
        \/ Write(r)

Spec == Init /\ [][Next]_vars

\* A link to a deleted row is one whose clearing event is still to be handled (the
\* worker handles it in the end, module ReliableBus), also in rows that are being
\* updated meanwhile, unless a request had validated that very link before the
\* deletion and wrote it afterwards (_validate_links, _unlink, update).
LinksAreCleared ==
    \A k \in Kinds : \A t \in links[k] \cap clean : <<k, t>> \in queue
=============================================================================
