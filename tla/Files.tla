------------------------------- MODULE Files -------------------------------
(***************************************************************************)
(* Stored files (core/files/service.py) and the product images built from  *)
(* them (modules/commerce/product_images/service.py).  A file is a row in  *)
(* the database and an object in the storage backend; the transaction      *)
(* covers the row only.  A storage call that fails may have taken effect.  *)
(***************************************************************************)
EXTENDS Naturals, Sequences, SequencesExt

CONSTANTS
    FileIds, Images, Requests,
    MaxFaults,      \* bound on failing storage calls and commits
    None

VARIABLES
    rows,       \* committed rows of files
    objects,    \* objects in the storage backend
    image,      \* committed rows of product images: <<thumbnail, original>>
    pc,
    todo,       \* the files a request has still to store or to delete
    mine,       \* the rows it has inserted or deleted and not committed
    link,       \* the image row it inserts or deletes, with its files
    ever,       \* history: files whose row was ever committed
    broken,     \* history: files whose object a failed request had touched
    faults

vars == <<rows, objects, image, pc, todo, mine, link, ever, broken, faults>>

Init ==
    /\ rows = {} /\ objects = {}
    /\ image = [i \in Images |-> None]
    /\ pc = [r \in Requests |-> "idle"]
    /\ todo = [r \in Requests |-> <<>>]
    /\ mine = [r \in Requests |-> {}]
    /\ link = [r \in Requests |-> None]
    /\ ever = {} /\ broken = {}
    /\ faults = 0

Deleting == {"checking", "removing", "deleting", "deleted"}
Unused(f) ==
    /\ f \notin ever \cup broken
    /\ \A r \in Requests : f \notin mine[r] \cup ToSet(todo[r])
\* A file row, or an image row, another request has deleted and not committed.
Locked(r, f) == \E q \in Requests \ {r} : pc[q] \in Deleting /\ f \in mine[q]
LinkLocked(r, i) ==
    \E q \in Requests \ {r} : pc[q] \in Deleting /\ link[q] # None /\ link[q][1] = i

At(r, place, files, own, i) ==
    /\ pc' = [pc EXCEPT ![r] = place]
    /\ todo' = [todo EXCEPT ![r] = files]
    /\ mine' = [mine EXCEPT ![r] = own]
    /\ link' = [link EXCEPT ![r] = i]
Close(r) == At(r, "idle", <<>>, {}, None)

\* upload(): size and content are checked, then the row is inserted.
Upload(r, f) ==
    /\ pc[r] = "idle"
    /\ Unused(f)
    /\ At(r, "putting", <<f>>, {f}, None)
    /\ UNCHANGED <<rows, objects, image, ever, broken, faults>>

\* attach(): an upload, and a second one of the thumbnail made from the first.
Attach(r, i, f, t) ==
    /\ pc[r] = "idle"
    /\ image[i] = None /\ \A q \in Requests : link[q] # None => link[q][1] # i
    /\ f # t /\ Unused(f) /\ Unused(t)
    /\ At(r, "putting", <<f, t>>, {f}, <<i, <<t, f>>>>)
    /\ UNCHANGED <<rows, objects, image, ever, broken, faults>>

\* storage.put() as the last step of an upload; the thumbnail reads the object back.
Put(r) ==
    LET f == Head(todo[r])  rest == Tail(todo[r]) IN
    /\ pc[r] = "putting"
    /\ objects' = objects \cup {f}
    /\ IF rest = <<>>
       THEN At(r, "stored", <<>>, mine[r], link[r])
       ELSE At(r, "putting", rest, mine[r] \cup {Head(rest)}, link[r])
    /\ UNCHANGED <<rows, image, ever, broken, faults>>

\* delete() of a file, and remove() of an image, which reads the image row ...
DeleteFile(r, f) ==
    /\ pc[r] = "idle"
    /\ f \in rows
    /\ At(r, "checking", <<f>>, {}, None)
    /\ UNCHANGED <<rows, objects, image, ever, broken, faults>>

RemoveImage(r, i) ==
    /\ pc[r] = "idle"
    /\ image[i] # None
    /\ At(r, "unlinking", image[i], {}, <<i, image[i]>>)
    /\ UNCHANGED <<rows, objects, image, ever, broken, faults>>

\* ... and deletes it first, waiting for another remove() of it; then go the
\* thumbnail and the original.
Unlink(r) ==
    /\ pc[r] = "unlinking"
    /\ ~LinkLocked(r, link[r][1])
    /\ At(r, "checking", todo[r], mine[r], link[r])
    /\ UNCHANGED <<rows, objects, image, ever, broken, faults>>

\* get_or_raise(): a file whose row is gone ends the request with "not found".
CheckRow(r) ==
    /\ pc[r] = "checking"
    /\ \/ /\ Head(todo[r]) \in rows
          /\ At(r, "removing", todo[r], mine[r], link[r])
          /\ UNCHANGED broken
       \/ /\ Head(todo[r]) \notin rows
          /\ Close(r)
          /\ broken' = broken \cup mine[r]
    /\ UNCHANGED <<rows, objects, image, ever, faults>>

\* The DELETE of the row waits for another request's; one that finds no row any
\* more is as good as one that does (the ORM warns, no more).
DeleteRow(r) ==
    LET f == Head(todo[r]) IN
    /\ pc[r] = "removing"
    /\ ~Locked(r, f)
    /\ At(r, "deleting", todo[r], mine[r] \cup ({f} \cap rows), link[r])
    /\ UNCHANGED <<rows, objects, image, ever, broken, faults>>

\* Mutant: the object of a thumbnail is left to a later clean-up.
Mut_DeleteObject(r) ==
    LET rest == Tail(todo[r]) IN
    /\ pc[r] = "deleting"
    /\ objects' = IF rest = <<>> THEN objects \ {Head(todo[r])} ELSE objects
    /\ At(r, IF rest = <<>> THEN "deleted" ELSE "checking", rest, mine[r], link[r])
    /\ UNCHANGED <<rows, image, ever, broken, faults>>

\* storage.delete(), idempotent.
DeleteObject(r) ==
    LET rest == Tail(todo[r]) IN
    /\ pc[r] = "deleting"
    /\ objects' = objects \ {Head(todo[r])}
    /\ At(r, IF rest = <<>> THEN "deleted" ELSE "checking", rest, mine[r], link[r])
    /\ UNCHANGED <<rows, image, ever, broken, faults>>

CommitUpload(r) ==
    /\ pc[r] = "stored"
    /\ rows' = rows \cup mine[r]
    /\ ever' = ever \cup mine[r]
    /\ image' = IF link[r] = None THEN image ELSE [image EXCEPT ![link[r][1]] = link[r][2]]
    /\ Close(r)
    /\ UNCHANGED <<objects, broken, faults>>

CommitDelete(r) ==
    /\ pc[r] = "deleted"
    /\ rows' = rows \ mine[r]
    /\ image' = IF link[r] = None THEN image ELSE [image EXCEPT ![link[r][1]] = None]
    /\ broken' = broken \ mine[r]
    /\ Close(r)
    /\ UNCHANGED <<objects, ever, faults>>

\* A storage call (which may have worked all the same), the thumbnailer, the commit
\* or the process fails: the transaction is rolled back, the objects stay as they are.
Fail(r) ==
    /\ pc[r] # "idle"
    /\ faults < MaxFaults
    /\ faults' = faults + 1
    /\ \/ UNCHANGED objects
       \/ pc[r] = "putting" /\ objects' = objects \cup {Head(todo[r])}
       \/ pc[r] = "deleting" /\ objects' = objects \ {Head(todo[r])}
    /\ broken' = broken \cup mine[r]
    /\ Close(r)
    /\ UNCHANGED <<rows, image, ever>>

Next == \E r \in Requests :
    \/ \E f \in FileIds : Upload(r, f) \/ DeleteFile(r, f)
    \/ \E i \in Images : RemoveImage(r, i) \/ \E f, t \in FileIds : Attach(r, i, f, t)
    \/ Put(r) \/ Unlink(r) \/ CheckRow(r) \/ DeleteRow(r) \/ DeleteObject(r)
    \/ CommitUpload(r) \/ CommitDelete(r) \/ Fail(r)

Spec == Init /\ [][Next]_vars

InFlight == UNION {mine[r] : r \in Requests}

\* Row and object of a file come and go together, but for requests that failed after
\* touching the object; and a file that was ever listed leaves no object behind once
\* its row is gone, also when an earlier delete failed half-way and was repeated
\* (FileService.upload and delete, ProductImageService.attach and remove).
RowsMatchObjects ==
    /\ \A f \in FileIds \ (InFlight \cup broken) : f \in rows <=> f \in objects
    /\ \A f \in (ever \ rows) \ InFlight : f \notin objects
=============================================================================
