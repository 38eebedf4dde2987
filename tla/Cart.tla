-------------------------------- MODULE Cart --------------------------------
(***************************************************************************)
(* The cart of one buyer in one shop (modules/commerce/cart/service.py)    *)
(* with the catalogue it prices from (modules/commerce/products) and the   *)
(* order a checkout places (modules/commerce/orders).  A request takes the *)
(* lock of the cart row in one step and commits in a later one.            *)
(***************************************************************************)
EXTENDS Integers, FiniteSets

CONSTANTS
    Products, Currencies, Carts, Requests,
    MaxLineQuantity,    \* MAX_LINE_QUANTITY
    None

VARIABLES
    catalog,    \* status and currency of each product
    cart,       \* committed rows of commerce_carts with their items
    pc,
    task,       \* add, remove or checkout, and its product
    price,      \* the currency get_sale_info returned
    mine,       \* the cart row a request waits for, has locked, or has inserted
    owed        \* history: units added, less those removed and those ordered

vars == <<catalog, cart, pc, task, price, mine, owed>>

NoItems == [p \in Products |-> 0]
Lines(c) == {p \in Products : cart[c].items[p] > 0}

\* The partial unique index allows one committed active cart.
Active == {c \in Carts : cart[c].status = "active"}

\* Row locks; a cart inserted and not committed belongs to its request too.
Holding == {"filling", "ready", "closing"}
Locked(c) == \E r \in Requests : pc[r] \in Holding /\ mine[r] = c
Uncommitted(c) == cart[c].status = "none" /\ Locked(c)

Init ==
    /\ catalog = [p \in Products |->
                    [status |-> "active", currency |-> CHOOSE u \in Currencies : TRUE]]
    /\ cart = [c \in Carts |-> [status |-> "none", currency |-> None, items |-> NoItems]]
    /\ pc = [r \in Requests |-> "idle"]
    /\ task = [r \in Requests |-> None]
    /\ price = [r \in Requests |-> None]
    /\ mine = [r \in Requests |-> None]
    /\ owed = NoItems

Goto(r, place, c) ==
    /\ pc' = [pc EXCEPT ![r] = place]
    /\ mine' = [mine EXCEPT ![r] = c]
Close(r) ==
    /\ Goto(r, "idle", None)
    /\ task' = [task EXCEPT ![r] = None]
    /\ price' = [price EXCEPT ![r] = None]
Frame == UNCHANGED <<catalog, cart, owed>>

\* add_item() asks the catalogue before it looks for the cart.
AddRead(r, p) ==
    /\ pc[r] = "idle"
    /\ catalog[p].status = "active"
    /\ Goto(r, "looking", None)
    /\ task' = [task EXCEPT ![r] = <<"add", p>>]
    /\ price' = [price EXCEPT ![r] = catalog[p].currency]
    /\ Frame

StartRemove(r, p) ==
    /\ pc[r] = "idle"
    /\ Goto(r, "looking", None)
    /\ task' = [task EXCEPT ![r] = <<"remove", p>>]
    /\ UNCHANGED price /\ Frame

StartCheckout(r) ==
    /\ pc[r] = "idle"
    /\ Goto(r, "looking", None)
    /\ task' = [task EXCEPT ![r] = <<"checkout", None>>]
    /\ UNCHANGED price /\ Frame

Ready(r) == IF task[r][1] = "add" THEN "filling" ELSE "ready"

\* No active cart: an add opens one, the others answer "no active cart".
NotFound(r) ==
    \/ task[r][1] = "add" /\ Goto(r, "opening", None) /\ UNCHANGED <<task, price>>
    \/ task[r][1] # "add" /\ Close(r)

\* Mutant: the active cart is read without FOR UPDATE.
Mut_ActiveCart(r) ==
    /\ pc[r] = "looking"
    /\ \/ \E c \in Active : Goto(r, Ready(r), c) /\ UNCHANGED <<task, price>>
       \/ Active = {} /\ NotFound(r)
    /\ Frame

\* _active_cart(lock=True): the row of the snapshot is locked, or waited for.
ActiveCart(r) ==
    /\ pc[r] = "looking"
    /\ \/ \E c \in Active :
            /\ Goto(r, IF Locked(c) THEN "waiting" ELSE Ready(r), c)
            /\ UNCHANGED <<task, price>>
       \/ Active = {} /\ NotFound(r)
    /\ Frame

\* After the wait the row is looked at again; a cart checked out meanwhile does not
\* match any more, and a newer one was not in the snapshot.
Resume(r) ==
    /\ pc[r] = "waiting"
    /\ ~Locked(mine[r])
    /\ \/ mine[r] \in Active /\ Goto(r, Ready(r), mine[r]) /\ UNCHANGED <<task, price>>
       \/ mine[r] \notin Active /\ NotFound(r)
    /\ Frame

\* _open_cart(): the INSERT waits for an uncommitted cart and for a checkout that has
\* written its row; a committed active cart makes it fail inside the savepoint.
OpenCart(r) ==
    /\ pc[r] = "opening"
    /\ \A q \in Requests \ {r} :
        pc[q] # "closing" /\ (pc[q] \in Holding => ~Uncommitted(mine[q]))
    /\ \/ /\ Active = {}
          /\ \E c \in Carts : cart[c].status = "none" /\ Goto(r, "filling", c)
       \/ /\ Active # {}
          /\ Goto(r, "rereading", None)
    /\ UNCHANGED <<task, price>> /\ Frame

\* The second lookup.  The cart that won may have been checked out since: then the
\* request fails with "could not open a cart".
Reread(r) ==
    /\ pc[r] = "rereading"
    /\ \A c \in Active : ~Locked(c)
    /\ \/ \E c \in Active : Goto(r, "filling", c) /\ UNCHANGED <<task, price>>
       \/ Active = {} /\ Close(r)
    /\ Frame

\* The rest of add_item() under the lock, and the commit.
AddCommit(r) ==
    LET c == mine[r]  p == task[r][2] IN
    /\ pc[r] = "filling"
    /\ \/ /\ Lines(c) # {} => cart[c].currency = price[r]
          /\ cart[c].items[p] + 1 <= MaxLineQuantity
          /\ cart' = [cart EXCEPT ![c].status = "active",
                                  ![c].currency = price[r],
                                  ![c].items[p] = @ + 1]
          /\ owed' = [owed EXCEPT ![p] = @ + 1]
       \/ /\ \/ Lines(c) # {} /\ cart[c].currency # price[r]
             \/ cart[c].items[p] + 1 > MaxLineQuantity
          /\ UNCHANGED <<cart, owed>>
    /\ Close(r)
    /\ UNCHANGED catalog

RemoveCommit(r) ==
    LET c == mine[r]  p == task[r][2] IN
    /\ pc[r] = "ready" /\ task[r][1] = "remove"
    /\ cart' = [cart EXCEPT ![c].items[p] = 0]
    /\ owed' = [owed EXCEPT ![p] = @ - cart[c].items[p]]
    /\ Close(r)
    /\ UNCHANGED catalog

\* checkout() up to its flush: place_order() prices every line from the catalogue of
\* this moment and refuses an archived product or mixed currencies.
PlaceOrder(r) ==
    LET c == mine[r] IN
    /\ pc[r] = "ready" /\ task[r][1] = "checkout"
    /\ \/ /\ Lines(c) # {}
          /\ \A p \in Lines(c) : catalog[p].status = "active"
          /\ Cardinality({catalog[p].currency : p \in Lines(c)}) = 1
          /\ Goto(r, "closing", c)
          /\ UNCHANGED <<task, price>>
       \/ /\ \/ Lines(c) = {}
             \/ \E p \in Lines(c) : catalog[p].status # "active"
             \/ Cardinality({catalog[p].currency : p \in Lines(c)}) > 1
          /\ Close(r)
    /\ Frame

\* The order takes the lines; nobody reads those of a closed cart again, so the model
\* forgets them.
CheckoutCommit(r) ==
    LET c == mine[r] IN
    /\ pc[r] = "closing"
    /\ cart' = [cart EXCEPT ![c] = [status |-> "checked_out", currency |-> None, items |-> NoItems]]
    /\ owed' = [p \in Products |-> owed[p] - cart[c].items[p]]
    /\ Close(r)
    /\ UNCHANGED catalog

\* The provider or the commit fails: the request rolls back.
Fail(r) ==
    /\ pc[r] \in Holding
    /\ Close(r)
    /\ Frame

\* ProductService.update and archive.
UpdateProduct(p, u) ==
    /\ catalog[p].status = "active"
    /\ catalog[p].currency # u
    /\ catalog' = [catalog EXCEPT ![p].currency = u]
    /\ UNCHANGED <<cart, pc, task, price, mine, owed>>

ArchiveProduct(p) ==
    /\ catalog[p].status = "active"
    /\ catalog' = [catalog EXCEPT ![p].status = "archived"]
    /\ UNCHANGED <<cart, pc, task, price, mine, owed>>

Next ==
    \/ \E p \in Products : ArchiveProduct(p) \/ \E u \in Currencies : UpdateProduct(p, u)
    \/ \E r \in Requests :
        \/ \E p \in Products : AddRead(r, p) \/ StartRemove(r, p)
        \/ StartCheckout(r) \/ ActiveCart(r) \/ Resume(r) \/ OpenCart(r) \/ Reread(r)
        \/ AddCommit(r) \/ RemoveCommit(r) \/ PlaceOrder(r) \/ CheckoutCommit(r) \/ Fail(r)

Spec == Init /\ [][Next]_vars

\* What the buyer was told is in the cart is there, was removed, or was ordered
\* exactly once: no add is swallowed by a checkout that closes the cart meanwhile,
\* and no unit is ordered twice (the row lock of _active_cart, _open_cart and
\* checkout).
NothingLost ==
    \A p \in Products :
        LET held == IF Active = {} THEN 0 ELSE cart[CHOOSE c \in Active : TRUE].items[p]
        IN  owed[p] = held
=============================================================================
