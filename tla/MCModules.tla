----------------------------- MODULE MCModules -----------------------------
(***************************************************************************)
(* Shops, customers and their money: the cart, quotas and onboarding, the  *)
(* entitlement row, CRM links, stored files, the providers' dialects and   *)
(* billing periods.  The components share no state, so a behaviour         *)
(* exercises one of them, named by `focus'.  A component with several      *)
(* initial states keeps one of them while it is not in focus.              *)
(***************************************************************************)
EXTENDS Integers, FiniteSets, Sequences

CONSTANTS Requests, None,
          Products, Currencies, Carts, MaxLineQuantity,            \* Cart
          Steps, Limits, MaxObjects, Days, MaxUsage, Batch,        \* Quotas
          PaidPlans, FreePlan, Term, LastTime, MaxEvents, Handlers, \* Entitlements
          Editors, MaxPatch,                                       \* CrmLinks
          FileIds, Images, MaxFaults,                              \* Files
          Amounts, WireAmounts, Txns, MaxTime,                     \* ProviderDialects
          Years, MaxRolls                                          \* Periods

VARIABLES
    focus,
    crt_catalog, crt_cart, crt_pc, crt_task, crt_price, crt_mine, crt_owed,
    quo_limit, quo_objects, quo_done, quo_usage, quo_cutoff, quo_pc, quo_task, quo_allowed,
    quo_found, quo_guarded, quo_exceeded, quo_completed, quo_metered,
    ent_now, ent_live, ent_queue, ent_run, ent_row, ent_astray,
    crm_rows, crm_dead, crm_links, crm_queue, crm_pc, crm_work, crm_clean,
    fil_rows, fil_objects, fil_image, fil_pc, fil_todo, fil_mine, fil_link, fil_ever,
    fil_broken, fil_faults,
    pay_provider, pay_amount, pay_currency, pay_payment, pay_txn, pay_ledger, pay_now,
    pay_charged, pay_said,
    per_period, per_start, per_end, per_anchor, per_rolled

Basket == INSTANCE Cart
    WITH catalog <- crt_catalog, cart <- crt_cart, pc <- crt_pc, task <- crt_task,
         price <- crt_price, mine <- crt_mine, owed <- crt_owed
Quota == INSTANCE Quotas
    WITH limit <- quo_limit, objects <- quo_objects, done <- quo_done, usage <- quo_usage,
         cutoff <- quo_cutoff, pc <- quo_pc, task <- quo_task, allowed <- quo_allowed,
         found <- quo_found, guarded <- quo_guarded, exceeded <- quo_exceeded,
         completed <- quo_completed, metered <- quo_metered
Plan == INSTANCE Entitlements
    WITH Period <- Term, MaxTime <- LastTime, Workers <- Handlers,
         now <- ent_now, live <- ent_live, queue <- ent_queue, run <- ent_run, row <- ent_row,
         astray <- ent_astray
Crm == INSTANCE CrmLinks
    WITH Requests <- Editors, rows <- crm_rows, dead <- crm_dead, links <- crm_links,
         queue <- crm_queue, pc <- crm_pc, work <- crm_work, clean <- crm_clean
File == INSTANCE Files
    WITH rows <- fil_rows, objects <- fil_objects, image <- fil_image, pc <- fil_pc,
         todo <- fil_todo, mine <- fil_mine, link <- fil_link, ever <- fil_ever,
         broken <- fil_broken, faults <- fil_faults
Dialect == INSTANCE ProviderDialects
    WITH provider <- pay_provider, amount <- pay_amount, currency <- pay_currency,
         payment <- pay_payment, txn <- pay_txn, ledger <- pay_ledger, now <- pay_now,
         charged <- pay_charged, said <- pay_said
Period == INSTANCE Periods
    WITH period <- per_period, start <- per_start, end <- per_end, anchor <- per_anchor,
         rolled <- per_rolled

basket == <<crt_catalog, crt_cart, crt_pc, crt_task, crt_price, crt_mine, crt_owed>>
quota == <<quo_limit, quo_objects, quo_done, quo_usage, quo_cutoff, quo_pc, quo_task,
           quo_allowed, quo_found, quo_guarded, quo_exceeded, quo_completed, quo_metered>>
plan == <<ent_now, ent_live, ent_queue, ent_run, ent_row, ent_astray>>
crm == <<crm_rows, crm_dead, crm_links, crm_queue, crm_pc, crm_work, crm_clean>>
file == <<fil_rows, fil_objects, fil_image, fil_pc, fil_todo, fil_mine, fil_link, fil_ever,
          fil_broken, fil_faults>>
dialect == <<pay_provider, pay_amount, pay_currency, pay_payment, pay_txn, pay_ledger,
             pay_now, pay_charged, pay_said>>
calendar == <<per_period, per_start, per_end, per_anchor, per_rolled>>

MCInit ==
    /\ focus \in {"cart", "quotas", "plan", "crm", "files", "dialects", "periods"}
    /\ Basket!Init /\ Plan!Init /\ Crm!Init /\ File!Init
    /\ Quota!Init
    /\ focus # "quotas" => quo_limit = None
    /\ Dialect!Init
    /\ focus # "dialects" => /\ pay_provider = "payme"
                             /\ pay_amount = CHOOSE n \in Amounts : TRUE
    /\ Period!Init
    /\ focus # "periods" => /\ per_period = "month"
                            /\ per_start = <<CHOOSE y \in Years : TRUE, 1, 1>>

MCNext ==
    \/ /\ focus = "cart" /\ Basket!Next
       /\ UNCHANGED <<focus, quota, plan, crm, file, dialect, calendar>>
    \/ /\ focus = "quotas" /\ Quota!Next
       /\ UNCHANGED <<focus, basket, plan, crm, file, dialect, calendar>>
    \/ /\ focus = "plan" /\ Plan!Next
       /\ UNCHANGED <<focus, basket, quota, crm, file, dialect, calendar>>
    \/ /\ focus = "crm" /\ Crm!Next
       /\ UNCHANGED <<focus, basket, quota, plan, file, dialect, calendar>>
    \/ /\ focus = "files" /\ File!Next
       /\ UNCHANGED <<focus, basket, quota, plan, crm, dialect, calendar>>
    \/ /\ focus = "dialects" /\ Dialect!Next
       /\ UNCHANGED <<focus, basket, quota, plan, crm, file, calendar>>
    \/ /\ focus = "periods" /\ Period!Next
       /\ UNCHANGED <<focus, basket, quota, plan, crm, file, dialect>>

MCSpec == MCInit /\ [][MCNext]_<<focus, basket, quota, plan, crm, file, dialect, calendar>>

\* What a customer put into the cart is in the active cart or was ordered (Cart).
NothingLost == Basket!NothingLost

\* Limits, onboarding steps and usage are counted exactly once (Quotas).
TalliesAreExact == Quota!TalliesAreExact

\* When all events are handled, features see the plan billing has, unless one was
\* lost, late or stale and no activation has followed (Entitlements).
InStep == Plan!InStep

\* Once the events of a deletion are handled, nothing links the deleted row that
\* was not being linked at that moment (CrmLinks).
LinksAreCleared == Crm!LinksAreCleared

\* A row has its object and an object its row, unless a request failed between
\* the two (Files).
RowsMatchObjects == File!RowsMatchObjects

\* A payment is accepted for what its checkout asked only (ProviderDialects).
PaidWhatWasAsked == Dialect!PaidWhatWasAsked

\* A repeated call gets the answer of the first, or a refusal (ProviderDialects).
AnswersAgree == Dialect!AnswersAgree

\* Rolled periods add up to the calendar (Periods).
PeriodsAddUp == Period!PeriodsAddUp
=============================================================================
