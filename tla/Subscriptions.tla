----------------------------- MODULE Subscriptions -----------------------------
(* Subscriptions and plan limits: the merchant's page that shows the plan and *)
(* buys another one, the administrator's pages that edit plans, assign them   *)
(* and delete merchants and users, and the server, whose handlers are several *)
(* statements without a transaction around them.  Payments are checked        *)
(* against the plan's monthly limit when they are created and counted when    *)
(* they succeed.  All merchants here belong to one user.                      *)
EXTENDS InFlight, Sequences, FiniteSets, SequencesExt

CONSTANTS
  Merchants,
  Assigned,      \* the merchants whose creation gave them the free plan
  Plans,
  FreePlan,
  Limits,        \* payments a month, or Unlimited
  None,
  MaxActs,       \* bound: payments asked for and acts of the administrator
  MaxTrouble     \* bound: statements and requests that fail, and acts of a
                 \* user while something is outstanding

Unlimited == -1

ASSUME SubscriptionsAssumption ==
  /\ Assigned \subseteq Merchants /\ IsFiniteSet(Assigned)
  /\ FreePlan \in Plans /\ None \notin Plans
  /\ Limits \in [Plans -> Nat \cup {Unlimited}]
  /\ MaxInFlight \in Nat \ {0} /\ MaxActs \in Nat /\ MaxTrouble \in Nat

VARIABLES
  plan,          \* the server's: the price of each plan, and whether it is active
  subs,          \* merchant_subscriptions
  usage,         \* usage_tracking: payments counted this month, or NoRow
  open, done,    \* payments of each merchant that are waiting, that succeeded
  asked,         \* history: how many payments were asked for
  state,         \* of each merchant: "live", "cleaned" or "gone"
  owner,         \* whether the user who has the merchants is there
  merchantId, loading, shown, upgrading,
  adminRows,     \* the plans on the administrator's display
  wanted,        \* history: the plans as the administrator edited them
  raced,         \* history: a month's row was created twice
  adminActs, faults,
  hasty          \* history: how often a user did not wait

vars == <<plan, subs, usage, open, done, asked, state, owner, merchantId, loading, shown, upgrading,
          adminRows, wanted, raced, adminActs, faults, hasty, request>>
counts == <<usage, raced>>
payments == <<open, done, asked>>
removal == <<state, owner>>
page == <<loading, shown, upgrading>>
acts == <<adminActs, wanted, hasty>>

NoRow == -1
Unread == [price |-> 0, active |-> FALSE]
Nothing == [plan |-> None, status |-> "none", renew |-> FALSE]
LiveStatuses == {"active", "pending"}

Live(m) == {n \in DOMAIN subs : subs[n].merchant = m /\ subs[n].status \in LiveStatuses}
ViewOf(m) ==
  IF Live(m) = {} THEN Nothing
  ELSE LET s == subs[CHOOSE n \in Live(m) : \A k \in Live(m) : k <= n] IN
       [plan |-> s.plan, status |-> s.status, renew |-> s.renew]

StatusForAny(price) == "active"
StatusFor(price) == IF price > 0 THEN "pending" ELSE "active"

(* A row as it is inserted.  "first" is the price that decided on an invoice; *)
(* "late" is history: the merchant's data had been cleaned before.            *)
Row(m, p, status, by, first) ==
  [merchant |-> m, plan |-> p, status |-> status, renew |-> TRUE, by |-> by,
   price |-> plan[p].price, first |-> first, invoice |-> "none", metadata |-> 0,
   late |-> state[m] # "live"]

(* A request: "row" is the subscription it made, "rows" the plans it carries, *)
(* "left" the merchants whose data are to be cleaned.                         *)
Job(kind, stage, m, p) ==
  [kind |-> kind, stage |-> stage, at |-> "server", ok |-> TRUE, here |-> TRUE,
   merchant |-> m, plan |-> p, row |-> 0, first |-> 0, full |-> FALSE, acts |-> 0, left |-> {},
   view |-> Nothing, offers |-> {}, rows |-> [q \in Plans |-> Unread]]
Reply(r, ok) == [r EXCEPT !.at = "page", !.ok = ok]
loadData(m) == Job("load", "read", m, None)

UserActs == /\ Quiet \/ hasty + faults < MaxTrouble
            /\ hasty' = IF Quiet THEN hasty ELSE hasty + 1

(* Each merchant got the free plan when it was created, or, when that failed, *)
(* none.  The administrator's pages have been opened.                         *)
FreeRow(m) ==
  [merchant |-> m, plan |-> FreePlan, status |-> "active", renew |-> TRUE, by |-> "self",
   price |-> 0, first |-> 0, invoice |-> "none", metadata |-> 0, late |-> FALSE]

Init ==
  /\ plan = [p \in Plans |-> [price |-> IF p = FreePlan THEN 0 ELSE 1, active |-> TRUE]]
  /\ subs = [i \in 1..Cardinality(Assigned) |-> FreeRow(SetToSeq(Assigned)[i])]
  /\ usage = [m \in Merchants |-> NoRow]
  /\ open = [m \in Merchants |-> 0] /\ done = [m \in Merchants |-> 0] /\ asked = 0
  /\ state = [m \in Merchants |-> "live"] /\ owner = TRUE /\ merchantId \in Merchants
  /\ loading = TRUE /\ shown = [view |-> Nothing, offers |-> {}] /\ upgrading = None
  /\ adminRows = plan /\ wanted = plan /\ raced = FALSE
  /\ adminActs = 0 /\ faults = 0 /\ hasty = 0
  /\ request = [i \in Slots |-> IF i = 1 THEN loadData(merchantId) ELSE Free]

----------------------------------------------------------------------------
(* The server.                                                              *)

At(i, kind, stage) == AtServer(i) /\ request[i].kind = kind /\ request[i].stage = stage
Stays == UNCHANGED <<merchantId, page, adminRows, acts, faults>>

(* The subscription, then the month's usage, whose row is made if missing.    *)
GetCurrentSubscription(i) ==
  LET r == [request[i] EXCEPT !.view = ViewOf(request[i].merchant),
                              !.offers = {p \in Plans : plan[p].active}] IN
  /\ At(i, "load", "read")
  /\ GoesOn(i, IF Live(r.merchant) # {} /\ usage[r.merchant] = NoRow
               THEN [r EXCEPT !.stage = "create"] ELSE Reply(r, TRUE))
  /\ UNCHANGED <<plan, subs, counts, payments, removal>> /\ Stays

Exceeded(m, p) == Limits[p] # Unlimited /\ usage[m] >= Limits[p]

(* A merchant without a subscription is not limited.  The plan of one whose   *)
(* plan was deactivated is nil: the handler panics.                           *)
PlanOf(m) == ViewOf(m).plan
Served(m) == Live(m) # {} /\ plan[PlanOf(m)].active
Limited(m) == Served(m) /\ Limits[PlanOf(m)] # Unlimited

CheckPaymentLimit(i) ==
  LET r == request[i]  m == r.merchant IN
  /\ At(i, "pay", "check")
  /\ GoesOn(i, CASE Live(m) # {} /\ ~Served(m) -> Free
                 [] Limited(m) /\ usage[m] = NoRow -> [r EXCEPT !.stage = "create", !.plan = PlanOf(m)]
                 [] Limited(m) /\ usage[m] # NoRow /\ Exceeded(m, PlanOf(m)) -> Free
                 [] OTHER -> [r EXCEPT !.stage = "insert"])
  /\ UNCHANGED <<plan, subs, counts, payments, removal>> /\ Stays

CreatePayment(i) ==
  LET m == request[i].merchant IN
  /\ At(i, "pay", "insert") /\ open' = [open EXCEPT ![m] = @ + 1] /\ Ends(i)
  /\ UNCHANGED <<plan, subs, counts, done, asked, removal>> /\ Stays

(* One row per merchant and month: the second insert fails.                   *)
createUsagePeriod(m) ==
  /\ usage' = IF usage[m] = NoRow THEN [usage EXCEPT ![m] = 0] ELSE usage
  /\ raced' = (raced \/ usage[m] # NoRow)

(* What follows: the page gets its answer without usage, a payment's check    *)
(* that fails lets it pass, and a count that fails is given up.               *)
AfterPeriodOnly(r, ok) ==
  CASE r.kind = "load" -> Reply(r, TRUE)
    [] r.kind = "pay" -> IF ok /\ Limits[r.plan] = 0 THEN Free ELSE [r EXCEPT !.stage = "insert"]
    [] r.kind = "complete" -> Free
AfterPeriod(r, ok) ==
  CASE r.kind = "load" -> Reply(r, TRUE)
    [] r.kind = "pay" -> IF ok /\ Limits[r.plan] = 0 THEN Free ELSE [r EXCEPT !.stage = "insert"]
    [] r.kind = "complete" -> IF ok THEN [r EXCEPT !.stage = "again"] ELSE Free

CreatePeriod(i) ==
  LET r == request[i] IN
  /\ AtServer(i) /\ r.stage = "create" /\ createUsagePeriod(r.merchant)
  /\ GoesOn(i, AfterPeriod(r, usage[r.merchant] = NoRow))
  /\ UNCHANGED <<plan, subs, payments, removal>> /\ Stays

(* An update that finds no row makes one and is tried again.                  *)
IncrementPaymentUsage(i) ==
  LET r == request[i]  m == r.merchant IN
  /\ AtServer(i) /\ r.kind = "complete" /\ r.stage \in {"update", "again"}
  /\ IF usage[m] = NoRow /\ r.stage = "update"
     THEN GoesOn(i, [r EXCEPT !.stage = "create"]) /\ UNCHANGED usage
     ELSE Ends(i) /\ usage' = IF usage[m] = NoRow THEN usage ELSE [usage EXCEPT ![m] = @ + 1]
  /\ UNCHANGED <<plan, subs, raced, payments, removal>> /\ Stays

(* The merchant asks for a payment, a customer's payment succeeds.  "full" is *)
(* history: with nobody else at work, the month's payments were used up.      *)
PaymentAsked(m) ==
  /\ state[m] # "gone"
  /\ asked + adminActs < MaxActs /\ asked' = asked + 1
  /\ Send([Job("pay", "check", m, None) EXCEPT
             !.full = Quiet /\ Limited(m) /\ usage[m] >= Limits[PlanOf(m)],
             !.acts = adminActs])
  /\ UNCHANGED <<plan, subs, counts, open, done, removal>> /\ Stays

PaymentSucceeds(m) ==
  /\ open[m] > 0 /\ open' = [open EXCEPT ![m] = @ - 1] /\ done' = [done EXCEPT ![m] = @ + 1]
  /\ Send(Job("complete", "update", m, None))
  /\ UNCHANGED <<plan, subs, counts, asked, removal>> /\ Stays

NeedsInvoice(r) == r.first # 0

(* CreateSubscriptionPayment reads the plan, CreateSubscription reads it      *)
(* again and inserts, and the invoice comes last.                             *)
UpgradeReadsPlan(i) ==
  LET r == request[i] IN
  /\ At(i, "upgrade", "plan")
  /\ GoesOn(i, IF plan[r.plan].active
               THEN [r EXCEPT !.stage = "insert", !.first = plan[r.plan].price]
               ELSE Reply(r, FALSE))
  /\ UNCHANGED <<plan, subs, counts, payments, removal>> /\ Stays

(* merchant_subscriptions_active_unique: one live row per merchant.           *)
CreateSubscription(i) ==
  LET r == request[i]  ok == plan[r.plan].active /\ Live(r.merchant) = {} IN
  /\ At(i, "upgrade", "insert")
  /\ subs' = IF ok THEN Append(subs, Row(r.merchant, r.plan, StatusFor(plan[r.plan].price),
                                         "self", r.first)) ELSE subs
  /\ GoesOn(i, IF ~ok THEN Reply(r, FALSE)
               ELSE IF NeedsInvoice(r) THEN [r EXCEPT !.stage = "invoice", !.row = Len(subs) + 1]
               ELSE Reply(r, TRUE))
  /\ UNCHANGED <<plan, counts, payments, removal>> /\ Stays

(* The adapter has nowhere to put the metadata.                               *)
StoredMetadata(n) == 0

CreateInvoice(i) ==
  LET r == request[i] IN
  /\ At(i, "upgrade", "invoice")
  /\ subs' = [subs EXCEPT ![r.row].invoice = "open", ![r.row].metadata = StoredMetadata(r.row)]
  /\ GoesOn(i, Reply(r, TRUE))
  /\ UNCHANGED <<plan, counts, payments, removal>> /\ Stays

(* The invoice is paid, and the event of it looks for what the metadata names. *)
HandlePaymentWebhook(n) ==
  LET s == subs[n].metadata
      paid == [subs EXCEPT ![n].invoice = "paid"] IN
  /\ subs[n].invoice = "open"
  /\ subs' = IF s # 0 /\ paid[s].status = "pending"
             THEN [paid EXCEPT ![s].status = "active"] ELSE paid
  /\ UNCHANGED <<plan, counts, payments, removal, request>> /\ Stays

CancelSubscription(i) ==
  LET r == request[i] IN
  /\ At(i, "cancel", "cancel")
  /\ subs' = [n \in DOMAIN subs |-> IF n \in Live(r.merchant)
                                    THEN [subs[n] EXCEPT !.renew = FALSE] ELSE subs[n]]
  /\ GoesOn(i, Reply(r, Live(r.merchant) # {}))
  /\ UNCHANGED <<plan, counts, payments, removal>> /\ Stays

Cancelled(m, statuses) ==
  [n \in DOMAIN subs |-> IF n \in Live(m) /\ subs[n].status \in statuses
                         THEN [subs[n] EXCEPT !.status = "cancelled"] ELSE subs[n]]

(* The administrator's: two statements, whatever the state of the plan and of *)
(* the merchant.                                                              *)
AssignMerchantPlan(i) ==
  LET r == request[i] IN
  /\ \/ /\ At(i, "assign", "cancel") /\ subs' = Cancelled(r.merchant, LiveStatuses)
        /\ GoesOn(i, [r EXCEPT !.stage = "insert"])
     \/ /\ At(i, "assign", "insert")
        /\ subs' = IF Live(r.merchant) = {}
                   THEN Append(subs, Row(r.merchant, r.plan, "active", "admin", 0)) ELSE subs
        /\ GoesOn(i, Reply(r, Live(r.merchant) = {}))
  /\ UNCHANGED <<plan, counts, payments, removal>> /\ Stays

adminCleanActive(m) == subs' = Cancelled(m, {"active"})
adminCleanMerchantData(m) == subs' = Cancelled(m, LiveStatuses)

AdminDeleteMerchant(i) ==
  LET r == request[i]  m == r.merchant IN
  /\ \/ /\ At(i, "delete", "clean") /\ state[m] # "gone"
        /\ adminCleanMerchantData(m) /\ state' = [state EXCEPT ![m] = "cleaned"]
        /\ GoesOn(i, [r EXCEPT !.stage = "mark"])
     \/ /\ At(i, "delete", "clean") /\ state[m] = "gone"
        /\ GoesOn(i, Reply(r, FALSE)) /\ UNCHANGED <<subs, state>>
     \/ /\ At(i, "delete", "mark") /\ state' = [state EXCEPT ![m] = "gone"]
        /\ GoesOn(i, Reply(r, TRUE)) /\ UNCHANGED subs
  /\ UNCHANGED <<plan, counts, payments, owner>> /\ Stays

(* A user goes with all merchants, those deleted before among them.           *)
AdminDeleteUser(i) ==
  LET r == request[i] IN
  /\ \/ /\ At(i, "user", "check") /\ UNCHANGED <<subs, removal>>
        /\ GoesOn(i, IF owner THEN [r EXCEPT !.stage = "clean", !.left = Merchants]
                     ELSE Reply(r, FALSE))
     \/ At(i, "user", "clean") /\ \E m \in r.left :
        /\ adminCleanMerchantData(m) /\ UNCHANGED owner
        /\ state' = [state EXCEPT ![m] = IF @ = "gone" THEN @ ELSE "cleaned"]
        /\ GoesOn(i, [r EXCEPT !.left = @ \ {m}, !.stage = IF r.left = {m} THEN "mark" ELSE @])
     \/ /\ At(i, "user", "mark") /\ state' = [m \in Merchants |-> "gone"]
        /\ GoesOn(i, [r EXCEPT !.stage = "remove"]) /\ UNCHANGED <<subs, owner>>
     \/ /\ At(i, "user", "remove") /\ owner' = FALSE
        /\ GoesOn(i, Reply(r, TRUE)) /\ UNCHANGED <<subs, state>>
  /\ UNCHANGED <<plan, counts, payments>> /\ Stays

(* Every column is written, also those the form did not touch.                *)
UpdatePlan(i) ==
  LET r == request[i] IN
  /\ At(i, "save", "save") /\ plan' = [plan EXCEPT ![r.plan] = r.rows[r.plan]]
  /\ GoesOn(i, Reply(r, TRUE))
  /\ UNCHANGED <<subs, counts, payments, removal>> /\ Stays

ListAllPlans(i) ==
  /\ At(i, "plans", "list") /\ GoesOn(i, Reply([request[i] EXCEPT !.rows = plan], TRUE))
  /\ UNCHANGED <<plan, subs, counts, payments, removal>> /\ Stays

(* A statement or a request fails.  Neither a payment nor its check fails     *)
(* with the limits.                                                           *)
Fails(i) ==
  LET r == request[i] IN
  /\ AtServer(i) /\ hasty + faults < MaxTrouble /\ faults' = faults + 1
  /\ GoesOn(i, CASE r.kind = "pay" /\ r.stage # "insert" -> [r EXCEPT !.stage = "insert"]
                 [] r.kind = "complete" \/ (r.kind = "pay" /\ r.stage = "insert") -> Free
                 [] OTHER -> Reply(r, FALSE))
  /\ UNCHANGED <<plan, subs, counts, payments, removal, merchantId, page, adminRows, acts>>

----------------------------------------------------------------------------
(* The merchant's page.                                                     *)

World == UNCHANGED <<plan, subs, counts, payments, removal, faults>>
Handled == World /\ UNCHANGED <<merchantId, adminRows, acts>>
OfPage(r) == r # Free /\ r.kind \in {"load", "upgrade", "cancel"}
AnswerOf(i, kind) == Arrived(i, kind) /\ request[i].here

(* The answer to a page that was left.                                        *)
Dropped(i) ==
  /\ request[i] # Free /\ request[i].at = "page" /\ ~request[i].here /\ Ends(i)
  /\ UNCHANGED page /\ Handled

(* Three requests: without the subscription there is none on display, without *)
(* the plans everything stays as it was.                                      *)
DataLoaded(i) ==
  LET a == request[i] IN
  /\ AnswerOf(i, "load") /\ Ends(i) /\ loading' = FALSE
  /\ \/ a.ok /\ shown' = [view |-> a.view, offers |-> a.offers]
     \/ ~a.ok /\ shown' = [view |-> Nothing, offers |-> Plans]
     \/ ~a.ok /\ UNCHANGED shown
  /\ UNCHANGED upgrading /\ Handled

(* What a page that starts anew waited for before is lost to it.              *)
StartsAnew(i, m) ==
  /\ request' = [j \in Slots |->
       IF j = i THEN loadData(m)
       ELSE IF OfPage(request[j]) THEN [request[j] EXCEPT !.here = FALSE] ELSE request[j]]
  /\ loading' = TRUE /\ shown' = [view |-> Nothing, offers |-> {}] /\ upgrading' = None

(* Another merchant is chosen, or the page is left and opened again.          *)
ShowPage(m) == \E i \in FreeSlots :
  /\ \A j \in FreeSlots : i <= j
  /\ state[m] # "gone" /\ merchantId' = m
  /\ IF m = merchantId THEN StartsAnew(i, m)
     ELSE /\ request' = [request EXCEPT ![i] = loadData(m)]
          /\ loading' = TRUE /\ UNCHANGED <<shown, upgrading>>
  /\ UserActs /\ World /\ UNCHANGED <<adminRows, adminActs, wanted>>

handleUpgrade(p) ==
  /\ ~loading /\ p \in shown.offers \ {shown.view.plan} /\ upgrading # p
  /\ upgrading' = p /\ Send(Job("upgrade", "plan", merchantId, p)) /\ UserActs
  /\ World /\ UNCHANGED <<merchantId, loading, shown, adminRows, adminActs, wanted>>

handleCancel ==
  /\ ~loading /\ shown.view.renew /\ shown.view.status = "active"
  /\ Send(Job("cancel", "cancel", merchantId, None)) /\ UserActs
  /\ World /\ UNCHANGED <<merchantId, page, adminRows, adminActs, wanted>>

(* The closure's merchant is loaded.                                          *)
Reloads(i) == GoesOn(i, loadData(request[i].merchant)) /\ loading' = TRUE

UpgradeUnseen(i) ==
  LET a == request[i] IN
  /\ AnswerOf(i, "upgrade") /\ Ends(i) /\ upgrading' = None /\ UNCHANGED <<loading, shown>>
  /\ Handled

(* With an invoice the browser goes to its payment page, which sends the      *)
(* customer back.                                                             *)
UpgradeAnswered(i) ==
  LET a == request[i] IN
  /\ AnswerOf(i, "upgrade")
  /\ \/ a.ok /\ a.first > 0 /\ StartsAnew(i, merchantId)
     \/ a.ok /\ a.first = 0 /\ Reloads(i) /\ upgrading' = None /\ UNCHANGED shown
     \/ ~a.ok /\ Ends(i) /\ upgrading' = None /\ UNCHANGED <<loading, shown>>
  /\ Handled

CancelAnswered(i) ==
  /\ AnswerOf(i, "cancel")
  /\ \/ request[i].ok /\ Reloads(i)
     \/ ~request[i].ok /\ Ends(i) /\ UNCHANGED loading
  /\ UNCHANGED <<shown, upgrading>> /\ Handled

----------------------------------------------------------------------------
(* The administrator's pages.                                               *)

Administers(r) ==
  /\ asked + adminActs < MaxActs /\ adminActs' = adminActs + 1 /\ Send(r) /\ UserActs
  /\ World /\ UNCHANGED <<merchantId, page, adminRows>>

(* Either page loads the plans when it is opened.                             *)
OpenAdminPage ==
  /\ Send(Job("plans", "list", None, None)) /\ UserActs
  /\ World /\ UNCHANGED <<merchantId, page, adminRows, adminActs, wanted>>

(* The form's fields the model tells apart: the price, the activity.          *)
Edits(row) == {[row EXCEPT !.price = 1 - @], [row EXCEPT !.active = ~@]}

(* The form starts from the row on display.                                   *)
openEdit(p) == adminRows[p]

handleSubmit(p) == \E new \in Edits(openEdit(p)) :
  /\ wanted' = [wanted EXCEPT ![p] =
       IF new.price # openEdit(p).price THEN [@ EXCEPT !.price = new.price]
       ELSE [@ EXCEPT !.active = new.active]]
  /\ Administers([Job("save", "save", None, p) EXCEPT !.rows[p] = new])

(* The modal offers the active plans of the list, and selects the plan that   *)
(* the merchant had when the merchants were listed, at some earlier time.     *)
openAssignModal(m) == {p \in Plans : \E n \in DOMAIN subs : subs[n].merchant = m /\ subs[n].plan = p}

handleAssignPlan(m, p) ==
  /\ adminRows[p].active \/ p \in openAssignModal(m)
  /\ Administers(Job("assign", "cancel", m, p)) /\ UNCHANGED wanted

(* The list holds deleted merchants as well.                                  *)
handleDeleteMerchant(m) == Administers(Job("delete", "clean", m, None)) /\ UNCHANGED wanted

(* The list of users is as old as its page; it offers no administrators.      *)
handleDeleteUser == Administers(Job("user", "check", None, None)) /\ UNCHANGED wanted

PlansListed(i) ==
  LET a == request[i] IN
  /\ Arrived(i, "plans") /\ Ends(i) /\ adminRows' = IF a.ok THEN a.rows ELSE adminRows
  /\ World /\ UNCHANGED <<merchantId, page, acts>>

(* The plans are listed again; an error leaves the form open.                 *)
SaveAnswered(i) ==
  /\ Arrived(i, "save")
  /\ IF request[i].ok THEN GoesOn(i, Job("plans", "list", None, None)) ELSE Ends(i)
  /\ UNCHANGED page /\ Handled

(* The users are listed again.                                                *)
UserDeleted(i) == Arrived(i, "user") /\ Ends(i) /\ UNCHANGED page /\ Handled

(* The merchants are listed again, a table without state of its own here.     *)
AdminAnswered(i) ==
  /\ Arrived(i, "assign") \/ Arrived(i, "delete")
  /\ Ends(i) /\ UNCHANGED page /\ Handled

----------------------------------------------------------------------------
Serves(i) ==
  \/ GetCurrentSubscription(i) \/ CheckPaymentLimit(i) \/ CreatePayment(i) \/ CreatePeriod(i)
  \/ IncrementPaymentUsage(i) \/ UpgradeReadsPlan(i) \/ CreateSubscription(i)
  \/ CreateInvoice(i) \/ CancelSubscription(i) \/ AssignMerchantPlan(i)
  \/ AdminDeleteMerchant(i) \/ AdminDeleteUser(i) \/ UpdatePlan(i) \/ ListAllPlans(i)

Answered(i) ==
  \/ Dropped(i) \/ DataLoaded(i) \/ UpgradeAnswered(i) \/ CancelAnswered(i)
  \/ PlansListed(i) \/ SaveAnswered(i) \/ AdminAnswered(i) \/ UserDeleted(i)

Next ==
  \/ \E i \in Slots : Serves(i) \/ Answered(i) \/ Fails(i)
  \/ \E m \in Merchants : PaymentAsked(m) \/ PaymentSucceeds(m) \/ ShowPage(m)
  \/ \E n \in DOMAIN subs : HandlePaymentWebhook(n)
  \/ \E p \in Plans : handleUpgrade(p) \/ handleSubmit(p)
  \/ \E m \in Merchants, p \in Plans : handleAssignPlan(m, p)
  \/ \E m \in Merchants : handleDeleteMerchant(m)
  \/ handleCancel \/ OpenAdminPage \/ handleDeleteUser

Spec == Init /\ [][Next]_vars
----------------------------------------------------------------------------
PlanRows == [price : {0, 1}, active : BOOLEAN]
Views == [plan : Plans \cup {None}, status : LiveStatuses \cup {"none"}, renew : BOOLEAN]

TypeOK ==
  /\ plan \in [Plans -> PlanRows] /\ adminRows \in [Plans -> PlanRows]
  /\ wanted \in [Plans -> PlanRows]
  /\ subs \in Seq([merchant : Merchants, plan : Plans, status : LiveStatuses \cup {"cancelled"},
                   renew : BOOLEAN, by : {"self", "admin"}, price : {0, 1}, first : {0, 1},
                   invoice : {"none", "open", "paid"}, metadata : 0..Len(subs), late : BOOLEAN])
  /\ \A m \in Merchants : Cardinality(Live(m)) <= 1
  /\ usage \in [Merchants -> NoRow..MaxActs]
  /\ open \in [Merchants -> 0..MaxActs] /\ done \in [Merchants -> 0..MaxActs]
  /\ \A m \in Merchants : open[m] + done[m] <= asked
  /\ asked \in 0..MaxActs
  /\ state \in [Merchants -> {"live", "cleaned", "gone"}] /\ owner \in BOOLEAN /\ merchantId \in Merchants
  /\ loading \in BOOLEAN /\ upgrading \in Plans \cup {None}
  /\ shown \in [view : Views, offers : SUBSET Plans]
  /\ raced \in BOOLEAN /\ adminActs \in 0..MaxActs
  /\ faults \in 0..MaxTrouble /\ hasty \in 0..MaxTrouble

(* However upgrades, edits of the price and assignments interleave, no        *)
(* merchant has a plan active that cost something when it was taken, unless   *)
(* its invoice was paid or an administrator assigned it: the row's status     *)
(* follows from the same read as its insert, not from the earlier one.        *)
PaidPlansArePaid ==
  \A m \in Merchants : \A n \in Live(m) :
    subs[n].status = "active" /\ subs[n].by = "self" /\ subs[n].price > 0 =>
      subs[n].invoice = "paid"

(* A merchant that waits for a payment has an invoice to pay, once the        *)
(* upgrade is over, unless a statement failed or the price was edited between *)
(* the two reads of the plan; and one with a free plan has none.              *)
Underway(n) == \E i \in Slots : request[i] # Free /\ request[i].row = n
InvoiceAsPriced ==
  faults = 0 => \A m \in Merchants : \A n \in Live(m) :
    subs[n].by = "self" /\ subs[n].first = subs[n].price /\ ~Underway(n) =>
      (subs[n].invoice = "none" <=> subs[n].price = 0)

(* Every successful payment is counted against the month, unless a statement  *)
(* failed or two requests found the month's row missing.                      *)
PaymentsCounted ==
  faults = 0 /\ ~raced /\ Quiet => \A m \in Merchants :
    done[m] = IF usage[m] = NoRow THEN 0 ELSE usage[m]

(* A payment asked for with the month's payments used up is refused, unless   *)
(* the administrator acts or the check itself fails.                          *)
RefusedAtLimit ==
  faults = 0 => \A i \in Slots :
    At(i, "pay", "insert") /\ request[i].full => request[i].acts # adminActs

(* A deletion leaves the merchant no subscription that it had before, active  *)
(* or waiting for its payment.                                                *)
DeletedKeepsNone ==
  \A m \in Merchants : state[m] = "gone" => \A n \in Live(m) : subs[n].late

(* With everything answered and no administrator at work, the page shows a    *)
(* user who waits the subscription the chosen merchant has.                   *)
ShownIsOwn ==
  Quiet /\ hasty = 0 /\ faults = 0 /\ adminActs = 0 =>
    ~loading /\ upgrading = None /\ shown.view = ViewOf(merchantId)

(* An edit of a plan does not take an earlier edit back: the form starts from *)
(* rows listed after the last one was saved.                                  *)
EditsStand == Quiet /\ hasty = 0 /\ faults = 0 => plan = wanted

(* A plan with a price is paid for, by an invoice of that price.              *)
PlansArePaidFor == PaidPlansArePaid /\ InvoiceAsPriced

(* The limit is one on successful payments: all count, and none is asked for  *)
(* beyond it.                                                                 *)
LimitHolds == PaymentsCounted /\ RefusedAtLimit

(* Neither page works on what is not so any more.                             *)
PagesAreTrue == ShownIsOwn /\ EditsStand

----------------------------------------------------------------------------
(* What the code, or a text about it, lets one expect and it does not do.     *)

(* Once its invoice is paid, a subscription does not wait for it any more.    *)
PaidIsActivated ==
  \A n \in DOMAIN subs : subs[n].invoice = "paid" => subs[n].status # "pending"

(* A user who waits and takes another plan on offer gets it or its invoice.   *)
UpgradeAccepted ==
  hasty = 0 /\ faults = 0 /\ adminActs = 0 =>
    \A i \in Slots : AnswerOf(i, "upgrade") => request[i].ok

(* A merchant with a subscription can ask for payments below its limit.       *)
PlanStaysUsable ==
  \A m \in Merchants : Live(m) # {} => plan[ViewOf(m).plan].active

(* Every successful payment is counted, whoever makes the month's row.        *)
AllCounted ==
  faults = 0 /\ Quiet => \A m \in Merchants : done[m] = IF usage[m] = NoRow THEN 0 ELSE usage[m]
============================================================================
