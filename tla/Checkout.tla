------------------------------ MODULE Checkout ------------------------------
(* The payment page of one invoice, from its creation until it is locked:   *)
(* concurrent requests assign a customer, choose or change the currency     *)
(* (each choice is a transaction of its own) and lock the form, while the   *)
(* expiry job fails an invoice nobody finished.  SetPaymentMethod runs      *)
(* under an advisory lock that lives in a database transaction and so holds *)
(* a pooled connection; every query inside takes one more.                  *)
EXTENDS Integers, Sequences, FiniteSets, FiniteSetsExt

CONSTANTS
  Methods,      \* currencies the merchant accepts
  Requests,     \* requests of the payment page that may run at once
  NoRequest,    \* "the advisory lock is free"
  PoolSize,     \* pool_max_conns
  MaxChoices,   \* bound: how often a currency is chosen
  MaxAborts     \* bound: failing rate providers, dying requests and jobs

ASSUME NoRequestAssumption == NoRequest \notin Requests
ASSUME BoundsAssumption == PoolSize \in Nat /\ MaxChoices \in Nat /\ MaxAborts \in Nat

VARIABLES
  paymentStatus, \* payments.status
  customer,      \* payments.customer_id is set
  txs,           \* the invoice's transactions, ordered by id
  due,           \* its deadline, grace period included, has passed
  holder,        \* who holds the advisory lock on the payment
  request,       \* how far each request is
  expirer,       \* how far the expiry job is
  choices, aborts

checkoutVars ==
  <<paymentStatus, customer, txs, due, holder, request, expirer, choices, aborts>>
rows == <<paymentStatus, customer, txs>>

(* What a request is about to do.  From "latest" to "create" it holds the   *)
(* advisory lock.                                                           *)
Locked == {"latest", "cancel", "cancelRow", "create"}
RequestSteps == {"idle", "assign", "connect", "wait", "lock"} \cup Locked
ExpirerSteps == {"idle", "loaded", "cancel", "cancelRow", "fail"}

TxRow == [method : Methods, status : {"pending", "canceled"}]
Job(pc, tx) == [pc |-> pc, tx |-> tx]
Idle == [pc |-> "idle"]
Choosing(pc, m, tx) == [pc |-> pc, method |-> m, tx |-> tx]
RequestStates ==
  {Idle} \cup [pc : RequestSteps \ {"idle"}, method : Methods, tx : Nat]

(* Pooled connections held by a request or job between its queries: one for *)
(* the transaction of the advisory lock, one for the transaction that       *)
(* Cancel opens around a statement it sends over yet another connection.    *)
HeldBy(pc) == CASE pc = "cancelRow" -> 2
                [] pc \in {"wait", "latest", "cancel", "create"} -> 1
                [] OTHER -> 0
Free == PoolSize - MapThenSumSet(LAMBDA r : HeldBy(request[r].pc), Requests)
                 - (IF expirer.pc = "cancelRow" THEN 1 ELSE 0)
CanQuery == Free > 0

Live(i) == txs[i].status = "pending"
NoneLive == txs # <<>> => ~Live(Len(txs))

CheckoutInit ==
  /\ paymentStatus = "pending"
  /\ customer = FALSE
  /\ txs = <<>>
  /\ due = FALSE
  /\ holder = NoRequest
  /\ request = [r \in Requests |-> Idle]
  /\ expirer = Job("idle", 0)
  /\ choices = 0 /\ aborts = 0

PassTime ==
  /\ ~due
  /\ due' = TRUE
  /\ UNCHANGED <<rows, holder, request, expirer, choices, aborts>>

-----------------------------------------------------------------------------
(* The payment page                                                         *)

RequestTakes(r, step) == request' = [request EXCEPT ![r] = step]

(* Mutant: the lock belongs to the session and outlives the transaction.    *)
EndsLocked(r) == RequestTakes(r, Idle) /\ UNCHANGED holder

(* The lock goes with the database transaction that took it.                *)
Ends(r) == RequestTakes(r, Idle) /\ holder' = NoRequest

(* Every handler first loads the payment; an editable one is acted upon on  *)
(* the strength of that read.                                               *)
Loads(r) == request[r].pc = "idle" /\ paymentStatus = "pending" /\ CanQuery

AssignRead(r) ==
  /\ Loads(r)
  /\ ~customer
  /\ \E m \in Methods : RequestTakes(r, Choosing("assign", m, 0))
  /\ UNCHANGED <<rows, due, holder, expirer, choices, aborts>>

AssignCustomer(r) ==
  /\ request[r].pc = "assign"
  /\ CanQuery
  /\ customer' = TRUE
  /\ RequestTakes(r, Idle)
  /\ UNCHANGED <<paymentStatus, txs, due, holder, expirer, choices, aborts>>

ChooseMethod(r, m) ==
  /\ Loads(r)
  /\ choices < MaxChoices
  /\ choices' = choices + 1
  /\ RequestTakes(r, Choosing("connect", m, 0))
  /\ UNCHANGED <<rows, due, holder, expirer, aborts>>

OpenLockTransaction(r) ==
  /\ request[r].pc = "connect"
  /\ CanQuery
  /\ request' = [request EXCEPT ![r].pc = "wait"]
  /\ UNCHANGED <<rows, due, holder, expirer, choices, aborts>>

(* Mutant: the lock's key does not identify the payment.                    *)
AcquireLockAnyway(r) ==
  /\ request[r].pc = "wait"
  /\ holder' = r
  /\ request' = [request EXCEPT ![r].pc = "latest"]
  /\ UNCHANGED <<rows, due, expirer, choices, aborts>>

AcquireLock(r) ==
  /\ request[r].pc = "wait"
  /\ holder = NoRequest
  /\ holder' = r
  /\ request' = [request EXCEPT ![r].pc = "latest"]
  /\ UNCHANGED <<rows, due, expirer, choices, aborts>>

(* The lock is granted: what happens depends on the latest transaction.     *)
ReadLatest(r) ==
  /\ request[r].pc = "latest"
  /\ CanQuery
  /\ \/ /\ NoneLive
        /\ RequestTakes(r, Choosing("create", request[r].method, 0))
        /\ UNCHANGED holder
     \/ /\ ~NoneLive
        /\ txs[Len(txs)].method = request[r].method
        /\ Ends(r)
     \/ /\ ~NoneLive
        /\ txs[Len(txs)].method # request[r].method
        /\ RequestTakes(r, Choosing("cancel", request[r].method, Len(txs)))
        /\ UNCHANGED holder
  /\ UNCHANGED <<rows, due, expirer, choices, aborts>>

OpenCancel(r) ==
  /\ request[r].pc = "cancel"
  /\ CanQuery
  /\ request' = [request EXCEPT ![r].pc = "cancelRow"]
  /\ UNCHANGED <<rows, due, holder, expirer, choices, aborts>>

Canceled(i) ==
  [txs EXCEPT ![i] = [method |-> txs[i].method, status |-> "canceled"]]

CancelReplaced(r) ==
  /\ request[r].pc = "cancelRow"
  /\ CanQuery
  /\ txs' = Canceled(request[r].tx)
  /\ request' = [request EXCEPT ![r].pc = "create"]
  /\ UNCHANGED <<paymentStatus, customer, due, holder, expirer, choices, aborts>>

CreateTransaction(r) ==
  /\ request[r].pc = "create"
  /\ CanQuery
  /\ txs' = Append(txs, [method |-> request[r].method, status |-> "pending"])
  /\ Ends(r)
  /\ UNCHANGED <<paymentStatus, customer, due, expirer, choices, aborts>>

(* LockPaymentOptions: a customer and some transaction are there.           *)
LockRead(r) ==
  /\ Loads(r)
  /\ customer /\ txs # <<>>
  /\ \E m \in Methods : RequestTakes(r, Choosing("lock", m, 0))
  /\ UNCHANGED <<rows, due, holder, expirer, choices, aborts>>

(* The update does not look at the status; it restarts the deadline.        *)
LockPaymentOptions(r) ==
  /\ request[r].pc = "lock"
  /\ CanQuery
  /\ paymentStatus' = "locked"
  /\ due' = FALSE
  /\ RequestTakes(r, Idle)
  /\ UNCHANGED <<customer, txs, holder, expirer, choices, aborts>>

(* A rate or wallet query fails, or the process dies: the transaction that  *)
(* carried the lock is rolled back, what other connections wrote stays.     *)
RequestAborts(r) ==
  /\ request[r].pc # "idle"
  /\ aborts < MaxAborts
  /\ aborts' = aborts + 1
  /\ RequestTakes(r, Idle)
  /\ holder' = IF holder = r THEN NoRequest ELSE holder
  /\ UNCHANGED <<rows, due, expirer, choices>>

RequestContinues(r) ==
  \/ AssignCustomer(r) \/ OpenLockTransaction(r) \/ AcquireLock(r)
  \/ ReadLatest(r) \/ OpenCancel(r) \/ CancelReplaced(r)
  \/ CreateTransaction(r) \/ LockPaymentOptions(r)

RequestNext(r) ==
  \/ AssignRead(r) \/ (\E m \in Methods : ChooseMethod(r, m)) \/ LockRead(r)
  \/ RequestContinues(r) \/ RequestAborts(r)

-----------------------------------------------------------------------------
(* The expiry job                                                           *)

ExpireLoad ==
  /\ expirer.pc = "idle"
  /\ paymentStatus \in {"pending", "locked"} /\ due
  /\ CanQuery
  /\ expirer' = Job("loaded", 0)
  /\ UNCHANGED <<rows, due, holder, request, choices, aborts>>

(* Mutant: an invoice without a transaction ends the job in an error.       *)
ExpireReadLatestStrict ==
  /\ expirer.pc = "loaded"
  /\ CanQuery
  /\ expirer' = IF txs = <<>> THEN Job("idle", 0)
                ELSE IF NoneLive THEN Job("fail", 0) ELSE Job("cancel", Len(txs))
  /\ UNCHANGED <<rows, due, holder, request, choices, aborts>>

ExpireReadLatest ==
  /\ expirer.pc = "loaded"
  /\ CanQuery
  /\ expirer' = IF NoneLive THEN Job("fail", 0) ELSE Job("cancel", Len(txs))
  /\ UNCHANGED <<rows, due, holder, request, choices, aborts>>

ExpireOpenCancel ==
  /\ expirer.pc = "cancel"
  /\ CanQuery
  /\ expirer' = [expirer EXCEPT !.pc = "cancelRow"]
  /\ UNCHANGED <<rows, due, holder, request, choices, aborts>>

ExpireCancel ==
  /\ expirer.pc = "cancelRow"
  /\ CanQuery
  /\ txs' = Canceled(expirer.tx)
  /\ expirer' = Job("fail", 0)
  /\ UNCHANGED <<paymentStatus, customer, due, holder, request, choices, aborts>>

ExpireFail ==
  /\ expirer.pc = "fail"
  /\ CanQuery
  /\ paymentStatus' = "failed"
  /\ expirer' = Job("idle", 0)
  /\ UNCHANGED <<customer, txs, due, holder, request, choices, aborts>>

ExpirerAborts ==
  /\ expirer.pc # "idle"
  /\ aborts < MaxAborts
  /\ aborts' = aborts + 1
  /\ expirer' = Job("idle", 0)
  /\ UNCHANGED <<rows, due, holder, request, choices>>

ExpirerContinues ==
  ExpireLoad \/ ExpireReadLatest \/ ExpireOpenCancel \/ ExpireCancel \/ ExpireFail

-----------------------------------------------------------------------------

CheckoutNext ==
  \/ PassTime
  \/ \E r \in Requests : RequestNext(r)
  \/ ExpirerContinues \/ ExpirerAborts

CheckoutSpec == CheckoutInit /\ [][CheckoutNext]_checkoutVars

(* The database grants the advisory lock, and the pool its connections, in  *)
(* the order they were asked for, so a started request is not passed over   *)
(* for ever; the expiry job is a cron entry.  What customers do is open.    *)
FairCheckoutSpec ==
  /\ CheckoutSpec
  /\ WF_checkoutVars(PassTime)
  /\ WF_checkoutVars(ExpirerContinues)
  /\ \A r \in Requests : SF_checkoutVars(RequestContinues(r))

-----------------------------------------------------------------------------
(* Properties                                                               *)

CheckoutTypeOK ==
  /\ paymentStatus \in {"pending", "locked", "failed"}
  /\ customer \in BOOLEAN
  /\ txs \in Seq(TxRow)
  /\ due \in BOOLEAN
  /\ holder \in Requests \cup {NoRequest}
  /\ request \in [Requests -> RequestStates]
  /\ expirer \in [pc : ExpirerSteps, tx : Nat]
  /\ choices \in Nat /\ aborts \in Nat

(* However many requests choose a currency at once, and wherever one of     *)
(* them dies, only the newest transaction of an invoice can be live: the    *)
(* watcher never waits for two amounts of one invoice.                      *)
OnlyNewestLive == \A i \in 1..Len(txs) : Live(i) => i = Len(txs)

(* With more connections than concurrent work can hold, every request and   *)
(* with it the advisory lock comes to an end.                               *)
RequestsEnd == \A r \in Requests : request[r].pc # "idle" ~> request[r].pc = "idle"

(* An invoice nobody pays fails in the end, whatever its customer did.      *)
UnpaidFails == paymentStatus \in {"pending", "locked"} ~> paymentStatus = "failed"

(* The advisory lock is given back.                                         *)
LockReleased == holder # NoRequest ~> holder = NoRequest

(* The customer of a locked invoice is shown a transaction that is watched, *)
(* unless the expiry job is about to fail the invoice.                      *)
LockedIsPayable == paymentStatus = "locked" /\ expirer.pc = "idle" => ~NoneLive

(* Locking an invoice ends the editing of its currency.                     *)
LockEndsEditing == [][paymentStatus = "locked" => Len(txs') = Len(txs)]_checkoutVars

(* A failed invoice is not reopened by its customer.                        *)
FailedStays == [][paymentStatus = "failed" => paymentStatus' = "failed"]_checkoutVars

=============================================================================
