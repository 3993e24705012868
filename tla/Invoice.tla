------------------------------ MODULE Invoice ------------------------------
(***************************************************************************)
(* The life of ONE customer invoice: a payment, the incoming transaction   *)
(* that carries its expected amount, the fills (on-chain transfers) booked *)
(* against it, and the merchant's balance.  The code updates these rows    *)
(* from five kinds of actor that share nothing but the database and lock   *)
(* nothing between a read and the write that depends on it:                *)
(*                                                                         *)
(*   pollers    watchPendingAddresses -> ProcessInboundTransaction, and    *)
(*              the administrator's reconcile call                         *)
(*   checkers   checkIncomingTransactionsProgress                          *)
(*   expirers   cancelExpiredPayments                                      *)
(*   rechecker  recheckPartialFills                                        *)
(*   merchants  ResolvePayment and DeclinePayment requests                 *)
(*                                                                         *)
(* Every SQL statement (or DB transaction) is one action; a process keeps  *)
(* what it read in its own record, so another actor may run between any    *)
(* two of its statements.  A process may die, or get an error, after any   *)
(* statement (Abort), at most MaxFaults times.                             *)
(***************************************************************************)
EXTENDS Integers

CONSTANTS
  Transfers,      \* the on-chain transfers the customer may make
  NoTransfer,     \* "no hash": a NULL transaction_hash, a fill not found
  Amount,         \* Amount[t]: what transfer t is worth
  Expected,       \* transactions.amount of the invoice
  Tolerances,     \* what $0.10 may convert to at the live exchange rate
  ServiceFee,     \* transactions.service_fee
  Pollers,        \* executions of the watcher's callback that may overlap
  Checkers,       \* executions of the receipt check that may overlap
  Expirers,       \* executions of the expiry job that may overlap
  Merchants,      \* merchant requests that may overlap
  RpcFaults,      \* TRUE when a receipt query may fail transiently
  LookupFaults,   \* TRUE when a query whose error the code drops may fail
  MaxFaults,      \* bound on crashes and failed statements
  MaxReconciles   \* bound on administrator reconcile calls

ASSUME ConstantsAssumption ==
  /\ NoTransfer \notin Transfers
  /\ Amount \in [Transfers -> Nat \ {0}]
  /\ Expected \in Nat \ {0}
  /\ Tolerances \in SUBSET Nat
  /\ ServiceFee \in Nat
  /\ RpcFaults \in BOOLEAN /\ LookupFaults \in BOOLEAN
  /\ MaxFaults \in Nat
  /\ MaxReconciles \in Nat

VARIABLES
  payment,       \* payments.status
  window,        \* where now() stands: before expires_at, within the 30
                 \* minutes of grace after it, or past them
  tx,            \* the transactions row: status, fact amount and hash
  fill,          \* transaction_fills.status per transfer
  confirmedSum,  \* SELECT SUM(amount) ... WHERE status = 'confirmed'
  bookedSum,     \* history: the amounts of all fills ever inserted
  firstFill,     \* the fill with the lowest observed_at
  balance,       \* the merchant's balance in the invoice's currency
  auditLog,      \* how many rows each credit path wrote to the audit log
  chain,         \* what a full node would answer about each transfer
  poller, checker, expirer, rechecker, merchant,   \* local state
  faults, reconciles                               \* what was used up

rows  == <<payment, tx, fill, confirmedSum, bookedSum, firstFill>>
money == <<balance, auditLog>>
jobs  == <<poller, checker, expirer, rechecker, merchant>>
env   == <<window, chain, faults, reconciles>>
vars  == <<rows, money, jobs, env>>

-----------------------------------------------------------------------------
(* Statuses and records                                                    *)

PaymentStatuses ==
  {"pending", "locked", "partial", "inProgress", "underpaid", "success",
   "failed"}

WaitingStatuses == {"pending", "locked", "partial"}

TxInProgress == {"inProgress", "inProgressInv"}
TxStatuses == TxInProgress \cup
  {"pending", "completed", "completedInv", "canceled", "failed"}

FillStatuses == {"none", "confirmed", "reorged"}

(* "mined": in a block, not deep enough to be confirmed; "final": confirmed*)
(* and successful; "reverted": confirmed and failed; "orphaned": gone.     *)
ChainStates == {"none", "mined", "final", "reverted", "orphaned"}

TransferOrNone == Transfers \cup {NoTransfer}

TxRows == [status : TxStatuses, fact : Int, hash : TransferOrNone]

(* A poller works on one transfer from the moment it found it.             *)
PollerStates ==
  [pc : {"idle", "listed"}, t : {NoTransfer}, sum : {0}, st : {"inProgress"}]
  \cup
  [pc  : {"found", "recordPartial", "markPartial", "recordFinal", "receive",
          "setInProgress"},
   t   : Transfers,
   sum : Int,
   st  : TxInProgress]

CheckerStates ==
  [pc   : {"idle", "confirm", "write", "setPayment", "cancel", "fail"},
   st   : TxInProgress,
   hash : TransferOrNone,
   fact : Int]

(* An expirer remembers the status it loaded, whether the grace period was *)
(* over, and the sum it read.                                              *)
ExpirerStates ==
  [pc   : {"idle", "listed", "loaded", "receive", "underpaid", "cancel", "fail"},
   st   : WaitingStatuses,
   over : BOOLEAN,
   sum  : Int]

MerchantStates ==
  {"idle", "resolveFailed", "resolveUnderpaid", "credit", "decline"}

IdlePoller   == [pc |-> "idle", t |-> NoTransfer, sum |-> 0, st |-> "inProgress"]
ListedPoller == [pc |-> "listed", t |-> NoTransfer, sum |-> 0, st |-> "inProgress"]
FoundPoller(t) == [pc |-> "found", t |-> t, sum |-> 0, st |-> "inProgress"]
IdleChecker == [pc |-> "idle", st |-> "inProgress", hash |-> NoTransfer, fact |-> 0]
Expiring(pc, sum) == [pc |-> pc, st |-> "locked", over |-> FALSE, sum |-> sum]
IdleExpirer == Expiring("idle", 0)

(* The customer has chosen a currency and locked the payment: the row      *)
(* waits for money.                                                        *)
Init ==
  /\ payment = "locked"
  /\ window = "open"
  /\ tx = [status |-> "pending", fact |-> 0, hash |-> NoTransfer]
  /\ fill = [t \in Transfers |-> "none"]
  /\ confirmedSum = 0
  /\ bookedSum = 0
  /\ firstFill = NoTransfer
  /\ balance = 0
  /\ auditLog = [confirm |-> 0, resolve |-> 0]
  /\ chain = [t \in Transfers |-> "none"]
  /\ poller = [p \in Pollers |-> IdlePoller]
  /\ checker = [c \in Checkers |-> IdleChecker]
  /\ expirer = [e \in Expirers |-> IdleExpirer]
  /\ rechecker = NoTransfer
  /\ merchant = [m \in Merchants |-> "idle"]
  /\ faults = 0
  /\ reconciles = 0

-----------------------------------------------------------------------------
(* The world outside: the customer's wallet, the chain and the clock       *)

Send(t) ==
  /\ chain[t] = "none"
  /\ chain' = [chain EXCEPT ![t] = "mined"]
  /\ UNCHANGED <<rows, money, jobs, window, faults, reconciles>>

Settle(t) ==
  /\ chain[t] = "mined"
  /\ \E outcome \in {"final", "reverted", "orphaned"} :
       chain' = [chain EXCEPT ![t] = outcome]
  /\ UNCHANGED <<rows, money, jobs, window, faults, reconciles>>

PassTime ==
  /\ \/ window = "open" /\ window' = "grace"
     \/ window = "grace" /\ window' = "over"
  /\ UNCHANGED <<rows, money, jobs, chain, faults, reconciles>>

-----------------------------------------------------------------------------
(* Pollers: from the watcher's list to ProcessInboundTransaction           *)

(* Mutant: the fills table without its unique constraint.                  *)
RecordFillTwice(t) ==
  /\ fill' = [fill EXCEPT ![t] = "confirmed"]
  /\ confirmedSum' = confirmedSum + Amount[t]
  /\ bookedSum' = IF fill[t] = "none" THEN bookedSum + Amount[t] ELSE bookedSum
  /\ firstFill' = IF firstFill = NoTransfer THEN t ELSE firstFill

(* Inserting a fill, or meeting the unique constraint: an existing row     *)
(* keeps its amount and is (again) confirmed.                              *)
RecordFill(t) ==
  /\ fill' = [fill EXCEPT ![t] = "confirmed"]
  /\ confirmedSum' =
       IF fill[t] = "confirmed" THEN confirmedSum ELSE confirmedSum + Amount[t]
  /\ bookedSum' = IF fill[t] = "none" THEN bookedSum + Amount[t] ELSE bookedSum
  /\ firstFill' = IF firstFill = NoTransfer THEN t ELSE firstFill

(* Is a received sum enough, at a rate where $0.10 is worth tol?           *)
Crosses(received, tol) == received + tol >= Expected

(* Mutant: the watcher's list without its status and hash filters.         *)
PollListAll(p) ==
  /\ poller[p].pc = "idle"
  /\ poller' = [poller EXCEPT ![p] = ListedPoller]
  /\ UNCHANGED <<rows, money, checker, expirer, rechecker, merchant, env>>

PollList(p) ==
  /\ poller[p].pc = "idle"
  /\ tx.status = "pending" /\ tx.hash = NoTransfer
  /\ poller' = [poller EXCEPT ![p] = ListedPoller]
  /\ UNCHANGED <<rows, money, checker, expirer, rechecker, merchant, env>>

(* The scan ends with nothing new for this invoice: no transfer, dust, or  *)
(* only transfers that are already bound or recorded.                      *)
PollNothing(p) ==
  /\ poller[p].pc = "listed"
  /\ poller' = [poller EXCEPT ![p] = IdlePoller]
  /\ UNCHANGED <<rows, money, checker, expirer, rechecker, merchant, env>>

(* Mutant: the duplicate check without its second leg (recorded fills).    *)
DetectBoundOnly(p, t) ==
  /\ poller[p].pc = "listed"
  /\ chain[t] \in {"mined", "final", "reverted"}
  /\ tx.hash # t \/ LookupFaults
  /\ poller' = [poller EXCEPT ![p] = FoundPoller(t)]
  /\ UNCHANGED <<rows, money, checker, expirer, rechecker, merchant, env>>

(* A transfer the scan attributes to the invoice passes both legs of the   *)
(* watcher's duplicate check; a leg whose query fails lets it pass.        *)
Detect(p, t) ==
  /\ poller[p].pc = "listed"
  /\ chain[t] \in {"mined", "final", "reverted"}
  /\ tx.hash # t \/ LookupFaults
  /\ fill[t] = "none" \/ LookupFaults
  /\ poller' = [poller EXCEPT ![p] = FoundPoller(t)]
  /\ UNCHANGED <<rows, money, checker, expirer, rechecker, merchant, env>>

(* An administrator attributes a transfer by hand: neither the duplicate   *)
(* check nor the status of the transaction stands in the way.              *)
AdminReconcileFill(p, t) ==
  /\ poller[p].pc = "idle"
  /\ chain[t] # "none"
  /\ reconciles < MaxReconciles
  /\ reconciles' = reconciles + 1
  /\ poller' = [poller EXCEPT ![p] = FoundPoller(t)]
  /\ UNCHANGED <<rows, money, checker, expirer, rechecker, merchant,
                 window, chain, faults>>

(* ProcessInboundTransaction: add the transfer to the confirmed fills and  *)
(* compare with the expected amount.  A promotion compares once more, at a *)
(* freshly converted tolerance, to choose the status.                      *)
ProcessInboundTransaction(p) ==
  LET t == poller[p].t
      combined == confirmedSum + Amount[t]
  IN
  /\ poller[p].pc = "found"
  /\ \/ /\ \E tol \in Tolerances : ~Crosses(combined, tol)
        /\ poller' = [poller EXCEPT ![p] =
             [pc |-> "recordPartial", t |-> t, sum |-> combined, st |-> "inProgress"]]
     \/ /\ \E tol \in Tolerances : Crosses(combined, tol)
        /\ \E tol \in Tolerances :
             poller' = [poller EXCEPT ![p] =
               [pc |-> "recordFinal", t |-> t, sum |-> combined,
                st |-> IF Crosses(combined, tol)
                         THEN "inProgress" ELSE "inProgressInv"]]
  /\ UNCHANGED <<rows, money, checker, expirer, rechecker, merchant, env>>

RecordPartialFill(p) ==
  /\ poller[p].pc = "recordPartial"
  /\ RecordFill(poller[p].t)
  /\ poller' = [poller EXCEPT ![p].pc = "markPartial"]
  /\ UNCHANGED <<payment, tx, money, checker, expirer, rechecker, merchant, env>>

(* Flips the payment to partial whatever its status is and moves           *)
(* expires_at at least half an hour ahead.                                 *)
MarkPartial(p) ==
  /\ poller[p].pc = "markPartial"
  /\ payment' = "partial"
  /\ window' = "open"
  /\ poller' = [poller EXCEPT ![p] = IdlePoller]
  /\ UNCHANGED <<tx, fill, confirmedSum, bookedSum, firstFill, money, checker,
                 expirer, rechecker, merchant, chain, faults, reconciles>>

RecordFinalFill(p) ==
  /\ poller[p].pc = "recordFinal"
  /\ RecordFill(poller[p].t)
  /\ poller' = [poller EXCEPT ![p].pc = "receive"]
  /\ UNCHANGED <<payment, tx, money, checker, expirer, rechecker, merchant, env>>

(* Receive overwrites status, fact amount and hash of the row, whatever    *)
(* its status has become.  Only a promotion to inProgress goes on to the   *)
(* payment.                                                                *)
Receive(p) ==
  /\ poller[p].pc = "receive"
  /\ tx' = [status |-> poller[p].st, fact |-> poller[p].sum, hash |-> poller[p].t]
  /\ poller' = IF poller[p].st = "inProgress"
                 THEN [poller EXCEPT ![p].pc = "setInProgress"]
                 ELSE [poller EXCEPT ![p] = IdlePoller]
  /\ UNCHANGED <<payment, fill, confirmedSum, bookedSum, firstFill, money,
                 checker, expirer, rechecker, merchant, env>>

SetInProgress(p) ==
  /\ poller[p].pc = "setInProgress"
  /\ payment' = "inProgress"
  /\ poller' = [poller EXCEPT ![p] = IdlePoller]
  /\ UNCHANGED <<tx, fill, confirmedSum, bookedSum, firstFill, money, checker,
                 expirer, rechecker, merchant, env>>

Polling(p) ==
  \/ PollList(p) \/ PollNothing(p) \/ ProcessInboundTransaction(p)
  \/ RecordPartialFill(p) \/ MarkPartial(p)
  \/ RecordFinalFill(p) \/ Receive(p) \/ SetInProgress(p)

PollerNext(p) ==
  \/ Polling(p)
  \/ \E t \in Transfers : Detect(p, t) \/ AdminReconcileFill(p, t)

-----------------------------------------------------------------------------
(* Checkers: the receipt of an in-progress transaction decides             *)

CheckerTakes(c, pc) ==
  checker' = [checker EXCEPT ![c] =
    [pc |-> pc, st |-> tx.status, hash |-> tx.hash, fact |-> tx.fact]]

(* Mutant: no 24h ceiling, an unconfirmed receipt is always looked at      *)
(* again later.                                                            *)
CheckIncomingForever(c) ==
  /\ checker[c].pc = "idle"
  /\ tx.status \in TxInProgress
  /\ tx.hash # NoTransfer
  /\ \/ chain[tx.hash] = "final" /\ CheckerTakes(c, "confirm")
     \/ chain[tx.hash] = "reverted" /\ CheckerTakes(c, "cancel")
  /\ UNCHANGED <<rows, money, poller, expirer, rechecker, merchant, env>>

(* Loading the transaction and fetching the receipt of its hash.  An       *)
(* unconfirmed or unobtainable receipt changes nothing until the row is    *)
(* 24h old, an age the clock may or may not have reached.                  *)
CheckIncoming(c) ==
  /\ checker[c].pc = "idle"
  /\ tx.status \in TxInProgress
  /\ tx.hash # NoTransfer
  /\ \/ chain[tx.hash] = "final" /\ CheckerTakes(c, "confirm")
     \/ chain[tx.hash] = "reverted" /\ CheckerTakes(c, "cancel")
     \/ /\ chain[tx.hash] \notin {"final", "reverted"} \/ RpcFaults
        /\ CheckerTakes(c, "cancel")
  /\ UNCHANGED <<rows, money, poller, expirer, rechecker, merchant, env>>

(* Mutant: the "invalid" mark is lost on confirmation.                     *)
ConfirmedStatusPlain(st) == "completed"

ConfirmedStatus(st) == IF st = "inProgress" THEN "completed" ELSE "completedInv"

(* confirm() reads the row without locking it; ErrSameStatus ends the job. *)
ConfirmRead(c) ==
  /\ checker[c].pc = "confirm"
  /\ checker' = IF tx.status = ConfirmedStatus(checker[c].st)
                  THEN [checker EXCEPT ![c] = IdleChecker]
                  ELSE [checker EXCEPT ![c].pc = "write"]
  /\ UNCHANGED <<rows, money, poller, expirer, rechecker, merchant, env>>

(* What a confirmed, sufficient transaction earns the merchant.            *)
Gained(received) == (IF received > Expected THEN Expected ELSE received) - ServiceFee

(* Mutant: confirm() keeps the hash it finds in the row.                   *)
ConfirmWriteRowHash(c) ==
  /\ checker[c].pc = "write"
  /\ tx' = [tx EXCEPT !.status = ConfirmedStatus(checker[c].st)]
  /\ IF checker[c].st = "inProgress"
       THEN /\ balance' = balance + Gained(checker[c].fact)
            /\ auditLog' = [auditLog EXCEPT !.confirm = @ + 1]
       ELSE UNCHANGED money
  /\ checker' = [checker EXCEPT ![c].pc = "setPayment"]
  /\ UNCHANGED <<payment, fill, confirmedSum, bookedSum, firstFill, poller,
                 expirer, rechecker, merchant, env>>

(* The update of the row and of the balances commit together.              *)
ConfirmWrite(c) ==
  /\ checker[c].pc = "write"
  /\ tx' = [status |-> ConfirmedStatus(checker[c].st),
            fact |-> checker[c].fact, hash |-> checker[c].hash]
  /\ IF checker[c].st = "inProgress"
       THEN /\ balance' = balance + Gained(checker[c].fact)
            /\ auditLog' = [auditLog EXCEPT !.confirm = @ + 1]
       ELSE UNCHANGED money
  /\ checker' = [checker EXCEPT ![c].pc = "setPayment"]
  /\ UNCHANGED <<payment, fill, confirmedSum, bookedSum, firstFill, poller,
                 expirer, rechecker, merchant, env>>

(* Mutant: the payment is given the status of its transaction.             *)
CheckerSetPaymentTx(c) ==
  /\ checker[c].pc = "setPayment"
  /\ payment' = tx.status
  /\ checker' = [checker EXCEPT ![c] = IdleChecker]
  /\ UNCHANGED <<tx, fill, confirmedSum, bookedSum, firstFill, money, poller,
                 expirer, rechecker, merchant, env>>

CheckerSetPayment(c) ==
  /\ checker[c].pc = "setPayment"
  /\ payment' = IF checker[c].st = "inProgress" THEN "success" ELSE "underpaid"
  /\ checker' = [checker EXCEPT ![c] = IdleChecker]
  /\ UNCHANGED <<tx, fill, confirmedSum, bookedSum, firstFill, money, poller,
                 expirer, rechecker, merchant, env>>

CancelIncoming(c) ==
  /\ checker[c].pc = "cancel"
  /\ tx' = [tx EXCEPT !.status = "failed"]
  /\ checker' = [checker EXCEPT ![c].pc = "fail"]
  /\ UNCHANGED <<payment, fill, confirmedSum, bookedSum, firstFill, money,
                 poller, expirer, rechecker, merchant, env>>

CheckerFailPayment(c) ==
  /\ checker[c].pc = "fail"
  /\ payment' = "failed"
  /\ checker' = [checker EXCEPT ![c] = IdleChecker]
  /\ UNCHANGED <<tx, fill, confirmedSum, bookedSum, firstFill, money, poller,
                 expirer, rechecker, merchant, env>>

CheckerNext(c) ==
  \/ CheckIncoming(c) \/ ConfirmRead(c) \/ ConfirmWrite(c)
  \/ CheckerSetPayment(c) \/ CancelIncoming(c) \/ CheckerFailPayment(c)

-----------------------------------------------------------------------------
(* Expirers: a payment whose expires_at has passed                         *)

(* Mutant: the expiry batch leaves partial payments out.                   *)
ExpireListUnpaid(e) ==
  /\ expirer[e].pc = "idle"
  /\ payment \in WaitingStatuses \ {"partial"}
  /\ window # "open"
  /\ expirer' = [expirer EXCEPT ![e].pc = "listed"]
  /\ UNCHANGED <<rows, money, poller, checker, rechecker, merchant, env>>

(* The batch query: payments that wait and whose expires_at has passed.    *)
ExpireList(e) ==
  /\ expirer[e].pc = "idle"
  /\ payment \in WaitingStatuses
  /\ window # "open"
  /\ expirer' = [expirer EXCEPT ![e].pc = "listed"]
  /\ UNCHANGED <<rows, money, poller, checker, rechecker, merchant, env>>

(* Loading the payment; one that no longer waits ends the job in an error. *)
ExpireLoad(e) ==
  /\ expirer[e].pc = "listed"
  /\ expirer' = [expirer EXCEPT ![e] =
       IF payment \in WaitingStatuses
         THEN [pc |-> "loaded", st |-> payment, over |-> window = "over", sum |-> 0]
         ELSE IdleExpirer]
  /\ UNCHANGED <<rows, money, poller, checker, rechecker, merchant, env>>

(* Within the grace period an unpaid or partly paid invoice is left alone  *)
(* while its transaction is pending.                                       *)
InGrace(e) ==
  tx.status = "pending" /\ ~expirer[e].over /\ expirer[e].st \in {"locked", "partial"}

(* Loading the transaction and, for a partial payment, the sum of its      *)
(* confirmed fills; an error of that query is taken for a sum of zero.     *)
ExpireDecide(e) ==
  /\ expirer[e].pc = "loaded"
  /\ \/ /\ InGrace(e)
        /\ expirer' = [expirer EXCEPT ![e] = IdleExpirer]
     \/ /\ ~InGrace(e)
        /\ \E sum \in {confirmedSum} \cup (IF LookupFaults THEN {0} ELSE {}) :
             expirer' = [expirer EXCEPT ![e] =
               IF expirer[e].st = "partial" /\ sum # 0
                 THEN Expiring("receive", sum)
                 ELSE Expiring(IF tx.status # "canceled"
                                 THEN "cancel" ELSE "fail", 0)]
  /\ UNCHANGED <<rows, money, poller, checker, rechecker, merchant, env>>

(* Received money goes to the merchant for a decision.  An error here is   *)
(* logged and the payment still becomes underpaid.                         *)
ExpireReceive(e) ==
  /\ expirer[e].pc = "receive"
  /\ \/ /\ tx' = [status |-> "inProgressInv", fact |-> expirer[e].sum,
                  hash |-> firstFill]
        /\ UNCHANGED faults
     \/ /\ faults < MaxFaults
        /\ faults' = faults + 1
        /\ UNCHANGED tx
  /\ expirer' = [expirer EXCEPT ![e].pc = "underpaid"]
  /\ UNCHANGED <<payment, fill, confirmedSum, bookedSum, firstFill, money,
                 poller, checker, rechecker, merchant, window, chain, reconciles>>

ExpireUnderpaid(e) ==
  /\ expirer[e].pc = "underpaid"
  /\ payment' = "underpaid"
  /\ expirer' = [expirer EXCEPT ![e] = IdleExpirer]
  /\ UNCHANGED <<tx, fill, confirmedSum, bookedSum, firstFill, money, poller,
                 checker, rechecker, merchant, env>>

ExpireCancel(e) ==
  /\ expirer[e].pc = "cancel"
  /\ tx' = [tx EXCEPT !.status = "canceled"]
  /\ expirer' = [expirer EXCEPT ![e].pc = "fail"]
  /\ UNCHANGED <<payment, fill, confirmedSum, bookedSum, firstFill, money,
                 poller, checker, rechecker, merchant, env>>

ExpireFail(e) ==
  /\ expirer[e].pc = "fail"
  /\ payment' = "failed"
  /\ expirer' = [expirer EXCEPT ![e] = IdleExpirer]
  /\ UNCHANGED <<tx, fill, confirmedSum, bookedSum, firstFill, money, poller,
                 checker, rechecker, merchant, env>>

ExpirerNext(e) ==
  \/ ExpireList(e) \/ ExpireLoad(e) \/ ExpireDecide(e)
  \/ ExpireReceive(e) \/ ExpireUnderpaid(e) \/ ExpireCancel(e) \/ ExpireFail(e)

-----------------------------------------------------------------------------
(* The rechecker: fills of a partial payment that left the chain           *)

(* A confirmed fill past its 30 minutes whose receipt is missing,          *)
(* unconfirmed, or could not be fetched.                                   *)
RecheckRead(t) ==
  /\ rechecker = NoTransfer
  /\ payment = "partial"
  /\ fill[t] = "confirmed"
  /\ chain[t] \notin {"final", "reverted"} \/ RpcFaults
  /\ rechecker' = t
  /\ UNCHANGED <<rows, money, poller, checker, expirer, merchant, env>>

MarkFillReorged ==
  /\ rechecker # NoTransfer
  /\ fill' = [fill EXCEPT ![rechecker] = "reorged"]
  /\ confirmedSum' = IF fill[rechecker] = "confirmed"
                       THEN confirmedSum - Amount[rechecker] ELSE confirmedSum
  /\ rechecker' = NoTransfer
  /\ UNCHANGED <<payment, tx, bookedSum, firstFill, money, poller, checker,
                 expirer, merchant, env>>

-----------------------------------------------------------------------------
(* Merchants: resolving and declining                                      *)

MerchantTakes(m, step) == merchant' = [merchant EXCEPT ![m] = step]

ResolveRead(m) ==
  /\ merchant[m] = "idle"
  /\ \/ payment = "failed" /\ MerchantTakes(m, "resolveFailed")
     \/ payment = "underpaid" /\ MerchantTakes(m, "resolveUnderpaid")
  /\ UNCHANGED <<rows, money, poller, checker, expirer, rechecker, env>>

ResolveUpdate(m) ==
  /\ merchant[m] \in {"resolveFailed", "resolveUnderpaid"}
  /\ payment' = "success"
  /\ MerchantTakes(m, IF merchant[m] = "resolveFailed" THEN "idle" ELSE "credit")
  /\ UNCHANGED <<tx, fill, confirmedSum, bookedSum, firstFill, money, poller,
                 checker, expirer, rechecker, env>>

(* An underpaid payment was resolved: credit whatever fact amount the row  *)
(* shows by now.                                                           *)
ResolveCredit(m) ==
  /\ merchant[m] = "credit"
  /\ IF tx.fact > 0
       THEN /\ balance' = balance + tx.fact
            /\ auditLog' = [auditLog EXCEPT !.resolve = @ + 1]
       ELSE UNCHANGED money
  /\ MerchantTakes(m, "idle")
  /\ UNCHANGED <<rows, poller, checker, expirer, rechecker, env>>

DeclineRead(m) ==
  /\ merchant[m] = "idle"
  /\ payment = "underpaid"
  /\ MerchantTakes(m, "decline")
  /\ UNCHANGED <<rows, money, poller, checker, expirer, rechecker, env>>

DeclineUpdate(m) ==
  /\ merchant[m] = "decline"
  /\ payment' = "failed"
  /\ MerchantTakes(m, "idle")
  /\ UNCHANGED <<tx, fill, confirmedSum, bookedSum, firstFill, money, poller,
                 checker, expirer, rechecker, env>>

MerchantNext(m) ==
  \/ ResolveRead(m) \/ ResolveUpdate(m) \/ ResolveCredit(m)
  \/ DeclineRead(m) \/ DeclineUpdate(m)

-----------------------------------------------------------------------------
(* A process dies, or its statement fails, between two steps               *)

Fault ==
  /\ faults < MaxFaults
  /\ faults' = faults + 1
  /\ UNCHANGED <<rows, money, window, chain, reconciles>>

PollerAbort(p) ==
  /\ poller[p].pc # "idle"
  /\ poller' = [poller EXCEPT ![p] = IdlePoller]
  /\ Fault
  /\ UNCHANGED <<checker, expirer, rechecker, merchant>>

CheckerAbort(c) ==
  /\ checker[c].pc # "idle"
  /\ checker' = [checker EXCEPT ![c] = IdleChecker]
  /\ Fault
  /\ UNCHANGED <<poller, expirer, rechecker, merchant>>

ExpirerAbort(e) ==
  /\ expirer[e].pc # "idle"
  /\ expirer' = [expirer EXCEPT ![e] = IdleExpirer]
  /\ Fault
  /\ UNCHANGED <<poller, checker, rechecker, merchant>>

RecheckerAbort ==
  /\ rechecker # NoTransfer
  /\ rechecker' = NoTransfer
  /\ Fault
  /\ UNCHANGED <<poller, checker, expirer, merchant>>

MerchantAbort(m) ==
  /\ merchant[m] # "idle"
  /\ MerchantTakes(m, "idle")
  /\ Fault
  /\ UNCHANGED <<poller, checker, expirer, rechecker>>

-----------------------------------------------------------------------------

Next ==
  \/ \E t \in Transfers : Send(t) \/ Settle(t) \/ RecheckRead(t)
  \/ PassTime
  \/ \E p \in Pollers : PollerNext(p) \/ PollerAbort(p)
  \/ \E c \in Checkers : CheckerNext(c) \/ CheckerAbort(c)
  \/ \E e \in Expirers : ExpirerNext(e) \/ ExpirerAbort(e)
  \/ MarkFillReorged \/ RecheckerAbort
  \/ \E m \in Merchants : MerchantNext(m) \/ MerchantAbort(m)

Spec == Init /\ [][Next]_vars

(* The jobs are cron entries: each keeps running, and a started execution  *)
(* goes on to its next statement unless the process dies.  Nothing is      *)
(* assumed of customers, administrators, merchants or the chain.           *)
FairSpec ==
  /\ Spec
  /\ WF_vars(PassTime)
  /\ \A p \in Pollers : WF_vars(Polling(p))
  /\ \A c \in Checkers : WF_vars(CheckerNext(c))
  /\ \A e \in Expirers : WF_vars(ExpirerNext(e))

-----------------------------------------------------------------------------
(* Properties                                                              *)

(* Every row and every local record holds a value of its type.             *)
TypeOK ==
  /\ payment \in PaymentStatuses
  /\ window \in {"open", "grace", "over"}
  /\ tx \in TxRows
  /\ fill \in [Transfers -> FillStatuses]
  /\ confirmedSum \in Int /\ bookedSum \in Int
  /\ firstFill \in TransferOrNone
  /\ balance \in Int
  /\ auditLog \in [confirm : Nat, resolve : Nat]
  /\ chain \in [Transfers -> ChainStates]
  /\ poller \in [Pollers -> PollerStates]
  /\ checker \in [Checkers -> CheckerStates]
  /\ expirer \in [Expirers -> ExpirerStates]
  /\ rechecker \in TransferOrNone
  /\ merchant \in [Merchants -> MerchantStates]
  /\ faults \in Nat /\ reconciles \in Nat

(* However pollers, checkers and expirers overlap or die, a completed      *)
(* transaction carries a hash whose receipt was confirmed and successful:  *)
(* confirmIncomingTransaction writes back the hash it fetched the receipt  *)
(* of, never the one the row shows by then.                                *)
CompletedIsFinal ==
  tx.status \in {"completed", "completedInv"} =>
    tx.hash \in Transfers /\ chain[tx.hash] = "final"

(* A transaction completed without the "invalid" mark received, up to the  *)
(* $0.10 tolerance, the expected amount: the status and the sum it was     *)
(* decided on travel together through Receive and Confirm.                 *)
CompletedIsCovered ==
  tx.status = "completed" =>
    \E tol \in Tolerances : Crosses(tx.fact, tol)

(* The fact amount never exceeds what distinct transfers delivered: no     *)
(* re-detected transfer is counted twice (the watcher's duplicate check    *)
(* together with the unique constraint on fills).                          *)
FactIsBooked == tx.fact <= bookedSum

Waiting == payment \in {"pending", "locked", "partial"}

(* An invoice comes to rest: at some time its payment waits for no more     *)
(* money and no transaction is in progress.  The expiry job takes a waiting *)
(* payment to a decision, although each partial fill extends its deadline,  *)
(* and a transaction in progress gets its receipt or, after the 24 hours of *)
(* checkIncomingTransaction, is canceled.                                   *)
ComesToRest ==
  Waiting \/ tx.status \in TxInProgress ~> ~Waiting /\ tx.status \notin TxInProgress

(* confirm() credits the merchant at most once for the invoice, although   *)
(* Receive may put a settled row back in progress.                         *)
ConfirmCreditsOnce == auditLog.confirm <= 1

(* What a merchant may decide on has been confirmed on the chain, as the   *)
(* status "underpaid" is documented.                                       *)
UnderpaidIsConfirmed == payment = "underpaid" => tx.status = "completedInv"

(* The merchant is never credited more than the customer sent: resolving   *)
(* an underpaid payment stands in for an increment that was skipped.       *)
CreditIsReceived == balance <= bookedSum

(* A receipt query that fails for a moment does not make the recheck give  *)
(* up a transfer that is confirmed on the chain.                           *)
RecheckSparesConfirmed ==
  [][rechecker = NoTransfer /\ rechecker' \in Transfers
       => chain[rechecker'] # "final"]_rechecker

(* A payment whose transfer is being confirmed reaches an outcome.         *)
PaymentSettles == payment = "inProgress" ~> payment # "inProgress"

(* A fill counts as confirmed only once the chain has confirmed it.        *)
ConfirmedFillIsFinal ==
  \A t \in Transfers : fill[t] = "confirmed" => chain[t] = "final"

=============================================================================
