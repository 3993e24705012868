--------------------------- MODULE InvoiceProofs ---------------------------
(***************************************************************************)
(* Theorems about Invoice, for every set of transfers, amounts, tolerances *)
(* and processes.  The first three hold however the jobs overlap; the last *)
(* two assume one execution of the watcher (and of the receipt check) at a *)
(* time and no administrator, and name those assumptions.                  *)
(***************************************************************************)
EXTENDS Invoice, TLAPS

-----------------------------------------------------------------------------
(* Updating the record of one process                                      *)

LEMMA PollerUpdate ==
  ASSUME TypeOK, NEW p \in Pollers,
         NEW v \in PollerStates, poller' = [poller EXCEPT ![p] = v]
  PROVE  /\ poller' \in [Pollers -> PollerStates]
         /\ poller'[p] = v
         /\ \A q \in Pollers : q # p => poller'[q] = poller[q]
  BY DEF TypeOK

LEMMA PollerStep ==
  ASSUME TypeOK, NEW p \in Pollers, poller[p].pc \notin {"idle", "listed"},
         NEW pc \in {"markPartial", "receive", "setInProgress"},
         poller' = [poller EXCEPT ![p].pc = pc]
  PROVE  /\ poller' \in [Pollers -> PollerStates]
         /\ poller'[p] = [poller[p] EXCEPT !.pc = pc]
         /\ \A q \in Pollers : q # p => poller'[q] = poller[q]
<1> DEFINE v == [poller[p] EXCEPT !.pc = pc]
<1>1. poller[p] \in PollerStates
  BY DEF TypeOK
<1>2. v \in PollerStates
  BY <1>1 DEF PollerStates
<1> HIDE DEF v
<1>3. poller' = [poller EXCEPT ![p] = v]
  BY DEF v
<1> QED
  BY <1>2, <1>3, PollerUpdate DEF v

LEMMA PollerWorks ==
  ASSUME TypeOK, NEW p \in Pollers, poller[p].pc \notin {"idle", "listed"}
  PROVE  /\ poller[p].t \in Transfers
         /\ poller[p].sum \in Int
         /\ poller[p].st \in TxInProgress
  BY DEF TypeOK, PollerStates

LEMMA IdlePollerType == IdlePoller \in PollerStates
  BY DEF IdlePoller, PollerStates, TxInProgress, TransferOrNone

LEMMA CheckerUpdate ==
  ASSUME TypeOK, NEW c \in Checkers,
         NEW v \in CheckerStates, checker' = [checker EXCEPT ![c] = v]
  PROVE  /\ checker' \in [Checkers -> CheckerStates]
         /\ checker'[c] = v
         /\ \A d \in Checkers : d # c => checker'[d] = checker[d]
  BY DEF TypeOK

LEMMA CheckerStep ==
  ASSUME TypeOK, NEW c \in Checkers,
         NEW pc \in {"idle", "confirm", "write", "setPayment", "cancel", "fail"},
         checker' = [checker EXCEPT ![c].pc = pc]
  PROVE  /\ checker' \in [Checkers -> CheckerStates]
         /\ checker'[c] = [checker[c] EXCEPT !.pc = pc]
         /\ \A d \in Checkers : d # c => checker'[d] = checker[d]
<1> DEFINE v == [checker[c] EXCEPT !.pc = pc]
<1>1. checker[c] \in CheckerStates
  BY DEF TypeOK
<1>2. v \in CheckerStates
  BY <1>1 DEF CheckerStates
<1> HIDE DEF v
<1>3. checker' = [checker EXCEPT ![c] = v]
  BY DEF v
<1> QED
  BY <1>2, <1>3, CheckerUpdate DEF v

LEMMA IdleCheckerType == IdleChecker \in CheckerStates
  BY DEF IdleChecker, CheckerStates, TxInProgress, TransferOrNone

LEMMA ExpirerUpdate ==
  ASSUME TypeOK, NEW e \in Expirers,
         NEW v \in ExpirerStates, expirer' = [expirer EXCEPT ![e] = v]
  PROVE  /\ expirer' \in [Expirers -> ExpirerStates]
         /\ expirer'[e] = v
         /\ \A d \in Expirers : d # e => expirer'[d] = expirer[d]
  BY DEF TypeOK

LEMMA ExpirerStep ==
  ASSUME TypeOK, NEW e \in Expirers,
         NEW pc \in {"listed", "underpaid", "fail"},
         expirer' = [expirer EXCEPT ![e].pc = pc]
  PROVE  /\ expirer' \in [Expirers -> ExpirerStates]
         /\ expirer'[e] = [expirer[e] EXCEPT !.pc = pc]
         /\ \A d \in Expirers : d # e => expirer'[d] = expirer[d]
<1> DEFINE v == [expirer[e] EXCEPT !.pc = pc]
<1>1. expirer[e] \in ExpirerStates
  BY DEF TypeOK
<1>2. v \in ExpirerStates
  BY <1>1 DEF ExpirerStates
<1> HIDE DEF v
<1>3. expirer' = [expirer EXCEPT ![e] = v]
  BY DEF v
<1> QED
  BY <1>2, <1>3, ExpirerUpdate DEF v

LEMMA IdleExpirerType == IdleExpirer \in ExpirerStates
  BY DEF IdleExpirer, Expiring, ExpirerStates, WaitingStatuses

-----------------------------------------------------------------------------
(* Type correctness                                                        *)

LEMMA InitType == Init => TypeOK
<1> SUFFICES ASSUME Init PROVE TypeOK
  OBVIOUS
<1>1. tx \in TxRows
  BY DEF Init, TxRows, TxStatuses, TxInProgress, TransferOrNone
<1>2. /\ poller \in [Pollers -> PollerStates]
      /\ checker \in [Checkers -> CheckerStates]
      /\ expirer \in [Expirers -> ExpirerStates]
      /\ merchant \in [Merchants -> MerchantStates]
  BY IdlePollerType, IdleCheckerType, IdleExpirerType DEF Init, MerchantStates
<1>3. /\ payment \in PaymentStatuses
      /\ fill \in [Transfers -> FillStatuses]
      /\ chain \in [Transfers -> ChainStates]
      /\ firstFill \in TransferOrNone /\ rechecker \in TransferOrNone
      /\ auditLog \in [confirm : Nat, resolve : Nat]
  BY DEF Init, PaymentStatuses, FillStatuses, ChainStates, TransferOrNone
<1> QED
  BY <1>1, <1>2, <1>3 DEF Init, TypeOK

LEMMA RecordFillType ==
  ASSUME TypeOK, NEW t \in Transfers, RecordFill(t)
  PROVE  /\ fill' \in [Transfers -> FillStatuses]
         /\ confirmedSum' \in Int /\ bookedSum' \in Int
         /\ firstFill' \in TransferOrNone
  BY ConstantsAssumption DEF TypeOK, RecordFill, FillStatuses, TransferOrNone

LEMMA EnvironmentType ==
  ASSUME TypeOK, PassTime \/ \E t \in Transfers : Send(t) \/ Settle(t)
  PROVE  TypeOK'
<1>1. ASSUME NEW t \in Transfers, Send(t) \/ Settle(t) PROVE TypeOK'
  <2>1. chain' \in [Transfers -> ChainStates]
    BY <1>1 DEF TypeOK, Send, Settle, ChainStates
  <2> QED
    BY <1>1, <2>1 DEF TypeOK, Send, Settle, rows, money, jobs
<1>2. CASE PassTime
  BY <1>2 DEF TypeOK, PassTime, rows, money, jobs
<1> QED
  BY <1>1, <1>2

LEMMA PollerType ==
  ASSUME TypeOK, NEW p \in Pollers, PollerNext(p)
  PROVE  TypeOK'
<1> USE IdlePollerType
<1>1. CASE PollList(p)
  <2>1. ListedPoller \in PollerStates
    BY DEF PollerStates, ListedPoller
  <2> QED
    BY <1>1, <2>1, PollerUpdate DEF TypeOK, PollList, rows, money, env
<1>2. CASE PollNothing(p)
  BY <1>2, PollerUpdate DEF TypeOK, PollNothing, rows, money, env
<1>3. ASSUME NEW t \in Transfers, Detect(p, t) \/ AdminReconcileFill(p, t)
      PROVE  TypeOK'
  <2>1. FoundPoller(t) \in PollerStates
    BY DEF PollerStates, FoundPoller, TxInProgress
  <2>2. poller' = [poller EXCEPT ![p] = FoundPoller(t)]
    BY <1>3 DEF Detect, AdminReconcileFill
  <2>3. poller' \in [Pollers -> PollerStates]
    BY <2>1, <2>2, PollerUpdate
  <2> QED
    BY <1>3, <2>3
       DEF TypeOK, Detect, AdminReconcileFill, rows, money, env
<1>4. CASE ProcessInboundTransaction(p)
  <2> DEFINE t == poller[p].t
             sum == confirmedSum + Amount[t]
  <2>1. t \in Transfers /\ sum \in Int
    BY <1>4, PollerWorks, ConstantsAssumption
       DEF ProcessInboundTransaction, TypeOK
  <2>2. PICK pc \in {"recordPartial", "recordFinal"}, st \in TxInProgress :
          poller' = [poller EXCEPT ![p] =
                       [pc |-> pc, t |-> t, sum |-> sum, st |-> st]]
    BY <1>4 DEF ProcessInboundTransaction, TxInProgress
  <2>3. [pc |-> pc, t |-> t, sum |-> sum, st |-> st] \in PollerStates
    BY <2>1 DEF PollerStates
  <2> HIDE DEF t, sum
  <2>4. poller' \in [Pollers -> PollerStates]
    BY <2>2, <2>3, PollerUpdate
  <2> QED
    BY <1>4, <2>4 DEF TypeOK, ProcessInboundTransaction, rows, money, env
<1>5. CASE RecordPartialFill(p) \/ RecordFinalFill(p)
  <2>1. PICK pc \in {"markPartial", "receive"} :
          /\ poller[p].pc \notin {"idle", "listed"}
          /\ poller' = [poller EXCEPT ![p].pc = pc]
          /\ RecordFill(poller[p].t)
    BY <1>5 DEF RecordPartialFill, RecordFinalFill
  <2>2. poller' \in [Pollers -> PollerStates]
    BY <2>1, PollerStep
  <2>3. poller[p].t \in Transfers
    BY <2>1, PollerWorks
  <2>4. /\ fill' \in [Transfers -> FillStatuses]
        /\ confirmedSum' \in Int /\ bookedSum' \in Int
        /\ firstFill' \in TransferOrNone
    BY <2>1, <2>3, RecordFillType
  <2> QED
    BY <1>5, <2>2, <2>4
       DEF TypeOK, RecordPartialFill, RecordFinalFill, money, env
<1>6. CASE MarkPartial(p)
  <2>1. poller' \in [Pollers -> PollerStates]
    BY <1>6, PollerUpdate DEF MarkPartial
  <2> QED
    BY <1>6, <2>1 DEF TypeOK, MarkPartial, PaymentStatuses, money
<1>7. CASE Receive(p)
  <2>1. poller[p].t \in Transfers /\ poller[p].sum \in Int
        /\ poller[p].st \in TxInProgress
    BY <1>7, PollerWorks DEF Receive
  <2>2. tx' \in TxRows
    BY <1>7, <2>1 DEF Receive, TxRows, TxStatuses, TransferOrNone
  <2>3. poller' \in [Pollers -> PollerStates]
    BY <1>7, PollerUpdate, PollerStep DEF Receive
  <2> QED
    BY <1>7, <2>2, <2>3 DEF TypeOK, Receive, money, env
<1>8. CASE SetInProgress(p)
  <2>1. poller' \in [Pollers -> PollerStates]
    BY <1>8, PollerUpdate DEF SetInProgress
  <2> QED
    BY <1>8, <2>1 DEF TypeOK, SetInProgress, PaymentStatuses, money, env
<1> QED
  BY <1>1, <1>2, <1>3, <1>4, <1>5, <1>6, <1>7, <1>8 DEF PollerNext, Polling

LEMMA CheckerType ==
  ASSUME TypeOK, NEW c \in Checkers, CheckerNext(c)
  PROVE  TypeOK'
<1> USE IdleCheckerType
<1>0. checker[c] \in CheckerStates
  BY DEF TypeOK
<1>1. CASE CheckIncoming(c)
  <2>1. PICK pc \in {"confirm", "cancel"} : CheckerTakes(c, pc)
    BY <1>1 DEF CheckIncoming
  <2>2. tx.status \in TxInProgress /\ tx.hash \in TransferOrNone /\ tx.fact \in Int
    BY <1>1 DEF CheckIncoming, TypeOK, TxRows
  <2>3. [pc |-> pc, st |-> tx.status, hash |-> tx.hash, fact |-> tx.fact]
          \in CheckerStates
    BY <2>2 DEF CheckerStates
  <2>4. checker' \in [Checkers -> CheckerStates]
    BY <2>1, <2>3, CheckerUpdate DEF CheckerTakes
  <2> QED
    BY <1>1, <2>4 DEF TypeOK, CheckIncoming, rows, money, env
<1>2. CASE ConfirmRead(c)
  <2>1. checker' \in [Checkers -> CheckerStates]
    BY <1>2, CheckerUpdate, CheckerStep DEF ConfirmRead
  <2> QED
    BY <1>2, <2>1 DEF TypeOK, ConfirmRead, rows, money, env
<1>3. CASE ConfirmWrite(c)
  <2>1. checker' \in [Checkers -> CheckerStates]
    BY <1>3, CheckerStep DEF ConfirmWrite
  <2>2. tx' \in TxRows
    BY <1>0, <1>3
       DEF ConfirmWrite, CheckerStates, TxRows, ConfirmedStatus, TxStatuses
  <2>3. balance' \in Int /\ auditLog' \in [confirm : Nat, resolve : Nat]
    BY <1>0, <1>3, ConstantsAssumption
       DEF ConfirmWrite, CheckerStates, Gained, TypeOK, money
  <2> QED
    BY <1>3, <2>1, <2>2, <2>3 DEF TypeOK, ConfirmWrite, env
<1>4. CASE CheckerSetPayment(c)
  <2>1. checker' \in [Checkers -> CheckerStates]
    BY <1>4, CheckerUpdate DEF CheckerSetPayment
  <2> QED
    BY <1>4, <2>1 DEF TypeOK, CheckerSetPayment, PaymentStatuses, money, env
<1>5. CASE CancelIncoming(c)
  <2>1. checker' \in [Checkers -> CheckerStates]
    BY <1>5, CheckerStep DEF CancelIncoming
  <2>2. tx' \in TxRows
    BY <1>5 DEF CancelIncoming, TypeOK, TxRows, TxStatuses
  <2> QED
    BY <1>5, <2>1, <2>2 DEF TypeOK, CancelIncoming, money, env
<1>6. CASE CheckerFailPayment(c)
  <2>1. checker' \in [Checkers -> CheckerStates]
    BY <1>6, CheckerUpdate DEF CheckerFailPayment
  <2> QED
    BY <1>6, <2>1 DEF TypeOK, CheckerFailPayment, PaymentStatuses, money, env
<1> QED
  BY <1>1, <1>2, <1>3, <1>4, <1>5, <1>6 DEF CheckerNext

LEMMA ExpirerType ==
  ASSUME TypeOK, NEW e \in Expirers, ExpirerNext(e)
  PROVE  TypeOK'
<1> USE IdleExpirerType
<1>0. expirer[e] \in ExpirerStates
  BY DEF TypeOK
<1>1. CASE ExpireList(e) \/ ExpireLoad(e)
  <2>1. [pc |-> "loaded", st |-> payment, over |-> window = "over", sum |-> 0]
          \in ExpirerStates \/ payment \notin WaitingStatuses
    BY DEF ExpirerStates
  <2>2. expirer' \in [Expirers -> ExpirerStates]
    BY <1>1, <2>1, ExpirerUpdate, ExpirerStep DEF ExpireList, ExpireLoad
  <2> QED
    BY <1>1, <2>2 DEF TypeOK, ExpireList, ExpireLoad, rows, money, env
<1>6. CASE ExpireDecide(e)
  <2>1. \E v \in ExpirerStates : expirer' = [expirer EXCEPT ![e] = v]
    <3>1. ASSUME NEW sum \in {confirmedSum, 0}
          PROVE  Expiring("receive", sum) \in ExpirerStates
      BY DEF ExpirerStates, Expiring, WaitingStatuses, TypeOK
    <3>2. ASSUME NEW pc \in {"cancel", "fail"}
          PROVE  Expiring(pc, 0) \in ExpirerStates
      BY DEF ExpirerStates, Expiring, WaitingStatuses
    <3> QED
      BY <1>6, <3>1, <3>2 DEF ExpireDecide
  <2>2. expirer' \in [Expirers -> ExpirerStates]
    BY <2>1, ExpirerUpdate
  <2>3. UNCHANGED <<rows, money, poller, checker, rechecker, merchant, env>>
    BY <1>6 DEF ExpireDecide
  <2> QED
    BY <2>2, <2>3 DEF TypeOK, rows, money, env
<1>2. CASE ExpireReceive(e)
  <2>1. expirer' \in [Expirers -> ExpirerStates]
    BY <1>2, ExpirerStep DEF ExpireReceive
  <2>2. tx' \in TxRows
    BY <1>0, <1>2
       DEF ExpireReceive, ExpirerStates, TypeOK, TxRows, TxStatuses, TxInProgress
  <2> QED
    BY <1>2, <2>1, <2>2 DEF TypeOK, ExpireReceive, money
<1>3. CASE ExpireUnderpaid(e)
  <2>1. expirer' \in [Expirers -> ExpirerStates]
    BY <1>3, ExpirerUpdate DEF ExpireUnderpaid
  <2> QED
    BY <1>3, <2>1 DEF TypeOK, ExpireUnderpaid, PaymentStatuses, money, env
<1>4. CASE ExpireCancel(e)
  <2>1. expirer' \in [Expirers -> ExpirerStates]
    BY <1>4, ExpirerStep DEF ExpireCancel
  <2>2. tx' \in TxRows
    BY <1>4 DEF ExpireCancel, TypeOK, TxRows, TxStatuses
  <2> QED
    BY <1>4, <2>1, <2>2 DEF TypeOK, ExpireCancel, money, env
<1>5. CASE ExpireFail(e)
  <2>1. expirer' \in [Expirers -> ExpirerStates]
    BY <1>5, ExpirerUpdate DEF ExpireFail
  <2> QED
    BY <1>5, <2>1 DEF TypeOK, ExpireFail, PaymentStatuses, money, env
<1> QED
  BY <1>1, <1>2, <1>3, <1>4, <1>5, <1>6 DEF ExpirerNext

LEMMA RecheckerType ==
  ASSUME TypeOK, MarkFillReorged \/ \E t \in Transfers : RecheckRead(t)
  PROVE  TypeOK'
<1>1. ASSUME NEW t \in Transfers, RecheckRead(t) PROVE TypeOK'
  BY <1>1 DEF TypeOK, RecheckRead, TransferOrNone, rows, money, env
<1>2. CASE MarkFillReorged
  <2>1. rechecker \in Transfers
    BY <1>2 DEF MarkFillReorged, TypeOK, TransferOrNone
  <2>2. fill' \in [Transfers -> FillStatuses] /\ confirmedSum' \in Int
    BY <1>2, <2>1, ConstantsAssumption DEF MarkFillReorged, TypeOK, FillStatuses
  <2> QED
    BY <1>2, <2>2 DEF TypeOK, MarkFillReorged, TransferOrNone, money, env
<1> QED
  BY <1>1, <1>2

LEMMA MerchantType ==
  ASSUME TypeOK, NEW m \in Merchants, MerchantNext(m)
  PROVE  TypeOK'
<1>1. \A step \in MerchantStates :
        MerchantTakes(m, step) => merchant' \in [Merchants -> MerchantStates]
  BY DEF MerchantTakes, TypeOK
<1>2. CASE ResolveRead(m) \/ DeclineRead(m)
  BY <1>1, <1>2
     DEF TypeOK, ResolveRead, DeclineRead, MerchantStates, rows, money, env
<1>3. CASE ResolveUpdate(m) \/ DeclineUpdate(m)
  <2>1. merchant' \in [Merchants -> MerchantStates]
    BY <1>1, <1>3 DEF ResolveUpdate, DeclineUpdate, MerchantStates
  <2> QED
    BY <1>3, <2>1
       DEF TypeOK, ResolveUpdate, DeclineUpdate, PaymentStatuses, money, env
<1>4. CASE ResolveCredit(m)
  <2>1. merchant' \in [Merchants -> MerchantStates]
    BY <1>1, <1>4 DEF ResolveCredit, MerchantStates
  <2>2. balance' \in Int /\ auditLog' \in [confirm : Nat, resolve : Nat]
    BY <1>4 DEF ResolveCredit, TypeOK, TxRows, money
  <2> QED
    BY <1>4, <2>1, <2>2 DEF TypeOK, ResolveCredit, rows, env
<1> QED
  BY <1>2, <1>3, <1>4 DEF MerchantNext

LEMMA AbortType ==
  ASSUME TypeOK,
         \/ RecheckerAbort
         \/ \E p \in Pollers : PollerAbort(p)
         \/ \E c \in Checkers : CheckerAbort(c)
         \/ \E e \in Expirers : ExpirerAbort(e)
         \/ \E m \in Merchants : MerchantAbort(m)
  PROVE  TypeOK'
<1> USE DEF Fault, rows, money
<1>1. CASE RecheckerAbort
  BY <1>1 DEF TypeOK, RecheckerAbort, TransferOrNone
<1>2. ASSUME NEW p \in Pollers, PollerAbort(p) PROVE TypeOK'
  BY <1>2, IdlePollerType, PollerUpdate DEF TypeOK, PollerAbort
<1>3. ASSUME NEW c \in Checkers, CheckerAbort(c) PROVE TypeOK'
  BY <1>3, IdleCheckerType, CheckerUpdate DEF TypeOK, CheckerAbort
<1>4. ASSUME NEW e \in Expirers, ExpirerAbort(e) PROVE TypeOK'
  BY <1>4, IdleExpirerType, ExpirerUpdate DEF TypeOK, ExpirerAbort
<1>5. ASSUME NEW m \in Merchants, MerchantAbort(m) PROVE TypeOK'
  BY <1>5 DEF TypeOK, MerchantAbort, MerchantTakes, MerchantStates
<1> QED
  BY <1>1, <1>2, <1>3, <1>4, <1>5

LEMMA StutterType == TypeOK /\ UNCHANGED vars => TypeOK'
  BY DEF TypeOK, vars, rows, money, jobs, env

(* Every reachable state is well typed, whatever the transfers, amounts    *)
(* and numbers of overlapping jobs: no interleaving and no abort leaves a  *)
(* status, a hash or a job's local record outside its set.                 *)
THEOREM TypeCorrect == Spec => []TypeOK
<1>1. TypeOK /\ Next => TypeOK'
  <2> SUFFICES ASSUME TypeOK, Next PROVE TypeOK'
    OBVIOUS
  <2>1. CASE PassTime \/ \E t \in Transfers : Send(t) \/ Settle(t)
    BY <2>1, EnvironmentType
  <2>2. CASE \E p \in Pollers : PollerNext(p)
    BY <2>2, PollerType
  <2>3. CASE \E c \in Checkers : CheckerNext(c)
    BY <2>3, CheckerType
  <2>4. CASE \E e \in Expirers : ExpirerNext(e)
    BY <2>4, ExpirerType
  <2>5. CASE MarkFillReorged \/ \E t \in Transfers : RecheckRead(t)
    BY <2>5, RecheckerType
  <2>6. CASE \E m \in Merchants : MerchantNext(m)
    BY <2>6, MerchantType
  <2>7. CASE \/ RecheckerAbort
             \/ \E p \in Pollers : PollerAbort(p)
             \/ \E c \in Checkers : CheckerAbort(c)
             \/ \E e \in Expirers : ExpirerAbort(e)
             \/ \E m \in Merchants : MerchantAbort(m)
    BY <2>7, AbortType
  <2> QED
    BY <2>1, <2>2, <2>3, <2>4, <2>5, <2>6, <2>7 DEF Next
<1> QED
  BY <1>1, InitType, StutterType, PTL DEF Spec

-----------------------------------------------------------------------------
(* Which steps change what                                                 *)

Aborts ==
  \/ RecheckerAbort
  \/ \E p \in Pollers : PollerAbort(p)
  \/ \E c \in Checkers : CheckerAbort(c)
  \/ \E e \in Expirers : ExpirerAbort(e)
  \/ \E m \in Merchants : MerchantAbort(m)

LEMMA TxFrame ==
  ASSUME [Next]_vars
  PROVE  \/ tx' = tx
         \/ \E p \in Pollers : Receive(p)
         \/ \E c \in Checkers : ConfirmWrite(c) \/ CancelIncoming(c)
         \/ \E e \in Expirers : ExpireReceive(e) \/ ExpireCancel(e)
<1> USE DEF rows
<1>1. ASSUME NEW t \in Transfers, Send(t) \/ Settle(t) \/ RecheckRead(t)
      PROVE  tx' = tx
  BY <1>1 DEF Send, Settle, RecheckRead
<1>2. ASSUME PassTime \/ MarkFillReorged PROVE tx' = tx
  BY <1>2 DEF PassTime, MarkFillReorged
<1>3. ASSUME NEW p \in Pollers, PollerNext(p) PROVE tx' = tx \/ Receive(p)
  BY <1>3 DEF PollerNext, Polling, PollList, PollNothing, Detect,
     AdminReconcileFill, ProcessInboundTransaction, RecordPartialFill,
     MarkPartial, RecordFinalFill, SetInProgress
<1>4. ASSUME NEW c \in Checkers, CheckerNext(c)
      PROVE  tx' = tx \/ ConfirmWrite(c) \/ CancelIncoming(c)
  BY <1>4 DEF CheckerNext, CheckIncoming, ConfirmRead, CheckerSetPayment,
     CheckerFailPayment
<1>5. ASSUME NEW e \in Expirers, ExpirerNext(e)
      PROVE  tx' = tx \/ ExpireReceive(e) \/ ExpireCancel(e)
  BY <1>5 DEF ExpirerNext, ExpireList, ExpireLoad, ExpireDecide, ExpireUnderpaid, ExpireFail
<1>6. ASSUME NEW m \in Merchants, MerchantNext(m) PROVE tx' = tx
  BY <1>6 DEF MerchantNext, ResolveRead, ResolveUpdate, ResolveCredit,
     DeclineRead, DeclineUpdate
<1>7. ASSUME Aborts PROVE tx' = tx
  BY <1>7 DEF Aborts, RecheckerAbort, PollerAbort, CheckerAbort, ExpirerAbort,
     MerchantAbort, Fault
<1> QED
  BY <1>1, <1>2, <1>3, <1>4, <1>5, <1>6, <1>7 DEF Next, Aborts, vars

LEMMA ChainFrame ==
  ASSUME [Next]_vars
  PROVE  chain' = chain \/ \E t \in Transfers : Send(t) \/ Settle(t)
<1> USE DEF env
<1>1. ASSUME NEW t \in Transfers, RecheckRead(t) PROVE chain' = chain
  BY <1>1 DEF RecheckRead
<1>2. ASSUME PassTime \/ MarkFillReorged PROVE chain' = chain
  BY <1>2 DEF PassTime, MarkFillReorged
<1>3. ASSUME NEW p \in Pollers, PollerNext(p) PROVE chain' = chain
  BY <1>3 DEF PollerNext, Polling, PollList, PollNothing, Detect,
     AdminReconcileFill, ProcessInboundTransaction, RecordPartialFill,
     MarkPartial, RecordFinalFill, Receive, SetInProgress
<1>4. ASSUME NEW c \in Checkers, CheckerNext(c) PROVE chain' = chain
  BY <1>4 DEF CheckerNext, CheckIncoming, ConfirmRead, ConfirmWrite,
     CheckerSetPayment, CancelIncoming, CheckerFailPayment
<1>5. ASSUME NEW e \in Expirers, ExpirerNext(e) PROVE chain' = chain
  BY <1>5 DEF ExpirerNext, ExpireList, ExpireLoad, ExpireDecide, ExpireReceive, ExpireUnderpaid,
     ExpireCancel, ExpireFail
<1>6. ASSUME NEW m \in Merchants, MerchantNext(m) PROVE chain' = chain
  BY <1>6 DEF MerchantNext, ResolveRead, ResolveUpdate, ResolveCredit,
     DeclineRead, DeclineUpdate
<1>7. ASSUME Aborts PROVE chain' = chain
  BY <1>7 DEF Aborts, RecheckerAbort, PollerAbort, CheckerAbort, ExpirerAbort,
     MerchantAbort, Fault
<1> QED
  BY <1>1, <1>2, <1>3, <1>4, <1>5, <1>6, <1>7 DEF Next, Aborts, vars

(* Only a checker's own step, or its abort, moves it, and leaves the       *)
(* others where they are.                                                  *)
LEMMA CheckerFrame ==
  ASSUME [Next]_vars
  PROVE  \/ checker' = checker
         \/ \E c \in Checkers : CheckerNext(c) \/ CheckerAbort(c)
<1> USE DEF jobs
<1>1. ASSUME NEW t \in Transfers, Send(t) \/ Settle(t) \/ RecheckRead(t)
      PROVE  checker' = checker
  BY <1>1 DEF Send, Settle, RecheckRead
<1>2. ASSUME PassTime \/ MarkFillReorged PROVE checker' = checker
  BY <1>2 DEF PassTime, MarkFillReorged
<1>3. ASSUME NEW p \in Pollers, PollerNext(p) PROVE checker' = checker
  BY <1>3 DEF PollerNext, Polling, PollList, PollNothing, Detect,
     AdminReconcileFill, ProcessInboundTransaction, RecordPartialFill,
     MarkPartial, RecordFinalFill, Receive, SetInProgress
<1>5. ASSUME NEW e \in Expirers, ExpirerNext(e) PROVE checker' = checker
  BY <1>5 DEF ExpirerNext, ExpireList, ExpireLoad, ExpireDecide, ExpireReceive, ExpireUnderpaid,
     ExpireCancel, ExpireFail
<1>6. ASSUME NEW m \in Merchants, MerchantNext(m) PROVE checker' = checker
  BY <1>6 DEF MerchantNext, ResolveRead, ResolveUpdate, ResolveCredit,
     DeclineRead, DeclineUpdate
<1>7. ASSUME Aborts
      PROVE  checker' = checker \/ \E c \in Checkers : CheckerAbort(c)
  BY <1>7 DEF Aborts, RecheckerAbort, PollerAbort, ExpirerAbort, MerchantAbort
<1> QED
  BY <1>1, <1>2, <1>3, <1>5, <1>6, <1>7 DEF Next, Aborts, vars

LEMMA PollerFrame ==
  ASSUME [Next]_vars
  PROVE  \/ poller' = poller
         \/ \E p \in Pollers : PollerNext(p) \/ PollerAbort(p)
<1> USE DEF jobs
<1>1. ASSUME NEW t \in Transfers, Send(t) \/ Settle(t) \/ RecheckRead(t)
      PROVE  poller' = poller
  BY <1>1 DEF Send, Settle, RecheckRead
<1>2. ASSUME PassTime \/ MarkFillReorged PROVE poller' = poller
  BY <1>2 DEF PassTime, MarkFillReorged
<1>4. ASSUME NEW c \in Checkers, CheckerNext(c) PROVE poller' = poller
  BY <1>4 DEF CheckerNext, CheckIncoming, ConfirmRead, ConfirmWrite,
     CheckerSetPayment, CancelIncoming, CheckerFailPayment
<1>5. ASSUME NEW e \in Expirers, ExpirerNext(e) PROVE poller' = poller
  BY <1>5 DEF ExpirerNext, ExpireList, ExpireLoad, ExpireDecide, ExpireReceive, ExpireUnderpaid,
     ExpireCancel, ExpireFail
<1>6. ASSUME NEW m \in Merchants, MerchantNext(m) PROVE poller' = poller
  BY <1>6 DEF MerchantNext, ResolveRead, ResolveUpdate, ResolveCredit,
     DeclineRead, DeclineUpdate
<1>7. ASSUME Aborts
      PROVE  poller' = poller \/ \E p \in Pollers : PollerAbort(p)
  BY <1>7 DEF Aborts, RecheckerAbort, CheckerAbort, ExpirerAbort, MerchantAbort
<1> QED
  BY <1>1, <1>2, <1>4, <1>5, <1>6, <1>7 DEF Next, Aborts, vars

(* Where one checker's step or abort takes its record.                     *)
LEMMA CheckerMoves ==
  ASSUME TypeOK, [Next]_vars, NEW c \in Checkers
  PROVE  \/ checker'[c] = checker[c]
         \/ checker'[c] = IdleChecker
         \/ /\ CheckIncoming(c)
            /\ \E pc \in {"confirm", "cancel"} :
                 /\ checker'[c] = [pc |-> pc, st |-> tx.status,
                                   hash |-> tx.hash, fact |-> tx.fact]
                 /\ pc = "confirm" => chain[tx.hash] = "final"
         \/ /\ ConfirmRead(c)
            /\ checker'[c] = [checker[c] EXCEPT !.pc = "write"]
         \/ /\ \/ ConfirmWrite(c)
               \/ CancelIncoming(c)
            /\ checker'[c].pc \in {"setPayment", "fail"}
<1>1. CASE checker' = checker
  BY <1>1
<1>2. ASSUME NEW d \in Checkers, CheckerAbort(d) PROVE checker'[c] \in {checker[c], IdleChecker}
  BY <1>2, IdleCheckerType, CheckerUpdate DEF CheckerAbort
<1>3. ASSUME NEW d \in Checkers, d # c, CheckerNext(d) PROVE checker'[c] = checker[c]
  BY <1>3 DEF CheckerNext, CheckIncoming, CheckerTakes, ConfirmRead, ConfirmWrite,
     CheckerSetPayment, CancelIncoming, CheckerFailPayment, TypeOK
<1>4. CASE CheckIncoming(c)
  BY <1>4 DEF CheckIncoming, CheckerTakes, TypeOK
<1>5. CASE ConfirmRead(c)
  BY <1>5 DEF ConfirmRead, TypeOK
<1>6. ASSUME ConfirmWrite(c) \/ CancelIncoming(c)
      PROVE  checker'[c].pc \in {"setPayment", "fail"}
  <2>1. checker[c] \in CheckerStates
    BY DEF TypeOK
  <2>2. PICK pc \in {"setPayment", "fail"} : checker' = [checker EXCEPT ![c].pc = pc]
    BY <1>6 DEF ConfirmWrite, CancelIncoming
  <2>3. checker'[c] = [checker[c] EXCEPT !.pc = pc]
    BY <2>2, CheckerStep
  <2> QED
    BY <2>1, <2>3 DEF CheckerStates
<1>7. CASE CheckerSetPayment(c) \/ CheckerFailPayment(c)
  BY <1>7 DEF CheckerSetPayment, CheckerFailPayment, TypeOK
<1> QED
  BY <1>1, <1>2, <1>3, <1>4, <1>5, <1>6, <1>7, CheckerFrame DEF CheckerNext

-----------------------------------------------------------------------------
(* A completed transaction is final on the chain                           *)

LEMMA FinalStays ==
  ASSUME TypeOK, [Next]_vars, NEW t \in Transfers, chain[t] = "final"
  PROVE  chain'[t] = "final"
<1>1. CASE chain' = chain
  BY <1>1
<1>2. ASSUME NEW u \in Transfers, Send(u) \/ Settle(u)
      PROVE  chain'[t] = "final"
  BY <1>2 DEF Send, Settle, TypeOK
<1> QED
  BY <1>1, <1>2, ChainFrame

(* A checker past the receipt holds a hash whose receipt was final.        *)
ReceiptHeld ==
  \A c \in Checkers : checker[c].pc \in {"confirm", "write"} =>
    checker[c].hash \in Transfers /\ chain[checker[c].hash] = "final"

LEMMA ReceiptHeldStep ==
  ASSUME TypeOK, ReceiptHeld, [Next]_vars
  PROVE  ReceiptHeld'
<1> SUFFICES ASSUME NEW c \in Checkers, checker'[c].pc \in {"confirm", "write"}
             PROVE  checker'[c].hash \in Transfers /\ chain'[checker'[c].hash] = "final"
  BY DEF ReceiptHeld
<1>1. checker[c] \in CheckerStates
  BY DEF TypeOK
<1>2. CASE checker'[c] = checker[c]
  BY <1>2, FinalStays DEF ReceiptHeld
<1>3. CASE checker'[c] = IdleChecker
  BY <1>3 DEF IdleChecker
<1>4. CASE /\ CheckIncoming(c)
           /\ \E pc \in {"confirm", "cancel"} :
                /\ checker'[c] = [pc |-> pc, st |-> tx.status,
                                  hash |-> tx.hash, fact |-> tx.fact]
                /\ pc = "confirm" => chain[tx.hash] = "final"
  <2>1. tx.hash \in Transfers
    BY <1>4 DEF CheckIncoming, TypeOK, TxRows, TransferOrNone
  <2>2. checker'[c].hash = tx.hash /\ chain[tx.hash] = "final"
    BY <1>4
  <2> QED
    BY <2>1, <2>2, FinalStays
<1>5. CASE ConfirmRead(c) /\ checker'[c] = [checker[c] EXCEPT !.pc = "write"]
  <2>1. checker'[c].hash = checker[c].hash
    BY <1>1, <1>5 DEF CheckerStates
  <2> QED
    BY <1>5, <2>1, FinalStays DEF ReceiptHeld, ConfirmRead
<1>6. CASE checker'[c].pc \in {"setPayment", "fail"}
  BY <1>6
<1> QED
  BY <1>2, <1>3, <1>4, <1>5, <1>6, CheckerMoves

LEMMA CompletedIsFinalStep ==
  ASSUME TypeOK, ReceiptHeld, CompletedIsFinal, [Next]_vars
  PROVE  CompletedIsFinal'
<1>1. CASE tx' = tx
  BY <1>1, FinalStays DEF CompletedIsFinal
<1>2. ASSUME NEW p \in Pollers, Receive(p) PROVE CompletedIsFinal'
  BY <1>2, PollerWorks DEF Receive, CompletedIsFinal, TxInProgress
<1>3. ASSUME NEW c \in Checkers, ConfirmWrite(c) PROVE CompletedIsFinal'
  <2>1. tx'.hash = checker[c].hash
    BY <1>3 DEF ConfirmWrite
  <2> QED
    BY <1>3, <2>1, FinalStays DEF ConfirmWrite, ReceiptHeld, CompletedIsFinal
<1>4. ASSUME NEW c \in Checkers, CancelIncoming(c) PROVE CompletedIsFinal'
  BY <1>4 DEF CancelIncoming, CompletedIsFinal, TypeOK, TxRows
<1>5. ASSUME NEW e \in Expirers, ExpireReceive(e) PROVE CompletedIsFinal'
  BY <1>5, FinalStays DEF ExpireReceive, CompletedIsFinal
<1>6. ASSUME NEW e \in Expirers, ExpireCancel(e) PROVE CompletedIsFinal'
  BY <1>6 DEF ExpireCancel, CompletedIsFinal, TypeOK, TxRows
<1> QED
  BY <1>1, <1>2, <1>3, <1>4, <1>5, <1>6, TxFrame

(* A completed transaction carries a hash whose receipt was confirmed and  *)
(* successful, however many pollers, checkers, expirers and merchants      *)
(* overlap and wherever they die: confirmIncomingTransaction writes back   *)
(* the hash it fetched the receipt of.                                     *)
THEOREM CompletedFinal == Spec => []CompletedIsFinal
<1>1. Init => ReceiptHeld /\ CompletedIsFinal
  BY DEF Init, ReceiptHeld, CompletedIsFinal, IdleChecker
<1>2. TypeOK /\ ReceiptHeld /\ CompletedIsFinal /\ [Next]_vars
        => ReceiptHeld' /\ CompletedIsFinal'
  BY ReceiptHeldStep, CompletedIsFinalStep
<1> QED
  BY <1>1, <1>2, TypeCorrect, PTL DEF Spec

-----------------------------------------------------------------------------
(* A completed transaction received the expected amount                    *)

Covered(received) == \E tol \in Tolerances : Crosses(received, tol)

(* Where one poller's step or abort takes its record.                      *)
LEMMA PollerMoves ==
  ASSUME TypeOK, [Next]_vars, NEW p \in Pollers
  PROVE  \/ poller'[p] = poller[p]
         \/ poller'[p] = IdlePoller
         \/ PollList(p) /\ poller'[p] = ListedPoller
         \/ \E t \in Transfers : /\ Detect(p, t) \/ AdminReconcileFill(p, t)
                                 /\ poller'[p] = FoundPoller(t)
         \/ /\ ProcessInboundTransaction(p)
            /\ \E pc \in {"recordPartial", "recordFinal"}, st \in TxInProgress :
                 /\ poller'[p] =
                      [pc |-> pc, t |-> poller[p].t,
                       sum |-> confirmedSum + Amount[poller[p].t], st |-> st]
                 /\ pc = "recordFinal" /\ st = "inProgress"
                      => Covered(confirmedSum + Amount[poller[p].t])
         \/ /\ RecordPartialFill(p)
            /\ poller'[p] = [poller[p] EXCEPT !.pc = "markPartial"]
         \/ /\ RecordFinalFill(p)
            /\ poller'[p] = [poller[p] EXCEPT !.pc = "receive"]
         \/ /\ Receive(p) /\ poller[p].st = "inProgress"
            /\ poller'[p] = [poller[p] EXCEPT !.pc = "setInProgress"]
<1>1. CASE poller' = poller
  BY <1>1
<1>2. ASSUME NEW q \in Pollers, PollerAbort(q)
      PROVE  poller'[p] \in {poller[p], IdlePoller}
  BY <1>2, IdlePollerType, PollerUpdate DEF PollerAbort
<1>3. ASSUME NEW q \in Pollers, q # p, PollerNext(q) PROVE poller'[p] = poller[p]
  BY <1>3 DEF PollerNext, Polling, PollList, PollNothing, Detect,
     AdminReconcileFill, ProcessInboundTransaction, RecordPartialFill,
     MarkPartial, RecordFinalFill, Receive, SetInProgress, TypeOK
<1>4. CASE PollList(p) \/ PollNothing(p) \/ MarkPartial(p) \/ SetInProgress(p)
  BY <1>4 DEF PollList, PollNothing, MarkPartial, SetInProgress, TypeOK
<1>5. ASSUME NEW t \in Transfers, Detect(p, t) \/ AdminReconcileFill(p, t)
      PROVE  poller'[p] = FoundPoller(t)
  BY <1>5 DEF Detect, AdminReconcileFill, TypeOK
<1>6. CASE ProcessInboundTransaction(p)
  <2>1. PICK pc \in {"recordPartial", "recordFinal"}, st \in TxInProgress :
          /\ poller' = [poller EXCEPT ![p] =
               [pc |-> pc, t |-> poller[p].t,
                sum |-> confirmedSum + Amount[poller[p].t], st |-> st]]
          /\ pc = "recordFinal" /\ st = "inProgress"
               => Covered(confirmedSum + Amount[poller[p].t])
    BY <1>6 DEF ProcessInboundTransaction, TxInProgress, Covered
  <2> QED
    BY <1>6, <2>1 DEF TypeOK
<1>7. CASE RecordPartialFill(p) \/ RecordFinalFill(p)
  BY <1>7 DEF RecordPartialFill, RecordFinalFill, TypeOK
<1>8. CASE Receive(p)
  BY <1>8 DEF Receive, TypeOK
<1> QED
  BY <1>1, <1>2, <1>3, <1>4, <1>5, <1>6, <1>7, <1>8, PollerFrame
     DEF PollerNext, Polling

(* The status a sum is promoted to and that sum travel together: in a      *)
(* poller's record, in the row, in a checker's ticket.                     *)
CoverageHeld ==
  /\ \A p \in Pollers :
       poller[p].pc \in {"recordFinal", "receive"} /\ poller[p].st = "inProgress"
         => Covered(poller[p].sum)
  /\ tx.status \in {"inProgress", "completed"} => Covered(tx.fact)
  /\ \A c \in Checkers :
       checker[c].pc \in {"confirm", "write"} /\ checker[c].st = "inProgress"
         => Covered(checker[c].fact)

LEMMA CoverageHeldStep ==
  ASSUME TypeOK, CoverageHeld, [Next]_vars
  PROVE  CoverageHeld'
<1>1. ASSUME NEW p \in Pollers, poller'[p].pc \in {"recordFinal", "receive"},
             poller'[p].st = "inProgress"
      PROVE  Covered(poller'[p].sum)
  <2>1. poller[p] \in PollerStates
    BY DEF TypeOK
  <2>2. CASE poller'[p] = poller[p]
    BY <1>1, <2>2 DEF CoverageHeld
  <2>3. CASE poller'[p] \in {IdlePoller, ListedPoller}
    BY <1>1, <2>3 DEF IdlePoller, ListedPoller
  <2>4. CASE \E t \in Transfers : poller'[p] = FoundPoller(t)
    BY <1>1, <2>4 DEF FoundPoller
  <2>5. CASE \E pc \in {"recordPartial", "recordFinal"}, st \in TxInProgress :
               /\ poller'[p] =
                    [pc |-> pc, t |-> poller[p].t,
                     sum |-> confirmedSum + Amount[poller[p].t], st |-> st]
               /\ pc = "recordFinal" /\ st = "inProgress"
                    => Covered(confirmedSum + Amount[poller[p].t])
    BY <1>1, <2>5
  <2>6. CASE /\ RecordFinalFill(p)
             /\ poller'[p] = [poller[p] EXCEPT !.pc = "receive"]
    <3>1. /\ poller'[p].st = poller[p].st /\ poller'[p].sum = poller[p].sum
          /\ poller[p].pc = "recordFinal"
      BY <2>1, <2>6 DEF PollerStates, RecordFinalFill
    <3> QED
      BY <1>1, <3>1 DEF CoverageHeld
  <2>7. CASE poller'[p] \in {[poller[p] EXCEPT !.pc = "markPartial"],
                             [poller[p] EXCEPT !.pc = "setInProgress"]}
    BY <1>1, <2>1, <2>7 DEF PollerStates
  <2> QED
    BY <2>2, <2>3, <2>4, <2>5, <2>6, <2>7, PollerMoves
<1>2. tx'.status \in {"inProgress", "completed"} => Covered(tx'.fact)
  <2>1. CASE tx' = tx
    BY <2>1 DEF CoverageHeld
  <2>2. ASSUME NEW p \in Pollers, Receive(p)
        PROVE  tx'.status \in {"inProgress", "completed"} => Covered(tx'.fact)
    BY <2>2, PollerWorks DEF Receive, CoverageHeld, TxInProgress
  <2>3. ASSUME NEW c \in Checkers, ConfirmWrite(c)
        PROVE  tx'.status \in {"inProgress", "completed"} => Covered(tx'.fact)
    BY <2>3 DEF ConfirmWrite, ConfirmedStatus, CoverageHeld
  <2>4. ASSUME NEW c \in Checkers, CancelIncoming(c)
        PROVE  tx'.status \notin {"inProgress", "completed"}
    BY <2>4 DEF CancelIncoming, TypeOK, TxRows
  <2>5. ASSUME NEW e \in Expirers, ExpireReceive(e)
        PROVE  tx'.status \in {"inProgress", "completed"} => Covered(tx'.fact)
    BY <2>5 DEF ExpireReceive, CoverageHeld
  <2>6. ASSUME NEW e \in Expirers, ExpireCancel(e)
        PROVE  tx'.status \notin {"inProgress", "completed"}
    BY <2>6 DEF ExpireCancel, TypeOK, TxRows
  <2> QED
    BY <2>1, <2>2, <2>3, <2>4, <2>5, <2>6, TxFrame
<1>3. ASSUME NEW c \in Checkers, checker'[c].pc \in {"confirm", "write"},
             checker'[c].st = "inProgress"
      PROVE  Covered(checker'[c].fact)
  <2>1. checker[c] \in CheckerStates
    BY DEF TypeOK
  <2>2. CASE checker'[c] = checker[c]
    BY <1>3, <2>2 DEF CoverageHeld
  <2>3. CASE checker'[c] = IdleChecker
    BY <1>3, <2>3 DEF IdleChecker
  <2>4. CASE \E pc \in {"confirm", "cancel"} :
               checker'[c] = [pc |-> pc, st |-> tx.status,
                             hash |-> tx.hash, fact |-> tx.fact]
    BY <1>3, <2>4 DEF CoverageHeld
  <2>5. CASE ConfirmRead(c) /\ checker'[c] = [checker[c] EXCEPT !.pc = "write"]
    <3>1. /\ checker'[c].st = checker[c].st /\ checker'[c].fact = checker[c].fact
          /\ checker[c].pc = "confirm"
      BY <2>1, <2>5 DEF CheckerStates, ConfirmRead
    <3> QED
      BY <1>3, <3>1 DEF CoverageHeld
  <2> QED
    BY <1>3, <2>2, <2>3, <2>4, <2>5, CheckerMoves
<1> QED
  BY <1>1, <1>2, <1>3 DEF CoverageHeld

(* A transaction completed without the "invalid" mark received, up to the  *)
(* tolerance, what was expected: no interleaving of Receive, Confirm and   *)
(* the expiry pairs a promoted status with a smaller sum.                  *)
THEOREM CompletedCovered == Spec => []CompletedIsCovered
<1>1. Init => CoverageHeld
  BY DEF Init, CoverageHeld, IdlePoller, IdleChecker
<1>2. TypeOK /\ CoverageHeld /\ [Next]_vars => CoverageHeld'
  BY CoverageHeldStep
<1>3. CoverageHeld => CompletedIsCovered
  BY DEF CoverageHeld, CompletedIsCovered, Covered
<1> QED
  BY <1>1, <1>2, <1>3, TypeCorrect, PTL DEF Spec

-----------------------------------------------------------------------------
(* Without overlapping pollers, no transfer is counted twice               *)

(* One execution of the watcher's callback at a time, and no administrator *)
(* attributing transfers by hand; the duplicate check's queries answer.    *)
OneWatcher == MaxReconciles = 0 /\ \A p, q \in Pollers : p = q
LookupsAnswer == ~LookupFaults

LEMMA FillFrame ==
  ASSUME [Next]_vars
  PROVE  \/ UNCHANGED <<fill, confirmedSum, bookedSum>>
         \/ \E p \in Pollers : RecordPartialFill(p) \/ RecordFinalFill(p)
         \/ MarkFillReorged
<1> USE DEF rows
<1> DEFINE Same == UNCHANGED <<fill, confirmedSum, bookedSum>>
<1>1. ASSUME NEW t \in Transfers, Send(t) \/ Settle(t) \/ RecheckRead(t)
      PROVE  Same
  BY <1>1 DEF Send, Settle, RecheckRead
<1>2. ASSUME PassTime PROVE Same
  BY <1>2 DEF PassTime
<1>3. ASSUME NEW p \in Pollers, PollerNext(p)
      PROVE  Same \/ RecordPartialFill(p) \/ RecordFinalFill(p)
  BY <1>3 DEF PollerNext, Polling, PollList, PollNothing, Detect,
     AdminReconcileFill, ProcessInboundTransaction, MarkPartial, Receive,
     SetInProgress
<1>4. ASSUME NEW c \in Checkers, CheckerNext(c) PROVE Same
  BY <1>4 DEF CheckerNext, CheckIncoming, ConfirmRead, ConfirmWrite,
     CheckerSetPayment, CancelIncoming, CheckerFailPayment
<1>5. ASSUME NEW e \in Expirers, ExpirerNext(e) PROVE Same
  BY <1>5 DEF ExpirerNext, ExpireList, ExpireLoad, ExpireDecide, ExpireReceive, ExpireUnderpaid,
     ExpireCancel, ExpireFail
<1>6. ASSUME NEW m \in Merchants, MerchantNext(m) PROVE Same
  BY <1>6 DEF MerchantNext, ResolveRead, ResolveUpdate, ResolveCredit,
     DeclineRead, DeclineUpdate
<1>7. ASSUME Aborts PROVE Same
  BY <1>7 DEF Aborts, RecheckerAbort, PollerAbort, CheckerAbort, ExpirerAbort,
     MerchantAbort, Fault
<1> QED
  BY <1>1, <1>2, <1>3, <1>4, <1>5, <1>6, <1>7 DEF Next, Aborts, vars

LEMMA ExpirerFrame ==
  ASSUME [Next]_vars
  PROVE  \/ expirer' = expirer
         \/ \E e \in Expirers : ExpirerNext(e) \/ ExpirerAbort(e)
<1> USE DEF jobs
<1>1. ASSUME NEW t \in Transfers, Send(t) \/ Settle(t) \/ RecheckRead(t)
      PROVE  expirer' = expirer
  BY <1>1 DEF Send, Settle, RecheckRead
<1>2. ASSUME PassTime \/ MarkFillReorged PROVE expirer' = expirer
  BY <1>2 DEF PassTime, MarkFillReorged
<1>3. ASSUME NEW p \in Pollers, PollerNext(p) PROVE expirer' = expirer
  BY <1>3 DEF PollerNext, Polling, PollList, PollNothing, Detect,
     AdminReconcileFill, ProcessInboundTransaction, RecordPartialFill,
     MarkPartial, RecordFinalFill, Receive, SetInProgress
<1>4. ASSUME NEW c \in Checkers, CheckerNext(c) PROVE expirer' = expirer
  BY <1>4 DEF CheckerNext, CheckIncoming, ConfirmRead, ConfirmWrite,
     CheckerSetPayment, CancelIncoming, CheckerFailPayment
<1>5. ASSUME NEW m \in Merchants, MerchantNext(m) PROVE expirer' = expirer
  BY <1>5 DEF MerchantNext, ResolveRead, ResolveUpdate, ResolveCredit,
     DeclineRead, DeclineUpdate
<1>6. ASSUME Aborts
      PROVE  expirer' = expirer \/ \E e \in Expirers : ExpirerAbort(e)
  BY <1>6 DEF Aborts, RecheckerAbort, PollerAbort, CheckerAbort, MerchantAbort
<1> QED
  BY <1>1, <1>2, <1>3, <1>4, <1>5, <1>6 DEF Next, Aborts, vars

(* An expirer's sum is the one it read, or zero after a failed read.       *)
LEMMA ExpirerMoves ==
  ASSUME TypeOK, [Next]_vars, NEW e \in Expirers, expirer'[e].pc = "receive"
  PROVE  expirer'[e] = expirer[e] \/ expirer'[e].sum \in {confirmedSum, 0}
<1>1. CASE expirer' = expirer
  BY <1>1
<1>2. ASSUME NEW d \in Expirers, ExpirerAbort(d)
      PROVE  expirer'[e] \in {expirer[e], IdleExpirer}
  BY <1>2, IdleExpirerType, ExpirerUpdate DEF ExpirerAbort
<1>3. ASSUME NEW d \in Expirers, d # e, ExpirerNext(d) PROVE expirer'[e] = expirer[e]
  BY <1>3 DEF ExpirerNext, ExpireList, ExpireLoad, ExpireDecide, ExpireReceive, ExpireUnderpaid,
     ExpireCancel, ExpireFail, TypeOK
<1>4. CASE ExpireList(e) \/ ExpireLoad(e)
  <2>1. expirer[e] \in ExpirerStates
    BY DEF TypeOK
  <2>2. CASE ExpireList(e)
    <3>1. expirer'[e] = [expirer[e] EXCEPT !.pc = "listed"]
      BY <2>2 DEF ExpireList, TypeOK
    <3> QED
      BY <2>1, <3>1 DEF ExpirerStates
  <2>3. CASE ExpireLoad(e)
    <3>1. \/ expirer'[e] = IdleExpirer
          \/ expirer'[e] = [pc |-> "loaded", st |-> payment,
                            over |-> window = "over", sum |-> 0]
      BY <2>3 DEF ExpireLoad, TypeOK
    <3> QED
      BY <3>1 DEF IdleExpirer, Expiring
  <2> QED
    BY <1>4, <2>2, <2>3
<1>6. CASE ExpireDecide(e)
  <2>1. \/ expirer'[e] = IdleExpirer
        \/ \E sum \in {confirmedSum, 0} :
             expirer'[e] = Expiring("receive", sum)
        \/ \E pc \in {"cancel", "fail"} : expirer'[e] = Expiring(pc, 0)
    BY <1>6 DEF ExpireDecide, TypeOK
  <2> QED
    BY <2>1 DEF IdleExpirer, Expiring
<1>5. ASSUME ExpireReceive(e) \/ ExpireUnderpaid(e) \/ ExpireCancel(e) \/ ExpireFail(e)
      PROVE  FALSE
  <2>1. CASE ExpireReceive(e) \/ ExpireCancel(e)
    <3>1. PICK pc \in {"underpaid", "fail"} : expirer' = [expirer EXCEPT ![e].pc = pc]
      BY <2>1 DEF ExpireReceive, ExpireCancel
    <3>2. expirer[e] \in ExpirerStates
      BY DEF TypeOK
    <3>3. expirer'[e] = [expirer[e] EXCEPT !.pc = pc]
      BY <3>1, ExpirerStep
    <3> QED
      BY <3>2, <3>3 DEF ExpirerStates
  <2>2. CASE ExpireUnderpaid(e) \/ ExpireFail(e)
    BY <2>2 DEF ExpireUnderpaid, ExpireFail, TypeOK, IdleExpirer, Expiring
  <2> QED
    BY <1>5, <2>1, <2>2
<1> QED
  BY <1>1, <1>2, <1>3, <1>4, <1>5, <1>6, ExpirerFrame DEF ExpirerNext, IdleExpirer, Expiring

LEMMA RecheckerFrame ==
  ASSUME [Next]_vars
  PROVE  \/ rechecker' = rechecker
         \/ rechecker' = NoTransfer
         \/ \E t \in Transfers : RecheckRead(t)
<1> USE DEF jobs
<1> DEFINE Same == rechecker' = rechecker
<1>1. ASSUME NEW t \in Transfers, Send(t) \/ Settle(t) PROVE Same
  BY <1>1 DEF Send, Settle
<1>2. ASSUME PassTime \/ MarkFillReorged PROVE Same \/ rechecker' = NoTransfer
  BY <1>2 DEF PassTime, MarkFillReorged
<1>3. ASSUME NEW p \in Pollers, PollerNext(p) PROVE Same
  BY <1>3 DEF PollerNext, Polling, PollList, PollNothing, Detect,
     AdminReconcileFill, ProcessInboundTransaction, RecordPartialFill,
     MarkPartial, RecordFinalFill, Receive, SetInProgress
<1>4. ASSUME NEW c \in Checkers, CheckerNext(c) PROVE Same
  BY <1>4 DEF CheckerNext, CheckIncoming, ConfirmRead, ConfirmWrite,
     CheckerSetPayment, CancelIncoming, CheckerFailPayment
<1>5. ASSUME NEW e \in Expirers, ExpirerNext(e) PROVE Same
  BY <1>5 DEF ExpirerNext, ExpireList, ExpireLoad, ExpireDecide, ExpireReceive, ExpireUnderpaid,
     ExpireCancel, ExpireFail
<1>6. ASSUME NEW m \in Merchants, MerchantNext(m) PROVE Same
  BY <1>6 DEF MerchantNext, ResolveRead, ResolveUpdate, ResolveCredit,
     DeclineRead, DeclineUpdate
<1>7. ASSUME Aborts PROVE Same \/ rechecker' = NoTransfer
  BY <1>7 DEF Aborts, RecheckerAbort, PollerAbort, CheckerAbort, ExpirerAbort,
     MerchantAbort
<1> QED
  BY <1>1, <1>2, <1>3, <1>4, <1>5, <1>6, <1>7 DEF Next, Aborts, vars

(* A transfer between its detection and its record has no fill yet; what   *)
(* the recheck gives up has one.                                           *)
FreshFill ==
  /\ \A p \in Pollers :
       poller[p].pc \in {"found", "recordPartial", "recordFinal"}
         => fill[poller[p].t] = "none"
  /\ rechecker # NoTransfer => fill[rechecker] # "none"

LEMMA RecordsFresh ==
  ASSUME TypeOK, FreshFill, NEW p \in Pollers,
         RecordPartialFill(p) \/ RecordFinalFill(p)
  PROVE  /\ poller[p].t \in Transfers
         /\ Amount[poller[p].t] \in Nat
         /\ fill' = [fill EXCEPT ![poller[p].t] = "confirmed"]
         /\ confirmedSum' = confirmedSum + Amount[poller[p].t]
         /\ bookedSum' = bookedSum + Amount[poller[p].t]
<1>1. poller[p].t \in Transfers /\ fill[poller[p].t] = "none"
  BY PollerWorks DEF RecordPartialFill, RecordFinalFill, FreshFill
<1> QED
  BY <1>1, ConstantsAssumption DEF RecordPartialFill, RecordFinalFill, RecordFill

LEMMA FreshFillStep ==
  ASSUME OneWatcher, LookupsAnswer, TypeOK, FreshFill, [Next]_vars
  PROVE  FreshFill'
<1>1. ASSUME NEW p \in Pollers,
             poller'[p].pc \in {"found", "recordPartial", "recordFinal"}
      PROVE  fill'[poller'[p].t] = "none"
  <2>0. poller[p] \in PollerStates
    BY DEF TypeOK
  <2>1. CASE poller'[p] = poller[p]
    <3>1. poller[p].t \in Transfers /\ fill[poller[p].t] = "none"
      BY <1>1, <2>1, PollerWorks DEF FreshFill
    <3>2. CASE UNCHANGED <<fill, confirmedSum, bookedSum>>
      BY <2>1, <3>1, <3>2
    <3>3. ASSUME NEW q \in Pollers, RecordPartialFill(q) \/ RecordFinalFill(q)
          PROVE  FALSE
      <4>1. q = p
        BY DEF OneWatcher
      <4>2. PICK pc \in {"markPartial", "receive"} :
              poller' = [poller EXCEPT ![p].pc = pc]
        BY <3>3, <4>1 DEF RecordPartialFill, RecordFinalFill
      <4>3. poller'[p] = [poller[p] EXCEPT !.pc = pc]
        BY <4>2 DEF TypeOK
      <4> QED
        BY <1>1, <2>0, <4>3 DEF PollerStates
    <3>4. CASE MarkFillReorged
      BY <2>1, <3>1, <3>4 DEF MarkFillReorged, FreshFill, TypeOK
    <3> QED
      BY <3>2, <3>3, <3>4, FillFrame
  <2>2. CASE poller'[p] \in {IdlePoller, ListedPoller}
    BY <1>1, <2>2 DEF IdlePoller, ListedPoller
  <2>3. ASSUME NEW t \in Transfers, Detect(p, t) \/ AdminReconcileFill(p, t),
               poller'[p] = FoundPoller(t)
        PROVE  fill'[poller'[p].t] = "none"
    <3>1. ~ AdminReconcileFill(p, t)
      BY DEF OneWatcher, AdminReconcileFill, TypeOK
    <3> QED
      BY <2>3, <3>1 DEF Detect, FoundPoller, rows, LookupsAnswer
  <2>4. CASE /\ ProcessInboundTransaction(p)
             /\ \E pc \in {"recordPartial", "recordFinal"}, st \in TxInProgress :
                  poller'[p] = [pc |-> pc, t |-> poller[p].t,
                      sum |-> confirmedSum + Amount[poller[p].t], st |-> st]
    BY <2>4 DEF ProcessInboundTransaction, FreshFill, rows
  <2>5. CASE poller'[p] \in {[poller[p] EXCEPT !.pc = "markPartial"],
                             [poller[p] EXCEPT !.pc = "receive"],
                             [poller[p] EXCEPT !.pc = "setInProgress"]}
    BY <1>1, <2>0, <2>5 DEF PollerStates
  <2> QED
    BY <2>1, <2>2, <2>3, <2>4, <2>5, PollerMoves
<1>2. ASSUME rechecker' # NoTransfer PROVE fill'[rechecker'] # "none"
  <2>1. CASE rechecker' = rechecker
    <3>1. fill[rechecker] # "none" /\ rechecker \in Transfers
      BY <1>2, <2>1 DEF FreshFill, TypeOK, TransferOrNone
    <3>2. ASSUME NEW q \in Pollers, RecordPartialFill(q) \/ RecordFinalFill(q)
          PROVE  fill'[rechecker] # "none"
      BY <3>1, <3>2, RecordsFresh DEF TypeOK
    <3>3. CASE MarkFillReorged
      BY <1>2, <3>3 DEF MarkFillReorged
    <3> QED
      BY <2>1, <3>1, <3>2, <3>3, FillFrame
  <2>2. ASSUME NEW t \in Transfers, RecheckRead(t) PROVE fill'[rechecker'] # "none"
    BY <2>2 DEF RecheckRead, rows
  <2> QED
    BY <1>2, <2>1, <2>2, RecheckerFrame
<1> QED
  BY <1>1, <1>2 DEF FreshFill

(* Every sum a row or a process carries is covered by the fills booked so  *)
(* far, or by those and the one about to be booked.                        *)
SumsBooked ==
  /\ 0 <= bookedSum /\ confirmedSum <= bookedSum
  /\ tx.fact <= bookedSum
  /\ \A p \in Pollers :
       /\ poller[p].pc = "recordFinal" =>
            poller[p].sum <= bookedSum + Amount[poller[p].t]
       /\ poller[p].pc = "receive" => poller[p].sum <= bookedSum
  /\ \A c \in Checkers :
       checker[c].pc \in {"confirm", "write"} => checker[c].fact <= bookedSum
  /\ \A e \in Expirers : expirer[e].pc = "receive" => expirer[e].sum <= bookedSum

LEMMA BooksGrow ==
  ASSUME TypeOK, FreshFill, SumsBooked, [Next]_vars
  PROVE  /\ bookedSum' \in Int /\ confirmedSum' \in Int
         /\ bookedSum <= bookedSum' /\ confirmedSum' <= bookedSum'
<1>1. CASE UNCHANGED <<fill, confirmedSum, bookedSum>>
  BY <1>1 DEF TypeOK, SumsBooked
<1>2. ASSUME NEW p \in Pollers, RecordPartialFill(p) \/ RecordFinalFill(p)
      PROVE  /\ bookedSum' \in Int /\ confirmedSum' \in Int
             /\ bookedSum <= bookedSum' /\ confirmedSum' <= bookedSum'
  BY <1>2, RecordsFresh DEF TypeOK, SumsBooked
<1>3. CASE MarkFillReorged
  <2>1. Amount[rechecker] \in Nat
    BY <1>3, ConstantsAssumption DEF MarkFillReorged, TypeOK, TransferOrNone
  <2> QED
    BY <1>3, <2>1 DEF MarkFillReorged, TypeOK, SumsBooked
<1> QED
  BY <1>1, <1>2, <1>3, FillFrame

LEMMA SumsBookedStep ==
  ASSUME TypeOK, FreshFill, SumsBooked, [Next]_vars
  PROVE  SumsBooked'
<1>0. /\ bookedSum \in Int /\ confirmedSum \in Int /\ tx.fact \in Int
      /\ bookedSum' \in Int /\ confirmedSum' \in Int
      /\ bookedSum <= bookedSum' /\ confirmedSum' <= bookedSum'
      /\ 0 <= bookedSum /\ confirmedSum <= bookedSum /\ tx.fact <= bookedSum
  BY BooksGrow DEF TypeOK, TxRows, SumsBooked
<1>1. tx'.fact <= bookedSum'
  <2>1. CASE tx' = tx
    BY <1>0, <2>1
  <2>2. ASSUME NEW p \in Pollers, Receive(p) PROVE tx'.fact <= bookedSum'
    BY <1>0, <2>2, PollerWorks DEF Receive, SumsBooked
  <2>3. ASSUME NEW c \in Checkers, ConfirmWrite(c) PROVE tx'.fact <= bookedSum'
    <3>1. checker[c].fact \in Int /\ checker[c].fact <= bookedSum
      BY <2>3 DEF ConfirmWrite, SumsBooked, TypeOK, CheckerStates
    <3> QED
      BY <1>0, <2>3, <3>1 DEF ConfirmWrite
  <2>4. ASSUME NEW c \in Checkers, CancelIncoming(c) PROVE tx'.fact = tx.fact
    BY <2>4 DEF CancelIncoming, TypeOK, TxRows
  <2>5. ASSUME NEW e \in Expirers, ExpireReceive(e) PROVE tx'.fact <= bookedSum'
    <3>1. expirer[e].sum \in Int /\ expirer[e].sum <= bookedSum
      BY <2>5 DEF ExpireReceive, SumsBooked, TypeOK, ExpirerStates
    <3> QED
      BY <1>0, <2>5, <3>1 DEF ExpireReceive
  <2>6. ASSUME NEW e \in Expirers, ExpireCancel(e) PROVE tx'.fact = tx.fact
    BY <2>6 DEF ExpireCancel, TypeOK, TxRows
  <2> QED
    BY <1>0, <2>1, <2>2, <2>3, <2>4, <2>5, <2>6, TxFrame
<1>2. ASSUME NEW p \in Pollers
      PROVE  /\ poller'[p].pc = "recordFinal" =>
                  poller'[p].sum <= bookedSum' + Amount[poller'[p].t]
             /\ poller'[p].pc = "receive" => poller'[p].sum <= bookedSum'
  <2>0. poller[p] \in PollerStates
    BY DEF TypeOK
  <2>1. CASE poller'[p] = poller[p]
    <3>1. ASSUME poller[p].pc \in {"recordFinal", "receive"}
          PROVE  poller[p].sum \in Int /\ Amount[poller[p].t] \in Int
      BY <3>1, PollerWorks, ConstantsAssumption
    <3> QED
      BY <1>0, <2>1, <3>1 DEF SumsBooked
  <2>2. CASE poller'[p] \in {IdlePoller, ListedPoller}
    BY <2>2 DEF IdlePoller, ListedPoller
  <2>3. CASE \E t \in Transfers : poller'[p] = FoundPoller(t)
    BY <2>3 DEF FoundPoller
  <2>4. CASE /\ ProcessInboundTransaction(p)
             /\ \E pc \in {"recordPartial", "recordFinal"}, st \in TxInProgress :
                  poller'[p] = [pc |-> pc, t |-> poller[p].t,
                      sum |-> confirmedSum + Amount[poller[p].t], st |-> st]
    <3>1. Amount[poller[p].t] \in Int
      BY <2>4, PollerWorks, ConstantsAssumption DEF ProcessInboundTransaction
    <3> QED
      BY <1>0, <2>4, <3>1
  <2>5. CASE RecordFinalFill(p) /\ poller'[p] = [poller[p] EXCEPT !.pc = "receive"]
    <3>1. /\ poller'[p].sum = poller[p].sum /\ poller'[p].pc = "receive"
          /\ poller[p].pc = "recordFinal" /\ poller[p].sum \in Int
      BY <2>0, <2>5 DEF RecordFinalFill, PollerStates
    <3>2. bookedSum' = bookedSum + Amount[poller[p].t] /\ Amount[poller[p].t] \in Nat
      BY <2>5, RecordsFresh
    <3> QED
      BY <3>1, <3>2 DEF SumsBooked
  <2>6. CASE poller'[p] \in {[poller[p] EXCEPT !.pc = "markPartial"],
                             [poller[p] EXCEPT !.pc = "setInProgress"]}
    BY <2>0, <2>6 DEF PollerStates
  <2> QED
    BY <2>1, <2>2, <2>3, <2>4, <2>5, <2>6, PollerMoves
<1>3. ASSUME NEW c \in Checkers, checker'[c].pc \in {"confirm", "write"}
      PROVE  checker'[c].fact <= bookedSum'
  <2>0. checker[c] \in CheckerStates /\ checker[c].fact \in Int
    BY DEF TypeOK, CheckerStates
  <2>1. CASE checker'[c] = checker[c]
    BY <1>0, <1>3, <2>0, <2>1 DEF SumsBooked
  <2>2. CASE checker'[c] = IdleChecker
    BY <1>3, <2>2 DEF IdleChecker
  <2>3. CASE \E pc \in {"confirm", "cancel"} :
               checker'[c] = [pc |-> pc, st |-> tx.status,
                             hash |-> tx.hash, fact |-> tx.fact]
    BY <1>0, <2>3
  <2>4. CASE ConfirmRead(c) /\ checker'[c] = [checker[c] EXCEPT !.pc = "write"]
    <3>1. checker'[c].fact = checker[c].fact /\ checker[c].pc = "confirm"
      BY <2>0, <2>4 DEF CheckerStates, ConfirmRead
    <3> QED
      BY <1>0, <2>0, <3>1 DEF SumsBooked
  <2> QED
    BY <1>3, <2>1, <2>2, <2>3, <2>4, CheckerMoves
<1>4. ASSUME NEW e \in Expirers, expirer'[e].pc = "receive"
      PROVE  expirer'[e].sum <= bookedSum'
  <2>1. expirer[e].sum \in Int
    BY DEF TypeOK, ExpirerStates
  <2> QED
    BY <1>0, <1>4, <2>1, ExpirerMoves DEF SumsBooked
<1> QED
  BY <1>0, <1>1, <1>2, <1>3, <1>4 DEF SumsBooked

(* With one watcher and no administrator, the fact amount never exceeds    *)
(* what distinct transfers delivered, however often the watcher sees a     *)
(* transfer again, the recheck gives fills up, or a job dies: the duplicate*)
(* check on recorded fills protects the sum.                               *)
THEOREM FactBooked ==
  ASSUME OneWatcher, LookupsAnswer
  PROVE  Spec => []FactIsBooked
<1>1. Init => FreshFill /\ SumsBooked
  BY DEF Init, FreshFill, SumsBooked, IdlePoller, IdleChecker, IdleExpirer,
     Expiring
<1>2. TypeOK /\ FreshFill /\ SumsBooked /\ [Next]_vars
        => FreshFill' /\ SumsBooked'
  BY FreshFillStep, SumsBookedStep
<1>3. SumsBooked => FactIsBooked
  BY DEF SumsBooked, FactIsBooked
<1> QED
  BY <1>1, <1>2, <1>3, TypeCorrect, PTL DEF Spec

-----------------------------------------------------------------------------
(* Without overlapping pollers or checkers, confirm() credits once         *)

(* One execution of the receipt check at a time.                           *)
OneChecker == \A c, d \in Checkers : c = d

(* A poller that may still put the row in progress; a checker that will    *)
(* credit; an invoice somebody may credit.                                 *)
MayReceive(p) ==
  poller[p].pc \in {"listed", "found", "recordPartial", "recordFinal", "receive"}
Ticket(c) == checker[c].pc \in {"confirm", "write"} /\ checker[c].st = "inProgress"
Paying == tx.status = "inProgress" \/ \E c \in Checkers : Ticket(c)

CreditHeld ==
  /\ tx.status = "pending" \/ (\E p \in Pollers : MayReceive(p))
       => ~Paying /\ auditLog.confirm = 0
  /\ auditLog.confirm <= 1
  /\ auditLog.confirm = 1 => ~Paying

LEMMA CreditFrame ==
  ASSUME TypeOK, [Next]_vars
  PROVE  \/ auditLog'.confirm = auditLog.confirm
         \/ \E c \in Checkers : ConfirmWrite(c)
<1> USE DEF money
<1> DEFINE Same == auditLog'.confirm = auditLog.confirm
<1>1. ASSUME NEW t \in Transfers, Send(t) \/ Settle(t) \/ RecheckRead(t)
      PROVE  Same
  BY <1>1 DEF Send, Settle, RecheckRead
<1>2. ASSUME PassTime \/ MarkFillReorged PROVE Same
  BY <1>2 DEF PassTime, MarkFillReorged
<1>3. ASSUME NEW p \in Pollers, PollerNext(p) PROVE Same
  BY <1>3 DEF PollerNext, Polling, PollList, PollNothing, Detect,
     AdminReconcileFill, ProcessInboundTransaction, RecordPartialFill,
     MarkPartial, RecordFinalFill, Receive, SetInProgress
<1>4. ASSUME NEW c \in Checkers, CheckerNext(c) PROVE Same \/ ConfirmWrite(c)
  BY <1>4 DEF CheckerNext, CheckIncoming, ConfirmRead,
     CheckerSetPayment, CancelIncoming, CheckerFailPayment
<1>5. ASSUME NEW e \in Expirers, ExpirerNext(e) PROVE Same
  BY <1>5 DEF ExpirerNext, ExpireList, ExpireLoad, ExpireDecide, ExpireReceive, ExpireUnderpaid,
     ExpireCancel, ExpireFail
<1>6. ASSUME NEW m \in Merchants, MerchantNext(m) PROVE Same
  <2>1. CASE ResolveCredit(m)
    BY <2>1 DEF ResolveCredit, TypeOK
  <2> QED
    BY <1>6, <2>1 DEF MerchantNext, ResolveRead, ResolveUpdate, DeclineRead,
       DeclineUpdate
<1>7. ASSUME Aborts PROVE Same
  BY <1>7 DEF Aborts, RecheckerAbort, PollerAbort, CheckerAbort, ExpirerAbort,
     MerchantAbort, Fault
<1> QED
  BY <1>1, <1>2, <1>3, <1>4, <1>5, <1>6, <1>7 DEF Next, Aborts, vars

LEMMA MayReceiveStep ==
  ASSUME OneWatcher, TypeOK, [Next]_vars, NEW p \in Pollers, MayReceive(p)'
  PROVE  MayReceive(p) \/ tx.status = "pending"
<1>1. poller[p] \in PollerStates
  BY DEF TypeOK
<1>2. CASE poller'[p] = poller[p]
  BY <1>2 DEF MayReceive
<1>3. CASE poller'[p] = IdlePoller
  BY <1>3 DEF MayReceive, IdlePoller
<1>4. ASSUME NEW t \in Transfers, Detect(p, t) \/ AdminReconcileFill(p, t)
      PROVE  MayReceive(p)
  BY <1>4 DEF OneWatcher, TypeOK, AdminReconcileFill, Detect, MayReceive
<1>5. CASE PollList(p)
  BY <1>5 DEF PollList
<1>6. CASE ProcessInboundTransaction(p) \/ RecordFinalFill(p)
  BY <1>6 DEF ProcessInboundTransaction, RecordFinalFill, MayReceive
<1>7. CASE poller'[p] \in {[poller[p] EXCEPT !.pc = "markPartial"],
                           [poller[p] EXCEPT !.pc = "setInProgress"]}
  BY <1>1, <1>7 DEF PollerStates, MayReceive
<1> QED
  BY <1>2, <1>3, <1>4, <1>5, <1>6, <1>7, PollerMoves

LEMMA TicketStep ==
  ASSUME TypeOK, [Next]_vars, NEW c \in Checkers, Ticket(c)'
  PROVE  Ticket(c) \/ tx.status = "inProgress"
<1>1. checker[c] \in CheckerStates
  BY DEF TypeOK
<1>2. CASE checker'[c] = checker[c]
  BY <1>2 DEF Ticket
<1>3. CASE checker'[c] = IdleChecker
  BY <1>3 DEF Ticket, IdleChecker
<1>4. CASE \E pc \in {"confirm", "cancel"} :
             checker'[c] = [pc |-> pc, st |-> tx.status,
                           hash |-> tx.hash, fact |-> tx.fact]
  BY <1>4 DEF Ticket
<1>5. CASE ConfirmRead(c) /\ checker'[c] = [checker[c] EXCEPT !.pc = "write"]
  BY <1>1, <1>5 DEF Ticket, ConfirmRead, CheckerStates
<1>6. CASE checker'[c].pc \in {"setPayment", "fail"}
  BY <1>6 DEF Ticket
<1> QED
  BY <1>2, <1>3, <1>4, <1>5, <1>6, CheckerMoves

LEMMA CreditHeldStep ==
  ASSUME OneWatcher, OneChecker, TypeOK, CreditHeld, [Next]_vars
  PROVE  CreditHeld'
<1>0. auditLog.confirm \in Nat
  BY DEF TypeOK
<1>1. ASSUME NEW c \in Checkers, ConfirmWrite(c) PROVE CreditHeld'
  <2>1. tx'.status \in {"completed", "completedInv"}
    BY <1>1 DEF ConfirmWrite, ConfirmedStatus
  <2>2. ~Paying'
    <3>1. ~Ticket(c)'
      <4>1. checker[c] \in CheckerStates
        BY DEF TypeOK
      <4>2. checker'[c] = [checker[c] EXCEPT !.pc = "setPayment"]
        BY <1>1 DEF ConfirmWrite, TypeOK
      <4> QED
        BY <4>1, <4>2 DEF Ticket, CheckerStates
    <3> QED
      BY <2>1, <3>1 DEF Paying, OneChecker
  <2>3. \A p \in Pollers : MayReceive(p)' = MayReceive(p)
    BY <1>1 DEF ConfirmWrite, MayReceive
  <2>4. CASE Ticket(c)
    <3>1. Paying
      BY <2>4 DEF Paying
    <3>2. auditLog.confirm = 0 /\ \A p \in Pollers : ~MayReceive(p)
      BY <1>0, <3>1 DEF CreditHeld
    <3>3. auditLog'.confirm = 1
      BY <1>1, <2>4, <3>2 DEF ConfirmWrite, Ticket, TypeOK
    <3> QED
      BY <2>1, <2>2, <2>3, <3>2, <3>3 DEF CreditHeld
  <2>5. CASE ~Ticket(c)
    <3>1. auditLog' = auditLog
      BY <1>1, <2>5 DEF ConfirmWrite, Ticket, money
    <3> QED
      BY <2>1, <2>2, <2>3, <3>1 DEF CreditHeld
  <2> QED
    BY <2>4, <2>5
<1>2. ASSUME NEW p \in Pollers, Receive(p), auditLog'.confirm = auditLog.confirm
      PROVE  CreditHeld'
  <2>1. auditLog.confirm = 0
    BY <1>2 DEF Receive, MayReceive, CreditHeld
  <2>2. tx'.status # "pending"
    BY <1>2, PollerWorks DEF Receive, TxInProgress
  <2>3. ~MayReceive(p)'
    <3>1. poller'[p] \in {IdlePoller, [poller[p] EXCEPT !.pc = "setInProgress"]}
      BY <1>2 DEF Receive, TypeOK
    <3>2. poller[p] \in PollerStates
      BY DEF TypeOK
    <3> QED
      BY <3>1, <3>2 DEF MayReceive, IdlePoller, PollerStates
  <2> QED
    BY <1>2, <2>1, <2>2, <2>3 DEF CreditHeld, OneWatcher
<1>3. ASSUME \A c \in Checkers : ~ConfirmWrite(c),
             \A p \in Pollers : ~Receive(p)
      PROVE  CreditHeld'
  <2>1. auditLog'.confirm = auditLog.confirm
    BY <1>3, CreditFrame
  <2>2. tx'.status \in {"pending", "inProgress"} => tx'.status = tx.status
    <3>1. ASSUME NEW c \in Checkers, CancelIncoming(c) PROVE tx'.status = "failed"
      BY <3>1 DEF CancelIncoming, TypeOK, TxRows
    <3>2. ASSUME NEW e \in Expirers, ExpireReceive(e)
          PROVE  tx' = tx \/ tx'.status = "inProgressInv"
      BY <3>2 DEF ExpireReceive
    <3>3. ASSUME NEW e \in Expirers, ExpireCancel(e) PROVE tx'.status = "canceled"
      BY <3>3 DEF ExpireCancel, TypeOK, TxRows
    <3> QED
      BY <1>3, <3>1, <3>2, <3>3, TxFrame
  <2>3. Paying' => Paying
    BY <2>2, TicketStep DEF Paying
  <2>4. tx'.status = "pending" \/ (\E p \in Pollers : MayReceive(p)')
          => tx.status = "pending" \/ (\E p \in Pollers : MayReceive(p))
    BY <2>2, MayReceiveStep
  <2> QED
    BY <2>1, <2>3, <2>4 DEF CreditHeld
<1> QED
  BY <1>1, <1>2, <1>3, CreditFrame, <1>0

(* confirm() credits the merchant at most once for one invoice, although   *)
(* the expiry may put a settled row back in progress and a job may die     *)
(* between the credit and the payment's update.                            *)
THEOREM CreditedOnce ==
  ASSUME OneWatcher, OneChecker
  PROVE  Spec => []ConfirmCreditsOnce
<1>1. Init => CreditHeld
  BY DEF Init, CreditHeld, Paying, Ticket, MayReceive, IdlePoller, IdleChecker
<1>2. TypeOK /\ CreditHeld /\ [Next]_vars => CreditHeld'
  BY CreditHeldStep
<1>3. CreditHeld => ConfirmCreditsOnce
  BY DEF CreditHeld, ConfirmCreditsOnce
<1> QED
  BY <1>1, <1>2, <1>3, TypeCorrect, PTL DEF Spec

=============================================================================
