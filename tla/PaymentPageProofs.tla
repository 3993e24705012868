------------------------- MODULE PaymentPageProofs -------------------------
(* For any currencies, any number of requests in flight, of status changes  *)
(* and of losses: the types; that a result page only shows a status the     *)
(* payment had; that a customer who waits pays in the currency agreed on;   *)
(* and that the page implements StatusView.                                 *)
EXTENDS PaymentPage, TLAPS

-----------------------------------------------------------------------------
(* The requests there are, by kind.                                         *)

SentAs(kind, cur, then) ==
  [kind : {kind}, at : {"server"}, cur : cur, of : {None}, then : then]
AnsweredAs(kind, ok, cur, of, then) ==
  [kind : {kind}, at : {"page"}, ok : ok, cur : cur, of : of, then : then]

Sent ==
  SentAs("payment", {None}, {"load", "poll"}) \cup SentAs("lock", {None}, {"submit"})
    \cup SentAs("customer", {None}, {"fill"}) \cup SentAs("method", Currencies, {"select"})

PaymentAnswers ==
  AnsweredAs("payment", {TRUE}, {None}, Payments, {"load", "poll"})
    \cup AnsweredAs("payment", {FALSE}, {None}, Payments \cup {None}, {"load", "poll"})
ConvertAnswers ==
  AnsweredAs("convert", {TRUE}, Currencies, {None}, {"select"})
    \cup AnsweredAs("convert", {TRUE}, Currencies, Payments, {"known"})
OtherAnswers ==
  AnsweredAs("lock", BOOLEAN, {None}, {None}, {"submit"})
    \cup AnsweredAs("customer", BOOLEAN, {None}, {None}, {"fill"})
    \cup AnsweredAs("method", BOOLEAN, Currencies, {None}, {"select"})
    \cup AnsweredAs("supported", BOOLEAN, {None}, Payments, {"known"})
Requests == {Free} \cup Sent \cup PaymentAnswers \cup ConvertAnswers \cup OtherAnswers

(* A payment that is still pending has never changed its status.            *)
PendingIsNew == payment.status = "pending" => payment.age = 0

LEMMA RequestKinds ==
  ASSUME NEW r \in Requests
  PROVE  /\ r = Free <=> r.kind = "none"
         /\ r # Free => r.at \in {"server", "page"}
         /\ r # Free /\ r.at = "server" => r \in Sent
         /\ r # Free /\ r.at = "page" /\ r.kind = "payment" => r \in PaymentAnswers
         /\ r.kind = "convert" => r \in ConvertAnswers
         /\ r # Free /\ r.at = "page" /\ r.kind \notin {"payment", "convert"} => r \in OtherAnswers
<1>1. CASE r = Free
  BY <1>1 DEF Free
<1>2. CASE r \in Sent
  BY <1>2 DEF Sent, SentAs, Free
<1>3. CASE r \in PaymentAnswers
  <2>1. r.kind = "payment" /\ r.at = "page"
    BY <1>3 DEF PaymentAnswers, AnsweredAs
  <2> QED BY <1>3, <2>1 DEF Free
<1>4. CASE r \in ConvertAnswers
  <2>1. r.kind = "convert" /\ r.at = "page"
    BY <1>4 DEF ConvertAnswers, AnsweredAs
  <2> QED BY <1>4, <2>1 DEF Free
<1>5. CASE r \in OtherAnswers
  BY <1>5 DEF OtherAnswers, AnsweredAs, Free
<1> QED BY <1>1, <1>2, <1>3, <1>4, <1>5 DEF Requests

LEMMA AskingIsRequest ==
  /\ \A t \in {"load", "poll"} : Asking("payment", None, None, t) \in Requests
  /\ Asking("lock", None, None, "submit") \in Requests
  /\ Asking("customer", None, None, "fill") \in Requests
  /\ \A c \in Currencies : Asking("method", c, None, "select") \in Requests
  /\ \A c \in Currencies : Asking("convert", c, None, "select") \in Requests
  /\ \A p \in Payments, c \in Currencies : Asking("convert", c, p, "known") \in Requests
  /\ \A p \in Payments : AskMethods(p) \in Requests
  /\ GetPayment \in Requests
BY DEF Asking, Answer, AskMethods, GetPayment, Requests, Sent, SentAs, ConvertAnswers,
       OtherAnswers, AnsweredAs

LEMMA AskingFields ==
  ASSUME NEW k, NEW c, NEW p, NEW t
  PROVE  /\ Asking(k, c, p, t).kind = k /\ Asking(k, c, p, t).cur = c
         /\ Asking(k, c, p, t).of = p /\ Asking(k, c, p, t).then = t
         /\ Asking(k, c, p, t).at = IF k \in {"convert", "supported"} THEN "page" ELSE "server"
BY DEF Asking, Answer

LEMMA AnswerFields ==
  ASSUME NEW k, NEW ok, NEW c, NEW p, NEW t
  PROVE  /\ Answer(k, ok, c, p, t).kind = k /\ Answer(k, ok, c, p, t).ok = ok
         /\ Answer(k, ok, c, p, t).cur = c /\ Answer(k, ok, c, p, t).of = p
         /\ Answer(k, ok, c, p, t).then = t /\ Answer(k, ok, c, p, t).at = "page"
BY DEF Answer

LEMMA ServedIsRequest ==
  ASSUME NEW r \in Sent, payment \in Payments
  PROVE  Answer(r.kind, Accepts(r), r.cur,
                IF r.kind = "payment" THEN payment ELSE r.of, r.then) \in Requests
<1>1. CASE r \in SentAs("payment", {None}, {"load", "poll"})
  <2>1. r.kind = "payment"
    BY <1>1 DEF SentAs
  <2>2. Accepts(r) = TRUE
    BY <2>1 DEF Accepts
  <2> QED BY <1>1, <2>1, <2>2 DEF SentAs, Answer, Requests, PaymentAnswers, AnsweredAs
<1>2. CASE r \in SentAs("lock", {None}, {"submit"})
  <2>1. Accepts(r) \in BOOLEAN /\ r.kind = "lock"
    BY <1>2 DEF Accepts, isLocked, SentAs, Payments
  <2> QED BY <1>2, <2>1 DEF SentAs, Answer, Requests, OtherAnswers, AnsweredAs
<1>3. CASE r \in SentAs("customer", {None}, {"fill"})
  <2>1. Accepts(r) \in BOOLEAN /\ r.kind = "customer"
    BY <1>3 DEF Accepts, isLocked, SentAs, Payments
  <2> QED BY <1>3, <2>1 DEF SentAs, Answer, Requests, OtherAnswers, AnsweredAs
<1>4. CASE r \in SentAs("method", Currencies, {"select"})
  <2>1. Accepts(r) \in BOOLEAN /\ r.kind = "method"
    BY <1>4 DEF Accepts, isLocked, SentAs, Payments
  <2> QED BY <1>4, <2>1 DEF SentAs, Answer, Requests, OtherAnswers, AnsweredAs
<1> QED BY <1>1, <1>2, <1>3, <1>4 DEF Sent

(* A request whose answer is lost stays of its kind; conversions are not    *)
(* lost.                                                                    *)
LEMMA LostIsRequest ==
  ASSUME NEW r \in Requests, r # Free, r.kind # "convert"
  PROVE  Answer(r.kind, FALSE, r.cur, r.of, r.then) \in Requests
<1>1. CASE r \in Sent
  BY <1>1 DEF Sent, SentAs, Answer, Requests, PaymentAnswers, OtherAnswers, AnsweredAs
<1>2. CASE r \in PaymentAnswers
  BY <1>2 DEF PaymentAnswers, Answer, Requests, AnsweredAs
<1>3. CASE r \in OtherAnswers
  BY <1>3 DEF OtherAnswers, Answer, Requests, AnsweredAs
<1>4. r \notin ConvertAnswers
  BY DEF ConvertAnswers, AnsweredAs
<1> QED BY <1>1, <1>2, <1>3, <1>4 DEF Requests

(* What the handlers of answers read.                                       *)
LEMMA PaymentAnswer ==
  ASSUME NEW r \in PaymentAnswers
  PROVE  r.ok \in BOOLEAN /\ (r.ok => r.of \in Payments) /\ r.of \in Payments \cup {None}
BY DEF PaymentAnswers, AnsweredAs

LEMMA ConvertAnswer ==
  ASSUME NEW r \in ConvertAnswers
  PROVE  /\ r.cur \in Currencies /\ r.at = "page"
         /\ r.then = "select" => r.of = None
         /\ r.then = "known" => r.of \in Payments
         /\ r.then \in {"select", "known"}
BY DEF ConvertAnswers, AnsweredAs

LEMMA OtherAnswer ==
  ASSUME NEW r \in OtherAnswers
  PROVE  /\ r.ok \in BOOLEAN
         /\ r.kind = "supported" => r.of \in Payments
         /\ r.kind # "supported" => r.of = None
BY DEF OtherAnswers, AnsweredAs

(* A step takes the request of one slot further.                            *)
LEMMA OneSlotMoves ==
  ASSUME request \in [Slots -> Requests], NEW i \in Slots, NEW q \in Requests,
         request' = [request EXCEPT ![i] = q]
  PROVE  /\ request' \in [Slots -> Requests] /\ request'[i] = q
         /\ \A j \in Slots \ {i} : request'[j] = request[j]
OBVIOUS

LEMMA FreeIsRequest == Free \in Requests
BY DEF Requests

LEMMA SlotsTyped ==
  ASSUME request \in [Slots -> Requests]
  PROVE  \A i \in Slots : request[i] = Free \/ request[i].at \in {"server", "page"}
BY RequestKinds

-----------------------------------------------------------------------------
(* What setPayment comes to.                                                *)

Forms == [method : Currencies \cup {None}, chosen : BOOLEAN, filled : BOOLEAN,
          methods : BOOLEAN]

NothingMore(i) == Ends(i) /\ UNCHANGED <<route, passed, form, timers>>
ShowsResult(p, i) ==
  /\ route = "pay" /\ isLocked(p) /\ ResultPage(p) # "pay"
  /\ route' = ResultPage(p) /\ passed' = p /\ form' = EmptyForm
  /\ Ends(i) /\ UNCHANGED timers
PollsAgain(i) == timers' = timers + 1 /\ Ends(i) /\ UNCHANGED <<route, passed, form>>
AsksRate(p, i) ==
  /\ p.method # None /\ form' = [form EXCEPT !.method = p.method]
  /\ GoesOn(i, Asking("convert", p.method, p, "known"))
  /\ UNCHANGED <<route, passed, timers>>
AsksMethods(p, i) ==
  /\ form' = WithCustomer(p, form) /\ GoesOn(i, AskMethods(p))
  /\ UNCHANGED <<route, passed, timers>>

LEMMA EffectOfPayment ==
  ASSUME NEW p, NEW i, PaymentEffect(p, i)
  PROVE  \/ NothingMore(i) \/ ShowsResult(p, i) \/ PollsAgain(i)
         \/ AsksRate(p, i) \/ AsksMethods(p, i)
<1>1. CASE getSupportedMethods(p, i) /\ UNCHANGED <<route, passed, timers>>
  BY <1>1 DEF getSupportedMethods, NothingMore, AsksRate, AsksMethods
<1>2. CASE ~(getSupportedMethods(p, i) /\ UNCHANGED <<route, passed, timers>>)
  BY <1>2 DEF PaymentEffect, NothingMore, ShowsResult, PollsAgain, hasPaymentInfo
<1> QED BY <1>1, <1>2

LEMMA FormsTyped ==
  ASSUME form \in Forms
  PROVE  /\ EmptyForm \in Forms
         /\ \A p \in Payments : WithCustomer(p, form) \in Forms
         /\ \A p \in Payments : WithCustomer(p, [form EXCEPT !.chosen = TRUE]) \in Forms
         /\ \A c \in Currencies \cup {None} : [form EXCEPT !.method = c] \in Forms
         /\ \A f \in Forms : SetForm(f) => form' \in Forms
BY DEF Forms, EmptyForm, WithCustomer, SetForm

LEMMA ResultPages ==
  ASSUME NEW p
  PROVE  ResultPage(p) \in {"pay", "success", "underpaid", "error"}
BY DEF ResultPage

(* What every step of the page keeps: the types of what it may change.      *)
PageTyped ==
  /\ route \in {"pay", "success", "underpaid", "error", "notFound"}
  /\ shown \in Payments \cup {None} /\ passed \in Payments \cup {None}
  /\ form \in Forms /\ timers \in Nat /\ request \in [Slots -> Requests]

TInv ==
  /\ PageTyped /\ payment \in Payments /\ losses \in 0..MaxLosses
  /\ agreed \in Currencies \cup {None} /\ rushed \in BOOLEAN
  /\ PendingIsNew

LEMMA TInvTypes == TInv => TypeOK
BY SlotsTyped DEF TInv, TypeOK, PageTyped, Forms

LEMMA SetPaymentTyped ==
  ASSUME PageTyped, NEW p \in Payments, NEW i \in Slots, setPayment(p, i)
  PROVE  PageTyped'
<1>1. shown' \in Payments \cup {None}
  BY DEF setPayment
<1>2. CASE NothingMore(i)
  BY <1>1, <1>2, FreeIsRequest, OneSlotMoves DEF NothingMore, PageTyped, Ends
<1>3. CASE ShowsResult(p, i)
  BY <1>1, <1>3, FreeIsRequest, OneSlotMoves, FormsTyped, ResultPages
  DEF ShowsResult, PageTyped, Ends
<1>4. CASE PollsAgain(i)
  BY <1>1, <1>4, FreeIsRequest, OneSlotMoves DEF PollsAgain, PageTyped, Ends
<1>5. CASE AsksRate(p, i)
  <2>1. p.method \in Currencies
    BY <1>5 DEF AsksRate, Payments
  <2>2. Asking("convert", p.method, p, "known") \in Requests
    BY <2>1, AskingIsRequest
  <2> QED BY <1>1, <1>5, <2>1, <2>2, OneSlotMoves, FormsTyped DEF AsksRate, PageTyped, GoesOn
<1>6. CASE AsksMethods(p, i)
  <2>1. AskMethods(p) \in Requests
    BY AskingIsRequest
  <2> QED BY <1>1, <1>6, <2>1, OneSlotMoves, FormsTyped DEF AsksMethods, PageTyped, GoesOn
<1> QED BY <1>2, <1>3, <1>4, <1>5, <1>6, EffectOfPayment DEF setPayment

-----------------------------------------------------------------------------
(* Types                                                                    *)

LEMMA TInvInit == Init => TInv
<1> SUFFICES ASSUME Init PROVE TInv
  OBVIOUS
<1>1. request \in [Slots -> Requests]
  BY AskingIsRequest, FreeIsRequest DEF Init
<1>2. payment \in Payments /\ PendingIsNew /\ 0 \in 0..MaxLosses
  BY PageAssumption DEF Init, Payments, PendingIsNew
<1>3. EmptyForm \in Forms
  BY DEF EmptyForm, Forms
<1> QED BY <1>1, <1>2, <1>3, Zenon DEF Init, PageTyped, TInv

LEMMA PaymentMoves ==
  ASSUME payment \in Payments, PendingIsNew, StatusChanges
  PROVE  /\ payment' \in Payments /\ PendingIsNew'
         /\ payment'.age = payment.age + 1 /\ payment'.method = payment.method
         /\ isLocked(payment')
<1>1. PICK s \in Statuses : <<payment.status, s>> \in Moves /\ payment' = BecomesWith(payment, s)
  BY DEF StatusChanges
<1>2. s # "pending"
  BY <1>1 DEF Moves
<1>3. payment.age < MaxAge
  BY DEF StatusChanges
<1>4. payment.age + 1 \in 0..MaxAge
  BY <1>3, PageAssumption DEF Payments
<1>5. payment' = [payment EXCEPT !.status = s, !.age = payment.age + 1]
  BY <1>1 DEF BecomesWith
<1>6. payment' \in Payments
  BY <1>4, <1>5 DEF Payments
<1>7. payment'.status = s /\ payment'.age = payment.age + 1 /\ payment'.method = payment.method
  BY <1>5 DEF Payments
<1> QED BY <1>2, <1>6, <1>7 DEF PendingIsNew, isLocked

(* What a request does to the payment.                                      *)
LEMMA AfterTyped ==
  ASSUME payment \in Payments, PendingIsNew, NEW r \in Sent, payment' = After(r)
  PROVE  /\ payment' \in Payments /\ PendingIsNew'
         /\ \/ payment' = payment
            \/ ~isLocked(payment) /\ payment'.age = payment.age /\ payment'.status = payment.status
            \/ payment'.age = payment.age + 1 /\ isLocked(payment')
         /\ r.kind # "method" => payment'.method = payment.method
         /\ r.kind = "method" /\ Accepts(r) => payment'.method = r.cur
         /\ isLocked(payment) => payment' = payment
<1>0. payment \in [status : Statuses, method : Currencies \cup {None},
                   customer : BOOLEAN, age : 0..MaxAge]
  BY DEF Payments
<1>1. CASE isLocked(payment)
  <2>1. payment' = payment
    BY <1>1 DEF After
  <2>2. r.kind = "method" => ~Accepts(r)
    BY <1>1 DEF Accepts
  <2> QED BY <1>1, <2>1, <2>2 DEF PendingIsNew
<1>2. CASE ~isLocked(payment) /\ r.kind = "method"
  <2>1. r.cur \in Currencies
    BY <1>2 DEF Sent, SentAs
  <2>2. payment' = [payment EXCEPT !.method = r.cur]
    BY <1>2 DEF After, Accepts
  <2> QED BY <1>0, <1>2, <2>1, <2>2 DEF Payments, PendingIsNew, isLocked
<1>3. CASE ~isLocked(payment) /\ r.kind = "customer"
  <2>1. payment' = [payment EXCEPT !.customer = TRUE]
    BY <1>3 DEF After, Accepts
  <2> QED BY <1>0, <1>3, <2>1 DEF Payments, PendingIsNew, isLocked
<1>4. CASE ~isLocked(payment) /\ r.kind = "lock" /\ Accepts(r)
  <2>1. payment' = BecomesWith(payment, "locked")
    BY <1>4 DEF After
  <2>2. payment.age = 0 /\ payment.age + 1 \in 0..MaxAge
    BY <1>0, <1>4, PageAssumption DEF PendingIsNew, isLocked
  <2> QED BY <1>0, <1>4, <2>1, <2>2 DEF BecomesWith, Payments, PendingIsNew, isLocked, Statuses
<1>5. CASE ~isLocked(payment) /\ r.kind # "method" /\ r.kind # "customer"
           /\ ~(r.kind = "lock" /\ Accepts(r))
  <2>1. payment' = payment
    BY <1>5 DEF After
  <2> QED BY <1>5, <2>1 DEF PendingIsNew
<1> QED BY <1>1, <1>2, <1>3, <1>4, <1>5

LEMMA ServeIsSent ==
  ASSUME request \in [Slots -> Requests], NEW i \in Slots, AtServer(i)
  PROVE  request[i] \in Sent
BY RequestKinds DEF AtServer

LEMMA ServeTyped ==
  ASSUME TInv, NEW i \in Slots, Serve(i)
  PROVE  TInv'
<1> USE DEF TInv, PageTyped
<1>1. request[i] \in Sent
  BY ServeIsSent DEF Serve
<1>2. payment' \in Payments /\ PendingIsNew'
  BY <1>1, AfterTyped DEF Serve
<1>3. request' \in [Slots -> Requests]
  BY <1>1, ServedIsRequest, OneSlotMoves DEF Serve
<1> QED BY <1>2, <1>3 DEF Serve, display, customer

LEMMA LoseTyped ==
  ASSUME TInv, NEW i \in Slots, Lose(i)
  PROVE  TInv'
<1> USE DEF TInv, PageTyped
<1>1. request' \in [Slots -> Requests]
  BY LostIsRequest, OneSlotMoves DEF Lose
<1>2. losses' \in 0..MaxLosses
  BY PageAssumption DEF Lose
<1> QED BY <1>1, <1>2 DEF Lose, display, customer, PendingIsNew

LEMMA AnsweredTyped ==
  ASSUME TInv, NEW i \in Slots, Answered(i)
  PROVE  TInv'
<1> DEFINE r == request[i]
<1> USE DEF TInv, PageTyped, display, customer, Handled, PendingIsNew
<1>1. request \in [Slots -> Requests] /\ r \in Requests
  OBVIOUS
<1>2. CASE PaymentLoads(i) \/ updatePayment(i)
  <2>1. r \in PaymentAnswers
    BY <1>2, RequestKinds DEF PaymentLoads, updatePayment, Arrived
  <2>2. CASE r.ok
    <3>1. setPayment(r.of, i) /\ r.of \in Payments
      BY <1>2, <2>1, <2>2, PaymentAnswer DEF PaymentLoads, updatePayment
    <3>2. PageTyped'
      BY <3>1, SetPaymentTyped
    <3> QED BY <1>2, <3>2 DEF PaymentLoads, updatePayment
  <2>3. CASE ~r.ok
    BY <1>2, <2>3, FreeIsRequest, OneSlotMoves DEF PaymentLoads, updatePayment, Ends
  <2> QED BY <2>2, <2>3
<1>3. CASE LockAnswered(i)
  BY <1>3, AskingIsRequest, FreeIsRequest, OneSlotMoves DEF LockAnswered, GoesOn, Ends
<1>4. CASE ConvertAnswered(i)
  <2>1. r \in ConvertAnswers
    BY <1>4, RequestKinds DEF ConvertAnswered, Arrived
  <2>2. request' \in [Slots -> Requests]
    BY <1>4, <2>1, ConvertAnswer, AskingIsRequest, OneSlotMoves DEF ConvertAnswered, GoesOn
  <2>3. form' \in Forms
    BY <1>4, <2>1, ConvertAnswer, FormsTyped DEF ConvertAnswered
  <2> QED BY <1>4, <2>2, <2>3 DEF ConvertAnswered
<1>5. CASE MethodsAnswered(i)
  <2>1. r \in OtherAnswers /\ r.of \in Payments
    BY <1>5, RequestKinds, OtherAnswer DEF MethodsAnswered, Arrived
  <2>2. shown' \in Payments \cup {None}
    BY <1>5, <2>1 DEF MethodsAnswered
  <2>3. CASE r.ok /\ r.of # shown /\ route = "pay" /\ DropDownSelects(r.of)
    <3>1. r.of.method \in Currencies
      BY <2>1, <2>3 DEF DropDownSelects, Payments
    <3>2. request' = [request EXCEPT ![i] = Asking("convert", r.of.method, None, "select")]
          /\ form' = [form EXCEPT !.methods = TRUE, !.method = r.of.method]
      BY <1>5, <2>3 DEF MethodsAnswered, GoesOn
    <3>3. request' \in [Slots -> Requests]
      BY <3>1, <3>2, AskingIsRequest, OneSlotMoves
    <3>4. form' \in Forms
      BY <3>1, <3>2 DEF Forms
    <3> QED BY <1>5, <2>2, <3>3, <3>4 DEF MethodsAnswered
  <2>4. CASE ~(r.ok /\ r.of # shown /\ route = "pay" /\ DropDownSelects(r.of))
    <3>1. Ends(i) /\ (SetForm([form EXCEPT !.methods = TRUE])
                      \/ SetForm([form EXCEPT !.chosen = FALSE, !.filled = FALSE]))
      BY <1>5, <2>4 DEF MethodsAnswered
    <3>2. request' \in [Slots -> Requests]
      BY <3>1, FreeIsRequest, OneSlotMoves DEF Ends
    <3>3. [form EXCEPT !.methods = TRUE] \in Forms
          /\ [form EXCEPT !.chosen = FALSE, !.filled = FALSE] \in Forms
      BY DEF Forms
    <3>4. form' \in Forms
      BY <3>1, <3>3, FormsTyped
    <3> QED BY <1>5, <2>2, <3>2, <3>4 DEF MethodsAnswered
  <2> QED BY <2>3, <2>4
<1>6. CASE MethodAnswered(i) \/ CustomerAnswered(i)
  <2>1. r.ok \in BOOLEAN
    BY <1>6, RequestKinds, OtherAnswer DEF MethodAnswered, CustomerAnswered, Arrived
  <2>2. [form EXCEPT !.chosen = r.ok] \in Forms /\ [form EXCEPT !.filled = r.ok] \in Forms
    BY <2>1 DEF Forms
  <2>3. form' \in Forms
    BY <1>6, <2>2, FormsTyped DEF MethodAnswered, CustomerAnswered
  <2>4. request' \in [Slots -> Requests]
    BY <1>6, FreeIsRequest, OneSlotMoves DEF MethodAnswered, CustomerAnswered, Ends
  <2> QED BY <1>6, <2>3, <2>4 DEF MethodAnswered, CustomerAnswered
<1> QED BY <1>2, <1>3, <1>4, <1>5, <1>6 DEF Answered

LEMMA SendTyped ==
  ASSUME request \in [Slots -> Requests], NEW q \in Requests, Send(q)
  PROVE  \E i \in Slots : /\ request[i] = Free /\ request'[i] = q
                          /\ request' \in [Slots -> Requests]
                          /\ \A j \in Slots \ {i} : request'[j] = request[j]
<1>1. PICK i \in FreeSlots : request' = [request EXCEPT ![i] = q]
  BY DEF Send
<1>2. i \in Slots /\ request[i] = Free
  BY DEF FreeSlots
<1> QED BY <1>1, <1>2, OneSlotMoves

LEMMA CustomerTyped ==
  ASSUME TInv,
         \/ TimerFires \/ submitCustomer \/ checkCustomerFails \/ onSubmit
         \/ \E c \in Currencies : onSelectPaymentMethod(c)
  PROVE  TInv'
<1> USE AskingIsRequest, SendTyped DEF TInv, PageTyped, display, customer, PendingIsNew
<1>1. CASE TimerFires
  <2>1. request' \in [Slots -> Requests] /\ timers' \in Nat
    BY <1>1 DEF TimerFires
  <2> QED BY <1>1, <2>1 DEF TimerFires
<1>2. CASE submitCustomer
  <2>1. request' \in [Slots -> Requests]
    BY <1>2 DEF submitCustomer
  <2> QED BY <1>2, <2>1 DEF submitCustomer
<1>3. CASE checkCustomerFails
  <2>1. form' \in Forms
    BY <1>3 DEF checkCustomerFails, Forms
  <2> QED BY <1>3, <2>1 DEF checkCustomerFails
<1>4. CASE onSubmit
  <2>1. request' \in [Slots -> Requests] /\ form.method \in Currencies \cup {None}
    BY <1>4 DEF onSubmit, Forms
  <2>2. rushed' \in BOOLEAN
    BY <1>4 DEF onSubmit, Busy
  <2> QED BY <1>4, <2>1, <2>2 DEF onSubmit
<1>5. ASSUME NEW c \in Currencies, onSelectPaymentMethod(c)
      PROVE  TInv'
  <2>1. request' \in [Slots -> Requests] /\ form' \in Forms
    BY <1>5, FormsTyped DEF onSelectPaymentMethod
  <2>2. rushed' \in BOOLEAN
    BY <1>5 DEF onSelectPaymentMethod, Busy
  <2> QED BY <1>5, <2>1, <2>2 DEF onSelectPaymentMethod
<1> QED BY <1>1, <1>2, <1>3, <1>4, <1>5

LEMMA TInvStep == TInv /\ [Next]_vars => TInv'
<1> SUFFICES ASSUME TInv, [Next]_vars PROVE TInv'
  OBVIOUS
<1>1. CASE StatusChanges
  BY <1>1, PaymentMoves DEF StatusChanges, TInv, PageTyped, display, customer
<1>2. CASE \/ TimerFires \/ submitCustomer \/ checkCustomerFails \/ onSubmit
           \/ \E c \in Currencies : onSelectPaymentMethod(c)
  BY <1>2, CustomerTyped
<1>3. ASSUME NEW i \in Slots, Serve(i) \/ Lose(i) \/ Answered(i)
      PROVE  TInv'
  BY <1>3, ServeTyped, LoseTyped, AnsweredTyped
<1>4. CASE UNCHANGED vars
  BY <1>4 DEF vars, TInv, PageTyped, PendingIsNew
<1> QED BY <1>1, <1>2, <1>3, <1>4 DEF Next

(* The state of the page, of the payment and of the requests keeps its type *)
(* in every run, whatever is lost (TypeOK).                                 *)
THEOREM PageTyping == Spec => []TypeOK
<1>1. Spec => []TInv
  BY TInvInit, TInvStep, PTL DEF Spec
<1> QED BY <1>1, TInvTypes, PTL

-----------------------------------------------------------------------------
(* Every payment the page holds is one the server had: of the age it had    *)
(* then, and unchanged since when it is locked and of the present age.      *)

IsPastOf(p, q) ==
  /\ p.age <= q.age
  /\ p.age = q.age => p.status = q.status /\ (isLocked(p) => p = q)
PastOnly ==
  /\ shown # None => IsPastOf(shown, payment)
  /\ passed # None => IsPastOf(passed, payment)
  /\ \A i \in Slots : request[i] # Free /\ request[i].of # None => IsPastOf(request[i].of, payment)

(* A result page has a payment to show, of the status it stands for.        *)
ResultsMatch ==
  /\ route \in {"success", "underpaid", "error"} => passed # None /\ ResultPage(passed) = route
  /\ passed # None => isLocked(passed)

Onward ==
  \/ payment' = payment
  \/ payment'.age = payment.age + 1
  \/ ~isLocked(payment) /\ payment'.age = payment.age /\ payment'.status = payment.status

LEMMA PaymentGoesOn ==
  ASSUME TInv, [Next]_vars
  PROVE  Onward
<1>1. CASE StatusChanges
  BY <1>1, PaymentMoves DEF TInv, Onward
<1>2. ASSUME NEW i \in Slots, Serve(i)
      PROVE  Onward
  BY <1>2, ServeIsSent, AfterTyped DEF Serve, TInv, PageTyped, Onward
<1>3. CASE ~StatusChanges /\ ~\E i \in Slots : Serve(i)
  <2>1. payment' = payment
    BY <1>3 DEF Next, vars, TimerFires, submitCustomer, checkCustomerFails, onSubmit,
       onSelectPaymentMethod, Lose, Answered, PaymentLoads, updatePayment, LockAnswered,
       ConvertAnswered, MethodsAnswered, MethodAnswered, CustomerAnswered, Handled
  <2> QED BY <2>1 DEF Onward
<1> QED BY <1>1, <1>2, <1>3

LEMMA PastStays ==
  ASSUME Onward, payment \in Payments, payment' \in Payments,
         NEW p \in Payments, IsPastOf(p, payment)
  PROVE  IsPastOf(p, payment')
<1>1. p.age \in Nat /\ payment.age \in Nat /\ payment'.age \in Nat
  BY PageAssumption DEF Payments
<1> QED BY <1>1 DEF Onward, IsPastOf, isLocked

(* Where a payment can come from in a step.                                 *)
Known(p) ==
  \/ p = None \/ p = shown \/ p = passed
  \/ p = payment /\ payment' = payment
  \/ \E i \in Slots : request[i] # Free /\ p = request[i].of
Origins ==
  /\ Known(shown') /\ Known(passed')
  /\ \A i \in Slots : request'[i] # Free => Known(request'[i].of)

LEMMA SlotOrigins ==
  ASSUME request \in [Slots -> Requests], NEW i \in Slots, NEW q,
         q = Free \/ Known(q.of), request' = [request EXCEPT ![i] = q]
  PROVE  \A j \in Slots : request'[j] # Free => Known(request'[j].of)
<1> SUFFICES ASSUME NEW j \in Slots, request'[j] # Free
             PROVE  Known(request'[j].of)
  OBVIOUS
<1>1. CASE j = i
  BY <1>1
<1>2. CASE j # i
  BY <1>2 DEF Known
<1> QED BY <1>1, <1>2

LEMMA SetPaymentOrigins ==
  ASSUME PageTyped, NEW p \in Payments, Known(p), NEW i \in Slots, setPayment(p, i)
  PROVE  Origins
<1> USE SlotOrigins DEF PageTyped
<1>1. Known(shown') /\ Known(passed)
  BY DEF setPayment, Known
<1>2. CASE NothingMore(i) \/ ShowsResult(p, i) \/ PollsAgain(i)
  BY <1>1, <1>2 DEF NothingMore, ShowsResult, PollsAgain, Ends, Origins
<1>3. CASE AsksRate(p, i)
  <2>1. Asking("convert", p.method, p, "known").of = p
    BY AskingFields
  <2> QED BY <1>1, <1>3, <2>1 DEF AsksRate, GoesOn, Origins
<1>4. CASE AsksMethods(p, i)
  <2>1. AskMethods(p).of = p
    BY AskingFields DEF AskMethods
  <2> QED BY <1>1, <1>4, <2>1 DEF AsksMethods, GoesOn, Origins
<1> QED BY <1>2, <1>3, <1>4, EffectOfPayment DEF setPayment

LEMMA StepOrigins ==
  ASSUME TInv, [Next]_vars
  PROVE  Origins
<1> USE DEF TInv, PageTyped, display, customer
<1>0. Known(shown) /\ Known(passed) /\ Known(None)
      /\ \A i \in Slots : request[i] # Free => Known(request[i].of)
  BY DEF Known
<1>1. ASSUME UNCHANGED <<shown, passed>>, NEW i \in Slots, NEW q, q = Free \/ Known(q.of),
             request' = [request EXCEPT ![i] = q]
      PROVE  Origins
  BY <1>0, <1>1, SlotOrigins DEF Origins
<1>2. ASSUME UNCHANGED <<shown, passed>>, NEW k, NEW c, NEW t, Send(Asking(k, c, None, t))
      PROVE  Origins
  <2>1. Asking(k, c, None, t).of = None
    BY AskingFields
  <2> QED BY <1>0, <1>1, <1>2, <2>1 DEF Send, FreeSlots
<1>3. ASSUME NEW i \in Slots, Serve(i)
      PROVE  Origins
  <2> DEFINE q == Answer(request[i].kind, Accepts(request[i]), request[i].cur,
                         IF request[i].kind = "payment" THEN payment ELSE request[i].of,
                         request[i].then)
  <2>1. request' = [request EXCEPT ![i] = q] /\ UNCHANGED <<shown, passed>>
    BY <1>3 DEF Serve
  <2>2. request[i] \in Sent
    BY <1>3, ServeIsSent DEF Serve
  <2>3. Known(q.of)
    <3>1. CASE request[i].kind = "payment"
      <4>1. payment' = payment
        BY <1>3, <3>1 DEF Serve, After
      <4>2. q.of = payment
        BY <3>1, AnswerFields
      <4> QED BY <4>1, <4>2 DEF Known
    <3>2. CASE request[i].kind # "payment"
      <4>1. q.of = request[i].of
        BY <3>2, AnswerFields
      <4> QED BY <1>0, <1>3, <4>1 DEF Serve, AtServer
    <3> QED BY <3>1, <3>2
  <2> QED BY <1>1, <2>1, <2>3
<1>4. ASSUME NEW i \in Slots, Lose(i)
      PROVE  Origins
  <2> DEFINE q == Answer(request[i].kind, FALSE, request[i].cur, request[i].of, request[i].then)
  <2>1. request' = [request EXCEPT ![i] = q] /\ UNCHANGED <<shown, passed>> /\ request[i] # Free
    BY <1>4 DEF Lose
  <2>2. q.of = request[i].of
    BY DEF Answer
  <2>3. Known(q.of)
    BY <1>0, <2>1, <2>2
  <2> QED BY <1>1, <2>1, <2>3
<1>5. ASSUME NEW i \in Slots, PaymentLoads(i) \/ updatePayment(i)
      PROVE  Origins
  <2>1. request[i] \in PaymentAnswers /\ Known(request[i].of)
    BY <1>0, <1>5, RequestKinds DEF PaymentLoads, updatePayment, Arrived
  <2>2. CASE request[i].ok
    BY <1>5, <2>1, <2>2, PaymentAnswer, SetPaymentOrigins DEF PaymentLoads, updatePayment
  <2>3. CASE ~request[i].ok
    BY <1>1, <1>5, <2>3 DEF PaymentLoads, updatePayment, Ends
  <2> QED BY <2>2, <2>3
<1>6. ASSUME NEW i \in Slots, ConvertAnswered(i)
      PROVE  Origins
  <2>1. Known(request[i].of)
    BY <1>0, <1>6 DEF ConvertAnswered, Arrived
  <2>2. Asking("method", request[i].cur, None, "select").of = None
        /\ AskMethods(request[i].of).of = request[i].of
    BY AskingFields DEF AskMethods
  <2>3. \E q : Known(q.of) /\ request' = [request EXCEPT ![i] = q]
    BY <1>0, <1>6, <2>1, <2>2 DEF ConvertAnswered, GoesOn
  <2> QED BY <1>1, <1>6, <2>3 DEF ConvertAnswered
<1>7. ASSUME NEW i \in Slots, MethodsAnswered(i)
      PROVE  Origins
  <2>1. Known(request[i].of)
    BY <1>0, <1>7 DEF MethodsAnswered, Arrived
  <2>2. \E q : (q = Free \/ Known(q.of)) /\ request' = [request EXCEPT ![i] = q]
    <3>1. Asking("convert", request[i].of.method, None, "select").of = None
      BY AskingFields
    <3> QED BY <1>0, <1>7, <3>1 DEF MethodsAnswered, GoesOn, Ends
  <2>3. Known(shown') /\ UNCHANGED passed
    BY <1>0, <1>7, <2>1 DEF MethodsAnswered
  <2> QED BY <1>0, <2>2, <2>3, SlotOrigins DEF Origins
<1>8. ASSUME NEW i \in Slots, LockAnswered(i) \/ MethodAnswered(i) \/ CustomerAnswered(i)
      PROVE  Origins
  <2>1. GetPayment.of = None
    BY AskingFields DEF GetPayment
  <2> QED BY <1>0, <1>1, <1>8, <2>1
      DEF LockAnswered, MethodAnswered, CustomerAnswered, GoesOn, Ends
<1>9. CASE TimerFires \/ submitCustomer \/ onSubmit \/ \E c \in Currencies : onSelectPaymentMethod(c)
  BY <1>2, <1>9 DEF TimerFires, GetPayment, submitCustomer, onSubmit, onSelectPaymentMethod
<1>10. CASE StatusChanges \/ checkCustomerFails \/ UNCHANGED vars
  BY <1>0, <1>10 DEF StatusChanges, checkCustomerFails, vars, Origins
<1> QED BY <1>3, <1>4, <1>5, <1>6, <1>7, <1>8, <1>9, <1>10 DEF Next, Answered

LEMMA RequestOf ==
  ASSUME NEW r \in Requests, r # Free
  PROVE  r.of \in Payments \cup {None}
<1>1. CASE r \in Sent
  BY <1>1 DEF Sent, SentAs
<1>2. CASE r \in PaymentAnswers
  BY <1>2, PaymentAnswer
<1>3. CASE r \in ConvertAnswers
  BY <1>3, ConvertAnswer
<1>4. CASE r \in OtherAnswers
  BY <1>4, OtherAnswer
<1> QED BY <1>1, <1>2, <1>3, <1>4 DEF Requests

LEMMA PastOnlyStep ==
  ASSUME TInv, TInv', PastOnly, [Next]_vars
  PROVE  PastOnly'
<1>1. payment \in Payments /\ payment' \in Payments /\ shown' \in Payments \cup {None}
      /\ passed' \in Payments \cup {None} /\ request' \in [Slots -> Requests]
  BY DEF TInv, PageTyped
<1>2. ASSUME NEW p \in Payments, p # None, Known(p)
      PROVE  IsPastOf(p, payment')
  <2>1. CASE p = payment /\ payment' = payment
    BY <1>1, <2>1, PageAssumption DEF IsPastOf, Payments
  <2>2. CASE p = shown \/ p = passed \/ \E i \in Slots : request[i] # Free /\ p = request[i].of
    <3>1. IsPastOf(p, payment)
      BY <1>2, <2>2 DEF PastOnly
    <3> QED BY <1>1, <3>1, PaymentGoesOn, PastStays
  <2> QED BY <1>2, <2>1, <2>2 DEF Known
<1>3. \A i \in Slots : request'[i] # Free => request'[i].of \in Payments \cup {None}
  BY <1>1, RequestOf
<1>4. Origins
  BY StepOrigins
<1> QED BY <1>1, <1>2, <1>3, <1>4 DEF Origins, PastOnly

LEMMA EffectMatches ==
  ASSUME PageTyped, ResultsMatch, NEW p \in Payments, p # None, NEW i \in Slots, PaymentEffect(p, i)
  PROVE  ResultsMatch'
<1>1. CASE ShowsResult(p, i)
  BY <1>1 DEF ShowsResult, ResultsMatch
<1>2. CASE ~ShowsResult(p, i)
  <2>1. UNCHANGED <<route, passed>>
    BY <1>2, EffectOfPayment DEF NothingMore, PollsAgain, AsksRate, AsksMethods
  <2> QED BY <2>1 DEF ResultsMatch
<1> QED BY <1>1, <1>2

LEMMA ResultsMatchStep ==
  ASSUME TInv, ResultsMatch, [Next]_vars
  PROVE  ResultsMatch'
<1> USE NoneAssumption DEF TInv, PageTyped, display
<1>1. ASSUME NEW i \in Slots, PaymentLoads(i) \/ updatePayment(i)
      PROVE  ResultsMatch'
  <2>1. request[i] \in PaymentAnswers
    BY <1>1, RequestKinds DEF PaymentLoads, updatePayment, Arrived
  <2>2. CASE request[i].ok
    <3>1. request[i].of \in Payments /\ PaymentEffect(request[i].of, i)
      BY <1>1, <2>1, <2>2, PaymentAnswer DEF PaymentLoads, updatePayment, setPayment
    <3> QED BY <3>1, EffectMatches
  <2>3. CASE ~request[i].ok
    BY <1>1, <2>3 DEF PaymentLoads, updatePayment, ResultsMatch
  <2> QED BY <2>2, <2>3
<1>2. CASE ~\E i \in Slots : PaymentLoads(i) \/ updatePayment(i)
  <2>1. UNCHANGED <<route, passed>>
    BY <1>2 DEF Next, vars, StatusChanges, TimerFires, submitCustomer, checkCustomerFails,
       onSubmit, onSelectPaymentMethod, Serve, Lose, Answered, LockAnswered,
       ConvertAnswered, MethodsAnswered, MethodAnswered, CustomerAnswered
  <2> QED BY <2>1 DEF ResultsMatch
<1> QED BY <1>1, <1>2

HInv == TInv /\ PastOnly /\ ResultsMatch

LEMMA HInvInit == Init => HInv
<1> SUFFICES ASSUME Init PROVE HInv
  OBVIOUS
<1>1. \A i \in Slots : request[i] # Free => request[i].of = None
  BY AskingFields DEF Init
<1> QED BY <1>1, TInvInit DEF Init, HInv, PastOnly, ResultsMatch

LEMMA HInvStep == HInv /\ [Next]_vars => HInv'
BY TInvStep, PastOnlyStep, ResultsMatchStep DEF HInv

LEMMA HInvMeans == HInv => ResultsAreTrue
<1> SUFFICES ASSUME HInv PROVE ResultsAreTrue
  OBVIOUS
<1>1. ASSUME passed # None, passed.age >= payment.age
      PROVE  passed = payment
  <2>1. passed \in Payments /\ payment \in Payments
    BY <1>1 DEF HInv, TInv, PageTyped
  <2>2. passed.age \in Nat /\ payment.age \in Nat
    BY <2>1, PageAssumption DEF Payments
  <2> QED BY <1>1, <2>2 DEF HInv, PastOnly, IsPastOf, ResultsMatch
<1>2. ASSUME route \in {"success", "underpaid", "error"}
      PROVE  /\ passed # None
             /\ route = "success" => passed.status = "success"
             /\ route = "underpaid" => passed.status = "underpaid"
             /\ route = "error" => passed.status = "failed"
  <2>1. passed # None /\ ResultPage(passed) = route
    BY <1>2 DEF HInv, ResultsMatch
  <2> QED BY <1>2, <2>1 DEF ResultPage
<1> QED BY <1>1, <1>2 DEF ResultsAreTrue, OnResult, OnSuccess, OnUnderpaid, OnError

(* A result page shows a payment the server had, of the status the page     *)
(* stands for; one as new as the payment is the payment (ResultsAreTrue).   *)
THEOREM ResultsTrue == Spec => []ResultsAreTrue
<1>1. Spec => []HInv
  BY HInvInit, HInvStep, PTL DEF Spec
<1> QED BY <1>1, HInvMeans, PTL

-----------------------------------------------------------------------------
(* While the customer waits for each answer, the page does one thing after  *)
(* another: apart from the e-mail address there is one request or one       *)
(* timer, and it agrees with what is on display.                            *)

InLine(r) == r # Free /\ r.kind # "customer"
Chooses(r) == r.kind = "method" \/ (r.kind = "convert" /\ r.then = "select")

OneLine ==
  /\ \A i, j \in Slots : InLine(request[i]) /\ InLine(request[j]) => i = j
  /\ timers > 0 => timers = 1 /\ \A i \in Slots : ~InLine(request[i])

Seen == IF shown = None THEN 0 ELSE shown.age

(* A choice under way is the one in the form, and nothing is agreed; a      *)
(* payment on its way is no older than the one on display, and its method   *)
(* the present one; what follows it is about the payment on display.        *)
Agrees(r) ==
  /\ Chooses(r) => /\ route = "pay" /\ agreed = None /\ form.method = r.cur
                   /\ r.kind = "method" /\ r.at = "page" /\ r.ok => payment.method = r.cur
  /\ r.kind = "payment" /\ r.at = "page" /\ r.ok => r.of.age >= Seen /\ r.of.method = payment.method
  /\ r.kind = "convert" /\ r.then = "known" =>
       r.of = shown /\ r.cur = form.method /\ r.cur = payment.method
  /\ r.kind = "supported" => r.of = shown

NoChoice == \A i \in Slots : InLine(request[i]) => ~Chooses(request[i])
Waits ==
  /\ OneLine
  /\ \A i \in Slots : InLine(request[i]) => Agrees(request[i])
  /\ form.chosen /\ NoChoice => form.method = payment.method
  /\ agreed # None => payment.method = agreed

(* The line ends, or goes on with the next request.                         *)
LEMMA LineEnds ==
  ASSUME PageTyped, OneLine, NEW i \in Slots, InLine(request[i]),
         request' = [request EXCEPT ![i] = Free], timers' \in {timers, timers + 1}
  PROVE  OneLine' /\ \A j \in Slots : ~InLine(request'[j])
<1>1. timers = 0
  BY DEF PageTyped, OneLine
<1>2. \A j \in Slots : ~InLine(request'[j])
  BY DEF PageTyped, OneLine, InLine
<1> QED BY <1>1, <1>2 DEF OneLine

LEMMA LineGoesOn ==
  ASSUME PageTyped, OneLine, NEW i \in Slots, InLine(request[i]), NEW q,
         request' = [request EXCEPT ![i] = q], timers' = timers
  PROVE  /\ OneLine' /\ request'[i] = q
         /\ \A j \in Slots : InLine(request'[j]) => j = i
<1>1. timers = 0
  BY DEF PageTyped, OneLine
<1>2. request'[i] = q /\ \A j \in Slots : InLine(request'[j]) => j = i
  BY DEF PageTyped, OneLine, InLine
<1> QED BY <1>1, <1>2 DEF OneLine

(* What happens beside the line.                                            *)
LEMMA AsideOfLine ==
  ASSUME PageTyped, Waits, NEW i \in Slots, ~InLine(request[i]), NEW q, ~InLine(q),
         request' = [request EXCEPT ![i] = q],
         UNCHANGED <<route, shown, timers, agreed>>, payment'.method = payment.method,
         form'.method = form.method, form'.chosen = form.chosen
  PROVE  Waits'
<1>1. \A j \in Slots : InLine(request'[j]) => request'[j] = request[j] /\ InLine(request[j])
  BY DEF PageTyped
<1>2. \A j \in Slots : InLine(request[j]) => request'[j] = request[j]
  BY DEF PageTyped
<1>3. OneLine'
  BY <1>1 DEF OneLine, Waits
<1>4. \A j \in Slots : InLine(request'[j]) => Agrees(request[j])'
  BY <1>1 DEF Waits, Agrees, Seen
<1>5. NoChoice' => NoChoice
  BY <1>2 DEF NoChoice
<1> QED BY <1>3, <1>4, <1>5 DEF Waits

(* A request of the customer when nothing is outstanding starts a line.     *)
LEMMA LineStarts ==
  ASSUME PageTyped, \A j \in Slots : ~InLine(request[j]), NEW q \in Requests, Send(q),
         timers' = 0
  PROVE  /\ OneLine'
         /\ \A j \in Slots : InLine(request'[j]) => request'[j] = q
         /\ InLine(q) => \E j \in Slots : InLine(request'[j]) /\ request'[j] = q
<1>1. PICK i \in Slots : /\ request'[i] = q
                         /\ \A j \in Slots \ {i} : request'[j] = request[j]
  BY SendTyped DEF PageTyped
<1>2. \A j \in Slots : InLine(request'[j]) => j = i
  BY <1>1
<1> QED BY <1>1, <1>2 DEF OneLine

LEMMA EndsWaiting ==
  ASSUME PageTyped, Waits, NEW i \in Slots, InLine(request[i]),
         request' = [request EXCEPT ![i] = Free], timers' \in {timers, timers + 1},
         form'.chosen => form'.method = payment'.method,
         agreed' # None => payment'.method = agreed'
  PROVE  Waits'
<1>1. OneLine' /\ \A j \in Slots : ~InLine(request'[j])
  BY LineEnds DEF Waits
<1> QED BY <1>1 DEF Waits

LEMMA GoesOnWaiting ==
  ASSUME PageTyped, Waits, NEW i \in Slots, InLine(request[i]), NEW q,
         request' = [request EXCEPT ![i] = q], timers' = timers,
         Agrees(request[i])',
         (Chooses(q) /\ InLine(q)) \/ (form'.chosen => form'.method = payment'.method),
         agreed' # None => payment'.method = agreed'
  PROVE  Waits'
<1>1. /\ OneLine' /\ request'[i] = q
      /\ \A j \in Slots : InLine(request'[j]) => j = i
  BY LineGoesOn DEF Waits
<1>2. \A j \in Slots : InLine(request'[j]) => Agrees(request[j])'
  BY <1>1
<1>3. form'.chosen /\ NoChoice' => form'.method = payment'.method
  BY <1>1 DEF NoChoice
<1> QED BY <1>1, <1>2, <1>3 DEF Waits

(* Without a choice under way, the method chosen is the payment's.          *)
LEMMA ChosenIsPayments ==
  ASSUME Waits, NEW i \in Slots, InLine(request[i]), ~Chooses(request[i])
  PROVE  NoChoice /\ (form.chosen => form.method = payment.method)
BY DEF Waits, OneLine, NoChoice

LEMMA SetPaymentWaits ==
  ASSUME PageTyped, Waits, NEW i \in Slots, request[i].kind = "payment", request[i] # Free,
         NEW p \in Payments, p.method = payment.method, setPayment(p, i),
         UNCHANGED <<payment, agreed>>
  PROVE  Waits'
<1> USE DEF PageTyped
<1>1. InLine(request[i]) /\ ~Chooses(request[i])
  BY DEF InLine, Chooses
<1>2. (form.chosen => form.method = payment.method) /\ (agreed # None => payment.method = agreed)
  BY <1>1, ChosenIsPayments DEF Waits
<1>3. CASE NothingMore(i) \/ ShowsResult(p, i) \/ PollsAgain(i)
  <2>1. /\ request' = [request EXCEPT ![i] = Free] /\ timers' \in {timers, timers + 1}
        /\ form' = form \/ ~form'.chosen
    BY <1>3 DEF NothingMore, ShowsResult, PollsAgain, Ends, EmptyForm
  <2> QED BY <1>1, <1>2, <2>1, EndsWaiting
<1>4. CASE AsksRate(p, i)
  <2> DEFINE q == Asking("convert", p.method, p, "known")
  <2>1. q.kind = "convert" /\ q.then = "known" /\ q.of = p /\ q.cur = p.method
    BY AskingFields
  <2>2. /\ request' = [request EXCEPT ![i] = q] /\ request'[i] = q /\ timers' = timers
        /\ form'.method = p.method /\ shown' = p
    BY <1>4 DEF AsksRate, GoesOn, Forms, setPayment
  <2> HIDE DEF q
  <2>3. Agrees(request[i])'
    BY <2>1, <2>2 DEF Agrees, Chooses
  <2> QED BY <1>1, <1>2, <2>1, <2>2, <2>3, GoesOnWaiting
<1>5. CASE AsksMethods(p, i)
  <2> DEFINE q == AskMethods(p)
  <2>1. q.kind = "supported" /\ q.of = p
    BY AskingFields DEF AskMethods
  <2>2. /\ request' = [request EXCEPT ![i] = q] /\ request'[i] = q /\ timers' = timers
        /\ form'.method = form.method /\ form'.chosen = form.chosen /\ shown' = p
    BY <1>5 DEF AsksMethods, GoesOn, Forms, WithCustomer, setPayment
  <2> HIDE DEF q
  <2>3. Agrees(request[i])'
    BY <2>1, <2>2 DEF Agrees, Chooses
  <2> QED BY <1>1, <1>2, <2>1, <2>2, <2>3, GoesOnWaiting
<1> QED BY <1>3, <1>4, <1>5, EffectOfPayment DEF setPayment

LEMMA ServeWaits ==
  ASSUME HInv, HInv', Waits, NEW i \in Slots, Serve(i)
  PROVE  Waits'
<1> DEFINE r == request[i]
           q == Answer(r.kind, Accepts(r), r.cur, IF r.kind = "payment" THEN payment ELSE r.of, r.then)
<1> USE DEF HInv, TInv, PageTyped, display, customer
<1>1. r \in Sent /\ r # Free /\ r.at = "server" /\ payment' = After(r)
  BY ServeIsSent DEF Serve, AtServer
<1>2. request' = [request EXCEPT ![i] = q] /\ request'[i] = q
      /\ UNCHANGED <<route, shown, form, timers, agreed>>
  BY DEF Serve
<1>3. /\ r.kind # "method" => payment'.method = payment.method
      /\ r.kind = "method" /\ Accepts(r) => payment'.method = r.cur
  BY <1>1, AfterTyped
<1>4. /\ q.kind = r.kind /\ q.cur = r.cur /\ q.then = r.then /\ q.ok = Accepts(r)
      /\ q.of = IF r.kind = "payment" THEN payment ELSE r.of
  BY DEF Answer
<1>5. q \in Requests
  BY <1>1, ServedIsRequest
<1>6. q # Free
  BY <1>1, <1>4, RequestKinds DEF Free, Sent, SentAs
<1> HIDE DEF q
<1>7. CASE r.kind = "customer"
  <2>1. ~InLine(r) /\ ~InLine(q)
    BY <1>4, <1>7 DEF InLine
  <2> QED BY <1>2, <1>3, <1>7, <2>1, AsideOfLine
<1>8. CASE r.kind # "customer"
  <2>1. InLine(r) /\ InLine(q) /\ Agrees(r)
    BY <1>1, <1>4, <1>6, <1>8 DEF InLine, Waits
  <2>2. Chooses(q) <=> Chooses(r)
    BY <1>4 DEF Chooses
  <2>3. r.kind = "payment" => payment' = payment /\ Seen <= payment.age
    <3>1. r.kind = "payment" => payment' = payment
      BY <1>1 DEF After
    <3>2. Seen <= payment.age
      BY PageAssumption DEF Seen, PastOnly, IsPastOf, Payments
    <3> QED BY <3>1, <3>2
  <2>4. payment.age \in Nat /\ Seen \in Nat
    BY PageAssumption DEF Seen, Payments
  <2>5. Agrees(request[i])'
    <3>1. r.kind \notin {"convert", "supported"}
      BY <1>1 DEF Sent, SentAs
    <3> QED BY <1>2, <1>3, <1>4, <2>1, <2>2, <2>3, <2>4, <3>1 DEF Agrees, Seen
  <2>6. agreed' # None => payment'.method = agreed'
    BY <1>2, <1>3, <2>1 DEF Waits, Agrees, Chooses
  <2>7. Chooses(q) \/ (form'.chosen => form'.method = payment'.method)
    BY <1>2, <1>3, <2>1, <2>2, ChosenIsPayments DEF Chooses
  <2> QED BY <1>2, <2>1, <2>5, <2>6, <2>7, GoesOnWaiting
<1> QED BY <1>7, <1>8

LEMMA LoseWaits ==
  ASSUME TInv, Waits, NEW i \in Slots, Lose(i)
  PROVE  Waits'
<1> DEFINE r == request[i]
           q == Answer(r.kind, FALSE, r.cur, r.of, r.then)
<1> USE DEF TInv, PageTyped, display, customer
<1>1. r \in Requests /\ r # Free /\ r.kind # "convert" /\ r.kind # "none"
  BY RequestKinds DEF Lose
<1>2. request' = [request EXCEPT ![i] = q] /\ request'[i] = q
      /\ UNCHANGED <<route, shown, form, timers, agreed, payment>>
  BY DEF Lose
<1>3. q.kind = r.kind /\ q.cur = r.cur /\ q.then = r.then /\ q.ok = FALSE /\ q.of = r.of
  BY DEF Answer
<1> HIDE DEF q
<1>4. q # Free
  BY <1>1, <1>3 DEF Free
<1>5. CASE r.kind = "customer"
  <2>1. ~InLine(r) /\ ~InLine(q)
    BY <1>3, <1>5 DEF InLine
  <2> QED BY <1>2, <2>1, AsideOfLine
<1>6. CASE r.kind # "customer"
  <2>1. InLine(r) /\ InLine(q) /\ Agrees(r)
    BY <1>1, <1>3, <1>4, <1>6 DEF InLine, Waits
  <2>2. Chooses(q) <=> Chooses(r)
    BY <1>3 DEF Chooses
  <2>3. Agrees(request[i])'
    BY <1>1, <1>2, <1>3, <2>1, <2>2 DEF Agrees
  <2>4. Chooses(q) \/ (form'.chosen => form'.method = payment'.method)
    BY <1>2, <2>1, <2>2, ChosenIsPayments
  <2> QED BY <1>2, <2>1, <2>3, <2>4, GoesOnWaiting DEF Waits
<1> QED BY <1>5, <1>6

LEMMA ConvertWaits ==
  ASSUME TInv, Waits, NEW i \in Slots, ConvertAnswered(i)
  PROVE  Waits'
<1> DEFINE r == request[i]
<1> USE DEF TInv, PageTyped, display, customer, Handled
<1>1. r \in ConvertAnswers /\ InLine(r) /\ Agrees(r) /\ r.kind = "convert"
  BY RequestKinds DEF ConvertAnswered, Arrived, InLine, Waits
<1>2. UNCHANGED <<payment, route, shown, timers, agreed>>
  BY DEF ConvertAnswered
<1>3. CASE r.then = "select"
  <2> DEFINE q == Asking("method", r.cur, None, "select")
  <2>1. q.kind = "method" /\ q.cur = r.cur /\ q.at = "server" /\ q \in Requests
    BY <1>1, AskingFields, AskingIsRequest, ConvertAnswer
  <2>2. request' = [request EXCEPT ![i] = q] /\ request'[i] = q /\ form' = form
    BY <1>3 DEF ConvertAnswered, GoesOn
  <2>3. InLine(q) /\ Chooses(q)
    BY <2>1, RequestKinds DEF InLine, Chooses, Free
  <2> HIDE DEF q
  <2>4. Agrees(request[i])'
    BY <1>1, <1>2, <1>3, <2>1, <2>2 DEF Agrees, Chooses
  <2> QED BY <1>1, <1>2, <2>2, <2>3, <2>4, GoesOnWaiting DEF Waits
<1>4. CASE r.then # "select"
  <2> DEFINE q == AskMethods(r.of)
  <2>1. q.kind = "supported" /\ q.of = r.of
    BY AskingFields DEF AskMethods
  <2>2. request' = [request EXCEPT ![i] = q] /\ request'[i] = q
    BY <1>4 DEF ConvertAnswered, GoesOn
  <2>3. r.then = "known"
    BY <1>1, <1>4, ConvertAnswer
  <2>4. form'.method = form.method
    BY <1>4 DEF ConvertAnswered, SetForm, WithCustomer, Forms
  <2> HIDE DEF q
  <2>5. Agrees(request[i])'
    BY <1>1, <1>2, <2>1, <2>2, <2>3 DEF Agrees, Chooses
  <2>6. form'.method = payment'.method
    BY <1>1, <1>2, <2>3, <2>4 DEF Agrees
  <2> QED BY <1>1, <1>2, <2>2, <2>5, <2>6, GoesOnWaiting DEF Waits
<1> QED BY <1>3, <1>4

LEMMA AnsweredWaits ==
  ASSUME TInv, Waits, NEW i \in Slots, Answered(i), UNCHANGED rushed
  PROVE  Waits'
<1> DEFINE r == request[i]
<1> USE DEF TInv, PageTyped, display, customer, Handled
<1>1. CASE PaymentLoads(i) \/ updatePayment(i)
  <2>1. r \in PaymentAnswers /\ r # Free /\ r.kind = "payment" /\ r.at = "page"
        /\ UNCHANGED <<payment, agreed>>
    BY <1>1, RequestKinds DEF PaymentLoads, updatePayment, Arrived
  <2>2. InLine(r) /\ ~Chooses(r) /\ Agrees(r)
    BY <2>1 DEF InLine, Chooses, Waits
  <2>3. CASE r.ok
    <3>1. setPayment(r.of, i) /\ r.of \in Payments /\ r.of.method = payment.method
      BY <1>1, <2>1, <2>2, <2>3, PaymentAnswer DEF PaymentLoads, updatePayment, Agrees
    <3> QED BY <2>1, <3>1, SetPaymentWaits
  <2>4. CASE ~r.ok
    <3>1. request' = [request EXCEPT ![i] = Free] /\ timers' \in {timers, timers + 1}
          /\ form' = form
      BY <1>1, <2>4 DEF PaymentLoads, updatePayment, Ends
    <3> QED BY <2>1, <2>2, <3>1, EndsWaiting, ChosenIsPayments DEF Waits
  <2> QED BY <2>3, <2>4
<1>2. CASE LockAnswered(i)
  <2>1. InLine(r) /\ ~Chooses(r) /\ UNCHANGED <<payment, form, agreed, timers>>
    BY <1>2 DEF LockAnswered, Arrived, InLine, Chooses
  <2>2. CASE r.ok
    <3>1. GetPayment.kind = "payment" /\ GetPayment.at = "server"
      BY AskingFields DEF GetPayment
    <3>2. request' = [request EXCEPT ![i] = GetPayment] /\ request'[i] = GetPayment
      BY <1>2, <2>2 DEF LockAnswered, GoesOn
    <3>3. Agrees(request[i])'
      BY <3>1, <3>2 DEF Agrees, Chooses
    <3> QED BY <2>1, <3>2, <3>3, GoesOnWaiting, ChosenIsPayments DEF Waits
  <2>3. CASE ~r.ok
    BY <1>2, <2>1, <2>3, EndsWaiting, ChosenIsPayments DEF LockAnswered, Ends, Waits
  <2> QED BY <2>2, <2>3
<1>3. CASE ConvertAnswered(i)
  BY <1>3, ConvertWaits
<1>4. CASE MethodsAnswered(i)
  <2>1. InLine(r) /\ ~Chooses(r) /\ Agrees(r) /\ r.kind = "supported"
        /\ UNCHANGED <<payment, route, timers, agreed>>
    BY <1>4 DEF MethodsAnswered, Arrived, InLine, Chooses, Waits
  <2>2. r.of = shown
    BY <2>1 DEF Agrees
  <2>3. request' = [request EXCEPT ![i] = Free] /\ form'.method = form.method
        /\ (form'.chosen => form.chosen)
    BY <1>4, <2>2 DEF MethodsAnswered, Ends, SetForm, Forms
  <2> QED BY <2>1, <2>3, EndsWaiting, ChosenIsPayments DEF Waits
<1>5. CASE MethodAnswered(i)
  <2>1. r \in OtherAnswers /\ InLine(r) /\ Agrees(r) /\ r.kind = "method" /\ r.at = "page"
        /\ UNCHANGED <<payment, route, timers, agreed>>
    BY <1>5, RequestKinds DEF MethodAnswered, Arrived, InLine, Waits
  <2>2. /\ route = "pay" /\ form.method = r.cur /\ (r.ok => payment.method = r.cur)
        /\ r.ok \in BOOLEAN
    BY <2>1, OtherAnswer DEF Agrees, Chooses
  <2>3. form'.method = form.method /\ form'.chosen = r.ok
        /\ request' = [request EXCEPT ![i] = Free]
    BY <1>5, <2>2 DEF MethodAnswered, SetForm, Forms, Ends
  <2> QED BY <2>1, <2>2, <2>3, EndsWaiting DEF Waits
<1>6. CASE CustomerAnswered(i)
  <2>1. ~InLine(r) /\ ~InLine(Free) /\ UNCHANGED <<payment, route, shown, timers, agreed>>
        /\ request' = [request EXCEPT ![i] = Free]
    BY <1>6 DEF CustomerAnswered, Arrived, InLine, Ends
  <2>2. form'.method = form.method /\ form'.chosen = form.chosen
    BY <1>6 DEF CustomerAnswered, SetForm, Forms
  <2> QED BY <2>1, <2>2, AsideOfLine
<1> QED BY <1>1, <1>2, <1>3, <1>4, <1>5, <1>6 DEF Answered

LEMMA ActsWaits ==
  ASSUME TInv, Waits, ~rushed',
         \/ TimerFires \/ submitCustomer \/ checkCustomerFails \/ onSubmit
         \/ \E c \in Currencies : onSelectPaymentMethod(c)
  PROVE  Waits'
<1> USE DEF TInv, PageTyped, display, customer
<1>0. ~Busy => timers = 0 /\ (\A j \in Slots : ~InLine(request[j]))
  BY DEF Busy, Quiet, FreeSlots, InLine
<1>1. CASE TimerFires
  <2>1. timers = 1 /\ timers' = 0 /\ (\A j \in Slots : ~InLine(request[j]))
        /\ UNCHANGED <<payment, form, agreed, shown>>
    BY <1>1 DEF TimerFires, Waits, OneLine
  <2>2. GetPayment \in Requests /\ GetPayment.kind = "payment" /\ GetPayment.at = "server"
    BY AskingFields, AskingIsRequest DEF GetPayment
  <2>3. OneLine' /\ \A j \in Slots : InLine(request'[j]) => request'[j] = GetPayment
    BY <1>1, <2>1, <2>2, LineStarts DEF TimerFires
  <2>4. \A j \in Slots : InLine(request'[j]) => Agrees(request[j])'
    BY <2>2, <2>3 DEF Agrees, Chooses
  <2>5. form.chosen => form.method = payment.method
    BY <2>1 DEF Waits, NoChoice
  <2> QED BY <2>1, <2>3, <2>4, <2>5 DEF Waits
<1>2. CASE submitCustomer
  <2> DEFINE q == Asking("customer", None, None, "fill")
  <2>1. ~InLine(q)
    BY AskingFields DEF InLine
  <2>2. PICK i \in Slots : request[i] = Free /\ request' = [request EXCEPT ![i] = q]
    BY <1>2 DEF submitCustomer, Send, FreeSlots
  <2>3. ~InLine(request[i])
    BY <2>2 DEF InLine
  <2> HIDE DEF q
  <2> QED BY <1>2, <2>1, <2>2, <2>3, AsideOfLine DEF submitCustomer
<1>3. CASE checkCustomerFails
  <2>1. form'.method = form.method /\ form'.chosen = form.chosen
        /\ UNCHANGED <<payment, route, shown, timers, request, agreed>>
    BY <1>3 DEF checkCustomerFails, Forms
  <2> QED BY <2>1 DEF Waits, OneLine, Agrees, Seen, NoChoice
<1>4. CASE onSubmit
  <2> DEFINE q == Asking("lock", None, None, "submit")
  <2>1. q \in Requests /\ q.kind = "lock"
    BY AskingFields, AskingIsRequest
  <2>2. ~Busy /\ agreed' = form.method /\ form.chosen /\ form' = form /\ payment' = payment
        /\ timers' = timers /\ Send(q)
    BY <1>4 DEF onSubmit, submitButtonDisabled
  <2> HIDE DEF q
  <2>3. OneLine' /\ \A j \in Slots : InLine(request'[j]) => request'[j] = q
    BY <1>0, <2>1, <2>2, LineStarts
  <2>4. \A j \in Slots : InLine(request'[j]) => Agrees(request[j])'
    BY <2>1, <2>3 DEF Agrees, Chooses
  <2>5. form.method = payment.method
    BY <1>0, <2>2 DEF Waits, NoChoice
  <2> QED BY <2>2, <2>3, <2>4, <2>5 DEF Waits
<1>5. ASSUME NEW c \in Currencies, onSelectPaymentMethod(c)
      PROVE  Waits'
  <2> DEFINE q == Asking("convert", c, None, "select")
  <2>1. q \in Requests /\ q.kind = "convert" /\ q.then = "select" /\ q.cur = c
    BY AskingFields, AskingIsRequest
  <2>2. ~Busy /\ agreed' = None /\ form'.method = c /\ UNCHANGED <<payment, route, shown>>
        /\ timers' = timers /\ route = "pay" /\ Send(q)
    BY <1>5 DEF onSelectPaymentMethod, OnForm, Forms
  <2> HIDE DEF q
  <2>3. InLine(q) /\ Chooses(q)
    BY <2>1 DEF InLine, Chooses, Free
  <2>4. /\ OneLine' /\ \A j \in Slots : InLine(request'[j]) => request'[j] = q
        /\ \E j \in Slots : InLine(request'[j]) /\ request'[j] = q
    BY <1>0, <2>1, <2>2, <2>3, LineStarts
  <2>5. \A j \in Slots : InLine(request'[j]) => Agrees(request[j])'
    BY <2>1, <2>2, <2>4 DEF Agrees, Chooses
  <2>6. ~NoChoice'
    BY <2>3, <2>4 DEF NoChoice
  <2> QED BY <2>2, <2>4, <2>5, <2>6 DEF Waits
<1> QED BY <1>1, <1>2, <1>3, <1>4, <1>5

IInv == HInv /\ (~rushed => Waits)

LEMMA IInvInit == Init => IInv
<1> SUFFICES ASSUME Init PROVE IInv
  OBVIOUS
<1> DEFINE q == Asking("payment", None, None, "load")
<1>1. q.kind = "payment" /\ q.at = "server"
  BY AskingFields
<1>2. 1 \in Slots /\ \A i \in Slots : InLine(request[i]) => i = 1 /\ request[i] = q
  BY PageAssumption DEF Init, Slots, InLine, Free
<1> HIDE DEF q
<1>3. OneLine
  BY <1>2 DEF Init, OneLine
<1>4. \A i \in Slots : InLine(request[i]) => Agrees(request[i])
  BY <1>1, <1>2 DEF Agrees, Chooses
<1> QED BY <1>3, <1>4, HInvInit DEF IInv, Waits, Init, EmptyForm

LEMMA WaitsStep ==
  ASSUME HInv, HInv', Waits, [Next]_vars, ~rushed'
  PROVE  Waits'
<1>1. TInv
  BY DEF HInv
<1>2. CASE StatusChanges
  <2>1. payment'.method = payment.method
    BY <1>1, <1>2, PaymentMoves DEF TInv
  <2> QED BY <1>2, <2>1 DEF StatusChanges, display, customer, Waits, OneLine, Agrees, Seen, NoChoice
<1>3. CASE \/ TimerFires \/ submitCustomer \/ checkCustomerFails \/ onSubmit
           \/ \E c \in Currencies : onSelectPaymentMethod(c)
  BY <1>1, <1>3, ActsWaits
<1>4. ASSUME NEW i \in Slots, Serve(i) \/ Lose(i)
      PROVE  Waits'
  BY <1>1, <1>4, ServeWaits, LoseWaits
<1>5. ASSUME NEW i \in Slots, Answered(i)
      PROVE  Waits'
  <2>1. UNCHANGED rushed
    BY <1>5 DEF Answered, PaymentLoads, updatePayment, LockAnswered, ConvertAnswered,
       MethodsAnswered, MethodAnswered, CustomerAnswered, Handled, customer
  <2> QED BY <1>1, <1>5, <2>1, AnsweredWaits
<1>6. CASE UNCHANGED vars
  BY <1>6 DEF vars, Waits, OneLine, Agrees, Seen, NoChoice
<1> QED BY <1>2, <1>3, <1>4, <1>5, <1>6 DEF Next

LEMMA StaysRushed ==
  ASSUME TInv, [Next]_vars
  PROVE  \/ rushed' = rushed
         \/ rushed' = TRUE /\ UNCHANGED <<payment, shown>>
BY DEF TInv, Next, vars, StatusChanges, TimerFires, submitCustomer, checkCustomerFails,
   onSubmit, onSelectPaymentMethod, Busy, Serve, Lose, Answered, PaymentLoads, updatePayment,
   LockAnswered, ConvertAnswered, MethodsAnswered, MethodAnswered, CustomerAnswered,
   Handled, customer, display

LEMMA IInvStep == IInv /\ [Next]_vars => IInv'
<1> SUFFICES ASSUME IInv, [Next]_vars PROVE IInv'
  OBVIOUS
<1>1. HInv /\ HInv' /\ TInv
  BY HInvStep DEF IInv, HInv
<1>2. ASSUME ~rushed'
      PROVE  Waits'
  <2>1. ~rushed
    BY <1>1, <1>2, StaysRushed
  <2> QED BY <1>1, <1>2, <2>1, WaitsStep DEF IInv
<1> QED BY <1>1, <1>2 DEF IInv

(* A customer who waits for each answer pays in the method on display when  *)
(* Next was pressed (AgreedIsLocked).                                       *)
THEOREM AgreedLocked == Spec => []AgreedIsLocked
<1>1. IInv => AgreedIsLocked
  BY DEF IInv, Waits, AgreedIsLocked
<1> QED BY <1>1, IInvInit, IInvStep, PTL DEF Spec

-----------------------------------------------------------------------------
(* The page implements StatusView.                                          *)

LEMMA ShownStep ==
  ASSUME IInv, [Next]_vars
  PROVE  \/ shown' = shown
         \/ /\ shown' \in Payments /\ UNCHANGED <<payment, rushed>>
            /\ shown'.age <= payment.age
            /\ ~rushed => shown'.age >= Seen
<1> USE NoneAssumption DEF IInv, HInv, TInv, PageTyped, display, customer, Handled
<1>1. HInv'
  BY HInvStep
<1>2. ASSUME NEW i \in Slots, PaymentLoads(i) \/ updatePayment(i)
      PROVE  \/ shown' = shown
             \/ /\ shown' \in Payments /\ UNCHANGED <<payment, rushed>>
                /\ ~rushed => shown'.age >= Seen
  <2> DEFINE r == request[i]
  <2>1. r \in PaymentAnswers /\ r # Free /\ r.kind = "payment" /\ r.at = "page"
    BY <1>2, RequestKinds DEF PaymentLoads, updatePayment, Arrived
  <2>2. CASE r.ok
    <3>1. shown' = r.of /\ r.of \in Payments /\ UNCHANGED <<payment, rushed>>
      BY <1>2, <2>1, <2>2, PaymentAnswer DEF PaymentLoads, updatePayment, setPayment
    <3>2. ~rushed => r.of.age >= Seen
      BY <2>1, <2>2 DEF Waits, Agrees, InLine
    <3> QED BY <3>1, <3>2
  <2>3. CASE ~r.ok
    BY <1>2, <2>3 DEF PaymentLoads, updatePayment
  <2> QED BY <2>2, <2>3
<1>3. ASSUME NEW i \in Slots, MethodsAnswered(i)
      PROVE  \/ shown' = shown
             \/ /\ shown' \in Payments /\ UNCHANGED <<payment, rushed>>
                /\ ~rushed => shown'.age >= Seen
  <2> DEFINE r == request[i]
  <2>1. r \in OtherAnswers /\ r # Free /\ r.kind = "supported" /\ UNCHANGED <<payment, rushed>>
    BY <1>3, RequestKinds DEF MethodsAnswered, Arrived
  <2>2. shown' = shown \/ shown' = r.of
    BY <1>3 DEF MethodsAnswered
  <2>3. ~rushed => r.of = shown
    BY <2>1 DEF Waits, Agrees, InLine
  <2>4. r.of \in Payments
    BY <2>1, OtherAnswer
  <2> QED BY <2>1, <2>2, <2>3, <2>4 DEF Seen, Payments
<1>4. CASE ~\E i \in Slots : PaymentLoads(i) \/ updatePayment(i) \/ MethodsAnswered(i)
  BY <1>4 DEF Next, vars, StatusChanges, TimerFires, submitCustomer, checkCustomerFails,
     onSubmit, onSelectPaymentMethod, Serve, Lose, Answered, LockAnswered,
     ConvertAnswered, MethodAnswered, CustomerAnswered
<1>5. shown' \in Payments /\ payment' = payment => shown'.age <= payment.age
  BY <1>1 DEF PastOnly, IsPastOf
<1> QED BY <1>2, <1>3, <1>4, <1>5

LEMMA PromiseInit == Init => Promise!Init
BY DEF Init, Promise!Init

LEMMA PromiseStep == IInv /\ [Next]_vars => [Promise!Next]_(Promise!vars)
<1> SUFFICES ASSUME IInv, [Next]_vars PROVE [Promise!Next]_(Promise!vars)
  OBVIOUS
<1> USE DEF Promise!Next, Promise!vars, Promise!Advance, Promise!Look, Promise!Rush
<1>1. TInv /\ TInv' /\ payment \in Payments /\ rushed \in BOOLEAN
  BY IInvStep DEF IInv, HInv, TInv
<1>2. CASE shown' # shown
  <2>1. /\ shown' \in Payments /\ UNCHANGED <<payment, rushed>>
        /\ shown'.age <= payment.age
        /\ ~rushed => shown'.age >= Seen
    BY <1>2, ShownStep
  <2>2. shown' # None /\ shown'.age \in 0..payment.age
    BY <1>1, <2>1, NoneAssumption, PageAssumption DEF Payments
  <2> QED BY <2>1, <2>2 DEF Seen
<1>3. CASE shown' = shown
  <2>1. CASE rushed' = rushed
    <3>1. payment'.age = payment.age \/ payment'.age = payment.age + 1
      BY <1>1, PaymentGoesOn DEF Onward
    <3> QED BY <1>3, <2>1, <3>1
  <2>2. CASE rushed' = TRUE /\ UNCHANGED <<payment, shown>>
    BY <1>1, <2>2
  <2> QED BY <1>1, <2>1, <2>2, StaysRushed
<1> QED BY <1>2, <1>3

(* The page shows a status the payment has or had, and as long as the       *)
(* customer waits never an earlier one than before: every step of it is one *)
(* of StatusView, or none (NeverGoesBack).                                  *)
THEOREM PageKeepsPromise == Spec => NeverGoesBack
<1>1. Spec => []IInv
  BY IInvInit, IInvStep, PTL DEF Spec
<1> QED BY <1>1, PromiseInit, PromiseStep, PTL DEF Spec, NeverGoesBack, Promise!Spec
=============================================================================
