---------------------------- MODULE PaymentPage ----------------------------
(* The page on which a customer pays (ui-payment): it loads the payment,    *)
(* lets the customer choose a currency and leave an e-mail address, locks   *)
(* the payment, shows the address and polls until it can show the result.   *)
(* The browser runs one handler at a time; a handler is cut into actions at *)
(* every await.  Requests in flight are served and answered in any order,   *)
(* and any of them may be lost before or after the server acts on it.       *)
EXTENDS InFlight

CONSTANTS
  Currencies,   \* methods the merchant supports
  Named,        \* those whose name is their ticker: the native coins
  None,
  MaxAge,       \* bound: changes of payments.status after the page is opened
  MaxLosses     \* bound: requests or answers lost

ASSUME PageAssumption ==
  /\ Named \subseteq Currencies /\ None \notin Currencies
  /\ MaxAge \in Nat \ {0} /\ MaxInFlight \in Nat \ {0} /\ MaxLosses \in Nat

VARIABLES
  payment,    \* the server's: status, method, customer, and its age: how
              \* often the status has changed
  route,      \* the page the browser is on
  shown,      \* the payment of PaymentContext, None until it is loaded
  passed,     \* the payment handed to the result page by navigate()
  form,       \* state of the form: method, chosen, filled, methods
  timers,     \* pending timeouts that will call updatePayment
  losses,
  agreed,     \* history: the method on display when Next was last pressed
  rushed      \* history: the customer acted while an answer was outstanding

vars == <<payment, route, shown, passed, form, timers, request,
          losses, agreed, rushed>>
display == <<route, shown, passed>>
customer == <<agreed, rushed>>

Statuses ==
  {"pending", "locked", "partial", "inProgress", "underpaid", "success", "failed"}
Payments == [status : Statuses, method : Currencies \cup {None},
             customer : BOOLEAN, age : 0..MaxAge]
ASSUME NoneAssumption == None \notin Payments
isLocked(p) == p.status # "pending"
hasPaymentInfo(p) == isLocked(p) /\ p.method # None

(* A request on its way, and its answer.  "of" is the payment the handler   *)
(* closed over when it sent the request; "then" what it goes on with.  A    *)
(* conversion and the list of methods do not depend on the payment's state: *)
(* their answer is settled when they are sent.                              *)
Answer(kind, ok, cur, of, then) ==
  [kind |-> kind, at |-> "page", ok |-> ok, cur |-> cur, of |-> of, then |-> then]
Asking(kind, cur, of, then) ==
  IF kind \in {"convert", "supported"} THEN Answer(kind, TRUE, cur, of, then)
  ELSE [kind |-> kind, at |-> "server", cur |-> cur, of |-> of, then |-> then]
GetPayment == Asking("payment", None, None, "poll")

Busy == ~Quiet \/ timers > 0

----------------------------------------------------------------------------
(* What the page shows.                                                     *)
OnForm == route = "pay" /\ shown # None /\ ~isLocked(shown)
OnAddress == route = "pay" /\ shown # None /\ hasPaymentInfo(shown)

(* A result page shows the payment it was handed; without one it goes to    *)
(* /not-found.                                                              *)
OnSuccess == route = "success" /\ passed # None
OnUnderpaid == route = "underpaid" /\ passed # None
OnError == route = "error" /\ passed # None
OnResult == OnSuccess \/ OnUnderpaid \/ OnError

submitButtonDisabled ==
  form.method = None \/ ~form.filled \/ ~form.chosen

EmptyForm == [method |-> None, chosen |-> FALSE, filled |-> FALSE, methods |-> FALSE]

Init ==
  /\ payment \in {p \in [status : Statuses, method : Currencies \cup {None},
                         customer : BOOLEAN, age : {0}] :
                    p.status \in {"pending", "failed"} \/ (p.method # None /\ p.customer)}
  /\ route = "pay" /\ shown = None /\ passed = None
  /\ form = EmptyForm
  /\ timers = 0
  /\ request = [i \in Slots |-> IF i = 1 THEN Asking("payment", None, None, "load")
                                         ELSE Free]
  /\ losses = 0 /\ agreed = None /\ rushed = FALSE

----------------------------------------------------------------------------
(* The server.  Each handler reads and writes the payment in one step; what *)
(* happens between its statements is the subject of module Checkout.        *)

Moves ==
  {<<"pending", "failed">>, <<"locked", "failed">>, <<"locked", "partial">>,
   <<"locked", "inProgress">>, <<"partial", "inProgress">>, <<"partial", "failed">>,
   <<"partial", "underpaid">>, <<"inProgress", "partial">>,
   <<"inProgress", "success">>, <<"inProgress", "underpaid">>,
   <<"inProgress", "failed">>, <<"underpaid", "success">>,
   <<"underpaid", "failed">>, <<"failed", "success">>}

BecomesWith(p, s) == [p EXCEPT !.status = s, !.age = @ + 1]

StatusChanges ==
  /\ payment.age < MaxAge
  /\ \E s \in Statuses :
       /\ <<payment.status, s>> \in Moves
       /\ payment' = BecomesWith(payment, s)
  /\ UNCHANGED <<display, form, timers, request, losses, customer>>

(* POST method, POST customer and PUT payment change the payment while it   *)
(* is editable.  PUT is refused without a customer and a method, and says   *)
(* yes again once the payment is locked.                                    *)
Accepts(r) ==
  CASE r.kind \in {"method", "customer"} -> ~isLocked(payment)
    [] r.kind = "lock" -> isLocked(payment) \/ (payment.method # None /\ payment.customer)
    [] OTHER -> TRUE

After(r) ==
  IF isLocked(payment) \/ ~Accepts(r) THEN payment
  ELSE CASE r.kind = "method" -> [payment EXCEPT !.method = r.cur]
         [] r.kind = "customer" -> [payment EXCEPT !.customer = TRUE]
         [] r.kind = "lock" -> BecomesWith(payment, "locked")
         [] OTHER -> payment

Serve(i) ==
  LET r == request[i] IN
  /\ AtServer(i)
  /\ payment' = After(r)
  /\ request' = [request EXCEPT ![i] =
       Answer(r.kind, Accepts(r), r.cur, IF r.kind = "payment" THEN payment ELSE r.of, r.then)]
  /\ UNCHANGED <<display, form, timers, losses, customer>>

(* The request never arrives, or its answer does not.  The page goes on in  *)
(* the same way when a conversion fails.                                    *)
Lose(i) ==
  LET r == request[i] IN
  /\ r # Free /\ r.kind # "convert" /\ losses < MaxLosses
  /\ r.at = "page" => r.ok
  /\ request' = [request EXCEPT ![i] = Answer(r.kind, FALSE, r.cur, r.of, r.then)]
  /\ losses' = losses + 1
  /\ UNCHANGED <<payment, display, form, timers, customer>>

----------------------------------------------------------------------------
(* setPayment and the effect that follows it.                               *)

WithCustomer(p, f) ==
  IF p.customer THEN [f EXCEPT !.filled = TRUE] ELSE f
AskMethods(p) == Asking("supported", None, p, "known")

(* Every call finds the list still empty until it has been loaded once.     *)
getSupportedMethods(p, i) ==
  IF form.methods THEN Ends(i) /\ UNCHANGED form
  ELSE IF p.method # None
  THEN /\ form' = [form EXCEPT !.method = p.method]
       /\ GoesOn(i, Asking("convert", p.method, p, "known"))
  ELSE /\ form' = WithCustomer(p, form)
       /\ GoesOn(i, AskMethods(p))

(* Mutant: an unconfirmed transfer counts as success.                       *)
ResultPageEarly(p) ==
  CASE p.status = "failed" -> "error"
    [] p.status = "underpaid" -> "underpaid"
    [] p.status \in {"success", "inProgress"} -> "success"
    [] OTHER -> "pay"

(* Mutant: the page of an underpaid payment is missing.                     *)
ResultPageFew(p) ==
  CASE p.status = "failed" -> "error"
    [] p.status = "success" -> "success"
    [] OTHER -> "pay"

ResultPage(p) ==
  CASE p.status = "failed" -> "error"
    [] p.status = "underpaid" -> "underpaid"
    [] p.status = "success" -> "success"
    [] OTHER -> "pay"

(* What React does with a state of a page that is no longer mounted.        *)
SetForm(f) == form' = IF route = "pay" THEN f ELSE form

(* Outside PaymentPage nothing watches the payment of the context.          *)
PaymentEffect(p, i) ==
  CASE route # "pay" ->
         Ends(i) /\ UNCHANGED <<route, passed, form, timers>>
    [] route = "pay" /\ hasPaymentInfo(p) /\ ResultPage(p) # "pay" ->
         /\ route' = ResultPage(p) /\ passed' = p /\ form' = EmptyForm
         /\ Ends(i) /\ UNCHANGED timers
    [] route = "pay" /\ hasPaymentInfo(p) /\ ResultPage(p) = "pay" ->
         /\ timers' = timers + 1
         /\ Ends(i) /\ UNCHANGED <<route, passed, form>>
    [] OTHER ->
         getSupportedMethods(p, i) /\ UNCHANGED <<route, passed, timers>>

setPayment(p, i) == shown' = p /\ PaymentEffect(p, i)

(* onSelectPaymentMethod returns at once for the method already chosen, if  *)
(* its name is its ticker, and for the one the payment came with.           *)
Ignores(c) ==
  (c = form.method /\ c \in Named) \/ (form.method = None /\ shown.method = c)

(* A drop-down list that appears with an item selected reports it at once.  *)
DropDownSelects(p) == p.method # None /\ ~Ignores(p.method)

----------------------------------------------------------------------------
(* The page.  Handlers of answers: what follows each await.                 *)

Handled == UNCHANGED <<payment, losses, customer>>

(* App.getPayment on the first load, updatePayment afterwards.              *)
PaymentLoads(i) ==
  /\ Arrived(i, "payment") /\ request[i].then = "load"
  /\ IF request[i].ok
     THEN setPayment(request[i].of, i)
     ELSE /\ route' = "notFound"
          /\ Ends(i) /\ UNCHANGED <<shown, passed, form, timers>>
  /\ Handled

(* Mutant: the next poll is scheduled by updatePayment as well.             *)
updatePaymentTwice(i) ==
  /\ Arrived(i, "payment") /\ request[i].then = "poll"
  /\ IF request[i].ok /\ ResultPage(request[i].of) = "pay"
     THEN shown' = request[i].of /\ timers' = timers + 2 /\ Ends(i)
          /\ UNCHANGED <<route, passed, form>>
     ELSE IF request[i].ok THEN setPayment(request[i].of, i)
     ELSE timers' = timers + 1 /\ Ends(i) /\ UNCHANGED <<display, form>>
  /\ Handled

updatePayment(i) ==
  /\ Arrived(i, "payment") /\ request[i].then = "poll"
  /\ IF request[i].ok
     THEN setPayment(request[i].of, i)
     ELSE timers' = timers + 1 /\ Ends(i) /\ UNCHANGED <<display, form>>
  /\ Handled

TimerFires ==
  /\ timers > 0
  /\ timers' = timers - 1
  /\ Send(GetPayment)
  /\ UNCHANGED <<payment, display, form, losses, customer>>

LockAnswered(i) ==
  /\ Arrived(i, "lock")
  /\ IF request[i].ok THEN GoesOn(i, GetPayment) ELSE Ends(i)
  /\ UNCHANGED <<display, form, timers>> /\ Handled

(* getCryptoCurrencyConvert swallows its errors, so both its callers go on. *)
ConvertAnswered(i) ==
  LET r == request[i] IN
  /\ Arrived(i, "convert")
  /\ \/ /\ r.then = "select"
        /\ GoesOn(i, Asking("method", r.cur, None, "select"))
        /\ UNCHANGED form
     \/ /\ r.then = "known"
        /\ SetForm(WithCustomer(r.of, [form EXCEPT !.chosen = TRUE]))
        /\ GoesOn(i, AskMethods(r.of))
  /\ UNCHANGED <<display, timers>> /\ Handled

(* The handler ends with setPayment of the payment it started with.  If     *)
(* the page has seen another one since, the form comes back for a while,    *)
(* and its drop-down list selects the payment's method once more.           *)
MethodsAnswered(i) ==
  LET r == request[i] IN
  /\ Arrived(i, "supported")
  /\ IF r.ok
     THEN /\ shown' = r.of
          /\ IF r.of # shown /\ route = "pay" /\ DropDownSelects(r.of)
             THEN /\ form' = [form EXCEPT !.methods = TRUE, !.method = r.of.method]
                  /\ GoesOn(i, Asking("convert", r.of.method, None, "select"))
             ELSE SetForm([form EXCEPT !.methods = TRUE]) /\ Ends(i)
     ELSE /\ SetForm([form EXCEPT !.chosen = FALSE, !.filled = FALSE])
          /\ Ends(i) /\ UNCHANGED shown
  /\ UNCHANGED <<route, passed, timers>> /\ Handled

(* Mutant: a choice the server did not confirm stays chosen.                *)
MethodAnsweredAnyway(i) ==
  /\ Arrived(i, "method")
  /\ SetForm([form EXCEPT !.chosen = @ \/ request[i].ok])
  /\ Ends(i) /\ UNCHANGED <<display, timers>> /\ Handled

MethodAnswered(i) ==
  /\ Arrived(i, "method")
  /\ SetForm([form EXCEPT !.chosen = request[i].ok])
  /\ Ends(i) /\ UNCHANGED <<display, timers>> /\ Handled

CustomerAnswered(i) ==
  /\ Arrived(i, "customer")
  /\ SetForm([form EXCEPT !.filled = request[i].ok])
  /\ Ends(i) /\ UNCHANGED <<display, timers>> /\ Handled

----------------------------------------------------------------------------
(* The customer.                                                            *)

onSelectPaymentMethod(c) ==
  /\ OnForm /\ form.methods /\ ~Ignores(c)
  /\ Send(Asking("convert", c, None, "select"))
  /\ form' = [form EXCEPT !.method = c]
  /\ agreed' = None /\ rushed' = (rushed \/ Busy)
  /\ UNCHANGED <<payment, display, timers, losses>>

(* "filled" stands for an address and the terms accepted, both confirmed by *)
(* the server.                                                              *)
submitCustomer ==
  /\ OnForm
  /\ Send(Asking("customer", None, None, "fill"))
  /\ UNCHANGED <<payment, display, form, timers, losses, customer>>

(* An invalid address, or the terms no longer accepted.                     *)
checkCustomerFails ==
  /\ OnForm /\ \A i \in Slots : request[i].kind # "customer"
  /\ form' = [form EXCEPT !.filled = FALSE]
  /\ UNCHANGED <<payment, display, timers, request, losses, customer>>

onSubmit ==
  /\ OnForm /\ ~submitButtonDisabled
  /\ Send(Asking("lock", None, None, "submit"))
  /\ agreed' = form.method /\ rushed' = (rushed \/ Busy)
  /\ UNCHANGED <<payment, display, form, timers, losses>>

----------------------------------------------------------------------------
Answered(i) ==
  \/ PaymentLoads(i) \/ updatePayment(i) \/ LockAnswered(i) \/ ConvertAnswered(i)
  \/ MethodsAnswered(i) \/ MethodAnswered(i) \/ CustomerAnswered(i)

Next ==
  \/ StatusChanges \/ TimerFires \/ submitCustomer \/ checkCustomerFails \/ onSubmit
  \/ \E c \in Currencies : onSelectPaymentMethod(c)
  \/ \E i \in Slots : Serve(i) \/ Lose(i) \/ Answered(i)

Spec == Init /\ [][Next]_vars

(* Requests are answered or fail, and timers fire; nobody has to act and    *)
(* the status does not have to change.  Strong fairness of the timers: in    *)
(* the model, not in the browser, they may find every slot taken.           *)
FairSpec ==
  /\ Spec /\ SF_vars(TimerFires)
  /\ \A i \in Slots : WF_vars(Serve(i)) /\ WF_vars(Answered(i))

----------------------------------------------------------------------------
TypeOK ==
  /\ payment \in Payments
  /\ route \in {"pay", "success", "underpaid", "error", "notFound"}
  /\ shown \in Payments \cup {None} /\ passed \in Payments \cup {None}
  /\ form \in [method : Currencies \cup {None}, chosen : BOOLEAN, filled : BOOLEAN,
               methods : BOOLEAN]
  /\ timers \in Nat /\ losses \in 0..MaxLosses
  /\ \A i \in Slots : request[i] = Free \/ request[i].at \in {"server", "page"}
  /\ agreed \in Currencies \cup {None} /\ rushed \in BOOLEAN

(* A result page is only reached with a status the payment really had: an   *)
(* unconfirmed transfer is never presented as success.                      *)
ResultsAreTrue ==
  /\ route \in {"success", "underpaid", "error"} => OnResult
  /\ OnSuccess => passed.status = "success"
  /\ OnUnderpaid => passed.status = "underpaid"
  /\ OnError => passed.status = "failed"
  /\ passed # None /\ passed.age >= payment.age => passed = payment

(* A customer who waits for each answer before the next step pays in the    *)
(* currency that was on display when Next was pressed.                      *)
AgreedIsLocked ==
  ~rushed /\ agreed # None /\ isLocked(payment) => payment.method = agreed

(* Who pays sees the result, however many polls are lost on the way.        *)
ResultComes ==
  OnAddress /\ payment.status \in {"success", "underpaid", "failed"} ~> OnResult

(* For a customer who waits, the page never goes back to an earlier status. *)
Promise == INSTANCE StatusView WITH
  now <- payment.age, seen <- IF shown = None THEN 0 ELSE shown.age, calm <- ~rushed
NeverGoesBack == Promise!Spec
============================================================================
