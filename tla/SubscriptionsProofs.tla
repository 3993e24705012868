------------------------- MODULE SubscriptionsProofs -------------------------
(* For any merchants, plans and limits, and any number of requests in flight: *)
(* the types; that what costs something is active only when it is paid or     *)
(* assigned; that payments are counted and refused at the limit; that a       *)
(* deletion leaves no plan; and that the pages show what is stored.           *)
EXTENDS Subscriptions, FiniteSetTheorems, SequenceTheorems, TLAPS

-------------------------------------------------------------------------------
(* Requests: the types of their parts, and what is known by kind and stage.   *)

Kinds == {"load", "pay", "complete", "upgrade", "cancel", "assign", "delete", "user", "save", "plans"}
Stages == {"read", "check", "create", "insert", "update", "again", "plan", "invoice", "cancel",
           "clean", "mark", "remove", "save", "list"}
Jobs == [kind : Kinds, stage : Stages, at : {"server", "page"}, ok : BOOLEAN, here : BOOLEAN,
         merchant : Merchants \cup {None}, plan : Plans \cup {None}, row : Nat, first : {0, 1},
         full : BOOLEAN, acts : Nat, left : SUBSET Merchants, view : Views, offers : SUBSET Plans,
         rows : [Plans -> PlanRows]]
OfMerchant == {"load", "pay", "complete", "upgrade", "cancel", "assign", "delete"}

JobFits(r, n) ==
  /\ r \in Jobs
  /\ r.kind \in OfMerchant => r.merchant \in Merchants
  /\ r.kind \in {"upgrade", "assign", "save"} => r.plan \in Plans
  /\ r.stage = "create" => r.kind \in {"load", "pay", "complete"}
  /\ r.stage = "create" /\ r.kind = "pay" => r.plan \in Plans
  /\ r.kind \in {"pay", "complete"} => r.at = "server"
  /\ r.row <= n
  /\ r.kind = "upgrade" /\ r.stage = "invoice" => r.row # 0 /\ r.first # 0

(* What a request keeps from its sending to its end.                          *)
Same(q, r) ==
  /\ q.kind = r.kind /\ q.merchant = r.merchant /\ q.here = r.here
  /\ q.full = r.full /\ q.acts = r.acts
Rest(q, r) ==
  /\ q.plan = r.plan /\ q.row = r.row /\ q.first = r.first /\ q.left = r.left
  /\ q.view = r.view /\ q.offers = r.offers /\ q.rows = r.rows

LEMMA StageOfJob ==
  ASSUME NEW r \in Jobs, NEW s \in Stages, NEW q, q = [r EXCEPT !.stage = s]
  PROVE  q \in Jobs /\ Same(q, r) /\ Rest(q, r) /\ q.stage = s /\ q.at = r.at /\ q.ok = r.ok
BY DEF Jobs, Same, Rest

LEMMA ReplyOfJob ==
  ASSUME NEW r \in Jobs, NEW ok \in BOOLEAN, NEW q, q = Reply(r, ok)
  PROVE  q \in Jobs /\ Same(q, r) /\ Rest(q, r) /\ q.stage = r.stage /\ q.at = "page" /\ q.ok = ok
BY DEF Jobs, Same, Rest, Reply

LEMMA LeaveJob ==
  ASSUME NEW r \in Jobs, NEW q, q = [r EXCEPT !.here = FALSE]
  PROVE  /\ q \in Jobs /\ Rest(q, r) /\ q.stage = r.stage /\ q.at = r.at /\ q.ok = r.ok
         /\ q.kind = r.kind /\ q.merchant = r.merchant /\ q.full = r.full /\ q.acts = r.acts
         /\ q.here = FALSE
BY DEF Jobs, Rest

LEMMA FreeIsNoJob == Free \notin Jobs /\ Free.kind = "none" /\ "none" \notin Kinds
BY DEF Free, Jobs, Kinds

-------------------------------------------------------------------------------
(* The rows of subscriptions: one is added for a merchant that has none       *)
(* alive, or each stays what it is but for its status, its invoice and its    *)
(* renewal.                                                                   *)

Subs == [merchant : Merchants, plan : Plans, status : LiveStatuses \cup {"cancelled"},
         renew : BOOLEAN, by : {"self", "admin"}, price : {0, 1}, first : {0, 1},
         invoice : {"none", "open", "paid"}, metadata : {0}, late : BOOLEAN]
OneLive == \A m \in Merchants : \A a, b \in Live(m) : a = b

Lasts(s, t) ==
  /\ t.merchant = s.merchant /\ t.plan = s.plan /\ t.by = s.by /\ t.price = s.price
  /\ t.first = s.first /\ t.late = s.late
  /\ t.status = s.status \/ t.status = "cancelled"
RowsLast ==
  DOMAIN subs' = DOMAIN subs /\ \A n \in DOMAIN subs : Lasts(subs[n], subs'[n])
RowAdded(s) == s \in Subs /\ Live(s.merchant) = {} /\ subs' = Append(subs, s)

RowsInv == subs \in Seq(Subs) /\ OneLive

LEMMA RowsAreNumbered ==
  ASSUME subs \in Seq(Subs)
  PROVE  /\ Len(subs) \in Nat /\ DOMAIN subs = 1..Len(subs)
         /\ \A n \in DOMAIN subs : n \in Nat /\ n <= Len(subs) /\ subs[n] \in Subs
BY LenProperties, ElementOfSeq

LEMMA LiveIsRow ==
  ASSUME NEW m, NEW n \in Live(m)
  PROVE  n \in DOMAIN subs /\ subs[n].merchant = m /\ subs[n].status \in LiveStatuses
BY DEF Live

(* A function on the same numbers is a sequence again.                        *)
LEMMA RewrittenRows ==
  ASSUME subs \in Seq(Subs), NEW f, f = [n \in DOMAIN subs |-> f[n]],
         \A n \in DOMAIN subs : f[n] \in Subs
  PROVE  f \in Seq(Subs) /\ DOMAIN f = DOMAIN subs
<1>1. Len(subs) \in Nat /\ DOMAIN subs = 1..Len(subs)
  BY RowsAreNumbered
<1>2. f \in [1..Len(subs) -> Subs]
  BY <1>1
<1> QED BY <1>1, <1>2, SeqDef

LEMMA RowsLastLive ==
  ASSUME RowsLast, NEW m
  PROVE  Live(m)' \subseteq Live(m)
BY DEF RowsLast, Live, Lasts, LiveStatuses

LEMMA RowAddedLive ==
  ASSUME subs \in Seq(Subs), NEW s, RowAdded(s)
  PROVE  /\ subs' \in Seq(Subs) /\ Len(subs') = Len(subs) + 1
         /\ DOMAIN subs' = DOMAIN subs \cup {Len(subs) + 1} /\ Len(subs) + 1 \notin DOMAIN subs
         /\ subs'[Len(subs) + 1] = s
         /\ \A n \in DOMAIN subs : subs'[n] = subs[n]
         /\ \A m : m # s.merchant => Live(m)' = Live(m)
         /\ Live(s.merchant)' \subseteq {Len(subs) + 1}
<1>1. Len(subs) \in Nat /\ DOMAIN subs = 1..Len(subs)
  BY RowsAreNumbered
<1>2. /\ subs' \in Seq(Subs) /\ Len(subs') = Len(subs) + 1
      /\ DOMAIN subs' = 1..(Len(subs) + 1) /\ subs'[Len(subs) + 1] = s
      /\ \A n \in 1..Len(subs) : subs'[n] = subs[n]
  BY <1>1, AppendProperties DEF RowAdded
<1>3. DOMAIN subs' = DOMAIN subs \cup {Len(subs) + 1} /\ Len(subs) + 1 \notin DOMAIN subs
  BY <1>1, <1>2
<1>4. ASSUME NEW m, m # s.merchant
      PROVE  Live(m)' = Live(m)
  BY <1>1, <1>2, <1>3, <1>4 DEF Live
<1>5. Live(s.merchant)' \subseteq {Len(subs) + 1}
  <2>1. ASSUME NEW n \in DOMAIN subs, n \in Live(s.merchant)'
        PROVE  FALSE
    <3>1. n \in Live(s.merchant)
      BY <1>1, <1>2, <2>1 DEF Live
    <3> QED BY <3>1 DEF RowAdded
  <2>2. Live(s.merchant)' \subseteq DOMAIN subs'
    BY DEF Live
  <2> QED BY <1>3, <2>1, <2>2
<1> QED BY <1>1, <1>2, <1>3, <1>4, <1>5

LEMMA RowsStay ==
  ASSUME RowsInv, \/ RowsLast /\ subs' \in Seq(Subs)
                  \/ \E s : RowAdded(s)
  PROVE  RowsInv' /\ Len(subs') >= Len(subs)
<1>1. CASE RowsLast /\ subs' \in Seq(Subs)
  <2>1. Len(subs') = Len(subs)
    BY <1>1, RowsAreNumbered DEF RowsInv, RowsLast
  <2>2. OneLive'
    BY <1>1, RowsLastLive DEF RowsInv, OneLive
  <2> QED BY <1>1, <2>1, <2>2 DEF RowsInv
<1>2. ASSUME NEW s, RowAdded(s)
      PROVE  RowsInv' /\ Len(subs') >= Len(subs)
  <2>1. subs' \in Seq(Subs) /\ Len(subs') = Len(subs) + 1 /\ Len(subs) \in Nat
    BY <1>2, RowAddedLive, RowsAreNumbered DEF RowsInv
  <2>2. ASSUME NEW m \in Merchants, NEW a \in Live(m)', NEW b \in Live(m)'
        PROVE  a = b
    <3>1. CASE m = s.merchant
      <4>1. a \in Live(s.merchant)' /\ b \in Live(s.merchant)'
        BY <2>2, <3>1 DEF Live
      <4>2. Live(s.merchant)' \subseteq {Len(subs) + 1}
        BY <1>2, RowAddedLive DEF RowsInv
      <4> QED BY <4>1, <4>2
    <3>2. CASE m # s.merchant
      BY <1>2, <2>2, <3>2, RowAddedLive DEF RowsInv, OneLive
    <3> QED BY <3>1, <3>2
  <2> QED BY <2>1, <2>2 DEF RowsInv, OneLive
<1> QED BY <1>1, <1>2

(* The subscription a merchant has is its one live row.                       *)
LEMMA ViewIsLive ==
  ASSUME RowsInv, NEW m \in Merchants, NEW n \in Live(m)
  PROVE  ViewOf(m) = [plan |-> subs[n].plan, status |-> subs[n].status, renew |-> subs[n].renew]
<1>1. n \in Nat /\ \A k \in Live(m) : k = n
  BY RowsAreNumbered, LiveIsRow DEF RowsInv, OneLive
<1>2. n <= n
  BY <1>1
<1>3. (CHOOSE k \in Live(m) : \A j \in Live(m) : j <= k) = n
  BY <1>1, <1>2
<1> QED BY <1>3 DEF ViewOf

LEMMA ViewTyped ==
  ASSUME RowsInv, NEW m \in Merchants
  PROVE  /\ ViewOf(m) \in Views
         /\ Live(m) # {} => PlanOf(m) \in Plans
         /\ Live(m) = {} => ViewOf(m) = Nothing
<1>1. CASE Live(m) = {}
  BY <1>1 DEF ViewOf, Nothing, Views
<1>2. ASSUME NEW n \in Live(m)
      PROVE  ViewOf(m) \in Views /\ PlanOf(m) \in Plans
  <2>1. subs[n] \in Subs /\ subs[n].status \in LiveStatuses
    BY <1>2, LiveIsRow, RowsAreNumbered DEF RowsInv
  <2>2. ViewOf(m) = [plan |-> subs[n].plan, status |-> subs[n].status, renew |-> subs[n].renew]
    BY <1>2, ViewIsLive
  <2> QED BY <2>1, <2>2 DEF Subs, Views, PlanOf
<1> QED BY <1>1, <1>2

-------------------------------------------------------------------------------
(* Types                                                                      *)

ServerTyped ==
  /\ plan \in [Plans -> PlanRows] /\ RowsInv
  /\ usage \in [Merchants -> Nat \cup {NoRow}] /\ raced \in BOOLEAN
  /\ open \in [Merchants -> Nat] /\ done \in [Merchants -> Nat]
  /\ state \in [Merchants -> {"live", "cleaned", "gone"}] /\ owner \in BOOLEAN
PagesTyped ==
  /\ adminRows \in [Plans -> PlanRows] /\ wanted \in [Plans -> PlanRows]
  /\ merchantId \in Merchants /\ loading \in BOOLEAN /\ upgrading \in Plans \cup {None}
  /\ shown \in [view : Views, offers : SUBSET Plans]
ActsBounded ==
  /\ asked \in Nat /\ adminActs \in Nat /\ asked + adminActs <= MaxActs
  /\ faults \in Nat /\ hasty \in Nat /\ hasty + faults <= MaxTrouble
Fits(r) == r = Free \/ JobFits(r, Len(subs))
RequestsFit ==
  /\ request = [i \in Slots |-> request[i]]
  /\ \A i \in Slots : Fits(request[i])
XInv == ServerTyped /\ PagesTyped /\ ActsBounded /\ RequestsFit

SubsMove == (RowsLast /\ subs' \in Seq(Subs)) \/ \E s : RowAdded(s)

(* How the server answers: the request goes on, as the one it was, or ends    *)
(* when nobody waits for an answer.                                           *)
GoesOnAs(i, q) ==
  /\ request' = [request EXCEPT ![i] = q]
  /\ \/ q = Free /\ request[i].kind \in {"pay", "complete"}
     \/ JobFits(q, Len(subs')) /\ Same(q, request[i])

LEMMA FitsLonger ==
  ASSUME NEW r, NEW n \in Nat, NEW k \in Nat, k >= n, JobFits(r, n)
  PROVE  JobFits(r, k)
BY DEF JobFits, Jobs

LEMMA UnchangedRows ==
  ASSUME RowsInv, UNCHANGED subs
  PROVE  SubsMove /\ Len(subs') = Len(subs) /\ Len(subs) \in Nat
BY RowsAreNumbered DEF SubsMove, RowsInv, RowsLast, Lasts

LEMMA AtKind ==
  ASSUME RequestsFit, NEW i \in Slots, AtServer(i)
  PROVE  request[i] # Free /\ JobFits(request[i], Len(subs)) /\ request[i] \in Jobs
         /\ request[i].at = "server"
BY DEF RequestsFit, Fits, AtServer, JobFits

LEMMA StageGoesOn ==
  ASSUME RequestsFit, NEW i \in Slots, AtServer(i), Len(subs) \in Nat, Len(subs') \in Nat,
         Len(subs') >= Len(subs), NEW s \in Stages,
         s = "create" => request[i].kind \in {"load", "complete"}, s # "invoice",
         request' = [request EXCEPT ![i] = [request[i] EXCEPT !.stage = s]]
  PROVE  GoesOnAs(i, [request[i] EXCEPT !.stage = s])
<1> DEFINE r == request[i]
           q == [r EXCEPT !.stage = s]
<1>1. JobFits(r, Len(subs)) /\ r \in Jobs
  BY AtKind
<1>2. JobFits(r, Len(subs'))
  BY <1>1, FitsLonger
<1>3. q \in Jobs /\ Same(q, r) /\ Rest(q, r) /\ q.stage = s /\ q.at = r.at
  BY <1>1, StageOfJob
<1> HIDE DEF q
<1>4. JobFits(q, Len(subs'))
  BY <1>2, <1>3 DEF JobFits, Same, Rest
<1> QED BY <1>3, <1>4 DEF GoesOnAs, q

LEMMA ReplyGoesOn ==
  ASSUME RequestsFit, NEW i \in Slots, AtServer(i), Len(subs) \in Nat, Len(subs') \in Nat,
         Len(subs') >= Len(subs), request[i].kind \notin {"pay", "complete"}, NEW ok \in BOOLEAN,
         request' = [request EXCEPT ![i] = Reply(request[i], ok)]
  PROVE  GoesOnAs(i, Reply(request[i], ok))
<1> DEFINE r == request[i]
           q == Reply(r, ok)
<1>1. JobFits(r, Len(subs)) /\ r \in Jobs
  BY AtKind
<1>2. JobFits(r, Len(subs'))
  BY <1>1, FitsLonger
<1>3. q \in Jobs /\ Same(q, r) /\ Rest(q, r) /\ q.stage = r.stage
  BY <1>1, ReplyOfJob
<1> HIDE DEF q
<1>4. JobFits(q, Len(subs'))
  BY <1>2, <1>3 DEF JobFits, Same, Rest
<1> QED BY <1>3, <1>4 DEF GoesOnAs, q

LEMMA EndGoesOn ==
  ASSUME NEW i \in Slots, request[i].kind \in {"pay", "complete"}, Ends(i)
  PROVE  GoesOnAs(i, Free)
BY DEF GoesOnAs, Ends

Answers(i) == (\E q : GoesOnAs(i, q)) /\ SubsMove

LEMMA PayServed ==
  ASSUME XInv, NEW i \in Slots,
         CheckPaymentLimit(i) \/ CreatePayment(i) \/ IncrementPaymentUsage(i)
  PROVE  Answers(i)
<1> DEFINE r == request[i]
<1> USE DEF GoesOn
<1>1. AtServer(i) /\ UNCHANGED subs /\ r.kind \in {"pay", "complete"} /\ RequestsFit /\ RowsInv
  BY DEF CheckPaymentLimit, CreatePayment, IncrementPaymentUsage, At, XInv, ServerTyped
<1>2. JobFits(r, Len(subs)) /\ r \in Jobs /\ SubsMove /\ Len(subs) \in Nat /\ Len(subs') \in Nat
      /\ Len(subs') >= Len(subs)
  BY <1>1, AtKind, UnchangedRows
<1>3. CASE CheckPaymentLimit(i)
  <2> DEFINE m == r.merchant
  <2>1. m \in Merchants /\ r.kind = "pay"
    BY <1>2, <1>3 DEF JobFits, OfMerchant, CheckPaymentLimit, At
  <2>2. CASE Limited(m) /\ usage[m] = NoRow
    <3>1. PICK p \in Plans : p = PlanOf(m)
      BY <1>1, <2>1, <2>2, ViewTyped DEF Limited, Served
    <3>2. PICK q : /\ q = [r EXCEPT !.stage = "create", !.plan = p]
                   /\ request' = [request EXCEPT ![i] = q]
      BY <1>3, <2>2, <3>1 DEF CheckPaymentLimit, Limited
    <3>3. q \in Jobs /\ Same(q, r) /\ q.stage = "create" /\ q.plan = p /\ q.row = r.row
          /\ q.at = r.at
      BY <1>2, <3>1, <3>2 DEF Jobs, Same, Stages
    <3>4. JobFits(q, Len(subs'))
      BY <1>1, <1>2, <2>1, <3>1, <3>3 DEF JobFits, Same
    <3> QED BY <1>2, <3>2, <3>3, <3>4 DEF GoesOnAs, Answers
  <2>3. CASE ~(Limited(m) /\ usage[m] = NoRow)
    <3>1. Ends(i) \/ request' = [request EXCEPT ![i] = [r EXCEPT !.stage = "insert"]]
      BY <1>3, <2>3 DEF CheckPaymentLimit, Limited, Ends
    <3> QED BY <1>1, <1>2, <3>1, EndGoesOn, StageGoesOn DEF Answers, Stages
  <2> QED BY <2>2, <2>3
<1>4. CASE CreatePayment(i)
  BY <1>1, <1>2, <1>4, EndGoesOn DEF CreatePayment, Answers
<1>5. CASE IncrementPaymentUsage(i)
  <2>1. r.kind = "complete"
    BY <1>5 DEF IncrementPaymentUsage
  <2>2. Ends(i) \/ request' = [request EXCEPT ![i] = [r EXCEPT !.stage = "create"]]
    BY <1>5 DEF IncrementPaymentUsage
  <2> QED BY <1>1, <1>2, <2>1, <2>2, EndGoesOn, StageGoesOn DEF Answers, Stages
<1> QED BY <1>3, <1>4, <1>5

LEMMA UsageServed ==
  ASSUME XInv, NEW i \in Slots, GetCurrentSubscription(i) \/ CreatePeriod(i)
  PROVE  Answers(i)
<1> DEFINE r == request[i]
<1> USE DEF GoesOn
<1>1. AtServer(i) /\ UNCHANGED subs /\ RequestsFit /\ RowsInv /\ usage \in [Merchants -> Nat \cup {NoRow}]
      /\ plan \in [Plans -> PlanRows]
  BY DEF GetCurrentSubscription, CreatePeriod, At, XInv, ServerTyped
<1>2. JobFits(r, Len(subs)) /\ r \in Jobs /\ SubsMove /\ Len(subs) \in Nat /\ Len(subs') \in Nat
      /\ Len(subs') >= Len(subs) /\ Len(subs') = Len(subs)
  BY <1>1, AtKind, UnchangedRows
<1>3. CASE GetCurrentSubscription(i)
  <2> DEFINE v == ViewOf(r.merchant)
             ps == {p \in Plans : plan[p].active}
  <2>1. r.kind = "load" /\ r.merchant \in Merchants /\ v \in Views
    BY <1>1, <1>2, <1>3, ViewTyped DEF GetCurrentSubscription, At, JobFits, OfMerchant
  <2>2. PICK x : /\ x = [r EXCEPT !.view = v, !.offers = ps]
                 /\ \/ request' = [request EXCEPT ![i] = Reply(x, TRUE)]
                    \/ request' = [request EXCEPT ![i] = [x EXCEPT !.stage = "create"]]
    BY <1>3 DEF GetCurrentSubscription
  <2>3. x \in Jobs /\ Same(x, r) /\ x.stage = r.stage /\ x.row = r.row /\ x.at = r.at
    BY <1>2, <2>1, <2>2 DEF Jobs, Same
  <2>4. CASE request' = [request EXCEPT ![i] = Reply(x, TRUE)]
    <3>1. PICK q : q = Reply(x, TRUE)
      OBVIOUS
    <3>2. q \in Jobs /\ Same(q, x) /\ Rest(q, x) /\ q.stage = x.stage
      BY <2>3, <3>1, ReplyOfJob
    <3>3. JobFits(q, Len(subs')) /\ Same(q, r)
      BY <1>2, <2>1, <2>3, <3>2 DEF JobFits, Same, Rest
    <3> QED BY <1>2, <2>4, <3>1, <3>3 DEF GoesOnAs, Answers
  <2>5. CASE request' = [request EXCEPT ![i] = [x EXCEPT !.stage = "create"]]
    <3>1. PICK q : q = [x EXCEPT !.stage = "create"]
      OBVIOUS
    <3>2. q \in Jobs /\ Same(q, x) /\ Rest(q, x) /\ q.stage = "create"
      BY <2>3, <3>1, StageOfJob DEF Stages
    <3>3. JobFits(q, Len(subs')) /\ Same(q, r)
      BY <1>2, <2>1, <2>3, <3>2 DEF JobFits, Same, Rest
    <3> QED BY <1>2, <2>5, <3>1, <3>3 DEF GoesOnAs, Answers
  <2> QED BY <2>2, <2>4, <2>5
<1>4. CASE CreatePeriod(i)
  <2>1. r.kind \in {"load", "pay", "complete"}
    BY <1>2, <1>4 DEF CreatePeriod, JobFits
  <2>2. \/ r.kind # "load" /\ Ends(i)
        \/ request' = [request EXCEPT ![i] = [r EXCEPT !.stage = "insert"]]
        \/ request' = [request EXCEPT ![i] = [r EXCEPT !.stage = "again"]]
        \/ r.kind = "load" /\ request' = [request EXCEPT ![i] = Reply(r, TRUE)]
    BY <1>4, <2>1 DEF CreatePeriod, AfterPeriod, Ends
  <2> QED BY <1>1, <1>2, <2>1, <2>2, EndGoesOn, StageGoesOn, ReplyGoesOn DEF Answers, Stages
<1> QED BY <1>3, <1>4

(* A row as it is inserted.                                                   *)
LEMMA RowTyped ==
  ASSUME XInv, NEW m \in Merchants, NEW p \in Plans, NEW s \in LiveStatuses,
         NEW by \in {"self", "admin"}, NEW x \in {0, 1}, NEW t, t = Row(m, p, s, by, x)
  PROVE  /\ t \in Subs /\ t.merchant = m /\ t.plan = p /\ t.status = s /\ t.by = by
         /\ t.price = plan[p].price /\ t.first = x /\ t.invoice = "none"
         /\ t.late = (state[m] # "live")
<1>1. plan[p].price \in {0, 1}
  BY DEF XInv, ServerTyped, PlanRows
<1> QED BY <1>1 DEF Row, Subs

LEMMA RowsChange ==
  ASSUME RowsInv, subs' = [n \in DOMAIN subs |-> subs'[n]],
         \A n \in DOMAIN subs : subs'[n] \in Subs /\ Lasts(subs[n], subs'[n])
  PROVE  SubsMove /\ RowsLast
BY RewrittenRows DEF SubsMove, RowsInv, RowsLast

LEMMA InvoiceRows ==
  ASSUME RowsInv, NEW n \in DOMAIN subs, NEW x \in {"open", "paid"},
         \/ subs' = [subs EXCEPT ![n].invoice = x, ![n].metadata = StoredMetadata(n)]
         \/ subs' = [subs EXCEPT ![n].invoice = x]
  PROVE  /\ SubsMove /\ RowsLast
         /\ \A k \in DOMAIN subs : subs'[k].status = subs[k].status /\ subs'[k].renew = subs[k].renew
         /\ subs'[n].invoice = x
         /\ \A k \in DOMAIN subs \ {n} : subs'[k] = subs[k]
<1>1. \A k \in DOMAIN subs : subs[k] \in Subs
  BY RowsAreNumbered DEF RowsInv
<1>2. DOMAIN subs' = DOMAIN subs /\ subs' = [k \in DOMAIN subs |-> subs'[k]]
      /\ \A k \in DOMAIN subs \ {n} : subs'[k] = subs[k]
  OBVIOUS
<1>3. \/ subs'[n] = [subs[n] EXCEPT !.invoice = x, !.metadata = 0]
      \/ subs'[n] = [subs[n] EXCEPT !.invoice = x]
  BY DEF StoredMetadata
<1>4. /\ subs'[n] \in Subs /\ Lasts(subs[n], subs'[n]) /\ subs'[n].invoice = x
      /\ subs'[n].status = subs[n].status /\ subs'[n].renew = subs[n].renew
  <2>1. subs[n] \in Subs
    BY <1>1
  <2>2. CASE subs'[n] = [subs[n] EXCEPT !.invoice = x, !.metadata = 0]
    BY <2>1, <2>2 DEF Subs, Lasts
  <2>3. CASE subs'[n] = [subs[n] EXCEPT !.invoice = x]
    BY <2>1, <2>3 DEF Subs, Lasts
  <2> QED BY <1>3, <2>2, <2>3
<1>5. \A k \in DOMAIN subs : subs'[k] \in Subs /\ Lasts(subs[k], subs'[k])
  BY <1>1, <1>2, <1>4 DEF Lasts
<1> QED BY <1>2, <1>4, <1>5, RowsChange

LEMMA CancelledRows ==
  ASSUME RowsInv, NEW m, NEW ss \in SUBSET LiveStatuses, subs' = Cancelled(m, ss)
  PROVE  /\ SubsMove /\ RowsLast
         /\ ss = LiveStatuses => Live(m)' = {}
         /\ \A k \in DOMAIN subs : subs'[k].invoice = subs[k].invoice
<1>1. \A k \in DOMAIN subs : subs[k] \in Subs
  BY RowsAreNumbered DEF RowsInv
<1>2. DOMAIN subs' = DOMAIN subs /\ subs' = [k \in DOMAIN subs |-> subs'[k]]
      /\ \A k \in DOMAIN subs :
           subs'[k] = IF k \in Live(m) /\ subs[k].status \in ss
                      THEN [subs[k] EXCEPT !.status = "cancelled"] ELSE subs[k]
  BY DEF Cancelled
<1>3. ASSUME NEW k \in DOMAIN subs
      PROVE  /\ subs'[k] \in Subs /\ Lasts(subs[k], subs'[k])
             /\ subs'[k].invoice = subs[k].invoice
             /\ k \in Live(m) /\ subs[k].status \in ss => subs'[k].status = "cancelled"
  <2>1. subs[k] \in Subs
    BY <1>1
  <2>2. subs'[k] = [subs[k] EXCEPT !.status = "cancelled"] \/ subs'[k] = subs[k]
    BY <1>2
  <2>3. k \in Live(m) /\ subs[k].status \in ss => subs'[k] = [subs[k] EXCEPT !.status = "cancelled"]
    BY <1>2
  <2> QED BY <2>1, <2>2, <2>3 DEF Subs, Lasts
<1>4. SubsMove /\ RowsLast
  BY <1>2, <1>3, RowsChange
<1>5. ASSUME ss = LiveStatuses, NEW k \in Live(m)'
      PROVE  FALSE
  <2>1. k \in Live(m)
    BY <1>4, <1>5, RowsLastLive
  <2>2. subs'[k].status = "cancelled"
    BY <1>3, <1>5, <2>1, LiveIsRow
  <2> QED BY <1>5, <2>2 DEF Live, LiveStatuses
<1> QED BY <1>3, <1>4, <1>5

LEMMA RenewalRows ==
  ASSUME RowsInv, NEW m,
         subs' = [n \in DOMAIN subs |-> IF n \in Live(m)
                                        THEN [subs[n] EXCEPT !.renew = FALSE] ELSE subs[n]]
  PROVE  /\ SubsMove /\ RowsLast
         /\ \A k \in DOMAIN subs : subs'[k].status = subs[k].status /\ subs'[k].invoice = subs[k].invoice
<1>1. \A k \in DOMAIN subs : subs[k] \in Subs
  BY RowsAreNumbered DEF RowsInv
<1>2. DOMAIN subs' = DOMAIN subs /\ subs' = [k \in DOMAIN subs |-> subs'[k]]
      /\ \A k \in DOMAIN subs : subs'[k] = [subs[k] EXCEPT !.renew = FALSE] \/ subs'[k] = subs[k]
  OBVIOUS
<1>3. ASSUME NEW k \in DOMAIN subs
      PROVE  /\ subs'[k] \in Subs /\ Lasts(subs[k], subs'[k])
             /\ subs'[k].invoice = subs[k].invoice /\ subs'[k].status = subs[k].status
  <2>1. subs[k] \in Subs
    BY <1>1
  <2>2. CASE subs'[k] = [subs[k] EXCEPT !.renew = FALSE]
    BY <2>1, <2>2 DEF Subs, Lasts
  <2>3. CASE subs'[k] = subs[k]
    BY <2>1, <2>3 DEF Lasts
  <2> QED BY <1>2, <2>2, <2>3
<1> QED BY <1>2, <1>3, RowsChange

LEMMA SubsMoveLonger ==
  ASSUME RowsInv, SubsMove
  PROVE  RowsInv' /\ Len(subs) \in Nat /\ Len(subs') \in Nat /\ Len(subs') >= Len(subs)
<1>1. RowsInv' /\ Len(subs') >= Len(subs)
  BY RowsStay DEF SubsMove
<1>2. Len(subs) \in Nat /\ Len(subs') \in Nat
  BY <1>1, LenProperties DEF RowsInv
<1> QED BY <1>1, <1>2

LEMMA UpgradeServed ==
  ASSUME XInv, NEW i \in Slots, UpgradeReadsPlan(i) \/ CreateSubscription(i) \/ CreateInvoice(i)
  PROVE  Answers(i)
<1> DEFINE r == request[i]
<1> USE DEF GoesOn
<1>1. AtServer(i) /\ RequestsFit /\ RowsInv /\ plan \in [Plans -> PlanRows] /\ r.kind = "upgrade"
  BY DEF UpgradeReadsPlan, CreateSubscription, CreateInvoice, At, XInv, ServerTyped
<1>2. JobFits(r, Len(subs)) /\ r \in Jobs /\ r.plan \in Plans /\ r.merchant \in Merchants
  BY <1>1, AtKind DEF JobFits, OfMerchant
<1>3. plan[r.plan].price \in {0, 1} /\ r.first \in {0, 1}
  BY <1>1, <1>2 DEF PlanRows, Jobs
<1>4. ASSUME SubsMove, NEW ok \in BOOLEAN, request' = [request EXCEPT ![i] = Reply(r, ok)]
      PROVE  Answers(i)
  BY <1>1, <1>4, SubsMoveLonger, ReplyGoesOn DEF Answers
<1>5. CASE UpgradeReadsPlan(i)
  <2>1. SubsMove /\ Len(subs') = Len(subs) /\ Len(subs) \in Nat
    BY <1>1, <1>5, UnchangedRows DEF UpgradeReadsPlan
  <2>2. CASE request' = [request EXCEPT ![i] = Reply(r, FALSE)]
    BY <1>4, <2>1, <2>2
  <2>3. CASE request' = [request EXCEPT ![i] =
                          [r EXCEPT !.stage = "insert", !.first = plan[r.plan].price]]
    <3>1. PICK q : q = [r EXCEPT !.stage = "insert", !.first = plan[r.plan].price]
      OBVIOUS
    <3>2. q \in Jobs /\ Same(q, r) /\ q.stage = "insert" /\ q.row = r.row /\ q.plan = r.plan
          /\ q.at = r.at
      BY <1>2, <1>3, <3>1 DEF Jobs, Same, Stages
    <3>3. JobFits(q, Len(subs'))
      BY <1>1, <1>2, <2>1, <3>2 DEF JobFits, Same
    <3> QED BY <2>1, <2>3, <3>1, <3>2, <3>3 DEF GoesOnAs, Answers
  <2> QED BY <1>5, <2>2, <2>3 DEF UpgradeReadsPlan
<1>6. CASE CreateSubscription(i)
  <2> DEFINE t == Row(r.merchant, r.plan, StatusFor(plan[r.plan].price), "self", r.first)
  <2>1. CASE UNCHANGED subs /\ request' = [request EXCEPT ![i] = Reply(r, FALSE)]
    BY <1>1, <1>4, <2>1, UnchangedRows
  <2>2. CASE /\ Live(r.merchant) = {} /\ subs' = Append(subs, t)
             /\ \/ request' = [request EXCEPT ![i] = Reply(r, TRUE)]
                \/ /\ r.first # 0
                   /\ request' = [request EXCEPT ![i] = [r EXCEPT !.stage = "invoice", !.row = Len(subs) + 1]]
    <3>1. t \in Subs /\ t.merchant = r.merchant
      BY <1>2, <1>3, RowTyped DEF StatusFor, LiveStatuses
    <3>2. SubsMove /\ Len(subs') = Len(subs) + 1 /\ Len(subs) \in Nat
      BY <1>1, <2>2, <3>1, RowAddedLive, SubsMoveLonger DEF RowAdded, SubsMove, RowsInv
    <3>3. CASE request' = [request EXCEPT ![i] = Reply(r, TRUE)]
      BY <1>4, <3>2, <3>3
    <3>4. CASE /\ r.first # 0
               /\ request' = [request EXCEPT ![i] = [r EXCEPT !.stage = "invoice", !.row = Len(subs) + 1]]
      <4>0. PICK n \in Nat : n = Len(subs) + 1
        BY <3>2
      <4>1. PICK q : q = [r EXCEPT !.stage = "invoice", !.row = n]
        OBVIOUS
      <4>2. q \in Jobs /\ Same(q, r) /\ q.stage = "invoice" /\ q.row = n
            /\ q.plan = r.plan /\ q.first = r.first /\ q.at = r.at
        BY <1>2, <4>1 DEF Jobs, Same, Stages
      <4>3. JobFits(q, Len(subs'))
        BY <1>1, <1>2, <3>2, <3>4, <4>0, <4>2 DEF JobFits, Same
      <4> QED BY <3>2, <3>4, <4>0, <4>1, <4>2, <4>3 DEF GoesOnAs, Answers
    <3> QED BY <2>2, <3>3, <3>4
  <2> QED BY <1>6, <2>1, <2>2 DEF CreateSubscription, NeedsInvoice
<1>7. CASE CreateInvoice(i)
  <2>1. r.row \in DOMAIN subs
    BY <1>1, <1>2, <1>7, RowsAreNumbered DEF CreateInvoice, At, JobFits, Jobs, RowsInv
  <2>2. SubsMove
    BY <1>1, <1>7, <2>1, InvoiceRows DEF CreateInvoice
  <2> QED BY <1>4, <1>7, <2>2 DEF CreateInvoice
<1> QED BY <1>5, <1>6, <1>7

LEMMA AdminServed ==
  ASSUME XInv, NEW i \in Slots,
         \/ CancelSubscription(i) \/ AssignMerchantPlan(i) \/ AdminDeleteMerchant(i)
         \/ AdminDeleteUser(i) \/ UpdatePlan(i) \/ ListAllPlans(i)
  PROVE  Answers(i)
<1> DEFINE r == request[i]
<1> USE DEF GoesOn
<1>1. /\ AtServer(i) /\ RequestsFit /\ RowsInv /\ plan \in [Plans -> PlanRows]
      /\ r.kind \in {"cancel", "assign", "delete", "user", "save", "plans"}
  BY DEF CancelSubscription, AssignMerchantPlan, AdminDeleteMerchant, AdminDeleteUser,
     UpdatePlan, ListAllPlans, At, XInv, ServerTyped
<1>2. JobFits(r, Len(subs)) /\ r \in Jobs
  BY <1>1, AtKind
<1>3. UNCHANGED subs => SubsMove
  BY <1>1, UnchangedRows
<1>4. ASSUME SubsMove, NEW ok \in BOOLEAN, request' = [request EXCEPT ![i] = Reply(r, ok)]
      PROVE  Answers(i)
  BY <1>1, <1>4, SubsMoveLonger, ReplyGoesOn DEF Answers
<1>5. ASSUME SubsMove, NEW s \in {"insert", "mark", "remove"},
             request' = [request EXCEPT ![i] = [r EXCEPT !.stage = s]]
      PROVE  Answers(i)
  BY <1>1, <1>5, SubsMoveLonger, StageGoesOn DEF Answers, Stages
<1>6. ASSUME NEW m, subs' = Cancelled(m, LiveStatuses)
      PROVE  SubsMove
  BY <1>1, <1>6, CancelledRows
<1>7. CASE CancelSubscription(i)
  BY <1>1, <1>4, <1>7, RenewalRows DEF CancelSubscription
<1>8. CASE AssignMerchantPlan(i)
  <2>1. CASE subs' = Cancelled(r.merchant, LiveStatuses)
             /\ request' = [request EXCEPT ![i] = [r EXCEPT !.stage = "insert"]]
    BY <1>5, <1>6, <2>1
  <2>2. CASE subs' # Cancelled(r.merchant, LiveStatuses)
             \/ request' # [request EXCEPT ![i] = [r EXCEPT !.stage = "insert"]]
    <3> DEFINE t == Row(r.merchant, r.plan, "active", "admin", 0)
    <3>1. /\ subs' = IF Live(r.merchant) = {} THEN Append(subs, t) ELSE subs
          /\ request' = [request EXCEPT ![i] = Reply(r, Live(r.merchant) = {})]
          /\ r.kind = "assign"
      BY <1>8, <2>2 DEF AssignMerchantPlan, At
    <3>2. r.merchant \in Merchants /\ r.plan \in Plans
      BY <1>2, <3>1 DEF JobFits, OfMerchant
    <3>3. t \in Subs /\ t.merchant = r.merchant
      BY <3>2, RowTyped DEF LiveStatuses
    <3>4. SubsMove
      BY <1>3, <3>1, <3>3 DEF SubsMove, RowAdded
    <3> QED BY <1>4, <3>1, <3>4
  <2> QED BY <2>1, <2>2
<1>9. CASE AdminDeleteMerchant(i)
  BY <1>3, <1>4, <1>5, <1>6, <1>9 DEF AdminDeleteMerchant, adminCleanMerchantData
<1>10. CASE AdminDeleteUser(i)
  <2>1. ASSUME NEW m \in r.left, adminCleanMerchantData(m),
               request' = [request EXCEPT ![i] = [r EXCEPT !.left = @ \ {m},
                                   !.stage = IF r.left = {m} THEN "mark" ELSE @]],
               r.stage = "clean", r.kind = "user"
        PROVE  Answers(i)
    <3>1. SubsMove
      BY <1>6, <2>1 DEF adminCleanMerchantData
    <3>2. PICK q : q = [r EXCEPT !.left = @ \ {m}, !.stage = IF r.left = {m} THEN "mark" ELSE @]
      OBVIOUS
    <3>3. q \in Jobs /\ Same(q, r) /\ q.stage \in {"mark", "clean"} /\ q.row = r.row
          /\ q.plan = r.plan /\ q.at = r.at
      BY <1>2, <2>1, <3>2 DEF Jobs, Same, Stages
    <3>4. JobFits(q, Len(subs'))
      <4>1. JobFits(r, Len(subs'))
        BY <1>1, <1>2, <3>1, SubsMoveLonger, FitsLonger
      <4> QED BY <2>1, <3>3, <4>1 DEF JobFits, Same
    <3> QED BY <2>1, <3>1, <3>2, <3>3, <3>4 DEF GoesOnAs, Answers
  <2>2. ASSUME r.kind = "user", UNCHANGED subs,
               request' = [request EXCEPT ![i] = [r EXCEPT !.stage = "clean", !.left = Merchants]]
        PROVE  Answers(i)
    <3>1. SubsMove /\ Len(subs') = Len(subs)
      BY <1>1, <2>2, UnchangedRows
    <3>2. PICK q : q = [r EXCEPT !.stage = "clean", !.left = Merchants]
      OBVIOUS
    <3>3. q \in Jobs /\ Same(q, r) /\ q.stage = "clean" /\ q.row = r.row
          /\ q.plan = r.plan /\ q.at = r.at
      BY <1>2, <3>2 DEF Jobs, Same, Stages
    <3>4. JobFits(q, Len(subs'))
      BY <1>2, <2>2, <3>1, <3>3 DEF JobFits, Same
    <3> QED BY <2>2, <3>1, <3>2, <3>3, <3>4 DEF GoesOnAs, Answers
  <2>3. CASE At(i, "user", "clean")
    BY <1>10, <2>1, <2>3 DEF AdminDeleteUser, At
  <2>4. CASE ~At(i, "user", "clean")
    <3>1. UNCHANGED subs /\ r.kind = "user"
      BY <1>10, <2>4 DEF AdminDeleteUser, removal, At
    <3>2. \/ request' = [request EXCEPT ![i] = Reply(r, TRUE)]
          \/ request' = [request EXCEPT ![i] = Reply(r, FALSE)]
          \/ request' = [request EXCEPT ![i] = [r EXCEPT !.stage = "remove"]]
          \/ request' = [request EXCEPT ![i] = [r EXCEPT !.stage = "clean", !.left = Merchants]]
      BY <1>10, <2>4 DEF AdminDeleteUser
    <3> QED BY <1>3, <1>4, <1>5, <2>2, <3>1, <3>2
  <2> QED BY <2>3, <2>4
<1>11. CASE UpdatePlan(i)
  BY <1>3, <1>4, <1>11 DEF UpdatePlan
<1>12. CASE ListAllPlans(i)
  <2>1. PICK x, q : x = [r EXCEPT !.rows = plan] /\ q = Reply(x, TRUE)
    OBVIOUS
  <2>2. x \in Jobs /\ Same(x, r) /\ x.stage = r.stage /\ x.row = r.row /\ x.plan = r.plan
    BY <1>1, <1>2, <2>1 DEF Jobs, Same
  <2>3. q \in Jobs /\ Same(q, x) /\ Rest(q, x) /\ q.stage = x.stage
    BY <2>1, <2>2, ReplyOfJob
  <2>4. request' = [request EXCEPT ![i] = q] /\ UNCHANGED subs
    BY <1>12, <2>1 DEF ListAllPlans
  <2>5. SubsMove /\ Len(subs') = Len(subs)
    BY <1>1, <2>4, UnchangedRows
  <2>6. JobFits(q, Len(subs')) /\ Same(q, r)
    BY <1>1, <1>2, <2>2, <2>3, <2>5 DEF JobFits, Same, Rest
  <2> QED BY <2>4, <2>5, <2>6 DEF GoesOnAs, Answers
<1> QED BY <1>7, <1>8, <1>9, <1>10, <1>11, <1>12

LEMMA FailServed ==
  ASSUME XInv, NEW i \in Slots, Fails(i)
  PROVE  Answers(i)
<1> DEFINE r == request[i]
<1>1. AtServer(i) /\ UNCHANGED subs /\ RequestsFit /\ RowsInv
  BY DEF Fails, XInv, ServerTyped
<1>2. SubsMove /\ Len(subs) \in Nat /\ Len(subs') \in Nat /\ Len(subs') >= Len(subs)
  BY <1>1, UnchangedRows, SubsMoveLonger
<1>3. \/ r.kind \in {"pay", "complete"} /\ Ends(i)
      \/ r.kind = "pay" /\ request' = [request EXCEPT ![i] = [r EXCEPT !.stage = "insert"]]
      \/ r.kind \notin {"pay", "complete"} /\ request' = [request EXCEPT ![i] = Reply(r, FALSE)]
  BY DEF Fails, GoesOn, Ends
<1>4. CASE r.kind \in {"pay", "complete"} /\ Ends(i)
  BY <1>2, <1>4, EndGoesOn DEF Answers
<1>5. CASE r.kind = "pay" /\ request' = [request EXCEPT ![i] = [r EXCEPT !.stage = "insert"]]
  BY <1>1, <1>2, <1>5, StageGoesOn DEF Answers, Stages
<1>6. CASE r.kind \notin {"pay", "complete"} /\ request' = [request EXCEPT ![i] = Reply(r, FALSE)]
  BY <1>1, <1>2, <1>6, ReplyGoesOn DEF Answers
<1> QED BY <1>3, <1>4, <1>5, <1>6

LEMMA ServedAnswers ==
  ASSUME XInv, NEW i \in Slots, Serves(i) \/ Fails(i)
  PROVE  AtServer(i) /\ Answers(i)
<1>1. AtServer(i)
  <2>1. CASE \/ Fails(i) \/ CreatePeriod(i) \/ IncrementPaymentUsage(i)
    BY <2>1 DEF Fails, CreatePeriod, IncrementPaymentUsage
  <2>2. CASE \/ GetCurrentSubscription(i) \/ CheckPaymentLimit(i) \/ CreatePayment(i)
             \/ UpgradeReadsPlan(i) \/ CreateSubscription(i) \/ CreateInvoice(i)
             \/ CancelSubscription(i) \/ UpdatePlan(i) \/ ListAllPlans(i)
    BY <2>2 DEF GetCurrentSubscription, CheckPaymentLimit, CreatePayment, UpgradeReadsPlan,
       CreateSubscription, CreateInvoice, CancelSubscription, UpdatePlan, ListAllPlans, At
  <2>3. CASE AssignMerchantPlan(i) \/ AdminDeleteMerchant(i) \/ AdminDeleteUser(i)
    BY <2>3 DEF AssignMerchantPlan, AdminDeleteMerchant, AdminDeleteUser, At
  <2> QED BY <2>1, <2>2, <2>3 DEF Serves
<1>2. Answers(i)
  BY PayServed, UsageServed, UpgradeServed, AdminServed, FailServed DEF Serves
<1> QED BY <1>1, <1>2

LEMMA AnswersFit ==
  ASSUME XInv, NEW i \in Slots, Answers(i)
  PROVE  RequestsFit' /\ RowsInv'
<1>1. PICK q : GoesOnAs(i, q)
  BY DEF Answers
<1>2. RowsInv' /\ Len(subs) \in Nat /\ Len(subs') \in Nat /\ Len(subs') >= Len(subs)
  BY SubsMoveLonger DEF Answers, XInv, ServerTyped
<1>3. request' = [request EXCEPT ![i] = q] /\ (q = Free \/ JobFits(q, Len(subs')))
  BY <1>1 DEF GoesOnAs
<1>4. request = [j \in Slots |-> request[j]] /\ \A j \in Slots : Fits(request[j])
  BY DEF XInv, RequestsFit
<1>5. ASSUME NEW j \in Slots
      PROVE  request'[j] = Free \/ JobFits(request'[j], Len(subs'))
  BY <1>2, <1>3, <1>4, FitsLonger DEF Fits
<1>6. request' = [j \in Slots |-> request'[j]]
  BY <1>3, <1>4
<1> QED BY <1>2, <1>5, <1>6 DEF RequestsFit, Fits

LEMMA PlanSaved ==
  ASSUME XInv, NEW i \in Slots, UpdatePlan(i)
  PROVE  plan' \in [Plans -> PlanRows]
<1>1. request[i] \in Jobs /\ request[i].plan \in Plans
  BY AtKind DEF UpdatePlan, At, XInv, JobFits
<1> QED BY <1>1 DEF UpdatePlan, XInv, ServerTyped, Jobs

LEMMA UsageTyped ==
  ASSUME XInv, NEW i \in Slots, CreatePeriod(i) \/ IncrementPaymentUsage(i) \/ CreatePayment(i)
  PROVE  usage' \in [Merchants -> Nat \cup {NoRow}] /\ raced' \in BOOLEAN /\ open' \in [Merchants -> Nat]
<1>0. usage \in [Merchants -> Nat \cup {NoRow}] /\ raced \in BOOLEAN /\ open \in [Merchants -> Nat]
  BY DEF XInv, ServerTyped
<1>1. CASE CreatePeriod(i)
  BY <1>0, <1>1 DEF CreatePeriod, createUsagePeriod, payments
<1>2. CASE IncrementPaymentUsage(i)
  <2>1. request[i].merchant \in Merchants
    BY <1>2, AtKind DEF IncrementPaymentUsage, XInv, JobFits, OfMerchant
  <2>2. usage[request[i].merchant] # NoRow => usage[request[i].merchant] + 1 \in Nat
    BY <1>0, <2>1
  <2>3. \/ usage' = usage
        \/ /\ usage[request[i].merchant] # NoRow
           /\ usage' = [usage EXCEPT ![request[i].merchant] = usage[request[i].merchant] + 1]
    BY <1>2 DEF IncrementPaymentUsage
  <2>4. usage' \in [Merchants -> Nat \cup {NoRow}]
    BY <1>0, <2>2, <2>3
  <2> QED BY <1>0, <1>2, <2>4 DEF IncrementPaymentUsage, payments
<1>3. CASE CreatePayment(i)
  <2>1. request[i].merchant \in Merchants
    BY <1>3, AtKind DEF CreatePayment, At, XInv, JobFits, OfMerchant
  <2> QED BY <1>0, <1>3, <2>1 DEF CreatePayment, counts
<1> QED BY <1>1, <1>2, <1>3

LEMMA StateTyped ==
  ASSUME XInv, NEW i \in Slots, AdminDeleteMerchant(i) \/ AdminDeleteUser(i)
  PROVE  state' \in [Merchants -> {"live", "cleaned", "gone"}] /\ owner' \in BOOLEAN
<1>0. state \in [Merchants -> {"live", "cleaned", "gone"}] /\ owner \in BOOLEAN
  BY DEF XInv, ServerTyped
<1>1. CASE AdminDeleteMerchant(i)
  BY <1>0, <1>1 DEF AdminDeleteMerchant
<1>2. CASE AdminDeleteUser(i)
  BY <1>0, <1>2 DEF AdminDeleteUser, removal
<1> QED BY <1>1, <1>2

LEMMA ServesTyped ==
  ASSUME XInv, NEW i \in Slots, Serves(i) \/ Fails(i)
  PROVE  XInv'
<1>1. RequestsFit' /\ RowsInv'
  <2>1. Answers(i)
    BY ServedAnswers
  <2> QED BY <2>1, AnswersFit
<1>2. /\ UNCHANGED <<merchantId, loading, shown, upgrading, adminRows, wanted, asked, adminActs, hasty,
                     done>>
      /\ UNCHANGED faults \/ (hasty + faults < MaxTrouble /\ faults' = faults + 1)
  BY DEF Serves, Fails, GetCurrentSubscription, CheckPaymentLimit, CreatePayment, CreatePeriod,
     IncrementPaymentUsage, UpgradeReadsPlan, CreateSubscription, CreateInvoice,
     CancelSubscription, AssignMerchantPlan, AdminDeleteMerchant, AdminDeleteUser,
     UpdatePlan, ListAllPlans, Stays, page, acts, payments
<1>3. ActsBounded' /\ PagesTyped'
  BY <1>2, SubscriptionsAssumption DEF XInv, ActsBounded, PagesTyped
<1>4. plan' \in [Plans -> PlanRows]
  <2>1. CASE UpdatePlan(i)
    BY <2>1, PlanSaved
  <2>2. CASE ~UpdatePlan(i)
    <3>1. UNCHANGED plan
      BY <2>2 DEF Serves, Fails, GetCurrentSubscription, CheckPaymentLimit, CreatePayment,
         CreatePeriod, IncrementPaymentUsage, UpgradeReadsPlan, CreateSubscription, CreateInvoice,
         CancelSubscription, AssignMerchantPlan, AdminDeleteMerchant, AdminDeleteUser, ListAllPlans
    <3> QED BY <3>1 DEF XInv, ServerTyped
  <2> QED BY <2>1, <2>2
<1>5. usage' \in [Merchants -> Nat \cup {NoRow}] /\ raced' \in BOOLEAN /\ open' \in [Merchants -> Nat]
  <2>1. CASE ~(CreatePeriod(i) \/ IncrementPaymentUsage(i) \/ CreatePayment(i))
    <3>1. UNCHANGED <<usage, raced, open>>
      BY <2>1 DEF Serves, Fails, GetCurrentSubscription, CheckPaymentLimit, counts, payments,
         UpgradeReadsPlan, CreateSubscription, CreateInvoice,
         CancelSubscription, AssignMerchantPlan, AdminDeleteMerchant, AdminDeleteUser,
         UpdatePlan, ListAllPlans
    <3> QED BY <3>1 DEF XInv, ServerTyped
  <2> QED BY <2>1, UsageTyped
<1>6. state' \in [Merchants -> {"live", "cleaned", "gone"}] /\ owner' \in BOOLEAN
  <2>1. CASE ~(AdminDeleteMerchant(i) \/ AdminDeleteUser(i))
    <3>1. UNCHANGED <<state, owner>>
      BY <2>1 DEF Serves, Fails, GetCurrentSubscription, CheckPaymentLimit, CreatePayment,
         CreatePeriod, IncrementPaymentUsage, UpgradeReadsPlan, CreateSubscription, CreateInvoice,
         CancelSubscription, AssignMerchantPlan, UpdatePlan, ListAllPlans, removal
    <3> QED BY <3>1 DEF XInv, ServerTyped
  <2> QED BY <2>1, StateTyped
<1> QED BY <1>1, <1>2, <1>3, <1>4, <1>5, <1>6 DEF XInv, ServerTyped

(* The pages: a request is sent, an answer taken, or all that are out are     *)
(* left behind.                                                               *)
LEMMA SentFits ==
  ASSUME NEW m \in Merchants, NEW p \in Plans, NEW n \in Nat
  PROVE  /\ JobFits(loadData(m), n)
         /\ JobFits(Job("pay", "check", m, None), n)
         /\ JobFits(Job("complete", "update", m, None), n)
         /\ JobFits(Job("upgrade", "plan", m, p), n)
         /\ JobFits(Job("cancel", "cancel", m, None), n)
         /\ JobFits(Job("assign", "cancel", m, p), n)
         /\ JobFits(Job("delete", "clean", m, None), n)
         /\ JobFits(Job("user", "check", None, None), n)
         /\ JobFits(Job("plans", "list", None, None), n)
         /\ JobFits(Job("save", "save", None, p), n)
<1> USE DEF JobFits, Jobs, Kinds, Stages, Views, PlanRows, OfMerchant, Job, Nothing, Unread
<1>1. JobFits(loadData(m), n) /\ JobFits(Job("pay", "check", m, None), n)
  BY DEF loadData
<1>2. JobFits(Job("complete", "update", m, None), n) /\ JobFits(Job("upgrade", "plan", m, p), n)
  OBVIOUS
<1>3. JobFits(Job("cancel", "cancel", m, None), n) /\ JobFits(Job("assign", "cancel", m, p), n)
  OBVIOUS
<1>4. JobFits(Job("delete", "clean", m, None), n) /\ JobFits(Job("user", "check", None, None), n)
  OBVIOUS
<1>5. JobFits(Job("plans", "list", None, None), n) /\ JobFits(Job("save", "save", None, p), n)
  OBVIOUS
<1> HIDE DEF JobFits, Jobs, Kinds, Stages, Views, PlanRows, OfMerchant, Job, Nothing, Unread
<1> QED BY <1>1, <1>2, <1>3, <1>4, <1>5

LEMMA SaveFits ==
  ASSUME NEW j, NEW n \in Nat, JobFits(j, n), NEW p \in Plans, NEW row \in PlanRows,
         NEW q, q = [j EXCEPT !.rows[p] = row]
  PROVE  /\ JobFits(q, n) /\ q.kind = j.kind /\ q.stage = j.stage /\ q.plan = j.plan
         /\ q.at = j.at /\ q.ok = j.ok /\ q.here = j.here /\ q.rows[p] = row
<1>1. /\ q \in Jobs /\ Same(q, j) /\ q.stage = j.stage /\ q.plan = j.plan /\ q.row = j.row
      /\ q.at = j.at /\ q.ok = j.ok /\ q.rows[p] = row /\ q.first = j.first
  BY DEF JobFits, Jobs, Same
<1> QED BY <1>1 DEF JobFits, Same

LEMMA LoadFits ==
  ASSUME NEW m \in Merchants, NEW n \in Nat
  PROVE  JobFits(loadData(m), n)
BY DEF JobFits, Jobs, Kinds, Stages, Views, PlanRows, OfMerchant, Job, Nothing, Unread, loadData

LEMMA SlotChanges ==
  ASSUME XInv, UNCHANGED subs, NEW i \in Slots, NEW q, q = Free \/ JobFits(q, Len(subs)),
         request' = [request EXCEPT ![i] = q]
  PROVE  RequestsFit' /\ RowsInv'
<1>1. request = [j \in Slots |-> request[j]] /\ \A j \in Slots : Fits(request[j])
  BY DEF XInv, RequestsFit
<1>2. ASSUME NEW j \in Slots
      PROVE  request'[j] = Free \/ JobFits(request'[j], Len(subs'))
  BY <1>1 DEF Fits
<1>3. request' = [j \in Slots |-> request'[j]]
  BY <1>1
<1>4. RowsInv'
  BY UnchangedRows, SubsMoveLonger DEF XInv, ServerTyped
<1> QED BY <1>2, <1>3, <1>4 DEF RequestsFit, Fits

LEMMA StartsFit ==
  ASSUME XInv, UNCHANGED subs, NEW i \in Slots, NEW m \in Merchants, StartsAnew(i, m)
  PROVE  RequestsFit' /\ RowsInv'
<1>1. request = [j \in Slots |-> request[j]] /\ \A j \in Slots : Fits(request[j])
  BY DEF XInv, RequestsFit
<1>2. RowsInv' /\ Len(subs) \in Nat
  BY UnchangedRows, SubsMoveLonger DEF XInv, ServerTyped
<1>3. ASSUME NEW j \in Slots
      PROVE  request'[j] = Free \/ JobFits(request'[j], Len(subs'))
  <2>1. CASE j = i
    BY <1>2, <2>1, LoadFits DEF StartsAnew
  <2>2. CASE j # i /\ ~OfPage(request[j])
    BY <1>1, <2>2 DEF StartsAnew, Fits
  <2>3. CASE j # i /\ OfPage(request[j])
    <3>1. JobFits(request[j], Len(subs)) /\ request[j] \in Jobs
      BY <1>1, <2>3 DEF Fits, OfPage, JobFits
    <3>2. PICK q : q = [request[j] EXCEPT !.here = FALSE]
      OBVIOUS
    <3>3. /\ q \in Jobs /\ Rest(q, request[j]) /\ q.stage = request[j].stage
          /\ q.at = request[j].at /\ q.kind = request[j].kind /\ q.merchant = request[j].merchant
      BY <3>1, <3>2, LeaveJob
    <3>4. JobFits(q, Len(subs'))
      BY <3>1, <3>3 DEF JobFits, Rest
    <3> QED BY <2>3, <3>2, <3>4 DEF StartsAnew
  <2> QED BY <2>1, <2>2, <2>3
<1>4. request' = [j \in Slots |-> request'[j]]
  BY DEF StartsAnew
<1> QED BY <1>2, <1>3, <1>4 DEF RequestsFit, Fits

(* The server's part of the state, when the pages or the payments act.        *)
Elsewhere == UNCHANGED <<plan, subs, usage, raced, state, owner, faults>>

LEMMA ElsewhereTyped ==
  ASSUME XInv, Elsewhere, RequestsFit', RowsInv', open' \in [Merchants -> Nat],
         done' \in [Merchants -> Nat], PagesTyped', ActsBounded'
  PROVE  XInv'
BY DEF XInv, ServerTyped, Elsewhere

LEMMA UserActsBounded ==
  ASSUME XInv, UserActs \/ UNCHANGED hasty, UNCHANGED faults,
         \/ UNCHANGED <<asked, adminActs>>
         \/ /\ asked + adminActs < MaxActs
            /\ \/ asked' = asked + 1 /\ UNCHANGED adminActs
               \/ adminActs' = adminActs + 1 /\ UNCHANGED asked
  PROVE  ActsBounded'
BY SubscriptionsAssumption DEF XInv, ActsBounded, UserActs

LEMMA SendChanges ==
  ASSUME XInv, UNCHANGED subs, NEW q, JobFits(q, Len(subs)), Send(q)
  PROVE  RequestsFit' /\ RowsInv'
BY SlotChanges DEF Send, FreeSlots

LEMMA RowCount ==
  ASSUME XInv
  PROVE  RowsInv /\ Len(subs) \in Nat /\ open \in [Merchants -> Nat] /\ done \in [Merchants -> Nat]
BY RowsAreNumbered DEF XInv, ServerTyped, RowsInv

LEMMA PaymentsTyped ==
  ASSUME XInv, NEW m \in Merchants, PaymentAsked(m) \/ PaymentSucceeds(m)
  PROVE  XInv'
<1>1. Elsewhere /\ PagesTyped'
  BY DEF PaymentAsked, PaymentSucceeds, Elsewhere, Stays, counts, removal, payments, page, acts,
     XInv, PagesTyped
<1>2. CASE PaymentAsked(m)
  <2>1. JobFits(Job("pay", "check", m, None), Len(subs))
    BY SentFits, RowCount, SubscriptionsAssumption
  <2>2. PICK j, b, q : /\ j = Job("pay", "check", m, None)
                       /\ b = (Quiet /\ Limited(m) /\ usage[m] >= Limits[PlanOf(m)])
                       /\ q = [j EXCEPT !.full = b, !.acts = adminActs]
                       /\ Send(q)
    BY <1>2 DEF PaymentAsked
  <2>3. b \in BOOLEAN /\ adminActs \in Nat /\ JobFits(j, Len(subs)) /\ Len(subs) \in Nat
    BY <2>1, <2>2, RowCount DEF XInv, ActsBounded
  <2>4. JobFits(q, Len(subs))
    <3>1. q \in Jobs /\ Rest(q, j) /\ q.kind = j.kind /\ q.merchant = j.merchant
          /\ q.stage = j.stage /\ q.at = j.at
      BY <2>2, <2>3 DEF JobFits, Jobs, Rest
    <3> QED BY <2>3, <3>1 DEF JobFits, Rest
  <2>5. RequestsFit' /\ RowsInv'
    BY <1>1, <2>2, <2>4, SendChanges DEF Elsewhere
  <2>6. ActsBounded'
    BY <1>2, UserActsBounded DEF PaymentAsked, Stays, acts
  <2>7. open' \in [Merchants -> Nat] /\ done' \in [Merchants -> Nat]
    BY <1>2, RowCount DEF PaymentAsked
  <2> QED BY <1>1, <2>5, <2>6, <2>7, ElsewhereTyped
<1>3. CASE PaymentSucceeds(m)
  <2>1. JobFits(Job("complete", "update", m, None), Len(subs))
    BY SentFits, RowCount, SubscriptionsAssumption
  <2>2. RequestsFit' /\ RowsInv'
    BY <1>1, <1>3, <2>1, SendChanges DEF Elsewhere, PaymentSucceeds
  <2>3. ActsBounded'
    BY <1>3, UserActsBounded DEF PaymentSucceeds, Stays, acts
  <2>4. open' \in [Merchants -> Nat] /\ done' \in [Merchants -> Nat]
    BY <1>3, RowCount DEF PaymentSucceeds
  <2> QED BY <1>1, <2>2, <2>3, <2>4, ElsewhereTyped
<1> QED BY <1>2, <1>3

LEMMA WebhookTyped ==
  ASSUME XInv, NEW n \in DOMAIN subs, HandlePaymentWebhook(n)
  PROVE  /\ XInv' /\ SubsMove /\ RowsLast
         /\ subs' = [subs EXCEPT ![n].invoice = "paid"]
<1>1. subs[n] \in Subs /\ subs[n].metadata = 0
  BY RowCount, RowsAreNumbered DEF RowsInv, Subs
<1>2. subs' = [subs EXCEPT ![n].invoice = "paid"]
  BY <1>1 DEF HandlePaymentWebhook
<1>3. SubsMove /\ RowsLast
  BY <1>2, InvoiceRows, RowCount
<1>4. RowsInv' /\ Len(subs) \in Nat /\ Len(subs') \in Nat /\ Len(subs') >= Len(subs)
  BY <1>3, SubsMoveLonger, RowCount
<1>5. RequestsFit'
  <2>1. /\ request = [j \in Slots |-> request[j]] /\ UNCHANGED request
        /\ \A j \in Slots : Fits(request[j])
    BY DEF XInv, RequestsFit, HandlePaymentWebhook
  <2>2. ASSUME NEW j \in Slots
        PROVE  request[j] = Free \/ JobFits(request[j], Len(subs'))
    BY <1>4, <2>1, FitsLonger DEF Fits
  <2>3. request' = [j \in Slots |-> request'[j]]
    BY <2>1
  <2>4. ASSUME NEW j \in Slots
        PROVE  Fits(request[j])'
    BY <2>1, <2>2 DEF Fits
  <2> QED BY <2>3, <2>4 DEF RequestsFit
<1>6. UNCHANGED <<plan, usage, raced, open, done, asked, state, owner, merchantId, loading, shown,
                  upgrading, adminRows, wanted, adminActs, hasty, faults>>
  BY DEF HandlePaymentWebhook, Stays, counts, payments, removal, page, acts
<1> QED BY <1>2, <1>3, <1>4, <1>5, <1>6 DEF XInv, ServerTyped, PagesTyped, ActsBounded

LEMMA AdministersTyped ==
  ASSUME XInv, NEW q, JobFits(q, Len(subs)), Administers(q), wanted' \in [Plans -> PlanRows]
  PROVE  XInv'
<1>1. Elsewhere /\ UNCHANGED <<open, done, asked>>
  BY DEF Administers, World, Elsewhere, counts, removal, payments
<1>2. RequestsFit' /\ RowsInv'
  BY <1>1, SendChanges DEF Administers, Elsewhere
<1>3. PagesTyped'
  BY DEF Administers, XInv, PagesTyped, page
<1>4. ActsBounded'
  BY <1>1, UserActsBounded DEF Administers, Elsewhere
<1>5. open' \in [Merchants -> Nat] /\ done' \in [Merchants -> Nat]
  BY <1>1, RowCount
<1> QED BY <1>1, <1>2, <1>3, <1>4, <1>5, ElsewhereTyped

LEMMA AdminTyped ==
  ASSUME XInv, \/ \E p \in Plans : handleSubmit(p)
               \/ \E m \in Merchants, p \in Plans : handleAssignPlan(m, p)
               \/ \E m \in Merchants : handleDeleteMerchant(m)
               \/ handleDeleteUser
  PROVE  XInv'
<1>0. Len(subs) \in Nat /\ wanted \in [Plans -> PlanRows] /\ adminRows \in [Plans -> PlanRows]
      /\ merchantId \in Merchants
  BY RowCount DEF XInv, PagesTyped
<1>1. ASSUME NEW p \in Plans, handleSubmit(p)
      PROVE  XInv'
  <2>1. PICK new \in Edits(openEdit(p)) :
          /\ wanted' = [wanted EXCEPT ![p] =
               IF new.price # openEdit(p).price THEN [@ EXCEPT !.price = new.price]
               ELSE [@ EXCEPT !.active = new.active]]
          /\ Administers([Job("save", "save", None, p) EXCEPT !.rows[p] = new])
    BY <1>1 DEF handleSubmit
  <2>2. new \in PlanRows
    <3>1. PICK row \in PlanRows : row = adminRows[p]
      BY <1>0
    <3>2. new = [row EXCEPT !.price = 1 - row.price] \/ new = [row EXCEPT !.active = ~row.active]
      BY <2>1, <3>1 DEF Edits, openEdit
    <3>3. row.price \in {0, 1} /\ row.active \in BOOLEAN /\ 1 - row.price \in {0, 1}
          /\ (~row.active) \in BOOLEAN
      BY <3>1 DEF PlanRows
    <3>4. CASE new = [row EXCEPT !.price = 1 - row.price]
      BY <3>1, <3>3, <3>4 DEF PlanRows
    <3>5. CASE new = [row EXCEPT !.active = ~row.active]
      BY <3>1, <3>3, <3>5 DEF PlanRows
    <3> QED BY <3>2, <3>4, <3>5
  <2>3. wanted' \in [Plans -> PlanRows]
    <3>1. wanted[p] \in PlanRows
      BY <1>0
    <3>2. [wanted[p] EXCEPT !.price = new.price] \in PlanRows
          /\ [wanted[p] EXCEPT !.active = new.active] \in PlanRows
      BY <2>2, <3>1 DEF PlanRows
    <3> QED BY <1>0, <2>1, <3>2
  <2>4. PICK j, q : j = Job("save", "save", None, p) /\ q = [j EXCEPT !.rows[p] = new] /\ Administers(q)
    BY <2>1
  <2>5. JobFits(j, Len(subs))
    BY <1>0, <2>4, SentFits
  <2>6. q \in Jobs /\ Same(q, j) /\ q.stage = j.stage /\ q.plan = j.plan /\ q.row = j.row /\ q.at = j.at
        /\ q.first = j.first
    BY <2>2, <2>4, <2>5 DEF JobFits, Jobs, Same
  <2>7. JobFits(q, Len(subs))
    BY <2>5, <2>6 DEF JobFits, Same
  <2> QED BY <2>3, <2>4, <2>7, AdministersTyped
<1>2. ASSUME NEW m \in Merchants, NEW p \in Plans, handleAssignPlan(m, p)
      PROVE  XInv'
  <2>1. JobFits(Job("assign", "cancel", m, p), Len(subs))
    BY <1>0, SentFits
  <2> QED BY <1>0, <1>2, <2>1, AdministersTyped DEF handleAssignPlan
<1>3. ASSUME NEW m \in Merchants, handleDeleteMerchant(m)
      PROVE  XInv'
  <2>1. JobFits(Job("delete", "clean", m, None), Len(subs))
    BY <1>0, SentFits, SubscriptionsAssumption
  <2> QED BY <1>0, <1>3, <2>1, AdministersTyped DEF handleDeleteMerchant
<1>4. CASE handleDeleteUser
  <2>1. JobFits(Job("user", "check", None, None), Len(subs))
    BY <1>0, SentFits, SubscriptionsAssumption
  <2> QED BY <1>0, <1>4, <2>1, AdministersTyped DEF handleDeleteUser
<1> QED BY <1>1, <1>2, <1>3, <1>4

LEMMA UserTyped ==
  ASSUME XInv, \/ \E m \in Merchants : ShowPage(m)
               \/ \E p \in Plans : handleUpgrade(p)
               \/ handleCancel \/ OpenAdminPage
  PROVE  XInv'
<1>0. /\ Len(subs) \in Nat /\ wanted \in [Plans -> PlanRows] /\ adminRows \in [Plans -> PlanRows]
      /\ merchantId \in Merchants /\ loading \in BOOLEAN /\ upgrading \in Plans \cup {None}
      /\ shown \in [view : Views, offers : SUBSET Plans]
      /\ open \in [Merchants -> Nat] /\ done \in [Merchants -> Nat]
  BY RowCount DEF XInv, PagesTyped
<1>1. Elsewhere /\ UNCHANGED <<open, done, asked, adminActs, wanted, adminRows>> /\ UserActs
  BY DEF ShowPage, handleUpgrade, handleCancel, OpenAdminPage, World, Elsewhere, counts, removal,
     payments
<1>2. ActsBounded'
  BY <1>1, UserActsBounded DEF Elsewhere
<1>3. ASSUME NEW m \in Merchants, ShowPage(m)
      PROVE  XInv'
  <2>1. PICK i \in Slots :
          /\ merchantId' = m
          /\ IF m = merchantId THEN StartsAnew(i, m)
             ELSE /\ request' = [request EXCEPT ![i] = loadData(m)]
                  /\ loading' = TRUE /\ UNCHANGED <<shown, upgrading>>
    BY <1>3 DEF ShowPage, FreeSlots
  <2>2. CASE m = merchantId
    <3>1. StartsAnew(i, m)
      BY <2>1, <2>2
    <3>2. PagesTyped'
      BY <1>0, <1>1, <2>1, <3>1 DEF PagesTyped, StartsAnew, Views, Nothing
    <3> QED BY <1>0, <1>1, <1>2, <3>1, <3>2, StartsFit, ElsewhereTyped DEF Elsewhere
  <2>3. CASE m # merchantId
    <3>1. PagesTyped'
      BY <1>0, <1>1, <2>1, <2>3 DEF PagesTyped
    <3>2. RequestsFit' /\ RowsInv'
      BY <1>0, <1>1, <2>1, <2>3, LoadFits, SlotChanges DEF Elsewhere
    <3> QED BY <1>0, <1>1, <1>2, <3>1, <3>2, ElsewhereTyped
  <2> QED BY <2>2, <2>3
<1>4. ASSUME NEW p \in Plans, handleUpgrade(p)
      PROVE  XInv'
  <2>1. JobFits(Job("upgrade", "plan", merchantId, p), Len(subs))
    BY <1>0, SentFits
  <2>2. RequestsFit' /\ RowsInv'
    BY <1>1, <1>4, <2>1, SendChanges DEF Elsewhere, handleUpgrade
  <2>3. PagesTyped'
    BY <1>0, <1>1, <1>4 DEF PagesTyped, handleUpgrade
  <2> QED BY <1>0, <1>1, <1>2, <2>2, <2>3, ElsewhereTyped
<1>5. CASE handleCancel
  <2>1. JobFits(Job("cancel", "cancel", merchantId, None), Len(subs))
    BY <1>0, SentFits, SubscriptionsAssumption
  <2>2. RequestsFit' /\ RowsInv'
    BY <1>1, <1>5, <2>1, SendChanges DEF Elsewhere, handleCancel
  <2>3. PagesTyped'
    BY <1>0, <1>1, <1>5 DEF PagesTyped, handleCancel, page
  <2> QED BY <1>0, <1>1, <1>2, <2>2, <2>3, ElsewhereTyped
<1>6. CASE OpenAdminPage
  <2>1. JobFits(Job("plans", "list", None, None), Len(subs))
    BY <1>0, SentFits, SubscriptionsAssumption
  <2>2. RequestsFit' /\ RowsInv'
    BY <1>1, <1>6, <2>1, SendChanges DEF Elsewhere, OpenAdminPage
  <2>3. PagesTyped'
    BY <1>0, <1>1, <1>6 DEF PagesTyped, OpenAdminPage, page
  <2> QED BY <1>0, <1>1, <1>2, <2>2, <2>3, ElsewhereTyped
<1> QED BY <1>3, <1>4, <1>5, <1>6

LEMMA AnsweredTyped ==
  ASSUME XInv, NEW i \in Slots, Answered(i)
  PROVE  XInv'
<1> DEFINE a == request[i]
<1>0. /\ Len(subs) \in Nat /\ wanted \in [Plans -> PlanRows] /\ adminRows \in [Plans -> PlanRows]
      /\ merchantId \in Merchants /\ loading \in BOOLEAN /\ upgrading \in Plans \cup {None}
      /\ shown \in [view : Views, offers : SUBSET Plans]
      /\ open \in [Merchants -> Nat] /\ done \in [Merchants -> Nat]
  BY RowCount DEF XInv, PagesTyped
<1> USE DEF Arrived, AnswerOf
<1>1. /\ Elsewhere /\ UNCHANGED <<open, done, asked, adminActs, wanted, merchantId, hasty>>
      /\ UNCHANGED adminRows \/ PlansListed(i)
  BY DEF Answered, Dropped, DataLoaded, UpgradeAnswered, CancelAnswered, PlansListed, SaveAnswered,
     AdminAnswered, UserDeleted, Handled, World, Elsewhere, counts, removal, payments, acts
<1>2. ActsBounded'
  BY <1>1, UserActsBounded DEF Elsewhere
<1>3. a # Free /\ JobFits(a, Len(subs)) /\ a \in Jobs
  BY DEF Answered, Dropped, DataLoaded, UpgradeAnswered, CancelAnswered, PlansListed, SaveAnswered,
     AdminAnswered, UserDeleted, XInv, RequestsFit, Fits, JobFits
<1>4. adminRows' \in [Plans -> PlanRows]
  BY <1>0, <1>1, <1>3 DEF PlansListed, Jobs
<1>5. loading' \in BOOLEAN /\ upgrading' \in Plans \cup {None}
      /\ shown' \in [view : Views, offers : SUBSET Plans]
  <2>0. [view |-> Nothing, offers |-> {}] \in [view : Views, offers : SUBSET Plans]
        /\ [view |-> Nothing, offers |-> Plans] \in [view : Views, offers : SUBSET Plans]
        /\ [view |-> a.view, offers |-> a.offers] \in [view : Views, offers : SUBSET Plans]
    <3>1. Nothing \in Views
      BY DEF Nothing, Views
    <3>2. a.view \in Views /\ a.offers \in SUBSET Plans
      BY <1>3 DEF Jobs
    <3> QED BY <3>1, <3>2
  <2>1. CASE DataLoaded(i)
    BY <1>0, <2>0, <2>1 DEF DataLoaded
  <2>2. CASE UpgradeAnswered(i)
    BY <1>0, <2>0, <2>2 DEF UpgradeAnswered, StartsAnew, Reloads
  <2>3. CASE CancelAnswered(i)
    BY <1>0, <2>3 DEF CancelAnswered, Reloads
  <2>4. CASE ~DataLoaded(i) /\ ~UpgradeAnswered(i) /\ ~CancelAnswered(i)
    <3>1. UNCHANGED page
      BY <2>4 DEF Answered, Dropped, PlansListed, SaveAnswered, AdminAnswered, UserDeleted
    <3> QED BY <1>0, <3>1 DEF page
  <2> QED BY <2>1, <2>2, <2>3, <2>4
<1>6. RequestsFit' /\ RowsInv'
  <2>1. CASE Ends(i)
    BY <1>1, <2>1, SlotChanges DEF Ends, Elsewhere
  <2>2. ASSUME NEW m \in Merchants, request' = [request EXCEPT ![i] = loadData(m)]
        PROVE  RequestsFit' /\ RowsInv'
    BY <1>0, <1>1, <2>2, LoadFits, SlotChanges DEF Elsewhere
  <2>3. CASE StartsAnew(i, merchantId)
    BY <1>0, <1>1, <2>3, StartsFit DEF Elsewhere
  <2>4. CASE request' = [request EXCEPT ![i] = Job("plans", "list", None, None)]
    BY <1>0, <1>1, <2>4, SentFits, SlotChanges, SubscriptionsAssumption DEF Elsewhere
  <2>5. \/ Ends(i) \/ StartsAnew(i, merchantId)
        \/ request' = [request EXCEPT ![i] = Job("plans", "list", None, None)]
        \/ a.kind \in {"upgrade", "cancel"} /\ request' = [request EXCEPT ![i] = loadData(a.merchant)]
    BY DEF Answered, Dropped, DataLoaded, UpgradeAnswered, CancelAnswered, PlansListed, SaveAnswered,
       AdminAnswered, UserDeleted, Reloads, GoesOn
  <2>6. a.kind \in {"upgrade", "cancel"} => a.merchant \in Merchants
    BY <1>3 DEF JobFits, OfMerchant
  <2> QED BY <2>1, <2>2, <2>3, <2>4, <2>5, <2>6
<1>7. PagesTyped'
  BY <1>0, <1>1, <1>4, <1>5 DEF PagesTyped
<1> QED BY <1>0, <1>1, <1>2, <1>6, <1>7, ElsewhereTyped

LEMMA XInvStep ==
  ASSUME XInv, [Next]_vars
  PROVE  XInv'
<1>1. CASE UNCHANGED vars
  BY <1>1 DEF vars, XInv, ServerTyped, PagesTyped, ActsBounded, RequestsFit, Fits, RowsInv, OneLive, Live
<1>2. CASE Next
  BY <1>2, ServesTyped, AnsweredTyped, PaymentsTyped, UserTyped, AdminTyped, WebhookTyped DEF Next
<1> QED BY <1>1, <1>2

(* The first rows are those of the merchants that were given the free plan.   *)
LEMMA FirstRows ==
  ASSUME Init
  PROVE  /\ subs \in Seq(Subs) /\ OneLive
         /\ \A n \in DOMAIN subs : subs[n] = FreeRow(subs[n].merchant)
<1> DEFINE n == Cardinality(Assigned)
           f == SetToSeq(Assigned)
<1>1. n \in Nat /\ ExistsBijection(1..n, Assigned)
  BY FS_CardinalityType, SubscriptionsAssumption
<1>2. \E g \in [1..n -> Assigned] : IsInjective(g)
  BY <1>1 DEF ExistsBijection, Bijection, Injection, Surjection, IsInjective
<1>3. f \in [1..n -> Assigned] /\ IsInjective(f)
  BY <1>2 DEF SetToSeq
<1> HIDE DEF f
<1>4. subs = [i \in 1..n |-> FreeRow(f[i])]
  BY DEF Init, f
<1>5. \A i \in 1..n : f[i] \in Merchants /\ FreeRow(f[i]) \in Subs /\ FreeRow(f[i]).merchant = f[i]
  BY <1>3, SubscriptionsAssumption DEF FreeRow, Subs, LiveStatuses
<1>6. subs \in [1..n -> Subs] /\ DOMAIN subs = 1..n
  BY <1>4, <1>5
<1>7. subs \in Seq(Subs)
  BY <1>1, <1>6, SeqDef
<1>8. OneLive
  BY <1>3, <1>4, <1>5, <1>6 DEF OneLive, Live, IsInjective
<1>9. \A k \in DOMAIN subs : subs[k] = FreeRow(subs[k].merchant)
  BY <1>4, <1>5, <1>6
<1> QED BY <1>7, <1>8, <1>9

LEMMA XInvInit ==
  ASSUME Init
  PROVE  XInv
<1>1. RowsInv /\ Len(subs) \in Nat
  BY FirstRows, RowsAreNumbered DEF RowsInv
<1>2. ServerTyped
  BY <1>1 DEF ServerTyped, Init, PlanRows, NoRow
<1>3. PagesTyped
  BY DEF PagesTyped, Init, PlanRows, Views, Nothing
<1>4. ActsBounded
  BY SubscriptionsAssumption DEF ActsBounded, Init
<1>5. RequestsFit
  BY <1>1, LoadFits DEF RequestsFit, Fits, Init
<1> QED BY <1>2, <1>3, <1>4, <1>5 DEF XInv

(* For any merchants and plans: rows, pages and counters are well typed, and  *)
(* every request has the parts its kind and stage call for.                   *)
THEOREM Typed == Spec => []XInv
BY XInvInit, XInvStep, PTL DEF Spec

-------------------------------------------------------------------------------
(* What a step does to the requests and to the rows.                          *)

FirstStages ==
  {<<"load", "read">>, <<"pay", "check">>, <<"complete", "update">>, <<"upgrade", "plan">>,
   <<"cancel", "cancel">>, <<"assign", "cancel">>, <<"delete", "clean">>, <<"user", "check">>,
   <<"save", "save">>, <<"plans", "list">>}
First(r) == <<r.kind, r.stage>> \in FirstStages /\ r.at = "server" /\ r.row = 0

(* The pages and the payments send requests and take answers.                 *)
PageActs ==
  \/ \E i \in Slots : Answered(i)
  \/ \E m \in Merchants : PaymentAsked(m) \/ PaymentSucceeds(m) \/ ShowPage(m)
  \/ \E p \in Plans : handleUpgrade(p) \/ handleSubmit(p)
  \/ \E m \in Merchants, p \in Plans : handleAssignPlan(m, p)
  \/ \E m \in Merchants : handleDeleteMerchant(m)
  \/ handleCancel \/ OpenAdminPage \/ handleDeleteUser

Left(q, r) ==
  /\ q.kind = r.kind /\ q.stage = r.stage /\ q.at = r.at /\ q.ok = r.ok /\ q.merchant = r.merchant
  /\ Rest(q, r) /\ q.full = r.full /\ q.acts = r.acts

Replaced(j) == request[j] = Free \/ request[j].at = "page"
Moves(j, K) ==
  \/ request'[j] = request[j]
  \/ Replaced(j) /\ (request'[j] = Free \/ (First(request'[j]) /\ request'[j].kind \in K))
  \/ OfPage(request[j]) /\ Left(request'[j], request[j]) /\ request'[j].here = FALSE
PageMoves(K) == \A j \in Slots : Moves(j, K)

Pages == {"load", "upgrade", "cancel", "plans"}
AdminWrites == {"assign", "delete", "user", "save"}

LEMMA OneSlotMoves ==
  ASSUME XInv, NEW i \in Slots, Replaced(i), NEW K, NEW q, q = Free \/ (First(q) /\ q.kind \in K),
         request' = [request EXCEPT ![i] = q]
  PROVE  PageMoves(K)
<1>1. request'[i] = q /\ \A j \in Slots : j # i => request'[j] = request[j]
  BY DEF XInv, RequestsFit
<1> QED BY <1>1 DEF PageMoves, Moves

LEMMA SendMoves ==
  ASSUME XInv, NEW K, NEW q, First(q), q.kind \in K, Send(q)
  PROVE  PageMoves(K)
<1>1. PICK i \in Slots : request[i] = Free /\ request' = [request EXCEPT ![i] = q]
  BY DEF Send, FreeSlots
<1> QED BY <1>1, OneSlotMoves DEF Replaced

LEMMA LoadIsFirst ==
  ASSUME NEW m
  PROVE  First(loadData(m)) /\ loadData(m).kind = "load" /\ "load" \in Pages
BY DEF loadData, Job, First, FirstStages, Pages

LEMMA StartsMoves ==
  ASSUME XInv, NEW i \in Slots, Replaced(i), NEW m, StartsAnew(i, m)
  PROVE  PageMoves(Pages)
<1>1. ASSUME NEW j \in Slots, j # i, OfPage(request[j])
      PROVE  Left(request'[j], request[j]) /\ request'[j].here = FALSE
  <2>1. request[j] \in Jobs /\ request'[j] = [request[j] EXCEPT !.here = FALSE]
    BY <1>1 DEF StartsAnew, XInv, RequestsFit, Fits, JobFits, OfPage
  <2> QED BY <2>1, LeaveJob DEF Left
<1>2. request'[i] = loadData(m)
  BY DEF StartsAnew
<1>3. ASSUME NEW j \in Slots, j # i, ~OfPage(request[j])
      PROVE  request'[j] = request[j]
  BY <1>3 DEF StartsAnew
<1> QED BY <1>1, <1>2, <1>3, LoadIsFirst DEF PageMoves, Moves

(* What the pages and the payments do, by what they count.                    *)
Asks(m) == PaymentAsked(m) /\ PageMoves({"pay"}) /\ asked' = asked + 1 /\ UNCHANGED <<open, done, adminActs>>
Succeeds(m) == PaymentSucceeds(m) /\ PageMoves({"complete"}) /\ UNCHANGED <<asked, adminActs>>
Manages == PageMoves(AdminWrites) /\ adminActs' = adminActs + 1 /\ UNCHANGED <<open, done, asked>>
Browses == PageMoves(Pages) /\ UNCHANGED <<open, done, asked, adminActs>>

LEMMA AdministersManages ==
  ASSUME XInv, NEW q, First(q), q.kind \in AdminWrites, Administers(q)
  PROVE  Manages
<1>1. PageMoves(AdminWrites)
  BY SendMoves DEF Administers
<1> QED BY <1>1 DEF Administers, Manages, World, payments

LEMMA PagesMove ==
  ASSUME XInv, PageActs
  PROVE  /\ Elsewhere
         /\ Manages \/ Browses \/ \E m \in Merchants : Asks(m) \/ Succeeds(m)
<1>1. Elsewhere
  BY DEF PageActs, Answered, Dropped, DataLoaded, UpgradeAnswered, CancelAnswered, PlansListed,
     SaveAnswered, AdminAnswered, UserDeleted, Handled, World, Elsewhere, counts, removal, payments,
     PaymentAsked, PaymentSucceeds, ShowPage, handleUpgrade, handleSubmit, handleAssignPlan,
     handleDeleteMerchant, handleCancel, OpenAdminPage, handleDeleteUser, Administers, Stays
<1>2. ASSUME NEW i \in Slots, Answered(i)
      PROVE  Browses
  <2>1. Replaced(i) /\ UNCHANGED <<open, done, asked, adminActs>>
    BY <1>2 DEF Answered, Dropped, DataLoaded, UpgradeAnswered, CancelAnswered, PlansListed,
       SaveAnswered, AdminAnswered, UserDeleted, Arrived, AnswerOf, Replaced, Handled, World, acts,
       payments
  <2>2. \/ Ends(i) \/ StartsAnew(i, merchantId)
        \/ request' = [request EXCEPT ![i] = Job("plans", "list", None, None)]
        \/ request' = [request EXCEPT ![i] = loadData(request[i].merchant)]
    BY <1>2 DEF Answered, Dropped, DataLoaded, UpgradeAnswered, CancelAnswered, PlansListed,
       SaveAnswered, AdminAnswered, UserDeleted, Reloads, GoesOn
  <2>3. CASE StartsAnew(i, merchantId)
    BY <2>1, <2>3, StartsMoves DEF Browses
  <2>4. CASE ~StartsAnew(i, merchantId)
    <3>1. PICK q : request' = [request EXCEPT ![i] = q]
                   /\ (q = Free \/ q = Job("plans", "list", None, None) \/ q = loadData(request[i].merchant))
      BY <2>2, <2>4 DEF Ends
    <3>2. q = Free \/ (First(q) /\ q.kind \in Pages)
      BY <3>1, LoadIsFirst DEF Job, First, FirstStages, Pages
    <3> QED BY <2>1, <3>1, <3>2, OneSlotMoves DEF Browses
  <2> QED BY <2>3, <2>4
<1>3. ASSUME NEW m \in Merchants, PaymentAsked(m)
      PROVE  Asks(m)
  <2>1. PICK j, b, q : /\ j = Job("pay", "check", m, None)
                       /\ q = [j EXCEPT !.full = b, !.acts = adminActs] /\ Send(q)
    BY <1>3 DEF PaymentAsked
  <2>2. First(q) /\ q.kind \in {"pay"}
    BY <2>1 DEF Job, First, FirstStages
  <2>3. PageMoves({"pay"})
    BY <2>1, <2>2, SendMoves
  <2> QED BY <1>3, <2>3 DEF Asks, PaymentAsked, Stays, acts
<1>4. ASSUME NEW m \in Merchants, PaymentSucceeds(m)
      PROVE  Succeeds(m)
  <2>1. PICK q : q = Job("complete", "update", m, None) /\ Send(q)
    BY <1>4 DEF PaymentSucceeds
  <2>2. First(q) /\ q.kind \in {"complete"}
    BY <2>1 DEF Job, First, FirstStages
  <2>3. PageMoves({"complete"})
    BY <2>1, <2>2, SendMoves
  <2> QED BY <1>4, <2>3 DEF Succeeds, PaymentSucceeds, Stays, acts
<1>5. ASSUME NEW m \in Merchants, ShowPage(m)
      PROVE  Browses
  <2>1. PICK i \in Slots : request[i] = Free /\ (StartsAnew(i, m) \/ request' = [request EXCEPT ![i] = loadData(m)])
    BY <1>5 DEF ShowPage, FreeSlots
  <2>2. Replaced(i)
    BY <2>1 DEF Replaced
  <2>3. PageMoves(Pages)
    BY <2>1, <2>2, LoadIsFirst, StartsMoves, OneSlotMoves
  <2> QED BY <1>5, <2>3 DEF Browses, ShowPage, World, payments
<1>6. ASSUME NEW p \in Plans, handleUpgrade(p)
      PROVE  Browses
  <2>1. PICK q : q = Job("upgrade", "plan", merchantId, p) /\ Send(q)
    BY <1>6 DEF handleUpgrade
  <2>2. First(q) /\ q.kind \in Pages
    BY <2>1 DEF Job, First, FirstStages, Pages
  <2>3. PageMoves(Pages)
    BY <2>1, <2>2, SendMoves
  <2> QED BY <1>6, <2>3 DEF Browses, handleUpgrade, World, payments
<1>7. ASSUME NEW p \in Plans, handleSubmit(p)
      PROVE  Manages
  <2>1. PICK new, j, q : j = Job("save", "save", None, p) /\ q = [j EXCEPT !.rows[p] = new] /\ Administers(q)
    BY <1>7 DEF handleSubmit
  <2>2. First(q) /\ q.kind \in AdminWrites
    BY <2>1 DEF Job, First, FirstStages, AdminWrites
  <2> QED BY <2>1, <2>2, AdministersManages
<1>8. ASSUME NEW m \in Merchants, NEW p \in Plans, handleAssignPlan(m, p)
      PROVE  Manages
  <2>1. PICK q : q = Job("assign", "cancel", m, p) /\ Administers(q)
    BY <1>8 DEF handleAssignPlan
  <2>2. First(q) /\ q.kind \in AdminWrites
    BY <2>1 DEF Job, First, FirstStages, AdminWrites
  <2> QED BY <2>1, <2>2, AdministersManages
<1>9. ASSUME NEW m \in Merchants, handleDeleteMerchant(m)
      PROVE  Manages
  <2>1. PICK q : q = Job("delete", "clean", m, None) /\ Administers(q)
    BY <1>9 DEF handleDeleteMerchant
  <2>2. First(q) /\ q.kind \in AdminWrites
    BY <2>1 DEF Job, First, FirstStages, AdminWrites
  <2> QED BY <2>1, <2>2, AdministersManages
<1>10. ASSUME handleDeleteUser
       PROVE  Manages
  <2>1. PICK q : q = Job("user", "check", None, None) /\ Administers(q)
    BY <1>10 DEF handleDeleteUser
  <2>2. First(q) /\ q.kind \in AdminWrites
    BY <2>1 DEF Job, First, FirstStages, AdminWrites
  <2> QED BY <2>1, <2>2, AdministersManages
<1>11. ASSUME handleCancel
       PROVE  Browses
  <2>1. PICK q : q = Job("cancel", "cancel", merchantId, None) /\ Send(q)
    BY <1>11 DEF handleCancel
  <2>2. First(q) /\ q.kind \in Pages
    BY <2>1 DEF Job, First, FirstStages, Pages
  <2>3. PageMoves(Pages)
    BY <2>1, <2>2, SendMoves
  <2> QED BY <1>11, <2>3 DEF Browses, handleCancel, World, payments
<1>12. ASSUME OpenAdminPage
       PROVE  Browses
  <2>1. PICK q : q = Job("plans", "list", None, None) /\ Send(q)
    BY <1>12 DEF OpenAdminPage
  <2>2. First(q) /\ q.kind \in Pages
    BY <2>1 DEF Job, First, FirstStages, Pages
  <2>3. PageMoves(Pages)
    BY <2>1, <2>2, SendMoves
  <2> QED BY <1>12, <2>3 DEF Browses, OpenAdminPage, World, payments
<1> QED BY <1>1, <1>2, <1>3, <1>4, <1>5, <1>6, <1>7, <1>8, <1>9, <1>10, <1>11, <1>12 DEF PageActs

LEMMA PagesMoveSlots ==
  ASSUME XInv, PageActs
  PROVE  \E K : PageMoves(K)
BY PagesMove DEF Manages, Browses, Asks, Succeeds

(* The server adds a row when an upgrade or an assignment inserts it, and     *)
(* rewrites rows otherwise; an invoice is made in one step only.              *)
AddsRow(i, s) ==
  /\ RowAdded(s) /\ s.late = (state[s.merchant] # "live") /\ s.invoice = "none"
  /\ s.by = "self" /\ s.status = "active" => s.price = 0
  /\ s.merchant = request[i].merchant /\ UNCHANGED <<state, usage, plan, faults>>
  /\ request[i].kind \in {"upgrade", "assign"} /\ request[i].stage = "insert"
  /\ request'[i] # Free /\ request'[i].kind = request[i].kind
  /\ s.first # 0 => request'[i].kind = "upgrade" /\ request'[i].stage = "invoice"
                    /\ request'[i].at = "server" /\ request'[i].row = Len(subs) + 1
  /\ request'[i].kind = "upgrade" /\ request'[i].stage = "invoice" =>
       request'[i].row = Len(subs) + 1 /\ s.first # 0

LEMMA CreatedRow ==
  ASSUME XInv, NEW i \in Slots, CreateSubscription(i)
  PROVE  UNCHANGED subs \/ \E s : AddsRow(i, s)
<1> DEFINE r == request[i]
           t == Row(r.merchant, r.plan, StatusFor(plan[r.plan].price), "self", r.first)
<1>1. AtServer(i) /\ RowsInv /\ r.kind = "upgrade" /\ r.stage = "insert" /\ plan \in [Plans -> PlanRows]
      /\ request = [j \in Slots |-> request[j]]
  BY DEF CreateSubscription, At, XInv, ServerTyped, RequestsFit
<1>2. JobFits(r, Len(subs)) /\ r \in Jobs /\ r.plan \in Plans /\ r.merchant \in Merchants
  BY <1>1, AtKind DEF JobFits, OfMerchant, XInv
<1>3. r.first \in {0, 1} /\ StatusFor(plan[r.plan].price) \in LiveStatuses
  BY <1>1, <1>2 DEF Jobs, StatusFor, LiveStatuses
<1>4. CASE UNCHANGED subs
  BY <1>4
<1>5. CASE /\ Live(r.merchant) = {} /\ subs' = Append(subs, t)
           /\ request' = [request EXCEPT ![i] = IF NeedsInvoice(r)
                THEN [r EXCEPT !.stage = "invoice", !.row = Len(subs) + 1] ELSE Reply(r, TRUE)]
           /\ UNCHANGED <<state, usage, plan, faults>>
  <2>1. /\ t \in Subs /\ t.merchant = r.merchant /\ t.by = "self" /\ t.invoice = "none"
        /\ t.price = plan[r.plan].price /\ t.first = r.first /\ t.late = (state[r.merchant] # "live")
        /\ t.status = StatusFor(t.price)
    BY <1>2, <1>3, RowTyped
  <2>2. RowAdded(t)
    BY <1>5, <2>1 DEF RowAdded
  <2>3. t.status = "active" => t.price = 0
    <3>1. t.price \in {0, 1}
      BY <1>1, <1>2, <2>1 DEF PlanRows
    <3> QED BY <2>1, <3>1 DEF StatusFor
  <2>4. Len(subs) \in Nat
    BY RowCount
  <2> HIDE DEF t
  <2>5. CASE r.first # 0
    <3>1. PICK q : q = [r EXCEPT !.stage = "invoice", !.row = Len(subs) + 1] /\ request'[i] = q
      BY <1>1, <1>5, <2>5 DEF NeedsInvoice
    <3>2. q.kind = r.kind /\ q.stage = "invoice" /\ q.at = r.at /\ q.row = Len(subs) + 1
      BY <1>2, <3>1 DEF Jobs
    <3>3. q # Free
      BY <1>1, <3>2 DEF Free
    <3>4. q.at = "server" /\ q.kind = "upgrade"
      BY <1>1, <3>2 DEF AtServer
    <3>5. AddsRow(i, t)
      BY <1>1, <1>5, <2>1, <2>2, <2>3, <2>5, <3>1, <3>2, <3>3, <3>4 DEF AddsRow
    <3> QED BY <3>5
  <2>6. CASE r.first = 0
    <3>1. PICK q : q = Reply(r, TRUE) /\ request'[i] = q
      BY <1>1, <1>5, <2>6 DEF NeedsInvoice
    <3>2. q.kind = r.kind /\ q.stage = r.stage
      BY <1>2, <3>1 DEF Reply, Jobs
    <3>3. q # Free
      BY <1>1, <3>2 DEF Free
    <3>4. AddsRow(i, t)
      BY <1>1, <1>5, <2>1, <2>2, <2>3, <2>6, <3>1, <3>2, <3>3 DEF AddsRow
    <3> QED BY <3>4
  <2> QED BY <2>5, <2>6
<1> QED BY <1>4, <1>5 DEF CreateSubscription, GoesOn, counts, removal, Stays

LEMMA AssignedRow ==
  ASSUME XInv, NEW i \in Slots, AssignMerchantPlan(i)
  PROVE  /\ RowsLast \/ \E s : AddsRow(i, s)
         /\ RowsLast => \A k \in DOMAIN subs : subs'[k].invoice = subs[k].invoice
<1> DEFINE r == request[i]
           t == Row(r.merchant, r.plan, "active", "admin", 0)
<1>1. AtServer(i) /\ RowsInv /\ r.kind = "assign" /\ request = [j \in Slots |-> request[j]]
  BY DEF AssignMerchantPlan, At, XInv, ServerTyped, RequestsFit
<1>2. JobFits(r, Len(subs)) /\ r \in Jobs /\ r.plan \in Plans /\ r.merchant \in Merchants
  BY <1>1, AtKind DEF JobFits, OfMerchant, XInv
<1>3. CASE subs' = Cancelled(r.merchant, LiveStatuses)
  BY <1>1, <1>3, CancelledRows
<1>4. CASE UNCHANGED subs
  BY <1>1, <1>4 DEF RowsLast, Lasts
<1>5. CASE /\ Live(r.merchant) = {} /\ subs' = Append(subs, t) /\ r.stage = "insert"
           /\ request' = [request EXCEPT ![i] = Reply(r, TRUE)]
           /\ UNCHANGED <<state, usage, plan, faults>>
  <2>1. /\ t \in Subs /\ t.merchant = r.merchant /\ t.by = "admin" /\ t.invoice = "none"
        /\ t.first = 0 /\ t.late = (state[r.merchant] # "live")
    BY <1>2, RowTyped DEF LiveStatuses
  <2>2. RowAdded(t)
    BY <1>5, <2>1 DEF RowAdded
  <2> HIDE DEF t
  <2>3. PICK q : q = Reply(r, TRUE) /\ request'[i] = q
    BY <1>1, <1>5
  <2>4. q.kind = r.kind /\ q.stage = r.stage
    BY <1>2, <2>3 DEF Reply, Jobs
  <2>5. q # Free
    BY <1>1, <2>4 DEF Free
  <2>6. AddsRow(i, t)
    BY <1>1, <1>5, <2>1, <2>2, <2>3, <2>4, <2>5 DEF AddsRow
  <2>7. ~RowsLast
    BY <1>1, <2>2, RowAddedLive DEF RowsLast, RowsInv
  <2> QED BY <2>6, <2>7
<1> QED BY <1>3, <1>4, <1>5 DEF AssignMerchantPlan, At, GoesOn, counts, removal, Stays

LEMMA ServedRows ==
  ASSUME XInv, NEW i \in Slots, Serves(i) \/ Fails(i)
  PROVE  \/ /\ RowsLast
            /\ \A k \in DOMAIN subs :
                 subs'[k].invoice = subs[k].invoice \/ (CreateInvoice(i) /\ k = request[i].row)
         \/ \E s : AddsRow(i, s)
<1>0. RowsInv /\ (UNCHANGED subs => RowsLast)
  BY RowCount DEF RowsLast, Lasts
<1>1. CASE CreateSubscription(i)
  BY <1>0, <1>1, CreatedRow
<1>2. CASE AssignMerchantPlan(i)
  BY <1>2, AssignedRow
<1>3. CASE CreateInvoice(i)
  <2>1. request[i].row \in DOMAIN subs
    BY <1>0, <1>3, AtKind, RowsAreNumbered DEF CreateInvoice, At, JobFits, Jobs, RowsInv, XInv
  <2> QED BY <1>0, <1>3, <2>1, InvoiceRows DEF CreateInvoice
<1>4. CASE CancelSubscription(i)
  BY <1>0, <1>4, RenewalRows DEF CancelSubscription
<1>5. CASE AdminDeleteMerchant(i) \/ AdminDeleteUser(i)
  <2>1. UNCHANGED subs \/ \E m : subs' = Cancelled(m, LiveStatuses)
    BY <1>5 DEF AdminDeleteMerchant, AdminDeleteUser, adminCleanMerchantData
  <2> QED BY <1>0, <2>1, CancelledRows
<1>6. CASE \/ GetCurrentSubscription(i) \/ CheckPaymentLimit(i) \/ CreatePayment(i) \/ CreatePeriod(i)
           \/ IncrementPaymentUsage(i) \/ UpgradeReadsPlan(i) \/ UpdatePlan(i) \/ ListAllPlans(i)
           \/ Fails(i)
  <2>1. UNCHANGED subs
    BY <1>6 DEF GetCurrentSubscription, CheckPaymentLimit, CreatePayment, CreatePeriod,
       IncrementPaymentUsage, UpgradeReadsPlan, UpdatePlan, ListAllPlans, Fails
  <2> QED BY <1>0, <2>1
<1> QED BY <1>1, <1>2, <1>3, <1>4, <1>5, <1>6 DEF Serves

(* Whatever happens, the server's steps change one request, which stays what  *)
(* it is or ends.                                                             *)
LEMMA ServedOne ==
  ASSUME XInv, NEW i \in Slots, Serves(i) \/ Fails(i)
  PROVE  /\ AtServer(i) /\ request[i] # Free
         /\ \A j \in Slots : j # i => request'[j] = request[j]
         /\ \/ request'[i] = Free /\ request[i].kind \in {"pay", "complete"}
            \/ JobFits(request'[i], Len(subs')) /\ Same(request'[i], request[i])
<1>1. AtServer(i) /\ Answers(i)
  BY ServedAnswers
<1>2. PICK q : GoesOnAs(i, q)
  BY <1>1 DEF Answers
<1>3. request' = [request EXCEPT ![i] = q] /\ request = [j \in Slots |-> request[j]]
  BY <1>2 DEF GoesOnAs, XInv, RequestsFit
<1> QED BY <1>1, <1>2, <1>3 DEF GoesOnAs, AtServer

-------------------------------------------------------------------------------
(* A deletion leaves no plan: a merchant that is not live any more has no     *)
(* row from before; and it is not live once its data were cleaned.            *)

NothingLeft == \A m \in Merchants : state[m] # "live" => \A n \in Live(m) : subs[n].late
CleanedFirst(r) ==
  /\ r.kind = "user" /\ r.stage = "clean" => \A m \in Merchants \ r.left : state[m] # "live"
  /\ r.kind = "user" /\ r.stage \in {"mark", "remove"} => \A m \in Merchants : state[m] # "live"
  /\ r.kind = "delete" /\ r.stage = "mark" => state[r.merchant] # "live"
GoneInv == NothingLeft /\ \A i \in Slots : CleanedFirst(request[i])

LEMMA LateRows ==
  ASSUME RowsInv, NothingLeft, RowsLast, NEW m \in Merchants,
         state[m] # "live" \/ Live(m)' = {}, NEW n \in Live(m)'
  PROVE  subs'[n].late
<1>1. n \in Live(m) /\ state[m] # "live"
  BY RowsLastLive
<1>2. n \in DOMAIN subs
  BY <1>1, LiveIsRow
<1> QED BY <1>1, <1>2 DEF NothingLeft, RowsLast, Lasts

LEMMA LateAdded ==
  ASSUME RowsInv, NothingLeft, NEW i, NEW s, AddsRow(i, s)
  PROVE  NothingLeft'
<1>1. SUFFICES ASSUME NEW m \in Merchants, state'[m] # "live", NEW n \in Live(m)'
               PROVE  subs'[n].late
  BY DEF NothingLeft
<1>2. RowAdded(s) /\ s.late = (state[s.merchant] # "live") /\ state' = state
  BY DEF AddsRow
<1>3. CASE m = s.merchant
  <2>1. n = Len(subs) + 1 /\ subs'[n] = s
    BY <1>1, <1>2, <1>3, RowAddedLive DEF RowsInv
  <2> QED BY <1>1, <1>2, <1>3, <2>1
<1>4. CASE m # s.merchant
  <2>1. n \in Live(m)
    BY <1>1, <1>2, <1>4, RowAddedLive DEF RowsInv
  <2>2. n \in DOMAIN subs
    BY <2>1, LiveIsRow
  <2> QED BY <1>1, <1>2, <2>1, <2>2, RowAddedLive DEF RowsInv, NothingLeft
<1> QED BY <1>3, <1>4

(* How a merchant stops being live.                                           *)
Leaves(i) ==
  /\ RowsLast /\ \A m \in Merchants : state[m] # "live" => state'[m] # "live"
  /\ \A m \in Merchants : state'[m] # "live" => state[m] # "live" \/ Live(m)' = {}
  /\ CleanedFirst(request[i])'

LEMMA MerchantLeaves ==
  ASSUME XInv, GoneInv, NEW i \in Slots, AdminDeleteMerchant(i)
  PROVE  Leaves(i)
<1> DEFINE r == request[i]
           m == r.merchant
<1>1. AtServer(i) /\ r.kind = "delete" /\ r.stage \in {"clean", "mark"}
      /\ request = [j \in Slots |-> request[j]]
  BY DEF AdminDeleteMerchant, At, XInv, RequestsFit
<1>2. r \in Jobs /\ m \in Merchants /\ RowsInv /\ state \in [Merchants -> {"live", "cleaned", "gone"}]
  BY <1>1, AtKind DEF JobFits, OfMerchant, XInv, ServerTyped
<1>3. CASE /\ subs' = Cancelled(m, LiveStatuses) /\ state' = [state EXCEPT ![m] = "cleaned"]
           /\ request' = [request EXCEPT ![i] = [r EXCEPT !.stage = "mark"]]
  <2>1. RowsLast /\ Live(m)' = {}
    BY <1>2, <1>3, CancelledRows
  <2>2. request'[i].kind = "delete" /\ request'[i].merchant = m
    BY <1>1, <1>2, <1>3 DEF Jobs
  <2> QED BY <1>2, <1>3, <2>1, <2>2 DEF Leaves, CleanedFirst
<1>4. CASE r.stage = "clean" /\ state[m] = "gone" /\ UNCHANGED <<subs, state>>
           /\ request' = [request EXCEPT ![i] = Reply(r, FALSE)]
  <2>1. RowsLast
    BY <1>4 DEF RowsLast, Lasts
  <2>2. request'[i].kind = "delete" /\ request'[i].merchant = m /\ request'[i].stage = "clean"
    BY <1>1, <1>2, <1>4 DEF Jobs, Reply
  <2> QED BY <1>2, <1>4, <2>1, <2>2 DEF Leaves, CleanedFirst
<1>5. CASE r.stage = "mark" /\ UNCHANGED subs /\ state' = [state EXCEPT ![m] = "gone"]
           /\ request' = [request EXCEPT ![i] = Reply(r, TRUE)]
  <2>1. RowsLast
    BY <1>5 DEF RowsLast, Lasts
  <2>2. request'[i].kind = "delete" /\ request'[i].merchant = m
    BY <1>1, <1>2, <1>5 DEF Jobs, Reply
  <2>3. state[m] # "live"
    BY <1>1, <1>5 DEF GoneInv, CleanedFirst
  <2> QED BY <1>2, <1>5, <2>1, <2>2, <2>3 DEF Leaves, CleanedFirst
<1> QED BY <1>3, <1>4, <1>5 DEF AdminDeleteMerchant, At, adminCleanMerchantData, GoesOn

LEMMA UserLeaves ==
  ASSUME XInv, GoneInv, NEW i \in Slots, AdminDeleteUser(i)
  PROVE  Leaves(i)
<1> DEFINE r == request[i]
<1>1. AtServer(i) /\ r.kind = "user" /\ request = [j \in Slots |-> request[j]] /\ CleanedFirst(r)
  BY DEF AdminDeleteUser, At, XInv, RequestsFit, GoneInv
<1>2. r \in Jobs /\ RowsInv /\ state \in [Merchants -> {"live", "cleaned", "gone"}]
      /\ r.left \in SUBSET Merchants
  BY <1>1, AtKind DEF JobFits, Jobs, XInv, ServerTyped
<1>3. UNCHANGED subs => RowsLast
  BY DEF RowsLast, Lasts
<1>4. CASE UNCHANGED <<subs, state>> /\ \/ r.stage = "check" /\ request' = [request EXCEPT ![i] = Reply(r, FALSE)]
                                        \/ r.stage = "remove" /\ request' = [request EXCEPT ![i] = Reply(r, TRUE)]
  <2>1. request'[i].kind = "user" /\ request'[i].stage = r.stage
    BY <1>1, <1>2, <1>4 DEF Jobs, Reply
  <2> QED BY <1>1, <1>3, <1>4, <2>1 DEF Leaves, CleanedFirst
<1>5. CASE UNCHANGED <<subs, state>>
           /\ request' = [request EXCEPT ![i] = [r EXCEPT !.stage = "clean", !.left = Merchants]]
  <2>1. request'[i].kind = "user" /\ request'[i].stage = "clean" /\ request'[i].left = Merchants
    BY <1>1, <1>2, <1>5 DEF Jobs
  <2> QED BY <1>1, <1>3, <1>5, <2>1 DEF Leaves, CleanedFirst
<1>6. ASSUME NEW m \in r.left, subs' = Cancelled(m, LiveStatuses), r.stage = "clean",
             state' = [state EXCEPT ![m] = IF @ = "gone" THEN @ ELSE "cleaned"],
             request' = [request EXCEPT ![i] =
               [r EXCEPT !.left = @ \ {m}, !.stage = IF r.left = {m} THEN "mark" ELSE @]]
      PROVE  Leaves(i)
  <2>1. RowsLast /\ Live(m)' = {} /\ m \in Merchants
    BY <1>2, <1>6, CancelledRows
  <2>2. PICK q : /\ q = [r EXCEPT !.left = @ \ {m}, !.stage = IF r.left = {m} THEN "mark" ELSE @]
                 /\ request'[i] = q
    BY <1>1, <1>6
  <2>3. /\ q.kind = "user" /\ q.left = r.left \ {m}
        /\ q.stage = IF r.left = {m} THEN "mark" ELSE "clean"
    BY <1>1, <1>2, <1>6, <2>2 DEF Jobs
  <2>4. state'[m] # "live" /\ \A k \in Merchants \ {m} : state'[k] = state[k]
    BY <1>2, <1>6, <2>1
  <2>5. \A k \in Merchants \ r.left : state[k] # "live"
    BY <1>1, <1>6 DEF CleanedFirst
  <2>6. \A k \in Merchants \ (r.left \ {m}) : state'[k] # "live"
    BY <2>1, <2>4, <2>5
  <2>7. CleanedFirst(q)'
    <3>1. CASE r.left = {m}
      BY <2>3, <2>6, <3>1 DEF CleanedFirst
    <3>2. CASE r.left # {m}
      BY <2>3, <2>6, <3>2 DEF CleanedFirst
    <3> QED BY <3>1, <3>2
  <2> QED BY <2>1, <2>2, <2>4, <2>7 DEF Leaves
<1>7. CASE r.stage = "mark" /\ UNCHANGED subs /\ state' = [m \in Merchants |-> "gone"]
           /\ request' = [request EXCEPT ![i] = [r EXCEPT !.stage = "remove"]]
  <2>1. request'[i].kind = "user" /\ request'[i].stage = "remove"
    BY <1>1, <1>2, <1>7 DEF Jobs
  <2>2. \A m \in Merchants : state[m] # "live"
    BY <1>1, <1>7 DEF CleanedFirst
  <2> QED BY <1>3, <1>7, <2>1, <2>2 DEF Leaves, CleanedFirst
<1> QED BY <1>4, <1>5, <1>6, <1>7 DEF AdminDeleteUser, At, adminCleanMerchantData, GoesOn, removal

LEMMA OthersStayCleaned ==
  ASSUME XInv, GoneInv, NEW i \in Slots, Serves(i) \/ Fails(i),
         ~(AdminDeleteMerchant(i) \/ AdminDeleteUser(i))
  PROVE  UNCHANGED state /\ CleanedFirst(request[i])'
<1> DEFINE r == request[i]
<1>1. UNCHANGED state
  BY DEF Serves, Fails, GetCurrentSubscription, CheckPaymentLimit, CreatePayment, CreatePeriod,
     IncrementPaymentUsage, UpgradeReadsPlan, CreateSubscription, CreateInvoice,
     CancelSubscription, AssignMerchantPlan, UpdatePlan, ListAllPlans, removal
<1>2. AtServer(i) /\ (request'[i] = Free \/ Same(request'[i], r)) /\ JobFits(r, Len(subs)) /\ r \in Jobs
      /\ request = [j \in Slots |-> request[j]]
  BY ServedOne, AtKind DEF XInv, RequestsFit
<1>3. CASE r.kind \notin {"user", "delete"}
  <2>1. request'[i].kind \notin {"user", "delete"}
    BY <1>2, <1>3 DEF Same, Free
  <2> QED BY <1>1, <2>1 DEF CleanedFirst
<1>4. CASE r.kind \in {"user", "delete"}
  <2>1. Fails(i)
    BY <1>2, <1>4 DEF Serves, GetCurrentSubscription, CheckPaymentLimit, CreatePayment, CreatePeriod,
       IncrementPaymentUsage, UpgradeReadsPlan, CreateSubscription, CreateInvoice,
       CancelSubscription, AssignMerchantPlan, UpdatePlan, ListAllPlans, At, JobFits
  <2>2. request'[i] = Reply(r, FALSE)
    BY <1>2, <1>4, <2>1 DEF Fails, GoesOn
  <2>3. /\ request'[i].kind = r.kind /\ request'[i].stage = r.stage
        /\ request'[i].merchant = r.merchant /\ request'[i].left = r.left
    BY <1>2, <2>2 DEF Reply, Jobs
  <2> QED BY <1>1, <2>3 DEF CleanedFirst, GoneInv
<1> QED BY <1>1, <1>3, <1>4

LEMMA GoneStep ==
  ASSUME XInv, GoneInv, [Next]_vars
  PROVE  GoneInv'
<1>0. RowsInv
  BY RowCount
<1>1. ASSUME NEW i \in Slots, Serves(i) \/ Fails(i)
      PROVE  GoneInv'
  <2>1. \A j \in Slots : j # i => request'[j] = request[j]
    BY <1>1, ServedOne
  <2>2. CASE AdminDeleteMerchant(i) \/ AdminDeleteUser(i)
    <3>1. Leaves(i)
      BY <2>2, MerchantLeaves, UserLeaves
    <3>2. NothingLeft'
      <4>1. ASSUME NEW m \in Merchants, state'[m] # "live", NEW n \in Live(m)'
            PROVE  subs'[n].late
        BY <1>0, <3>1, <4>1, LateRows DEF Leaves, GoneInv
      <4> QED BY <4>1 DEF NothingLeft
    <3>3. \A j \in Slots : CleanedFirst(request[j])'
      <4>1. ASSUME NEW j \in Slots, j # i
            PROVE  CleanedFirst(request[j])'
        <5>1. request'[j] = request[j] /\ CleanedFirst(request[j]) /\ Fits(request[j])
          BY <2>1, <4>1 DEF GoneInv, XInv, RequestsFit
        <5>2. request[j].kind = "delete" => request[j].merchant \in Merchants
          BY <5>1, FreeIsNoJob DEF Fits, JobFits, OfMerchant
        <5> QED BY <3>1, <5>1, <5>2 DEF CleanedFirst, Leaves
      <4> QED BY <3>1, <4>1 DEF Leaves
    <3> QED BY <3>2, <3>3 DEF GoneInv
  <2>3. CASE ~(AdminDeleteMerchant(i) \/ AdminDeleteUser(i))
    <3>1. UNCHANGED state /\ CleanedFirst(request[i])'
      BY <1>1, <2>3, OthersStayCleaned
    <3>2. NothingLeft'
      <4>1. CASE RowsLast
        <5>1. ASSUME NEW m \in Merchants, state'[m] # "live", NEW n \in Live(m)'
              PROVE  subs'[n].late
          BY <1>0, <3>1, <4>1, <5>1, LateRows DEF GoneInv
        <5> QED BY <5>1 DEF NothingLeft
      <4>2. CASE \E s : AddsRow(i, s)
        BY <1>0, <4>2, LateAdded DEF GoneInv
      <4> QED BY <1>1, <4>1, <4>2, ServedRows
    <3>3. \A j \in Slots : j # i => CleanedFirst(request[j])'
      BY <2>1, <3>1 DEF GoneInv, CleanedFirst
    <3> QED BY <3>1, <3>2, <3>3 DEF GoneInv
  <2> QED BY <2>2, <2>3
<1>2. CASE PageActs
  <2>1. PICK K : UNCHANGED <<subs, state>> /\ PageMoves(K)
    BY <1>2, PagesMove, PagesMoveSlots DEF Elsewhere
  <2>2. NothingLeft'
    BY <2>1 DEF GoneInv, NothingLeft, Live
  <2>3. ASSUME NEW j \in Slots
        PROVE  CleanedFirst(request[j])'
    <3>1. CleanedFirst(request[j])
      BY DEF GoneInv
    <3>2. CASE request'[j] = request[j]
      BY <2>1, <3>1, <3>2 DEF CleanedFirst
    <3>3. CASE request'[j] = Free \/ First(request'[j])
      BY <3>3 DEF CleanedFirst, Free, First, FirstStages
    <3>4. CASE OfPage(request[j]) /\ Left(request'[j], request[j])
      BY <3>4 DEF CleanedFirst, OfPage, Left
    <3> QED BY <2>1, <3>2, <3>3, <3>4 DEF PageMoves, Moves
  <2> QED BY <2>2, <2>3 DEF GoneInv
<1>3. ASSUME NEW n \in DOMAIN subs, HandlePaymentWebhook(n)
      PROVE  GoneInv'
  <2>1. RowsLast /\ UNCHANGED <<state, request>>
    BY <1>3, WebhookTyped DEF HandlePaymentWebhook, removal
  <2>2. NothingLeft'
    <3>1. ASSUME NEW m \in Merchants, state'[m] # "live", NEW k \in Live(m)'
          PROVE  subs'[k].late
      BY <1>0, <2>1, <3>1, LateRows DEF GoneInv
    <3> QED BY <3>1 DEF NothingLeft
  <2> QED BY <2>1, <2>2 DEF GoneInv, CleanedFirst
<1>4. CASE UNCHANGED vars
  BY <1>4 DEF vars, GoneInv, NothingLeft, CleanedFirst, Live
<1> QED BY <1>1, <1>2, <1>3, <1>4 DEF Next, PageActs

(* For any merchants: a deletion leaves a merchant no subscription that it    *)
(* had before.                                                                *)
THEOREM DeletionTakesPlans == Spec => []DeletedKeepsNone
<1>1. Init => XInv /\ GoneInv
  <2>1. ASSUME Init
        PROVE  GoneInv
    <3>1. NothingLeft
      BY <2>1 DEF Init, NothingLeft
    <3>2. ASSUME NEW j \in Slots
          PROVE  CleanedFirst(request[j])
      BY <2>1 DEF Init, CleanedFirst, loadData, Job, Free
    <3> QED BY <3>1, <3>2 DEF GoneInv
  <2> QED BY <2>1, XInvInit
<1>2. XInv /\ GoneInv /\ [Next]_vars => (XInv /\ GoneInv)'
  BY XInvStep, GoneStep
<1>3. XInv /\ GoneInv => DeletedKeepsNone
  BY DEF GoneInv, NothingLeft, DeletedKeepsNone
<1> QED BY <1>1, <1>2, <1>3, PTL DEF Spec

-------------------------------------------------------------------------------
(* Plans are paid for: what a merchant took itself waits unless it was free;  *)
(* a row has an invoice when a price was read first, or will have it as soon  *)
(* as the upgrade goes on.                                                    *)

Invoices(r) == r.kind = "upgrade" /\ r.stage = "invoice"
WillInvoice(n) ==
  \E i \in Slots : Invoices(request[i]) /\ request[i].at = "server" /\ request[i].row = n
RowPaid(n) ==
  /\ subs[n].by = "self" /\ subs[n].status = "active" => subs[n].price = 0
  /\ subs[n].first = 0 => subs[n].invoice = "none"
RowInvoiced(n) ==
  faults = 0 /\ subs[n].invoice = "none" /\ subs[n].first # 0 => WillInvoice(n)
PaidInv ==
  /\ \A n \in DOMAIN subs : RowPaid(n) /\ RowInvoiced(n)
  /\ \A i \in Slots : Invoices(request[i]) => subs[request[i].row].first # 0

LEMMA InvoicedRow ==
  ASSUME XInv, NEW i \in Slots, Invoices(request[i])
  PROVE  request[i].row \in DOMAIN subs
<1>1. Fits(request[i]) /\ request[i] # Free
  BY FreeIsNoJob DEF XInv, RequestsFit, Invoices
<1>2. request[i].row \in Nat /\ request[i].row # 0 /\ request[i].row <= Len(subs)
  BY <1>1 DEF Fits, JobFits, Jobs, Invoices
<1> QED BY <1>2, RowCount, RowsAreNumbered DEF RowsInv

(* A request that is to make an invoice makes it, when it is served.          *)
LEMMA InvoiceIsNext ==
  ASSUME XInv, NEW i \in Slots, Serves(i) \/ Fails(i), Invoices(request[i])
  PROVE  Fails(i) \/ CreateInvoice(i)
BY AtKind DEF Serves, GetCurrentSubscription, CheckPaymentLimit, CreatePayment, CreatePeriod,
   IncrementPaymentUsage, UpgradeReadsPlan, CreateSubscription, CancelSubscription, AssignMerchantPlan,
   AdminDeleteMerchant, AdminDeleteUser, UpdatePlan, ListAllPlans, At, Invoices, XInv, JobFits

LEMMA InvoiceMade ==
  ASSUME XInv, NEW i \in Slots, CreateInvoice(i)
  PROVE  /\ Invoices(request[i]) /\ subs'[request[i].row].invoice = "open"
         /\ RowsLast /\ \A k \in DOMAIN subs \ {request[i].row} : subs'[k] = subs[k]
<1>1. Invoices(request[i])
  BY DEF CreateInvoice, At, Invoices
<1>2. request[i].row \in DOMAIN subs
  BY <1>1, InvoicedRow
<1> QED BY <1>1, <1>2, RowCount, InvoiceRows DEF CreateInvoice

(* A served request that is to make an invoice afterwards had its row         *)
(* inserted now, or was to make one before.                                   *)
LEMMA InvoiceStage ==
  ASSUME XInv, NEW i \in Slots, Serves(i) \/ Fails(i), RowsLast, Invoices(request'[i])
  PROVE  Invoices(request[i]) /\ request'[i].row = request[i].row
<1> DEFINE r == request[i]
<1>1. AtServer(i) /\ JobFits(r, Len(subs)) /\ r \in Jobs /\ r.kind = "upgrade"
      /\ request = [j \in Slots |-> request[j]]
  BY ServedOne, AtKind DEF Same, Invoices, XInv, RequestsFit, Free
<1>2. UpgradeReadsPlan(i) \/ CreateSubscription(i) \/ CreateInvoice(i) \/ Fails(i)
  BY <1>1 DEF Serves, GetCurrentSubscription, CheckPaymentLimit, CreatePayment, CreatePeriod,
     IncrementPaymentUsage, CancelSubscription, AssignMerchantPlan,
     AdminDeleteMerchant, AdminDeleteUser, UpdatePlan, ListAllPlans, At, JobFits
<1>3. CASE \E ok \in BOOLEAN : request'[i] = Reply(r, ok)
  BY <1>1, <1>3 DEF Reply, Jobs, Invoices
<1>4. CASE UpgradeReadsPlan(i) /\ ~\E ok \in BOOLEAN : request'[i] = Reply(r, ok)
  <2>1. request'[i] = [r EXCEPT !.stage = "insert", !.first = plan[r.plan].price]
    BY <1>1, <1>4 DEF UpgradeReadsPlan, GoesOn
  <2>2. request'[i].stage = "insert"
    BY <1>1, <2>1 DEF Jobs
  <2> QED BY <2>2 DEF Invoices
<1>5. CASE CreateSubscription(i) /\ ~\E ok \in BOOLEAN : request'[i] = Reply(r, ok)
  <2>1. PICK t : subs' = Append(subs, t)
    BY <1>1, <1>5 DEF CreateSubscription, GoesOn, NeedsInvoice
  <2>2. Len(subs) \in Nat /\ DOMAIN subs' = 1..(Len(subs) + 1) /\ DOMAIN subs = 1..Len(subs)
    BY <2>1, RowCount, RowsAreNumbered, AppendProperties DEF RowsInv
  <2>3. Len(subs) + 1 \in DOMAIN subs' /\ Len(subs) + 1 \notin DOMAIN subs
    BY <2>2
  <2> QED BY <2>3 DEF RowsLast
<1>6. CASE CreateInvoice(i) \/ Fails(i)
  <2>1. \E ok \in BOOLEAN : request'[i] = Reply(r, ok)
    BY <1>1, <1>6 DEF CreateInvoice, Fails, GoesOn
  <2> QED BY <1>3, <2>1
<1> QED BY <1>2, <1>3, <1>4, <1>5, <1>6

LEMMA PaidServed ==
  ASSUME XInv, PaidInv, NEW i \in Slots, Serves(i) \/ Fails(i)
  PROVE  PaidInv'
<1> DEFINE r == request[i]
<1>0. RowsInv /\ Len(subs) \in Nat /\ faults \in Nat
  BY RowCount DEF XInv, ActsBounded
<1>1. \A j \in Slots : j # i => request'[j] = request[j]
  BY ServedOne
<1>2. faults' = 0 => faults = 0 /\ ~Fails(i)
  <2>1. UNCHANGED faults \/ faults' = faults + 1
    BY DEF Serves, Fails, GetCurrentSubscription, CheckPaymentLimit, CreatePayment, CreatePeriod,
       IncrementPaymentUsage, UpgradeReadsPlan, CreateSubscription, CreateInvoice,
       CancelSubscription, AssignMerchantPlan, AdminDeleteMerchant, AdminDeleteUser,
       UpdatePlan, ListAllPlans, Stays
  <2>2. Fails(i) => faults' = faults + 1
    BY DEF Fails
  <2> QED BY <1>0, <2>1, <2>2
<1>3. \A n \in DOMAIN subs : RowPaid(n) /\ RowInvoiced(n)
  BY DEF PaidInv
<1>4. CASE /\ RowsLast
           /\ \A k \in DOMAIN subs :
                subs'[k].invoice = subs[k].invoice \/ (CreateInvoice(i) /\ k = request[i].row)
  <2>1. DOMAIN subs' = DOMAIN subs /\ \A n \in DOMAIN subs : Lasts(subs[n], subs'[n])
    BY <1>4 DEF RowsLast
  <2>2. ASSUME NEW n \in DOMAIN subs
        PROVE  RowPaid(n)'
    <3>1. Lasts(subs[n], subs'[n]) /\ RowPaid(n)
      BY <1>3, <2>1
    <3>2. subs[n].first = 0 => subs'[n].invoice = subs[n].invoice
      <4>1. CASE CreateInvoice(i) /\ n = r.row
        BY <4>1, InvoiceMade DEF PaidInv
      <4>2. CASE ~(CreateInvoice(i) /\ n = r.row)
        BY <1>4, <4>2
      <4> QED BY <4>1, <4>2
    <3> QED BY <3>1, <3>2 DEF Lasts, RowPaid
  <2>3. ASSUME NEW n \in DOMAIN subs
        PROVE  RowInvoiced(n)'
    <3>1. SUFFICES ASSUME faults' = 0, subs'[n].invoice = "none", subs'[n].first # 0
                   PROVE  WillInvoice(n)'
      BY DEF RowInvoiced
    <3>2. ~(CreateInvoice(i) /\ n = r.row)
      BY <3>1, InvoiceMade
    <3>3. WillInvoice(n)
      BY <1>2, <1>3, <1>4, <2>1, <3>1, <3>2 DEF RowInvoiced, Lasts
    <3>4. PICK j \in Slots : Invoices(request[j]) /\ request[j].at = "server" /\ request[j].row = n
      BY <3>3 DEF WillInvoice
    <3>5. j # i
      BY <1>2, <3>1, <3>2, <3>4, InvoiceIsNext
    <3> QED BY <1>1, <3>4, <3>5 DEF WillInvoice
  <2>4. ASSUME NEW j \in Slots, Invoices(request'[j])
        PROVE  subs'[request'[j].row].first # 0
    <3>1. Invoices(request[j]) /\ request'[j].row = request[j].row
      BY <1>1, <1>4, <2>4, InvoiceStage
    <3>2. request[j].row \in DOMAIN subs /\ subs[request[j].row].first # 0
      BY <3>1, InvoicedRow DEF PaidInv
    <3> QED BY <2>1, <3>1, <3>2 DEF Lasts
  <2> QED BY <2>1, <2>2, <2>3, <2>4 DEF PaidInv, Invoices
<1>5. ASSUME NEW s, AddsRow(i, s)
      PROVE  PaidInv'
  <2>1. /\ DOMAIN subs' = DOMAIN subs \cup {Len(subs) + 1}
        /\ subs'[Len(subs) + 1] = s /\ \A n \in DOMAIN subs : subs'[n] = subs[n]
    BY <1>0, <1>5, RowAddedLive DEF AddsRow, RowsInv
  <2>2. ASSUME NEW n \in DOMAIN subs
        PROVE  RowPaid(n)' /\ RowInvoiced(n)'
    <3>1. RowPaid(n) /\ RowInvoiced(n) /\ subs'[n] = subs[n] /\ faults' = faults
      BY <1>3, <1>5, <2>1 DEF AddsRow
    <3>2. ASSUME WillInvoice(n)
          PROVE  WillInvoice(n)'
      <4>1. PICK j \in Slots : Invoices(request[j]) /\ request[j].at = "server" /\ request[j].row = n
        BY <3>2 DEF WillInvoice
      <4>2. j # i
        BY <1>5, <4>1 DEF AddsRow, Invoices
      <4> QED BY <1>1, <4>1, <4>2 DEF WillInvoice
    <3> QED BY <3>1, <3>2 DEF RowPaid, RowInvoiced
  <2>3. ASSUME NEW n, n = Len(subs) + 1
        PROVE  RowPaid(n)' /\ RowInvoiced(n)'
    <3>1. RowPaid(n)'
      BY <1>5, <2>1, <2>3 DEF AddsRow, RowPaid
    <3>2. s.first # 0 => WillInvoice(n)'
      BY <1>5, <2>3 DEF AddsRow, WillInvoice, Invoices
    <3>3. RowInvoiced(n)'
      BY <2>1, <2>3, <3>2 DEF RowInvoiced
    <3> QED BY <3>1, <3>3
  <2>4. ASSUME NEW j \in Slots, Invoices(request'[j])
        PROVE  subs'[request'[j].row].first # 0
    <3>1. CASE j = i
      BY <1>5, <2>1, <2>4, <3>1 DEF AddsRow, Invoices
    <3>2. CASE j # i
      BY <1>1, <2>1, <2>4, <3>2, InvoicedRow DEF PaidInv
    <3> QED BY <3>1, <3>2
  <2> QED BY <2>1, <2>2, <2>3, <2>4 DEF PaidInv, Invoices
<1> QED BY <1>4, <1>5, ServedRows

LEMMA PaidStep ==
  ASSUME XInv, PaidInv, [Next]_vars
  PROVE  PaidInv'
<1>1. CASE PageActs
  <2>1. PICK K : UNCHANGED <<subs, faults>> /\ PageMoves(K)
    BY <1>1, PagesMove, PagesMoveSlots DEF Elsewhere
  <2>2. ASSUME NEW n, WillInvoice(n)
        PROVE  WillInvoice(n)'
    <3>1. PICK j \in Slots : Invoices(request[j]) /\ request[j].at = "server" /\ request[j].row = n
      BY <2>2 DEF WillInvoice
    <3>2. ~Replaced(j)
      BY <3>1 DEF Replaced, Invoices, Free
    <3>3. Invoices(request'[j]) /\ request'[j].at = "server" /\ request'[j].row = n
      BY <2>1, <3>1, <3>2 DEF PageMoves, Moves, Left, Rest, Invoices
    <3> QED BY <3>3 DEF WillInvoice
  <2>3. ASSUME NEW j \in Slots, Invoices(request'[j])
        PROVE  subs[request'[j].row].first # 0
    <3>1. ~First(request'[j]) /\ request'[j] # Free
      BY <2>3 DEF First, FirstStages, Free, Invoices
    <3>2. Invoices(request[j]) /\ request'[j].row = request[j].row
      BY <2>1, <2>3, <3>1 DEF PageMoves, Moves, Left, Rest, Invoices
    <3> QED BY <3>2 DEF PaidInv
  <2>4. ASSUME NEW n \in DOMAIN subs
        PROVE  RowPaid(n)' /\ RowInvoiced(n)'
    <3>1. RowPaid(n) /\ RowInvoiced(n)
      BY DEF PaidInv
    <3> QED BY <2>1, <2>2, <3>1 DEF RowPaid, RowInvoiced
  <2> QED BY <2>1, <2>3, <2>4 DEF PaidInv, Invoices
<1>2. ASSUME NEW n \in DOMAIN subs, HandlePaymentWebhook(n)
      PROVE  PaidInv'
  <2>1. /\ UNCHANGED <<faults, request>> /\ subs[n].invoice = "open"
        /\ subs' = [subs EXCEPT ![n].invoice = "paid"]
    BY <1>2, WebhookTyped DEF HandlePaymentWebhook, Stays
  <2>2. /\ DOMAIN subs' = DOMAIN subs /\ \A k \in DOMAIN subs \ {n} : subs'[k] = subs[k]
        /\ subs'[n].invoice = "paid" /\ Lasts(subs[n], subs'[n])
    BY <1>2, <2>1, RowCount, InvoiceRows, WebhookTyped DEF RowsLast
  <2>3. \A k : WillInvoice(k) => WillInvoice(k)'
    BY <2>1 DEF WillInvoice
  <2>4. ASSUME NEW k \in DOMAIN subs
        PROVE  RowPaid(k)' /\ RowInvoiced(k)'
    <3>1. RowPaid(k) /\ RowInvoiced(k)
      BY DEF PaidInv
    <3>2. CASE k = n
      BY <2>1, <2>2, <3>1, <3>2 DEF RowPaid, RowInvoiced, Lasts
    <3>3. CASE k # n
      BY <2>1, <2>2, <2>3, <3>1, <3>3 DEF RowPaid, RowInvoiced
    <3> QED BY <3>2, <3>3
  <2>5. ASSUME NEW j \in Slots, Invoices(request[j])
        PROVE  subs'[request[j].row].first # 0
    <3>1. request[j].row \in DOMAIN subs /\ subs[request[j].row].first # 0
      BY <2>5, InvoicedRow DEF PaidInv
    <3> QED BY <2>2, <3>1 DEF Lasts
  <2> QED BY <2>1, <2>2, <2>4, <2>5 DEF PaidInv, Invoices
<1>3. CASE UNCHANGED vars
  BY <1>3 DEF vars, PaidInv, RowPaid, RowInvoiced, WillInvoice, Invoices
<1> QED BY <1>1, <1>2, <1>3, PaidServed DEF Next, PageActs

LEMMA PaidForAll ==
  ASSUME XInv, PaidInv
  PROVE  PlansArePaidFor
<1>1. ASSUME NEW m \in Merchants, NEW n \in Live(m)
      PROVE  n \in DOMAIN subs /\ RowPaid(n) /\ RowInvoiced(n)
  BY LiveIsRow DEF PaidInv
<1>2. PaidPlansArePaid
  <2>1. ASSUME NEW m \in Merchants, NEW n \in Live(m), subs[n].status = "active", subs[n].by = "self",
               subs[n].price > 0
        PROVE  FALSE
    BY <1>1, <2>1 DEF RowPaid
  <2> QED BY <2>1 DEF PaidPlansArePaid
<1>3. InvoiceAsPriced
  <2>1. ASSUME faults = 0, NEW m \in Merchants, NEW n \in Live(m), subs[n].first = subs[n].price,
               ~Underway(n)
        PROVE  subs[n].invoice = "none" <=> subs[n].price = 0
    <3>1. ~WillInvoice(n)
      BY <2>1 DEF WillInvoice, Underway, Invoices, Free
    <3> QED BY <1>1, <2>1, <3>1 DEF RowPaid, RowInvoiced
  <2> QED BY <2>1 DEF InvoiceAsPriced
<1> QED BY <1>2, <1>3 DEF PlansArePaidFor

(* For any plans and prices, however upgrades, edits, assignments and         *)
(* failures interleave: no plan that cost something is active unpaid, and     *)
(* one that waits has its invoice.                                            *)
THEOREM PlansPaidFor == Spec => []PlansArePaidFor
<1>1. Init => XInv /\ PaidInv
  <2>1. ASSUME Init
        PROVE  PaidInv
    <3>1. ASSUME NEW n \in DOMAIN subs
          PROVE  RowPaid(n) /\ RowInvoiced(n)
      BY <2>1, FirstRows DEF FreeRow, RowPaid, RowInvoiced
    <3>2. \A j \in Slots : ~Invoices(request[j])
      BY <2>1 DEF Init, Invoices, loadData, Job, Free
    <3> QED BY <3>1, <3>2 DEF PaidInv
  <2> QED BY <2>1, XInvInit
<1>2. XInv /\ PaidInv /\ [Next]_vars => (XInv /\ PaidInv)'
  BY XInvStep, PaidStep
<1> QED BY <1>1, <1>2, PaidForAll, PTL DEF Spec

-------------------------------------------------------------------------------
(* The limit: payments are counted and refused.  A payment that was asked for *)
(* is on its way to be made, waits, or succeeded; one that succeeded is       *)
(* counted, or on its way to be.                                              *)

Pending(k, m) == {i \in Slots : request[i].kind = k /\ request[i].merchant = m}
Counted(m) == IF usage[m] = NoRow THEN 0 ELSE usage[m]
Making(m) == Cardinality(Pending("pay", m))
Counting(m) == Cardinality(Pending("complete", m))

CountFits(m) ==
  /\ open[m] + done[m] + Making(m) <= asked
  /\ Counted(m) + Counting(m) <= done[m]
  /\ faults = 0 /\ ~raced => Counted(m) + Counting(m) = done[m]
AgainHasRow(r) == r.kind = "complete" /\ r.stage = "again" => usage[r.merchant] # NoRow
CountInv == (\A m \in Merchants : CountFits(m)) /\ \A i \in Slots : AgainHasRow(request[i])

LEMMA PendingFinite ==
  ASSUME NEW k, NEW m
  PROVE  /\ IsFiniteSet(Pending(k, m)) /\ Cardinality(Pending(k, m)) \in Nat
         /\ IsFiniteSet(Pending(k, m)') /\ Cardinality(Pending(k, m)') \in Nat
<1>1. IsFiniteSet(Slots)
  BY FS_Interval, SubscriptionsAssumption DEF Slots
<1>2. Pending(k, m) \subseteq Slots /\ Pending(k, m)' \subseteq Slots
  BY DEF Pending
<1> QED BY <1>1, <1>2, FS_Subset, FS_CardinalityType

LEMMA PendingMoves ==
  ASSUME NEW k, NEW m, NEW i \in Slots, IsFiniteSet(Pending(k, m)),
         \A j \in Slots \ {i} : j \in Pending(k, m)' <=> j \in Pending(k, m)
  PROVE  /\ (i \in Pending(k, m)' <=> i \in Pending(k, m)) =>
              Cardinality(Pending(k, m)') = Cardinality(Pending(k, m))
         /\ i \in Pending(k, m)' /\ i \notin Pending(k, m) =>
              Cardinality(Pending(k, m)') = Cardinality(Pending(k, m)) + 1
         /\ i \notin Pending(k, m)' /\ i \in Pending(k, m) =>
              Cardinality(Pending(k, m)') = Cardinality(Pending(k, m)) - 1
<1>1. Pending(k, m) \subseteq Slots /\ Pending(k, m)' \subseteq Slots
  BY DEF Pending
<1>2. CASE i \in Pending(k, m)' <=> i \in Pending(k, m)
  <2>1. Pending(k, m)' = Pending(k, m)
    BY <1>1, <1>2
  <2> QED BY <2>1
<1>3. CASE i \in Pending(k, m)' /\ i \notin Pending(k, m)
  <2>1. Pending(k, m)' = Pending(k, m) \cup {i}
    BY <1>1, <1>3
  <2> QED BY <1>3, <2>1, FS_AddElement
<1>4. CASE i \notin Pending(k, m)' /\ i \in Pending(k, m)
  <2>1. Pending(k, m)' = Pending(k, m) \ {i}
    BY <1>1, <1>4
  <2> QED BY <1>4, <2>1, FS_RemoveElement
<1> QED BY <1>2, <1>3, <1>4

(* A served request is out of its merchant's when it ends.                    *)
LEMMA ServedPending ==
  ASSUME XInv, NEW i \in Slots, Serves(i) \/ Fails(i), NEW k, NEW m, k # "none"
  PROVE  LET r == request[i] IN
         /\ ~(r.kind = k /\ r.merchant = m) \/ request'[i] # Free =>
              Cardinality(Pending(k, m)') = Cardinality(Pending(k, m))
         /\ r.kind = k /\ r.merchant = m /\ request'[i] = Free =>
              Cardinality(Pending(k, m)') = Cardinality(Pending(k, m)) - 1
<1> DEFINE r == request[i]
<1>1. /\ \A j \in Slots : j # i => request'[j] = request[j]
      /\ request'[i] = Free \/ Same(request'[i], r)
  BY ServedOne
<1>2. \A j \in Slots \ {i} : j \in Pending(k, m)' <=> j \in Pending(k, m)
  BY <1>1 DEF Pending
<1>3. i \in Pending(k, m) <=> r.kind = k /\ r.merchant = m
  BY DEF Pending
<1>4. request'[i] = Free => i \notin Pending(k, m)'
  BY DEF Pending, Free
<1>5. request'[i] # Free => (i \in Pending(k, m)' <=> i \in Pending(k, m))
  BY <1>1 DEF Pending, Same
<1> QED BY <1>2, <1>3, <1>4, <1>5, PendingFinite, PendingMoves

(* A request sent for a payment is one more, and no other page's request is.  *)
LEMMA PagePending ==
  ASSUME XInv, NEW K, PageMoves(K), NEW k \in {"pay", "complete"}, k \notin K, NEW m
  PROVE  Pending(k, m)' = Pending(k, m)
<1>1. ASSUME NEW j \in Slots
      PROVE  j \in Pending(k, m)' <=> j \in Pending(k, m)
  <2>1. Fits(request[j]) /\ Moves(j, K)
    BY DEF XInv, RequestsFit, PageMoves
  <2>2. request[j].kind = k => ~Replaced(j) /\ ~OfPage(request[j])
    BY <2>1 DEF Fits, JobFits, Replaced, OfPage, Free
  <2>3. request'[j].kind = k => request'[j] = request[j]
    BY <2>1 DEF Moves, Left, OfPage, Free
  <2> QED BY <2>1, <2>2, <2>3 DEF Pending, Moves
<1>2. Pending(k, m) \subseteq Slots /\ Pending(k, m)' \subseteq Slots
  BY DEF Pending
<1> QED BY <1>1, <1>2

LEMMA SentPending ==
  ASSUME XInv, NEW q, q.kind # "none", Send(q), NEW k, NEW m
  PROVE  /\ q.kind = k /\ q.merchant = m => Cardinality(Pending(k, m)') = Cardinality(Pending(k, m)) + 1
         /\ ~(q.kind = k /\ q.merchant = m) /\ k # "none" =>
              Cardinality(Pending(k, m)') = Cardinality(Pending(k, m))
<1>1. PICK i \in Slots : request[i] = Free /\ request' = [request EXCEPT ![i] = q]
  BY DEF Send, FreeSlots
<1>2. request'[i] = q /\ \A j \in Slots : j # i => request'[j] = request[j]
  BY <1>1 DEF XInv, RequestsFit
<1>3. \A j \in Slots \ {i} : j \in Pending(k, m)' <=> j \in Pending(k, m)
  BY <1>2 DEF Pending
<1>4. k # "none" => i \notin Pending(k, m)
  BY <1>1 DEF Pending, Free
<1>5. i \in Pending(k, m)' <=> q.kind = k /\ q.merchant = m
  BY <1>2 DEF Pending
<1> QED BY <1>3, <1>4, <1>5, PendingFinite, PendingMoves

(* What the server's steps do to what is counted.                             *)
Counts(i) ==
  /\ IncrementPaymentUsage(i) /\ request[i].kind = "complete" /\ request'[i] = Free
  /\ usage[request[i].merchant] # NoRow
  /\ \A m \in Merchants : Counted(m)' = IF m = request[i].merchant THEN Counted(m) + 1 ELSE Counted(m)
CountsSame == \A m \in Merchants : Counted(m)' = Counted(m)

LEMMA TroubleStays ==
  ASSUME XInv, NEW i \in Slots, Serves(i) \/ Fails(i)
  PROVE  /\ UNCHANGED <<done, asked, adminActs>> /\ (raced => raced')
         /\ faults' = 0 => faults = 0 /\ ~Fails(i)
<1>1. faults \in Nat
  BY DEF XInv, ActsBounded
<1>2. UNCHANGED <<done, asked, adminActs>>
  BY DEF Serves, Fails, GetCurrentSubscription, CheckPaymentLimit, CreatePayment, CreatePeriod,
     IncrementPaymentUsage, UpgradeReadsPlan, CreateSubscription, CreateInvoice,
     CancelSubscription, AssignMerchantPlan, AdminDeleteMerchant, AdminDeleteUser,
     UpdatePlan, ListAllPlans, Stays, payments, acts
<1>5. UNCHANGED raced \/ CreatePeriod(i)
  BY DEF Serves, Fails, GetCurrentSubscription, CheckPaymentLimit, CreatePayment,
     IncrementPaymentUsage, UpgradeReadsPlan, CreateSubscription, CreateInvoice,
     CancelSubscription, AssignMerchantPlan, AdminDeleteMerchant, AdminDeleteUser,
     UpdatePlan, ListAllPlans, counts
<1>6. raced => raced'
  BY <1>5 DEF CreatePeriod, createUsagePeriod
<1>3. UNCHANGED faults \/ faults' = faults + 1
  BY DEF Serves, Fails, GetCurrentSubscription, CheckPaymentLimit, CreatePayment, CreatePeriod,
     IncrementPaymentUsage, UpgradeReadsPlan, CreateSubscription, CreateInvoice,
     CancelSubscription, AssignMerchantPlan, AdminDeleteMerchant, AdminDeleteUser,
     UpdatePlan, ListAllPlans, Stays
<1>4. Fails(i) => faults' = faults + 1
  BY DEF Fails
<1> QED BY <1>1, <1>2, <1>3, <1>4, <1>6

LEMMA UsageMoves ==
  ASSUME XInv, NEW i \in Slots, Serves(i) \/ Fails(i), AgainHasRow(request[i])
  PROVE  LET r == request[i] IN
         /\ \A m \in Merchants : usage[m] # NoRow => usage'[m] # NoRow
         /\ Counts(i) \/ CountsSame
         /\ r.kind = "complete" /\ request'[i] = Free => Counts(i) \/ Fails(i) \/ raced'
         /\ AgainHasRow(request[i])'
         /\ \/ UNCHANGED open
            \/ r.kind = "pay" /\ request'[i] = Free /\ open' = [open EXCEPT ![r.merchant] = @ + 1]
<1> DEFINE r == request[i]
           m == r.merchant
<1> USE DEF GoesOn, Ends, NoRow
<1>1. AtServer(i) /\ JobFits(r, Len(subs)) /\ r \in Jobs /\ request = [j \in Slots |-> request[j]]
      /\ usage \in [Merchants -> Nat \cup {NoRow}]
  BY ServedOne, AtKind DEF XInv, ServerTyped, RequestsFit
<1>2. CASE IncrementPaymentUsage(i)
  <2>1. r.kind = "complete" /\ m \in Merchants /\ r.stage \in {"update", "again"}
    BY <1>1, <1>2 DEF IncrementPaymentUsage, JobFits, OfMerchant
  <2>2. CASE usage[m] = NoRow
    <3>1. r.stage = "update"
      BY <2>1, <2>2 DEF AgainHasRow
    <3>2. request' = [request EXCEPT ![i] = [r EXCEPT !.stage = "create"]] /\ UNCHANGED <<usage, open>>
      BY <1>2, <2>2, <3>1 DEF IncrementPaymentUsage, payments
    <3>3. request'[i].stage = "create" /\ request'[i].kind = "complete"
      BY <1>1, <2>1, <3>2 DEF Jobs
    <3> QED BY <3>2, <3>3 DEF CountsSame, Counted, AgainHasRow, Free
  <2>3. CASE usage[m] # NoRow
    <3>1. request'[i] = Free /\ usage' = [usage EXCEPT ![m] = @ + 1] /\ UNCHANGED open
      BY <1>1, <1>2, <2>3 DEF IncrementPaymentUsage, payments
    <3>2. usage[m] \in Nat
      BY <1>1, <2>1, <2>3
    <3>3. usage'[m] = usage[m] + 1 /\ usage'[m] # NoRow
          /\ \A n \in Merchants : n # m => usage'[n] = usage[n]
      BY <1>1, <2>1, <3>1, <3>2
    <3>4. Counts(i)
      BY <1>2, <2>1, <2>3, <3>1, <3>3 DEF Counts, Counted
    <3> QED BY <3>1, <3>3, <3>4 DEF AgainHasRow, Free
  <2> QED BY <2>2, <2>3
<1>3. CASE CreatePeriod(i)
  <2>1. r.kind \in {"load", "pay", "complete"} /\ m \in Merchants
    BY <1>1, <1>3 DEF CreatePeriod, JobFits, OfMerchant
  <2>2. usage' = (IF usage[m] = NoRow THEN [usage EXCEPT ![m] = 0] ELSE usage) /\ UNCHANGED open
        /\ (usage[m] # NoRow => raced')
    BY <1>3 DEF CreatePeriod, createUsagePeriod, payments
  <2>3. CountsSame /\ \A n \in Merchants : usage[n] # NoRow => usage'[n] # NoRow
    BY <1>1, <2>1, <2>2 DEF CountsSame, Counted
  <2>4. usage'[m] # NoRow
    BY <1>1, <2>1, <2>2
  <2>5. AgainHasRow(request[i])'
    <3>1. request'[i] = Free \/ request'[i].merchant = m
      BY ServedOne DEF Same
    <3> QED BY <2>4, <3>1 DEF AgainHasRow, Free
  <2>6. r.kind = "complete" /\ request'[i] = Free => raced'
    <3>1. r.kind = "complete" /\ usage[m] = NoRow => request' = [request EXCEPT ![i] = [r EXCEPT !.stage = "again"]]
      BY <1>3 DEF CreatePeriod, AfterPeriod
    <3>2. r.kind = "complete" /\ usage[m] = NoRow => request'[i].kind = "complete"
      BY <1>1, <3>1 DEF Jobs
    <3> QED BY <2>2, <3>2 DEF Free
  <2> QED BY <2>2, <2>3, <2>5, <2>6
<1>4. CASE ~IncrementPaymentUsage(i) /\ ~CreatePeriod(i)
  <2>1. UNCHANGED usage
    BY <1>4 DEF Serves, Fails, GetCurrentSubscription, CheckPaymentLimit, CreatePayment, counts,
       UpgradeReadsPlan, CreateSubscription, CreateInvoice, CancelSubscription, AssignMerchantPlan,
       AdminDeleteMerchant, AdminDeleteUser, UpdatePlan, ListAllPlans
  <2>2. CountsSame
    BY <2>1 DEF CountsSame, Counted
  <2>3. r.kind = "complete" => Fails(i) /\ request'[i] = Free
    <3>1. r.kind = "complete" => Fails(i)
      BY <1>4 DEF Serves, GetCurrentSubscription, CheckPaymentLimit, CreatePayment,
         UpgradeReadsPlan, CreateSubscription, CreateInvoice, CancelSubscription, AssignMerchantPlan,
         AdminDeleteMerchant, AdminDeleteUser, UpdatePlan, ListAllPlans, At
    <3>2. r.kind = "complete" /\ Fails(i) => request'[i] = Free
      BY <1>1 DEF Fails
    <3> QED BY <3>1, <3>2
  <2>4. AgainHasRow(request[i])'
    <3>1. request'[i] = Free \/ request'[i].kind = r.kind
      BY ServedOne DEF Same
    <3> QED BY <2>3, <3>1 DEF AgainHasRow, Free
  <2>5. CASE CreatePayment(i)
    <3>1. r.kind = "pay" /\ request'[i] = Free /\ open' = [open EXCEPT ![m] = @ + 1]
      BY <1>1, <2>5 DEF CreatePayment, At
    <3> QED BY <2>1, <2>2, <2>4, <3>1
  <2>6. CASE ~CreatePayment(i)
    <3>1. UNCHANGED open
      BY <1>4, <2>6 DEF Serves, Fails, GetCurrentSubscription, CheckPaymentLimit, payments,
         UpgradeReadsPlan, CreateSubscription, CreateInvoice, CancelSubscription, AssignMerchantPlan,
         AdminDeleteMerchant, AdminDeleteUser, UpdatePlan, ListAllPlans
    <3> QED BY <2>1, <2>2, <2>3, <2>4, <3>1
  <2> QED BY <2>5, <2>6
<1> QED BY <1>2, <1>3, <1>4

LEMMA CountTypes ==
  ASSUME XInv, NEW m \in Merchants
  PROVE  /\ open[m] \in Nat /\ done[m] \in Nat /\ asked \in Nat /\ Counted(m) \in Nat
         /\ Making(m) \in Nat /\ Counting(m) \in Nat /\ Making(m)' \in Nat /\ Counting(m)' \in Nat
<1>1. /\ open \in [Merchants -> Nat] /\ done \in [Merchants -> Nat] /\ asked \in Nat
      /\ usage \in [Merchants -> Nat \cup {NoRow}]
  BY DEF XInv, ServerTyped, ActsBounded
<1>2. Counted(m) \in Nat
  BY <1>1 DEF Counted
<1>3. Making(m) \in Nat /\ Counting(m) \in Nat /\ Making(m)' \in Nat /\ Counting(m)' \in Nat
  BY PendingFinite DEF Making, Counting
<1> QED BY <1>1, <1>2, <1>3

LEMMA CountServed ==
  ASSUME XInv, CountInv, NEW i \in Slots, Serves(i) \/ Fails(i)
  PROVE  CountInv'
<1> DEFINE r == request[i]
<1>1. AgainHasRow(r)
  BY DEF CountInv
<1>2. /\ \A m \in Merchants : usage[m] # NoRow => usage'[m] # NoRow
      /\ Counts(i) \/ CountsSame
      /\ r.kind = "complete" /\ request'[i] = Free => Counts(i) \/ Fails(i) \/ raced'
      /\ AgainHasRow(request[i])'
      /\ \/ UNCHANGED open
         \/ r.kind = "pay" /\ request'[i] = Free /\ open' = [open EXCEPT ![r.merchant] = @ + 1]
  BY <1>1, UsageMoves
<1>3. /\ UNCHANGED <<done, asked>> /\ (raced => raced')
      /\ faults' = 0 => faults = 0 /\ ~Fails(i)
  BY TroubleStays
<1>4. ASSUME NEW m \in Merchants
      PROVE  CountFits(m)'
  <2>1. /\ open[m] \in Nat /\ done[m] \in Nat /\ asked \in Nat /\ Counted(m) \in Nat
        /\ Making(m) \in Nat /\ Counting(m) \in Nat /\ Making(m)' \in Nat /\ Counting(m)' \in Nat
    BY CountTypes
  <2>2. CountFits(m) /\ done'[m] = done[m]
    BY <1>3 DEF CountInv
  <2>3. open \in [Merchants -> Nat]
    BY DEF XInv, ServerTyped
  <2>4. /\ ~(r.kind = "pay" /\ r.merchant = m) \/ request'[i] # Free => Making(m)' = Making(m)
        /\ r.kind = "pay" /\ r.merchant = m /\ request'[i] = Free => Making(m)' = Making(m) - 1
    BY ServedPending DEF Making
  <2>5. /\ ~(r.kind = "complete" /\ r.merchant = m) \/ request'[i] # Free => Counting(m)' = Counting(m)
        /\ r.kind = "complete" /\ r.merchant = m /\ request'[i] = Free => Counting(m)' = Counting(m) - 1
    BY ServedPending DEF Counting
  <2>6. open'[m] + Making(m)' <= open[m] + Making(m) /\ open'[m] \in Nat
    <3>1. CASE r.kind = "pay" /\ r.merchant = m /\ request'[i] = Free
      <4>1. open'[m] \in {open[m], open[m] + 1}
        BY <1>2, <2>3, <3>1
      <4> QED BY <2>1, <2>4, <3>1, <4>1
    <3>2. CASE ~(r.kind = "pay" /\ r.merchant = m /\ request'[i] = Free)
      <4>1. open'[m] = open[m]
        BY <1>2, <2>3, <3>2
      <4> QED BY <2>1, <2>4, <3>2, <4>1
    <3> QED BY <3>1, <3>2
  <2>7. /\ Counted(m)' + Counting(m)' <= Counted(m) + Counting(m) /\ Counted(m)' \in Nat
        /\ faults' = 0 /\ ~raced' => Counted(m)' + Counting(m)' = Counted(m) + Counting(m)
    <3>1. CASE r.kind = "complete" /\ r.merchant = m /\ request'[i] = Free
      <4>1. Counted(m)' \in {Counted(m), Counted(m) + 1}
        BY <1>2, <2>1 DEF Counts, CountsSame
      <4>2. faults' = 0 /\ ~raced' => Counted(m)' = Counted(m) + 1
        BY <1>2, <1>3, <3>1 DEF Counts
      <4> QED BY <2>1, <2>5, <3>1, <4>1, <4>2
    <3>2. CASE ~(r.kind = "complete" /\ r.merchant = m /\ request'[i] = Free)
      <4>1. Counted(m)' = Counted(m)
        BY <1>2, <3>2 DEF Counts, CountsSame
      <4> QED BY <2>1, <2>5, <3>2, <4>1
    <3> QED BY <3>1, <3>2
  <2>8. open'[m] + done'[m] + Making(m)' <= asked'
    BY <1>3, <2>1, <2>2, <2>6 DEF CountFits
  <2>9. Counted(m)' + Counting(m)' <= done'[m]
        /\ (faults' = 0 /\ ~raced' => Counted(m)' + Counting(m)' = done'[m])
    BY <1>3, <2>1, <2>2, <2>7 DEF CountFits
  <2> QED BY <2>8, <2>9 DEF CountFits
<1>5. ASSUME NEW j \in Slots
      PROVE  AgainHasRow(request[j])'
  <2>1. CASE j = i
    BY <1>2, <2>1
  <2>2. CASE j # i
    <3>1. request'[j] = request[j] /\ AgainHasRow(request[j]) /\ Fits(request[j])
      BY <2>2, ServedOne DEF CountInv, XInv, RequestsFit
    <3>2. request[j].kind = "complete" => request[j].merchant \in Merchants
      BY <3>1, FreeIsNoJob DEF Fits, JobFits, OfMerchant
    <3> QED BY <1>2, <3>1, <3>2 DEF AgainHasRow
  <2> QED BY <2>1, <2>2
<1> QED BY <1>4, <1>5 DEF CountInv

LEMMA CountStep ==
  ASSUME XInv, CountInv, [Next]_vars
  PROVE  CountInv'
<1>1. ASSUME NEW K, PageMoves(K), UNCHANGED usage
      PROVE  \A j \in Slots : AgainHasRow(request[j])'
  <2>1. ASSUME NEW j \in Slots
        PROVE  AgainHasRow(request[j])'
    <3>1. AgainHasRow(request[j]) /\ Moves(j, K)
      BY <1>1 DEF CountInv, PageMoves
    <3>2. CASE request'[j] = request[j]
      BY <1>1, <3>1, <3>2 DEF AgainHasRow
    <3>3. CASE request'[j] = Free \/ First(request'[j])
      BY <3>3 DEF AgainHasRow, Free, First, FirstStages
    <3>4. CASE OfPage(request[j]) /\ Left(request'[j], request[j])
      BY <3>4 DEF AgainHasRow, OfPage, Left
    <3> QED BY <3>1, <3>2, <3>3, <3>4 DEF Moves
  <2> QED BY <2>1
<1>2. CASE PageActs
  <2>1. UNCHANGED <<usage, raced, faults>> /\ \A m \in Merchants : Counted(m)' = Counted(m)
    BY <1>2, PagesMove DEF Elsewhere, Counted
  <2>2. CASE Manages \/ Browses
    <3>1. /\ \A m \in Merchants : Making(m)' = Making(m) /\ Counting(m)' = Counting(m)
          /\ UNCHANGED <<open, done, asked>>
      BY <2>2, PagePending DEF Manages, Browses, Pages, AdminWrites, Making, Counting
    <3>2. \A m \in Merchants : CountFits(m)'
      BY <2>1, <3>1 DEF CountInv, CountFits
    <3> QED BY <1>1, <2>1, <2>2, <3>2 DEF Manages, Browses, CountInv
  <2>3. ASSUME NEW m \in Merchants, Asks(m)
        PROVE  CountInv'
    <3>1. PICK j, b, q : /\ j = Job("pay", "check", m, None)
                         /\ q = [j EXCEPT !.full = b, !.acts = adminActs] /\ Send(q)
      BY <2>3 DEF Asks, PaymentAsked
    <3>2. q.kind = "pay" /\ q.merchant = m
      BY <3>1 DEF Job
    <3>3. \A k \in Merchants : Making(k)' = IF k = m THEN Making(k) + 1 ELSE Making(k)
      <4>1. q.kind # "none" /\ Send(q)
        BY <3>1, <3>2
      <4> QED BY <3>2, <4>1, SentPending DEF Making
    <3>4. \A k \in Merchants : Counting(k)' = Counting(k)
      BY <2>3, PagePending DEF Asks, Counting
    <3>5. ASSUME NEW k \in Merchants
          PROVE  CountFits(k)'
      <4>1. CountFits(k) /\ open'[k] = open[k] /\ done'[k] = done[k] /\ asked' = asked + 1
        BY <2>3 DEF Asks, CountInv
      <4>2. Making(k)' <= Making(k) + 1
        BY <3>3, CountTypes
      <4> QED BY <2>1, <3>4, <4>1, <4>2, CountTypes DEF CountFits
    <3> QED BY <1>1, <2>1, <2>3, <3>5 DEF Asks, CountInv
  <2>4. ASSUME NEW m \in Merchants, Succeeds(m)
        PROVE  CountInv'
    <3>1. PICK q : q = Job("complete", "update", m, None) /\ Send(q)
      BY <2>4 DEF Succeeds, PaymentSucceeds
    <3>2. q.kind = "complete" /\ q.merchant = m
      BY <3>1 DEF Job
    <3>3. \A k \in Merchants : Counting(k)' = IF k = m THEN Counting(k) + 1 ELSE Counting(k)
      BY <3>1, <3>2, SentPending DEF Counting
    <3>4. \A k \in Merchants : Making(k)' = Making(k)
      BY <2>4, PagePending DEF Succeeds, Making
    <3>5. ASSUME NEW k \in Merchants
          PROVE  CountFits(k)'
      <4>0. open \in [Merchants -> Nat] /\ done \in [Merchants -> Nat] /\ open[m] > 0
        BY <2>4, RowCount DEF Succeeds, PaymentSucceeds
      <4>1. CountFits(k) /\ asked' = asked
        BY <2>4 DEF Succeeds, CountInv
      <4>2. /\ open'[k] = (IF k = m THEN open[k] - 1 ELSE open[k])
            /\ done'[k] = (IF k = m THEN done[k] + 1 ELSE done[k])
        BY <2>4, <4>0 DEF Succeeds, PaymentSucceeds
      <4>3. open'[k] + done'[k] = open[k] + done[k] /\ open'[k] \in Nat /\ done'[k] \in Nat
        BY <4>0, <4>2
      <4>4. Counting(k)' - done'[k] = Counting(k) - done[k]
        BY <3>3, <4>0, <4>2, CountTypes
      <4>5. /\ Making(k) \in Nat /\ Counting(k) \in Nat /\ Counting(k)' \in Nat /\ Counted(k) \in Nat
            /\ open[k] \in Nat /\ done[k] \in Nat /\ asked \in Nat
        BY CountTypes
      <4>6. open'[k] + done'[k] + Making(k)' <= asked'
        BY <3>4, <4>1, <4>3, <4>5 DEF CountFits
      <4>7. Counted(k)' + Counting(k)' <= done'[k]
            /\ (faults' = 0 /\ ~raced' => Counted(k)' + Counting(k)' = done'[k])
        BY <2>1, <4>1, <4>3, <4>4, <4>5 DEF CountFits
      <4> QED BY <4>6, <4>7 DEF CountFits
    <3> QED BY <1>1, <2>1, <2>4, <3>5 DEF Succeeds, CountInv
  <2> QED BY <1>2, <2>2, <2>3, <2>4, PagesMove
<1>3. CASE UNCHANGED vars \/ \E n \in DOMAIN subs : HandlePaymentWebhook(n)
  <2>1. UNCHANGED <<request, usage, raced, open, done, asked, faults>>
    BY <1>3 DEF vars, HandlePaymentWebhook, counts, payments, Stays
  <2>2. \A k, m : Pending(k, m)' = Pending(k, m)
    BY <2>1 DEF Pending
  <2>3. \A m \in Merchants : Making(m)' = Making(m) /\ Counting(m)' = Counting(m) /\ Counted(m)' = Counted(m)
    BY <2>1, <2>2 DEF Making, Counting, Counted
  <2> QED BY <2>1, <2>3 DEF CountInv, CountFits, AgainHasRow
<1> QED BY <1>2, <1>3, CountServed DEF Next, PageActs

LEMMA CountInit ==
  ASSUME Init
  PROVE  CountInv
<1>1. \A k \in {"pay", "complete"}, m \in Merchants : Pending(k, m) = {}
  BY DEF Init, Pending, loadData, Job, Free
<1>2. \A m \in Merchants : Making(m) = 0 /\ Counting(m) = 0 /\ Counted(m) = 0
  BY <1>1, FS_EmptySet DEF Making, Counting, Counted, Init
<1>3. \A m \in Merchants : CountFits(m)
  BY <1>2 DEF CountFits, Init
<1>4. \A j \in Slots : AgainHasRow(request[j])
  BY DEF Init, AgainHasRow, loadData, Job, Free
<1> QED BY <1>3, <1>4 DEF CountInv

LEMMA AllAreCounted ==
  ASSUME XInv, CountInv
  PROVE  PaymentsCounted
<1>1. SUFFICES ASSUME faults = 0, ~raced, Quiet, NEW m \in Merchants
               PROVE  done[m] = Counted(m)
  BY DEF PaymentsCounted, Counted
<1>2. Pending("complete", m) = {}
  BY <1>1 DEF Pending, Quiet, FreeSlots, Free
<1>3. Counting(m) = 0
  BY <1>2, FS_EmptySet DEF Counting
<1>4. CountFits(m) /\ Counted(m) \in Nat /\ done[m] \in Nat
  BY CountTypes DEF CountInv
<1> QED BY <1>1, <1>3, <1>4 DEF CountFits

(* For any merchants and plans: the types, one live row per merchant, and no  *)
(* more payments open or made than were asked for.                            *)
THEOREM SubscriptionsTyping == Spec => []TypeOK
<1>1. Init => XInv /\ CountInv
  BY XInvInit, CountInit
<1>2. XInv /\ CountInv /\ [Next]_vars => (XInv /\ CountInv)'
  BY XInvStep, CountStep
<1>3. ASSUME XInv, CountInv
      PROVE  TypeOK
  <2>1. /\ ServerTyped /\ PagesTyped /\ ActsBounded /\ RowsInv /\ Len(subs) \in Nat
        /\ open \in [Merchants -> Nat] /\ done \in [Merchants -> Nat]
        /\ usage \in [Merchants -> Nat \cup {NoRow}]
    BY <1>3, RowCount DEF XInv, ServerTyped
  <2>2. ASSUME NEW m \in Merchants
        PROVE  /\ open[m] + done[m] <= asked /\ open[m] \in 0..MaxActs /\ done[m] \in 0..MaxActs
               /\ usage[m] \in NoRow..MaxActs
    <3>1. /\ open[m] \in Nat /\ done[m] \in Nat /\ asked \in Nat /\ Counted(m) \in Nat
          /\ Making(m) \in Nat /\ Counting(m) \in Nat /\ CountFits(m)
      BY <1>3, CountTypes DEF CountInv
    <3>2. asked <= MaxActs
      BY <2>1, SubscriptionsAssumption DEF ActsBounded
    <3>3. open[m] + done[m] <= asked /\ Counted(m) <= done[m]
      BY <3>1 DEF CountFits
    <3>4. usage[m] \in NoRow..MaxActs
      BY <2>1, <3>1, <3>2, <3>3, SubscriptionsAssumption DEF Counted, NoRow
    <3> QED BY <3>1, <3>2, <3>3, <3>4, SubscriptionsAssumption
  <2>3. ASSUME NEW m \in Merchants
        PROVE  Cardinality(Live(m)) <= 1
    <3>1. CASE Live(m) = {}
      BY <3>1, FS_EmptySet
    <3>2. ASSUME NEW n \in Live(m)
          PROVE  Cardinality(Live(m)) <= 1
      <4>1. Live(m) = {n}
        BY <2>1, <3>2 DEF RowsInv, OneLive
      <4>2. Cardinality(Live(m)) = 1
        BY <4>1, FS_Singleton
      <4> QED BY <4>2
    <3> QED BY <3>1, <3>2
  <2>4. subs \in Seq([merchant : Merchants, plan : Plans, status : LiveStatuses \cup {"cancelled"},
                   renew : BOOLEAN, by : {"self", "admin"}, price : {0, 1}, first : {0, 1},
                   invoice : {"none", "open", "paid"}, metadata : 0..Len(subs), late : BOOLEAN])
    <3> DEFINE T == [merchant : Merchants, plan : Plans, status : LiveStatuses \cup {"cancelled"},
                   renew : BOOLEAN, by : {"self", "admin"}, price : {0, 1}, first : {0, 1},
                   invoice : {"none", "open", "paid"}, metadata : 0..Len(subs), late : BOOLEAN]
    <3>1. Subs \subseteq T
      BY <2>1 DEF Subs
    <3>2. subs \in [1..Len(subs) -> T]
      BY <2>1, <3>1, RowsAreNumbered, LenProperties DEF RowsInv
    <3> HIDE DEF T
    <3>3. subs \in Seq(T)
      BY <2>1, <3>2, SeqDef
    <3> QED BY <3>3 DEF T
  <2>5. /\ usage \in [Merchants -> NoRow..MaxActs]
        /\ open \in [Merchants -> 0..MaxActs] /\ done \in [Merchants -> 0..MaxActs]
    BY <2>1, <2>2
  <2>6. /\ asked \in 0..MaxActs /\ adminActs \in 0..MaxActs
        /\ faults \in 0..MaxTrouble /\ hasty \in 0..MaxTrouble
    BY <2>1, SubscriptionsAssumption DEF ActsBounded
  <2> QED BY <2>1, <2>2, <2>3, <2>4, <2>5, <2>6 DEF TypeOK, ServerTyped, PagesTyped
<1> QED BY <1>1, <1>2, <1>3, PTL DEF Spec

-------------------------------------------------------------------------------
(* A payment asked for with the month's payments used up.  Nobody else was at *)
(* work, so what the administrator does later is seen in the acts; and        *)
(* nothing but the administrator's writes can raise the limit.                *)

AtLimit(m) == Limited(m) /\ usage[m] >= Limits[PlanOf(m)]
Full(r) == r.kind = "pay" /\ r.full /\ r.acts = adminActs
FullChecked(r) ==
  Full(r) => /\ r.stage = "check" /\ AtLimit(r.merchant)
             /\ \A j \in Slots : request[j].kind \notin AdminWrites
FullInv ==
  /\ \A i \in Slots : request[i].kind = "pay" => request[i].acts <= adminActs
  /\ faults = 0 => \A i \in Slots : FullChecked(request[i])

(* The limit is that of the plan of the live row.                             *)
LimitOf(p, m) == plan[p].active /\ Limits[p] # Unlimited /\ usage[m] >= Limits[p]

LEMMA LimitIsLive ==
  RowsInv => \A m \in Merchants : \A n \in Live(m) : AtLimit(m) <=> LimitOf(subs[n].plan, m)
<1>1. ASSUME RowsInv, NEW m \in Merchants, NEW n \in Live(m)
      PROVE  AtLimit(m) <=> LimitOf(subs[n].plan, m)
  <2>1. PlanOf(m) = subs[n].plan
    BY <1>1, ViewIsLive DEF PlanOf
  <2> QED BY <1>1, <2>1 DEF AtLimit, Limited, Served, LimitOf
<1> QED BY <1>1

LEMMA LimitIsLiveNext ==
  (RowsInv => \A m \in Merchants : \A n \in Live(m) : AtLimit(m) <=> LimitOf(subs[n].plan, m))'
BY LimitIsLive, PTL

(* Who else is served then is not the administrator, and leaves the limit.    *)
LEMMA LimitStays ==
  ASSUME XInv, NEW m \in Merchants, AtLimit(m), UNCHANGED plan,
         usage[m] # NoRow => usage'[m] \in Nat /\ usage'[m] >= usage[m],
         \/ /\ DOMAIN subs' = DOMAIN subs /\ subs' \in Seq(Subs)
            /\ \A n \in DOMAIN subs : /\ Lasts(subs[n], subs'[n])
                                      /\ subs'[n].status = subs[n].status
         \/ \E s : RowAdded(s)
  PROVE  AtLimit(m)'
<1>1. Live(m) # {} /\ RowsInv /\ usage[m] \in Nat \cup {NoRow}
      /\ Limits \in [Plans -> Nat \cup {Unlimited}]
  BY RowCount, SubscriptionsAssumption DEF AtLimit, Limited, Served, XInv, ServerTyped
<1>2. PICK n \in Live(m) : TRUE
  BY <1>1
<1>3. n \in DOMAIN subs /\ subs[n] \in Subs
  BY <1>1, <1>2, LiveIsRow, RowsAreNumbered DEF RowsInv
<1>4. n \in Live(m)' /\ subs'[n].plan = subs[n].plan /\ RowsInv'
  <2>1. CASE \E s : RowAdded(s)
    <3>1. PICK s : RowAdded(s)
      BY <2>1
    <3>2. s.merchant # m
      BY <1>1, <3>1 DEF RowAdded
    <3>3. RowsInv'
      BY <1>1, <2>1, SubsMoveLonger DEF SubsMove
    <3>4. Live(m)' = Live(m) /\ subs'[n] = subs[n]
      BY <1>1, <1>3, <3>1, <3>2, RowAddedLive DEF RowsInv
    <3> QED BY <1>2, <3>3, <3>4
  <2>2. CASE /\ DOMAIN subs' = DOMAIN subs /\ subs' \in Seq(Subs)
             /\ \A k \in DOMAIN subs : /\ Lasts(subs[k], subs'[k])
                                       /\ subs'[k].status = subs[k].status
    <3>1. RowsInv'
      BY <1>1, <2>2, SubsMoveLonger DEF SubsMove, RowsLast
    <3>2. n \in Live(m)' /\ subs'[n].plan = subs[n].plan
      BY <1>2, <1>3, <2>2 DEF Live, Lasts
    <3> QED BY <3>1, <3>2
  <2> QED BY <2>1, <2>2
<1>5. LimitOf(subs[n].plan, m)
  BY <1>1, <1>2, LimitIsLive
<1>6. subs[n].plan \in Plans
  BY <1>3 DEF Subs
<1>7. usage[m] # NoRow
  BY <1>1, <1>5, <1>6 DEF LimitOf, NoRow, Unlimited
<1>8. LimitOf(subs[n].plan, m)'
  <2>1. Limits[subs[n].plan] \in Nat \cup {Unlimited} /\ usage[m] \in Nat
    BY <1>1, <1>6, <1>7
  <2>2. plan[subs[n].plan].active /\ Limits[subs[n].plan] # Unlimited /\ usage[m] >= Limits[subs[n].plan]
    BY <1>5 DEF LimitOf
  <2>3. usage'[m] >= Limits[subs[n].plan]
    BY <1>7, <2>1, <2>2
  <2> QED BY <1>4, <2>2, <2>3 DEF LimitOf
<1> QED BY <1>4, <1>8, LimitIsLiveNext

LEMMA LimitServed ==
  ASSUME XInv, NEW i \in Slots, Serves(i), request[i].kind \notin AdminWrites,
         NEW m \in Merchants, AtLimit(m)
  PROVE  AtLimit(m)'
<1>0. RowsInv /\ usage \in [Merchants -> Nat \cup {NoRow}]
  BY RowCount DEF XInv, ServerTyped
<1>1. \/ GetCurrentSubscription(i) \/ CheckPaymentLimit(i) \/ CreatePayment(i) \/ CreatePeriod(i)
      \/ IncrementPaymentUsage(i) \/ UpgradeReadsPlan(i) \/ CreateSubscription(i)
      \/ CreateInvoice(i) \/ CancelSubscription(i) \/ ListAllPlans(i)
  BY DEF Serves, AssignMerchantPlan, AdminDeleteMerchant, AdminDeleteUser, UpdatePlan, At, AdminWrites
<1>2. UNCHANGED plan
  BY <1>1 DEF GetCurrentSubscription, CheckPaymentLimit, CreatePayment, CreatePeriod,
     IncrementPaymentUsage, UpgradeReadsPlan, CreateSubscription, CreateInvoice, CancelSubscription,
     ListAllPlans
<1>3. usage[m] # NoRow => usage'[m] \in Nat /\ usage'[m] >= usage[m]
  <2>1. CASE CreatePeriod(i)
    BY <1>0, <2>1 DEF CreatePeriod, createUsagePeriod
  <2>2. CASE IncrementPaymentUsage(i)
    BY <1>0, <2>2 DEF IncrementPaymentUsage
  <2>3. CASE ~CreatePeriod(i) /\ ~IncrementPaymentUsage(i)
    <3>1. UNCHANGED usage
      BY <1>1, <2>3 DEF GetCurrentSubscription, CheckPaymentLimit, CreatePayment, counts,
         UpgradeReadsPlan, CreateSubscription, CreateInvoice, CancelSubscription, ListAllPlans
    <3> QED BY <1>0, <3>1
  <2> QED BY <2>1, <2>2, <2>3
<1>4. \/ /\ DOMAIN subs' = DOMAIN subs /\ subs' \in Seq(Subs)
         /\ \A n \in DOMAIN subs : /\ Lasts(subs[n], subs'[n])
                                   /\ subs'[n].status = subs[n].status
      \/ \E s : RowAdded(s)
  <2>1. CASE UNCHANGED subs
    BY <1>0, <2>1 DEF RowsInv, Lasts
  <2>2. CASE CreateSubscription(i)
    BY <2>1, <2>2, CreatedRow DEF AddsRow
  <2>3. CASE CreateInvoice(i)
    <3>1. request[i].row \in DOMAIN subs
      BY <2>3, InvoiceMade, InvoicedRow
    <3>2. SubsMove /\ RowsLast /\ \A k \in DOMAIN subs : subs'[k].status = subs[k].status
      BY <1>0, <2>3, <3>1, InvoiceRows DEF CreateInvoice
    <3> QED BY <1>0, <3>2, SubsMoveLonger DEF RowsLast, RowsInv
  <2>4. CASE CancelSubscription(i)
    <3>1. SubsMove /\ RowsLast /\ \A k \in DOMAIN subs : subs'[k].status = subs[k].status
      BY <1>0, <2>4, RenewalRows DEF CancelSubscription
    <3> QED BY <1>0, <3>1, SubsMoveLonger DEF RowsLast, RowsInv
  <2> QED BY <1>1, <2>1, <2>2, <2>3, <2>4 DEF GetCurrentSubscription, CheckPaymentLimit,
          CreatePayment, CreatePeriod, IncrementPaymentUsage, UpgradeReadsPlan, ListAllPlans
<1> QED BY <1>2, <1>3, <1>4, LimitStays

(* The check of a payment at the limit refuses it.                            *)
LEMMA FullRefused ==
  ASSUME XInv, NEW i \in Slots, Serves(i), request[i].kind = "pay", request[i].stage = "check",
         AtLimit(request[i].merchant)
  PROVE  request'[i] = Free
<1> DEFINE m == request[i].merchant
<1>1. CheckPaymentLimit(i)
  BY DEF Serves, GetCurrentSubscription, CreatePayment, CreatePeriod, IncrementPaymentUsage,
     UpgradeReadsPlan, CreateSubscription, CreateInvoice, CancelSubscription, AssignMerchantPlan,
     AdminDeleteMerchant, AdminDeleteUser, UpdatePlan, ListAllPlans, At
<1>2. m \in Merchants /\ RowsInv /\ request = [j \in Slots |-> request[j]]
      /\ usage \in [Merchants -> Nat \cup {NoRow}] /\ AtServer(i)
  BY <1>1, AtKind, RowCount DEF XInv, ServerTyped, RequestsFit, CheckPaymentLimit, At, JobFits, OfMerchant
<1>3. Limited(m) /\ usage[m] >= Limits[PlanOf(m)] /\ Live(m) # {} /\ Served(m)
      /\ Limits[PlanOf(m)] # Unlimited
  BY DEF AtLimit, Limited, Served
<1>4. PlanOf(m) \in Plans
  BY <1>2, <1>3, ViewTyped
<1>5. usage[m] # NoRow /\ Exceeded(m, PlanOf(m))
  BY <1>2, <1>3, <1>4, SubscriptionsAssumption DEF Exceeded, NoRow, Unlimited
<1>6. request' = [request EXCEPT ![i] = Free]
  BY <1>1, <1>3, <1>5 DEF CheckPaymentLimit, GoesOn
<1> QED BY <1>2, <1>6

LEMMA FullServed ==
  ASSUME XInv, FullInv, NEW i \in Slots, Serves(i) \/ Fails(i)
  PROVE  FullInv'
<1>1. /\ \A j \in Slots : j # i => request'[j] = request[j]
      /\ request'[i] = Free \/ Same(request'[i], request[i])
  BY ServedOne
<1>2. UNCHANGED adminActs /\ (faults' = 0 => faults = 0 /\ ~Fails(i))
  BY TroubleStays
<1>3. ASSUME NEW j \in Slots, request'[j].kind = "pay"
      PROVE  request'[j].acts = request[j].acts /\ request[j].kind = "pay"
             /\ request'[j].full = request[j].full /\ request'[j].merchant = request[j].merchant
  BY <1>1, <1>3 DEF Same, Free
<1>4. ASSUME faults' = 0, NEW j \in Slots, Full(request[j])'
      PROVE  FullChecked(request[j])'
  <2>1. faults = 0 /\ Serves(i) /\ Full(request[j]) /\ request'[j].merchant = request[j].merchant
    BY <1>2, <1>3, <1>4 DEF Full
  <2>2. /\ request[j].stage = "check" /\ AtLimit(request[j].merchant)
        /\ \A k \in Slots : request[k].kind \notin AdminWrites
    BY <2>1 DEF FullInv, FullChecked
  <2>3. j # i
    BY <1>4, <2>1, <2>2, FullRefused DEF Full, Free
  <2>4. Fits(request[j]) /\ request[j].kind = "pay"
    BY <2>1 DEF XInv, RequestsFit, Full
  <2>5. request[j].merchant \in Merchants
    BY <2>4, FreeIsNoJob DEF Fits, JobFits, OfMerchant
  <2>6. AtLimit(request[j].merchant)'
    <3>1. PICK m \in Merchants : m = request[j].merchant
      BY <2>5
    <3>2. AtLimit(m)'
      BY <2>1, <2>2, <3>1, LimitServed
    <3> QED BY <1>1, <2>3, <3>1, <3>2
  <2>7. \A k \in Slots : request'[k].kind \notin AdminWrites
    BY <1>1, <2>2 DEF Same, Free, AdminWrites
  <2> QED BY <1>1, <2>2, <2>3, <2>6, <2>7 DEF FullChecked
<1>5. \A j \in Slots : request'[j].kind = "pay" => request'[j].acts <= adminActs'
  BY <1>2, <1>3 DEF FullInv
<1> QED BY <1>4, <1>5 DEF FullInv, FullChecked

LEMMA FullPages ==
  ASSUME XInv, FullInv, PageActs
  PROVE  FullInv'
<1>1. UNCHANGED <<plan, subs, usage, faults>>
  BY PagesMove DEF Elsewhere
<1>2. ASSUME NEW m
      PROVE  AtLimit(m)' = AtLimit(m)
  BY <1>1 DEF AtLimit, Limited, Served, PlanOf, ViewOf, Live
<1>3. adminActs \in Nat
  BY DEF XInv, ActsBounded
<1>4. ASSUME NEW K, PageMoves(K), "pay" \notin K,
             \/ adminActs' = adminActs + 1
             \/ UNCHANGED adminActs /\ K \cap AdminWrites = {}
      PROVE  FullInv'
  <2>1. ASSUME NEW j \in Slots, request'[j].kind = "pay"
        PROVE  request'[j] = request[j]
    BY <1>4, <2>1 DEF PageMoves, Moves, Left, OfPage, Free
  <2>2. \A j \in Slots : request'[j].kind = "pay" => request'[j].acts <= adminActs'
    <3>1. ASSUME NEW j \in Slots, request'[j].kind = "pay"
          PROVE  request'[j].acts <= adminActs'
      <4>1. request[j].kind = "pay" /\ request'[j].acts = request[j].acts
        BY <2>1, <3>1
      <4>2. request[j].acts \in Nat /\ request[j].acts <= adminActs
        BY <4>1, FreeIsNoJob DEF FullInv, XInv, RequestsFit, Fits, JobFits, Jobs
      <4> QED BY <1>3, <1>4, <4>1, <4>2
    <3> QED BY <3>1
  <2>3. ASSUME faults' = 0, NEW j \in Slots, Full(request[j])'
        PROVE  FullChecked(request[j])'
    <3>1. request'[j] = request[j] /\ request[j].kind = "pay" /\ request[j].acts = adminActs'
      BY <2>1, <2>3 DEF Full
    <3>2. request[j].acts \in Nat /\ request[j].acts <= adminActs
      BY <3>1, FreeIsNoJob DEF FullInv, XInv, RequestsFit, Fits, JobFits, Jobs
    <3>3. UNCHANGED adminActs /\ K \cap AdminWrites = {}
      BY <1>3, <1>4, <3>1, <3>2
    <3>4. Full(request[j]) /\ faults = 0
      BY <1>1, <2>3, <3>1, <3>3 DEF Full
    <3>5. /\ request[j].stage = "check" /\ AtLimit(request[j].merchant)
          /\ \A k \in Slots : request[k].kind \notin AdminWrites
      BY <3>4 DEF FullInv, FullChecked
    <3>6. \A k \in Slots : request'[k].kind \notin AdminWrites
      BY <1>4, <3>3, <3>5 DEF PageMoves, Moves, Left, Free, AdminWrites
    <3>7. AtLimit(request[j].merchant)'
      <4>1. PICK m : m = request[j].merchant
        OBVIOUS
      <4>2. AtLimit(m)'
        BY <1>2, <3>5, <4>1
      <4> QED BY <3>1, <4>1, <4>2
    <3> QED BY <3>1, <3>5, <3>6, <3>7 DEF FullChecked
  <2> QED BY <2>2, <2>3 DEF FullInv, FullChecked
<1>5. CASE Manages
  BY <1>4, <1>5 DEF Manages, AdminWrites
<1>6. CASE Browses
  BY <1>4, <1>6 DEF Browses, AdminWrites, Pages
<1>7. ASSUME NEW m \in Merchants, Succeeds(m)
      PROVE  FullInv'
  BY <1>4, <1>7 DEF Succeeds, AdminWrites
<1>8. ASSUME NEW m \in Merchants, Asks(m)
      PROVE  FullInv'
  <2>1. PICK x, b, q : /\ x = Job("pay", "check", m, None) /\ b = (Quiet /\ AtLimit(m))
                       /\ q = [x EXCEPT !.full = b, !.acts = adminActs] /\ Send(q)
    BY <1>8 DEF Asks, PaymentAsked, AtLimit
  <2>2. q.kind = "pay" /\ q.merchant = m /\ q.stage = "check" /\ q.full = b /\ q.acts = adminActs
    BY <2>1 DEF Job
  <2>3. PICK i \in Slots : request[i] = Free /\ request' = [request EXCEPT ![i] = q]
    BY <2>1 DEF Send, FreeSlots
  <2>4. request'[i] = q /\ \A j \in Slots : j # i => request'[j] = request[j]
    BY <2>3 DEF XInv, RequestsFit
  <2>5. UNCHANGED adminActs
    BY <1>8 DEF Asks
  <2>6. \A j \in Slots : request'[j].kind = "pay" => request'[j].acts <= adminActs'
    BY <1>3, <2>2, <2>4, <2>5 DEF FullInv
  <2>7. \A k \in Slots : (\A j \in Slots : request[j].kind \notin AdminWrites) =>
                         request'[k].kind \notin AdminWrites
    BY <2>2, <2>4 DEF AdminWrites
  <2>8. ASSUME faults' = 0, NEW j \in Slots, Full(request[j])'
        PROVE  FullChecked(request[j])'
    <3>1. CASE j = i
      <4>1. Quiet /\ AtLimit(m)
        BY <2>1, <2>2, <2>4, <2>8, <3>1 DEF Full
      <4>2. \A k \in Slots : request[k].kind \notin AdminWrites
        BY <4>1 DEF Quiet, FreeSlots, Free, AdminWrites
      <4>3. AtLimit(m)'
        BY <1>2, <4>1
      <4>4. request'[j].merchant = m /\ request'[j].stage = "check"
        BY <2>2, <2>4, <3>1
      <4> QED BY <2>7, <4>2, <4>3, <4>4 DEF FullChecked
    <3>2. CASE j # i
      <4>1. request'[j] = request[j] /\ Full(request[j]) /\ faults = 0
        BY <1>1, <2>4, <2>5, <2>8, <3>2 DEF Full
      <4>2. /\ request[j].stage = "check" /\ AtLimit(request[j].merchant)
            /\ \A k \in Slots : request[k].kind \notin AdminWrites
        BY <4>1 DEF FullInv, FullChecked
      <4>3. AtLimit(request[j].merchant)'
        <5>1. PICK n : n = request[j].merchant
          OBVIOUS
        <5>2. AtLimit(n)'
          BY <1>2, <4>2, <5>1
        <5> QED BY <4>1, <5>1, <5>2
      <4> QED BY <2>7, <4>1, <4>2, <4>3 DEF FullChecked
    <3> QED BY <3>1, <3>2
  <2> QED BY <2>6, <2>8 DEF FullInv, FullChecked
<1> QED BY <1>5, <1>6, <1>7, <1>8, PagesMove

LEMMA FullStep ==
  ASSUME XInv, FullInv, [Next]_vars
  PROVE  FullInv'
<1>1. ASSUME NEW n \in DOMAIN subs, HandlePaymentWebhook(n)
      PROVE  FullInv'
  <2>1. UNCHANGED <<request, plan, usage, faults, adminActs>>
    BY <1>1 DEF HandlePaymentWebhook, Stays, counts, acts
  <2>2. /\ RowsInv /\ RowsInv' /\ RowsLast
        /\ \A k \in DOMAIN subs : subs'[k].status = subs[k].status
    BY <1>1, WebhookTyped, RowCount, InvoiceRows, SubsMoveLonger
  <2>3. ASSUME NEW m \in Merchants, AtLimit(m)
        PROVE  AtLimit(m)'
    <3>1. usage[m] # NoRow => usage'[m] \in Nat /\ usage'[m] >= usage[m]
      BY <2>1 DEF XInv, ServerTyped
    <3> QED BY <2>1, <2>2, <2>3, <3>1, LimitStays DEF RowsInv, RowsLast
  <2>4. ASSUME faults' = 0, NEW j \in Slots, Full(request[j])'
        PROVE  FullChecked(request[j])'
    <3>1. faults = 0 /\ Full(request[j]) /\ Fits(request[j])
      BY <2>1, <2>4 DEF Full, XInv, RequestsFit
    <3>2. /\ request[j].stage = "check" /\ AtLimit(request[j].merchant)
          /\ \A k \in Slots : request[k].kind \notin AdminWrites
      BY <3>1 DEF FullInv, FullChecked
    <3>3. PICK m \in Merchants : m = request[j].merchant
      BY <3>1, FreeIsNoJob DEF Full, Fits, JobFits, OfMerchant
    <3>4. AtLimit(m)'
      BY <2>3, <3>2, <3>3
    <3> QED BY <2>1, <3>2, <3>3, <3>4 DEF FullChecked
  <2> QED BY <2>1, <2>4 DEF FullInv, FullChecked
<1>2. CASE UNCHANGED vars
  <2>1. UNCHANGED <<request, plan, subs, usage, faults, adminActs>>
    BY <1>2 DEF vars
  <2>2. ASSUME NEW m
        PROVE  AtLimit(m)' = AtLimit(m)
    BY <2>1 DEF AtLimit, Limited, Served, PlanOf, ViewOf, Live
  <2>3. ASSUME NEW j \in Slots, FullChecked(request[j])
        PROVE  FullChecked(request[j])'
    <3>1. PICK m : m = request[j].merchant
      OBVIOUS
    <3>2. AtLimit(m)' = AtLimit(m)
      BY <2>2
    <3> QED BY <2>1, <2>3, <3>1, <3>2 DEF FullChecked, Full
  <2> QED BY <2>1, <2>3 DEF FullInv
<1> QED BY <1>1, <1>2, FullServed, FullPages DEF Next, PageActs

(* For any limits: a successful payment is counted, and a payment asked for   *)
(* with the month's payments used up is not made.                             *)
THEOREM PaymentsLimited == Spec => []LimitHolds
<1>1. Init => XInv /\ CountInv /\ FullInv
  <2>1. ASSUME Init
        PROVE  FullInv
    <3>1. \A j \in Slots : request[j].kind # "pay"
      BY <2>1 DEF Init, loadData, Job, Free
    <3> QED BY <3>1 DEF FullInv, FullChecked, Full
  <2> QED BY <2>1, XInvInit, CountInit
<1>2. XInv /\ CountInv /\ FullInv /\ [Next]_vars => (XInv /\ CountInv /\ FullInv)'
  BY XInvStep, CountStep, FullStep
<1>3. XInv /\ FullInv => RefusedAtLimit
  BY DEF FullInv, FullChecked, Full, RefusedAtLimit, At
<1>4. XInv /\ CountInv /\ FullInv => LimitHolds
  BY <1>3, AllAreCounted DEF LimitHolds
<1> QED BY <1>1, <1>2, <1>4, PTL DEF Spec

-------------------------------------------------------------------------------
(* The pages are true.  While every user waits and nothing failed, one user's *)
(* request is out at most; what the displays and what is stored may differ in *)
(* is what that request is about.                                             *)

ByUser(r) == r.kind \notin {"none", "pay", "complete"}
Idle == ~loading /\ upgrading = None /\ shown.view = ViewOf(merchantId)
PlansFit(q) ==
  /\ q.kind \notin {"save", "plans"} => adminRows = plan
  /\ q.kind # "save" \/ q.at = "page" => wanted = plan
  /\ q.kind = "save" => q.ok /\ (q.at = "server" =>
       adminRows = plan /\ wanted = [plan EXCEPT ![q.plan] = q.rows[q.plan]])
  /\ q.kind = "plans" => q.ok /\ (q.at = "page" => q.rows = plan)
PageFits(q) ==
  /\ q.kind \notin AdminWrites
  /\ q.kind = "plans" => Idle
  /\ q.kind \in {"load", "upgrade", "cancel"} => q.merchant = merchantId
  /\ q.kind = "load" =>
       /\ loading /\ upgrading = None /\ q.ok
       /\ q.at = "page" \/ q.stage = "create" => q.view = ViewOf(merchantId)
  /\ q.kind = "upgrade" =>
       /\ ~loading /\ (q.at = "server" => q.ok)
       /\ (q.stage \in {"plan", "insert"} /\ q.at = "server") \/ ~q.ok => shown.view = ViewOf(merchantId)
  /\ q.kind = "cancel" =>
       /\ ~loading /\ upgrading = None
       /\ q.at = "server" \/ ~q.ok => shown.view = ViewOf(merchantId)
UserFits(q) == q.here /\ PlansFit(q) /\ (adminActs = 0 => PageFits(q))
NobodyFits == adminRows = plan /\ wanted = plan /\ (adminActs = 0 => Idle)

Alone == \A i, j \in Slots : ByUser(request[i]) /\ ByUser(request[j]) => i = j
Calm ==
  /\ Alone /\ \A i \in Slots : ByUser(request[i]) => UserFits(request[i])
  /\ (\A i \in Slots : ~ByUser(request[i])) => NobodyFits
CalmInv == hasty = 0 /\ faults = 0 => Calm

Shows == UNCHANGED <<plan, adminRows, wanted, adminActs, merchantId, loading, shown, upgrading>>

LEMMA SameViewFits ==
  ASSUME Shows, ViewOf(merchantId)' = ViewOf(merchantId)
  PROVE  /\ NobodyFits => NobodyFits'
         /\ \A q : UserFits(q) => UserFits(q)'
<1>1. Idle => Idle'
  BY DEF Shows, Idle
<1>2. ASSUME NEW q, PlansFit(q)
      PROVE  PlansFit(q)'
  BY <1>2 DEF PlansFit, Shows
<1>3. ASSUME NEW q, PageFits(q)
      PROVE  PageFits(q)'
  BY <1>1, <1>3 DEF PageFits, Shows
<1>4. UNCHANGED <<plan, adminRows, wanted, adminActs>>
  BY DEF Shows
<1> QED BY <1>1, <1>2, <1>3, <1>4 DEF NobodyFits, UserFits

(* A step that leaves the users' requests and the view.                       *)
LEMMA CalmStays ==
  ASSUME Calm, Shows, ViewOf(merchantId)' = ViewOf(merchantId),
         \A j \in Slots : \/ request'[j] = request[j]
                          \/ ~ByUser(request[j]) /\ ~ByUser(request'[j])
  PROVE  Calm'
<1>1. \A j \in Slots : ByUser(request'[j]) => request'[j] = request[j]
  OBVIOUS
<1>2. \A j \in Slots : ByUser(request[j]) <=> ByUser(request'[j])
  OBVIOUS
<1>3. Alone'
  BY <1>2 DEF Calm, Alone, ByUser
<1>4. ASSUME NEW j \in Slots, ByUser(request'[j])
      PROVE  UserFits(request[j])'
  <2>1. PICK q : q = request[j] /\ q = request'[j] /\ UserFits(q)
    BY <1>1, <1>4 DEF Calm
  <2>2. UserFits(q)'
    BY <2>1, SameViewFits
  <2> QED BY <2>1, <2>2
<1>5. (\A j \in Slots : ~ByUser(request'[j])) => NobodyFits'
  BY <1>2, SameViewFits DEF Calm
<1> QED BY <1>3, <1>4, <1>5 DEF Calm, ByUser

(* A step of the one user's request, or of the first.                         *)
OnlyUser(i, q) ==
  /\ request'[i] = q
  /\ \A j \in Slots \ {i} : request'[j] = request[j] /\ ~ByUser(request[j])

LEMMA CalmOne ==
  ASSUME NEW i \in Slots, NEW q, OnlyUser(i, q),
         ByUser(q) => UserFits(q)', ~ByUser(q) => NobodyFits'
  PROVE  Calm'
<1>1. \A j \in Slots : ByUser(request'[j]) => j = i
  BY DEF OnlyUser
<1>2. request'[i] = q
  BY DEF OnlyUser
<1>3. Alone'
  BY <1>1 DEF Alone, ByUser
<1>4. \A j \in Slots : ByUser(request[j])' => UserFits(request[j])'
  <2>1. ASSUME NEW j \in Slots, ByUser(request[j])'
        PROVE  UserFits(request[j])'
    <3>1. j = i /\ ByUser(q)
      BY <1>1, <1>2, <2>1 DEF ByUser
    <3> QED BY <1>2, <3>1
  <2> QED BY <2>1
<1>5. (\A j \in Slots : ~ByUser(request[j])') => NobodyFits'
  BY <1>2 DEF ByUser
<1> QED BY <1>3, <1>4, <1>5 DEF Calm

(* The server at the one user's request.                                      *)
LEMMA OneUser ==
  ASSUME Calm, NEW i \in Slots, ByUser(request[i]),
         \A j \in Slots : j # i => request'[j] = request[j]
  PROVE  OnlyUser(i, request'[i]) /\ UserFits(request[i])
BY DEF Calm, Alone, OnlyUser

LEMMA OtherFits ==
  ASSUME NEW q, NEW r, PlansFit(r), q.kind = r.kind, q.here, r.kind \notin {"save", "plans"},
         UNCHANGED <<plan, adminRows, wanted>>, adminActs' = 0 => PageFits(q)'
  PROVE  UserFits(q)'
BY DEF UserFits, PlansFit

LEMMA LoadServed ==
  ASSUME XInv, Calm, NEW i \in Slots, request[i].kind = "load",
         GetCurrentSubscription(i) \/ CreatePeriod(i)
  PROVE  Calm'
<1> DEFINE r == request[i]
<1>1. AtServer(i) /\ r \in Jobs /\ Shows /\ UNCHANGED <<subs>>
  BY AtKind DEF XInv, GetCurrentSubscription, CreatePeriod, At, Stays, Shows, page, acts, AtServer
<1>2. Serves(i)
  BY DEF Serves
<1>3. \A j \in Slots : j # i => request'[j] = request[j]
  BY <1>2, ServedOne
<1>4. OnlyUser(i, request'[i]) /\ UserFits(r)
  BY <1>3, OneUser DEF ByUser
<1>5. ViewOf(merchantId)' = ViewOf(merchantId)
  BY <1>1 DEF Shows, ViewOf, Live
<1>6. PICK q : q = request'[i]
  OBVIOUS
<1>7. DOMAIN request = Slots
  BY DEF XInv, RequestsFit
<1>8. /\ q.kind = "load" /\ q.here = r.here /\ q.merchant = r.merchant
      /\ q.at = "page" => q.ok
      /\ q.at = "server" => q.ok = r.ok
      /\ adminActs = 0 => q.view = ViewOf(merchantId)
  <2>1. r.here /\ (adminActs = 0 => PageFits(r))
    BY <1>4 DEF UserFits
  <2>2. CASE GetCurrentSubscription(i)
    <3> DEFINE v == ViewOf(r.merchant)
               s == [r EXCEPT !.view = v, !.offers = {p \in Plans : plan[p].active}]
    <3>1. s.kind = "load" /\ s.here = r.here /\ s.merchant = r.merchant /\ s.ok = r.ok /\ s.view = v
      BY <1>1 DEF Jobs
    <3>2. q = [s EXCEPT !.stage = "create"] \/ q = Reply(s, TRUE)
      BY <1>6, <1>7, <2>2 DEF GetCurrentSubscription, GoesOn
    <3>3. DOMAIN s = DOMAIN r /\ {"stage", "at", "ok", "kind", "here", "merchant", "view"} \subseteq DOMAIN s
      BY <1>1 DEF Jobs
    <3>4. q.kind = s.kind /\ q.here = s.here /\ q.merchant = s.merchant /\ q.view = s.view
      BY <3>2, <3>3 DEF Reply
    <3>5. (q.at = "server" => q.ok = s.ok) /\ (q.at = "page" => q.ok)
      BY <1>1, <3>2, <3>3 DEF Reply, AtServer
    <3>6. adminActs = 0 => v = ViewOf(merchantId)
      BY <2>1 DEF PageFits
    <3> QED BY <3>1, <3>4, <3>5, <3>6
  <2>3. CASE CreatePeriod(i)
    <3>1. q = Reply(r, TRUE)
      BY <1>6, <1>7, <2>3 DEF CreatePeriod, GoesOn, AfterPeriod
    <3>2. q.kind = r.kind /\ q.here = r.here /\ q.merchant = r.merchant /\ q.view = r.view
          /\ q.ok /\ q.at = "page"
      BY <1>1, <3>1 DEF Reply, Jobs
    <3>3. adminActs = 0 => r.view = ViewOf(merchantId)
      BY <2>1, <2>3 DEF PageFits, CreatePeriod
    <3> QED BY <3>2, <3>3
  <2> QED BY <2>2, <2>3
<1>9. ASSUME adminActs = 0
      PROVE  PageFits(q)'
  <2>1. PageFits(r)
    BY <1>4, <1>9 DEF UserFits
  <2>2. /\ q.kind = "load" /\ q.merchant = merchantId' /\ q.ok
        /\ q.view = ViewOf(merchantId)'
    <3>1. q.at \in {"server", "page"}
      <4>1. JobFits(request'[i], Len(subs'))
        BY <1>2, ServedOne
      <4> QED BY <1>6, <4>1 DEF JobFits, Jobs
    <3> QED BY <1>1, <1>5, <1>8, <1>9, <2>1, <3>1 DEF PageFits, Shows
  <2>3. loading' /\ upgrading' = None
    BY <1>1, <2>1 DEF PageFits, Shows
  <2> QED BY <2>2, <2>3 DEF PageFits, AdminWrites
<1>10. UserFits(q)'
  <2>1. PlansFit(r) /\ r.here
    BY <1>4 DEF UserFits
  <2>2. UNCHANGED <<plan, adminRows, wanted, adminActs>>
    BY <1>1 DEF Shows
  <2> QED BY <1>8, <1>9, <2>1, <2>2, OtherFits
<1> QED BY <1>4, <1>6, <1>8, <1>10, CalmOne DEF ByUser

LEMMA UpgradeStep ==
  ASSUME XInv, NEW i \in Slots, NEW r, r = request[i],
         UpgradeReadsPlan(i) \/ CreateSubscription(i) \/ CreateInvoice(i), NEW q, q = request'[i]
  PROVE  /\ q.kind = "upgrade" /\ r.kind = "upgrade" /\ r.at = "server"
         /\ q.here = r.here /\ q.merchant = r.merchant
         /\ q.at = "server" => q.ok = r.ok /\ q.stage \in {"insert", "invoice"}
         /\ \/ q.at = "page" /\ q.ok
            \/ q.at = "server" /\ q.stage = "invoice"
            \/ r.stage \in {"plan", "insert"} /\ UNCHANGED subs
<1>1. AtServer(i) /\ r \in Jobs /\ r.at = "server" /\ r.kind = "upgrade"
  BY AtKind DEF XInv, UpgradeReadsPlan, CreateSubscription, CreateInvoice, At, AtServer
<1>2. DOMAIN request = Slots
  BY DEF XInv, RequestsFit
<1>3. CASE UpgradeReadsPlan(i)
  <2>1. \/ q = [r EXCEPT !.stage = "insert", !.first = plan[r.plan].price]
        \/ q = Reply(r, FALSE)
    BY <1>2, <1>3 DEF UpgradeReadsPlan, GoesOn
  <2>2. r.stage = "plan" /\ UNCHANGED subs
    BY <1>3 DEF UpgradeReadsPlan, At
  <2> QED BY <1>1, <2>1, <2>2 DEF Reply, Jobs
<1>4. CASE CreateSubscription(i)
  <2> DEFINE yes == plan[r.plan].active /\ Live(r.merchant) = {}
  <2>1. \/ ~yes /\ q = Reply(r, FALSE) /\ UNCHANGED subs
        \/ q = [r EXCEPT !.stage = "invoice", !.row = Len(subs) + 1]
        \/ q = Reply(r, TRUE)
    BY <1>2, <1>4 DEF CreateSubscription, GoesOn
  <2>2. r.stage = "insert"
    BY <1>4 DEF CreateSubscription, At
  <2>3. CASE q = [r EXCEPT !.stage = "invoice", !.row = Len(subs) + 1]
    BY <1>1, <2>3 DEF Jobs
  <2> QED BY <1>1, <2>1, <2>2, <2>3 DEF Reply, Jobs
<1>5. CASE CreateInvoice(i)
  <2>1. q = Reply(r, TRUE)
    BY <1>2, <1>5 DEF CreateInvoice, GoesOn
  <2> QED BY <1>1, <2>1 DEF Reply, Jobs
<1> QED BY <1>3, <1>4, <1>5

LEMMA CancelStep ==
  ASSUME XInv, NEW i \in Slots, NEW r, r = request[i], CancelSubscription(i), NEW q, q = request'[i]
  PROVE  /\ q.kind = "cancel" /\ r.kind = "cancel" /\ r.at = "server"
         /\ q.here = r.here /\ q.merchant = r.merchant /\ q.at = "page"
         /\ q.ok \/ ViewOf(r.merchant)' = ViewOf(r.merchant)
<1>1. AtServer(i) /\ JobFits(r, Len(subs)) /\ r \in Jobs /\ r.at = "server" /\ r.kind = "cancel"
  BY AtKind DEF XInv, CancelSubscription, At, AtServer
<1>2. PICK m \in Merchants : m = r.merchant
  BY <1>1 DEF JobFits, OfMerchant
<1>3. q = Reply(r, Live(m) # {})
  BY <1>2 DEF CancelSubscription, GoesOn, XInv, RequestsFit
<1>4. q.kind = r.kind /\ q.here = r.here /\ q.merchant = r.merchant /\ q.at = "page"
      /\ q.ok = (Live(m) # {})
  BY <1>1, <1>3 DEF Reply, Jobs
<1>5. ASSUME Live(m) = {}
      PROVE  ViewOf(m)' = ViewOf(m)
  <2>1. subs' = [n \in DOMAIN subs |-> subs[n]]
    BY <1>2, <1>5 DEF CancelSubscription
  <2>2. subs' = subs
    <3>1. subs \in Seq(Subs)
      BY DEF XInv, ServerTyped, RowsInv
    <3>2. subs = [n \in DOMAIN subs |-> subs[n]]
      BY <3>1
    <3> QED BY <2>1, <3>2
  <2> QED BY <2>2 DEF ViewOf, Live
<1>6. ViewOf(r.merchant)' = ViewOf(r.merchant) \/ Live(m) # {}
  BY <1>2, <1>5
<1> QED BY <1>1, <1>4, <1>6

LEMMA OwnerServed ==
  ASSUME XInv, Calm, NEW i \in Slots,
         UpgradeReadsPlan(i) \/ CreateSubscription(i) \/ CreateInvoice(i) \/ CancelSubscription(i)
  PROVE  Calm'
<1>1. PICK r, q : r = request[i] /\ q = request'[i]
  OBVIOUS
<1>2. Serves(i) /\ Shows
  BY DEF Serves, UpgradeReadsPlan, CreateSubscription, CreateInvoice, CancelSubscription, Stays,
         Shows, page, acts
<1>3. /\ q.kind = r.kind /\ q.here = r.here /\ q.merchant = r.merchant
      /\ r.kind \in {"upgrade", "cancel"}
  BY <1>1, UpgradeStep, CancelStep
<1>4. OnlyUser(i, q) /\ UserFits(r)
  <2>1. \A j \in Slots : j # i => request'[j] = request[j]
    BY <1>2, ServedOne
  <2> QED BY <1>1, <1>3, <2>1, OneUser DEF ByUser
<1>5. UNCHANGED subs => \A m : ViewOf(m)' = ViewOf(m)
  BY DEF ViewOf, Live
<1>6. PICK m : m = merchantId /\ m = merchantId'
  BY <1>2 DEF Shows
<1>7. ASSUME adminActs' = 0
      PROVE  PageFits(q)'
  <2>1. PageFits(r)
    BY <1>2, <1>4, <1>7 DEF UserFits, Shows
  <2>2. r.merchant = m /\ ~loading' /\ ~loading
    BY <1>2, <1>3, <1>6, <2>1 DEF PageFits, Shows
  <2>3. CASE r.kind = "upgrade"
    <3>1. UpgradeReadsPlan(i) \/ CreateSubscription(i) \/ CreateInvoice(i)
      BY <1>1, <2>3 DEF CancelSubscription, At
    <3>2. /\ q.at = "server" => q.ok = r.ok /\ q.stage \in {"insert", "invoice"}
          /\ r.at = "server"
          /\ \/ q.at = "page" /\ q.ok
             \/ q.at = "server" /\ q.stage = "invoice"
             \/ r.stage \in {"plan", "insert"} /\ UNCHANGED subs
      BY <1>1, <3>1, UpgradeStep
    <3>3. q.at = "server" => q.ok
      BY <2>1, <2>3, <3>2 DEF PageFits
    <3>4. (q.stage \in {"plan", "insert"} /\ q.at = "server") \/ ~q.ok => shown'.view = ViewOf(m)'
      <4>1. CASE r.stage \in {"plan", "insert"} /\ UNCHANGED subs
        <5>1. shown.view = ViewOf(m) /\ shown' = shown
          BY <1>2, <1>6, <2>1, <2>3, <3>2, <4>1 DEF PageFits, Shows
        <5> QED BY <1>5, <4>1, <5>1
      <4> QED BY <3>2, <3>3, <4>1
    <3> QED BY <1>3, <1>6, <2>2, <2>3, <3>3, <3>4 DEF PageFits, AdminWrites
  <2>4. CASE r.kind = "cancel"
    <3>1. CancelSubscription(i)
      BY <1>1, <2>4 DEF UpgradeReadsPlan, CreateSubscription, CreateInvoice, At
    <3>2. q.at = "page" /\ r.at = "server" /\ (q.ok \/ ViewOf(m)' = ViewOf(m))
      <4>1. q.at = "page" /\ r.at = "server" /\ (q.ok \/ ViewOf(r.merchant)' = ViewOf(r.merchant))
        BY <1>1, <3>1, CancelStep
      <4> QED BY <2>2, <4>1
    <3>3. shown'.view = ViewOf(m) /\ upgrading' = None
      BY <1>2, <1>6, <2>1, <2>4, <3>2 DEF PageFits, Shows
    <3> QED BY <1>3, <1>6, <2>2, <2>4, <3>2, <3>3 DEF PageFits, AdminWrites
  <2> QED BY <1>3, <2>3, <2>4
<1>8. UserFits(q)'
  BY <1>2, <1>3, <1>4, <1>7, OtherFits DEF UserFits, Shows
<1> QED BY <1>3, <1>4, <1>8, CalmOne DEF ByUser

LEMMA AdministratorServed ==
  ASSUME XInv, Calm, NEW i \in Slots, AssignMerchantPlan(i) \/ AdminDeleteMerchant(i) \/ AdminDeleteUser(i)
  PROVE  Calm'
<1>1. Serves(i) /\ Shows /\ request[i].kind \in AdminWrites \ {"save"} /\ AtServer(i)
  BY DEF Serves, AssignMerchantPlan, AdminDeleteMerchant, AdminDeleteUser, At, Stays, Shows, page,
         acts, AdminWrites
<1>2. PICK r, q : r = request[i] /\ q = request'[i]
  OBVIOUS
<1>3. r.kind \in AdminWrites \ {"save"} /\ (\A j \in Slots : j # i => request'[j] = request[j])
      /\ q.kind = r.kind /\ q.here = r.here
  BY <1>1, <1>2, ServedOne DEF Same, AdminWrites
<1>4. OnlyUser(i, q) /\ UserFits(r)
  BY <1>2, <1>3, OneUser DEF ByUser, AdminWrites
<1>5. PlansFit(r) /\ r.here /\ UNCHANGED <<plan, adminRows, wanted>> /\ adminActs' # 0
  BY <1>1, <1>3, <1>4 DEF UserFits, PageFits, Shows
<1>6. UserFits(q)'
  BY <1>3, <1>5, OtherFits DEF AdminWrites
<1> QED BY <1>3, <1>4, <1>6, CalmOne DEF ByUser, AdminWrites

LEMMA PlansServed ==
  ASSUME XInv, Calm, NEW i \in Slots, UpdatePlan(i) \/ ListAllPlans(i)
  PROVE  Calm'
<1>1. Serves(i) /\ request[i] \in Jobs /\ request[i].kind \in {"save", "plans"}
      /\ request[i].at = "server"
  BY AtKind DEF Serves, UpdatePlan, ListAllPlans, At, XInv
<1>2. PICK r, q : r = request[i] /\ q = request'[i]
  OBVIOUS
<1>3. \A j \in Slots : j # i => request'[j] = request[j]
  BY <1>1, ServedOne
<1>4. OnlyUser(i, q) /\ UserFits(r)
  BY <1>1, <1>2, <1>3, OneUser DEF ByUser
<1>5. UNCHANGED <<subs, merchantId, loading, shown, upgrading, adminRows, wanted, adminActs>>
  BY DEF UpdatePlan, ListAllPlans, Stays, page, acts
<1>6. CASE UpdatePlan(i)
  <2>1. q = Reply(r, TRUE)
    BY <1>2, <1>6 DEF UpdatePlan, GoesOn, XInv, RequestsFit
  <2>2. q.kind = "save" /\ r.kind = "save" /\ q.here = r.here /\ q.at = "page" /\ q.ok
    BY <1>1, <1>2, <1>6, <2>1 DEF Reply, Jobs, UpdatePlan, At
  <2>3. wanted' = plan' /\ adminActs' # 0 /\ r.here
    BY <1>1, <1>2, <1>4, <1>5, <1>6, <2>2
       DEF UserFits, PlansFit, PageFits, AdminWrites, UpdatePlan
  <2>4. UserFits(q)'
    BY <2>2, <2>3 DEF UserFits, PlansFit
  <2> QED BY <1>4, <2>2, <2>4, CalmOne DEF ByUser
<1>7. CASE ListAllPlans(i)
  <2> DEFINE s == [r EXCEPT !.rows = plan]
  <2>1. q = Reply(s, TRUE) /\ UNCHANGED plan
    BY <1>2, <1>7 DEF ListAllPlans, GoesOn, XInv, RequestsFit
  <2>2. s \in Jobs /\ s.kind = r.kind /\ s.here = r.here /\ s.rows = plan
    <3>1. plan \in [Plans -> PlanRows]
      BY DEF XInv, ServerTyped
    <3> QED BY <1>1, <1>2, <3>1 DEF Jobs
  <2>3. q.kind = "plans" /\ r.kind = "plans" /\ q.here = r.here /\ q.at = "page" /\ q.ok
        /\ q.rows = plan
    <3>1. r.kind = "plans"
      BY <1>2, <1>7 DEF ListAllPlans, At
    <3>2. q.kind = s.kind /\ q.here = s.here /\ q.at = "page" /\ q.ok /\ q.rows = s.rows
      BY <2>1, <2>2 DEF Reply, Jobs
    <3> QED BY <2>2, <3>1, <3>2
  <2>4. r.here /\ wanted = plan /\ (adminActs = 0 => Idle)
    BY <1>4, <2>3 DEF UserFits, PlansFit, PageFits
  <2>5. adminActs' = 0 => Idle'
    BY <1>5, <2>4 DEF Idle, ViewOf, Live
  <2>6. PlansFit(q)'
    BY <1>5, <2>1, <2>3, <2>4 DEF PlansFit
  <2>7. UserFits(q)'
    BY <2>3, <2>4, <2>5, <2>6 DEF UserFits, PageFits, AdminWrites
  <2> QED BY <1>4, <2>3, <2>7, CalmOne DEF ByUser
<1> QED BY <1>6, <1>7

LEMMA CalmServed ==
  ASSUME XInv, Calm, NEW i \in Slots, Serves(i)
  PROVE  Calm'
<1>1. ASSUME request[i].kind \in {"pay", "complete"},
             CheckPaymentLimit(i) \/ CreatePayment(i) \/ CreatePeriod(i) \/ IncrementPaymentUsage(i)
      PROVE  Calm'
  <2>1. Shows /\ UNCHANGED subs
    BY <1>1 DEF CheckPaymentLimit, CreatePayment, CreatePeriod, IncrementPaymentUsage, Stays, Shows,
                page, acts
  <2>2. ViewOf(merchantId)' = ViewOf(merchantId)
    BY <2>1 DEF Shows, ViewOf, Live
  <2>3. /\ \A j \in Slots : j # i => request'[j] = request[j]
        /\ request'[i] = Free \/ Same(request'[i], request[i])
    BY ServedOne
  <2>4. ~ByUser(request[i]) /\ ~ByUser(request'[i])
    BY <1>1, <2>3 DEF ByUser, Same, Free
  <2> QED BY <2>1, <2>2, <2>3, <2>4, CalmStays
<1>2. CheckPaymentLimit(i) \/ CreatePayment(i) \/ IncrementPaymentUsage(i) =>
        request[i].kind \in {"pay", "complete"}
  BY DEF CheckPaymentLimit, CreatePayment, IncrementPaymentUsage, At
<1>3. ASSUME CreatePeriod(i)
      PROVE  request[i].kind \in {"load", "pay", "complete"}
  BY <1>3, AtKind DEF CreatePeriod, XInv, JobFits
<1>4. GetCurrentSubscription(i) => request[i].kind = "load"
  BY DEF GetCurrentSubscription, At
<1>5. CASE CreatePeriod(i) \/ GetCurrentSubscription(i)
  BY <1>1, <1>3, <1>4, <1>5, LoadServed
<1> QED BY <1>1, <1>2, <1>5, OwnerServed, AdministratorServed, PlansServed DEF Serves

(* A user who waits acts with nothing outstanding.                            *)
LEMMA ActsAlone ==
  ASSUME XInv, CalmInv, faults = 0, hasty' = 0, UserActs
  PROVE  /\ Calm /\ hasty = 0 /\ NobodyFits
         /\ \A j \in Slots : request[j] = Free /\ ~ByUser(request[j])
<1>1. Quiet /\ hasty = 0
  BY DEF UserActs, XInv, ActsBounded
<1>2. \A j \in Slots : request[j] = Free /\ ~ByUser(request[j])
  BY <1>1 DEF Quiet, FreeSlots, ByUser, Free
<1>3. Calm
  BY <1>1 DEF CalmInv
<1> QED BY <1>1, <1>2, <1>3 DEF Calm

LEMMA SentAlone ==
  ASSUME XInv, \A j \in Slots : request[j] = Free /\ ~ByUser(request[j]), NEW q, Send(q), ByUser(q),
         UserFits(q)'
  PROVE  Calm'
<1>1. PICK i \in Slots : request' = [request EXCEPT ![i] = q]
  BY DEF Send, FreeSlots
<1>2. OnlyUser(i, q)
  BY <1>1 DEF OnlyUser, XInv, RequestsFit
<1> QED BY <1>2, CalmOne

LEMMA LoadFitsUser ==
  ASSUME NEW q, NEW m, q = loadData(m), adminRows' = plan', wanted' = plan',
         adminActs' = 0 => merchantId' = m /\ loading' /\ upgrading' = None
  PROVE  ByUser(q) /\ UserFits(q)'
<1>1. q.kind = "load" /\ q.here /\ q.ok /\ q.at = "server" /\ q.stage = "read" /\ q.merchant = m
  BY DEF loadData, Job
<1>2. PlansFit(q)'
  BY <1>1 DEF PlansFit
<1>3. adminActs' = 0 => PageFits(q)'
  BY <1>1 DEF PageFits, AdminWrites
<1> QED BY <1>1, <1>2, <1>3 DEF UserFits, ByUser

LEMMA ListFitsUser ==
  ASSUME NEW q, q = Job("plans", "list", None, None), wanted' = plan',
         adminActs' = 0 => Idle'
  PROVE  ByUser(q) /\ UserFits(q)'
<1>1. q.kind = "plans" /\ q.here /\ q.ok /\ q.at = "server"
  BY DEF Job
<1> QED BY <1>1 DEF UserFits, ByUser, PlansFit, PageFits, AdminWrites

LEMMA StartsAlone ==
  ASSUME XInv, NEW i \in Slots, NEW m, StartsAnew(i, m),
         \A j \in Slots \ {i} : ~ByUser(request[j])
  PROVE  OnlyUser(i, loadData(m)) /\ loading' /\ upgrading' = None
<1>1. \A j \in Slots \ {i} : ~OfPage(request[j])
  BY DEF OfPage, ByUser
<1> QED BY <1>1 DEF StartsAnew, OnlyUser

LEMMA OwnerCalm ==
  ASSUME XInv, CalmInv, faults = 0, hasty' = 0,
         \/ \E m \in Merchants : ShowPage(m)
         \/ \E p \in Plans : handleUpgrade(p)
         \/ handleCancel
         \/ OpenAdminPage
  PROVE  Calm'
<1>1. UserActs /\ World /\ UNCHANGED <<adminRows, wanted, adminActs>>
  BY DEF ShowPage, handleUpgrade, handleCancel, OpenAdminPage
<1>2. /\ NobodyFits
      /\ \A j \in Slots : request[j] = Free /\ ~ByUser(request[j])
  BY <1>1, ActsAlone
<1>3. UNCHANGED <<plan, subs>>
  BY <1>1 DEF World
<1>4. adminRows' = plan' /\ wanted' = plan' /\ (adminActs' = 0 => Idle)
  BY <1>1, <1>2, <1>3 DEF NobodyFits
<1>5. UNCHANGED <<merchantId, shown>> => shown'.view = ViewOf(merchantId)' \/ adminActs' # 0
  BY <1>3, <1>4 DEF Idle, ViewOf, Live
<1>6. ASSUME NEW m \in Merchants, ShowPage(m)
      PROVE  Calm'
  <2>1. PICK i \in Slots : /\ request[i] = Free /\ merchantId' = m
                           /\ IF m = merchantId THEN StartsAnew(i, m)
                              ELSE /\ request' = [request EXCEPT ![i] = loadData(m)]
                                   /\ loading' = TRUE /\ UNCHANGED <<shown, upgrading>>
    BY <1>6 DEF ShowPage, FreeSlots
  <2>2. PICK q : q = loadData(m)
    OBVIOUS
  <2>3. OnlyUser(i, q) /\ loading' /\ (adminActs' = 0 => upgrading' = None)
    <3>1. CASE m = merchantId
      BY <1>2, <2>1, <2>2, <3>1, StartsAlone
    <3>2. CASE m # merchantId
      <4>1. OnlyUser(i, q)
        BY <1>2, <2>1, <2>2, <3>2 DEF OnlyUser, XInv, RequestsFit
      <4> QED BY <1>4, <2>1, <3>2, <4>1 DEF Idle
    <3> QED BY <3>1, <3>2
  <2>4. ByUser(q) /\ UserFits(q)'
    BY <1>4, <2>1, <2>2, <2>3, LoadFitsUser
  <2> QED BY <2>3, <2>4, CalmOne
<1>7. ASSUME NEW p \in Plans, handleUpgrade(p)
      PROVE  Calm'
  <2>1. PICK q : q = Job("upgrade", "plan", merchantId, p)
    OBVIOUS
  <2>2. /\ q.kind = "upgrade" /\ q.stage = "plan" /\ q.here /\ q.ok /\ q.at = "server"
        /\ q.merchant = merchantId
    BY <2>1 DEF Job
  <2>3. Send(q) /\ ~loading' /\ UNCHANGED <<merchantId, shown>>
    BY <1>7, <2>1 DEF handleUpgrade
  <2>4. PlansFit(q)'
    BY <1>4, <2>2 DEF PlansFit
  <2>5. adminActs' = 0 => PageFits(q)'
    BY <1>5, <2>2, <2>3 DEF PageFits, AdminWrites
  <2> QED BY <1>2, <2>2, <2>3, <2>4, <2>5, SentAlone DEF UserFits, ByUser
<1>8. CASE handleCancel
  <2>1. PICK q : q = Job("cancel", "cancel", merchantId, None)
    OBVIOUS
  <2>2. q.kind = "cancel" /\ q.here /\ q.ok /\ q.at = "server" /\ q.merchant = merchantId
    BY <2>1 DEF Job
  <2>3. Send(q) /\ ~loading' /\ UNCHANGED <<merchantId, shown, upgrading>>
    BY <1>8, <2>1 DEF handleCancel, page
  <2>4. PlansFit(q)'
    BY <1>4, <2>2 DEF PlansFit
  <2>5. adminActs' = 0 => upgrading' = None
    BY <1>4, <2>3 DEF Idle
  <2>6. adminActs' = 0 => PageFits(q)'
    BY <1>5, <2>2, <2>3, <2>5 DEF PageFits, AdminWrites
  <2> QED BY <1>2, <2>2, <2>3, <2>4, <2>6, SentAlone DEF UserFits, ByUser
<1>9. CASE OpenAdminPage
  <2>1. PICK q : q = Job("plans", "list", None, None)
    OBVIOUS
  <2>2. Send(q) /\ UNCHANGED <<merchantId, loading, shown, upgrading>>
    BY <1>9, <2>1 DEF OpenAdminPage, page
  <2>3. adminActs' = 0 => Idle'
    BY <1>4, <1>5, <2>2 DEF Idle
  <2> QED BY <1>2, <1>4, <2>1, <2>2, <2>3, ListFitsUser, SentAlone
<1> QED BY <1>6, <1>7, <1>8, <1>9

(* The row that is edited changes in one column, and no other edit waits.     *)
LEMMA EditWanted ==
  ASSUME NEW row \in PlanRows, NEW new,
         new = [row EXCEPT !.price = 1 - @] \/ new = [row EXCEPT !.active = ~@]
  PROVE  /\ new.price # row.price => [row EXCEPT !.price = new.price] = new
         /\ new.price = row.price => [row EXCEPT !.active = new.active] = new
<1>1. CASE new = [row EXCEPT !.price = 1 - @]
  BY <1>1 DEF PlanRows
<1>2. CASE new = [row EXCEPT !.active = ~@]
  BY <1>2 DEF PlanRows
<1> QED BY <1>1, <1>2

LEMMA AdministratorCalm ==
  ASSUME XInv, CalmInv, faults = 0, hasty' = 0,
         \/ \E p \in Plans : handleSubmit(p)
         \/ \E m \in Merchants, p \in Plans : handleAssignPlan(m, p)
         \/ \E m \in Merchants : handleDeleteMerchant(m)
         \/ handleDeleteUser
  PROVE  Calm'
<1>1. /\ UserActs /\ adminActs' = adminActs + 1 /\ UNCHANGED <<plan, adminRows>>
  BY DEF handleSubmit, handleAssignPlan, handleDeleteMerchant, handleDeleteUser, Administers, World
<1>2. /\ NobodyFits
      /\ \A j \in Slots : request[j] = Free /\ ~ByUser(request[j])
  BY <1>1, ActsAlone
<1>3. adminActs' # 0
  BY <1>1 DEF XInv, ActsBounded
<1>4. ASSUME NEW q, q.kind \in {"assign", "delete", "user"}, q.here, Send(q), UNCHANGED wanted
      PROVE  Calm'
  <2>1. UserFits(q)'
    BY <1>1, <1>2, <1>3, <1>4 DEF UserFits, PlansFit, NobodyFits
  <2> QED BY <1>2, <1>4, <2>1, SentAlone DEF ByUser
<1>5. ASSUME NEW m, NEW p, handleAssignPlan(m, p)
      PROVE  Calm'
  <2>1. PICK q : q = Job("assign", "cancel", m, p) /\ Send(q) /\ UNCHANGED wanted
    BY <1>5 DEF handleAssignPlan, Administers
  <2> QED BY <1>4, <2>1 DEF Job
<1>6. ASSUME NEW m, handleDeleteMerchant(m)
      PROVE  Calm'
  <2>1. PICK q : q = Job("delete", "clean", m, None) /\ Send(q) /\ UNCHANGED wanted
    BY <1>6 DEF handleDeleteMerchant, Administers
  <2> QED BY <1>4, <2>1 DEF Job
<1>7. CASE handleDeleteUser
  <2>1. PICK q : q = Job("user", "check", None, None) /\ Send(q) /\ UNCHANGED wanted
    BY <1>7 DEF handleDeleteUser, Administers
  <2> QED BY <1>4, <2>1 DEF Job
<1>8. ASSUME NEW p \in Plans, handleSubmit(p)
      PROVE  Calm'
  <2>1. adminRows = plan /\ wanted = plan /\ plan \in [Plans -> PlanRows]
    BY <1>2 DEF NobodyFits, XInv, ServerTyped
  <2>2. PICK new, x, q :
          /\ new \in Edits(plan[p])
          /\ wanted' = [plan EXCEPT ![p] = IF new.price # plan[p].price
                                           THEN [@ EXCEPT !.price = new.price]
                                           ELSE [@ EXCEPT !.active = new.active]]
          /\ x = Job("save", "save", None, p) /\ q = [x EXCEPT !.rows[p] = new] /\ Send(q)
    BY <1>8, <2>1 DEF handleSubmit, openEdit, Administers
  <2>3. wanted' = [plan EXCEPT ![p] = new]
    <3>1. PICK row : row = plan[p] /\ row \in PlanRows
      BY <2>1
    <3>2. new = [row EXCEPT !.price = 1 - @] \/ new = [row EXCEPT !.active = ~@]
      BY <2>2, <3>1 DEF Edits
    <3>3. CASE new.price # row.price
      <4>1. wanted' = [plan EXCEPT ![p] = [row EXCEPT !.price = new.price]]
        BY <2>2, <3>1, <3>3
      <4> QED BY <3>1, <3>2, <3>3, <4>1, EditWanted
    <3>4. CASE new.price = row.price
      <4>1. wanted' = [plan EXCEPT ![p] = [row EXCEPT !.active = new.active]]
        BY <2>2, <3>1, <3>4
      <4> QED BY <3>1, <3>2, <3>4, <4>1, EditWanted
    <3> QED BY <3>3, <3>4
  <2>4. /\ q.kind = "save" /\ q.here /\ q.ok /\ q.at = "server" /\ q.plan = p /\ q.rows[p] = new
    <3>1. /\ x.kind = "save" /\ x.here /\ x.ok /\ x.at = "server" /\ x.plan = p
          /\ x.rows = [y \in Plans |-> Unread]
          /\ {"kind", "here", "ok", "at", "plan", "rows"} \subseteq DOMAIN x
      BY <2>2 DEF Job
    <3>2. q = [x EXCEPT !.rows = [x.rows EXCEPT ![p] = new]]
      BY <2>2
    <3> QED BY <3>1, <3>2
  <2>5. UserFits(q)'
    BY <1>1, <1>3, <2>1, <2>3, <2>4 DEF UserFits, PlansFit
  <2> QED BY <1>2, <2>2, <2>4, <2>5, SentAlone DEF ByUser
<1> QED BY <1>5, <1>6, <1>7, <1>8

LEMMA AnswerCalm ==
  ASSUME XInv, Calm, NEW i \in Slots, Answered(i)
  PROVE  Calm'
<1>1. request[i] # Free /\ request[i].at = "page"
  BY DEF Answered, Dropped, DataLoaded, UpgradeAnswered, CancelAnswered, PlansListed, SaveAnswered,
         AdminAnswered, UserDeleted, AnswerOf, Arrived
<1>2. PICK r, m : r = request[i] /\ m = merchantId
  OBVIOUS
<1>3. r \in Jobs /\ ByUser(r)
  <2>1. JobFits(r, Len(subs))
    BY <1>1, <1>2 DEF XInv, RequestsFit, Fits
  <2> QED BY <1>1, <1>2, <2>1 DEF JobFits, ByUser, Jobs, Kinds
<1>4. /\ UserFits(r) /\ r.here
      /\ \A j \in Slots \ {i} : ~ByUser(request[j])
  BY <1>2, <1>3 DEF Calm, Alone, UserFits
<1>5. ~Dropped(i)
  BY <1>2, <1>4 DEF Dropped
<1>6. World /\ UNCHANGED <<merchantId, wanted, adminActs>>
  BY <1>5 DEF Answered, DataLoaded, UpgradeAnswered, CancelAnswered, PlansListed, SaveAnswered,
              AdminAnswered, UserDeleted, Handled, acts
<1>7. UNCHANGED <<plan, subs, merchantId, wanted, adminActs>>
  BY <1>6 DEF World
<1>8. ViewOf(merchantId)' = ViewOf(merchantId)
  BY <1>7 DEF ViewOf, Live
<1>9. ASSUME NEW q, request' = [request EXCEPT ![i] = q]
      PROVE  OnlyUser(i, q)
  BY <1>4, <1>9 DEF OnlyUser, XInv, RequestsFit
<1>10. ASSUME Ends(i), NobodyFits'
       PROVE  Calm'
  <2>1. PICK q : q = Free /\ request' = [request EXCEPT ![i] = q]
    BY <1>10 DEF Ends
  <2> QED BY <1>9, <1>10, <2>1, CalmOne DEF ByUser, Free
<1>11. ASSUME NEW q, q = loadData(m), OnlyUser(i, q), UNCHANGED adminRows,
              r.kind \notin {"save", "plans"}, loading', upgrading' = None \/ adminActs' # 0
       PROVE  Calm'
  <2>1. adminRows' = plan' /\ wanted' = plan' /\ merchantId' = m
    BY <1>2, <1>4, <1>7, <1>11 DEF UserFits, PlansFit
  <2>2. ByUser(q) /\ UserFits(q)'
    BY <1>11, <2>1, LoadFitsUser
  <2> QED BY <1>11, <2>2, CalmOne
<1>12. CASE DataLoaded(i)
  <2>1. r.kind = "load" /\ Ends(i) /\ ~loading' /\ UNCHANGED <<upgrading, adminRows>>
        /\ (r.ok => shown'.view = r.view)
    BY <1>2, <1>12 DEF DataLoaded, AnswerOf, Arrived, Handled
  <2>2. adminRows' = plan' /\ wanted' = plan'
    BY <1>4, <1>7, <2>1 DEF UserFits, PlansFit
  <2>3. adminActs' = 0 => Idle'
    BY <1>1, <1>2, <1>4, <1>7, <1>8, <2>1 DEF UserFits, PageFits, Idle
  <2> QED BY <1>10, <2>1, <2>2, <2>3 DEF NobodyFits
<1>13. CASE UpgradeAnswered(i)
  <2>1. r.kind = "upgrade" /\ UNCHANGED adminRows
    BY <1>2, <1>13 DEF UpgradeAnswered, AnswerOf, Arrived, Handled
  <2>2. adminActs' = 0 => r.merchant = m /\ ~loading /\ (~r.ok => shown.view = ViewOf(m))
    BY <1>2, <1>4, <1>7, <2>1 DEF UserFits, PageFits
  <2>3. CASE StartsAnew(i, merchantId)
    <3>1. PICK q : q = loadData(m)
      OBVIOUS
    <3>2. OnlyUser(i, q) /\ loading' /\ upgrading' = None
      BY <1>2, <1>4, <2>3, <3>1, StartsAlone
    <3> QED BY <1>11, <2>1, <3>1, <3>2
  <2>4. CASE Reloads(i) /\ upgrading' = None
    <3>1. CASE r.merchant = m
      <4>1. PICK q : q = loadData(m) /\ request' = [request EXCEPT ![i] = q] /\ loading'
        BY <1>2, <2>4, <3>1 DEF Reloads, GoesOn
      <4> QED BY <1>9, <1>11, <2>1, <2>4, <4>1
    <3>2. CASE adminActs' # 0
      <4>1. PICK n, q : n = r.merchant /\ q = loadData(n) /\ request' = [request EXCEPT ![i] = q]
        BY <1>2, <2>4 DEF Reloads, GoesOn
      <4>2. adminRows' = plan' /\ wanted' = plan'
        BY <1>4, <1>7, <2>1 DEF UserFits, PlansFit
      <4>3. ByUser(q) /\ UserFits(q)'
        BY <3>2, <4>1, <4>2, LoadFitsUser
      <4> QED BY <1>9, <4>1, <4>3, CalmOne
    <3> QED BY <2>2, <3>1, <3>2
  <2>5. CASE ~r.ok /\ Ends(i) /\ upgrading' = None /\ UNCHANGED <<loading, shown>>
    <3>1. adminRows' = plan' /\ wanted' = plan'
      BY <1>4, <1>7, <2>1 DEF UserFits, PlansFit
    <3>2. adminActs' = 0 => Idle'
      BY <1>2, <1>7, <1>8, <2>2, <2>5 DEF Idle
    <3> QED BY <1>10, <2>5, <3>1, <3>2 DEF NobodyFits
  <2> QED BY <1>2, <1>13, <2>3, <2>4, <2>5 DEF UpgradeAnswered
<1>14. CASE CancelAnswered(i)
  <2>1. r.kind = "cancel" /\ UNCHANGED <<adminRows, upgrading, shown>>
    BY <1>2, <1>14 DEF CancelAnswered, AnswerOf, Arrived, Handled
  <2>2. adminActs' = 0 => /\ r.merchant = m /\ ~loading /\ (~r.ok => shown.view = ViewOf(m))
                          /\ upgrading = None
    BY <1>2, <1>4, <1>7, <2>1 DEF UserFits, PageFits
  <2>3. CASE Reloads(i)
    <3>1. CASE r.merchant = m
      <4>1. PICK q : q = loadData(m) /\ request' = [request EXCEPT ![i] = q] /\ loading'
        BY <1>2, <2>3, <3>1 DEF Reloads, GoesOn
      <4> QED BY <1>9, <1>11, <2>1, <2>2, <4>1
    <3>2. CASE adminActs' # 0
      <4>1. PICK n, q : n = r.merchant /\ q = loadData(n) /\ request' = [request EXCEPT ![i] = q]
        BY <1>2, <2>3 DEF Reloads, GoesOn
      <4>2. adminRows' = plan' /\ wanted' = plan'
        BY <1>4, <1>7, <2>1 DEF UserFits, PlansFit
      <4>3. ByUser(q) /\ UserFits(q)'
        BY <3>2, <4>1, <4>2, LoadFitsUser
      <4> QED BY <1>9, <4>1, <4>3, CalmOne
    <3> QED BY <2>2, <3>1, <3>2
  <2>4. CASE ~r.ok /\ Ends(i) /\ UNCHANGED loading
    <3>1. adminRows' = plan' /\ wanted' = plan'
      BY <1>4, <1>7, <2>1 DEF UserFits, PlansFit
    <3>2. adminActs' = 0 => Idle'
      BY <1>2, <1>7, <1>8, <2>1, <2>2, <2>4 DEF Idle
    <3> QED BY <1>10, <2>4, <3>1, <3>2 DEF NobodyFits
  <2> QED BY <1>2, <1>14, <2>3, <2>4 DEF CancelAnswered
<1>15. CASE PlansListed(i)
  <2>1. r.kind = "plans" /\ Ends(i) /\ UNCHANGED <<loading, shown, upgrading>>
        /\ adminRows' = IF r.ok THEN r.rows ELSE adminRows
    BY <1>2, <1>15 DEF PlansListed, Arrived, page
  <2>2. adminRows' = plan' /\ wanted' = plan'
    BY <1>1, <1>2, <1>4, <1>7, <2>1 DEF UserFits, PlansFit
  <2>3. adminActs' = 0 => Idle'
    BY <1>4, <1>7, <1>8, <2>1 DEF UserFits, PageFits, Idle
  <2> QED BY <1>10, <2>1, <2>2, <2>3 DEF NobodyFits
<1>16. CASE SaveAnswered(i)
  <2>1. r.kind = "save"
    BY <1>2, <1>16 DEF SaveAnswered, Arrived
  <2>2. r.ok /\ wanted' = plan' /\ adminActs' # 0
    BY <1>1, <1>2, <1>4, <1>7, <2>1 DEF UserFits, PlansFit, PageFits, AdminWrites
  <2>3. PICK q : q = Job("plans", "list", None, None) /\ request' = [request EXCEPT ![i] = q]
    BY <1>2, <1>16, <2>2 DEF SaveAnswered, GoesOn
  <2> QED BY <1>9, <2>2, <2>3, ListFitsUser, CalmOne
<1>17. CASE AdminAnswered(i) \/ UserDeleted(i)
  <2>1. r.kind \in {"assign", "delete", "user"} /\ Ends(i) /\ UNCHANGED adminRows
    BY <1>2, <1>17 DEF AdminAnswered, UserDeleted, Arrived, Handled
  <2>2. adminRows' = plan' /\ wanted' = plan' /\ adminActs' # 0
    BY <1>4, <1>7, <2>1 DEF UserFits, PlansFit, PageFits, AdminWrites
  <2> QED BY <1>10, <2>1, <2>2 DEF NobodyFits
<1> QED BY <1>5, <1>12, <1>13, <1>14, <1>15, <1>16, <1>17 DEF Answered

LEMMA LiveView ==
  RowsInv => \A m \in Merchants : \A n \in Live(m) :
    ViewOf(m) = [plan |-> subs[n].plan, status |-> subs[n].status, renew |-> subs[n].renew]
BY ViewIsLive

LEMMA LiveViewNext ==
  (RowsInv => \A m \in Merchants : \A n \in Live(m) :
     ViewOf(m) = [plan |-> subs[n].plan, status |-> subs[n].status, renew |-> subs[n].renew])'
BY LiveView, PTL

(* A payment of an invoice is seen by the rows only.                          *)
LEMMA WebhookCalm ==
  ASSUME XInv, Calm, NEW n \in DOMAIN subs, HandlePaymentWebhook(n)
  PROVE  Calm'
<1>1. Shows /\ UNCHANGED request
  BY DEF HandlePaymentWebhook, Stays, Shows, page, acts
<1>2. /\ RowsInv /\ RowsInv' /\ RowsLast
      /\ \A k \in DOMAIN subs : subs'[k].status = subs[k].status /\ subs'[k].renew = subs[k].renew
  BY WebhookTyped, InvoiceRows, SubsMoveLonger, RowCount
<1>3. PICK m \in Merchants : m = merchantId /\ m = merchantId'
  BY <1>1 DEF XInv, PagesTyped, Shows
<1>4. Live(m)' = Live(m)
  BY <1>2 DEF Live, RowsLast, Lasts
<1>5. ViewOf(m)' = ViewOf(m)
  <2>1. CASE Live(m) = {}
    BY <1>4, <2>1 DEF ViewOf
  <2>2. ASSUME NEW k \in Live(m)
        PROVE  ViewOf(m)' = ViewOf(m)
    <3>1. ViewOf(m) = [plan |-> subs[k].plan, status |-> subs[k].status, renew |-> subs[k].renew]
      BY <1>2, LiveView
    <3>2. ViewOf(m)' = [plan |-> subs'[k].plan, status |-> subs'[k].status, renew |-> subs'[k].renew]
      BY <1>2, <1>4, LiveViewNext
    <3>3. k \in DOMAIN subs
      BY LiveIsRow
    <3> QED BY <1>2, <3>1, <3>2, <3>3 DEF RowsLast, Lasts
  <2> QED BY <2>1, <2>2
<1> QED BY <1>1, <1>3, <1>5, CalmStays

LEMMA PaymentsCalm ==
  ASSUME XInv, Calm, NEW m \in Merchants, PaymentAsked(m) \/ PaymentSucceeds(m)
  PROVE  Calm'
<1>1. Shows /\ UNCHANGED subs
  BY DEF PaymentAsked, PaymentSucceeds, Stays, Shows, page, acts
<1>2. ViewOf(merchantId)' = ViewOf(merchantId)
  BY <1>1 DEF Shows, ViewOf, Live
<1>3. \E q : Send(q) /\ ~ByUser(q)
  <2>1. CASE PaymentAsked(m)
    <3>1. PICK x, b, q : x = Job("pay", "check", m, None) /\ Send(q)
                         /\ q = [x EXCEPT !.full = b, !.acts = adminActs]
      BY <2>1 DEF PaymentAsked
    <3>2. x.kind = "pay" /\ {"kind", "full", "acts"} \subseteq DOMAIN x
      BY <3>1 DEF Job
    <3>3. q.kind = x.kind
      BY <3>1, <3>2
    <3> QED BY <3>1, <3>2, <3>3 DEF ByUser
  <2>2. CASE PaymentSucceeds(m)
    <3>1. PICK q : q = Job("complete", "update", m, None) /\ Send(q)
      BY <2>2 DEF PaymentSucceeds
    <3> QED BY <3>1 DEF Job, ByUser
  <2> QED BY <2>1, <2>2
<1>4. PICK q : Send(q) /\ ~ByUser(q)
  BY <1>3
<1>5. PICK i \in Slots : request[i] = Free /\ request' = [request EXCEPT ![i] = q]
  BY <1>4 DEF Send, FreeSlots
<1>6. \A j \in Slots : \/ request'[j] = request[j]
                       \/ ~ByUser(request[j]) /\ ~ByUser(request'[j])
  BY <1>4, <1>5 DEF XInv, RequestsFit, ByUser, Free
<1> QED BY <1>1, <1>2, <1>6, CalmStays

LEMMA CalmStep ==
  ASSUME XInv, CalmInv, [Next]_vars
  PROVE  CalmInv'
<1> SUFFICES ASSUME hasty' = 0, faults' = 0
             PROVE  Calm'
  BY DEF CalmInv
<1>1. ASSUME NEW i \in Slots, Serves(i) \/ Fails(i)
      PROVE  Calm'
  <2>1. faults = 0 /\ Serves(i)
    BY <1>1, TroubleStays
  <2>2. UNCHANGED hasty
    BY <2>1 DEF Serves, GetCurrentSubscription, CheckPaymentLimit, CreatePayment, CreatePeriod,
                IncrementPaymentUsage, UpgradeReadsPlan, CreateSubscription, CreateInvoice,
                CancelSubscription, AssignMerchantPlan, AdminDeleteMerchant, AdminDeleteUser,
                UpdatePlan, ListAllPlans, Stays, acts
  <2> QED BY <2>1, <2>2, CalmServed DEF CalmInv
<1>2. PageActs => faults = 0
  BY PagesMove DEF Elsewhere
<1>3. ASSUME NEW i \in Slots, Answered(i)
      PROVE  Calm'
  <2>1. UNCHANGED hasty
    BY <1>3 DEF Answered, Dropped, DataLoaded, UpgradeAnswered, CancelAnswered, PlansListed,
                SaveAnswered, AdminAnswered, UserDeleted, Handled, acts
  <2> QED BY <1>2, <1>3, <2>1, AnswerCalm DEF CalmInv, PageActs
<1>4. ASSUME NEW m \in Merchants, PaymentAsked(m) \/ PaymentSucceeds(m)
      PROVE  Calm'
  <2>1. UNCHANGED hasty
    BY <1>4 DEF PaymentAsked, PaymentSucceeds, Stays, acts
  <2> QED BY <1>2, <1>4, <2>1, PaymentsCalm DEF CalmInv, PageActs
<1>5. ASSUME NEW n \in DOMAIN subs, HandlePaymentWebhook(n)
      PROVE  Calm'
  <2>1. UNCHANGED <<hasty, faults>>
    BY <1>5 DEF HandlePaymentWebhook, Stays, acts
  <2> QED BY <1>5, <2>1, WebhookCalm DEF CalmInv
<1>6. CASE UNCHANGED vars
  <2>1. Shows /\ UNCHANGED <<subs, request, hasty, faults>>
    BY <1>6 DEF vars, Shows
  <2>2. ViewOf(merchantId)' = ViewOf(merchantId)
    BY <2>1 DEF Shows, ViewOf, Live
  <2> QED BY <2>1, <2>2, CalmStays DEF CalmInv
<1>7. CASE \/ \E m \in Merchants : ShowPage(m)
           \/ \E p \in Plans : handleUpgrade(p)
           \/ handleCancel \/ OpenAdminPage
  BY <1>2, <1>7, OwnerCalm DEF PageActs
<1>8. CASE \/ \E p \in Plans : handleSubmit(p)
           \/ \E m \in Merchants, p \in Plans : handleAssignPlan(m, p)
           \/ \E m \in Merchants : handleDeleteMerchant(m)
           \/ handleDeleteUser
  BY <1>2, <1>8, AdministratorCalm DEF PageActs
<1> QED BY <1>1, <1>3, <1>4, <1>5, <1>6, <1>7, <1>8 DEF Next

LEMMA CalmInit ==
  ASSUME Init
  PROVE  CalmInv
<1>1. PICK q : q = loadData(merchantId) /\ request = [i \in Slots |-> IF i = 1 THEN q ELSE Free]
  BY DEF Init
<1>2. q.kind = "load" /\ q.here /\ q.ok /\ q.at = "server" /\ q.stage = "read" /\ q.merchant = merchantId
  BY <1>1 DEF loadData, Job
<1>3. 1 \in Slots /\ \A i \in Slots : ByUser(request[i]) <=> i = 1
  BY <1>1, <1>2, SubscriptionsAssumption DEF ByUser, Free, Slots
<1>4. UserFits(q)
  BY <1>2 DEF Init, UserFits, PlansFit, PageFits, AdminWrites
<1>5. request[1] = q
  BY <1>1, <1>3
<1> QED BY <1>3, <1>4, <1>5 DEF CalmInv, Calm, Alone

(* For any number of merchants and plans: a user who waits for the answers    *)
(* sees the subscription that the chosen merchant has, and an edit of a plan  *)
(* takes no earlier edit back.                                                *)
THEOREM PagesTrue == Spec => []PagesAreTrue
<1>1. Init => XInv /\ CalmInv
  BY XInvInit, CalmInit
<1>2. XInv /\ CalmInv /\ [Next]_vars => (XInv /\ CalmInv)'
  BY XInvStep, CalmStep
<1>3. CalmInv => PagesAreTrue
  <2>1. ASSUME CalmInv, Quiet, hasty = 0, faults = 0
        PROVE  NobodyFits
    BY <2>1 DEF CalmInv, Calm, Quiet, FreeSlots, ByUser, Free
  <2> QED BY <2>1 DEF PagesAreTrue, ShownIsOwn, EditsStand, NobodyFits, Idle
<1> QED BY <1>1, <1>2, <1>3, PTL DEF Spec
==============================================================================
