------------------------------ MODULE Listings ------------------------------
(* The dashboard's lists: payments, payment links, customers and API tokens. *)
(* Their pages keep what they load in react-query's cache, under keys that   *)
(* do not name the merchant; the cache outlives the page, and one fetch at a *)
(* time fills it.                                                            *)
EXTENDS DashboardTab, Sequences, SequencesExt

CONSTANTS
  Lists,        \* what the pages offer, see below
  PageSize,
  OldRows,      \* bound: rows made before, some of them of other merchants
  MaxRows,      \* bound: rows ever made
  MaxForms,     \* bound: forms filled in
  MaxSwitches   \* bound: merchants chosen, pages left

ASSUME ListingsAssumption ==
  /\ PageSize \in Nat \ {0} /\ MaxInFlight \in Nat \ {0}
  /\ MaxRows \in Nat /\ OldRows \in 0..MaxRows
  /\ MaxForms \in Nat \ {0} /\ MaxSwitches \in Nat /\ MaxFaults \in Nat

VARIABLES
  rows,        \* the server's, in the order they were made
  list,        \* which list this is
  open,        \* the list's page is mounted
  data,        \* the cached pages; none before the first has arrived
  mounting,    \* the page's mount handler is in its first second
  formId,      \* the id the next form is submitted under
  submitting,  \* isFormSubmitting
  card,        \* the row whose details are open, or 0
  shared,      \* history: whether a fetch was taken for one that started before
  switches

listingsVars == <<rows, list, merchantId, open, data, mounting, formId, submitting, card,
                  shared, request, switches, faults>>
screen == <<open, mounting, formId, submitting, card>>
bounds == <<switches, faults>>

(* The controls of each page: a form that adds a row, and one that may send *)
(* the same row again without adding it twice; "Load more"; deleting a row; *)
(* deciding on a payment that went wrong; loading everything anew a second  *)
(* after the page was opened.                                               *)
PaymentsPage == [name |-> "payments", adds |-> TRUE, once |-> TRUE, pages |-> TRUE,
                 deletes |-> FALSE, decides |-> TRUE, remounts |-> TRUE]
PaymentLinksPage == [name |-> "links", adds |-> TRUE, once |-> FALSE, pages |-> FALSE,
                     deletes |-> TRUE, decides |-> FALSE, remounts |-> TRUE]
CustomersPage == [name |-> "customers", adds |-> FALSE, once |-> FALSE, pages |-> TRUE,
                  deletes |-> FALSE, decides |-> FALSE, remounts |-> FALSE]
ApiKeysSection == [name |-> "tokens", adds |-> TRUE, once |-> FALSE, pages |-> FALSE,
                   deletes |-> TRUE, decides |-> FALSE, remounts |-> FALSE]

ASSUME ListsAssumption ==
  Lists \subseteq {PaymentsPage, PaymentLinksPage, CustomersPage, ApiKeysSection}

(* A row is known by the form it was made from, if it was made here.        *)
Before == 0
Elsewhere == MaxForms + 1
Row(m, by) == [merchant |-> m, by |-> by, gone |-> FALSE, done |-> FALSE]

(* The rows of m from the newest, or from the cursor, in pages.  A page is  *)
(* shown from its greatest id down, and its cursor is the row after it.     *)
RowsOf(m, from) == {n \in 1..Len(rows) : rows[n].merchant = m /\ ~rows[n].gone /\ n <= from}
Newest == MaxRows + 1
Limit == IF list.pages THEN PageSize ELSE MaxRows
FirstRows(ns) == {n \in ns : Cardinality({k \in ns : k > n}) < Limit}
Greatest(ns) == IF ns = {} THEN 0 ELSE Max(ns)
PageOf(m, ns, next) ==
  [merchant |-> m, rows |-> {[id |-> n, done |-> rows[n].done] : n \in ns}, next |-> next]

(* Mutant: the cursor is the last row shown, not the next.                  *)
PageFromLast(m, from) ==
  LET ns == RowsOf(m, from) IN
  PageOf(m, FirstRows(ns), IF FirstRows(ns) = ns THEN 0 ELSE Min(FirstRows(ns)))

PageFrom(m, from) ==
  LET ns == RowsOf(m, from) IN
  PageOf(m, FirstRows(ns), Greatest(ns \ FirstRows(ns)))

(* A fetch: the pages it has and how many more it loads.                    *)
Fetch(m, pages, left) ==
  [kind |-> "fetch", at |-> "server", merchant |-> m, pages |-> pages, left |-> left]
Cursor(pages) == IF pages = <<>> THEN Newest ELSE Last(pages).next

Mutation(kind, m, row) == [kind |-> kind, at |-> "server", merchant |-> m, row |-> row]

Fetches == {i \in Slots : request[i].kind = "fetch"}
isFetching == Fetches # {}
Mutating == \E i \in Slots : request[i].kind \in {"add", "delete"}

Without(fs) == [i \in Slots |-> IF i \in fs THEN Free ELSE request[i]]
Sends(sent, r) ==
  \E i \in Slots : /\ sent[i] = Free /\ \A j \in Slots : sent[j] = Free => i <= j
                   /\ request' = [sent EXCEPT ![i] = r]

ListingsInit ==
  /\ rows \in [1..OldRows -> {Row(m, Before) : m \in Merchants}]
  /\ list \in Lists /\ merchantId \in Merchants
  /\ open = TRUE /\ data = <<>> /\ mounting = list.remounts
  /\ formId = 1 /\ submitting = FALSE /\ card = 0 /\ shared = "no"
  /\ request = [i \in Slots |-> IF i = 1 THEN Fetch(merchantId, <<>>, 1) ELSE Free]
  /\ switches = 0 /\ faults = 0

----------------------------------------------------------------------------
(* The server.                                                              *)

(* A cursor that is not a row of the merchant's is refused.  A fetch asks   *)
(* for its pages one after the other, and a list that got shorter ends       *)
(* before its last page is asked for.                                       *)
ServePage(i) ==
  LET r == request[i]
      from == Cursor(r.pages)
      loaded == Append(r.pages, PageFrom(r.merchant, from))
      ends == r.left = 1 \/ Cursor(loaded) = 0 IN
  /\ r.kind = "fetch" /\ r.at = "server"
  /\ GoesOn(i, IF from # Newest /\ rows[from].merchant # r.merchant
               THEN [r EXCEPT !.at = "failed"]
               ELSE [r EXCEPT !.pages = loaded, !.left = @ - 1,
                              !.at = IF ends THEN "page" ELSE @])
  /\ UNCHANGED <<rows, list, merchantId, screen, data, shared, bounds>>

(* Mutant: the server forgets the ids.                                      *)
KnownNowhere(r) == FALSE

(* A payment is made once for the id it is sent under.                      *)
Known(r) == list.once /\ \E n \in 1..Len(rows) :
  rows[n].merchant = r.merchant /\ rows[n].by = r.row

ServeAdd(i) ==
  LET r == request[i]  ok == ~Known(r) /\ Len(rows) < MaxRows IN
  /\ r.kind = "add" /\ r.at = "server"
  /\ rows' = IF ok THEN Append(rows, Row(r.merchant, r.row)) ELSE rows
  /\ GoesOn(i, [r EXCEPT !.at = IF ok THEN "page" ELSE "failed"])
  /\ UNCHANGED <<list, merchantId, screen, data, shared, bounds>>

ServeChange(i) ==
  LET r == request[i]
      ok == /\ rows[r.row].merchant = r.merchant /\ ~rows[r.row].gone
            /\ r.kind = "decide" => ~rows[r.row].done IN
  /\ r.kind \in {"delete", "decide"} /\ r.at = "server"
  /\ rows' = IF ok THEN [rows EXCEPT ![r.row].gone = @ \/ r.kind = "delete",
                                     ![r.row].done = @ \/ r.kind = "decide"] ELSE rows
  /\ GoesOn(i, [r EXCEPT !.at = IF ok THEN "page" ELSE "failed"])
  /\ UNCHANGED <<list, merchantId, screen, data, shared, bounds>>

(* A customer or another program adds a row.                                *)
AddedElsewhere(m) ==
  /\ Len(rows) < MaxRows /\ rows' = Append(rows, Row(m, Elsewhere))
  /\ UNCHANGED <<list, merchantId, screen, data, shared, request, bounds>>

(* A fetch that failed three times, or any other request that failed once.  *)
Fails(i) ==
  /\ request[i] # Free /\ request[i].at = "server" /\ faults < MaxFaults
  /\ GoesOn(i, [request[i] EXCEPT !.at = "failed"]) /\ faults' = faults + 1
  /\ UNCHANGED <<rows, list, merchantId, screen, data, shared, switches>>

AnswerIsLost(i) ==
  /\ request[i].kind \in {"add", "delete", "decide"} /\ request[i].at = "page"
  /\ faults < MaxFaults
  /\ GoesOn(i, [request[i] EXCEPT !.at = "failed"]) /\ faults' = faults + 1
  /\ UNCHANGED <<rows, list, merchantId, screen, data, shared, switches>>

----------------------------------------------------------------------------
(* The query.                                                               *)

(* A fetch replaces the one that is running, unless there is no data yet:   *)
(* then it shares the running one, whichever merchant that was started for  *)
(* and whatever has happened since.  "sent" are the requests, pages the     *)
(* data kept, left the pages loaded.                                        *)
StartFetch(sent, m, pages, left) ==
  LET other == IF isFetching /\ data = <<>> THEN \E i \in Fetches : request[i].merchant # m
               ELSE \E k \in DOMAIN pages : pages[k].merchant # m IN
  /\ IF isFetching /\ data = <<>> THEN request' = sent
     ELSE Sends([i \in Slots |-> IF i \in Fetches THEN Free ELSE sent[i]], Fetch(m, pages, left))
  /\ shared' = IF other \/ (shared = "other" /\ (isFetching \/ pages # <<>>)) THEN "other"
               ELSE IF isFetching /\ data = <<>> THEN "same" ELSE "no"

Pages == IF data = <<>> THEN 1 ELSE Len(data)
refetch(sent, m) == StartFetch(sent, m, <<>>, Pages)

(* Only the last page is loaded again after a mutation.                     *)
invalidateQueries(sent, m) ==
  StartFetch(sent, m, IF data = <<>> THEN <<>> ELSE Front(data), 1)

PageFetched(i) ==
  /\ request[i].kind = "fetch" /\ request[i].at = "page"
  /\ data' = request[i].pages /\ Ends(i)
  /\ UNCHANGED <<rows, list, merchantId, screen, shared, bounds>>

FetchFailed(i) ==
  /\ request[i].kind = "fetch" /\ request[i].at = "failed"
  /\ Ends(i) /\ UNCHANGED <<rows, list, merchantId, screen, data, shared, bounds>>

----------------------------------------------------------------------------
(* The page.                                                                *)

(* The table is under a spinner, and takes no clicks, while it loads.       *)
Usable == open /\ data # <<>> /\ ~isFetching /\ ~Mutating

(* Mutant: no effect on merchantId.                                         *)
SwitchMerchantOnly(m) ==
  /\ m # merchantId /\ switches < MaxSwitches
  /\ merchantId' = m /\ switches' = switches + 1
  /\ UNCHANGED <<rows, list, screen, data, shared, request, faults>>

SwitchMerchant(m) ==
  /\ m # merchantId /\ switches < MaxSwitches
  /\ merchantId' = m /\ switches' = switches + 1
  /\ IF open THEN refetch(request, m) ELSE UNCHANGED <<request, shared>>
  /\ UNCHANGED <<rows, list, screen, data, faults>>

(* A form that is opened later has an id of its own.                        *)
LeavePage ==
  /\ open /\ switches < MaxSwitches
  /\ open' = FALSE /\ card' = 0 /\ submitting' = FALSE /\ switches' = switches + 1
  /\ formId' = IF formId <= MaxForms THEN formId + 1 ELSE formId
  /\ UNCHANGED <<rows, list, merchantId, data, mounting, shared, request, faults>>

(* Mounting fetches what is not cached, and the effect on merchantId        *)
(* fetches in any case.                                                     *)
EnterPage ==
  /\ ~open /\ open' = TRUE /\ mounting' = (mounting \/ list.remounts)
  /\ refetch(request, merchantId)
  /\ UNCHANGED <<rows, list, merchantId, data, formId, submitting, card, bounds>>

(* The cached pages are removed and the fetch of them with them.            *)
MountHandler ==
  /\ mounting /\ mounting' = FALSE /\ data' = <<>> /\ shared' = "no"
  /\ Sends(Without(Fetches), Fetch(merchantId, <<>>, 1))
  /\ UNCHANGED <<rows, list, merchantId, open, formId, submitting, card, bounds>>

fetchNextPage ==
  /\ list.pages /\ Usable /\ Cursor(data) # 0
  /\ StartFetch(request, merchantId, data, 1)
  /\ UNCHANGED <<rows, list, merchantId, screen, data, bounds>>

(* The form of a new row.  Its id changes when it is reset, a second after  *)
(* it was closed, and not when a submission fails.                          *)
uploadCreated ==
  /\ list.adds /\ open /\ ~submitting /\ formId <= MaxForms
  /\ submitting' = TRUE
  /\ Send(Mutation("add", merchantId, formId))
  /\ UNCHANGED <<rows, list, merchantId, open, mounting, formId, card, data, shared, bounds>>

(* The form that was submitted has not been left since.                     *)
Filled(i) == request[i].row = formId

(* Mutant: the list is not invalidated.                                     *)
AddSettlesQuietly(i) ==
  /\ request[i].kind = "add" /\ request[i].at = "page"
  /\ GoesOn(i, [request[i] EXCEPT !.kind = "reset"])
  /\ UNCHANGED <<rows, list, merchantId, screen, data, shared, bounds>>

(* A second after the answer the list is invalidated and the form closed;   *)
(* the next second ends with the form reset.                                *)
AddSettles(i) ==
  LET r == request[i] IN
  /\ r.kind = "add" /\ r.at = "page"
  /\ IF open THEN invalidateQueries([request EXCEPT ![i] = [r EXCEPT !.kind = "reset"]], merchantId)
     ELSE Ends(i) /\ UNCHANGED shared
  /\ UNCHANGED <<rows, list, merchantId, screen, data, bounds>>

FormReset(i) ==
  /\ request[i].kind = "reset"
  /\ formId' = IF Filled(i) THEN formId + 1 ELSE formId
  /\ submitting' = (submitting /\ ~Filled(i))
  /\ Ends(i) /\ UNCHANGED <<rows, list, merchantId, open, mounting, card, data, shared, bounds>>

AddFailed(i) ==
  /\ request[i].kind = "add" /\ request[i].at = "failed"
  /\ submitting' = (submitting /\ ~Filled(i)) /\ Ends(i)
  /\ UNCHANGED <<rows, list, merchantId, open, mounting, formId, card, data, shared, bounds>>

Shown == UNION {data[k].rows : k \in DOMAIN data}
Rows == {r.id : r \in Shown}
Undecided == {r.id : r \in {s \in Shown : ~s.done}}

deleteSelected(n) ==
  /\ list.deletes /\ Usable /\ n \in Rows
  /\ Send(Mutation("delete", merchantId, n))
  /\ UNCHANGED <<rows, list, merchantId, screen, data, shared, bounds>>

DeleteSettles(i) ==
  /\ request[i].kind = "delete"
  /\ \/ /\ request[i].at = "page"
        /\ IF open THEN invalidateQueries(Without({i}), merchantId)
           ELSE Ends(i) /\ UNCHANGED shared
     \/ request[i].at = "failed" /\ Ends(i) /\ UNCHANGED shared
  /\ UNCHANGED <<rows, list, merchantId, screen, data, bounds>>

(* The details of a payment with a decision to make; they stay open when    *)
(* another merchant is chosen.                                              *)
OpenCard(n) ==
  /\ list.decides /\ Usable /\ card = 0 /\ n \in Undecided /\ card' = n
  /\ UNCHANGED <<rows, list, merchantId, open, mounting, formId, submitting, data, shared,
                 request, bounds>>

CloseCard ==
  /\ card # 0 /\ card' = 0
  /\ UNCHANGED <<rows, list, merchantId, open, mounting, formId, submitting, data, shared,
                 request, bounds>>

handleResolve ==
  /\ card # 0 /\ \A i \in Slots : request[i].kind # "decide"
  /\ Send(Mutation("decide", merchantId, card))
  /\ UNCHANGED <<rows, list, merchantId, screen, data, shared, bounds>>

(* onResolved closes the card and refetches.                                *)
Resolved(i) ==
  /\ request[i].kind = "decide"
  /\ \/ /\ request[i].at = "page" /\ card' = 0
        /\ IF open THEN refetch(Without({i}), merchantId) ELSE Ends(i) /\ UNCHANGED shared
     \/ request[i].at = "failed" /\ Ends(i) /\ UNCHANGED <<card, shared>>
  /\ UNCHANGED <<rows, list, merchantId, open, mounting, formId, submitting, data, bounds>>

----------------------------------------------------------------------------
ListingsNext ==
  \/ \E m \in Merchants : AddedElsewhere(m) \/ SwitchMerchant(m)
  \/ \E i \in Slots :
       \/ ServePage(i) \/ ServeAdd(i) \/ ServeChange(i) \/ Fails(i) \/ AnswerIsLost(i)
       \/ PageFetched(i) \/ FetchFailed(i) \/ AddSettles(i) \/ FormReset(i) \/ AddFailed(i)
       \/ DeleteSettles(i) \/ Resolved(i)
  \/ LeavePage \/ EnterPage \/ MountHandler \/ fetchNextPage \/ uploadCreated
  \/ CloseCard \/ handleResolve
  \/ \E n \in 1..MaxRows : deleteSelected(n) \/ OpenCard(n)

ListingsSpec == ListingsInit /\ [][ListingsNext]_listingsVars

----------------------------------------------------------------------------
(* What the lists promise.                                                  *)

Page == [merchant : Merchants, next : 0..MaxRows,
         rows : SUBSET [id : 1..MaxRows, done : BOOLEAN]]

(* Types: the cached pages are pages as the server makes them, and there is *)
(* one fetch at most, because every one replaces or shares the running one  *)
(* (payments-queries.ts:13).                                                *)
ListingsTypeOK ==
  /\ \A n \in DOMAIN rows :
       rows[n] \in [merchant : Merchants, by : 0..Elsewhere, gone : BOOLEAN, done : BOOLEAN]
  /\ merchantId \in Merchants /\ card \in 0..Len(rows) /\ formId \in 1..Elsewhere
  /\ \A k \in DOMAIN data : data[k] \in Page
  /\ Cardinality(Fetches) <= 1
  /\ {open, mounting, submitting} \subseteq BOOLEAN /\ shared \in {"no", "same", "other"}

(* Once everything has come in, the page shows rows of the merchant that is *)
(* chosen, although no key of the cache names one (payments-queries.ts:14).  *)
(* It does not when a fetch was shared, or kept pages, across a switch.     *)
ShowsChosen ==
  Quiet /\ open /\ ~mounting /\ shared # "other" /\ faults = 0 =>
    \A k \in DOMAIN data : data[k].merchant = merchantId

(* Pages loaded one by one, at different times and partly again, are one    *)
(* list of one merchant: no row twice, and none left out between two that   *)
(* are shown (payments-queries.ts:51, "refetchPage").                       *)
NothingSkipped ==
  /\ \A j, k \in DOMAIN data : j < k =>
       /\ data[j].merchant = data[k].merchant
       /\ \A a \in data[j].rows, b \in data[k].rows : a.id > b.id
  /\ \A n \in 1..Len(rows), a, b \in Rows :
       /\ b < n /\ n < a /\ rows[n].merchant = data[1].merchant /\ ~rows[n].gone
       => n \in Rows

(* What the merchant did here is seen here: with one page loaded, the page  *)
(* is what the server would answer now, unless somebody else added to it.   *)
OwnActsShow ==
  /\ Quiet /\ open /\ ~mounting /\ shared = "no" /\ faults = 0 /\ Len(data) = 1
  /\ \A n \in 1..Len(rows) : rows[n].by # Elsewhere
  => data[1] = PageFrom(merchantId, Newest)

(* A form that is sent again after a lost answer makes no second payment    *)
(* (payment-add-form.tsx:43, payment/service.go:463).                       *)
PaymentsMadeOnce ==
  list.once => \A n, k \in 1..Len(rows) :
    n # k /\ rows[n].merchant = rows[k].merchant /\ rows[n].by \in 1..MaxForms
      => rows[n].by # rows[k].by
=============================================================================
