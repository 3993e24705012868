------------------------ MODULE DashboardInvariants ------------------------
(* What every step of a page of the dashboard keeps: the inductive           *)
(* invariants from which the properties of WalletSetup, Dashboard and        *)
(* Listings are proved (DashboardProofs).  The three extend DashboardTab;    *)
(* each has its own specification, and no definition here uses the           *)
(* variables of two of them.                                                *)
EXTENDS Dashboard, Listings, WalletSetup

-----------------------------------------------------------------------------
(* Importing a wallet (WalletSetup).                                         *)

ImportKinds == {"load", "first", "import", "delete", "drop"}
ImportStages == {"list", "addresses", "create", "derive", "delete"}
ImportJobs ==
  [kind : ImportKinds, stage : ImportStages, at : {"server", "page"}, merchant : Merchants,
   wallet : Numbers, key : Keys \cup {None}, ok : BOOLEAN, answer : Address]
WalletRows == [merchant : Merchants, key : Keys, live : BOOLEAN,
               first : -1..MaxIndex, last : -1..MaxIndex]

StepFits(r) ==
  /\ r.kind = "load" => r.stage = "list"
  /\ r.kind = "first" => r.stage = "addresses"
  /\ r.kind = "import" => r.stage \in {"create", "list", "derive"}
  /\ r.kind \in {"delete", "drop"} => r.stage \in {"delete", "list"}
WalletFits(r) ==
  /\ r.stage = "create" => r.key \in Keys
  /\ r.kind \in {"first", "delete", "drop"} \/ r.stage = "derive" => r.wallet \in Made
  /\ r.kind \in {"delete", "drop"} => told[r.wallet] # "nothing"
AnswerFits(r) ==
  /\ r.answer.wallet \in 0..Len(made)
  /\ r.at = "page" /\ r.stage \in {"derive", "addresses"} =>
       r.answer = NoAddress \/ r.answer.wallet = r.wallet
ImportJobFits(r) == r \in ImportJobs /\ StepFits(r) /\ WalletFits(r) /\ AnswerFits(r)

Importing(i) == request[i].kind = "import"
OneImport ==
  /\ \A i, j \in Slots : Importing(i) /\ Importing(j) => i = j
  /\ \A i \in Slots : Importing(i) => isSubmitting
WalletsTyped == made \in Seq(WalletRows) /\ Len(made) <= MaxWallets
ImportJobsFit ==
  DOMAIN request = Slots /\ \A i \in Slots : request[i] # Free => ImportJobFits(request[i])
DeletedWhenTold == \A w \in Made : ~made[w].live => told[w] # "nothing"
ViewTyped ==
  /\ mode \in {"overview", "import", "verify", "detail"}
  /\ form \in [key : Keys \cup {None}, path : Paths \cup {None}]
  /\ selectedWallet \in 0..Len(made) /\ firstAddress \in Address
  /\ verify \in [wallet : 0..Len(made), address : Address, loading : BOOLEAN, help : BOOLEAN]
  /\ selectedBlockchain \in BOOLEAN
FlagsTyped ==
  /\ isSubmitting \in BOOLEAN /\ isDeleting \in BOOLEAN /\ crossed \in BOOLEAN
  /\ existingWallet \in 0..Len(made)
  /\ told \in [Numbers \ {0} -> {"nothing", "keep", "delete"}]
CountsTyped == merchantId \in Merchants /\ faults \in Nat /\ impatient \in Nat
WalletInv ==
  /\ WalletsTyped /\ ViewTyped /\ FlagsTyped /\ CountsTyped
  /\ ImportJobsFit /\ OneImport /\ DeletedWhenTold

ViewFits(r) ==
  /\ r.kind = "import" /\ r.stage = "derive" /\ mode = "verify" => verify.wallet = r.wallet
  /\ r.kind = "first" /\ mode = "detail" /\ ~crossed => selectedWallet = r.wallet
ViewInv ==
  /\ AddressIsOfWallet /\ NeverBlank /\ DetectedPathIsShown
  /\ mode = "overview" => form.key = None
  /\ \A i \in Slots : ViewFits(request[i])
  /\ ~crossed => \A i, j \in Slots : request[i].kind = "first" /\ request[j].kind = "first" => i = j

Calm == impatient = 0 /\ faults = 0
Alone == \A i, j \in Slots : request[i] # Free /\ request[j] # Free => i = j
CardShows == existingWallet = WalletOf(merchantId)
Dropped(r) == r.kind = "drop" /\ (r.stage = "list" \/ (r.at = "page" /\ r.ok))
CalmFits(r) ==
  /\ r.merchant = merchantId
  /\ r.stage = "list" /\ r.at = "page" => r.ok /\ r.answer.wallet = WalletOf(merchantId)
  /\ \/ r.kind = "first" \/ r.stage = "derive"
     \/ r.stage \in {"create", "delete"} /\ (r.at = "server" \/ ~r.ok)
     => CardShows
  /\ r.kind \in {"delete", "drop"} => told[r.wallet] = "delete"
  /\ r.kind = "delete" => mode = "detail"
  /\ r.kind = "drop" => mode = "verify"
KeptLive == \A w \in Made : told[w] = "keep" => made[w].live
VerifyLive == mode = "verify" => made[verify.wallet].live \/ \E i \in Slots : Dropped(request[i])
CalmInv ==
  Calm => /\ Alone /\ KeptLive /\ VerifyLive
          /\ Quiet => CardShows
          /\ \A i \in Slots : request[i] # Free => CalmFits(request[i])

-----------------------------------------------------------------------------
(* The shell, its settings and balances (Dashboard).                         *)

ShellKinds == {"me", "list", "show", "fee", "login", "logout", "create", "delete", "save"}
Thens == {"load", "fee", "show", "reload", "login", "choose", "list", "reset", "deleted", "left",
          "methods", "currency", "webhook"}
Chosen == Merchants \cup {None}
Ids == Users \cup Chosen
Results == Ids \cup (SUBSET Merchants) \cup Displays \cup {"refused", "lost"}
Asked == [kind : ShellKinds, at : {"server"}, id : Ids, then : Thens, stored : Chosen]
Answers == [kind : ShellKinds, at : {"page"}, id : Ids, then : Thens, stored : Chosen,
            ok : BOOLEAN, result : Results]

ThenFits(r) ==
  /\ r.kind = "me" => r.then = "load"
  /\ r.kind = "list" => r.then \in {"load", "reset", "deleted"}
  /\ r.kind = "show" => r.then \in {"load", "fee", "show"}
  /\ r.kind = "fee" => r.then \in {"show", "left"}
  /\ r.kind = "save" => r.then \in {"methods", "currency", "webhook", "fee"}
IdFits(r) ==
  /\ r.kind = "login" => r.id \in Users
  /\ r.kind \in {"show", "fee", "create", "delete", "save"} => r.id \in Merchants
  /\ r.kind = "save" /\ r.then # "fee" => r.stored \in Merchants
ResultFits(r) ==
  r.at = "page" /\ r.ok =>
    /\ r.kind = "me" => r.result \in Users
    /\ r.kind = "list" => r.result \in SUBSET Merchants
    /\ r.kind = "show" => r.result \in Displays
    /\ r.kind = "fee" => r.result \in Chosen
AskFits(r) == r \in Asked \cup Answers /\ ThenFits(r) /\ IdFits(r) /\ ResultFits(r)

ServerTyped ==
  /\ session \in Users \cup {None} /\ exists \subseteq Merchants
  /\ settings \in [Merchants -> [own : Merchants, fee : Chosen]]
ShellTyped ==
  /\ page \in {"login", "manage", "settings", "currencies"} /\ user \in Users \cup {None}
  /\ merchants \in (SUBSET Merchants) \cup {None} /\ merchantId \in Chosen
  /\ merchant \in Displays \cup {None} /\ globalFee \in Chosen /\ loadedFor \in Chosen
  /\ isLoading \in BOOLEAN
ActsTyped == faults \in 0..MaxFaults /\ hasty \in 0..MaxHasty
AsksFit ==
  DOMAIN request = Slots /\ \A i \in Slots : request[i] # Free => AskFits(request[i])
ShellInv == ServerTyped /\ ShellTyped /\ ActsTyped /\ AsksFit

Unhurt == hasty = 0 /\ faults = 0
SignedIn == user = session /\ session # None
ChosenOwn == merchantId \in Own(session) \cup {None}
TabKnown == SignedIn /\ ChosenOwn /\ merchants = Own(session)
OpeningPages == {"settings", "manage"}
ListIsOwn(r) == r.at = "page" => r.ok /\ r.result = Own(session)

MeFits(r) ==
  r.kind = "me" =>
    /\ page \in OpeningPages
    /\ r.at = "page" => IF r.ok THEN session # None /\ r.result = session ELSE r.result = "refused"
ListFits(r) ==
  r.kind = "list" =>
    /\ SignedIn /\ ListIsOwn(r)
    /\ r.then = "load" => page \in OpeningPages
    /\ r.then # "load" => page = "manage"
    /\ r.then = "reset" => ChosenOwn
    /\ r.then = "deleted" => merchants # None /\ merchants \ {r.id} = Own(session)
ReadFits(r) ==
  r.kind \in {"show", "fee"} =>
    /\ TabKnown /\ r.id = merchantId
    /\ r.kind = "show" /\ r.then = "load" => page \in OpeningPages
    /\ r.kind = "show" /\ r.then = "show" => page \in MerchantPages
    /\ r.kind = "fee" \/ r.then = "fee" => page = "currencies" /\ loadedFor = merchantId
    /\ r.kind = "fee" => r.then = "show"
    /\ r.at = "page" => r.ok /\ r.result = IF r.kind = "show" THEN [id |-> r.id, settings |-> r.id]
                                           ELSE r.id
SaveFits(r) ==
  r.kind = "save" =>
    /\ TabKnown /\ page \in MerchantPages /\ r.id = merchantId /\ r.stored = r.id
    /\ page = "currencies" => loadedFor = merchantId
SessionFits(r) ==
  /\ r.kind = "login" => page = "login"
  /\ r.kind = "logout" => merchantId = None /\ (r.at = "page" => r.ok)
ManageFits(r) ==
  r.kind \in {"create", "delete"} =>
    /\ page = "manage" /\ SignedIn /\ (r.at = "page" => r.ok)
    /\ r.kind = "create" => Owner[r.id] = session /\ (r.at = "page" => r.id \in exists)
    /\ r.kind = "create" => ChosenOwn
    /\ r.kind = "delete" =>
         /\ merchants # None
         /\ r.at = "server" => merchants = Own(session) /\ r.id \in merchants
         /\ r.at = "page" => merchants \ {r.id} = Own(session)
UnhurtFits(r) ==
  MeFits(r) /\ ListFits(r) /\ ReadFits(r) /\ SaveFits(r) /\ SessionFits(r) /\ ManageFits(r)

OnlyReads ==
  \A i, j \in Slots : request[i] # Free /\ request[j] # Free /\ i # j =>
    request[i].kind \in {"show", "fee"}
SettingsApart == \A m \in Merchants : settings[m] = [own |-> m, fee |-> m]
DisplayApart == merchant # None => merchant.settings = merchant.id
ShownIsChosen ==
  page \in MerchantPages /\ merchantId # None /\ merchant # None
  /\ (page = "currencies" => loadedFor = merchantId) =>
    merchant.id = merchantId \/ \E i \in Slots : request[i].kind \in {"show", "me", "list"}
FeeIsChosen ==
  page = "currencies" /\ merchantId # None /\ loadedFor = merchantId =>
    \/ globalFee = merchantId
    \/ \E i \in Slots : request[i].kind = "fee" \/ (request[i].kind = "show" /\ request[i].then = "fee")
UnhurtFacts ==
  /\ OnlyReads /\ SettingsApart /\ DisplayApart
  /\ Quiet /\ page # "login" => TabKnown
  /\ page = "currencies" => ~isLoading
  /\ \A i \in Slots : request[i] # Free => UnhurtFits(request[i])
  /\ ShownIsChosen /\ FeeIsChosen
UnhurtInv == Unhurt => UnhurtFacts

-----------------------------------------------------------------------------
(* The lists (Listings).                                                     *)

ListRow == [merchant : Merchants, by : 0..Elsewhere, gone : BOOLEAN, done : BOOLEAN]
ListStages == {"server", "page", "failed"}
Queries == [kind : {"fetch"}, at : ListStages, merchant : Merchants, pages : Seq(Page), left : Int]
Changes == [kind : {"add", "reset", "delete", "decide"}, at : ListStages, merchant : Merchants, row : Nat]

OfMerchant(n, m) == n \in 1..Len(rows) /\ rows[n].merchant = m
Linked(pages) == \A k \in DOMAIN pages :
  /\ pages[k].merchant = pages[1].merchant
  /\ \A r \in pages[k].rows : OfMerchant(r.id, pages[1].merchant) /\ r.id > pages[k].next
  /\ pages[k].next # 0 => OfMerchant(pages[k].next, pages[1].merchant)
  /\ k < Len(pages) => pages[k].next # 0
Falling(pages) == \A j, k \in DOMAIN pages : j < k =>
  pages[k].next <= pages[j].next /\ \A r \in pages[k].rows : r.id <= pages[j].next
Reached(pages, l, n) == \E j \in 1..l : \E r \in pages[j].rows : n <= r.id
Has(pages, l, n) == \E j \in 1..l : \E r \in pages[j].rows : n = r.id
Complete(pages) == \A l \in DOMAIN pages, n \in 1..Len(rows) :
  /\ rows[n].merchant = pages[1].merchant /\ ~rows[n].gone /\ n > pages[l].next
  /\ Reached(pages, l, n)
  => Has(pages, l, n)
PagesFit(pages) == pages \in Seq(Page) /\ Linked(pages) /\ Falling(pages) /\ Complete(pages)

QueryFits(r) ==
  r.kind = "fetch" =>
    r \in Queries /\ PagesFit(r.pages) /\ (r.at = "server" => Cursor(r.pages) # 0)
ChangeFits(r) ==
  r.kind # "fetch" =>
    /\ r \in Changes
    /\ r.kind \in {"add", "reset"} => r.row \in 1..MaxForms
    /\ r.kind \in {"delete", "decide"} => r.row \in 1..Len(rows)

RowsTyped == rows \in Seq(ListRow) /\ Len(rows) <= MaxRows
ScreenTyped ==
  /\ merchantId \in Merchants /\ card \in 0..Len(rows) /\ formId \in 1..Elsewhere
  /\ open \in BOOLEAN /\ mounting \in BOOLEAN /\ submitting \in BOOLEAN
  /\ shared \in {"no", "same", "other"} /\ faults \in Nat
SlotsFit ==
  DOMAIN request = Slots
  /\ \A i \in Slots : request[i] # Free => QueryFits(request[i]) /\ ChangeFits(request[i])
OneFetch == \A i, j \in Fetches : i = j
ListsInv == RowsTyped /\ ScreenTyped /\ SlotsFit /\ OneFetch /\ PagesFit(data) /\ PaymentsMadeOnce

PagesOf(m, pages) == \A k \in DOMAIN pages : pages[k].merchant = m
FirstFetch == data = <<>> => \A i \in Fetches :
  request[i].at # "failed" /\ PagesOf(request[i].merchant, request[i].pages)
FetchedChosen == open /\ ~mounting /\ shared # "other" =>
  /\ \A i \in Fetches : request[i].at # "failed" /\ request[i].merchant = merchantId
                        /\ PagesOf(merchantId, request[i].pages)
  /\ Fetches = {} => PagesOf(merchantId, data)
ShownInv == faults = 0 => FirstFetch /\ FetchedChosen

ByOneself == \A n \in 1..Len(rows) : rows[n].by # Elsewhere
Unsettled == \E i \in Slots : request[i].kind \in {"add", "delete", "decide"} /\ request[i].at = "page"
Current(pages) == Len(pages) = 1 => pages[1] = PageFrom(merchantId, Newest)
ActsInv == faults = 0 /\ open /\ ~mounting /\ shared = "no" /\ ByOneself /\ ~Unsettled =>
  /\ \A i \in Fetches : request[i].at = "page" => Current(request[i].pages)
  /\ Fetches = {} => Current(data)
=============================================================================
