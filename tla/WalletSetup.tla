----------------------------- MODULE WalletSetup -----------------------------
(* Importing an extended public key (ui-dashboard, wallet-setup-page.tsx):   *)
(* the wallet is created, listed, and an address derived from it that the    *)
(* merchant compares with the wallet software; a wallet that does not match  *)
(* is deleted and imported again.  "Back", the buttons of the views and the  *)
(* choice of another merchant do not wait for the handlers under way.        *)
EXTENDS DashboardTab, Sequences, FiniteSetsExt

CONSTANTS
  Keys,         \* what the merchant may paste
  PathOf,       \* the derivation path each key's prefix stands for, or None
  DefaultPath,  \* XPUB_BLOCKCHAINS[0].path
  MaxWallets,   \* bound: wallets ever created
  MaxIndex,     \* bound: addresses derived from one key
  MaxImpatient  \* bound: acts of the user while something is outstanding

Paths == ({DefaultPath} \cup {PathOf[k] : k \in Keys}) \ {None}

ASSUME WalletSetupAssumption ==
  /\ None \notin Merchants \cup Keys /\ DefaultPath # None /\ DOMAIN PathOf = Keys
  /\ MaxInFlight \in Nat \ {0} /\ MaxWallets \in Nat /\ MaxIndex \in Nat
  /\ MaxFaults \in Nat /\ MaxImpatient \in Nat

VARIABLES
  made,            \* the server's wallets, in the order they were created
  mode,
  selectedBlockchain,  \* whether one is selected; there is one to select
  form,            \* the key and the path of the import form
  isSubmitting,
  existingWallet,  \* the wallet on the overview's card, or 0
  selectedWallet,  \* the wallet of the detail view, or 0
  firstAddress,    \* its first address
  verify,          \* the verify view's wallet, address, spinner and help
  isDeleting,
  told,            \* history: what the user last said of each wallet
  crossed,         \* history: two lists of addresses were on their way at once
  impatient        \* history: how often the user did not wait

walletSetupVars ==
  <<made, merchantId, mode, selectedBlockchain, form, isSubmitting, existingWallet,
    selectedWallet, firstAddress, verify, isDeleting, told, crossed, request, faults,
    impatient>>
view == <<mode, selectedBlockchain, form, selectedWallet, firstAddress, verify>>
flags == <<isSubmitting, isDeleting>>
history == <<told, crossed>>

Numbers == 0..MaxWallets
NoAddress == [wallet |-> 0, index |-> 0]
NotVerifying == [wallet |-> 0, address |-> NoAddress, loading |-> FALSE, help |-> FALSE]
EmptyForm == [key |-> None, path |-> None]

(* A handler as it closed over its inputs; "answer" is what came back.       *)
Job(kind, stage, m, w) ==
  [kind |-> kind, stage |-> stage, at |-> "server", merchant |-> m, wallet |-> w,
   key |-> None, ok |-> TRUE, answer |-> NoAddress]
GoesTo(r, stage) == [r EXCEPT !.stage = stage, !.at = "server"]
Reply(r, ok, answer) == [r EXCEPT !.at = "page", !.ok = ok, !.answer = answer]

UserClicks ==
  /\ Quiet \/ impatient < MaxImpatient
  /\ impatient' = IF Quiet THEN impatient ELSE impatient + 1
Waited == UNCHANGED impatient

loadData(m) == Job("load", "list", m, 0)

WalletSetupInit ==
  /\ made = <<>> /\ merchantId \in Merchants
  /\ mode = "overview" /\ selectedBlockchain = FALSE /\ form = EmptyForm
  /\ existingWallet = 0 /\ selectedWallet = 0 /\ firstAddress = NoAddress
  /\ verify = NotVerifying /\ isSubmitting = FALSE /\ isDeleting = FALSE
  /\ told = [w \in Numbers \ {0} |-> "nothing"] /\ crossed = FALSE
  /\ request = [i \in Slots |-> IF i = 1 THEN loadData(merchantId) ELSE Free]
  /\ faults = 0 /\ impatient = 0

----------------------------------------------------------------------------
(* The server.                                                              *)

Made == DOMAIN made
Configured(m) == {w \in Made : made[w].live /\ made[w].merchant = m}
WalletOf(m) == IF Configured(m) = {} THEN 0 ELSE CHOOSE w \in Configured(m) : TRUE

(* Wallets with one key count on from the highest index any of them reached. *)
NextIndex(w) == 1 + Max({made[v].last : v \in {u \in Made : made[u].live /\ made[u].key = made[w].key}})
Derived(w) ==
  [made EXCEPT ![w].last = NextIndex(w),
               ![w].first = IF @ = -1 THEN NextIndex(w) ELSE @]

InServer(i, stage) == AtServer(i) /\ request[i].stage = stage

ServeCreate(i) ==
  LET r == request[i]
      ok == WalletOf(r.merchant) = 0 /\ PathOf[r.key] # None /\ Len(made) < MaxWallets IN
  /\ InServer(i, "create")
  /\ made' = IF ok THEN Append(made, [merchant |-> r.merchant, key |-> r.key, live |-> TRUE,
                                      first |-> -1, last |-> -1]) ELSE made
  /\ GoesOn(i, Reply(r, ok, NoAddress))
  /\ UNCHANGED <<merchantId, view, flags, existingWallet, history, faults>> /\ Waited

ServeList(i) ==
  /\ InServer(i, "list")
  /\ GoesOn(i, Reply(request[i], TRUE, [NoAddress EXCEPT !.wallet = WalletOf(request[i].merchant)]))
  /\ UNCHANGED <<made, merchantId, view, flags, existingWallet, history, faults>> /\ Waited

(* Mutant: the wallet the merchant has is deleted, whichever was named.      *)
ServeDeleteConfigured(i) ==
  LET r == request[i]  w == WalletOf(r.merchant) IN
  /\ InServer(i, "delete")
  /\ made' = IF w # 0 THEN [made EXCEPT ![w].live = FALSE] ELSE made
  /\ GoesOn(i, Reply(r, w # 0, NoAddress))
  /\ UNCHANGED <<merchantId, view, flags, existingWallet, history, faults>> /\ Waited

(* The wallet is looked for among the merchant's own.                        *)
ServeDelete(i) ==
  LET r == request[i]  ok == r.wallet \in Configured(r.merchant) IN
  /\ InServer(i, "delete")
  /\ made' = IF ok THEN [made EXCEPT ![r.wallet].live = FALSE] ELSE made
  /\ GoesOn(i, Reply(r, ok, NoAddress))
  /\ UNCHANGED <<merchantId, view, flags, existingWallet, history, faults>> /\ Waited

ServeDerive(i) ==
  LET r == request[i]
      ok == made[r.wallet].live /\ NextIndex(r.wallet) <= MaxIndex IN
  /\ InServer(i, "derive")
  /\ made' = IF ok THEN Derived(r.wallet) ELSE made
  /\ GoesOn(i, Reply(r, ok, IF ok THEN [wallet |-> r.wallet, index |-> NextIndex(r.wallet)]
                            ELSE NoAddress))
  /\ UNCHANGED <<merchantId, view, flags, existingWallet, history, faults>> /\ Waited

(* The first of the wallet's addresses, if it has any.                       *)
ServeAddresses(i) ==
  LET r == request[i]  first == made[r.wallet].first IN
  /\ InServer(i, "addresses")
  /\ GoesOn(i, Reply(r, made[r.wallet].live,
                     IF made[r.wallet].live /\ first # -1
                     THEN [wallet |-> r.wallet, index |-> first] ELSE NoAddress))
  /\ UNCHANGED <<made, merchantId, view, flags, existingWallet, history, faults>> /\ Waited

(* A customer chooses to pay to a wallet.                                    *)
CustomerPays(w) ==
  /\ made[w].live /\ NextIndex(w) <= MaxIndex /\ made' = Derived(w)
  /\ UNCHANGED <<merchantId, view, flags, existingWallet, history, request, faults>> /\ Waited

(* The request does not arrive, or what it did is done and not heard of.     *)
Fault(i) ==
  /\ request[i] # Free /\ request[i].ok /\ faults < MaxFaults /\ faults' = faults + 1
  /\ GoesOn(i, Reply(request[i], FALSE, NoAddress))
  /\ UNCHANGED <<made, merchantId, view, flags, existingWallet, history>> /\ Waited

----------------------------------------------------------------------------
(* What comes back to the page.                                              *)

resetState ==
  /\ mode' = "overview" /\ selectedBlockchain' = FALSE /\ form' = EmptyForm
  /\ selectedWallet' = 0 /\ firstAddress' = NoAddress /\ verify' = NotVerifying

AnsweredAt(i, kind, stage) == Arrived(i, kind) /\ request[i].stage = stage
Listed(i) == existingWallet' = request[i].answer.wallet

DataLoaded(i) ==
  /\ Arrived(i, "load") /\ Ends(i)
  /\ IF request[i].ok THEN Listed(i) ELSE UNCHANGED existingWallet
  /\ UNCHANGED <<made, merchantId, view, flags, history, faults>> /\ Waited

FirstAddressLoaded(i) ==
  LET r == request[i] IN
  /\ Arrived(i, "first") /\ Ends(i)
  /\ firstAddress' = IF r.ok /\ r.answer # NoAddress THEN r.answer ELSE firstAddress
  /\ UNCHANGED <<made, merchantId, mode, selectedBlockchain, form, selectedWallet, verify,
                 flags, existingWallet, history, faults>> /\ Waited

(* handleSubmitImport goes on: create, list, derive.                         *)
ImportCreated(i) ==
  /\ AnsweredAt(i, "import", "create")
  /\ \/ request[i].ok /\ GoesOn(i, GoesTo(request[i], "list")) /\ UNCHANGED isSubmitting
     \/ ~request[i].ok /\ Ends(i) /\ isSubmitting' = FALSE
  /\ UNCHANGED <<made, merchantId, view, isDeleting, existingWallet, history, faults>>
  /\ Waited

ImportListed(i) ==
  LET r == request[i]  newWallet == r.answer.wallet IN
  /\ AnsweredAt(i, "import", "list")
  /\ \/ /\ r.ok /\ newWallet # 0 /\ Listed(i)
        /\ mode' = "verify"
        /\ verify' = [verify EXCEPT !.wallet = newWallet, !.loading = TRUE, !.help = FALSE]
        /\ GoesOn(i, [GoesTo(r, "derive") EXCEPT !.wallet = newWallet])
        /\ UNCHANGED <<selectedBlockchain, form, selectedWallet, firstAddress, isSubmitting>>
     \/ /\ r.ok /\ newWallet = 0 /\ Listed(i)
        /\ resetState /\ Ends(i) /\ isSubmitting' = FALSE
     \/ ~r.ok /\ Ends(i) /\ isSubmitting' = FALSE /\ UNCHANGED <<view, existingWallet>>
  /\ UNCHANGED <<made, merchantId, isDeleting, history, faults>> /\ Waited

ImportDerived(i) ==
  /\ AnsweredAt(i, "import", "derive") /\ Ends(i)
  /\ verify' = [verify EXCEPT !.address = request[i].answer, !.loading = FALSE]
  /\ isSubmitting' = FALSE
  /\ UNCHANGED <<made, merchantId, mode, selectedBlockchain, form, selectedWallet, firstAddress,
                 isDeleting, existingWallet, history, faults>> /\ Waited

(* onOk of handleDelete goes on: delete, list.                               *)
DeleteGoesOn(i) ==
  /\ AnsweredAt(i, "delete", "delete")
  /\ \/ request[i].ok /\ GoesOn(i, GoesTo(request[i], "list")) /\ UNCHANGED isDeleting
     \/ ~request[i].ok /\ Ends(i) /\ isDeleting' = FALSE
  /\ UNCHANGED <<made, merchantId, view, isSubmitting, existingWallet, history, faults>>
  /\ Waited

DeleteListed(i) ==
  /\ AnsweredAt(i, "delete", "list") /\ Ends(i) /\ isDeleting' = FALSE
  /\ IF request[i].ok THEN Listed(i) /\ resetState ELSE UNCHANGED <<view, existingWallet>>
  /\ UNCHANGED <<made, merchantId, isSubmitting, history, faults>> /\ Waited

(* handleVerifyDelete goes on: delete, list, and back to the filled-in form. *)
VerifyDeleteGoesOn(i) ==
  /\ AnsweredAt(i, "drop", "delete")
  /\ IF request[i].ok THEN GoesOn(i, GoesTo(request[i], "list")) ELSE Ends(i)
  /\ UNCHANGED <<made, merchantId, view, flags, existingWallet, history, faults>> /\ Waited

VerifyDeleteListed(i) ==
  /\ AnsweredAt(i, "drop", "list") /\ Ends(i)
  /\ IF request[i].ok
     THEN /\ Listed(i) /\ mode' = "import"
          /\ verify' = [NotVerifying EXCEPT !.loading = verify.loading]
     ELSE UNCHANGED <<existingWallet, mode, verify>>
  /\ UNCHANGED <<made, merchantId, selectedBlockchain, form, selectedWallet, firstAddress,
                 flags, history, faults>> /\ Waited

----------------------------------------------------------------------------
(* What the user does.                                                       *)

ChangeMerchant(m) ==
  /\ UserClicks /\ m # merchantId /\ merchantId' = m /\ Send(loadData(m))
  /\ UNCHANGED <<made, view, flags, existingWallet, history, faults>>

(* "Back", "Cancel", "Continue", another tab.                                *)
GoBack ==
  /\ UserClicks /\ resetState
  /\ UNCHANGED <<made, merchantId, flags, existingWallet, history, request, faults>>

(* Mutant: the address shown before stays until there is another.            *)
handleCardClickKeeps ==
  /\ UserClicks /\ mode = "overview" /\ selectedBlockchain' = TRUE
  /\ \/ /\ existingWallet # 0 /\ mode' = "detail" /\ selectedWallet' = existingWallet
        /\ Send(Job("first", "addresses", merchantId, existingWallet))
        /\ crossed' = (crossed \/ \E i \in Slots : request[i].kind = "first")
        /\ UNCHANGED <<form, firstAddress>>
     \/ /\ existingWallet = 0 /\ mode' = "import" /\ form' = [form EXCEPT !.path = DefaultPath]
        /\ UNCHANGED <<selectedWallet, firstAddress, request, crossed>>
  /\ UNCHANGED <<made, merchantId, verify, flags, existingWallet, told, faults>>

(* The card of a wallet opens its details and loads its first address.       *)
handleCardClick ==
  /\ UserClicks /\ mode = "overview" /\ selectedBlockchain' = TRUE
  /\ \/ /\ existingWallet # 0 /\ mode' = "detail" /\ selectedWallet' = existingWallet
        /\ firstAddress' = NoAddress
        /\ Send(Job("first", "addresses", merchantId, existingWallet))
        /\ crossed' = (crossed \/ \E i \in Slots : request[i].kind = "first")
        /\ UNCHANGED form
     \/ /\ existingWallet = 0 /\ mode' = "import" /\ form' = [form EXCEPT !.path = DefaultPath]
        /\ UNCHANGED <<selectedWallet, firstAddress, request, crossed>>
  /\ UNCHANGED <<made, merchantId, verify, flags, existingWallet, told, faults>>

OpenImport ==
  /\ UserClicks /\ mode = "overview" /\ mode' = "import"
  /\ UNCHANGED <<made, merchantId, selectedBlockchain, form, selectedWallet, firstAddress,
                 verify, flags, existingWallet, history, request, faults>>

(* The import form.  The path of a detected key is not open to change.       *)
Detected == form.key # None /\ PathOf[form.key] # None

SelectBlockchain ==
  /\ UserClicks /\ mode = "import" /\ existingWallet = 0 /\ selectedBlockchain' = TRUE
  /\ form' = IF Detected THEN form ELSE [form EXCEPT !.path = DefaultPath]
  /\ UNCHANGED <<made, merchantId, mode, selectedWallet, firstAddress, verify, flags,
                 existingWallet, history, request, faults>>

PasteKey(k) ==
  /\ UserClicks /\ mode = "import" /\ form.key # k
  /\ form' = [key |-> k, path |-> IF PathOf[k] # None THEN PathOf[k] ELSE form.path]
  /\ UNCHANGED <<made, merchantId, mode, selectedBlockchain, selectedWallet, firstAddress,
                 verify, flags, existingWallet, history, request, faults>>

EditPath(p) ==
  /\ UserClicks /\ mode = "import" /\ ~Detected /\ form' = [form EXCEPT !.path = p]
  /\ UNCHANGED <<made, merchantId, mode, selectedBlockchain, selectedWallet, firstAddress,
                 verify, flags, existingWallet, history, request, faults>>

handleSubmitImport ==
  /\ UserClicks /\ mode = "import" /\ ~isSubmitting /\ selectedBlockchain /\ form.key # None
  /\ isSubmitting' = TRUE
  /\ Send([Job("import", "create", merchantId, 0) EXCEPT !.key = form.key])
  /\ UNCHANGED <<made, merchantId, view, isDeleting, existingWallet, history, faults>>

(* The verify view, once there is an address to compare.                     *)
Comparing == mode = "verify" /\ ~verify.loading /\ verify.address # NoAddress

(* "Addresses Match", "Keep Anyway".                                         *)
KeepWallet ==
  /\ UserClicks /\ Comparing /\ resetState
  /\ told' = [told EXCEPT ![verify.wallet] = "keep"]
  /\ UNCHANGED <<made, merchantId, flags, existingWallet, crossed, request, faults>>

ShowMismatchHelp ==
  /\ UserClicks /\ Comparing /\ ~verify.help /\ verify' = [verify EXCEPT !.help = TRUE]
  /\ UNCHANGED <<made, merchantId, mode, selectedBlockchain, form, selectedWallet, firstAddress,
                 flags, existingWallet, history, request, faults>>

handleVerifyDelete ==
  /\ UserClicks /\ Comparing /\ verify.help
  /\ told' = [told EXCEPT ![verify.wallet] = "delete"]
  /\ Send(Job("drop", "delete", merchantId, verify.wallet))
  /\ UNCHANGED <<made, merchantId, view, flags, existingWallet, crossed, faults>>

(* The confirmation covers the page: it is opened and answered at once.      *)
handleDelete ==
  /\ UserClicks /\ mode = "detail" /\ ~isDeleting /\ isDeleting' = TRUE
  /\ told' = [told EXCEPT ![selectedWallet] = "delete"]
  /\ Send(Job("delete", "delete", merchantId, selectedWallet))
  /\ UNCHANGED <<made, merchantId, view, isSubmitting, existingWallet, crossed, faults>>

----------------------------------------------------------------------------
ServerSteps(i) ==
  ServeCreate(i) \/ ServeList(i) \/ ServeDelete(i) \/ ServeDerive(i) \/ ServeAddresses(i)
PageSteps(i) ==
  \/ DataLoaded(i) \/ FirstAddressLoaded(i)
  \/ ImportCreated(i) \/ ImportListed(i) \/ ImportDerived(i)
  \/ DeleteGoesOn(i) \/ DeleteListed(i) \/ VerifyDeleteGoesOn(i) \/ VerifyDeleteListed(i)
UserSteps ==
  \/ \E m \in Merchants : ChangeMerchant(m)
  \/ GoBack \/ handleCardClick \/ OpenImport \/ SelectBlockchain \/ handleSubmitImport
  \/ \E k \in Keys : PasteKey(k)
  \/ \E p \in Paths : EditPath(p)
  \/ KeepWallet \/ ShowMismatchHelp \/ handleVerifyDelete \/ handleDelete

WalletSetupNext ==
  \/ \E i \in Slots : ServerSteps(i) \/ PageSteps(i) \/ Fault(i)
  \/ \E w \in Made : CustomerPays(w)
  \/ UserSteps

(* Requests are served or fail, and the browser takes what comes back.       *)
WalletSetupSpec == WalletSetupInit /\ [][WalletSetupNext]_walletSetupVars
FairWalletSetupSpec ==
  /\ WalletSetupSpec
  /\ \A i \in Slots : WF_walletSetupVars(ServerSteps(i)) /\ WF_walletSetupVars(PageSteps(i))

----------------------------------------------------------------------------
(* What the page promises.                                                   *)

Address == [wallet : Numbers, index : 0..MaxIndex]
WalletSetupTypeOK ==
  /\ \A w \in Made : made[w] \in [merchant : Merchants, key : Keys, live : BOOLEAN,
                                  first : -1..MaxIndex, last : -1..MaxIndex]
  /\ mode \in {"overview", "import", "verify", "detail"}
  /\ form \in [key : Keys \cup {None}, path : Paths \cup {None}]
  /\ {existingWallet, selectedWallet} \subseteq 0..Len(made) /\ firstAddress \in Address
  /\ verify \in [wallet : 0..Len(made), address : Address, loading : BOOLEAN, help : BOOLEAN]
  /\ {selectedBlockchain, isSubmitting, isDeleting, crossed} \subseteq BOOLEAN
  /\ told \in [Numbers \ {0} -> {"nothing", "keep", "delete"}]

(* The address the merchant is asked to compare is one of the wallet it is   *)
(* shown for, however the views were left while it was on its way            *)
(* (wallet-setup-page.tsx:814, :719): in the details unless two lists of     *)
(* addresses crossed.                                                        *)
AddressIsOfWallet ==
  /\ Comparing => verify.address.wallet = verify.wallet
  /\ mode = "detail" /\ ~crossed /\ firstAddress # NoAddress =>
       firstAddress.wallet = selectedWallet

(* No handler that comes back late leaves a view without what it shows,      *)
(* which renders as a blank page (wallet-setup-page.tsx:934, :1200).         *)
NeverBlank ==
  /\ mode = "verify" => verify.wallet # 0
  /\ mode = "detail" => selectedWallet # 0

(* The path on display for a key that was recognised is the one the server   *)
(* will derive with (wallet-setup-page.tsx:1070).                            *)
DetectedPathIsShown == Detected => form.path = PathOf[form.key]

(* A wallet is only ever deleted when the user said so of that wallet, and   *)
(* one the user said to keep stays, if the user waited for answers           *)
(* (wallet-setup-page.tsx:1203).                                             *)
KeptStays ==
  \A w \in Made :
    /\ ~made[w].live => told[w] # "nothing"
    /\ told[w] = "keep" /\ impatient = 0 /\ faults = 0 => made[w].live

(* With everything answered, the card shows the merchant's wallet.           *)
ShownIsConfigured ==
  Quiet /\ impatient = 0 /\ faults = 0 => existingWallet = WalletOf(merchantId)

(* What the four views show is true of the wallet they show it for.          *)
ViewsAreTrue == AddressIsOfWallet /\ NeverBlank /\ DetectedPathIsShown /\ ShownIsConfigured

(* The import button and the verify view do not spin for ever.               *)
ImportEnds == isSubmitting ~> ~isSubmitting

(* The address under "First Receive Address (index 0)" has that index        *)
(* (wallet-setup-page.tsx:1252).  A customer who pays first takes it.        *)
VerifiedIsFirst == Comparing => verify.address.index = 0
==============================================================================
