----------------------------- MODULE Collectors -----------------------------
(* Collector contracts (ui-dashboard): a merchant deploys one per chain with *)
(* a wallet extension and registers it, removes it, and withdraws from it;   *)
(* an administrator deploys the factory that TRON's collectors are cloned    *)
(* from.  The handlers run across four parties: the page, the extension,     *)
(* which is on one EVM chain at a time whatever page asks it to sign, the    *)
(* chains, and the server.                                                   *)
EXTENDS InFlight, Sequences

CONSTANTS
  Merchants,
  EvmChains,
  Tron,
  None,
  MaxContracts,  \* bound: contracts ever deployed
  MaxFaults,     \* bound: refusals, timeouts, answers lost
  MaxHasty       \* bound: acts of the user while something is outstanding

Chains == EvmChains \cup {Tron}

ASSUME CollectorsAssumption ==
  /\ Tron \notin EvmChains /\ None \notin Chains \cup Merchants
  /\ MaxInFlight \in Nat \ {0} /\ MaxContracts \in Nat
  /\ MaxFaults \in Nat /\ MaxHasty \in Nat

VARIABLES
  walletChain,   \* the extension's: the EVM chain it is on
  onChain,       \* contracts, in the order they were deployed
  registered,    \* the server's: the contract of each merchant and chain, or 0
  factory,       \* the server's: TRON's implementation and factory
  merchantId,
  page,          \* "setup" or "balances"
  collectors,    \* on display: the contract of each chain, or 0
  balances,      \* on display: whose balance each chain's card shows, or 0
  loading,
  modal,         \* of each panel: the chain it is about and its step
  closing,       \* panels whose modal a timer is about to close
  implAddress,   \* the administrator's page: the last implementation, or 0
  faults,
  hasty          \* history: how often the user did not wait

vars == <<walletChain, onChain, registered, factory, merchantId, page, collectors,
          balances, loading, modal, closing, implAddress, request, faults, hasty>>
world == <<walletChain, onChain>>
server == <<registered, factory>>
display == <<collectors, balances, loading, modal, closing, implAddress>>
place == <<merchantId, page>>

Panels == {"evm", "tron", "factory"}
PanelOf(c) == IF c = Tron THEN "tron" ELSE "evm"
Nothing == [c \in Chains |-> 0]
Closed == [chain |-> None, step |-> "idle"]
Settled == Quiet /\ closing = {}

(* A job of the page: what it was started for, as its handler closed over   *)
(* it.  "made" is the contract it deployed, "from" the one it starts from,  *)
(* "list" the collectors it read.                                           *)
Job(kind, stage, at, m, c) ==
  [kind |-> kind, stage |-> stage, at |-> at, page |-> page, merchant |-> m, chain |-> c,
   made |-> 0, from |-> 0, list |-> Nothing]
Reply(r, ok) == [ok |-> ok, job |-> r, kind |-> r.kind, at |-> "page"]

loadData(m) == Job("list", "list", "server", m, None)
FetchBalance(m, cs, at) == [Job("balance", "balance", at, m, None) EXCEPT !.chain = cs]

UserActs ==
  /\ Settled \/ hasty < MaxHasty
  /\ hasty' = IF Settled THEN hasty ELSE hasty + 1
Unhurried == UNCHANGED hasty

Init ==
  /\ walletChain \in EvmChains /\ onChain = <<>>
  /\ registered = [m \in Merchants |-> Nothing] /\ factory = [impl |-> 0, factory |-> 0]
  /\ merchantId \in Merchants /\ page = "setup"
  /\ collectors = Nothing /\ balances = Nothing /\ loading = TRUE
  /\ modal = [p \in Panels |-> Closed] /\ closing = {} /\ implAddress = 0
  /\ request = [i \in Slots |-> IF i = 1 THEN loadData(merchantId) ELSE Free]
  /\ faults = 0 /\ hasty = 0

----------------------------------------------------------------------------
(* The extension.                                                           *)

InWallet(i, stage) ==
  request[i] # Free /\ request[i].at = "wallet" /\ request[i].stage = stage

WalletConnects(i) ==
  /\ InWallet(i, "connect") /\ GoesOn(i, Reply(request[i], TRUE))
  /\ UNCHANGED <<world, server, place, display, faults>> /\ Unhurried

SwitchChain(i) ==
  /\ InWallet(i, "switch") /\ walletChain' = request[i].chain
  /\ GoesOn(i, Reply(request[i], TRUE))
  /\ UNCHANGED <<onChain, server, place, display, faults>> /\ Unhurried

(* A transaction goes to the chain the extension is on; it names none.      *)
SendTransaction(i, stage) ==
  LET r == request[i]
      c == IF r.chain = Tron THEN Tron ELSE walletChain IN
  /\ InWallet(i, stage) /\ Len(onChain) < MaxContracts
  /\ onChain' = Append(onChain, [chain |-> c, merchant |-> r.merchant, from |-> r.from])
  /\ GoesOn(i, [r EXCEPT !.at = "chain", !.made = Len(onChain) + 1])
  /\ UNCHANGED <<walletChain, server, place, display, faults>> /\ Unhurried

(* The bound on contracts: the extension has nothing left to pay with.      *)
OutOfFunds(i, stage) ==
  /\ InWallet(i, stage) /\ Len(onChain) = MaxContracts
  /\ GoesOn(i, Reply(request[i], FALSE))
  /\ UNCHANGED <<world, server, place, display, faults>> /\ Unhurried

(* The receipt is looked for on the chain the extension is on now.          *)
TransactionReceipt(i) ==
  LET r == request[i] IN
  /\ request[i] # Free /\ r.at = "chain"
  /\ GoesOn(i, Reply(r, r.chain = Tron \/ onChain[r.made].chain = walletChain))
  /\ UNCHANGED <<world, server, place, display, faults>> /\ Unhurried

WithdrawalSigned(i) ==
  /\ InWallet(i, "withdraw") /\ GoesOn(i, Reply(request[i], TRUE))
  /\ UNCHANGED <<world, server, place, display, faults>> /\ Unhurried

(* The user picks another chain in the extension itself.                    *)
PickChain(c) ==
  /\ c # walletChain /\ walletChain' = c
  /\ UserActs /\ UNCHANGED <<onChain, server, place, display, request, faults>>

(* Refused by the user, timed out, lost, or answered with an error.         *)
Fails(i) ==
  LET r == request[i] IN
  /\ r # Free /\ faults < MaxFaults /\ r.at \in {"wallet", "chain", "server"}
  /\ GoesOn(i, Reply(r, FALSE)) /\ faults' = faults + 1
  /\ UNCHANGED <<world, server, place, display>> /\ Unhurried

(* What was registered, although the page is told it was not.  (The loss of *)
(* other answers looks like that of their requests.)                        *)
AnswerIsLost(i) ==
  LET r == request[i] IN
  /\ r # Free /\ faults < MaxFaults /\ r.at = "page" /\ r.ok
  /\ r.job.stage \in {"register", "save"}
  /\ GoesOn(i, Reply(r.job, FALSE)) /\ faults' = faults + 1
  /\ UNCHANGED <<world, server, place, display>> /\ Unhurried

----------------------------------------------------------------------------
(* The server.                                                              *)

(* Registering replaces what was registered.                                *)
RegisterCollector(r) ==
  /\ r.stage = "register"
  /\ registered' = [registered EXCEPT ![r.merchant][r.chain] = r.made] /\ UNCHANGED factory

UpsertFactory(r) ==
  /\ r.stage = "save"
  /\ factory' = [impl |-> r.from, factory |-> r.made] /\ UNCHANGED registered

DeleteCollector(r) ==
  /\ r.stage = "delete"
  /\ registered' = [registered EXCEPT ![r.merchant][r.chain] = 0] /\ UNCHANGED factory

ReadCollectors(r) == r.stage \in {"list", "ask", "balance"} /\ UNCHANGED server

(* What was read: TRON's factory, the collectors, the contract whose        *)
(* balances they are.                                                       *)
Read(r) ==
  CASE r.stage = "ask" -> [r EXCEPT !.from = factory.factory]
    [] r.stage \in {"list", "balance"} -> [r EXCEPT !.list = registered[r.merchant]]
    [] OTHER -> r

Found(r) == r.stage = "ask" => factory.factory # 0

Serve(i) ==
  LET r == request[i] IN
  /\ AtServer(i)
  /\ RegisterCollector(r) \/ UpsertFactory(r) \/ DeleteCollector(r) \/ ReadCollectors(r)
  /\ GoesOn(i, Reply(Read(r), Found(r)))
  /\ UNCHANGED <<world, place, display, faults>> /\ Unhurried

----------------------------------------------------------------------------
(* The page.                                                                *)

Handled == UNCHANGED <<world, server, place, faults>> /\ Unhurried

(* The state of a page that has been left is not set any more.              *)
Here(r) == r.page = page \/ r.kind = "factory"

Shows(p, r, step) ==
  modal' = IF Here(r) THEN [modal EXCEPT ![p].step = step] ELSE modal

(* loadData.  When the collectors do not arrive there are none; when the    *)
(* HD wallets, loaded along with them, do not, the page stays as it was.    *)
(* On the page of balances a failure leaves the collectors that were there, *)
(* and each collector's balance is fetched.                                 *)
DataLoaded(i) ==
  LET a == request[i]  r == a.job IN
  /\ Arrived(i, "list")
  /\ IF ~Here(r)
     THEN UNCHANGED <<collectors, loading>>
     ELSE /\ loading' = FALSE
          /\ \/ a.ok /\ collectors' = r.list
             \/ ~a.ok /\ page = "setup" /\ collectors' = Nothing
             \/ ~a.ok /\ UNCHANGED collectors
  /\ LET cs == {c \in Chains : r.list[c] # 0} IN
     IF page = "balances" /\ Here(r) /\ a.ok /\ cs # {}
     THEN GoesOn(i, FetchBalance(r.merchant, cs, "server")) ELSE Ends(i)
  /\ UNCHANGED <<balances, modal, closing, implAddress>> /\ Handled

(* One answer per chain, in any order.                                      *)
BalanceFetched(i) ==
  LET a == request[i]  r == a.job IN
  /\ Arrived(i, "balance")
  /\ \E c \in r.chain :
       /\ balances' = IF a.ok /\ Here(r) /\ r.list[c] # 0
                      THEN [balances EXCEPT ![c] = r.list[c]] ELSE balances
       /\ IF r.chain = {c} THEN Ends(i)
          ELSE GoesOn(i, [r EXCEPT !.chain = @ \ {c}, !.list = Nothing])
  /\ UNCHANGED <<collectors, loading, modal, closing, implAddress>> /\ Handled

(* The modal covers the page; a panel offers to deploy where no collector   *)
(* is on display.                                                           *)
Uncovered == ~loading /\ \A p \in {"evm", "tron"} : modal[p].chain = None
OnSetup == page = "setup" /\ Uncovered
OnBalances == page = "balances" /\ Uncovered

handleDeploy(c) ==
  /\ OnSetup /\ collectors[c] = 0 /\ Len(onChain) < MaxContracts
  /\ modal' = [modal EXCEPT ![PanelOf(c)] = [chain |-> c, step |-> "connect"]]
  /\ Send(Job("deploy", "connect", "wallet", merchantId, c))
  /\ UserActs
  /\ UNCHANGED <<world, server, place, collectors, balances, loading, closing,
                 implAddress, faults>>

(* The modal of the failed attempt is closed after the next one has begun.  *)
handleDeployTronClosed(impl) ==
  /\ modal["factory"].step \in {"idle", "error"} /\ Len(onChain) < MaxContracts
  /\ impl \in {0, implAddress}
  /\ modal' = [modal EXCEPT !["factory"] = Closed]
  /\ implAddress' = impl
  /\ Send([Job("factory", "connect", "wallet", None, Tron) EXCEPT !.from = impl])
  /\ UserActs
  /\ UNCHANGED <<world, server, place, collectors, balances, loading, closing, faults>>

(* The administrator's: with an implementation of an earlier attempt the    *)
(* first of the two contracts is skipped.                                   *)
handleDeployTron(impl) ==
  /\ modal["factory"].step \in {"idle", "error"} /\ Len(onChain) < MaxContracts
  /\ impl \in {0, implAddress}
  /\ modal' = [modal EXCEPT !["factory"] = [chain |-> Tron, step |-> "connect"]]
  /\ implAddress' = impl
  /\ Send([Job("factory", "connect", "wallet", None, Tron) EXCEPT !.from = impl])
  /\ UserActs
  /\ UNCHANGED <<world, server, place, collectors, balances, loading, closing, faults>>

(* What connecting the extension is followed by, and two forms of it: the   *)
(* extension's chain is taken as it is, TRON is a chain like the others.    *)
Implementation(r) == [stage |-> IF r.from = 0 THEN "implement" ELSE "deploy", at |-> "wallet"]
Signing(r) == [stage |-> IF r.kind = "deploy" THEN "deploy" ELSE "withdraw", at |-> "wallet"]

AfterConnectUnswitched(r) == IF r.kind = "factory" THEN Implementation(r) ELSE Signing(r)

AfterConnect(r) ==
  CASE r.kind = "factory" -> Implementation(r)
    [] r.kind = "deploy" /\ r.chain = Tron -> [stage |-> "ask", at |-> "server"]
    [] r.kind = "withdraw" /\ r.chain = Tron -> Signing(r)
    [] OTHER -> [stage |-> "switch", at |-> "wallet"]

(* What an await that succeeded is followed by, and where that goes.        *)
After(r) ==
  CASE r.stage = "connect" -> AfterConnect(r)
    [] r.stage = "switch" -> Signing(r)
    [] r.stage \in {"ask", "implement"} -> [stage |-> "deploy", at |-> "wallet"]
    [] OTHER -> [stage |-> IF r.kind = "factory" THEN "save" ELSE "register",
                 at |-> "server"]

Follows(r) == [r EXCEPT !.stage = After(r).stage, !.at = After(r).at]

(* The implementation becomes what the factory is made from.                *)
Implemented(r) == IF r.stage = "implement" THEN [r EXCEPT !.from = r.made, !.made = 0] ELSE r

PanelFor(r) == IF r.kind = "factory" THEN "factory" ELSE PanelOf(r.chain)

(* The next step of a deployment.  Asking for the factory has no step of    *)
(* its own on display.                                                      *)
DeployGoesOn(i) ==
  LET a == request[i]  r == Implemented(a.job) IN
  /\ \E kind \in {"deploy", "factory"} : Arrived(i, kind)
  /\ a.ok /\ a.job.stage \notin {"register", "save"}
  /\ GoesOn(i, Follows(r))
  /\ Shows(PanelFor(r), r, IF After(r).stage = "ask" THEN "connect" ELSE After(r).stage)
  /\ implAddress' = IF a.job.stage = "implement" THEN r.from ELSE implAddress
  /\ UNCHANGED <<collectors, balances, loading, closing>> /\ Handled

(* The page's cards are left as they are.                                   *)
DeployDoneUnseen(i) ==
  LET a == request[i]  r == a.job IN
  /\ \E kind \in {"deploy", "factory"} : Arrived(i, kind)
  /\ a.ok /\ r.stage \in {"register", "save"}
  /\ Shows(PanelFor(r), r, "done")
  /\ closing' = closing \cup {PanelFor(r)} /\ Ends(i)
  /\ UNCHANGED <<collectors, balances, loading, implAddress>> /\ Handled

(* The list is loaded for the merchant the deployment was for, and in two   *)
(* seconds the modal is closed.                                             *)
DeployDone(i) ==
  LET a == request[i]  r == a.job IN
  /\ \E kind \in {"deploy", "factory"} : Arrived(i, kind)
  /\ a.ok /\ r.stage \in {"register", "save"}
  /\ Shows(PanelFor(r), r, "done")
  /\ closing' = IF Here(r) THEN closing \cup {PanelFor(r)} ELSE closing
  /\ IF r.kind = "deploy" /\ Here(r) THEN GoesOn(i, loadData(r.merchant)) ELSE Ends(i)
  /\ UNCHANGED <<collectors, balances, loading, implAddress>> /\ Handled

DeployFailed(i) ==
  LET a == request[i]  r == a.job IN
  /\ \E kind \in {"deploy", "factory"} : Arrived(i, kind)
  /\ ~a.ok /\ Ends(i) /\ Shows(PanelFor(r), r, "error")
  /\ UNCHANGED <<collectors, balances, loading, closing, implAddress>> /\ Handled

TimerCloses(p) ==
  /\ p \in closing /\ closing' = closing \ {p}
  /\ modal' = [modal EXCEPT ![p] = Closed]
  /\ UNCHANGED <<collectors, balances, loading, implAddress, request>> /\ Handled

(* The Close button of a deployment that is over, and the Escape key, which *)
(* works at every step.                                                     *)
CloseModal(p) ==
  /\ modal[p].chain # None /\ modal' = [modal EXCEPT ![p] = Closed]
  /\ UserActs
  /\ UNCHANGED <<world, server, place, collectors, balances, loading, closing,
                 implAddress, request, faults>>

handleDelete(c) ==
  /\ OnSetup /\ collectors[c] # 0
  /\ Send(Job("remove", "delete", "server", merchantId, c))
  /\ UserActs /\ UNCHANGED <<world, server, place, display, faults>>

(* A removal that got no answer counts as done.                             *)
DeleteAnswered(i) ==
  LET r == request[i].job IN
  /\ Arrived(i, "remove")
  /\ IF Here(r) THEN GoesOn(i, loadData(r.merchant)) ELSE Ends(i)
  /\ UNCHANGED display /\ Handled

handleWithdraw(c) ==
  /\ OnBalances /\ collectors[c] # 0
  /\ \A i \in Slots : request[i] # Free =>
       LET r == IF request[i].at = "page" THEN request[i].job ELSE request[i] IN
       r.kind # "withdraw" \/ r.chain # c
  /\ Send([Job("withdraw", "connect", "wallet", merchantId, c) EXCEPT !.from = collectors[c]])
  /\ UserActs /\ UNCHANGED <<world, server, place, display, faults>>

(* Five seconds after the transaction was sent the balance is fetched.      *)
WithdrawGoesOn(i) ==
  LET a == request[i]  r == a.job IN
  /\ Arrived(i, "withdraw")
  /\ CASE ~a.ok -> Ends(i)
       [] a.ok /\ r.stage = "withdraw" ->
            GoesOn(i, [FetchBalance(r.merchant, {r.chain}, "server") EXCEPT !.page = r.page])
       [] OTHER -> GoesOn(i, Follows(r))
  /\ UNCHANGED display /\ Handled

(* Another merchant, or the other page: what is on the way for a page that  *)
(* is left goes on, without setting its state.                              *)
Left(r) ==
  IF r = Free \/ r.kind \in {"list", "balance"} THEN Free
  ELSE IF r.at = "page" THEN [r EXCEPT !.job.page = "left"] ELSE [r EXCEPT !.page = "left"]

SelectMerchant(m) ==
  /\ m # merchantId /\ Uncovered /\ merchantId' = m
  /\ Send(loadData(m))
  /\ loading' = (loading \/ page = "balances")
  /\ UserActs
  /\ UNCHANGED <<world, server, page, collectors, balances, modal, closing,
                 implAddress, faults>>

GoTo(p) ==
  /\ p # page /\ Uncovered /\ page' = p
  /\ collectors' = Nothing /\ balances' = Nothing /\ loading' = TRUE
  /\ closing' = closing \cap {"factory"}
  /\ \E i \in FreeSlots : request' = [j \in Slots |->
       IF i = j THEN [loadData(merchantId) EXCEPT !.page = p] ELSE Left(request[j])]
  /\ UserActs /\ UNCHANGED <<world, server, merchantId, modal, implAddress, faults>>

----------------------------------------------------------------------------
WalletAnswers(i) ==
  \/ WalletConnects(i) \/ SwitchChain(i) \/ WithdrawalSigned(i)
  \/ \E stage \in {"implement", "deploy"} :
       SendTransaction(i, stage) \/ OutOfFunds(i, stage)

Continues(i) ==
  \/ DataLoaded(i) \/ BalanceFetched(i) \/ DeployGoesOn(i) \/ DeployDone(i)
  \/ DeployFailed(i) \/ DeleteAnswered(i) \/ WithdrawGoesOn(i)

Goes(i) == WalletAnswers(i) \/ TransactionReceipt(i) \/ Serve(i) \/ Continues(i)

UserDoes ==
  \/ \E c \in Chains : handleDeploy(c) \/ handleDelete(c) \/ handleWithdraw(c)
  \/ \E impl \in 0..MaxContracts : handleDeployTron(impl)
  \/ \E c \in EvmChains : PickChain(c)
  \/ \E m \in Merchants : SelectMerchant(m)
  \/ \E p \in Panels : CloseModal(p)
  \/ \E p \in {"setup", "balances"} : GoTo(p)

Next ==
  \/ UserDoes
  \/ \E i \in Slots : Goes(i) \/ Fails(i) \/ AnswerIsLost(i)
  \/ \E p \in Panels : TimerCloses(p)

Spec == Init /\ [][Next]_vars

(* Every party answers: the user signs or refuses, the wait for a receipt   *)
(* ends in a timeout.                                                       *)
FairSpec == Spec /\ \A i \in Slots : WF_vars(Goes(i) \/ Fails(i))
----------------------------------------------------------------------------
Numbers == 0..MaxContracts
Steps == {"idle", "connect", "switch", "implement", "deploy", "register", "save", "done",
          "error"}

TypeOK ==
  /\ walletChain \in EvmChains
  /\ onChain \in Seq([chain : Chains, merchant : Merchants \cup {None}, from : Numbers])
  /\ Len(onChain) <= MaxContracts
  /\ registered \in [Merchants -> [Chains -> 0..Len(onChain)]]
  /\ factory \in [impl : 0..Len(onChain), factory : 0..Len(onChain)]
  /\ merchantId \in Merchants /\ page \in {"setup", "balances"}
  /\ collectors \in [Chains -> Numbers] /\ balances \in [Chains -> Numbers]
  /\ loading \in BOOLEAN /\ closing \subseteq Panels /\ implAddress \in Numbers
  /\ modal \in [Panels -> [chain : Chains \cup {None}, step : Steps]]
  /\ faults \in 0..MaxFaults /\ hasty \in 0..MaxHasty

(* However merchants, pages and modals are changed while it is deployed, a  *)
(* collector is registered for the merchant it was deployed for: the        *)
(* handler goes on with the merchantId it closed over.                      *)
RegisteredForItsMerchant ==
  \A m \in Merchants, c \in Chains :
    registered[m][c] # 0 => onChain[registered[m][c]].merchant = m

(* A user who waits, and leaves the extension alone, registers no contract  *)
(* under a chain it is not on, although the transaction names no chain.     *)
RegisteredOnItsChain ==
  hasty = 0 => \A m \in Merchants, c \in Chains :
    registered[m][c] # 0 => onChain[registered[m][c]].chain = c

(* Nor does that user sign a withdrawal for another chain than the one the  *)
(* contract is on, where the call would do nothing.                         *)
WithdrawnOnItsChain ==
  hasty = 0 => \A i \in Slots : InWallet(i, "withdraw") =>
    onChain[request[i].from].chain \in {Tron, walletChain}

(* The factory that is saved was made from the implementation saved with    *)
(* it, also by an attempt that resumed a failed one.                        *)
SavedTogether ==
  factory.factory # 0 =>
    factory.impl # 0 /\ onChain[factory.factory].from = factory.impl

(* Every contract is where the server says it is.                           *)
ContractsBelong ==
  /\ RegisteredForItsMerchant /\ RegisteredOnItsChain
  /\ WithdrawnOnItsChain /\ SavedTogether

(* With everything answered, the cards show the collectors the merchant     *)
(* has, and each card the balance of the collector on it.                   *)
ShownIsRegistered ==
  Settled /\ hasty = 0 /\ faults = 0 =>
    /\ collectors = registered[merchantId]
    /\ page = "balances" => \A c \in Chains : collectors[c] # 0 => balances[c] = collectors[c]

(* A deployment under way is on display, on a step of its own, until it is  *)
(* over, unless the user closes the modal or starts another one before the  *)
(* timer of the last has closed it.                                         *)
Underway(r) == r.kind \in {"deploy", "factory"}
ProgressIsShown ==
  hasty = 0 => \A i \in Slots : request[i] # Free =>
    LET r == IF request[i].at = "page" THEN request[i].job ELSE request[i] IN
    Underway(r) => /\ modal[PanelFor(r)].chain = r.chain
                   /\ modal[PanelFor(r)].step \notin {"idle", "done", "error"}

(* A modal does not stay on a step for ever.                                *)
DeployEnds == \A p \in Panels :
  modal[p].step \notin {"idle", "done", "error"} ~> modal[p].step \in {"idle", "done", "error"}
============================================================================
