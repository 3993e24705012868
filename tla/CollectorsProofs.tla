-------------------------- MODULE CollectorsProofs --------------------------
(* For any merchants, chains, contracts and requests in flight: the types;  *)
(* that every registered contract belongs where it is registered; that a    *)
(* deployment under way is on display; and that the page shows what the     *)
(* server has.                                                              *)
EXTENDS Collectors, SequenceTheorems, TLAPS

Kinds == {"list", "balance", "deploy", "factory", "remove", "withdraw"}
Stages == {"list", "balance", "connect", "switch", "ask", "implement", "deploy", "register",
           "save", "delete", "withdraw"}
Jobs == [kind : Kinds, stage : Stages, at : {"wallet", "chain", "server"},
         page : {"setup", "balances", "left"}, merchant : Merchants \cup {None},
         chain : Chains \cup {None} \cup SUBSET Chains, made : Nat, from : Nat,
         list : [Chains -> Nat]]
Replies == [ok : BOOLEAN, job : Jobs, kind : Kinds, at : {"page"}]

(* The stages of each kind of job, the party each stage is with, and what   *)
(* it is about.                                                             *)
StageFits(r) ==
  /\ r.kind = "list" => r.stage = "list"
  /\ r.kind = "balance" => r.stage = "balance"
  /\ r.kind = "remove" => r.stage = "delete"
  /\ r.kind = "deploy" => r.stage \in {"connect", "switch", "ask", "deploy", "register"}
  /\ r.kind = "factory" => r.stage \in {"connect", "implement", "deploy", "save"}
  /\ r.kind = "withdraw" => r.stage \in {"connect", "switch", "withdraw"}
AtFits(r) ==
  /\ r.stage \in {"connect", "switch", "withdraw"} => r.at = "wallet"
  /\ r.stage \in {"list", "balance", "ask", "register", "save", "delete"} => r.at = "server"
  /\ r.stage \in {"implement", "deploy"} => r.at \in {"wallet", "chain"}
AboutFits(r) ==
  /\ r.kind # "factory" => r.merchant \in Merchants
  /\ r.kind \in {"deploy", "remove", "withdraw"} => r.chain \in Chains
  /\ r.kind = "factory" => r.chain = Tron
  /\ r.kind = "balance" => r.chain \subseteq Chains
  /\ r.stage = "switch" => r.chain # Tron
  /\ r.stage = "ask" => r.chain = Tron
JobFits(r) == r \in Jobs /\ StageFits(r) /\ AtFits(r) /\ AboutFits(r)

(* The contracts a job knows: it has deployed one by the time it waits for  *)
(* the receipt, and goes on with that one.                                  *)
Number(n) == n \in Nat /\ n <= Len(onChain)
MadeFits(r) ==
  /\ Number(r.made) /\ Number(r.from) /\ \A c \in Chains : Number(r.list[c])
  /\ r.at = "wallet" \/ r.stage = "ask" => r.made = 0
  /\ r.at = "chain" \/ r.stage \in {"register", "save"} => r.made # 0
  /\ r.kind = "deploy" /\ r.made # 0 => onChain[r.made].merchant = r.merchant
  /\ r.kind = "factory" /\ r.stage \in {"deploy", "save"} =>
       r.from # 0 /\ (r.made # 0 => onChain[r.made].from = r.from)
Fits(r) == JobFits(r) /\ MadeFits(r)

(* A deployment that an answer lets go on was in a block.                   *)
ReplyFits(a) ==
  /\ a \in Replies /\ a.kind = a.job.kind /\ Fits(a.job)
  /\ a.ok /\ a.job.stage \in {"implement", "deploy"} => a.job.at = "chain"

RequestFits(q) ==
  q # Free => IF q.at = "page" THEN ReplyFits(q) ELSE Fits(q)

Contracts == [chain : Chains, merchant : Merchants \cup {None}, from : Nat]
WorldTyped ==
  /\ walletChain \in EvmChains
  /\ onChain \in Seq(Contracts) /\ Len(onChain) <= MaxContracts
  /\ \A n \in 1..Len(onChain) : onChain[n].from <= MaxContracts
ServerTyped ==
  /\ registered \in [Merchants -> [Chains -> Nat]]
  /\ \A m \in Merchants, c \in Chains : Number(registered[m][c])
  /\ factory \in [impl : Nat, factory : Nat] /\ Number(factory.impl) /\ Number(factory.factory)
PageTyped ==
  /\ merchantId \in Merchants /\ page \in {"setup", "balances"}
  /\ collectors \in [Chains -> Nat] /\ balances \in [Chains -> Nat]
  /\ \A c \in Chains : Number(collectors[c]) /\ Number(balances[c])
  /\ loading \in BOOLEAN /\ closing \subseteq Panels /\ Number(implAddress)
  /\ modal \in [Panels -> [chain : Chains \cup {None}, step : Steps]]
ActsTyped == faults \in 0..MaxFaults /\ hasty \in 0..MaxHasty
RequestsFit == DOMAIN request = Slots /\ \A i \in Slots : RequestFits(request[i])

XInv ==
  /\ WorldTyped /\ ServerTyped /\ PageTyped /\ ActsTyped /\ RequestsFit
  /\ RegisteredForItsMerchant /\ SavedTogether

-----------------------------------------------------------------------------
Busy(i) == request[i] # Free
JobOf(q) == IF q.at = "page" THEN q.job ELSE q
OnIt(c, n) == n # 0 => onChain[n].chain = c

(* What a user who waits can rely on: the extension stays on the chain the  *)
(* one job under way has switched it to.                                    *)
Alone == \A i, j \in Slots : Busy(i) /\ Busy(j) => i = j
Signs(q) ==
  \/ JobOf(q).stage \in {"deploy", "withdraw"} /\ JobOf(q).kind # "factory"
  \/ q.at = "page" /\ q.ok /\ q.job.stage = "switch"
JobOnChain(q) ==
  LET r == JobOf(q) IN
  /\ \A c \in Chains : OnIt(c, r.list[c])
  /\ r.kind = "deploy" => OnIt(r.chain, r.made)
  /\ r.kind = "withdraw" => r.from # 0 /\ OnIt(r.chain, r.from)
  /\ Signs(q) /\ r.chain # Tron => walletChain = r.chain
JobOnDisplay(q) ==
  LET r == JobOf(q) IN
  Underway(r) =>
    /\ closing = {} /\ Here(r)
    /\ modal[PanelFor(r)].chain = r.chain
    /\ modal[PanelFor(r)].step \notin {"idle", "done", "error"}
RegisteredOn == \A m \in Merchants, c \in Chains : OnIt(c, registered[m][c])
CollectorsOn == \A c \in Chains : OnIt(c, collectors[c])
CalmInv ==
  hasty = 0 =>
    /\ Alone /\ RegisteredOn /\ CollectorsOn
    /\ \A i \in Slots : Busy(i) => JobOnChain(request[i]) /\ JobOnDisplay(request[i])

(* With nothing lost either, what is not on display yet is on its way.      *)
ListShown == collectors = registered[merchantId]
BalancesShown(cs) ==
  page = "balances" => \A c \in Chains \ cs : collectors[c] # 0 => balances[c] = collectors[c]
OfPage(q) ==
  LET r == JobOf(q) IN
  /\ r.kind # "factory" => r.merchant = merchantId /\ r.page = page
  /\ r.kind \in {"list", "balance"} /\ q.at = "page" => q.ok /\ r.list = registered[merchantId]
  /\ r.kind = "balance" => ListShown /\ BalancesShown(r.chain)
  /\ r.kind \in {"factory", "withdraw"} => ListShown /\ BalancesShown({})
  /\ r.kind = "deploy" =>
       page = "setup" /\ (IF q.at = "page" /\ r.stage = "register" THEN q.ok ELSE ListShown)
ShownInv ==
  hasty = 0 /\ faults = 0 =>
    /\ \A i \in Slots : Busy(i) => OfPage(request[i])
    /\ Quiet => ListShown /\ BalancesShown({})

-----------------------------------------------------------------------------
(* Records.                                                                 *)

LEMMA FreeIsNone ==
  /\ Free.kind = "none" /\ "none" \notin Kinds /\ Free \notin Jobs /\ Free \notin Replies
BY DEF Free, Kinds, Jobs, Replies

LEMMA NothingIsList ==
  Nothing \in [Chains -> Nat] /\ \A c \in Chains : Nothing[c] = 0
BY DEF Nothing

(* A job as it starts.                                                      *)
LEMMA JobStarts ==
  ASSUME NEW kind, NEW stage, NEW at, NEW m, NEW c, NEW q, q = Job(kind, stage, at, m, c)
  PROVE  /\ q.kind = kind /\ q.stage = stage /\ q.at = at /\ q.page = page
         /\ q.merchant = m /\ q.chain = c /\ q.made = 0 /\ q.from = 0 /\ q.list = Nothing
         /\ q = [kind |-> kind, stage |-> stage, at |-> at, page |-> page, merchant |-> m,
                 chain |-> c, made |-> 0, from |-> 0, list |-> Nothing]
BY DEF Job

LEMMA JobTyped ==
  ASSUME NEW kind \in Kinds, NEW stage \in Stages, NEW at \in {"wallet", "chain", "server"},
         NEW m \in Merchants \cup {None}, NEW c \in Chains \cup {None} \cup SUBSET Chains,
         page \in {"setup", "balances"}
  PROVE  Job(kind, stage, at, m, c) \in Jobs
BY NothingIsList DEF Job, Jobs

LEMMA ReplyTyped ==
  ASSUME NEW r \in Jobs, NEW ok \in BOOLEAN, NEW q, q = Reply(r, ok)
  PROVE  /\ q \in Replies /\ q.kind = r.kind /\ q.job = r /\ q.ok = ok /\ q.at = "page"
         /\ q # Free /\ JobOf(q) = r
<1>1. q \in Replies /\ q.kind = r.kind /\ q.job = r /\ q.ok = ok /\ q.at = "page"
  BY DEF Reply, Replies, Jobs
<1> QED BY <1>1, FreeIsNone DEF JobOf

LEMMA RequestKnown ==
  ASSUME RequestsFit, NEW i \in Slots, Busy(i)
  PROVE  /\ request[i].at = "page" => ReplyFits(request[i]) /\ request[i].kind = JobOf(request[i]).kind
         /\ request[i].at # "page" => Fits(request[i]) /\ request[i] \in Jobs
         /\ Fits(JobOf(request[i])) /\ JobOf(request[i]) \in Jobs
         /\ request[i].kind = JobOf(request[i]).kind
BY DEF RequestsFit, RequestFits, Busy, ReplyFits, Fits, JobFits, JobOf

(* One slot changes.                                                        *)
LEMMA SlotChanges ==
  ASSUME DOMAIN request = Slots, NEW i \in Slots, NEW q,
         request' = [request EXCEPT ![i] = q]
  PROVE  DOMAIN request' = Slots /\ request'[i] = q /\ \A j \in Slots \ {i} : request'[j] = request[j]
OBVIOUS

LEMMA SlotSent ==
  ASSUME DOMAIN request = Slots, NEW q, Send(q)
  PROVE  \E i \in Slots : /\ request[i] = Free /\ request' = [request EXCEPT ![i] = q]
BY DEF Send, FreeSlots

-----------------------------------------------------------------------------
(* Contracts are only ever added.                                           *)

Grows ==
  /\ onChain' \in Seq(Contracts) /\ Len(onChain) <= Len(onChain')
  /\ \A n \in 1..Len(onChain) : onChain'[n] = onChain[n]

LEMMA ContractsNumbered ==
  ASSUME WorldTyped
  PROVE  /\ Len(onChain) \in Nat /\ \A n \in Nat : n # 0 /\ Number(n) => n \in 1..Len(onChain)
         /\ Number(0)
<1>1. Len(onChain) \in Nat
  BY DEF WorldTyped
<1> QED BY <1>1 DEF Number

LEMMA GrowsOrNot ==
  ASSUME WorldTyped, UNCHANGED onChain
  PROVE  Grows
BY DEF WorldTyped, Grows

LEMMA NumbersStay ==
  ASSUME WorldTyped, Grows, NEW n, Number(n)
  PROVE  Number(n)' /\ (n # 0 => onChain'[n] = onChain[n])
<1>1. n \in Nat /\ n <= Len(onChain) /\ Len(onChain) \in Nat /\ Len(onChain') \in Nat
  BY DEF Number, WorldTyped, Grows
<1> QED BY <1>1 DEF Number, Grows

LEMMA FitsStays ==
  ASSUME WorldTyped, Grows, NEW r, Fits(r)
  PROVE  Fits(r)'
<1>1. JobFits(r)'
  BY DEF Fits, JobFits, StageFits, AtFits, AboutFits
<1>2. /\ Number(r.made)' /\ (r.made # 0 => onChain'[r.made] = onChain[r.made])
      /\ Number(r.from)'
  BY NumbersStay DEF Fits, MadeFits
<1>3. \A c \in Chains : Number(r.list[c])'
  BY NumbersStay DEF Fits, MadeFits
<1>4. MadeFits(r)'
  BY <1>2, <1>3 DEF Fits, MadeFits
<1> QED BY <1>1, <1>4 DEF Fits

LEMMA RequestStays ==
  ASSUME WorldTyped, Grows, NEW q, RequestFits(q)
  PROVE  RequestFits(q)'
<1>1. CASE q = Free
  BY <1>1 DEF RequestFits
<1>2. CASE q # Free /\ q.at = "page"
  <2>1. ReplyFits(q)
    BY <1>2 DEF RequestFits
  <2>2. Fits(q.job)'
    BY <2>1, FitsStays DEF ReplyFits
  <2> QED BY <1>2, <2>1, <2>2 DEF ReplyFits, RequestFits
<1>3. CASE q # Free /\ q.at # "page"
  BY <1>3, FitsStays DEF RequestFits
<1> QED BY <1>1, <1>2, <1>3

LEMMA RequestsStay ==
  ASSUME XInv, Grows, NEW i \in Slots, NEW q, GoesOn(i, q), RequestFits(q)'
  PROVE  RequestsFit'
<1>1. /\ DOMAIN request' = Slots /\ request'[i] = q
      /\ \A j \in Slots \ {i} : request'[j] = request[j]
  BY SlotChanges DEF XInv, RequestsFit, GoesOn
<1>2. \A j \in Slots \ {i} : RequestFits(request[j])'
  BY <1>1, RequestStays DEF XInv, RequestsFit
<1>3. ASSUME NEW j \in Slots PROVE RequestFits(request[j])'
  BY <1>1, <1>2
<1> QED BY <1>1, <1>3 DEF RequestsFit

LEMMA RequestsIfNone ==
  ASSUME XInv, Grows, UNCHANGED request
  PROVE  RequestsFit'
BY RequestStays DEF XInv, RequestsFit

LEMMA FreeFits == RequestFits(Free) /\ RequestFits(Free)'
BY DEF RequestFits

LEMMA RequestsEnd ==
  ASSUME XInv, Grows, NEW i \in Slots, Ends(i)
  PROVE  RequestsFit'
BY RequestsStay, FreeFits DEF Ends, GoesOn

LEMMA RequestsSent ==
  ASSUME XInv, Grows, NEW q, Send(q), RequestFits(q)'
  PROVE  RequestsFit'
<1>1. PICK i \in Slots : request' = [request EXCEPT ![i] = q]
  BY SlotSent DEF XInv, RequestsFit
<1> QED BY <1>1, RequestsStay DEF GoesOn

LEMMA ServerStays ==
  ASSUME XInv, Grows, UNCHANGED server
  PROVE  ServerTyped' /\ RegisteredForItsMerchant' /\ SavedTogether'
<1>1. /\ registered' = registered /\ factory' = factory
  BY DEF server
<1>2. \A m \in Merchants, c \in Chains :
        Number(registered[m][c])' /\ (registered[m][c] # 0 => onChain'[registered[m][c]] = onChain[registered[m][c]])
  BY <1>1, NumbersStay DEF XInv, ServerTyped
<1>3. /\ Number(factory.impl)' /\ Number(factory.factory)'
      /\ factory.factory # 0 => onChain'[factory.factory] = onChain[factory.factory]
  BY <1>1, NumbersStay DEF XInv, ServerTyped
<1> QED BY <1>1, <1>2, <1>3 DEF XInv, ServerTyped, RegisteredForItsMerchant, SavedTogether

LEMMA PageStays ==
  ASSUME XInv, Grows, UNCHANGED <<place, display>>
  PROVE  PageTyped'
<1>1. \A c \in Chains : Number(collectors[c])' /\ Number(balances[c])'
  BY NumbersStay DEF XInv, PageTyped, display
<1>2. Number(implAddress)'
  BY NumbersStay DEF XInv, PageTyped, display
<1> QED BY <1>1, <1>2 DEF XInv, PageTyped, place, display

LEMMA ActsStay ==
  ASSUME XInv, Unhurried \/ UserActs, faults' = faults \/ (faults < MaxFaults /\ faults' = faults + 1)
  PROVE  ActsTyped'
<1>1. faults \in 0..MaxFaults /\ hasty \in 0..MaxHasty /\ MaxFaults \in Nat /\ MaxHasty \in Nat
  BY CollectorsAssumption DEF XInv, ActsTyped
<1>2. hasty' \in 0..MaxHasty
  BY <1>1 DEF Unhurried, UserActs
<1>3. faults' \in 0..MaxFaults
  BY <1>1
<1> QED BY <1>2, <1>3 DEF ActsTyped

-----------------------------------------------------------------------------
(* Types, step by step.  A slot goes on with a request that fits.           *)

LEMMA Proceeds ==
  ASSUME XInv, UNCHANGED onChain, NEW i \in Slots, NEW q, GoesOn(i, q), RequestFits(q)
  PROVE  RequestsFit'
<1>1. Grows
  BY GrowsOrNot DEF XInv
<1>2. RequestFits(q)'
  BY <1>1, RequestStays DEF XInv
<1> QED BY <1>1, <1>2, RequestsStay

LEMMA Starts ==
  ASSUME XInv, UNCHANGED onChain, NEW q, Send(q), RequestFits(q)
  PROVE  RequestsFit'
<1>1. Grows
  BY GrowsOrNot DEF XInv
<1>2. RequestFits(q)'
  BY <1>1, RequestStays DEF XInv
<1> QED BY <1>1, <1>2, RequestsSent

LEMMA AnswerFits ==
  ASSUME NEW r, Fits(r), NEW ok \in BOOLEAN,
         ok /\ r.stage \in {"implement", "deploy"} => r.at = "chain"
  PROVE  RequestFits(Reply(r, ok))
<1>1. r \in Jobs
  BY DEF Fits, JobFits
<1>2. PICK q : q = Reply(r, ok)
  OBVIOUS
<1>3. q \in Replies /\ q.kind = r.kind /\ q.job = r /\ q.ok = ok /\ q.at = "page"
  BY <1>1, <1>2, ReplyTyped
<1>4. ReplyFits(q)
  BY <1>3 DEF ReplyFits
<1> QED BY <1>2, <1>3, <1>4 DEF RequestFits

LEMMA JobWaits ==
  ASSUME XInv, NEW i \in Slots, request[i] # Free, request[i].at # "page"
  PROVE  Fits(request[i]) /\ request[i] \in Jobs
BY RequestKnown DEF XInv, Busy

LEMMA ReplyHere ==
  ASSUME XInv, NEW i \in Slots, request[i] # Free, request[i].at = "page"
  PROVE  /\ ReplyFits(request[i]) /\ request[i] \in Replies /\ Fits(request[i].job)
         /\ request[i].job \in Jobs /\ request[i].kind = request[i].job.kind
BY RequestKnown DEF XInv, Busy, ReplyFits, Fits, JobFits

(* The extension's and the chains' answers, and failures.                   *)
LEMMA AnswersTyped ==
  ASSUME XInv, NEW i \in Slots,
         \/ WalletConnects(i) \/ SwitchChain(i) \/ WithdrawalSigned(i)
         \/ \E stage \in {"implement", "deploy"} : OutOfFunds(i, stage)
         \/ TransactionReceipt(i) \/ Fails(i) \/ AnswerIsLost(i)
  PROVE  XInv'
<1>1. /\ UNCHANGED <<onChain, server, place, display>> /\ Unhurried
      /\ faults' = faults \/ (faults < MaxFaults /\ faults' = faults + 1)
  BY DEF WalletConnects, SwitchChain, WithdrawalSigned, OutOfFunds, TransactionReceipt, Fails,
         AnswerIsLost, world, Unhurried
<1>2. Grows
  BY <1>1, GrowsOrNot DEF XInv
<1>3. request[i] # Free
  BY DEF WalletConnects, SwitchChain, WithdrawalSigned, OutOfFunds, TransactionReceipt, Fails,
         AnswerIsLost, InWallet
<1>4. walletChain' \in EvmChains
  <2>1. CASE SwitchChain(i)
    <3>1. request[i].stage = "switch" /\ request[i].kind \in {"deploy", "withdraw"}
      BY <2>1, JobWaits DEF SwitchChain, InWallet, Fits, JobFits, StageFits, Jobs, Kinds
    <3>2. request[i].chain \in Chains /\ request[i].chain # Tron
      BY <1>3, <2>1, <3>1, JobWaits DEF SwitchChain, InWallet, Fits, JobFits, AboutFits
    <3> QED BY <2>1, <3>2 DEF SwitchChain, Chains
  <2>2. CASE ~SwitchChain(i)
    BY <2>2 DEF WalletConnects, WithdrawalSigned, OutOfFunds, TransactionReceipt, Fails,
                AnswerIsLost, world, XInv, WorldTyped
  <2> QED BY <2>1, <2>2
<1>5. WorldTyped'
  BY <1>1, <1>4 DEF XInv, WorldTyped
<1>6. RequestsFit'
  <2>1. CASE WalletConnects(i) \/ SwitchChain(i) \/ WithdrawalSigned(i)
    <3>1. /\ request[i].at = "wallet" /\ request[i].stage \in {"connect", "switch", "withdraw"}
          /\ GoesOn(i, Reply(request[i], TRUE))
      BY <2>1 DEF WalletConnects, SwitchChain, WithdrawalSigned, InWallet
    <3>2. RequestFits(Reply(request[i], TRUE))
      BY <1>3, <3>1, JobWaits, AnswerFits
    <3> QED BY <1>1, <3>1, <3>2, Proceeds
  <2>2. CASE Fails(i) \/ \E stage \in {"implement", "deploy"} : OutOfFunds(i, stage)
    <3>1. request[i].at # "page" /\ GoesOn(i, Reply(request[i], FALSE))
      BY <2>2 DEF Fails, OutOfFunds, InWallet
    <3>2. RequestFits(Reply(request[i], FALSE))
      BY <1>3, <3>1, JobWaits, AnswerFits
    <3> QED BY <1>1, <3>1, <3>2, Proceeds
  <2>3. CASE TransactionReceipt(i)
    <3>1. PICK ok \in BOOLEAN : request[i].at = "chain" /\ GoesOn(i, Reply(request[i], ok))
      BY <2>3 DEF TransactionReceipt
    <3>2. RequestFits(Reply(request[i], ok))
      BY <1>3, <3>1, JobWaits, AnswerFits
    <3> QED BY <1>1, <3>1, <3>2, Proceeds
  <2>4. CASE AnswerIsLost(i)
    <3>1. request[i].at = "page" /\ GoesOn(i, Reply(request[i].job, FALSE))
      BY <2>4 DEF AnswerIsLost
    <3>2. RequestFits(Reply(request[i].job, FALSE))
      BY <1>3, <3>1, ReplyHere, AnswerFits
    <3> QED BY <1>1, <3>1, <3>2, Proceeds
  <2> QED BY <2>1, <2>2, <2>3, <2>4
<1>7. ServerTyped' /\ RegisteredForItsMerchant' /\ SavedTogether' /\ PageTyped' /\ ActsTyped'
  BY <1>1, <1>2, ServerStays, PageStays, ActsStay
<1> QED BY <1>5, <1>6, <1>7 DEF XInv

(* A contract is deployed; it is the job's.                                 *)
LEMMA SendTyped ==
  ASSUME XInv, NEW i \in Slots, NEW stage \in {"implement", "deploy"}, SendTransaction(i, stage)
  PROVE  XInv'
<1> DEFINE n == Len(onChain) + 1
<1>1. PICK r : r = request[i]
  OBVIOUS
<1>2. PICK c : c = IF r.chain = Tron THEN Tron ELSE walletChain
  OBVIOUS
<1>3. /\ r # Free /\ r.at = "wallet" /\ r.stage = stage /\ Fits(r) /\ r \in Jobs
      /\ Len(onChain) < MaxContracts /\ Len(onChain) \in Nat /\ MaxContracts \in Nat
  BY <1>1, JobWaits, ContractsNumbered, CollectorsAssumption
     DEF SendTransaction, InWallet, XInv
<1>4. PICK new : new = [chain |-> c, merchant |-> r.merchant, from |-> r.from]
  OBVIOUS
<1>5. /\ new \in Contracts /\ new.merchant = r.merchant /\ new.from = r.from /\ new.chain = c
      /\ r.from \in Nat /\ r.from <= Len(onChain)
  BY <1>2, <1>3, <1>4 DEF Contracts, Jobs, XInv, WorldTyped, Fits, MadeFits, Number, Chains
<1>6. /\ onChain' = Append(onChain, new) /\ UNCHANGED <<walletChain, server, place, display, faults>>
      /\ Unhurried
  BY <1>1, <1>2, <1>4 DEF SendTransaction
<1>7. /\ onChain' \in Seq(Contracts) /\ Len(onChain') = n /\ onChain'[n] = new
      /\ \A k \in 1..Len(onChain) : onChain'[k] = onChain[k]
  BY <1>5, <1>6 DEF XInv, WorldTyped
<1>8. Grows
  BY <1>3, <1>7 DEF Grows
<1>9. WorldTyped'
  <2>1. \A k \in 1..Len(onChain') : onChain'[k].from <= MaxContracts
    BY <1>3, <1>5, <1>7 DEF XInv, WorldTyped
  <2> QED BY <1>3, <1>6, <1>7, <2>1 DEF XInv, WorldTyped
<1>10. PICK q : q = [r EXCEPT !.at = "chain", !.made = n]
  OBVIOUS
<1>11. /\ q \in Jobs /\ q.kind = r.kind /\ q.stage = r.stage /\ q.at = "chain" /\ q.made = n
       /\ q.merchant = r.merchant /\ q.chain = r.chain /\ q.from = r.from /\ q.list = r.list
  <2>1. n \in Nat
    BY <1>3
  <2> HIDE DEF n
  <2> QED BY <1>3, <1>10, <2>1 DEF Jobs
<1>12. Fits(q)'
  <2>1. Fits(r)'
    BY <1>3, <1>8, FitsStays DEF XInv
  <2>2. JobFits(q)
    BY <1>3, <1>11 DEF Fits, JobFits, StageFits, AtFits, AboutFits
  <2>3. JobFits(q)'
    BY <2>2 DEF JobFits, StageFits, AtFits, AboutFits
  <2>4. Number(q.made)' /\ q.made # 0 /\ onChain'[q.made] = new
    BY <1>3, <1>7, <1>11 DEF Number
  <2>5. MadeFits(q)'
    BY <1>3, <1>5, <1>11, <2>1, <2>4 DEF Fits, MadeFits
  <2> QED BY <2>3, <2>5 DEF Fits
<1>13. RequestFits(q)'
  BY <1>11, <1>12 DEF RequestFits
<1>14. RequestsFit'
  BY <1>1, <1>8, <1>10, <1>13, RequestsStay DEF SendTransaction
<1> QED BY <1>6, <1>8, <1>9, <1>14, ServerStays, PageStays, ActsStay DEF XInv

LEMMA ReadFits ==
  ASSUME XInv, NEW r, Fits(r), r.at = "server"
  PROVE  /\ RequestFits(Reply(Read(r), Found(r))) /\ Read(r) \in Jobs /\ Found(r) \in BOOLEAN
         /\ Read(r).kind = r.kind /\ Read(r).stage = r.stage /\ Read(r).at = r.at
         /\ Read(r).page = r.page /\ Read(r).merchant = r.merchant /\ Read(r).chain = r.chain
         /\ Read(r).made = r.made
<1>1. r \in Jobs /\ r.stage \notin {"implement", "deploy"}
      => Read(r).stage \notin {"implement", "deploy"}
  BY DEF Read, Jobs
<1>2. r \in Jobs /\ StageFits(r) /\ AtFits(r) /\ AboutFits(r) /\ MadeFits(r)
  BY DEF Fits, JobFits
<1>3. PICK q : q = Read(r)
  OBVIOUS
<1>4. Found(r) \in BOOLEAN
  BY DEF Found
<1>5. CASE r.stage = "ask"
  <2>1. q = [r EXCEPT !.from = factory.factory]
    BY <1>3, <1>5 DEF Read
  <2>2. factory.factory \in Nat /\ Number(factory.factory)
    BY DEF XInv, ServerTyped
  <2>3. /\ q \in Jobs /\ q.kind = r.kind /\ q.stage = r.stage /\ q.at = r.at /\ q.page = r.page
        /\ q.merchant = r.merchant /\ q.chain = r.chain /\ q.made = r.made
        /\ q.list = r.list /\ q.from = factory.factory
    BY <1>2, <2>1, <2>2 DEF Jobs
  <2>4. r.kind # "factory"
    BY <1>2, <1>5 DEF StageFits
  <2>5. JobFits(q)
    BY <1>2, <2>3 DEF JobFits, StageFits, AtFits, AboutFits
  <2>6. MadeFits(q)
    BY <1>2, <1>5, <2>2, <2>3, <2>4 DEF MadeFits
  <2>7. RequestFits(Reply(q, Found(r)))
    BY <1>4, <1>5, <2>3, <2>5, <2>6, AnswerFits DEF Fits
  <2> QED BY <1>3, <1>4, <2>3, <2>7
<1>6. CASE r.stage \in {"list", "balance"}
  <2>1. r.merchant \in Merchants
    BY <1>2, <1>6 DEF StageFits, AboutFits
  <2>2. q = [r EXCEPT !.list = registered[r.merchant]]
    BY <1>3, <1>6 DEF Read
  <2>3. /\ registered[r.merchant] \in [Chains -> Nat]
        /\ \A c \in Chains : Number(registered[r.merchant][c])
    BY <2>1 DEF XInv, ServerTyped
  <2>4. /\ q \in Jobs /\ q.kind = r.kind /\ q.stage = r.stage /\ q.at = r.at /\ q.page = r.page
        /\ q.merchant = r.merchant /\ q.chain = r.chain /\ q.made = r.made
        /\ q.from = r.from /\ q.list = registered[r.merchant]
    BY <1>2, <2>2, <2>3 DEF Jobs
  <2>5. JobFits(q)
    BY <1>2, <2>4 DEF JobFits, StageFits, AtFits, AboutFits
  <2>6. MadeFits(q)
    BY <1>2, <2>3, <2>4 DEF MadeFits
  <2>7. RequestFits(Reply(q, Found(r)))
    BY <1>4, <1>6, <2>4, <2>5, <2>6, AnswerFits DEF Fits
  <2> QED BY <1>3, <1>4, <2>4, <2>7
<1>7. CASE r.stage \notin {"ask", "list", "balance"}
  <2>1. q = r
    BY <1>3, <1>7 DEF Read
  <2>2. r.stage \in {"implement", "deploy"} => r.at # "server" \/ r.at = "chain"
    BY <1>2 DEF AtFits
  <2>3. r.stage \notin {"implement", "deploy"}
    BY <1>2, <2>2 DEF AtFits
  <2>4. RequestFits(Reply(q, Found(r)))
    BY <1>4, <2>1, <2>3, AnswerFits
  <2> QED BY <1>2, <1>3, <1>4, <2>1, <2>4
<1> QED BY <1>5, <1>6, <1>7

(* The server registers the contract that was deployed for the merchant,    *)
(* and saves the factory made from the implementation it saves with it.     *)
LEMMA ServerTypedStep ==
  ASSUME XInv, NEW r, Fits(r), UNCHANGED onChain,
         RegisterCollector(r) \/ UpsertFactory(r) \/ DeleteCollector(r) \/ ReadCollectors(r)
  PROVE  ServerTyped' /\ RegisteredForItsMerchant' /\ SavedTogether'
<1>1. r \in Jobs /\ StageFits(r) /\ AboutFits(r) /\ MadeFits(r) /\ r.kind \in Kinds
  BY DEF Fits, JobFits, Jobs
<1>2. Grows
  BY GrowsOrNot DEF XInv
<1>3. CASE ReadCollectors(r)
  BY <1>2, <1>3, ServerStays DEF ReadCollectors
<1>4. ASSUME NEW n, NEW m \in Merchants, NEW c \in Chains, Number(n), UNCHANGED factory,
             registered' = [registered EXCEPT ![m][c] = n],
             n # 0 => onChain[n].merchant = m
      PROVE  ServerTyped' /\ RegisteredForItsMerchant' /\ SavedTogether'
  <2>1. registered' \in [Merchants -> [Chains -> Nat]] /\ registered'[m][c] = n
    BY <1>4 DEF XInv, ServerTyped, Number
  <2>2. \A k \in Merchants, d \in Chains :
          registered'[k][d] = registered[k][d] \/ (k = m /\ registered'[k][d] = n)
    BY <1>4 DEF XInv, ServerTyped
  <2>3. ServerTyped'
    BY <1>4, <2>1, <2>2 DEF XInv, ServerTyped, Number
  <2>4. RegisteredForItsMerchant'
    BY <1>4, <2>2 DEF XInv, RegisteredForItsMerchant
  <2> QED BY <1>4, <2>3, <2>4 DEF XInv, SavedTogether
<1>5. CASE RegisterCollector(r)
  <2>1. r.kind = "deploy"
    BY <1>1, <1>5 DEF RegisterCollector, StageFits, Kinds
  <2>2. r.merchant \in Merchants /\ r.chain \in Chains /\ Number(r.made)
        /\ (r.made # 0 => onChain[r.made].merchant = r.merchant)
    BY <1>1, <2>1 DEF AboutFits, MadeFits
  <2> QED BY <1>4, <1>5, <2>2 DEF RegisterCollector
<1>6. CASE DeleteCollector(r)
  <2>1. r.kind = "remove"
    BY <1>1, <1>6 DEF DeleteCollector, StageFits, Kinds
  <2>2. r.merchant \in Merchants /\ r.chain \in Chains /\ Number(0)
    BY <1>1, <2>1, ContractsNumbered DEF AboutFits, XInv
  <2> QED BY <1>4, <1>6, <2>2 DEF DeleteCollector
<1>7. CASE UpsertFactory(r)
  <2>1. r.kind = "factory"
    BY <1>1, <1>7 DEF UpsertFactory, StageFits, Kinds
  <2>2. /\ Number(r.from) /\ Number(r.made) /\ r.from # 0 /\ r.made # 0
        /\ onChain[r.made].from = r.from
    BY <1>1, <1>7, <2>1 DEF MadeFits, UpsertFactory
  <2>3. factory' = [impl |-> r.from, factory |-> r.made] /\ registered' = registered
    BY <1>7 DEF UpsertFactory
  <2>4. ServerTyped'
    BY <2>2, <2>3 DEF XInv, ServerTyped, Number
  <2> QED BY <2>2, <2>3, <2>4 DEF XInv, RegisteredForItsMerchant, SavedTogether
<1> QED BY <1>3, <1>5, <1>6, <1>7

LEMMA ServeTyped ==
  ASSUME XInv, NEW i \in Slots, Serve(i)
  PROVE  XInv'
<1>1. PICK r : r = request[i]
  OBVIOUS
<1>2. r # Free /\ r.at = "server" /\ Fits(r)
  BY <1>1, JobWaits DEF Serve, AtServer
<1>3. UNCHANGED <<world, place, display, faults>> /\ Unhurried
  BY DEF Serve
<1>4. GoesOn(i, Reply(Read(r), Found(r)))
  BY <1>1 DEF Serve
<1>5. RequestsFit'
  BY <1>2, <1>3, <1>4, ReadFits, Proceeds DEF world
<1>6. ServerTyped' /\ RegisteredForItsMerchant' /\ SavedTogether'
  BY <1>1, <1>2, <1>3, ServerTypedStep DEF Serve, world
<1>7. Grows
  BY <1>3, GrowsOrNot DEF XInv, world
<1>8. PageTyped' /\ ActsTyped'
  BY <1>3, <1>7, PageStays, ActsStay
<1>9. WorldTyped'
  BY <1>3 DEF XInv, WorldTyped, world
<1> QED BY <1>5, <1>6, <1>8, <1>9 DEF XInv

(* The page's handlers.                                                     *)
LEMMA PageStep ==
  ASSUME XInv, UNCHANGED <<onChain, server, faults>>, walletChain' \in EvmChains,
         Unhurried \/ UserActs, PageTyped', RequestsFit'
  PROVE  XInv'
<1>1. Grows
  BY GrowsOrNot DEF XInv
<1>2. WorldTyped'
  BY DEF XInv, WorldTyped
<1> QED BY <1>1, <1>2, ServerStays, ActsStay DEF XInv

LEMMA JobBegins ==
  ASSUME XInv, NEW q \in Jobs, q.made = 0, q.list = Nothing, Number(q.from), q.at # "chain",
         StageFits(q), AtFits(q), AboutFits(q), q.stage \notin {"register", "save"},
         q.kind = "factory" => q.stage = "connect"
  PROVE  Fits(q) /\ RequestFits(q)
<1>1. Number(0)
  BY ContractsNumbered DEF XInv
<1>2. PICK l : l = Nothing
  OBVIOUS
<1>3. \A d \in Chains : l[d] = 0
  BY <1>2, NothingIsList
<1>4. MadeFits(q)
  BY <1>1, <1>2, <1>3 DEF MadeFits
<1>5. Fits(q)
  BY <1>4 DEF Fits, JobFits
<1> QED BY <1>5, FreeIsNone DEF RequestFits, Jobs

LEMMA LoadFits ==
  ASSUME XInv, NEW m \in Merchants, NEW pg \in {"setup", "balances"}
  PROVE  /\ RequestFits(loadData(m)) /\ RequestFits([loadData(m) EXCEPT !.page = pg])
         /\ loadData(m) \in Jobs
<1>1. Number(0) /\ page \in {"setup", "balances", "left"}
  BY ContractsNumbered DEF XInv, PageTyped
<1>2. PICK q : q = loadData(m)
  OBVIOUS
<1>3. q = [kind |-> "list", stage |-> "list", at |-> "server", page |-> page, merchant |-> m,
           chain |-> None, made |-> 0, from |-> 0, list |-> Nothing]
  BY <1>2 DEF loadData, Job
<1>4. StageFits(q) /\ AtFits(q) /\ AboutFits(q)
  BY <1>3 DEF StageFits, AtFits, AboutFits
<1>5. RequestFits(q) /\ q \in Jobs
  <2>1. q \in Jobs
    BY <1>1, <1>3, NothingIsList DEF Jobs, Kinds, Stages
  <2> QED BY <1>1, <1>3, <1>4, <2>1, JobBegins
<1>6. PICK p : p = [q EXCEPT !.page = pg]
  OBVIOUS
<1>7. p = [kind |-> "list", stage |-> "list", at |-> "server", page |-> pg, merchant |-> m,
           chain |-> None, made |-> 0, from |-> 0, list |-> Nothing]
  BY <1>3, <1>6
<1>8. StageFits(p) /\ AtFits(p) /\ AboutFits(p)
  BY <1>7 DEF StageFits, AtFits, AboutFits
<1>9. RequestFits(p)
  <2>1. p \in Jobs
    BY <1>1, <1>7, NothingIsList DEF Jobs, Kinds, Stages
  <2> QED BY <1>1, <1>7, <1>8, <2>1, JobBegins
<1> QED BY <1>2, <1>5, <1>6, <1>9

LEMMA FetchFits ==
  ASSUME XInv, NEW m \in Merchants, NEW cs \in SUBSET Chains, NEW pg \in {"setup", "balances", "left"}
  PROVE  /\ RequestFits(FetchBalance(m, cs, "server"))
         /\ RequestFits([FetchBalance(m, cs, "server") EXCEPT !.page = pg])
         /\ FetchBalance(m, cs, "server") =
              [kind |-> "balance", stage |-> "balance", at |-> "server", page |-> page,
               merchant |-> m, chain |-> cs, made |-> 0, from |-> 0, list |-> Nothing]
<1>1. Number(0) /\ page \in {"setup", "balances", "left"}
  BY ContractsNumbered DEF XInv, PageTyped
<1>2. PICK q : q = FetchBalance(m, cs, "server")
  OBVIOUS
<1>3. q = [kind |-> "balance", stage |-> "balance", at |-> "server", page |-> page,
           merchant |-> m, chain |-> cs, made |-> 0, from |-> 0, list |-> Nothing]
  BY <1>2 DEF FetchBalance, Job
<1>4. StageFits(q) /\ AtFits(q) /\ AboutFits(q)
  BY <1>3 DEF StageFits, AtFits, AboutFits
<1>5. RequestFits(q)
  <2>1. q \in Jobs
    BY <1>1, <1>3, NothingIsList DEF Jobs, Kinds, Stages
  <2> QED BY <1>1, <1>3, <1>4, <2>1, JobBegins
<1>6. PICK p : p = [q EXCEPT !.page = pg]
  OBVIOUS
<1>7. p = [kind |-> "balance", stage |-> "balance", at |-> "server", page |-> pg,
           merchant |-> m, chain |-> cs, made |-> 0, from |-> 0, list |-> Nothing]
  BY <1>3, <1>6
<1>8. StageFits(p) /\ AtFits(p) /\ AboutFits(p)
  BY <1>7 DEF StageFits, AtFits, AboutFits
<1>9. RequestFits(p)
  <2>1. p \in Jobs
    BY <1>1, <1>7, NothingIsList DEF Jobs, Kinds, Stages
  <2> QED BY <1>1, <1>7, <1>8, <2>1, JobBegins
<1> QED BY <1>2, <1>3, <1>5, <1>6, <1>9

(* An answer to a handler of the page.                                      *)
LEMMA AnswerHere ==
  ASSUME XInv, NEW i \in Slots, NEW kind, Arrived(i, kind)
  PROVE  /\ request[i] # Free /\ request[i].at = "page" /\ ReplyFits(request[i])
         /\ Fits(request[i].job) /\ request[i].job \in Jobs /\ request[i].job.kind = kind
         /\ request[i].ok \in BOOLEAN /\ JobOf(request[i]) = request[i].job
<1>1. request[i] # Free /\ request[i].at = "page" /\ request[i].kind = kind
  BY DEF Arrived
<1> QED BY <1>1, ReplyHere DEF Replies, JobOf

LEMMA DataLoadedTyped ==
  ASSUME XInv, NEW i \in Slots, DataLoaded(i)
  PROVE  XInv'
<1>1. PICK a : a = request[i]
  OBVIOUS
<1>2. PICK r : r = a.job
  OBVIOUS
<1>3. /\ Fits(r) /\ r \in Jobs /\ r.kind = "list" /\ r.merchant \in Merchants /\ a.ok \in BOOLEAN
      /\ r.list \in [Chains -> Nat] /\ \A c \in Chains : Number(r.list[c])
  BY <1>1, <1>2, AnswerHere DEF DataLoaded, Fits, JobFits, AboutFits, MadeFits, Jobs
<1>4. /\ UNCHANGED <<onChain, server, faults, balances, modal, closing, implAddress, place>>
      /\ Unhurried /\ walletChain' = walletChain
  BY DEF DataLoaded, Handled, world
<1>5. PageTyped'
  <2>1. loading' \in BOOLEAN
    BY DEF DataLoaded, XInv, PageTyped
  <2>2. collectors' \in {collectors, r.list, Nothing}
    BY <1>1, <1>2 DEF DataLoaded
  <2>3. collectors' \in [Chains -> Nat] /\ \A c \in Chains : Number(collectors'[c])
    BY <1>3, <2>2, NothingIsList, ContractsNumbered DEF XInv, PageTyped
  <2>4. \A n : Number(n)' <=> Number(n)
    BY <1>4 DEF Number
  <2> QED BY <1>4, <2>1, <2>3, <2>4 DEF XInv, PageTyped, place
<1>6. RequestsFit'
  <2>1. PICK cs : cs = {c \in Chains : r.list[c] # 0}
    OBVIOUS
  <2>2. GoesOn(i, FetchBalance(r.merchant, cs, "server")) \/ Ends(i)
    BY <1>1, <1>2, <2>1 DEF DataLoaded
  <2>3. RequestFits(FetchBalance(r.merchant, cs, "server"))
    BY <1>3, <2>1, FetchFits
  <2>4. Grows
    BY <1>4, GrowsOrNot DEF XInv
  <2> QED BY <1>4, <2>2, <2>3, <2>4, Proceeds, RequestsEnd
<1> QED BY <1>4, <1>5, <1>6, PageStep DEF XInv, WorldTyped

LEMMA BalanceFetchedTyped ==
  ASSUME XInv, NEW i \in Slots, BalanceFetched(i)
  PROVE  XInv'
<1>1. PICK a : a = request[i]
  OBVIOUS
<1>2. PICK r : r = a.job
  OBVIOUS
<1>3. /\ Fits(r) /\ r \in Jobs /\ r.kind = "balance" /\ a.ok \in BOOLEAN
      /\ r.list \in [Chains -> Nat] /\ \A c \in Chains : Number(r.list[c])
      /\ r.chain \in SUBSET Chains
  BY <1>1, <1>2, AnswerHere DEF BalanceFetched, Fits, JobFits, AboutFits, MadeFits, Jobs
<1>4. /\ UNCHANGED <<onChain, server, faults, collectors, loading, modal, closing, implAddress, place>>
      /\ Unhurried /\ walletChain' = walletChain
  BY DEF BalanceFetched, Handled, world
<1>5. PICK c \in r.chain :
        /\ balances' = IF a.ok /\ Here(r) /\ r.list[c] # 0
                       THEN [balances EXCEPT ![c] = r.list[c]] ELSE balances
        /\ IF r.chain = {c} THEN Ends(i)
           ELSE GoesOn(i, [r EXCEPT !.chain = @ \ {c}, !.list = Nothing])
  BY <1>1, <1>2 DEF BalanceFetched
<1>6. c \in Chains
  BY <1>3, <1>5
<1>7. PageTyped'
  <2>1. balances' \in [Chains -> Nat] /\ \A d \in Chains : Number(balances'[d])
    BY <1>3, <1>5, <1>6 DEF XInv, PageTyped
  <2>2. \A n : Number(n)' <=> Number(n)
    BY <1>4 DEF Number
  <2> QED BY <1>4, <2>1, <2>2 DEF XInv, PageTyped, place
<1>8. RequestsFit'
  <2>1. PICK q : q = [r EXCEPT !.chain = r.chain \ {c}, !.list = Nothing]
    OBVIOUS
  <2>2. Ends(i) \/ GoesOn(i, q)
    BY <1>5, <2>1
  <2>3. /\ q \in Jobs /\ q.kind = r.kind /\ q.stage = r.stage /\ q.at = r.at
        /\ q.merchant = r.merchant /\ q.chain = r.chain \ {c} /\ q.made = r.made
        /\ q.from = r.from /\ q.list = Nothing
    BY <1>3, <2>1, NothingIsList DEF Jobs
  <2>4. JobFits(q)
    BY <1>3, <2>3 DEF Fits, JobFits, StageFits, AtFits, AboutFits
  <2>5. \A d \in Chains : Number(Nothing[d])
    BY NothingIsList, ContractsNumbered DEF XInv
  <2>6. MadeFits(q)
    BY <1>3, <2>3, <2>5 DEF Fits, MadeFits
  <2>7. RequestFits(q)
    BY <1>3, <2>3, <2>4, <2>6 DEF RequestFits, Fits, JobFits, AtFits, StageFits
  <2>8. Grows
    BY <1>4, GrowsOrNot DEF XInv
  <2> QED BY <1>4, <2>2, <2>7, <2>8, Proceeds, RequestsEnd
<1> QED BY <1>4, <1>7, <1>8, PageStep DEF XInv, WorldTyped

(* What an await that succeeded is followed by.                             *)
LEMMA FollowsFits ==
  ASSUME XInv, NEW r, Fits(r), r.kind \in {"deploy", "factory", "withdraw"},
         r.stage \notin {"register", "save"}, r.kind = "withdraw" => r.stage # "withdraw",
         r.stage \in {"implement", "deploy"} => r.at = "chain",
         NEW s, s = Implemented(r), NEW q, q = Follows(s)
  PROVE  /\ Fits(q) /\ RequestFits(q) /\ q \in Jobs /\ s \in Jobs /\ Number(s.from)
         /\ s.kind = r.kind /\ s.stage = r.stage /\ s.page = r.page /\ s.merchant = r.merchant
         /\ s.chain = r.chain /\ s.list = r.list
         /\ q.kind = r.kind /\ q.page = r.page /\ q.merchant = r.merchant /\ q.chain = r.chain
         /\ q.list = r.list /\ q.made = s.made /\ q.from = s.from
         /\ q.stage = After(s).stage /\ q.at = After(s).at
         /\ (r.stage # "implement" => s = r)
         /\ (r.stage = "implement" => s.made = 0 /\ s.from = r.made)
         /\ (r.kind # "withdraw" => After(s).stage \in Steps \cup {"ask"})
<1>1. r \in Jobs /\ StageFits(r) /\ AtFits(r) /\ AboutFits(r) /\ MadeFits(r)
  BY DEF Fits, JobFits
<1>2. /\ s \in Jobs /\ s.kind = r.kind /\ s.stage = r.stage /\ s.at = r.at /\ s.page = r.page
      /\ s.merchant = r.merchant /\ s.chain = r.chain /\ s.list = r.list
      /\ (r.stage # "implement" => s = r)
      /\ (r.stage = "implement" => s.made = 0 /\ s.from = r.made)
  BY <1>1 DEF Implemented, Jobs
<1>3. Number(s.from) /\ Number(s.made)
  BY <1>1, <1>2, ContractsNumbered DEF MadeFits, XInv
<1>4. PICK t : t = After(s)
  OBVIOUS
<1>5. /\ r.stage = "connect" => t = AfterConnect(s)
      /\ r.stage = "switch" => t = Signing(s)
      /\ r.stage \in {"ask", "implement"} => t = [stage |-> "deploy", at |-> "wallet"]
      /\ r.stage = "deploy" =>
           t = [stage |-> IF r.kind = "factory" THEN "save" ELSE "register", at |-> "server"]
  BY <1>2, <1>4 DEF After
<1>6. r.stage \in {"connect", "switch", "ask", "implement", "deploy"}
  BY <1>1 DEF StageFits
<1>7. /\ r.stage = "connect" /\ r.kind = "factory" =>
           t = [stage |-> IF s.from = 0 THEN "implement" ELSE "deploy", at |-> "wallet"]
      /\ r.stage = "connect" /\ r.kind = "deploy" /\ r.chain = Tron =>
           t = [stage |-> "ask", at |-> "server"]
      /\ r.stage = "connect" /\ r.kind = "withdraw" /\ r.chain = Tron =>
           t = [stage |-> "withdraw", at |-> "wallet"]
      /\ r.stage = "connect" /\ r.kind # "factory" /\ r.chain # Tron =>
           t = [stage |-> "switch", at |-> "wallet"]
  BY <1>2, <1>5 DEF AfterConnect, Implementation, Signing
<1>8. r.stage = "switch" =>
        t = [stage |-> IF r.kind = "deploy" THEN "deploy" ELSE "withdraw", at |-> "wallet"]
  BY <1>2, <1>5 DEF Signing
<1>9. t.stage \in Stages /\ t.at \in {"wallet", "server"}
      /\ (r.kind # "withdraw" => t.stage \in Steps \cup {"ask"})
  BY <1>1, <1>5, <1>6, <1>7, <1>8 DEF Stages, Steps, StageFits
<1>10. q = [s EXCEPT !.stage = t.stage, !.at = t.at]
  BY <1>4 DEF Follows
<1>11. /\ q \in Jobs /\ q.kind = r.kind /\ q.stage = t.stage /\ q.at = t.at /\ q.page = r.page
       /\ q.merchant = r.merchant /\ q.chain = r.chain /\ q.list = r.list
       /\ q.made = s.made /\ q.from = s.from
  BY <1>2, <1>9, <1>10 DEF Jobs
<1>12. StageFits(q)
  BY <1>1, <1>5, <1>6, <1>7, <1>8, <1>11 DEF StageFits
<1>13. AtFits(q)
  BY <1>1, <1>5, <1>6, <1>7, <1>8, <1>11 DEF AtFits, StageFits
<1>14. AboutFits(q)
  BY <1>1, <1>5, <1>6, <1>7, <1>8, <1>11 DEF AboutFits, StageFits
<1>15. MadeFits(q)
  <2>1. q.at = "wallet" \/ q.stage = "ask" => q.made = 0
    BY <1>1, <1>2, <1>5, <1>6, <1>7, <1>8, <1>11 DEF MadeFits, AtFits, StageFits
  <2>2. q.at # "chain" /\ (q.stage \in {"register", "save"} => r.stage = "deploy")
    BY <1>1, <1>5, <1>6, <1>7, <1>8, <1>9, <1>11 DEF StageFits
  <2>3. q.stage \in {"register", "save"} => q.made # 0 /\ q.made = r.made /\ q.from = r.from
    BY <1>1, <1>2, <1>11, <2>2 DEF MadeFits
  <2>4. q.kind = "deploy" /\ q.made # 0 => onChain[q.made].merchant = q.merchant
    BY <1>1, <1>2, <1>11 DEF MadeFits, StageFits
  <2>5. ASSUME q.kind = "factory", q.stage = "deploy"
        PROVE  q.from # 0 /\ q.made = 0
    <3>1. r.kind = "factory" /\ q.stage = t.stage /\ r.stage \in {"connect", "implement", "deploy"}
      BY <1>1, <1>11, <2>5 DEF StageFits
    <3>2. CASE r.stage = "connect"
      <4>1. s = r /\ r.at = "wallet" /\ r.made = 0
        BY <1>1, <1>2, <3>2 DEF AtFits, MadeFits
      <4>2. s.from # 0
        BY <1>7, <2>5, <3>1, <3>2
      <4> QED BY <1>11, <4>1, <4>2
    <3>3. CASE r.stage = "implement"
      <4>1. r.made # 0
        BY <1>1, <3>3 DEF MadeFits
      <4> QED BY <1>2, <1>11, <3>3, <4>1
    <3>4. CASE r.stage = "deploy"
      BY <1>5, <2>5, <3>1, <3>4
    <3> QED BY <3>1, <3>2, <3>3, <3>4
  <2>6. ASSUME q.kind = "factory", q.stage = "save"
        PROVE  q.from # 0 /\ onChain[q.made].from = q.from
    BY <1>1, <1>2, <1>11, <2>2, <2>3, <2>6 DEF MadeFits
  <2> QED BY <1>1, <1>3, <1>11, <2>1, <2>2, <2>3, <2>4, <2>5, <2>6 DEF MadeFits
<1>16. Fits(q)
  BY <1>11, <1>12, <1>13, <1>14, <1>15 DEF Fits, JobFits
<1>17. RequestFits(q)
  BY <1>9, <1>11, <1>16 DEF RequestFits
<1> QED BY <1>2, <1>3, <1>4, <1>9, <1>11, <1>16, <1>17

LEMMA ShowsTyped ==
  ASSUME XInv, NEW p \in Panels, NEW r, NEW step \in Steps, Shows(p, r, step)
  PROVE  modal' \in [Panels -> [chain : Chains \cup {None}, step : Steps]]
BY DEF Shows, XInv, PageTyped

LEMMA PanelIsPanel ==
  ASSUME NEW r
  PROVE  PanelFor(r) \in Panels
BY DEF PanelFor, PanelOf, Panels

(* The page's state but for the modals and timers.                          *)
LEMMA ModalStep ==
  ASSUME XInv, UNCHANGED <<onChain, server, faults, place, collectors, balances, loading>>,
         walletChain' = walletChain, Unhurried \/ UserActs,
         modal' \in [Panels -> [chain : Chains \cup {None}, step : Steps]],
         closing' \subseteq Panels, Number(implAddress'), RequestsFit'
  PROVE  XInv'
<1>1. \A n : Number(n)' <=> Number(n)
  BY DEF Number
<1>2. PageTyped'
  BY <1>1 DEF XInv, PageTyped, place
<1> QED BY <1>2, PageStep DEF XInv, WorldTyped

LEMMA DeployTyped ==
  ASSUME XInv, NEW i \in Slots, DeployGoesOn(i) \/ DeployDone(i) \/ DeployFailed(i)
  PROVE  XInv'
<1>1. PICK a : a = request[i]
  OBVIOUS
<1>2. PICK r : r = a.job
  OBVIOUS
<1>3. PICK kind \in {"deploy", "factory"} : Arrived(i, kind)
  BY DEF DeployGoesOn, DeployDone, DeployFailed
<1>4. /\ ReplyFits(a) /\ Fits(r) /\ r \in Jobs /\ r.kind \in {"deploy", "factory"} /\ a.ok \in BOOLEAN
  BY <1>1, <1>2, <1>3, AnswerHere
<1>5. /\ UNCHANGED <<onChain, server, faults, place, collectors, balances, loading>>
      /\ Unhurried /\ walletChain' = walletChain
  BY DEF DeployGoesOn, DeployDone, DeployFailed, Handled, world
<1>6. Grows
  BY <1>5, GrowsOrNot DEF XInv
<1>7. CASE DeployGoesOn(i)
  <2>1. PICK s : s = Implemented(r)
    OBVIOUS
  <2>2. PICK q : q = Follows(s)
    OBVIOUS
  <2>3. /\ a.ok /\ r.stage \notin {"register", "save"} /\ GoesOn(i, q)
        /\ Shows(PanelFor(s), s, IF After(s).stage = "ask" THEN "connect" ELSE After(s).stage)
        /\ implAddress' = (IF r.stage = "implement" THEN s.from ELSE implAddress)
        /\ closing' = closing
    BY <1>1, <1>2, <1>7, <2>1, <2>2 DEF DeployGoesOn
  <2>4. r.stage \in {"implement", "deploy"} => r.at = "chain"
    BY <1>2, <1>4, <2>3 DEF ReplyFits
  <2>5. RequestFits(q) /\ Number(s.from) /\ After(s).stage \in Steps \cup {"ask"}
    BY <1>4, <2>1, <2>2, <2>3, <2>4, FollowsFits
  <2>6. PICK step : step = IF After(s).stage = "ask" THEN "connect" ELSE After(s).stage
    OBVIOUS
  <2>7. step \in Steps
    BY <2>5, <2>6 DEF Steps
  <2>8. modal' \in [Panels -> [chain : Chains \cup {None}, step : Steps]]
    BY <2>3, <2>6, <2>7, ShowsTyped, PanelIsPanel
  <2>9. Number(implAddress')
    BY <2>3, <2>5 DEF XInv, PageTyped
  <2>10. RequestsFit'
    BY <1>5, <2>3, <2>5, Proceeds
  <2>11. closing' \subseteq Panels
    BY <2>3 DEF XInv, PageTyped
  <2> QED BY <1>5, <2>8, <2>9, <2>10, <2>11, ModalStep
<1>8. CASE DeployDone(i)
  <2>1. /\ Shows(PanelFor(r), r, "done") /\ implAddress' = implAddress
        /\ closing' \in {closing, closing \cup {PanelFor(r)}}
        /\ (r.kind = "deploy" /\ GoesOn(i, loadData(r.merchant))) \/ Ends(i)
    BY <1>1, <1>2, <1>8 DEF DeployDone
  <2>2. modal' \in [Panels -> [chain : Chains \cup {None}, step : Steps]]
    BY <2>1, ShowsTyped, PanelIsPanel DEF Steps
  <2>3. closing' \subseteq Panels /\ Number(implAddress')
    BY <2>1, PanelIsPanel DEF XInv, PageTyped
  <2>4. RequestsFit'
    <3>1. CASE r.kind = "deploy" /\ GoesOn(i, loadData(r.merchant))
      <4>1. r.merchant \in Merchants
        BY <1>4, <3>1 DEF Fits, JobFits, AboutFits
      <4>2. RequestFits(loadData(r.merchant))
        BY <4>1, LoadFits DEF XInv, PageTyped
      <4> QED BY <1>5, <3>1, <4>2, Proceeds
    <3>2. CASE Ends(i)
      BY <1>6, <3>2, RequestsEnd
    <3> QED BY <2>1, <3>1, <3>2
  <2> QED BY <1>5, <2>2, <2>3, <2>4, ModalStep
<1>9. CASE DeployFailed(i)
  <2>1. /\ Shows(PanelFor(r), r, "error") /\ implAddress' = implAddress
        /\ closing' = closing /\ Ends(i)
    BY <1>1, <1>2, <1>9 DEF DeployFailed
  <2>2. modal' \in [Panels -> [chain : Chains \cup {None}, step : Steps]]
    BY <2>1, ShowsTyped, PanelIsPanel DEF Steps
  <2>3. closing' \subseteq Panels /\ Number(implAddress')
    BY <2>1 DEF XInv, PageTyped
  <2>4. RequestsFit'
    BY <1>6, <2>1, RequestsEnd
  <2> QED BY <1>5, <2>2, <2>3, <2>4, ModalStep
<1> QED BY <1>7, <1>8, <1>9

LEMMA OthersTyped ==
  ASSUME XInv, NEW i \in Slots, DeleteAnswered(i) \/ WithdrawGoesOn(i)
  PROVE  XInv'
<1>1. PICK a : a = request[i]
  OBVIOUS
<1>2. PICK r : r = a.job
  OBVIOUS
<1>3. PICK kind \in {"remove", "withdraw"} : Arrived(i, kind)
                                             /\ (kind = "withdraw" => WithdrawGoesOn(i))
                                             /\ (kind = "remove" => DeleteAnswered(i))
  BY DEF DeleteAnswered, WithdrawGoesOn
<1>4. /\ ReplyFits(a) /\ Fits(r) /\ r \in Jobs /\ r.kind = kind /\ r.merchant \in Merchants
      /\ r.chain \in Chains /\ a.ok \in BOOLEAN /\ r.page \in {"setup", "balances", "left"}
  BY <1>1, <1>2, <1>3, AnswerHere DEF Fits, JobFits, AboutFits, Jobs
<1>5. /\ UNCHANGED <<onChain, server, faults, place, display>>
      /\ Unhurried /\ walletChain' = walletChain
  BY DEF DeleteAnswered, WithdrawGoesOn, Handled, world
<1>6. Grows
  BY <1>5, GrowsOrNot DEF XInv
<1>7. \/ Ends(i) \/ GoesOn(i, loadData(r.merchant))
      \/ a.ok /\ r.kind = "withdraw" /\ r.stage # "withdraw" /\ GoesOn(i, Follows(r))
      \/ GoesOn(i, [FetchBalance(r.merchant, {r.chain}, "server") EXCEPT !.page = r.page])
  BY <1>1, <1>2, <1>3, <1>4 DEF DeleteAnswered, WithdrawGoesOn
<1>8. RequestsFit'
  <2>1. CASE Ends(i)
    BY <1>6, <2>1, RequestsEnd
  <2>2. CASE GoesOn(i, loadData(r.merchant))
    <3>1. RequestFits(loadData(r.merchant))
      BY <1>4, LoadFits DEF XInv, PageTyped
    <3> QED BY <1>5, <2>2, <3>1, Proceeds
  <2>3. CASE a.ok /\ r.kind = "withdraw" /\ r.stage # "withdraw" /\ GoesOn(i, Follows(r))
    <3>1. r.stage \in {"connect", "switch"}
      BY <1>4, <2>3 DEF Fits, JobFits, StageFits
    <3>2. PICK s : s = Implemented(r)
      OBVIOUS
    <3>3. s = r
      BY <3>1, <3>2 DEF Implemented
    <3>4. RequestFits(Follows(r))
      BY <1>4, <2>3, <3>1, <3>2, <3>3, FollowsFits
    <3> QED BY <1>5, <2>3, <3>4, Proceeds
  <2>4. CASE GoesOn(i, [FetchBalance(r.merchant, {r.chain}, "server") EXCEPT !.page = r.page])
    <3>1. {r.chain} \in SUBSET Chains
      BY <1>4
    <3>2. RequestFits([FetchBalance(r.merchant, {r.chain}, "server") EXCEPT !.page = r.page])
      BY <1>4, <3>1, FetchFits
    <3> QED BY <1>5, <2>4, <3>2, Proceeds
  <2> QED BY <1>7, <2>1, <2>2, <2>3, <2>4
<1>9. PageTyped'
  BY <1>5, <1>6, PageStays
<1> QED BY <1>5, <1>8, <1>9, PageStep DEF XInv, WorldTyped

LEMMA TimerTyped ==
  ASSUME XInv, NEW p \in Panels, TimerCloses(p)
  PROVE  XInv'
<1>1. /\ UNCHANGED <<onChain, server, faults, place, collectors, balances, loading, request>>
      /\ Unhurried /\ walletChain' = walletChain /\ implAddress' = implAddress
  BY DEF TimerCloses, Handled, world
<1>2. /\ modal' \in [Panels -> [chain : Chains \cup {None}, step : Steps]]
      /\ closing' \subseteq Panels /\ Number(implAddress')
  BY DEF TimerCloses, Closed, Steps, XInv, PageTyped
<1>3. RequestsFit'
  BY <1>1, GrowsOrNot, RequestsIfNone DEF XInv
<1> QED BY <1>1, <1>2, <1>3, ModalStep

(* What the user starts.                                                    *)
LEMMA BeginFits ==
  ASSUME XInv, NEW c \in Chains, NEW n, Number(n)
  PROVE  /\ RequestFits(Job("deploy", "connect", "wallet", merchantId, c))
         /\ RequestFits(Job("remove", "delete", "server", merchantId, c))
         /\ RequestFits([Job("withdraw", "connect", "wallet", merchantId, c) EXCEPT !.from = n])
         /\ RequestFits([Job("factory", "connect", "wallet", None, Tron) EXCEPT !.from = n])
<1>1. /\ Number(0) /\ page \in {"setup", "balances", "left"} /\ merchantId \in Merchants /\ n \in Nat
      /\ Tron \in Chains
  BY ContractsNumbered DEF XInv, PageTyped, Number, Chains
<1>2. PICK q1 : q1 = Job("deploy", "connect", "wallet", merchantId, c)
  OBVIOUS
<1>3. RequestFits(q1)
  <2>1. q1 = [kind |-> "deploy", stage |-> "connect", at |-> "wallet", page |-> page,
              merchant |-> merchantId, chain |-> c, made |-> 0, from |-> 0, list |-> Nothing]
    BY <1>2 DEF Job
  <2>2. q1 \in Jobs
    BY <1>1, <2>1, NothingIsList DEF Jobs, Kinds, Stages
  <2>3. StageFits(q1) /\ AtFits(q1) /\ AboutFits(q1)
    BY <1>1, <2>1 DEF StageFits, AtFits, AboutFits
  <2> QED BY <1>1, <2>1, <2>2, <2>3, JobBegins
<1>4. PICK q2 : q2 = Job("remove", "delete", "server", merchantId, c)
  OBVIOUS
<1>5. RequestFits(q2)
  <2>1. q2 = [kind |-> "remove", stage |-> "delete", at |-> "server", page |-> page,
              merchant |-> merchantId, chain |-> c, made |-> 0, from |-> 0, list |-> Nothing]
    BY <1>4 DEF Job
  <2>2. q2 \in Jobs
    BY <1>1, <2>1, NothingIsList DEF Jobs, Kinds, Stages
  <2>3. StageFits(q2) /\ AtFits(q2) /\ AboutFits(q2)
    BY <1>1, <2>1 DEF StageFits, AtFits, AboutFits
  <2> QED BY <1>1, <2>1, <2>2, <2>3, JobBegins
<1>6. PICK q3 : q3 = [Job("withdraw", "connect", "wallet", merchantId, c) EXCEPT !.from = n]
  OBVIOUS
<1>7. RequestFits(q3)
  <2>1. q3 = [kind |-> "withdraw", stage |-> "connect", at |-> "wallet", page |-> page,
              merchant |-> merchantId, chain |-> c, made |-> 0, from |-> n, list |-> Nothing]
    BY <1>6 DEF Job
  <2>2. q3 \in Jobs
    BY <1>1, <2>1, NothingIsList DEF Jobs, Kinds, Stages
  <2>3. StageFits(q3) /\ AtFits(q3) /\ AboutFits(q3)
    BY <1>1, <2>1 DEF StageFits, AtFits, AboutFits
  <2> QED BY <1>1, <2>1, <2>2, <2>3, JobBegins
<1>8. PICK q4 : q4 = [Job("factory", "connect", "wallet", None, Tron) EXCEPT !.from = n]
  OBVIOUS
<1>9. RequestFits(q4)
  <2>1. q4 = [kind |-> "factory", stage |-> "connect", at |-> "wallet", page |-> page,
              merchant |-> None, chain |-> Tron, made |-> 0, from |-> n, list |-> Nothing]
    BY <1>8 DEF Job
  <2>2. q4 \in Jobs
    BY <1>1, <2>1, NothingIsList DEF Jobs, Kinds, Stages
  <2>3. StageFits(q4) /\ AtFits(q4) /\ AboutFits(q4)
    BY <1>1, <2>1 DEF StageFits, AtFits, AboutFits
  <2> QED BY <1>1, <2>1, <2>2, <2>3, JobBegins
<1> QED BY <1>2, <1>3, <1>4, <1>5, <1>6, <1>7, <1>8, <1>9

LEMMA BeginTyped ==
  ASSUME XInv, \/ \E c \in Chains : handleDeploy(c) \/ handleDelete(c) \/ handleWithdraw(c)
               \/ \E impl \in 0..MaxContracts : handleDeployTron(impl)
  PROVE  XInv'
<1>1. /\ UNCHANGED <<onChain, server, faults, place, collectors, balances, loading, closing>>
      /\ UserActs /\ walletChain' = walletChain
  BY DEF handleDeploy, handleDelete, handleWithdraw, handleDeployTron, world, display
<1>2. closing' \subseteq Panels
  BY <1>1 DEF XInv, PageTyped
<1>3. CASE \E c \in Chains : handleDeploy(c)
  <2>1. PICK c \in Chains : handleDeploy(c)
    BY <1>3
  <2>2. RequestsFit'
    BY <1>1, <2>1, BeginFits, ContractsNumbered, Starts DEF handleDeploy, XInv
  <2>3. modal' \in [Panels -> [chain : Chains \cup {None}, step : Steps]]
    BY <2>1 DEF handleDeploy, XInv, PageTyped, PanelOf, Panels, Steps
  <2>4. Number(implAddress')
    BY <2>1 DEF handleDeploy, XInv, PageTyped
  <2> QED BY <1>1, <1>2, <2>2, <2>3, <2>4, ModalStep
<1>4. CASE \E c \in Chains : handleDelete(c) \/ handleWithdraw(c)
  <2>1. PICK c \in Chains : handleDelete(c) \/ handleWithdraw(c)
    BY <1>4
  <2>2. Number(0) /\ Number(collectors[c])
    BY ContractsNumbered DEF XInv, PageTyped
  <2>3. RequestsFit'
    <3>1. CASE handleDelete(c)
      BY <1>1, <2>2, <3>1, BeginFits, Starts DEF handleDelete
    <3>2. CASE handleWithdraw(c)
      <4>1. Send([Job("withdraw", "connect", "wallet", merchantId, c) EXCEPT !.from = collectors[c]])
        BY <3>2 DEF handleWithdraw
      <4>2. RequestFits([Job("withdraw", "connect", "wallet", merchantId, c) EXCEPT !.from = collectors[c]])
        BY <2>2, BeginFits
      <4> QED BY <1>1, <4>1, <4>2, Starts
    <3> QED BY <2>1, <3>1, <3>2
  <2>4. modal' = modal /\ implAddress' = implAddress
    BY <2>1 DEF handleDelete, handleWithdraw, display
  <2> QED BY <1>1, <1>2, <2>3, <2>4, ModalStep DEF XInv, PageTyped
<1>5. CASE \E impl \in 0..MaxContracts : handleDeployTron(impl)
  <2>1. PICK impl \in 0..MaxContracts : handleDeployTron(impl)
    BY <1>5
  <2>2. impl \in {0, implAddress} /\ Number(impl) /\ implAddress' = impl
    BY <2>1, ContractsNumbered DEF handleDeployTron, XInv, PageTyped
  <2>3. RequestsFit'
    <3>1. Send([Job("factory", "connect", "wallet", None, Tron) EXCEPT !.from = impl])
      BY <2>1 DEF handleDeployTron
    <3>2. Tron \in Chains
      BY DEF Chains
    <3>3. RequestFits([Job("factory", "connect", "wallet", None, Tron) EXCEPT !.from = impl])
      BY <2>2, <3>2, BeginFits
    <3> QED BY <1>1, <3>1, <3>3, Starts
  <2>4. modal' \in [Panels -> [chain : Chains \cup {None}, step : Steps]]
    BY <2>1 DEF handleDeployTron, XInv, PageTyped, Panels, Steps, Chains
  <2> QED BY <1>1, <1>2, <2>2, <2>3, <2>4, ModalStep
<1> QED BY <1>3, <1>4, <1>5

LEMMA LeaveTyped ==
  ASSUME XInv, NEW q, RequestFits(q)
  PROVE  RequestFits(Left(q))
<1>1. CASE q = Free \/ q.kind \in {"list", "balance"}
  BY <1>1, FreeFits DEF Left
<1>2. CASE q # Free /\ q.kind \notin {"list", "balance"} /\ q.at = "page"
  <2>1. PICK r : r = q.job
    OBVIOUS
  <2>2. ReplyFits(q) /\ Fits(r) /\ r \in Jobs /\ q \in Replies
    BY <1>2, <2>1 DEF RequestFits, ReplyFits, Fits, JobFits
  <2>3. PICK s : s = [r EXCEPT !.page = "left"]
    OBVIOUS
  <2>4. /\ s \in Jobs /\ s.kind = r.kind /\ s.stage = r.stage /\ s.at = r.at
        /\ s.merchant = r.merchant /\ s.chain = r.chain /\ s.made = r.made
        /\ s.from = r.from /\ s.list = r.list
    BY <2>2, <2>3 DEF Jobs
  <2>5. Fits(s)
    BY <2>2, <2>4 DEF Fits, JobFits, StageFits, AtFits, AboutFits, MadeFits
  <2>6. PICK p : p = [q EXCEPT !.job = s]
    OBVIOUS
  <2>7. p \in Replies /\ p.kind = q.kind /\ p.ok = q.ok /\ p.at = "page" /\ p.job = s
    BY <2>2, <2>4, <2>6 DEF Replies
  <2>8. Left(q) = p
    BY <1>2, <2>1, <2>2, <2>3, <2>6 DEF Left, Replies
  <2>9. ReplyFits(p)
    BY <2>1, <2>2, <2>4, <2>5, <2>7 DEF ReplyFits
  <2> QED BY <2>7, <2>8, <2>9 DEF RequestFits
<1>3. CASE q # Free /\ q.kind \notin {"list", "balance"} /\ q.at # "page"
  <2>1. Fits(q) /\ q \in Jobs
    BY <1>3 DEF RequestFits, Fits, JobFits
  <2>2. PICK s : s = [q EXCEPT !.page = "left"]
    OBVIOUS
  <2>3. /\ s \in Jobs /\ s.kind = q.kind /\ s.stage = q.stage /\ s.at = q.at
        /\ s.merchant = q.merchant /\ s.chain = q.chain /\ s.made = q.made
        /\ s.from = q.from /\ s.list = q.list
    BY <2>1, <2>2 DEF Jobs
  <2>4. Fits(s)
    BY <2>1, <2>3 DEF Fits, JobFits, StageFits, AtFits, AboutFits, MadeFits
  <2>5. Left(q) = s
    BY <1>3, <2>2 DEF Left
  <2> QED BY <1>3, <2>3, <2>4, <2>5 DEF RequestFits
<1> QED BY <1>1, <1>2, <1>3

LEMMA PlacesTyped ==
  ASSUME XInv, \/ \E c \in EvmChains : PickChain(c)
               \/ \E m \in Merchants : SelectMerchant(m)
               \/ \E p \in Panels : CloseModal(p)
               \/ \E p \in {"setup", "balances"} : GoTo(p)
  PROVE  XInv'
<1>1. UNCHANGED <<onChain, server, faults>> /\ UserActs
  BY DEF PickChain, SelectMerchant, CloseModal, GoTo, world
<1>2. /\ Grows /\ \A n : Number(n)' <=> Number(n)
  BY <1>1, GrowsOrNot DEF XInv, Number
<1>3. CASE \E c \in EvmChains : PickChain(c)
  <2>1. walletChain' \in EvmChains /\ UNCHANGED <<place, display, request>>
    BY <1>3 DEF PickChain
  <2> QED BY <1>1, <1>2, <2>1, PageStays, RequestsIfNone, PageStep
<1>4. CASE \E p \in Panels : CloseModal(p)
  <2>1. /\ UNCHANGED <<place, collectors, balances, loading, closing, implAddress, request>>
        /\ walletChain' = walletChain
    BY <1>4 DEF CloseModal, world
  <2>2. modal' \in [Panels -> [chain : Chains \cup {None}, step : Steps]]
    BY <1>4 DEF CloseModal, Closed, Steps, XInv, PageTyped
  <2>3. RequestsFit'
    BY <1>2, <2>1, RequestsIfNone
  <2> QED BY <1>1, <2>1, <2>2, <2>3, ModalStep DEF XInv, PageTyped
<1>5. CASE \E m \in Merchants : SelectMerchant(m)
  <2>1. PICK m \in Merchants : SelectMerchant(m)
    BY <1>5
  <2>2. /\ UNCHANGED <<page, collectors, balances, modal, closing, implAddress>>
        /\ walletChain' = walletChain /\ merchantId' = m /\ Send(loadData(m))
        /\ loading' \in BOOLEAN
    BY <2>1 DEF SelectMerchant, world
  <2>3. RequestsFit'
    BY <1>1, <2>2, LoadFits, Starts DEF XInv, PageTyped
  <2>4. PageTyped'
    BY <1>2, <2>2 DEF XInv, PageTyped
  <2> QED BY <1>1, <2>2, <2>3, <2>4, PageStep DEF XInv, WorldTyped
<1>6. CASE \E p \in {"setup", "balances"} : GoTo(p)
  <2>1. PICK p \in {"setup", "balances"} : GoTo(p)
    BY <1>6
  <2>2. /\ UNCHANGED <<merchantId, modal, implAddress>> /\ walletChain' = walletChain
        /\ page' = p /\ collectors' = Nothing /\ balances' = Nothing /\ loading' = TRUE
        /\ closing' = closing \cap {"factory"}
    BY <2>1 DEF GoTo, world
  <2>3. PICK i \in FreeSlots : request' = [j \in Slots |->
       IF i = j THEN [loadData(merchantId) EXCEPT !.page = p] ELSE Left(request[j])]
    BY <2>1 DEF GoTo
  <2>4. RequestFits([loadData(merchantId) EXCEPT !.page = p])
    BY LoadFits DEF XInv, PageTyped
  <2>5. \A j \in Slots : RequestFits(Left(request[j]))
    BY LeaveTyped DEF XInv, RequestsFit
  <2>6. ASSUME NEW j \in Slots PROVE RequestFits(request[j])'
    <3>1. PICK q : q = IF i = j THEN [loadData(merchantId) EXCEPT !.page = p] ELSE Left(request[j])
      OBVIOUS
    <3>2. RequestFits(q)
      BY <2>4, <2>5, <3>1
    <3>3. RequestFits(q)'
      BY <1>2, <3>2, RequestStays DEF XInv
    <3>4. request'[j] = q
      BY <2>3, <3>1
    <3> QED BY <3>3, <3>4
  <2>7. RequestsFit'
    BY <2>3, <2>6 DEF RequestsFit
  <2>8. PageTyped'
    BY <1>2, <2>2, NothingIsList, ContractsNumbered DEF XInv, PageTyped
  <2> QED BY <1>1, <2>2, <2>7, <2>8, PageStep DEF XInv, WorldTyped
<1> QED BY <1>3, <1>4, <1>5, <1>6

LEMMA StartTyped ==
  ASSUME Init
  PROVE  XInv
<1>1. \A n : Number(n) <=> n = 0
  BY DEF Init, Number
<1>2. WorldTyped
  BY CollectorsAssumption DEF Init, WorldTyped
<1>3. ServerTyped
  BY <1>1, NothingIsList DEF Init, ServerTyped
<1>4. PageTyped
  BY <1>1, NothingIsList DEF Init, PageTyped, Closed, Steps
<1>5. ActsTyped
  BY CollectorsAssumption DEF Init, ActsTyped
<1>6. RegisteredForItsMerchant /\ SavedTogether
  BY NothingIsList DEF Init, RegisteredForItsMerchant, SavedTogether
<1>7. RequestFits(loadData(merchantId))
  <2>1. PICK q : q = loadData(merchantId)
    OBVIOUS
  <2>2. q = [kind |-> "list", stage |-> "list", at |-> "server", page |-> "setup",
             merchant |-> merchantId, chain |-> None, made |-> 0, from |-> 0, list |-> Nothing]
    BY <2>1 DEF loadData, Job, Init
  <2>3. q \in Jobs /\ merchantId \in Merchants
    BY <2>2, NothingIsList DEF Jobs, Kinds, Stages, Init
  <2>4. PICK l : l = Nothing
    OBVIOUS
  <2>5. \A c \in Chains : l[c] = 0
    BY <2>4, NothingIsList
  <2>6. Fits(q)
    BY <1>1, <2>2, <2>3, <2>4, <2>5
       DEF Fits, JobFits, StageFits, AtFits, AboutFits, MadeFits
  <2> QED BY <2>1, <2>2, <2>6 DEF RequestFits
<1>8. RequestsFit
  BY <1>7, FreeFits DEF Init, RequestsFit
<1> QED BY <1>2, <1>3, <1>4, <1>5, <1>6, <1>8 DEF XInv

LEMMA StepTyped ==
  ASSUME XInv, [Next]_vars
  PROVE  XInv'
<1>1. CASE UNCHANGED vars
  <2>1. /\ UNCHANGED <<onChain, server, faults, place, display, request>>
        /\ walletChain' = walletChain /\ Unhurried
    BY <1>1 DEF vars, server, place, display, Unhurried
  <2> QED BY <2>1, GrowsOrNot, PageStays, RequestsIfNone, PageStep DEF XInv, WorldTyped
<1>2. CASE UserDoes
  BY <1>2, BeginTyped, PlacesTyped DEF UserDoes
<1>3. ASSUME NEW i \in Slots, Goes(i) \/ Fails(i) \/ AnswerIsLost(i)
      PROVE  XInv'
  <2>1. CASE WalletAnswers(i) \/ TransactionReceipt(i) \/ Fails(i) \/ AnswerIsLost(i)
    BY <2>1, AnswersTyped, SendTyped DEF WalletAnswers
  <2>2. CASE Serve(i)
    BY <2>2, ServeTyped
  <2>3. CASE Continues(i)
    BY <2>3, DataLoadedTyped, BalanceFetchedTyped, DeployTyped, OthersTyped DEF Continues
  <2> QED BY <1>3, <2>1, <2>2, <2>3 DEF Goes
<1>4. CASE \E p \in Panels : TimerCloses(p)
  BY <1>4, TimerTyped
<1> QED BY <1>1, <1>2, <1>3, <1>4 DEF Next

(* The strengthened types, which hold for every user and every fault.       *)
THEOREM Typed == Spec => []XInv
BY StartTyped, StepTyped, PTL DEF Spec

(* The page's state keeps its types, and no contract is one that was not    *)
(* deployed.                                                                *)
THEOREM CollectorsTyping == Spec => []TypeOK
<1>1. XInv => TypeOK
  <2> SUFFICES ASSUME XInv PROVE TypeOK
    OBVIOUS
  <2>1. PICK n : n = Len(onChain)
    OBVIOUS
  <2>2. n \in Nat /\ n <= MaxContracts /\ MaxContracts \in Nat
        /\ \A k : Number(k) <=> k \in Nat /\ k <= n
    BY <2>1, CollectorsAssumption DEF XInv, WorldTyped, Number
  <2>3. \A k : Number(k) => k \in 0..n /\ k \in Numbers
    BY <2>2 DEF Numbers
  <2>4. onChain \in Seq([chain : Chains, merchant : Merchants \cup {None}, from : Numbers])
    <3> DEFINE T == [chain : Chains, merchant : Merchants \cup {None}, from : Numbers]
    <3>1. \A k \in 1..n : onChain[k] \in T
      <4> SUFFICES ASSUME NEW k \in 1..n PROVE onChain[k] \in T
        OBVIOUS
      <4>1. PICK x : x = onChain[k]
        OBVIOUS
      <4>2. x \in Contracts /\ x.from <= MaxContracts
        BY <2>1, <4>1 DEF XInv, WorldTyped
      <4> QED BY <2>2, <4>1, <4>2 DEF Contracts, Numbers
    <3>2. onChain = [k \in 1..n |-> onChain[k]]
      BY <2>1 DEF XInv, WorldTyped
    <3> HIDE DEF T
    <3>3. onChain \in [1..n -> T]
      BY <3>1, <3>2
    <3>4. onChain \in Seq(T)
      BY <2>2, <3>3, SeqDef
    <3> QED BY <3>4 DEF T
  <2>5. registered \in [Merchants -> [Chains -> 0..n]]
    <3>1. \A m \in Merchants : registered[m] \in [Chains -> 0..n]
      BY <2>3 DEF XInv, ServerTyped
    <3> QED BY <3>1 DEF XInv, ServerTyped
  <2>6. factory \in [impl : 0..n, factory : 0..n]
    BY <2>3 DEF XInv, ServerTyped
  <2>7. collectors \in [Chains -> Numbers] /\ balances \in [Chains -> Numbers]
        /\ implAddress \in Numbers
    BY <2>3 DEF XInv, PageTyped
  <2> QED BY <2>1, <2>2, <2>4, <2>5, <2>6, <2>7
         DEF XInv, WorldTyped, PageTyped, ActsTyped, TypeOK
<1> QED BY <1>1, Typed, PTL

-----------------------------------------------------------------------------
(* A user who waits.  One request at a time.                                *)

LEMMA CalmBefore ==
  ASSUME XInv, CalmInv, Unhurried, hasty' = 0
  PROVE  /\ hasty = 0 /\ Alone /\ RegisteredOn /\ CollectorsOn
         /\ \A i \in Slots : Busy(i) => JobOnChain(request[i]) /\ JobOnDisplay(request[i])
BY DEF Unhurried, CalmInv

LEMMA UserWaited ==
  ASSUME XInv, CalmInv, UserActs, hasty' = 0
  PROVE  /\ hasty = 0 /\ Quiet /\ closing = {} /\ RegisteredOn /\ CollectorsOn
         /\ \A i \in Slots : request[i] = Free
<1>1. hasty \in Nat
  BY DEF XInv, ActsTyped
<1>2. hasty = 0 /\ Settled
  BY <1>1 DEF UserActs
<1> QED BY <1>2 DEF Settled, Quiet, FreeSlots, CalmInv

LEMMA LoneSlot ==
  ASSUME XInv, Alone, NEW i \in Slots, Busy(i), NEW q, GoesOn(i, q)
  PROVE  Alone' /\ \A j \in Slots : Busy(j)' => request'[j] = q
<1>1. request'[i] = q /\ \A j \in Slots \ {i} : request'[j] = request[j]
  BY SlotChanges DEF XInv, RequestsFit, GoesOn
<1>2. \A j \in Slots : Busy(j)' => j = i
  BY <1>1 DEF Alone, Busy
<1> QED BY <1>1, <1>2 DEF Alone

LEMMA LoneSent ==
  ASSUME XInv, \A i \in Slots : request[i] = Free, NEW q, Send(q)
  PROVE  Alone' /\ \A j \in Slots : Busy(j)' => request'[j] = q
<1>1. PICK i \in Slots : request' = [request EXCEPT ![i] = q]
  BY SlotSent DEF XInv, RequestsFit
<1>2. request'[i] = q /\ \A j \in Slots \ {i} : request'[j] = request[j]
  BY <1>1, SlotChanges DEF XInv, RequestsFit
<1>3. \A j \in Slots : Busy(j)' => j = i
  BY <1>2 DEF Busy
<1> QED BY <1>2, <1>3 DEF Alone

LEMMA CalmGoal ==
  ASSUME Alone', RegisteredOn', CollectorsOn', NEW q,
         \A j \in Slots : Busy(j)' => request'[j] = q,
         q # Free => JobOnChain(q)' /\ JobOnDisplay(q)'
  PROVE  CalmInv'
<1>1. ASSUME NEW j \in Slots, Busy(j)'
      PROVE  JobOnChain(request[j])' /\ JobOnDisplay(request[j])'
  <2>1. request'[j] = q /\ q # Free
    BY <1>1 DEF Busy
  <2> QED BY <2>1
<1> QED BY <1>1 DEF CalmInv

LEMMA OnItStays ==
  ASSUME XInv, Grows, NEW c, NEW n, Number(n), OnIt(c, n)
  PROVE  OnIt(c, n)'
BY NumbersStay DEF OnIt, XInv

LEMMA OnItNone ==
  ASSUME NEW c
  PROVE  OnIt(c, 0) /\ OnIt(c, 0)'
BY DEF OnIt

LEMMA ServerOnChain ==
  ASSUME XInv, RegisteredOn, Grows, UNCHANGED server
  PROVE  RegisteredOn'
<1>1. \A m \in Merchants, c \in Chains : OnIt(c, registered[m][c])'
  <2> SUFFICES ASSUME NEW m \in Merchants, NEW c \in Chains
               PROVE  OnIt(c, registered[m][c])'
    OBVIOUS
  <2>1. PICK n : n = registered[m][c]
    OBVIOUS
  <2>2. OnIt(c, n)'
    BY <2>1, OnItStays DEF RegisteredOn, XInv, ServerTyped
  <2>3. registered'[m][c] = n
    BY <2>1 DEF server
  <2> QED BY <2>2, <2>3
<1> QED BY <1>1 DEF RegisteredOn

LEMMA CardsOnChain ==
  ASSUME XInv, CollectorsOn, Grows, UNCHANGED collectors
  PROVE  CollectorsOn'
<1> SUFFICES ASSUME NEW c \in Chains PROVE OnIt(c, collectors[c])'
  BY DEF CollectorsOn
<1>1. PICK n : n = collectors[c]
  OBVIOUS
<1>2. OnIt(c, n)'
  BY <1>1, OnItStays DEF CollectorsOn, XInv, PageTyped
<1> QED BY <1>1, <1>2

(* What a job knows of the chains stays true.                               *)
LEMMA ListStays ==
  ASSUME XInv, Grows, NEW r, Fits(r)
  PROVE  /\ (\A c \in Chains : OnIt(c, r.list[c])) => \A c \in Chains : OnIt(c, r.list[c])'
         /\ \A c : OnIt(c, r.made) => OnIt(c, r.made)'
         /\ \A c : OnIt(c, r.from) => OnIt(c, r.from)'
<1>1. Number(r.made) /\ Number(r.from) /\ \A c \in Chains : Number(r.list[c])
  BY DEF Fits, MadeFits
<1>2. \A c \in Chains : OnIt(c, r.list[c]) => OnIt(c, r.list[c])'
  BY <1>1, OnItStays
<1> QED BY <1>1, <1>2, OnItStays

LEMMA AnswersCalm ==
  ASSUME XInv, CalmInv, hasty' = 0, NEW i \in Slots,
         \/ WalletConnects(i) \/ SwitchChain(i) \/ WithdrawalSigned(i)
         \/ \E stage \in {"implement", "deploy"} : OutOfFunds(i, stage)
         \/ TransactionReceipt(i) \/ Fails(i) \/ AnswerIsLost(i)
  PROVE  CalmInv'
<1>1. UNCHANGED <<onChain, server, place, display>> /\ Unhurried
  BY DEF WalletConnects, SwitchChain, WithdrawalSigned, OutOfFunds, TransactionReceipt, Fails,
         AnswerIsLost, world, Unhurried
<1>2. Grows
  BY <1>1, GrowsOrNot DEF XInv
<1>3. Busy(i)
  BY DEF WalletConnects, SwitchChain, WithdrawalSigned, OutOfFunds, TransactionReceipt, Fails,
         AnswerIsLost, InWallet, Busy
<1>4. PICK r : r = JobOf(request[i])
  OBVIOUS
<1>5. Fits(r) /\ r \in Jobs /\ JobOnChain(request[i]) /\ JobOnDisplay(request[i])
  BY <1>1, <1>3, <1>4, CalmBefore, RequestKnown DEF XInv
<1>6. \E ok \in BOOLEAN :
        /\ GoesOn(i, Reply(r, ok))
        /\ r.stage = "switch" /\ ok => walletChain' = r.chain
        /\ r.stage # "switch" \/ ~ok => walletChain' = walletChain
  <2>1. CASE WalletConnects(i) \/ SwitchChain(i) \/ WithdrawalSigned(i)
    <3>1. request[i].at # "page" /\ GoesOn(i, Reply(request[i], TRUE))
      BY <2>1 DEF WalletConnects, SwitchChain, WithdrawalSigned, InWallet
    <3>2. r = request[i]
      BY <1>4, <3>1 DEF JobOf
    <3>3. /\ r.stage = "switch" => walletChain' = r.chain
          /\ r.stage # "switch" => walletChain' = walletChain
      BY <2>1, <3>2 DEF WalletConnects, SwitchChain, WithdrawalSigned, InWallet, world
    <3> QED BY <3>1, <3>2, <3>3
  <2>2. CASE Fails(i) \/ \E stage \in {"implement", "deploy"} : OutOfFunds(i, stage)
    <3>1. /\ request[i].at # "page" /\ GoesOn(i, Reply(request[i], FALSE))
          /\ walletChain' = walletChain
      BY <2>2 DEF Fails, OutOfFunds, InWallet, world
    <3> QED BY <1>4, <3>1 DEF JobOf
  <2>3. CASE TransactionReceipt(i)
    <3>1. /\ request[i].at = "chain" /\ walletChain' = walletChain
          /\ \E ok \in BOOLEAN : GoesOn(i, Reply(request[i], ok))
      BY <2>3 DEF TransactionReceipt, world
    <3>2. r = request[i] /\ r.stage # "switch"
      BY <1>4, <1>5, <3>1 DEF JobOf, Fits, JobFits, AtFits
    <3> QED BY <3>1, <3>2
  <2>4. CASE AnswerIsLost(i)
    <3>1. /\ request[i].at = "page" /\ GoesOn(i, Reply(request[i].job, FALSE))
          /\ walletChain' = walletChain
      BY <2>4 DEF AnswerIsLost, world
    <3> QED BY <1>4, <3>1 DEF JobOf
  <2> QED BY <2>1, <2>2, <2>3, <2>4
<1>7. PICK ok \in BOOLEAN :
        /\ GoesOn(i, Reply(r, ok))
        /\ r.stage = "switch" /\ ok => walletChain' = r.chain
        /\ r.stage # "switch" \/ ~ok => walletChain' = walletChain
  BY <1>6
<1>8. PICK q : q = Reply(r, ok)
  OBVIOUS
<1>9. q # Free /\ JobOf(q) = r /\ q.job = r /\ q.ok = ok
  BY <1>5, <1>8, ReplyTyped
<1>10. Alone' /\ \A j \in Slots : Busy(j)' => request'[j] = q
  BY <1>1, <1>3, <1>7, <1>8, LoneSlot, CalmBefore
<1>11. RegisteredOn' /\ CollectorsOn'
  BY <1>1, <1>2, CalmBefore, ServerOnChain, CardsOnChain DEF display
<1>12. JobOnChain(q)'
  <2>1. \A c \in Chains : OnIt(c, r.list[c])'
    BY <1>2, <1>4, <1>5, ListStays DEF JobOnChain
  <2>2. r.kind = "deploy" => OnIt(r.chain, r.made)'
    BY <1>2, <1>4, <1>5, ListStays DEF JobOnChain
  <2>3. r.kind = "withdraw" => r.from # 0 /\ OnIt(r.chain, r.from)'
    BY <1>2, <1>4, <1>5, ListStays DEF JobOnChain
  <2>4. ASSUME Signs(q), r.chain # Tron
        PROVE  walletChain' = r.chain
    <3>1. CASE r.stage \in {"deploy", "withdraw"} /\ r.kind # "factory"
      <4>1. walletChain = r.chain
        BY <1>4, <1>5, <2>4, <3>1 DEF JobOnChain, Signs
      <4> QED BY <1>7, <3>1, <4>1
    <3>2. CASE ok /\ r.stage = "switch"
      BY <1>7, <3>2
    <3> QED BY <1>9, <2>4, <3>1, <3>2 DEF Signs
  <2> QED BY <1>9, <2>1, <2>2, <2>3, <2>4 DEF JobOnChain
<1>13. JobOnDisplay(q)'
  BY <1>1, <1>4, <1>5, <1>9 DEF JobOnDisplay, Here, display, place
<1> QED BY <1>10, <1>11, <1>12, <1>13, CalmGoal

(* The contract is on the chain the extension is on, the job's.             *)
LEMMA SendCalm ==
  ASSUME XInv, CalmInv, hasty' = 0, NEW i \in Slots, NEW stage \in {"implement", "deploy"},
         SendTransaction(i, stage)
  PROVE  CalmInv'
<1> DEFINE n == Len(onChain) + 1
<1>1. PICK r : r = request[i]
  OBVIOUS
<1>2. PICK c : c = IF r.chain = Tron THEN Tron ELSE walletChain
  OBVIOUS
<1>3. /\ r # Free /\ r.at = "wallet" /\ r.stage = stage /\ Fits(r) /\ r \in Jobs /\ JobOf(r) = r
      /\ Len(onChain) \in Nat /\ Unhurried /\ Busy(i)
      /\ UNCHANGED <<walletChain, server, place, display>>
  BY <1>1, JobWaits, ContractsNumbered DEF SendTransaction, InWallet, XInv, JobOf, Busy
<1>4. JobOnChain(r) /\ JobOnDisplay(r) /\ Alone /\ RegisteredOn /\ CollectorsOn
  BY <1>1, <1>3, CalmBefore
<1>5. PICK new : new = [chain |-> c, merchant |-> r.merchant, from |-> r.from]
  OBVIOUS
<1>6. /\ new \in Contracts /\ new.chain = c
  BY <1>2, <1>3, <1>5 DEF Contracts, Jobs, XInv, WorldTyped, Chains
<1>7. onChain' = Append(onChain, new)
  BY <1>1, <1>2, <1>5 DEF SendTransaction
<1>8. /\ onChain' \in Seq(Contracts) /\ Len(onChain') = n /\ onChain'[n] = new
      /\ \A k \in 1..Len(onChain) : onChain'[k] = onChain[k]
  BY <1>6, <1>7 DEF XInv, WorldTyped
<1>9. Grows
  BY <1>3, <1>8 DEF Grows
<1>10. PICK q : q = [r EXCEPT !.at = "chain", !.made = n]
  OBVIOUS
<1>11. /\ q \in Jobs /\ q.kind = r.kind /\ q.stage = r.stage /\ q.at = "chain" /\ q.made = n
       /\ q.page = r.page /\ q.chain = r.chain /\ q.from = r.from /\ q.list = r.list
  <2>1. n \in Nat
    BY <1>3
  <2> HIDE DEF n
  <2> QED BY <1>3, <1>10, <2>1 DEF Jobs
<1>12. JobOf(q) = q /\ Signs(q) = Signs(r)
  BY <1>3, <1>11 DEF JobOf, Signs
<1>13. Alone' /\ \A j \in Slots : Busy(j)' => request'[j] = q
  BY <1>1, <1>3, <1>4, <1>10, LoneSlot DEF SendTransaction
<1>14. RegisteredOn' /\ CollectorsOn'
  BY <1>3, <1>4, <1>9, ServerOnChain, CardsOnChain DEF display
<1>15. r.kind = "deploy" => c = r.chain
  <2>1. r.kind = "deploy" => r.stage = "deploy"
    BY <1>3 DEF Fits, JobFits, StageFits
  <2> QED BY <1>2, <1>3, <1>4, <2>1 DEF JobOnChain, Signs
<1>16. JobOnChain(q)'
  <2>1. \A d \in Chains : OnIt(d, q.list[d])'
    BY <1>3, <1>4, <1>9, <1>11, ListStays DEF JobOnChain
  <2>2. q.kind = "deploy" => OnIt(q.chain, q.made)'
    BY <1>6, <1>8, <1>11, <1>15 DEF OnIt
  <2>3. q.kind = "withdraw" => q.from # 0 /\ OnIt(q.chain, q.from)'
    BY <1>3, <1>4, <1>9, <1>11, ListStays DEF JobOnChain
  <2>4. Signs(q) /\ q.chain # Tron => walletChain' = q.chain
    BY <1>3, <1>4, <1>11, <1>12 DEF JobOnChain
  <2> QED BY <1>12, <2>1, <2>2, <2>3, <2>4 DEF JobOnChain, Signs
<1>17. JobOnDisplay(q)'
  BY <1>3, <1>4, <1>11, <1>12 DEF JobOnDisplay, Here, display, place, PanelFor, Underway
<1> QED BY <1>13, <1>14, <1>16, <1>17, CalmGoal

LEMMA ServeCalm ==
  ASSUME XInv, CalmInv, hasty' = 0, NEW i \in Slots, Serve(i)
  PROVE  CalmInv'
<1>1. PICK r : r = request[i]
  OBVIOUS
<1>2. r # Free /\ r.at = "server" /\ Fits(r) /\ r \in Jobs /\ JobOf(r) = r /\ Busy(i)
  BY <1>1, JobWaits DEF Serve, AtServer, JobOf, Busy
<1>3. /\ UNCHANGED <<world, place, display>> /\ Unhurried
      /\ walletChain' = walletChain /\ onChain' = onChain
  BY DEF Serve, world
<1>4. JobOnChain(r) /\ JobOnDisplay(r) /\ Alone /\ RegisteredOn /\ CollectorsOn
  BY <1>1, <1>2, <1>3, CalmBefore
<1>5. Grows
  BY <1>3, GrowsOrNot DEF XInv
<1>6. PICK s : s = Read(r)
  OBVIOUS
<1>7. PICK q : q = Reply(s, Found(r))
  OBVIOUS
<1>8. /\ s \in Jobs /\ s.kind = r.kind /\ s.stage = r.stage /\ s.at = r.at /\ s.page = r.page
      /\ s.merchant = r.merchant /\ s.chain = r.chain /\ s.made = r.made /\ Found(r) \in BOOLEAN
  BY <1>2, <1>6, ReadFits
<1>9. q # Free /\ JobOf(q) = s /\ q.job = s /\ q.at = "page"
  BY <1>7, <1>8, ReplyTyped
<1>10. Alone' /\ \A j \in Slots : Busy(j)' => request'[j] = q
  BY <1>1, <1>2, <1>4, <1>6, <1>7, LoneSlot DEF Serve
<1>11. CollectorsOn'
  BY <1>3, <1>4, <1>5, CardsOnChain DEF display
<1>12. \A c \in Chains : OnIt(c, s.list[c])
  <2>1. CASE r.stage \in {"list", "balance"}
    <3>1. r.merchant \in Merchants
      BY <1>2, <2>1 DEF Fits, JobFits, StageFits, AboutFits
    <3>2. s.list = registered[r.merchant]
      BY <1>2, <1>6, <2>1 DEF Read, Jobs
    <3> QED BY <1>4, <3>1, <3>2 DEF RegisteredOn
  <2>2. CASE r.stage \notin {"list", "balance"}
    <3>1. s.list = r.list
      BY <1>2, <1>6, <2>2 DEF Read, Jobs
    <3> QED BY <1>2, <1>4, <3>1 DEF JobOnChain
  <2> QED BY <2>1, <2>2
<1>13. s.kind = "withdraw" => FALSE
  BY <1>2, <1>8 DEF Fits, JobFits, StageFits, AtFits
<1>14. ~Signs(q)
  BY <1>2, <1>8, <1>9 DEF Signs, Fits, JobFits, AtFits
<1>15. JobOnChain(q)'
  <2>1. \A c \in Chains : OnIt(c, s.list[c])'
    BY <1>3, <1>12 DEF OnIt
  <2>2. s.kind = "deploy" => OnIt(s.chain, s.made)'
    BY <1>2, <1>3, <1>4, <1>8 DEF OnIt, JobOnChain
  <2> QED BY <1>9, <1>13, <1>14, <2>1, <2>2 DEF JobOnChain, Signs
<1>16. JobOnDisplay(q)'
  BY <1>2, <1>3, <1>4, <1>8, <1>9 DEF JobOnDisplay, Here, display, place, PanelFor, Underway
<1>17. RegisteredOn'
  <2>1. ASSUME NEW m \in Merchants, NEW c \in Chains
        PROVE  OnIt(c, registered[m][c])'
    <3>1. CASE ReadCollectors(r) \/ UpsertFactory(r)
      BY <1>3, <1>4, <3>1 DEF ReadCollectors, UpsertFactory, server, OnIt, RegisteredOn
    <3>2. CASE RegisterCollector(r)
      <4>1. r.kind = "deploy"
        BY <1>2, <3>2 DEF RegisterCollector, Fits, JobFits, StageFits, Jobs, Kinds
      <4>2. OnIt(r.chain, r.made)
        BY <1>2, <1>4, <4>1 DEF JobOnChain
      <4>3. registered'[m][c] = registered[m][c] \/ (c = r.chain /\ registered'[m][c] = r.made)
        BY <3>2 DEF RegisterCollector, XInv, ServerTyped
      <4> QED BY <1>3, <1>4, <4>2, <4>3 DEF OnIt, RegisteredOn
    <3>3. CASE DeleteCollector(r)
      <4>1. registered'[m][c] = registered[m][c] \/ registered'[m][c] = 0
        BY <3>3 DEF DeleteCollector, XInv, ServerTyped
      <4> QED BY <1>3, <1>4, <4>1 DEF OnIt, RegisteredOn
    <3> QED BY <1>1, <3>1, <3>2, <3>3 DEF Serve
  <2> QED BY <2>1 DEF RegisteredOn
<1> QED BY <1>10, <1>11, <1>15, <1>16, <1>17, CalmGoal

(* The page's handlers, for that user.                                      *)
LEMMA HandledCalm ==
  ASSUME XInv, CalmInv, hasty' = 0, NEW i \in Slots, Busy(i), Handled, CollectorsOn',
         NEW q, GoesOn(i, q), q # Free => JobOnChain(q)' /\ JobOnDisplay(q)'
  PROVE  CalmInv'
<1>1. Grows /\ UNCHANGED server /\ Unhurried
  BY GrowsOrNot DEF Handled, world, XInv
<1>2. Alone /\ RegisteredOn
  BY <1>1, CalmBefore
<1>3. Alone' /\ \A j \in Slots : Busy(j)' => request'[j] = q
  BY <1>2, LoneSlot
<1>4. RegisteredOn'
  BY <1>1, <1>2, ServerOnChain
<1> QED BY <1>3, <1>4, CalmGoal

LEMMA FreshCalm ==
  ASSUME NEW q, q.at # "page", q.kind \in {"list", "balance", "remove"}, q.list = Nothing,
         q.stage \in {"list", "balance", "delete"}
  PROVE  JobOnChain(q)' /\ JobOnDisplay(q)'
<1>1. PICK l : l = Nothing
  OBVIOUS
<1>2. \A c \in Chains : OnIt(c, l[c])'
  BY <1>1, NothingIsList DEF OnIt
<1>3. JobOf(q) = q /\ ~Signs(q)
  BY DEF JobOf, Signs
<1>4. JobOnChain(q)'
  BY <1>1, <1>2, <1>3 DEF JobOnChain, JobOf, Signs
<1>5. JobOnDisplay(q)'
  BY <1>3 DEF JobOnDisplay, Underway, JobOf
<1> QED BY <1>4, <1>5

LEMMA LoadCalm ==
  ASSUME NEW m, NEW q, q = loadData(m)
  PROVE  JobOnChain(q)' /\ JobOnDisplay(q)'
<1>1. q = [kind |-> "list", stage |-> "list", at |-> "server", page |-> page, merchant |-> m,
           chain |-> None, made |-> 0, from |-> 0, list |-> Nothing]
  BY DEF loadData, Job
<1> QED BY <1>1, FreshCalm

LEMMA DataLoadedCalm ==
  ASSUME XInv, CalmInv, hasty' = 0, NEW i \in Slots, DataLoaded(i)
  PROVE  CalmInv'
<1>1. PICK a : a = request[i]
  OBVIOUS
<1>2. PICK r : r = a.job
  OBVIOUS
<1>3. /\ Fits(r) /\ r \in Jobs /\ r.kind = "list" /\ r.merchant \in Merchants /\ a.ok \in BOOLEAN
      /\ JobOf(a) = r /\ Busy(i) /\ Handled /\ Unhurried /\ onChain' = onChain
  BY <1>1, <1>2, AnswerHere DEF DataLoaded, Fits, JobFits, AboutFits, Busy, Handled, world
<1>4. JobOnChain(a) /\ CollectorsOn
  BY <1>1, <1>3, CalmBefore
<1>5. CollectorsOn'
  <2>1. collectors' \in {collectors, r.list, Nothing}
    BY <1>1, <1>2 DEF DataLoaded
  <2>2. PICK l : l = Nothing
    OBVIOUS
  <2>3. \A c \in Chains : l[c] = 0
    BY <2>2, NothingIsList
  <2> QED BY <1>3, <1>4, <2>1, <2>2, <2>3 DEF CollectorsOn, OnIt, JobOnChain
<1>6. PICK cs \in SUBSET Chains : GoesOn(i, FetchBalance(r.merchant, cs, "server")) \/ Ends(i)
  <2>1. PICK cs : cs = {c \in Chains : r.list[c] # 0}
    OBVIOUS
  <2>2. GoesOn(i, FetchBalance(r.merchant, cs, "server")) \/ Ends(i)
    BY <1>1, <1>2, <2>1 DEF DataLoaded
  <2> QED BY <2>1, <2>2
<1>7. PICK q : q = FetchBalance(r.merchant, cs, "server")
  OBVIOUS
<1>8. q = [kind |-> "balance", stage |-> "balance", at |-> "server", page |-> page,
               merchant |-> r.merchant, chain |-> cs, made |-> 0, from |-> 0, list |-> Nothing]
  BY <1>3, <1>6, <1>7, FetchFits
<1>9. JobOnChain(q)' /\ JobOnDisplay(q)'
  BY <1>8, FreshCalm
<1>10. GoesOn(i, q) \/ GoesOn(i, Free)
  BY <1>6, <1>7 DEF Ends, GoesOn
<1> QED BY <1>3, <1>5, <1>9, <1>10, HandledCalm

LEMMA BalanceFetchedCalm ==
  ASSUME XInv, CalmInv, hasty' = 0, NEW i \in Slots, BalanceFetched(i)
  PROVE  CalmInv'
<1>1. PICK a : a = request[i]
  OBVIOUS
<1>2. PICK r : r = a.job
  OBVIOUS
<1>3. /\ Fits(r) /\ r \in Jobs /\ r.kind = "balance" /\ Busy(i) /\ Handled /\ Unhurried
      /\ collectors' = collectors
  BY <1>1, <1>2, AnswerHere DEF BalanceFetched, Busy, Handled
<1>4. r.stage = "balance" /\ r.at = "server"
  BY <1>3 DEF Fits, JobFits, StageFits, AtFits
<1>5. PICK c : GoesOn(i, [r EXCEPT !.chain = r.chain \ {c}, !.list = Nothing]) \/ Ends(i)
  BY <1>1, <1>2 DEF BalanceFetched
<1>6. PICK q : q = [r EXCEPT !.chain = r.chain \ {c}, !.list = Nothing]
  OBVIOUS
<1>7. q.kind = r.kind /\ q.stage = r.stage /\ q.at = r.at /\ q.list = Nothing
  BY <1>3, <1>6 DEF Jobs
<1>8. JobOnChain(q)' /\ JobOnDisplay(q)'
  BY <1>3, <1>4, <1>7, FreshCalm
<1>9. GoesOn(i, q) \/ GoesOn(i, Free)
  BY <1>5, <1>6 DEF Ends, GoesOn
<1>10. CollectorsOn'
  BY <1>3, CalmBefore, GrowsOrNot, CardsOnChain DEF Handled, world, XInv
<1> QED BY <1>3, <1>8, <1>9, <1>10, HandledCalm

LEMMA FollowsCalm ==
  ASSUME XInv, NEW a, a.at = "page", a.ok, ReplyFits(a), NEW r, r = a.job, JobOnChain(a),
         r.kind \in {"deploy", "factory", "withdraw"},
         r.stage \notin {"register", "save"}, r.kind = "withdraw" => r.stage # "withdraw",
         UNCHANGED <<walletChain, onChain>>, NEW s, s = Implemented(r), NEW q, q = Follows(s)
  PROVE  JobOnChain(q)'
<1>1. Fits(r) /\ (r.stage \in {"implement", "deploy"} => r.at = "chain") /\ JobOf(a) = r
  BY DEF ReplyFits, JobOf
<1>2. /\ Fits(q) /\ q \in Jobs /\ s.kind = r.kind /\ s.stage = r.stage /\ s.chain = r.chain
      /\ q.kind = r.kind /\ q.page = r.page /\ q.merchant = r.merchant /\ q.chain = r.chain
      /\ q.list = r.list /\ q.made = s.made /\ q.from = s.from
      /\ q.stage = After(s).stage
      /\ (r.stage # "implement" => s = r)
  BY <1>1, FollowsFits
<1>3. JobOf(q) = q
  BY <1>2 DEF JobOf, Jobs
<1>4. r.stage = "implement" => r.kind = "factory"
  BY <1>1 DEF Fits, JobFits, StageFits
<1>5. Grows
  BY GrowsOrNot DEF XInv
<1>6. \A c \in Chains : OnIt(c, q.list[c])'
  BY <1>1, <1>2, <1>5, ListStays DEF JobOnChain
<1>7. q.kind = "deploy" => OnIt(q.chain, q.made)'
  BY <1>1, <1>2, <1>4, <1>5, ListStays DEF JobOnChain
<1>8. q.kind = "withdraw" => q.from # 0 /\ OnIt(q.chain, q.from)'
  BY <1>1, <1>2, <1>4, <1>5, ListStays DEF JobOnChain
<1>9. ASSUME Signs(q), q.chain # Tron
      PROVE  walletChain' = q.chain
  <2>1. q.stage \in {"deploy", "withdraw"} /\ q.kind # "factory"
    BY <1>2, <1>3, <1>9 DEF Signs, Jobs
  <2>2. r.stage \in {"connect", "switch", "ask", "deploy"}
    BY <1>1, <1>2, <2>1 DEF Fits, JobFits, StageFits
  <2>3. r.stage = "connect" => FALSE
    <3>1. r.stage = "connect" => After(s) = AfterConnect(s)
      BY <1>2 DEF After
    <3>2. r.stage = "connect" => After(s).stage = "switch"
      BY <1>2, <1>9, <2>1, <3>1 DEF AfterConnect, Jobs
    <3> QED BY <1>2, <2>1, <3>2
  <2>4. r.stage # "ask"
    BY <1>1, <1>2, <1>9 DEF Fits, JobFits, AboutFits
  <2>5. r.stage # "deploy"
    <3>1. r.stage = "deploy" => After(s).stage \in {"save", "register"}
      BY <1>2 DEF After
    <3> QED BY <1>2, <2>1, <3>1
  <2>6. Signs(a)
    BY <2>2, <2>3, <2>4, <2>5 DEF Signs
  <2> QED BY <1>1, <1>2, <1>9, <2>6 DEF JobOnChain
<1>10. (Signs(q) <=> Signs(q)') /\ (JobOf(q) = JobOf(q)')
  BY DEF Signs, JobOf
<1> QED BY <1>3, <1>6, <1>7, <1>8, <1>9 DEF JobOnChain, Signs, JobOf

LEMMA DeployCalm ==
  ASSUME XInv, CalmInv, hasty' = 0, NEW i \in Slots,
         DeployGoesOn(i) \/ DeployDone(i) \/ DeployFailed(i)
  PROVE  CalmInv'
<1>1. PICK a : a = request[i]
  OBVIOUS
<1>2. PICK r : r = a.job
  OBVIOUS
<1>3. PICK kind \in {"deploy", "factory"} : Arrived(i, kind)
  BY DEF DeployGoesOn, DeployDone, DeployFailed
<1>4. /\ a.at = "page" /\ ReplyFits(a) /\ Fits(r) /\ r \in Jobs /\ r.kind \in {"deploy", "factory"}
      /\ JobOf(a) = r /\ Busy(i)
  BY <1>1, <1>2, <1>3, AnswerHere DEF Busy
<1>5. Handled /\ Unhurried /\ UNCHANGED <<walletChain, onChain, collectors, place>>
  BY DEF DeployGoesOn, DeployDone, DeployFailed, Handled, world
<1>6. JobOnChain(a) /\ JobOnDisplay(a) /\ CollectorsOn
  BY <1>1, <1>4, <1>5, CalmBefore
<1>7. CollectorsOn'
  BY <1>5, <1>6, GrowsOrNot, CardsOnChain DEF XInv
<1>8. CASE DeployGoesOn(i)
  <2>1. PICK s : s = Implemented(r)
    OBVIOUS
  <2>2. PICK q : q = Follows(s)
    OBVIOUS
  <2>3. PICK step : step = IF After(s).stage = "ask" THEN "connect" ELSE After(s).stage
    OBVIOUS
  <2>4. /\ a.ok /\ r.stage \notin {"register", "save"} /\ GoesOn(i, q)
        /\ Shows(PanelFor(s), s, step) /\ closing' = closing
    BY <1>1, <1>2, <1>8, <2>1, <2>2, <2>3 DEF DeployGoesOn
  <2>5. r.stage \in {"implement", "deploy"} => r.at = "chain"
    BY <1>2, <1>4, <2>4 DEF ReplyFits
  <2>6. /\ q \in Jobs /\ s.kind = r.kind /\ s.page = r.page /\ s.chain = r.chain
        /\ q.kind = r.kind /\ q.page = r.page /\ q.chain = r.chain
        /\ s.stage = r.stage
    BY <1>4, <2>1, <2>2, <2>4, <2>5, FollowsFits
  <2>7. JobOnChain(q)'
    BY <1>2, <1>4, <1>5, <1>6, <2>1, <2>2, <2>4, FollowsCalm
  <2>8. step \notin {"idle", "done", "error"}
    BY <2>3 DEF After, AfterConnect, Implementation, Signing
  <2>9. JobOf(q) = q /\ JobOf(q)' = q
    BY <2>6 DEF JobOf, Jobs
  <2>10. PanelFor(s) = PanelFor(r) /\ PanelFor(q) = PanelFor(r) /\ PanelFor(r) \in Panels
    BY <2>6, PanelIsPanel DEF PanelFor
  <2>11. Underway(r) /\ Here(r) /\ Here(s) /\ closing = {} /\ modal[PanelFor(r)].chain = r.chain
    BY <1>4, <1>6, <2>6 DEF Underway, JobOnDisplay, Here
  <2>12. modal' = [modal EXCEPT ![PanelFor(r)].step = step]
    BY <2>4, <2>10, <2>11 DEF Shows
  <2>13. modal'[PanelFor(r)].chain = r.chain /\ modal'[PanelFor(r)].step = step
    BY <2>10, <2>11, <2>12 DEF XInv, PageTyped
  <2>14. Here(q)'
    BY <1>5, <2>6, <2>11 DEF Here, place
  <2>15. JobOnDisplay(q)'
    BY <2>4, <2>6, <2>8, <2>9, <2>10, <2>11, <2>13, <2>14 DEF JobOnDisplay, PanelFor, JobOf
  <2> QED BY <1>4, <1>5, <1>7, <2>4, <2>7, <2>15, HandledCalm
<1>9. CASE DeployDone(i)
  <2>1. PICK q : q = loadData(r.merchant)
    OBVIOUS
  <2>2. GoesOn(i, q) \/ GoesOn(i, Free)
    BY <1>1, <1>2, <1>9, <2>1 DEF DeployDone, Ends, GoesOn
  <2>3. JobOnChain(q)' /\ JobOnDisplay(q)'
    BY <2>1, LoadCalm
  <2> QED BY <1>4, <1>5, <1>7, <2>2, <2>3, HandledCalm
<1>10. CASE DeployFailed(i)
  <2>1. GoesOn(i, Free)
    BY <1>10 DEF DeployFailed, Ends, GoesOn
  <2> QED BY <1>4, <1>5, <1>7, <2>1, HandledCalm
<1> QED BY <1>8, <1>9, <1>10

LEMMA OthersCalm ==
  ASSUME XInv, CalmInv, hasty' = 0, NEW i \in Slots, DeleteAnswered(i) \/ WithdrawGoesOn(i)
  PROVE  CalmInv'
<1>1. PICK a : a = request[i]
  OBVIOUS
<1>2. PICK r : r = a.job
  OBVIOUS
<1>3. PICK kind \in {"remove", "withdraw"} : Arrived(i, kind)
                                             /\ (kind = "withdraw" => WithdrawGoesOn(i))
                                             /\ (kind = "remove" => DeleteAnswered(i))
  BY DEF DeleteAnswered, WithdrawGoesOn
<1>4. /\ a.at = "page" /\ ReplyFits(a) /\ Fits(r) /\ r \in Jobs /\ r.kind = kind
      /\ r.chain \in Chains /\ r.page \in {"setup", "balances", "left"} /\ Busy(i)
      /\ JobOf(a) = r /\ r.merchant \in Merchants
  BY <1>1, <1>2, <1>3, AnswerHere DEF Fits, JobFits, AboutFits, Jobs, Busy
<1>5. Handled /\ Unhurried /\ UNCHANGED <<walletChain, onChain, collectors>>
  BY DEF DeleteAnswered, WithdrawGoesOn, Handled, world, display
<1>6. JobOnChain(a) /\ CollectorsOn
  BY <1>1, <1>4, <1>5, CalmBefore
<1>7. CollectorsOn'
  BY <1>5, <1>6, GrowsOrNot, CardsOnChain DEF XInv
<1>8. PICK l : l = loadData(r.merchant)
  OBVIOUS
<1>9. PICK f : f = [FetchBalance(r.merchant, {r.chain}, "server") EXCEPT !.page = r.page]
  OBVIOUS
<1>10. PICK q : q = Follows(r)
  OBVIOUS
<1>11. \/ GoesOn(i, Free) \/ GoesOn(i, l) \/ GoesOn(i, f)
       \/ a.ok /\ r.kind = "withdraw" /\ r.stage # "withdraw" /\ GoesOn(i, q)
  BY <1>1, <1>2, <1>3, <1>4, <1>8, <1>9, <1>10 DEF DeleteAnswered, WithdrawGoesOn, Ends, GoesOn
<1>12. JobOnChain(l)' /\ JobOnDisplay(l)'
  BY <1>8, LoadCalm
<1>13. JobOnChain(f)' /\ JobOnDisplay(f)'
  <2>1. f = [kind |-> "balance", stage |-> "balance", at |-> "server", page |-> r.page,
             merchant |-> r.merchant, chain |-> {r.chain}, made |-> 0, from |-> 0, list |-> Nothing]
    BY <1>9 DEF FetchBalance, Job
  <2> QED BY <2>1, FreshCalm
<1>14. ASSUME a.ok, r.kind = "withdraw", r.stage # "withdraw"
       PROVE  JobOnChain(q)' /\ JobOnDisplay(q)'
  <2>1. r.stage \in {"connect", "switch"}
    BY <1>4, <1>14 DEF Fits, JobFits, StageFits
  <2>2. PICK s : s = Implemented(r)
    OBVIOUS
  <2>3. s = r
    BY <2>1, <2>2 DEF Implemented
  <2>4. q \in Jobs /\ q.kind = "withdraw"
    BY <1>4, <1>10, <1>14, <2>1, <2>2, <2>3, FollowsFits
  <2>5. JobOnChain(q)'
    BY <1>2, <1>4, <1>5, <1>6, <1>10, <1>14, <2>1, <2>2, <2>3, FollowsCalm
  <2>6. JobOf(q) = q /\ ~Underway(q)
    BY <2>4 DEF JobOf, Underway, Jobs
  <2>7. JobOnDisplay(q)'
    BY <2>6 DEF JobOnDisplay, JobOf, Underway
  <2> QED BY <2>5, <2>7
<1> QED BY <1>4, <1>5, <1>7, <1>11, <1>12, <1>13, <1>14, HandledCalm

(* A timer closes nothing that is under way.                                *)
LEMMA TimerCalm ==
  ASSUME XInv, CalmInv, hasty' = 0, NEW p \in Panels, TimerCloses(p)
  PROVE  CalmInv'
<1>1. /\ Handled /\ Unhurried /\ UNCHANGED <<walletChain, onChain, collectors, request, server>>
      /\ closing # {}
  BY DEF TimerCloses, Handled, world
<1>2. /\ Alone /\ RegisteredOn /\ CollectorsOn
      /\ \A i \in Slots : Busy(i) => JobOnChain(request[i]) /\ JobOnDisplay(request[i])
  BY <1>1, CalmBefore
<1>3. Alone'
  BY <1>1, <1>2 DEF Alone, Busy
<1>4. RegisteredOn' /\ CollectorsOn'
  BY <1>1, <1>2, GrowsOrNot, ServerOnChain, CardsOnChain DEF XInv
<1>5. ASSUME NEW i \in Slots, Busy(i)'
      PROVE  JobOnChain(request[i])' /\ JobOnDisplay(request[i])'
  <2>1. PICK q : q = request[i]
    OBVIOUS
  <2>2. JobOnChain(q) /\ JobOnDisplay(q) /\ request'[i] = q
    BY <1>1, <1>2, <1>5, <2>1 DEF Busy
  <2>3. JobOnChain(q)'
    BY <1>1, <2>2 DEF JobOnChain, OnIt, Signs, JobOf
  <2>4. ~Underway(JobOf(q))
    BY <1>1, <2>2 DEF JobOnDisplay
  <2>5. JobOnDisplay(q)'
    BY <2>4 DEF JobOnDisplay, Underway, JobOf
  <2> QED BY <2>2, <2>3, <2>5
<1> QED BY <1>3, <1>4, <1>5 DEF CalmInv

(* What that user starts.                                                   *)
LEMMA SentCalm ==
  ASSUME XInv, CalmInv, hasty' = 0, UserActs, UNCHANGED <<onChain, server>>, CollectorsOn',
         NEW q, Send(q), JobOnChain(q)' /\ JobOnDisplay(q)'
  PROVE  CalmInv'
<1>1. Grows
  BY GrowsOrNot DEF XInv
<1>2. /\ RegisteredOn /\ \A i \in Slots : request[i] = Free
  BY UserWaited
<1>3. Alone' /\ \A j \in Slots : Busy(j)' => request'[j] = q
  BY <1>2, LoneSent
<1>4. RegisteredOn'
  BY <1>1, <1>2, ServerOnChain
<1> QED BY <1>3, <1>4, CalmGoal

LEMMA BeginCalm ==
  ASSUME XInv, CalmInv, hasty' = 0,
         \/ \E c \in Chains : handleDeploy(c) \/ handleDelete(c) \/ handleWithdraw(c)
         \/ \E impl \in 0..MaxContracts : handleDeployTron(impl)
  PROVE  CalmInv'
<1>1. /\ UNCHANGED <<onChain, server, place, collectors, closing>>
      /\ UserActs /\ walletChain' = walletChain
  BY DEF handleDeploy, handleDelete, handleWithdraw, handleDeployTron, world, display
<1>2. closing' = {} /\ CollectorsOn
  BY <1>1, UserWaited
<1>3. CollectorsOn'
  BY <1>1, <1>2, GrowsOrNot, CardsOnChain DEF XInv
<1>4. PICK l : l = Nothing
  OBVIOUS
<1>5. \A d \in Chains : OnIt(d, l[d])'
  BY <1>4, NothingIsList DEF OnIt
<1>6. CASE \E c \in Chains : handleDeploy(c)
  <2>1. PICK c \in Chains : handleDeploy(c)
    BY <1>6
  <2>2. PICK q : q = Job("deploy", "connect", "wallet", merchantId, c)
    OBVIOUS
  <2>3. q = [kind |-> "deploy", stage |-> "connect", at |-> "wallet", page |-> page,
             merchant |-> merchantId, chain |-> c, made |-> 0, from |-> 0, list |-> l]
    BY <1>4, <2>2 DEF Job
  <2>4. Send(q) /\ modal' = [modal EXCEPT ![PanelOf(c)] = [chain |-> c, step |-> "connect"]]
    BY <2>1, <2>2 DEF handleDeploy
  <2>5. JobOf(q) = q /\ ~Signs(q)
    BY <2>3 DEF JobOf, Signs
  <2>6. JobOnChain(q)'
    BY <1>5, <2>3, <2>5, OnItNone DEF JobOnChain, JobOf, Signs
  <2>7. PanelFor(q) = PanelOf(c) /\ PanelOf(c) \in Panels
    BY <2>3 DEF PanelFor, PanelOf, Panels
  <2>8. modal'[PanelFor(q)] = [chain |-> c, step |-> "connect"]
    BY <2>4, <2>7 DEF XInv, PageTyped
  <2>9. Here(q)'
    BY <1>1, <2>3 DEF Here, place
  <2>10. JobOnDisplay(q)'
    BY <1>2, <2>3, <2>5, <2>8, <2>9 DEF JobOnDisplay, JobOf, PanelFor
  <2> QED BY <1>1, <1>3, <2>4, <2>6, <2>10, SentCalm
<1>7. CASE \E c \in Chains : handleDelete(c)
  <2>1. PICK c \in Chains : handleDelete(c)
    BY <1>7
  <2>2. PICK q : q = Job("remove", "delete", "server", merchantId, c)
    OBVIOUS
  <2>3. q = [kind |-> "remove", stage |-> "delete", at |-> "server", page |-> page,
             merchant |-> merchantId, chain |-> c, made |-> 0, from |-> 0, list |-> Nothing]
    BY <2>2 DEF Job
  <2>4. Send(q)
    BY <2>1, <2>2 DEF handleDelete
  <2>5. JobOnChain(q)' /\ JobOnDisplay(q)'
    BY <2>3, FreshCalm
  <2> QED BY <1>1, <1>3, <2>4, <2>5, SentCalm
<1>8. CASE \E c \in Chains : handleWithdraw(c)
  <2>1. PICK c \in Chains : handleWithdraw(c)
    BY <1>8
  <2>2. PICK n : n = collectors[c]
    OBVIOUS
  <2>3. n # 0 /\ OnIt(c, n)'
    BY <1>1, <1>2, <2>1, <2>2 DEF CollectorsOn, OnIt, handleWithdraw
  <2>4. PICK q : q = [Job("withdraw", "connect", "wallet", merchantId, c) EXCEPT !.from = n]
    OBVIOUS
  <2>5. q = [kind |-> "withdraw", stage |-> "connect", at |-> "wallet", page |-> page,
             merchant |-> merchantId, chain |-> c, made |-> 0, from |-> n, list |-> l]
    BY <1>4, <2>4 DEF Job
  <2>6. Send(q)
    BY <2>1, <2>2, <2>4 DEF handleWithdraw
  <2>7. JobOf(q) = q /\ ~Signs(q) /\ ~Underway(q)
    BY <2>5 DEF JobOf, Signs, Underway
  <2>8. JobOnChain(q)'
    BY <1>5, <2>3, <2>5, <2>7 DEF JobOnChain, JobOf, Signs
  <2>9. JobOnDisplay(q)'
    BY <2>7 DEF JobOnDisplay, JobOf, Underway
  <2> QED BY <1>1, <1>3, <2>6, <2>8, <2>9, SentCalm
<1>9. CASE \E impl \in 0..MaxContracts : handleDeployTron(impl)
  <2>1. PICK impl \in 0..MaxContracts : handleDeployTron(impl)
    BY <1>9
  <2>2. PICK q : q = [Job("factory", "connect", "wallet", None, Tron) EXCEPT !.from = impl]
    OBVIOUS
  <2>3. q = [kind |-> "factory", stage |-> "connect", at |-> "wallet", page |-> page,
             merchant |-> None, chain |-> Tron, made |-> 0, from |-> impl, list |-> l]
    BY <1>4, <2>2 DEF Job
  <2>4. Send(q) /\ modal' = [modal EXCEPT !["factory"] = [chain |-> Tron, step |-> "connect"]]
    BY <2>1, <2>2 DEF handleDeployTron
  <2>5. JobOf(q) = q /\ ~Signs(q)
    BY <2>3 DEF JobOf, Signs
  <2>6. JobOnChain(q)'
    BY <1>5, <2>3, <2>5 DEF JobOnChain, JobOf, Signs
  <2>7. PanelFor(q) = "factory" /\ "factory" \in Panels
    BY <2>3 DEF PanelFor, Panels
  <2>8. modal'[PanelFor(q)] = [chain |-> Tron, step |-> "connect"]
    BY <2>4, <2>7 DEF XInv, PageTyped
  <2>9. Here(q)'
    BY <2>3 DEF Here
  <2>10. JobOnDisplay(q)'
    BY <1>2, <2>3, <2>5, <2>8, <2>9 DEF JobOnDisplay, JobOf, PanelFor
  <2> QED BY <1>1, <1>3, <2>4, <2>6, <2>10, SentCalm
<1> QED BY <1>6, <1>7, <1>8, <1>9

LEMMA PlacesCalm ==
  ASSUME XInv, CalmInv, hasty' = 0,
         \/ \E c \in EvmChains : PickChain(c)
         \/ \E m \in Merchants : SelectMerchant(m)
         \/ \E p \in Panels : CloseModal(p)
         \/ \E p \in {"setup", "balances"} : GoTo(p)
  PROVE  CalmInv'
<1>1. UNCHANGED <<onChain, server>> /\ UserActs
  BY DEF PickChain, SelectMerchant, CloseModal, GoTo, world
<1>2. Grows /\ RegisteredOn /\ CollectorsOn /\ \A i \in Slots : request[i] = Free
  BY <1>1, GrowsOrNot, UserWaited DEF XInv
<1>3. RegisteredOn'
  BY <1>1, <1>2, ServerOnChain
<1>4. ASSUME UNCHANGED <<collectors, request>>
      PROVE  CalmInv'
  <2>1. CollectorsOn'
    BY <1>2, <1>4, CardsOnChain
  <2>2. \A i \in Slots : ~Busy(i)'
    BY <1>2, <1>4 DEF Busy
  <2> QED BY <1>3, <2>1, <2>2 DEF CalmInv, Alone
<1>5. CASE \E c \in EvmChains : PickChain(c)
  BY <1>4, <1>5 DEF PickChain, display
<1>6. CASE \E p \in Panels : CloseModal(p)
  BY <1>4, <1>6 DEF CloseModal
<1>7. CASE \E m \in Merchants : SelectMerchant(m)
  <2>1. PICK m \in Merchants : SelectMerchant(m)
    BY <1>7
  <2>2. PICK q : q = loadData(m)
    OBVIOUS
  <2>3. Send(q) /\ UNCHANGED collectors
    BY <2>1, <2>2 DEF SelectMerchant
  <2>4. JobOnChain(q)' /\ JobOnDisplay(q)'
    BY <2>2, LoadCalm
  <2>5. CollectorsOn'
    BY <1>2, <2>3, CardsOnChain
  <2> QED BY <1>1, <2>3, <2>4, <2>5, SentCalm
<1>8. CASE \E p \in {"setup", "balances"} : GoTo(p)
  <2>1. PICK p \in {"setup", "balances"} : GoTo(p)
    BY <1>8
  <2>2. PICK q : q = [loadData(merchantId) EXCEPT !.page = p]
    OBVIOUS
  <2>3. PICK i \in Slots : request' = [j \in Slots |-> IF i = j THEN q ELSE Left(request[j])]
    BY <2>1, <2>2 DEF GoTo, FreeSlots
  <2>4. q = [kind |-> "list", stage |-> "list", at |-> "server", page |-> p,
             merchant |-> merchantId, chain |-> None, made |-> 0, from |-> 0, list |-> Nothing]
    BY <2>2 DEF loadData, Job
  <2>5. JobOnChain(q)' /\ JobOnDisplay(q)'
    BY <2>4, FreshCalm
  <2>6. \A j \in Slots : Busy(j)' => j = i
    BY <1>2, <2>3 DEF Busy, Left
  <2>7. Alone' /\ \A j \in Slots : Busy(j)' => request'[j] = q
    BY <2>3, <2>6 DEF Alone
  <2>8. CollectorsOn'
    <3>1. collectors' = Nothing
      BY <2>1 DEF GoTo
    <3>2. PICK l : l = Nothing
      OBVIOUS
    <3> QED BY <3>1, <3>2, NothingIsList DEF CollectorsOn, OnIt
  <2> QED BY <1>3, <2>5, <2>7, <2>8, CalmGoal
<1> QED BY <1>5, <1>6, <1>7, <1>8

LEMMA StartCalm ==
  ASSUME Init
  PROVE  CalmInv
<1>1. PICK q : q = loadData(merchantId)
  OBVIOUS
<1>2. PICK l : l = Nothing
  OBVIOUS
<1>3. q = [kind |-> "list", stage |-> "list", at |-> "server", page |-> page,
           merchant |-> merchantId, chain |-> None, made |-> 0, from |-> 0, list |-> l]
  BY <1>1, <1>2 DEF loadData, Job
<1>4. \A c \in Chains : l[c] = 0
  BY <1>2, NothingIsList
<1>5. \A i \in Slots : request[i] = IF i = 1 THEN q ELSE Free
  BY <1>1 DEF Init
<1>6. Alone
  BY <1>5 DEF Alone, Busy
<1>7. RegisteredOn /\ CollectorsOn
  BY <1>2, <1>4 DEF Init, RegisteredOn, CollectorsOn, OnIt
<1>8. JobOf(q) = q /\ ~Signs(q) /\ ~Underway(q)
  BY <1>3 DEF JobOf, Signs, Underway
<1>9. JobOnChain(q) /\ JobOnDisplay(q)
  BY <1>3, <1>4, <1>8 DEF JobOnChain, JobOnDisplay, OnIt
<1> QED BY <1>5, <1>6, <1>7, <1>9 DEF CalmInv, Busy

LEMMA StepCalm ==
  ASSUME XInv, CalmInv, [Next]_vars
  PROVE  CalmInv'
<1> SUFFICES ASSUME hasty' = 0 PROVE CalmInv'
  BY DEF CalmInv
<1>1. CASE UNCHANGED vars
  <2>1. hasty = 0 /\ UNCHANGED <<walletChain, onChain, registered, page, collectors, modal,
                                 closing, request>>
    BY <1>1 DEF vars
  <2> QED BY <2>1 DEF CalmInv, Alone, RegisteredOn, CollectorsOn, OnIt, Busy, JobOnChain,
                     JobOnDisplay, Signs, JobOf, Here, Underway, PanelFor
<1>2. CASE UserDoes
  BY <1>2, BeginCalm, PlacesCalm DEF UserDoes
<1>3. ASSUME NEW i \in Slots, Goes(i) \/ Fails(i) \/ AnswerIsLost(i)
      PROVE  CalmInv'
  <2>1. CASE WalletAnswers(i) \/ TransactionReceipt(i) \/ Fails(i) \/ AnswerIsLost(i)
    BY <2>1, AnswersCalm, SendCalm DEF WalletAnswers
  <2>2. CASE Serve(i)
    BY <2>2, ServeCalm
  <2>3. CASE Continues(i)
    BY <2>3, DataLoadedCalm, BalanceFetchedCalm, DeployCalm, OthersCalm DEF Continues
  <2> QED BY <1>3, <2>1, <2>2, <2>3 DEF Goes
<1>4. CASE \E p \in Panels : TimerCloses(p)
  BY <1>4, TimerCalm
<1> QED BY <1>1, <1>2, <1>3, <1>4 DEF Next

(* Between the acts of a user who waits there is one request at a time, and *)
(* the chain, the contract and the modal are those of its job.              *)
THEOREM Calm == Spec => []CalmInv
BY StartTyped, StepTyped, StartCalm, StepCalm, PTL DEF Spec

(* Every contract is registered for the merchant it was deployed for and    *)
(* saved with what it was made from; and for a user who waits, it is        *)
(* registered under the chain it is on and withdrawn from on that chain.    *)
THEOREM ContractsAreWhereTheyBelong == Spec => []ContractsBelong
<1>1. XInv /\ CalmInv => ContractsBelong
  <2> SUFFICES ASSUME XInv, CalmInv PROVE ContractsBelong
    OBVIOUS
  <2>1. RegisteredOnItsChain
    BY DEF CalmInv, RegisteredOn, OnIt, RegisteredOnItsChain
  <2>2. WithdrawnOnItsChain
    <3> SUFFICES ASSUME hasty = 0, NEW i \in Slots, InWallet(i, "withdraw")
                 PROVE  onChain[request[i].from].chain \in {Tron, walletChain}
      BY DEF WithdrawnOnItsChain
    <3>1. PICK r : r = request[i]
      OBVIOUS
    <3>2. /\ Busy(i) /\ Fits(r) /\ r \in Jobs /\ JobOf(r) = r /\ r.stage = "withdraw"
      BY <3>1, JobWaits DEF InWallet, Busy, JobOf
    <3>3. r.kind = "withdraw"
      BY <3>2 DEF Fits, JobFits, StageFits, Jobs, Kinds
    <3>4. JobOnChain(r) /\ Signs(r)
      BY <3>1, <3>2, <3>3 DEF CalmInv, Signs
    <3> QED BY <3>1, <3>2, <3>3, <3>4 DEF JobOnChain, OnIt
  <2> QED BY <2>1, <2>2 DEF XInv, ContractsBelong
<1> QED BY <1>1, Typed, Calm, PTL

(* A deployment under way is on display, on a step of its own, for a user   *)
(* who waits.                                                               *)
THEOREM DeploymentsAreOnDisplay == Spec => []ProgressIsShown
<1>1. CalmInv => ProgressIsShown
  BY DEF CalmInv, ProgressIsShown, Busy, JobOnDisplay, JobOf
<1> QED BY <1>1, Calm, PTL

-----------------------------------------------------------------------------
(* With nothing lost either: what the page shows.                           *)

LEMMA ShownBefore ==
  ASSUME XInv, CalmInv, ShownInv, Unhurried, UNCHANGED faults, hasty' = 0, faults' = 0
  PROVE  \A i \in Slots : Busy(i) => OfPage(request[i])
BY DEF Unhurried, ShownInv

LEMMA ShownWaited ==
  ASSUME XInv, CalmInv, ShownInv, UserActs, UNCHANGED faults, hasty' = 0, faults' = 0
  PROVE  ListShown /\ BalancesShown({})
BY UserWaited DEF ShownInv

LEMMA ShownHandled ==
  ASSUME XInv, CalmInv, hasty' = 0, NEW i \in Slots, Busy(i), Unhurried, NEW q, GoesOn(i, q),
         q # Free => OfPage(q)', q = Free => ListShown' /\ BalancesShown({})'
  PROVE  ShownInv'
<1>1. \A j \in Slots : Busy(j)' => request'[j] = q
  BY LoneSlot, CalmBefore
<1>2. request'[i] = q
  BY SlotChanges DEF XInv, RequestsFit, GoesOn
<1>3. Quiet' => q = Free
  BY <1>2 DEF Quiet, FreeSlots
<1>4. ASSUME NEW j \in Slots, Busy(j)' PROVE OfPage(request[j])'
  <2>1. request'[j] = q /\ q # Free
    BY <1>1, <1>4 DEF Busy
  <2> QED BY <2>1
<1> QED BY <1>3, <1>4 DEF ShownInv

LEMMA ShownSent ==
  ASSUME XInv, CalmInv, hasty' = 0, UserActs, NEW q, Send(q), q # Free, OfPage(q)'
  PROVE  ShownInv'
<1>1. \A i \in Slots : request[i] = Free
  BY UserWaited
<1>2. PICK i \in Slots : request' = [request EXCEPT ![i] = q]
  BY SlotSent DEF XInv, RequestsFit
<1>3. request'[i] = q /\ \A j \in Slots \ {i} : request'[j] = request[j]
  BY <1>2, SlotChanges DEF XInv, RequestsFit
<1>4. ~Quiet'
  BY <1>3 DEF Quiet, FreeSlots
<1>5. ASSUME NEW j \in Slots, Busy(j)' PROVE OfPage(request[j])'
  <2>1. request'[j] = q
    BY <1>1, <1>3, <1>5 DEF Busy
  <2> QED BY <2>1
<1> QED BY <1>4, <1>5 DEF ShownInv

LEMMA OfPageStays ==
  ASSUME UNCHANGED <<merchantId, page, registered, collectors, balances>>, NEW q, OfPage(q)
  PROVE  OfPage(q)'
BY DEF OfPage, JobOf, ListShown, BalancesShown

(* An answer of the extension or the chains: the job is on the same page.   *)
LEMMA AnswersShown ==
  ASSUME XInv, CalmInv, ShownInv, hasty' = 0, faults' = 0, NEW i \in Slots,
         \/ WalletConnects(i) \/ SwitchChain(i) \/ WithdrawalSigned(i)
         \/ \E stage \in {"implement", "deploy"} : OutOfFunds(i, stage)
         \/ TransactionReceipt(i)
  PROVE  ShownInv'
<1>1. UNCHANGED <<merchantId, page, registered, collectors, balances, faults>> /\ Unhurried
  BY DEF WalletConnects, SwitchChain, WithdrawalSigned, OutOfFunds, TransactionReceipt,
         world, server, place, display, Unhurried
<1>2. PICK r : r = request[i]
  OBVIOUS
<1>3. r # Free /\ r.at \in {"wallet", "chain"} /\ \E ok \in BOOLEAN : GoesOn(i, Reply(r, ok))
  BY <1>2 DEF WalletConnects, SwitchChain, WithdrawalSigned, OutOfFunds, TransactionReceipt, InWallet
<1>4. PICK ok \in BOOLEAN : GoesOn(i, Reply(r, ok))
  BY <1>3
<1>5. Busy(i) /\ Fits(r) /\ r \in Jobs /\ JobOf(r) = r
  BY <1>2, <1>3, JobWaits DEF Busy, JobOf
<1>6. r.kind \notin {"list", "balance"} /\ r.stage # "register"
  BY <1>3, <1>5 DEF Fits, JobFits, StageFits, AtFits
<1>7. PICK q : q = Reply(r, ok)
  OBVIOUS
<1>8. q # Free /\ JobOf(q) = r /\ q.at = "page"
  BY <1>5, <1>7, ReplyTyped
<1>9. OfPage(r)
  BY <1>1, <1>2, <1>5, ShownBefore
<1>10. OfPage(q)
  BY <1>3, <1>5, <1>6, <1>8, <1>9 DEF OfPage
<1>11. OfPage(q)'
  BY <1>1, <1>10, OfPageStays
<1> QED BY <1>1, <1>4, <1>5, <1>7, <1>8, <1>11, ShownHandled

LEMMA SendShown ==
  ASSUME XInv, CalmInv, ShownInv, hasty' = 0, faults' = 0, NEW i \in Slots,
         NEW stage \in {"implement", "deploy"}, SendTransaction(i, stage)
  PROVE  ShownInv'
<1>1. UNCHANGED <<merchantId, page, registered, collectors, balances, faults>> /\ Unhurried
  BY DEF SendTransaction, server, place, display
<1>2. PICK r : r = request[i]
  OBVIOUS
<1>3. /\ r # Free /\ r.at = "wallet" /\ r.stage = stage /\ Fits(r) /\ r \in Jobs /\ JobOf(r) = r
      /\ Len(onChain) \in Nat /\ Busy(i)
  BY <1>2, JobWaits, ContractsNumbered DEF SendTransaction, InWallet, XInv, JobOf, Busy
<1>4. PICK n : n = Len(onChain) + 1
  OBVIOUS
<1>5. n \in Nat
  BY <1>3, <1>4
<1>6. PICK q : q = [r EXCEPT !.at = "chain", !.made = n]
  OBVIOUS
<1>7. /\ q \in Jobs /\ q.kind = r.kind /\ q.stage = r.stage /\ q.at = "chain"
      /\ q.page = r.page /\ q.chain = r.chain /\ q.merchant = r.merchant
  BY <1>3, <1>5, <1>6 DEF Jobs
<1>8. GoesOn(i, q)
  BY <1>2, <1>4, <1>6 DEF SendTransaction
<1>9. OfPage(r)
  BY <1>1, <1>2, <1>3, ShownBefore
<1>10. JobOf(q) = q /\ q # Free
  BY <1>7, FreeIsNone DEF JobOf
<1>11. OfPage(q)
  BY <1>3, <1>7, <1>9, <1>10 DEF OfPage
<1>12. OfPage(q)'
  BY <1>1, <1>11, OfPageStays
<1> QED BY <1>1, <1>3, <1>8, <1>10, <1>12, ShownHandled

LEMMA ServeShown ==
  ASSUME XInv, CalmInv, ShownInv, hasty' = 0, faults' = 0, NEW i \in Slots, Serve(i)
  PROVE  ShownInv'
<1>1. UNCHANGED <<merchantId, page, collectors, balances, faults>> /\ Unhurried
  BY DEF Serve, world, place, display
<1>2. PICK r : r = request[i]
  OBVIOUS
<1>3. r # Free /\ r.at = "server" /\ Fits(r) /\ r \in Jobs /\ JobOf(r) = r /\ Busy(i)
  BY <1>2, JobWaits DEF Serve, AtServer, JobOf, Busy
<1>4. OfPage(r)
  BY <1>1, <1>2, <1>3, ShownBefore
<1>5. PICK s : s = Read(r)
  OBVIOUS
<1>6. PICK q : q = Reply(s, Found(r))
  OBVIOUS
<1>7. /\ s \in Jobs /\ s.kind = r.kind /\ s.stage = r.stage /\ s.at = r.at /\ s.page = r.page
      /\ s.merchant = r.merchant /\ s.chain = r.chain /\ Found(r) \in BOOLEAN
  BY <1>3, <1>5, ReadFits
<1>8. q # Free /\ JobOf(q) = s /\ q.at = "page" /\ q.ok = Found(r)
  BY <1>6, <1>7, ReplyTyped
<1>9. GoesOn(i, q)
  BY <1>2, <1>5, <1>6 DEF Serve
<1>10. r.stage # "ask" => Found(r)
  BY DEF Found
<1>11. StageFits(r) /\ AboutFits(r) /\ r.kind \in Kinds
  BY <1>3 DEF Fits, JobFits, Jobs
<1>12. CASE registered' = registered
  <2>1. OfPage(r)'
    BY <1>1, <1>4, <1>12, OfPageStays
  <2>2. ASSUME r.kind \in {"list", "balance"}
        PROVE  q.ok /\ s.list = registered'[merchantId']
    <3>1. r.stage \in {"list", "balance"} /\ r.stage # "ask"
      BY <1>11, <2>2 DEF StageFits
    <3>2. s.list = registered[r.merchant] /\ r.merchant = merchantId
      BY <1>3, <1>4, <1>5, <2>2, <3>1 DEF Read, Jobs, OfPage
    <3> QED BY <1>1, <1>8, <1>10, <1>12, <3>1, <3>2
  <2>3. OfPage(q)'
    <3>1. s.stage = "register" => q.ok
      BY <1>7, <1>8, <1>10
    <3>2. JobOf(q)' = s /\ JobOf(r)' = r
      BY <1>3, <1>8 DEF JobOf
    <3>3. s.kind = "deploy" => page' = "setup" /\ (s.stage # "register" => ListShown')
      BY <1>3, <1>7, <2>1, <3>2 DEF OfPage
    <3>4. /\ s.kind # "factory" => s.merchant = merchantId' /\ s.page = page'
          /\ s.kind = "balance" => ListShown' /\ BalancesShown(s.chain)'
          /\ s.kind \in {"factory", "withdraw"} => ListShown' /\ BalancesShown({})'
      BY <1>3, <1>7, <2>1, <3>2 DEF OfPage
    <3> QED BY <1>7, <1>8, <2>2, <3>1, <3>2, <3>3, <3>4 DEF OfPage
  <2> QED BY <1>1, <1>3, <1>8, <1>9, <2>3, ShownHandled
<1>13. CASE registered' # registered
  <2>1. RegisterCollector(r) \/ DeleteCollector(r)
    BY <1>2, <1>13 DEF Serve, UpsertFactory, ReadCollectors, server
  <2>2. \/ r.kind = "deploy" /\ r.stage = "register"
        \/ r.kind = "remove"
    BY <1>11, <2>1 DEF RegisterCollector, DeleteCollector, StageFits, Kinds
  <2>3. q.ok
    BY <1>8, <1>10, <2>1 DEF RegisterCollector, DeleteCollector
  <2>4. JobOf(q)' = s
    BY <1>8 DEF JobOf
  <2>5. r.merchant = merchantId /\ r.page = page /\ (r.kind = "deploy" => page = "setup")
    BY <1>3, <1>4, <2>2 DEF OfPage
  <2>6. OfPage(q)'
    BY <1>1, <1>7, <1>8, <2>2, <2>3, <2>4, <2>5 DEF OfPage
  <2> QED BY <1>1, <1>3, <1>8, <1>9, <2>6, ShownHandled
<1> QED BY <1>12, <1>13

(* What has arrived is shown; the balances it calls for are asked for.      *)
LEMMA DataLoadedShown ==
  ASSUME XInv, CalmInv, ShownInv, hasty' = 0, faults' = 0, NEW i \in Slots, DataLoaded(i)
  PROVE  ShownInv'
<1>1. PICK a : a = request[i]
  OBVIOUS
<1>2. PICK r : r = a.job
  OBVIOUS
<1>3. /\ Fits(r) /\ r \in Jobs /\ r.kind = "list" /\ r.merchant \in Merchants
      /\ JobOf(a) = r /\ Busy(i) /\ a.at = "page"
      /\ UNCHANGED <<merchantId, page, registered, balances, faults>> /\ Unhurried
  BY <1>1, <1>2, AnswerHere
     DEF DataLoaded, Fits, JobFits, AboutFits, Busy, Handled, server, place
<1>4. OfPage(a)
  BY <1>1, <1>3, ShownBefore
<1>5. a.ok /\ r.list = registered[merchantId] /\ r.merchant = merchantId /\ r.page = page
  BY <1>3, <1>4 DEF OfPage
<1>6. collectors' = r.list /\ Here(r)
  BY <1>1, <1>2, <1>5 DEF DataLoaded, Here
<1>7. ListShown'
  BY <1>3, <1>5, <1>6 DEF ListShown
<1>8. PICK cs : cs = {c \in Chains : r.list[c] # 0}
  OBVIOUS
<1>9. BalancesShown(cs)' /\ (page # "balances" \/ cs = {} => BalancesShown({})')
  BY <1>3, <1>6, <1>8 DEF BalancesShown
<1>10. CASE page = "balances" /\ cs # {}
  <2>1. PICK q : q = FetchBalance(r.merchant, cs, "server")
    OBVIOUS
  <2>2. GoesOn(i, q)
    BY <1>1, <1>2, <1>5, <1>6, <1>8, <1>10, <2>1 DEF DataLoaded
  <2>3. q = [kind |-> "balance", stage |-> "balance", at |-> "server", page |-> page,
             merchant |-> r.merchant, chain |-> cs, made |-> 0, from |-> 0, list |-> Nothing]
    BY <2>1 DEF FetchBalance, Job
  <2>4. /\ q.kind = "balance" /\ q.at = "server" /\ q.page = page /\ q.merchant = r.merchant
        /\ q.chain = cs /\ JobOf(q) = q /\ q # Free
    BY <2>3 DEF JobOf, Free
  <2>5. OfPage(q)'
    BY <1>3, <1>5, <1>7, <1>9, <2>4 DEF OfPage, JobOf
  <2> QED BY <1>3, <2>2, <2>4, <2>5, ShownHandled
<1>11. CASE ~(page = "balances" /\ cs # {})
  <2>1. GoesOn(i, Free)
    BY <1>1, <1>2, <1>8, <1>11 DEF DataLoaded, Ends, GoesOn
  <2> QED BY <1>3, <1>7, <1>9, <1>11, <2>1, ShownHandled
<1> QED BY <1>10, <1>11

LEMMA BalanceFetchedShown ==
  ASSUME XInv, CalmInv, ShownInv, hasty' = 0, faults' = 0, NEW i \in Slots, BalanceFetched(i)
  PROVE  ShownInv'
<1>1. PICK a : a = request[i]
  OBVIOUS
<1>2. PICK r : r = a.job
  OBVIOUS
<1>3. /\ Fits(r) /\ r \in Jobs /\ r.kind = "balance" /\ r.at = "server"
      /\ JobOf(a) = r /\ Busy(i) /\ a.at = "page"
      /\ UNCHANGED <<merchantId, page, registered, collectors, faults>> /\ Unhurried
  BY <1>1, <1>2, AnswerHere
     DEF BalanceFetched, Fits, JobFits, StageFits, AtFits, Busy, Handled, server, place
<1>4. OfPage(a)
  BY <1>1, <1>3, ShownBefore
<1>5. /\ a.ok /\ r.list = collectors /\ r.merchant = merchantId /\ r.page = page /\ Here(r)
      /\ ListShown /\ BalancesShown(r.chain)
  BY <1>3, <1>4 DEF OfPage, ListShown, Here
<1>6. PICK c \in r.chain :
        /\ balances' = IF a.ok /\ Here(r) /\ r.list[c] # 0
                       THEN [balances EXCEPT ![c] = r.list[c]] ELSE balances
        /\ IF r.chain = {c} THEN Ends(i)
           ELSE GoesOn(i, [r EXCEPT !.chain = @ \ {c}, !.list = Nothing])
  BY <1>1, <1>2 DEF BalanceFetched
<1>7. c \in Chains /\ balances \in [Chains -> Nat]
  BY <1>3, <1>6 DEF Fits, JobFits, AboutFits, XInv, PageTyped
<1>8. ListShown'
  BY <1>3, <1>5 DEF ListShown
<1>9. PICK cs : cs = r.chain \ {c}
  OBVIOUS
<1>10. BalancesShown(cs)'
  <2> SUFFICES ASSUME page' = "balances", NEW d \in Chains \ cs, collectors'[d] # 0
               PROVE  balances'[d] = collectors'[d]
    BY DEF BalancesShown
  <2>1. page = "balances" /\ collectors' = collectors
    BY <1>3
  <2>2. CASE d = c
    BY <1>5, <1>6, <1>7, <2>1, <2>2
  <2>3. CASE d # c
    <3>1. d \notin r.chain
      BY <1>9, <2>3
    <3>2. balances[d] = collectors[d]
      BY <1>5, <2>1, <3>1 DEF BalancesShown
    <3>3. balances'[d] = balances[d]
      BY <1>6, <1>7, <2>3
    <3> QED BY <2>1, <3>2, <3>3
  <2> QED BY <2>2, <2>3
<1>11. CASE r.chain = {c}
  <2>1. GoesOn(i, Free) /\ cs = {}
    BY <1>6, <1>9, <1>11 DEF Ends, GoesOn
  <2> QED BY <1>3, <1>8, <1>10, <2>1, ShownHandled
<1>12. CASE r.chain # {c}
  <2>1. PICK q : q = [r EXCEPT !.chain = cs, !.list = Nothing]
    OBVIOUS
  <2>2. GoesOn(i, q)
    BY <1>6, <1>9, <1>12, <2>1
  <2>3. /\ q.kind = "balance" /\ q.at = "server" /\ q.page = page /\ q.merchant = r.merchant
        /\ q.chain = cs
    BY <1>3, <1>5, <2>1 DEF Jobs
  <2>4. JobOf(q) = q /\ q # Free
    BY <2>3 DEF JobOf, Free
  <2>5. OfPage(q)'
    BY <1>3, <1>5, <1>8, <1>10, <2>3, <2>4 DEF OfPage, JobOf
  <2> QED BY <1>3, <2>2, <2>4, <2>5, ShownHandled
<1> QED BY <1>11, <1>12

LEMMA LoadShown ==
  ASSUME NEW m, m = merchantId', NEW q, q = loadData(m), page' = page
  PROVE  q # Free /\ OfPage(q)'
<1>1. q = [kind |-> "list", stage |-> "list", at |-> "server", page |-> page, merchant |-> m,
           chain |-> None, made |-> 0, from |-> 0, list |-> Nothing]
  BY DEF loadData, Job
<1>2. q.kind = "list" /\ q.at = "server" /\ q.page = page /\ q.merchant = m /\ JobOf(q) = q
  BY <1>1 DEF JobOf
<1> QED BY <1>2 DEF OfPage, JobOf, Free

LEMMA DeployShown ==
  ASSUME XInv, CalmInv, ShownInv, hasty' = 0, faults' = 0, NEW i \in Slots,
         DeployGoesOn(i) \/ DeployDone(i) \/ DeployFailed(i)
  PROVE  ShownInv'
<1>1. PICK a : a = request[i]
  OBVIOUS
<1>2. PICK r : r = a.job
  OBVIOUS
<1>3. PICK kind \in {"deploy", "factory"} : Arrived(i, kind)
  BY DEF DeployGoesOn, DeployDone, DeployFailed
<1>4. /\ a.at = "page" /\ ReplyFits(a) /\ Fits(r) /\ r \in Jobs /\ r.kind \in {"deploy", "factory"}
      /\ JobOf(a) = r /\ Busy(i)
  BY <1>1, <1>2, <1>3, AnswerHere DEF Busy
<1>5. UNCHANGED <<merchantId, page, registered, collectors, balances, faults>> /\ Unhurried
  BY DEF DeployGoesOn, DeployDone, DeployFailed, Handled, server, place
<1>6. OfPage(a)
  BY <1>1, <1>4, <1>5, ShownBefore
<1>7. ASSUME r.kind = "factory" \/ r.stage # "register" \/ ~a.ok
      PROVE  /\ ListShown /\ BalancesShown({}) /\ ListShown' /\ BalancesShown({})'
  <2>1. ListShown /\ BalancesShown({})
    BY <1>4, <1>6, <1>7 DEF OfPage, BalancesShown
  <2> QED BY <1>5, <2>1 DEF ListShown, BalancesShown
<1>8. CASE DeployGoesOn(i)
  <2>1. PICK s : s = Implemented(r)
    OBVIOUS
  <2>2. PICK q : q = Follows(s)
    OBVIOUS
  <2>3. a.ok /\ r.stage \notin {"register", "save"} /\ GoesOn(i, q)
    BY <1>1, <1>2, <1>8, <2>1, <2>2 DEF DeployGoesOn
  <2>4. r.stage \in {"implement", "deploy"} => r.at = "chain"
    BY <1>2, <1>4, <2>3 DEF ReplyFits
  <2>5. q \in Jobs /\ q.kind = r.kind /\ q.page = r.page /\ q.merchant = r.merchant
    BY <1>4, <2>1, <2>2, <2>3, <2>4, FollowsFits
  <2>6. JobOf(q) = q /\ q # Free /\ q.at # "page"
    BY <2>5, FreeIsNone DEF JobOf, Jobs
  <2>7. OfPage(q)'
    BY <1>4, <1>5, <1>6, <1>7, <2>3, <2>5, <2>6 DEF OfPage, JobOf
  <2> QED BY <1>4, <1>5, <2>3, <2>6, <2>7, ShownHandled
<1>9. CASE DeployDone(i)
  <2>1. CASE r.kind = "deploy"
    <3>1. r.merchant = merchantId /\ Here(r)
      BY <1>4, <1>6, <2>1 DEF OfPage, Here
    <3>2. PICK q : q = loadData(r.merchant)
      OBVIOUS
    <3>3. GoesOn(i, q)
      BY <1>1, <1>2, <1>9, <2>1, <3>1, <3>2 DEF DeployDone
    <3>4. q # Free /\ OfPage(q)'
      BY <1>5, <3>1, <3>2, LoadShown
    <3> QED BY <1>4, <1>5, <3>3, <3>4, ShownHandled
  <2>2. CASE r.kind = "factory"
    <3>1. GoesOn(i, Free)
      BY <1>1, <1>2, <1>9, <2>2 DEF DeployDone, Ends, GoesOn
    <3> QED BY <1>4, <1>5, <1>7, <2>2, <3>1, ShownHandled
  <2> QED BY <1>4, <2>1, <2>2
<1>10. CASE DeployFailed(i)
  <2>1. GoesOn(i, Free) /\ ~a.ok
    BY <1>1, <1>10 DEF DeployFailed, Ends, GoesOn
  <2> QED BY <1>4, <1>5, <1>7, <2>1, ShownHandled
<1> QED BY <1>8, <1>9, <1>10

LEMMA OthersShown ==
  ASSUME XInv, CalmInv, ShownInv, hasty' = 0, faults' = 0, NEW i \in Slots,
         DeleteAnswered(i) \/ WithdrawGoesOn(i)
  PROVE  ShownInv'
<1>1. PICK a : a = request[i]
  OBVIOUS
<1>2. PICK r : r = a.job
  OBVIOUS
<1>3. PICK kind \in {"remove", "withdraw"} : Arrived(i, kind)
                                             /\ (kind = "withdraw" => WithdrawGoesOn(i))
                                             /\ (kind = "remove" => DeleteAnswered(i))
  BY DEF DeleteAnswered, WithdrawGoesOn
<1>4. /\ a.at = "page" /\ ReplyFits(a) /\ Fits(r) /\ r \in Jobs /\ r.kind = kind
      /\ Busy(i) /\ JobOf(a) = r
  BY <1>1, <1>2, <1>3, AnswerHere DEF Busy
<1>5. UNCHANGED <<merchantId, page, registered, collectors, balances, faults>> /\ Unhurried
  BY DEF DeleteAnswered, WithdrawGoesOn, Handled, server, place, display
<1>6. OfPage(a)
  BY <1>1, <1>4, <1>5, ShownBefore
<1>7. r.merchant = merchantId /\ r.page = page /\ Here(r)
  BY <1>4, <1>6 DEF OfPage, Here
<1>8. CASE kind = "remove"
  <2>1. PICK q : q = loadData(r.merchant)
    OBVIOUS
  <2>2. GoesOn(i, q)
    BY <1>1, <1>2, <1>3, <1>7, <1>8, <2>1 DEF DeleteAnswered
  <2>3. q # Free /\ OfPage(q)'
    BY <1>5, <1>7, <2>1, LoadShown
  <2> QED BY <1>4, <1>5, <2>2, <2>3, ShownHandled
<1>9. CASE kind = "withdraw"
  <2>1. ListShown /\ BalancesShown({})
    BY <1>4, <1>6, <1>9 DEF OfPage
  <2>2. /\ ListShown' /\ BalancesShown({})' /\ \A cs : BalancesShown(cs)'
    BY <1>5, <2>1 DEF ListShown, BalancesShown
  <2>3. CASE ~a.ok
    <3>1. GoesOn(i, Free)
      BY <1>1, <1>3, <1>9, <2>3 DEF WithdrawGoesOn, Ends, GoesOn
    <3> QED BY <1>4, <1>5, <2>2, <3>1, ShownHandled
  <2>4. CASE a.ok /\ r.stage = "withdraw"
    <3>1. PICK q : q = [FetchBalance(r.merchant, {r.chain}, "server") EXCEPT !.page = r.page]
      OBVIOUS
    <3>2. GoesOn(i, q)
      BY <1>1, <1>2, <1>3, <1>9, <2>4, <3>1 DEF WithdrawGoesOn
    <3>3. q = [kind |-> "balance", stage |-> "balance", at |-> "server", page |-> r.page,
               merchant |-> r.merchant, chain |-> {r.chain}, made |-> 0, from |-> 0, list |-> Nothing]
      BY <3>1 DEF FetchBalance, Job
    <3>4. /\ q.kind = "balance" /\ q.at = "server" /\ q.page = r.page /\ q.merchant = r.merchant
          /\ JobOf(q) = q /\ q # Free
      BY <3>3 DEF JobOf, Free
    <3>5. OfPage(q)'
      BY <1>5, <1>7, <2>2, <3>4 DEF OfPage, JobOf
    <3> QED BY <1>4, <1>5, <3>2, <3>4, <3>5, ShownHandled
  <2>5. CASE a.ok /\ r.stage # "withdraw"
    <3>1. PICK q : q = Follows(r)
      OBVIOUS
    <3>2. GoesOn(i, q)
      BY <1>1, <1>2, <1>3, <1>9, <2>5, <3>1 DEF WithdrawGoesOn
    <3>3. r.stage \in {"connect", "switch"}
      BY <1>4, <1>9, <2>5 DEF Fits, JobFits, StageFits
    <3>4. PICK s : s = Implemented(r)
      OBVIOUS
    <3>5. s = r
      BY <3>3, <3>4 DEF Implemented
    <3>6. q \in Jobs /\ q.kind = "withdraw" /\ q.page = r.page /\ q.merchant = r.merchant
      BY <1>4, <1>9, <3>1, <3>3, <3>4, <3>5, FollowsFits
    <3>7. JobOf(q) = q /\ q # Free /\ q.at # "page"
      BY <3>6, FreeIsNone DEF JobOf, Jobs
    <3>8. OfPage(q)'
      BY <1>5, <1>7, <2>2, <3>6, <3>7 DEF OfPage, JobOf
    <3> QED BY <1>4, <1>5, <3>2, <3>7, <3>8, ShownHandled
  <2> QED BY <2>3, <2>4, <2>5
<1> QED BY <1>8, <1>9

LEMMA AsBefore ==
  ASSUME XInv, CalmInv, ShownInv, Unhurried, hasty' = 0, faults' = 0,
         UNCHANGED <<merchantId, page, registered, collectors, balances, faults, request>>
  PROVE  ShownInv'
<1>1. ASSUME NEW j \in Slots, Busy(j)' PROVE OfPage(request[j])'
  <2>1. PICK q : q = request[j]
    OBVIOUS
  <2>2. OfPage(q)
    BY <1>1, <2>1, ShownBefore DEF Busy
  <2>3. OfPage(q)'
    BY <2>2, OfPageStays
  <2> QED BY <2>1, <2>3
<1>2. Quiet' => Quiet
  BY DEF Quiet, FreeSlots
<1>3. Quiet => ListShown /\ BalancesShown({})
  BY DEF ShownInv, Unhurried
<1> QED BY <1>1, <1>2, <1>3 DEF ShownInv, ListShown, BalancesShown

(* What the user who waits starts, from a page that shows what there is.    *)
LEMMA BeginShown ==
  ASSUME XInv, CalmInv, ShownInv, hasty' = 0, faults' = 0,
         \/ \E c \in Chains : handleDeploy(c) \/ handleDelete(c) \/ handleWithdraw(c)
         \/ \E impl \in 0..MaxContracts : handleDeployTron(impl)
  PROVE  ShownInv'
<1>1. UNCHANGED <<merchantId, page, registered, collectors, balances, faults>> /\ UserActs
  BY DEF handleDeploy, handleDelete, handleWithdraw, handleDeployTron, server, place, display
<1>2. ListShown /\ BalancesShown({})
  BY <1>1, ShownWaited
<1>3. ListShown' /\ BalancesShown({})'
  BY <1>1, <1>2 DEF ListShown, BalancesShown
<1>4. ASSUME NEW q, Send(q), q.at \in {"wallet", "server"},
             q.kind \in {"deploy", "remove", "withdraw", "factory"},
             q.kind # "factory" => q.merchant = merchantId /\ q.page = page,
             q.kind = "deploy" => page = "setup"
      PROVE  ShownInv'
  <2>1. JobOf(q) = q /\ q # Free /\ q.at # "page"
    BY <1>4 DEF JobOf, Free
  <2>2. OfPage(q)'
    BY <1>1, <1>3, <1>4, <2>1 DEF OfPage, JobOf
  <2> QED BY <1>1, <1>4, <2>1, <2>2, ShownSent
<1>5. CASE \E c \in Chains : handleDeploy(c)
  <2>1. PICK c \in Chains : handleDeploy(c)
    BY <1>5
  <2>2. PICK q : q = Job("deploy", "connect", "wallet", merchantId, c)
    OBVIOUS
  <2>3. Send(q) /\ page = "setup"
    BY <2>1, <2>2 DEF handleDeploy, OnSetup
  <2>4. q.kind = "deploy" /\ q.at = "wallet" /\ q.merchant = merchantId /\ q.page = page
    BY <2>2 DEF Job
  <2> QED BY <1>4, <2>3, <2>4
<1>6. CASE \E c \in Chains : handleDelete(c)
  <2>1. PICK c \in Chains : handleDelete(c)
    BY <1>6
  <2>2. PICK q : q = Job("remove", "delete", "server", merchantId, c)
    OBVIOUS
  <2>3. Send(q)
    BY <2>1, <2>2 DEF handleDelete
  <2>4. q.kind = "remove" /\ q.at = "server" /\ q.merchant = merchantId /\ q.page = page
    BY <2>2 DEF Job
  <2> QED BY <1>4, <2>3, <2>4
<1>7. CASE \E c \in Chains : handleWithdraw(c)
  <2>1. PICK c \in Chains : handleWithdraw(c)
    BY <1>7
  <2>2. PICK q : q = [Job("withdraw", "connect", "wallet", merchantId, c) EXCEPT !.from = collectors[c]]
    OBVIOUS
  <2>3. Send(q)
    BY <2>1, <2>2 DEF handleWithdraw
  <2>4. q.kind = "withdraw" /\ q.at = "wallet" /\ q.merchant = merchantId /\ q.page = page
    BY <2>2 DEF Job
  <2> QED BY <1>4, <2>3, <2>4
<1>8. CASE \E impl \in 0..MaxContracts : handleDeployTron(impl)
  <2>1. PICK impl \in 0..MaxContracts : handleDeployTron(impl)
    BY <1>8
  <2>2. PICK q : q = [Job("factory", "connect", "wallet", None, Tron) EXCEPT !.from = impl]
    OBVIOUS
  <2>3. Send(q)
    BY <2>1, <2>2 DEF handleDeployTron
  <2>4. q.kind = "factory" /\ q.at = "wallet"
    BY <2>2 DEF Job
  <2> QED BY <1>4, <2>3, <2>4
<1> QED BY <1>5, <1>6, <1>7, <1>8

LEMMA PlacesShown ==
  ASSUME XInv, CalmInv, ShownInv, hasty' = 0, faults' = 0,
         \/ \E c \in EvmChains : PickChain(c)
         \/ \E m \in Merchants : SelectMerchant(m)
         \/ \E p \in Panels : CloseModal(p)
         \/ \E p \in {"setup", "balances"} : GoTo(p)
  PROVE  ShownInv'
<1>1. UNCHANGED <<registered, faults>> /\ UserActs
  BY DEF PickChain, SelectMerchant, CloseModal, GoTo, server
<1>2. hasty = 0 /\ \A i \in Slots : request[i] = Free
  BY <1>1, UserWaited
<1>3. ASSUME UNCHANGED <<merchantId, page, collectors, balances, request>>
      PROVE  ShownInv'
  BY <1>1, <1>2, <1>3, AsBefore DEF Unhurried
<1>4. CASE \E c \in EvmChains : PickChain(c)
  BY <1>3, <1>4 DEF PickChain, place, display
<1>5. CASE \E p \in Panels : CloseModal(p)
  BY <1>3, <1>5 DEF CloseModal, place
<1>6. CASE \E m \in Merchants : SelectMerchant(m)
  <2>1. PICK m \in Merchants : SelectMerchant(m)
    BY <1>6
  <2>2. PICK q : q = loadData(m)
    OBVIOUS
  <2>3. Send(q) /\ merchantId' = m /\ page' = page
    BY <2>1, <2>2 DEF SelectMerchant
  <2>4. q # Free /\ OfPage(q)'
    BY <2>2, <2>3, LoadShown
  <2> QED BY <1>1, <2>3, <2>4, ShownSent
<1>7. CASE \E p \in {"setup", "balances"} : GoTo(p)
  <2>1. PICK p \in {"setup", "balances"} : GoTo(p)
    BY <1>7
  <2>2. PICK q : q = [loadData(merchantId) EXCEPT !.page = p]
    OBVIOUS
  <2>3. PICK i \in Slots : request' = [j \in Slots |-> IF i = j THEN q ELSE Left(request[j])]
    BY <2>1, <2>2 DEF GoTo, FreeSlots
  <2>4. q = [kind |-> "list", stage |-> "list", at |-> "server", page |-> p,
             merchant |-> merchantId, chain |-> None, made |-> 0, from |-> 0, list |-> Nothing]
    BY <2>2 DEF loadData, Job
  <2>5. q.kind = "list" /\ q.at = "server" /\ q.page = p /\ q.merchant = merchantId
        /\ JobOf(q) = q /\ q # Free
    BY <2>4 DEF JobOf, Free
  <2>6. merchantId' = merchantId /\ page' = p
    BY <2>1 DEF GoTo
  <2>7. OfPage(q)'
    BY <2>5, <2>6 DEF OfPage, JobOf
  <2>8. ~Quiet'
    BY <2>3, <2>5 DEF Quiet, FreeSlots
  <2>9. ASSUME NEW j \in Slots, Busy(j)' PROVE OfPage(request[j])'
    <3>1. request'[j] = q
      BY <1>2, <2>3, <2>9 DEF Busy, Left
    <3> QED BY <2>7, <3>1
  <2> QED BY <2>8, <2>9 DEF ShownInv
<1> QED BY <1>4, <1>5, <1>6, <1>7

LEMMA StartShown ==
  ASSUME Init
  PROVE  ShownInv
<1>1. PICK q : q = loadData(merchantId)
  OBVIOUS
<1>2. q.kind = "list" /\ q.at = "server" /\ q.page = page /\ q.merchant = merchantId
      /\ JobOf(q) = q /\ q # Free
  BY <1>1 DEF loadData, Job, JobOf, Free
<1>3. OfPage(q)
  BY <1>2 DEF OfPage
<1>4. 1 \in Slots
  BY CollectorsAssumption DEF Slots
<1>5. \A i \in Slots : request[i] = IF i = 1 THEN q ELSE Free
  BY <1>1 DEF Init
<1>6. ~Quiet
  BY <1>2, <1>4, <1>5 DEF Quiet, FreeSlots
<1> QED BY <1>3, <1>5, <1>6 DEF ShownInv, Busy

LEMMA StepShown ==
  ASSUME XInv, CalmInv, ShownInv, [Next]_vars
  PROVE  ShownInv'
<1> SUFFICES ASSUME hasty' = 0, faults' = 0 PROVE ShownInv'
  BY DEF ShownInv
<1>1. CASE UNCHANGED vars
  BY <1>1, AsBefore DEF vars, Unhurried
<1>2. CASE UserDoes
  BY <1>2, BeginShown, PlacesShown DEF UserDoes
<1>3. ASSUME NEW i \in Slots, Goes(i) \/ Fails(i) \/ AnswerIsLost(i)
      PROVE  ShownInv'
  <2>1. CASE WalletAnswers(i) \/ TransactionReceipt(i)
    BY <2>1, AnswersShown, SendShown DEF WalletAnswers
  <2>2. CASE Serve(i)
    BY <2>2, ServeShown
  <2>3. CASE Continues(i)
    BY <2>3, DataLoadedShown, BalanceFetchedShown, DeployShown, OthersShown DEF Continues
  <2>4. CASE Fails(i) \/ AnswerIsLost(i)
    <3>1. faults' = faults + 1
      BY <2>4 DEF Fails, AnswerIsLost
    <3>2. faults \in Nat
      BY DEF XInv, ActsTyped
    <3> QED BY <3>1, <3>2
  <2> QED BY <1>3, <2>1, <2>2, <2>3, <2>4 DEF Goes
<1>4. CASE \E p \in Panels : TimerCloses(p)
  BY <1>4, AsBefore DEF TimerCloses, Handled, server, place
<1> QED BY <1>1, <1>2, <1>3, <1>4 DEF Next

(* When nothing was lost and everything is answered, a user who waited sees *)
(* the collectors the merchant has and the balance of each of them.         *)
THEOREM CardsShowTheServer == Spec => []ShownIsRegistered
<1>1. ShownInv => ShownIsRegistered
  BY DEF ShownInv, ShownIsRegistered, Settled, ListShown, BalancesShown
<1> QED BY <1>1, StartTyped, StepTyped, StartCalm, StepCalm, StartShown, StepShown, PTL DEF Spec
=============================================================================
