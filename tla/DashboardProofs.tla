-------------------------- MODULE DashboardProofs --------------------------
(* For any merchants, wallets, lists and requests in flight: the types of    *)
(* the dashboard's pages; that what a page shows is true of the server and   *)
(* of the merchant that is chosen; that a settings form and a wallet that    *)
(* was kept are not mixed up with another's; that no list skips or repeats   *)
(* a row.  The pages are proved about together because they share the slots  *)
(* of DashboardTab and the lemmas about them.                               *)
EXTENDS DashboardInvariants, FiniteSetsExt, SequenceTheorems, FiniteSetTheorems,
        WellFoundedInduction, TLAPS

-----------------------------------------------------------------------------
(* Slots, and the least and greatest of a set of numbers.                    *)

(* A slot is given another request.                                         *)
LEMMA SlotChanges ==
  ASSUME DOMAIN request = Slots, NEW i \in Slots, NEW q,
         request' = [request EXCEPT ![i] = q]
  PROVE  DOMAIN request' = Slots /\ request'[i] = q /\ \A j \in Slots \ {i} : request'[j] = request[j]
OBVIOUS

(* A request is sent in a slot that was free.                               *)
LEMMA SlotSent ==
  ASSUME DOMAIN request = Slots, NEW q, Send(q)
  PROVE  \E i \in Slots : request[i] = Free /\ request' = [request EXCEPT ![i] = q]
BY DEF Send, FreeSlots

Below == {p \in Nat \X Nat : p[1] < p[2]}

(* The order of the numbers is well founded.                                *)
LEMMA BelowIsWellFounded == IsWellFoundedOn(Below, Nat)
BY NatLessThanWellFounded, Zenon DEF OpToRel, Below

(* A set of numbers has a least one.                                        *)
LEMMA LeastOf ==
  ASSUME NEW S, S \subseteq Nat, S # {}
  PROVE  \E x \in S : \A y \in S : x <= y
<1>1. PICK x \in S : \A y \in S : ~(<<y, x>> \in Below)
  BY BelowIsWellFounded, WFMin
<1>2. ASSUME NEW y \in S PROVE x <= y
  <2>1. x \in Nat /\ y \in Nat
    OBVIOUS
  <2>2. <<y, x>> \in Below <=> y < x
    BY <2>1 DEF Below
  <2> QED BY <2>1, <2>2, <1>1
<1> QED BY <1>2

(* A bounded set of integers has a greatest one, which Max is.              *)
LEMMA GreatestOf ==
  ASSUME NEW b \in Nat, NEW S, S \subseteq -1..b, S # {}
  PROVE  Max(S) \in S /\ \A x \in S : Max(S) >= x
<1> DEFINE T == {b - x : x \in S}
<1>1. T \subseteq Nat /\ T # {}
  <2>1. \A x \in S : x \in -1..b
    OBVIOUS
  <2>2. PICK x \in S : TRUE
    OBVIOUS
  <2>3. b - x \in T
    OBVIOUS
  <2> QED BY <2>1, <2>3
<1> HIDE DEF T
<1>2. PICK t \in T : \A u \in T : t <= u
  BY <1>1, LeastOf
<1> USE DEF T
<1>3. PICK x \in S : t = b - x
  BY <1>2
<1>4. \A y \in S : b - y \in T
  OBVIOUS
<1>4a. \A y \in S : y \in -1..b
  OBVIOUS
<1>5. \A y \in S : x >= y
  BY <1>2, <1>3, <1>4, <1>4a
<1> QED BY <1>5 DEF Max

-----------------------------------------------------------------------------
(* Importing a wallet (WalletSetup).                                         *)

(* An address is derived at the next index, and the wallets stay what they were. *)
SameWallets ==
  /\ made' \in Seq(WalletRows) /\ Len(made') = Len(made)
  /\ \A v \in Made : /\ made'[v].live = made[v].live /\ made'[v].merchant = made[v].merchant

(* The wallets that were made, by number.                                   *)
LEMMA MadeNumbers ==
  ASSUME WalletsTyped
  PROVE  /\ Made = 1..Len(made) /\ Len(made) \in Nat /\ MaxWallets \in Nat
         /\ Made \subseteq Numbers \ {0}
         /\ \A w \in Made : made[w] \in WalletRows
BY WalletSetupAssumption DEF WalletsTyped, Made, Numbers

(* The next index of a wallet is within one of the bound.                   *)
LEMMA NextIndexTyped ==
  ASSUME WalletsTyped, NEW w \in Made, made[w].live
  PROVE  NextIndex(w) \in 0..(MaxIndex + 1)
<1> DEFINE S == {made[v].last : v \in {u \in Made : made[u].live /\ made[u].key = made[w].key}}
<1>1. MaxIndex \in Nat
  BY WalletSetupAssumption
<1>2. \A v \in Made : made[v].last \in -1..MaxIndex
  BY MadeNumbers DEF WalletRows
<1>3. S \subseteq -1..MaxIndex /\ S # {}
  BY <1>2
<1> HIDE DEF S
<1>4. Max(S) \in -1..MaxIndex
  BY <1>1, <1>3, GreatestOf
<1>5. 1 + Max(S) \in 0..(MaxIndex + 1)
  BY <1>1, <1>4
<1> QED BY <1>5 DEF NextIndex, S

(* Deriving an address leaves the wallets what they are.                    *)
LEMMA DerivedTyped ==
  ASSUME WalletsTyped, NEW w \in Made, made[w].live, NextIndex(w) <= MaxIndex, made' = Derived(w)
  PROVE  SameWallets
<1>1. PICK n \in 0..MaxIndex : n = NextIndex(w)
  BY NextIndexTyped, WalletSetupAssumption
<1>2. made' = [made EXCEPT ![w].last = n, ![w].first = IF @ = -1 THEN n ELSE @]
  BY <1>1 DEF Derived
<1>a. PICK old \in WalletRows : old = made[w]
  BY MadeNumbers
<1>b. PICK row : row = [old EXCEPT !.last = n, !.first = IF @ = -1 THEN n ELSE @]
  OBVIOUS
<1>3. row \in WalletRows /\ row.live = old.live /\ row.merchant = old.merchant
  <2>1. n \in -1..MaxIndex
    BY WalletSetupAssumption
  <2> QED BY <1>b, <2>1 DEF WalletRows
<1>4. made' = [made EXCEPT ![w] = row]
  BY <1>2, <1>a, <1>b
<1>5. made' \in Seq(WalletRows) /\ Len(made') = Len(made)
  BY <1>3, <1>4, MadeNumbers DEF WalletsTyped
<1>6. \A v \in Made : made'[v] = IF v = w THEN row ELSE made[v]
  BY <1>4 DEF Made
<1> QED BY <1>3, <1>5, <1>6, <1>a DEF SameWallets

-----------------------------------------------------------------------------
(* The handlers: their requests and answers are about wallets that are there. *)
WalletsGrow == WalletsTyped' /\ Len(made) <= Len(made')
ToldGrows == \A w \in Made : told[w] # "nothing" => told'[w] # "nothing"
JobsFit == ImportJobsFit /\ OneImport

(* A free slot holds no request of the import.                              *)
LEMMA FreeIsNoJob ==
  Free.kind = "none" /\ "none" \notin ImportKinds /\ Free \notin ImportJobs
BY DEF Free, ImportKinds, ImportJobs

(* A request stays right while wallets are only added or dropped.           *)
LEMMA JobStays ==
  ASSUME WalletInv, WalletsGrow, ToldGrows, NEW r, ImportJobFits(r)
  PROVE  ImportJobFits(r)'
<1>1. Made \subseteq Made' /\ 0..Len(made) \subseteq 0..Len(made')
  <2>1. WalletsTyped /\ WalletsTyped'
    BY DEF WalletInv, WalletsGrow
  <2>2. Made = 1..Len(made) /\ Made' = 1..Len(made') /\ Len(made) \in Nat /\ Len(made') \in Nat
    BY <2>1 DEF WalletsTyped, Made
  <2> QED BY <2>2 DEF WalletsGrow
<1>2. r \in ImportJobs /\ StepFits(r) /\ WalletFits(r) /\ AnswerFits(r)
  BY DEF ImportJobFits
<1>3. StepFits(r)'
  BY <1>2 DEF StepFits
<1>4. WalletFits(r)'
  BY <1>1, <1>2 DEF WalletFits, ToldGrows
<1>5. AnswerFits(r)'
  BY <1>1, <1>2 DEF AnswerFits
<1> QED BY <1>2, <1>3, <1>4, <1>5 DEF ImportJobFits

(* One request goes on, and there is still one import at most.              *)
LEMMA JobsProceed ==
  ASSUME WalletInv, WalletsGrow, ToldGrows, NEW i \in Slots, NEW q, GoesOn(i, q),
         q # Free => ImportJobFits(q)', q.kind = "import" => isSubmitting',
         isSubmitting' = isSubmitting \/ Importing(i) \/ q.kind = "import",
         q.kind = "import" => \A j \in Slots : Importing(j) => i = j
  PROVE  JobsFit'
<1>1. /\ DOMAIN request' = Slots /\ request'[i] = q
      /\ \A j \in Slots \ {i} : request'[j] = request[j]
  BY SlotChanges DEF WalletInv, ImportJobsFit, GoesOn
<1>2. ASSUME NEW j \in Slots \ {i}, request[j] # Free PROVE ImportJobFits(request[j])'
  <2>1. PICK r : r = request[j]
    OBVIOUS
  <2>2. ImportJobFits(r)'
    BY <1>2, <2>1, JobStays DEF WalletInv, ImportJobsFit
  <2> QED BY <2>1, <2>2, <1>1 DEF ImportJobFits, StepFits, WalletFits, AnswerFits
<1>3. ImportJobsFit'
  BY <1>1, <1>2 DEF ImportJobsFit
<1>4. \A j, k \in Slots : Importing(j) /\ Importing(k) => j = k
  BY DEF WalletInv, OneImport
<1>5. \A j \in Slots : Importing(j)' => Importing(j) \/ (j = i /\ q.kind = "import")
  BY <1>1 DEF Importing
<1>6. \A j, k \in Slots : Importing(j)' /\ Importing(k)' => j = k
  BY <1>1, <1>4 DEF Importing
<1>7. \A j \in Slots : Importing(j)' => isSubmitting'
  <2>1. CASE q.kind = "import"
    BY <2>1
  <2>2. CASE q.kind # "import"
    BY <1>1, <1>4, <2>2 DEF Importing, WalletInv, OneImport
  <2> QED BY <2>1, <2>2
<1> QED BY <1>3, <1>6, <1>7 DEF JobsFit, OneImport

(* No request changes.                                                      *)
LEMMA JobsIfNone ==
  ASSUME WalletInv, WalletsGrow, ToldGrows, UNCHANGED <<request, isSubmitting>>
  PROVE  JobsFit'
<1>1. ASSUME NEW j \in Slots, request[j] # Free PROVE ImportJobFits(request[j])'
  <2>1. PICK r : r = request[j]
    OBVIOUS
  <2>2. ImportJobFits(r)'
    BY <1>1, <2>1, JobStays DEF WalletInv, ImportJobsFit
  <2> QED BY <2>1, <2>2 DEF ImportJobFits, StepFits, WalletFits, AnswerFits
<1>2. ImportJobsFit'
  BY <1>1 DEF WalletInv, ImportJobsFit
<1>3. OneImport'
  BY DEF WalletInv, OneImport, Importing
<1> QED BY <1>2, <1>3 DEF JobsFit

(* One request ends.                                                        *)
LEMMA JobEnds ==
  ASSUME WalletInv, WalletsGrow, ToldGrows, NEW i \in Slots, Ends(i),
         isSubmitting' = isSubmitting \/ Importing(i)
  PROVE  JobsFit'
<1>1. PICK q : q = Free
  OBVIOUS
<1>2. GoesOn(i, q) /\ q.kind # "import"
  BY <1>1, FreeIsNoJob DEF Ends, GoesOn
<1> QED BY <1>1, <1>2, JobsProceed

(* A request is sent; an import only if none is running.                    *)
LEMMA JobSent ==
  ASSUME WalletInv, WalletsGrow, ToldGrows, NEW q, Send(q), ImportJobFits(q)',
         \/ q.kind # "import" /\ isSubmitting' = isSubmitting
         \/ q.kind = "import" /\ ~isSubmitting /\ isSubmitting'
  PROVE  JobsFit'
<1>1. PICK i \in Slots : request[i] = Free /\ GoesOn(i, q)
  BY SlotSent DEF WalletInv, ImportJobsFit, GoesOn
<1>2. q.kind = "import" => \A j \in Slots : Importing(j) => i = j
  BY DEF WalletInv, OneImport
<1> QED BY <1>1, <1>2, JobsProceed

(* What a request on its way can be.                                        *)
LEMMA JobKnown ==
  ASSUME WalletInv, NEW i \in Slots, request[i] # Free
  PROVE  ImportJobFits(request[i]) /\ request[i] \in ImportJobs
BY DEF WalletInv, ImportJobsFit, ImportJobFits

(* The answer to a request.                                                 *)
LEMMA Replied ==
  ASSUME NEW r \in ImportJobs, NEW ok \in BOOLEAN, NEW a \in Address, NEW q, q = Reply(r, ok, a)
  PROVE  /\ q \in ImportJobs /\ q.kind = r.kind /\ q.stage = r.stage /\ q.at = "page"
         /\ q.merchant = r.merchant /\ q.wallet = r.wallet /\ q.key = r.key
         /\ q.ok = ok /\ q.answer = a /\ q # Free
<1>1. q \in ImportJobs /\ q.kind = r.kind /\ q.stage = r.stage /\ q.at = "page"
      /\ q.merchant = r.merchant /\ q.wallet = r.wallet /\ q.key = r.key
      /\ q.ok = ok /\ q.answer = a
  BY DEF Reply, ImportJobs
<1> QED BY <1>1, FreeIsNoJob

(* The server answers a request with an address of its wallet.              *)
LEMMA JobAnswered ==
  ASSUME WalletInv, WalletsGrow, ToldGrows, UNCHANGED isSubmitting,
         NEW i \in Slots, request[i] # Free, NEW ok \in BOOLEAN, NEW a \in Address,
         a.wallet \in 0..Len(made), GoesOn(i, Reply(request[i], ok, a)),
         request[i].stage \in {"derive", "addresses"} => a = NoAddress \/ a.wallet = request[i].wallet
  PROVE  JobsFit'
<1>1. PICK r \in ImportJobs : r = request[i] /\ ImportJobFits(r)
  BY JobKnown
<1>2. PICK q : q = Reply(r, ok, a)
  OBVIOUS
<1>3. /\ q \in ImportJobs /\ q.kind = r.kind /\ q.stage = r.stage /\ q.at = "page"
      /\ q.merchant = r.merchant /\ q.wallet = r.wallet /\ q.key = r.key
      /\ q.ok = ok /\ q.answer = a /\ q # Free
  BY <1>2, Replied
<1>4. StepFits(q) /\ WalletFits(q) /\ AnswerFits(q)
  BY <1>1, <1>3 DEF ImportJobFits, StepFits, WalletFits, AnswerFits
<1>5. ImportJobFits(q)'
  BY <1>3, <1>4, JobStays DEF ImportJobFits
<1>6. GoesOn(i, q) /\ (q.kind = "import" => Importing(i))
  BY <1>1, <1>2, <1>3 DEF Importing
<1> QED BY <1>5, <1>6, JobsProceed DEF WalletInv, OneImport

-----------------------------------------------------------------------------
(* Types and what was said of each wallet, step by step.                    *)

(* The page shows what it showed.                                           *)
LEMMA ViewStays ==
  ASSUME WalletInv, WalletsGrow, UNCHANGED view
  PROVE  ViewTyped'
<1>1. 0..Len(made) \subseteq 0..Len(made')
  BY DEF WalletInv, WalletsGrow, WalletsTyped
<1> QED BY <1>1 DEF WalletInv, ViewTyped, view

(* The page's flags and what the user said are what they were.              *)
LEMMA FlagsStay ==
  ASSUME WalletInv, WalletsGrow, UNCHANGED <<isDeleting, existingWallet, history>>,
         isSubmitting' \in BOOLEAN
  PROVE  FlagsTyped' /\ ToldGrows
<1>1. 0..Len(made) \subseteq 0..Len(made')
  BY DEF WalletInv, WalletsGrow, WalletsTyped
<1> QED BY <1>1 DEF WalletInv, FlagsTyped, history, ToldGrows

(* No wallet changes.                                                       *)
LEMMA WalletsStay ==
  ASSUME WalletInv, UNCHANGED made
  PROVE  WalletsGrow
BY DEF WalletInv, WalletsGrow, WalletsTyped

(* The bounded counters.                                                    *)
LEMMA CountsStay ==
  ASSUME WalletInv, merchantId' \in Merchants, Waited \/ UserClicks,
         faults' = faults \/ faults' = faults + 1
  PROVE  CountsTyped'
<1>1. impatient' \in Nat
  BY DEF WalletInv, CountsTyped, Waited, UserClicks
<1>2. faults' \in Nat
  BY DEF WalletInv, CountsTyped
<1> QED BY <1>1, <1>2 DEF CountsTyped

(* The absence of an address names no wallet.                               *)
LEMMA NoAddressIsAddress == NoAddress \in Address /\ NoAddress.wallet = 0
BY WalletSetupAssumption DEF NoAddress, Address, Numbers

(* A merchant's wallet is one that was made.                                *)
LEMMA ConfiguredMade ==
  ASSUME NEW m, WalletOf(m) # 0
  PROVE  WalletOf(m) \in Configured(m) /\ WalletOf(m) \in Made
BY DEF WalletOf, Configured

(* What the server does leaves the page as it is.                           *)
LEMMA ServerKeepsWalletInv ==
  ASSUME WalletInv, WalletsGrow, DeletedWhenTold',
         UNCHANGED <<merchantId, view, flags, existingWallet, history>>, Waited,
         faults' = faults \/ faults' = faults + 1,
         UNCHANGED request \/ \E i \in Slots, ok \in BOOLEAN, a \in Address :
           /\ request[i] # Free /\ GoesOn(i, Reply(request[i], ok, a))
           /\ a.wallet \in 0..Len(made)
           /\ request[i].stage \in {"derive", "addresses"} => a = NoAddress \/ a.wallet = request[i].wallet
  PROVE  WalletInv'
<1>1. ViewTyped' /\ FlagsTyped' /\ ToldGrows /\ isSubmitting' = isSubmitting
  <2>1. isSubmitting' = isSubmitting /\ isSubmitting' \in BOOLEAN /\ UNCHANGED isDeleting
    BY DEF flags, WalletInv, FlagsTyped
  <2> QED BY <2>1, ViewStays, FlagsStay
<1>2. CountsTyped'
  BY CountsStay DEF WalletInv, CountsTyped
<1>3. JobsFit'
  <2>1. CASE UNCHANGED request
    BY <1>1, <2>1, JobsIfNone
  <2>2. CASE ~UNCHANGED request
    BY <1>1, <2>2, JobAnswered
  <2> QED BY <2>1, <2>2
<1> QED BY <1>1, <1>2, <1>3 DEF WalletInv, WalletsGrow, JobsFit

(* No wallet is dropped by a derivation.                                    *)
LEMMA NoneDeleted ==
  ASSUME WalletInv, SameWallets, UNCHANGED told
  PROVE  WalletsGrow /\ DeletedWhenTold'
<1>1. WalletsGrow /\ Made' = Made
  BY DEF SameWallets, WalletsGrow, WalletsTyped, WalletInv, Made
<1> QED BY <1>1 DEF SameWallets, WalletInv, DeletedWhenTold

(* No wallet changes.                                                       *)
LEMMA SameIfUnchanged ==
  ASSUME WalletInv, UNCHANGED made
  PROVE  SameWallets
BY DEF WalletInv, WalletsTyped, SameWallets

(* The server's steps keep the wallets and requests right.                  *)
LEMMA ServerStepsTyped ==
  ASSUME WalletInv, NEW i \in Slots, ServerSteps(i)
  PROVE  WalletInv'
<1>1. PICK r \in ImportJobs : r = request[i] /\ r # Free /\ ImportJobFits(r)
  BY JobKnown DEF ServerSteps, ServeCreate, ServeList, ServeDelete, ServeDerive, ServeAddresses,
                  InServer, AtServer
<1>2. /\ UNCHANGED <<merchantId, view, flags, existingWallet, history, faults>> /\ Waited
      /\ UNCHANGED told
  BY DEF ServerSteps, ServeCreate, ServeList, ServeDelete, ServeDerive, ServeAddresses, history
<1>3. CASE ServeCreate(i)
  <2>1. PICK ok \in BOOLEAN :
          /\ ok => Len(made) < MaxWallets
          /\ made' = IF ok THEN Append(made, [merchant |-> r.merchant, key |-> r.key, live |-> TRUE,
                                              first |-> -1, last |-> -1]) ELSE made
          /\ GoesOn(i, Reply(r, ok, NoAddress)) /\ r.stage = "create"
    BY <1>1, <1>3 DEF ServeCreate, InServer
  <2>2. CASE ok
    <3>1. PICK w : w = [merchant |-> r.merchant, key |-> r.key, live |-> TRUE, first |-> -1, last |-> -1]
      OBVIOUS
    <3>2. w \in WalletRows /\ w.live
      BY <1>1, <2>1, <3>1, WalletSetupAssumption DEF ImportJobFits, WalletFits, ImportJobs, WalletRows
    <3>3. made' = Append(made, w)
      BY <2>1, <2>2, <3>1
    <3>4. WalletsGrow
      BY <2>1, <2>2, <3>2, <3>3, WalletSetupAssumption DEF WalletInv, WalletsTyped, WalletsGrow
    <3>5. \A v \in Made' : IF v \in Made THEN made'[v] = made[v] ELSE made'[v] = w
      BY <3>3 DEF WalletInv, WalletsTyped, Made
    <3>6. DeletedWhenTold'
      BY <1>2, <3>2, <3>5 DEF WalletInv, DeletedWhenTold
    <3> QED BY <1>1, <1>2, <2>1, <3>4, <3>6, NoAddressIsAddress, ServerKeepsWalletInv, MadeNumbers DEF WalletInv
  <2>3. CASE ~ok
    <3>1. WalletsGrow /\ DeletedWhenTold'
      BY <1>2, <2>1, <2>3, SameIfUnchanged, NoneDeleted
    <3> QED BY <1>1, <1>2, <2>1, <3>1, NoAddressIsAddress, ServerKeepsWalletInv, MadeNumbers DEF WalletInv
  <2> QED BY <2>2, <2>3
<1>4. CASE ServeList(i)
  <2>1. PICK a : a = [NoAddress EXCEPT !.wallet = WalletOf(r.merchant)]
    OBVIOUS
  <2>2. a \in Address /\ a.wallet \in 0..Len(made)
    BY <2>1, ConfiguredMade, MadeNumbers, WalletSetupAssumption
    DEF WalletInv, NoAddress, Address, Numbers
  <2>3. made' = made /\ GoesOn(i, Reply(r, TRUE, a)) /\ r.stage = "list"
    BY <1>1, <1>4, <2>1 DEF ServeList, InServer
  <2>4. WalletsGrow /\ DeletedWhenTold'
    BY <1>2, <2>3, SameIfUnchanged, NoneDeleted
  <2> QED BY <1>1, <1>2, <2>2, <2>3, <2>4, ServerKeepsWalletInv
<1>5. CASE ServeDelete(i)
  <2>0. PICK ok \in BOOLEAN : ok <=> r.wallet \in Configured(r.merchant)
    <3>1. CASE r.wallet \in Configured(r.merchant)
      BY <3>1, Zenon
    <3>2. CASE r.wallet \notin Configured(r.merchant)
      BY <3>2, Zenon
    <3> QED BY <3>1, <3>2
  <2>1. /\ made' = IF ok THEN [made EXCEPT ![r.wallet].live = FALSE] ELSE made
        /\ GoesOn(i, Reply(r, ok, NoAddress)) /\ r.stage = "delete"
    BY <1>1, <1>5, <2>0 DEF ServeDelete, InServer
  <2>2. r.wallet \in Made /\ told[r.wallet] # "nothing"
    BY <1>1, <2>1 DEF ImportJobFits, StepFits, WalletFits, ImportJobs, ImportKinds
  <2>3. PICK old \in WalletRows : old = made[r.wallet]
    BY <2>2, MadeNumbers DEF WalletInv
  <2>4. PICK w : w = IF ok THEN [old EXCEPT !.live = FALSE] ELSE old
    OBVIOUS
  <2>5. w \in WalletRows /\ made' = [made EXCEPT ![r.wallet] = w]
    <3>1. w \in WalletRows
      BY <2>3, <2>4 DEF WalletRows
    <3>2. CASE ok
      <4>1. made' = [made EXCEPT ![r.wallet].live = FALSE] /\ w = [made[r.wallet] EXCEPT !.live = FALSE]
        BY <2>1, <2>3, <2>4, <3>2
      <4>2. made' = [made EXCEPT ![r.wallet] = [made[r.wallet] EXCEPT !.live = FALSE]]
        BY <4>1
      <4> QED BY <3>1, <4>1, <4>2
    <3>3. CASE ~ok
      BY <2>1, <2>2, <2>3, <2>4, <3>3 DEF WalletInv, WalletsTyped, Made
    <3> QED BY <3>1, <3>2, <3>3
  <2>6. WalletsGrow /\ Made' = Made
    BY <2>2, <2>5 DEF WalletInv, WalletsTyped, WalletsGrow, Made
  <2>7. DeletedWhenTold'
    BY <1>2, <2>2, <2>5, <2>6 DEF WalletInv, DeletedWhenTold, Made
  <2> QED BY <1>1, <1>2, <2>1, <2>6, <2>7, NoAddressIsAddress, ServerKeepsWalletInv, MadeNumbers DEF WalletInv
<1>6. CASE ServeDerive(i)
  <2>1. PICK ok \in BOOLEAN :
          /\ ok = (made[r.wallet].live /\ NextIndex(r.wallet) <= MaxIndex)
          /\ made' = IF ok THEN Derived(r.wallet) ELSE made
          /\ GoesOn(i, Reply(r, ok, IF ok THEN [wallet |-> r.wallet, index |-> NextIndex(r.wallet)]
                                    ELSE NoAddress)) /\ r.stage = "derive"
    BY <1>1, <1>6 DEF ServeDerive, InServer
  <2>2. r.wallet \in Made
    BY <1>1, <2>1 DEF ImportJobFits, WalletFits
  <2>3. PICK a : a = IF ok THEN [wallet |-> r.wallet, index |-> NextIndex(r.wallet)] ELSE NoAddress
    OBVIOUS
  <2>4. a \in Address /\ a.wallet \in 0..Len(made) /\ (a = NoAddress \/ a.wallet = r.wallet)
    <3>1. CASE ok
      <4>1. NextIndex(r.wallet) \in 0..MaxIndex
        <5>1. made[r.wallet].live /\ NextIndex(r.wallet) <= MaxIndex
          BY <2>1, <3>1
        <5>2. NextIndex(r.wallet) \in 0..(MaxIndex + 1)
          BY <2>2, <5>1, NextIndexTyped DEF WalletInv
        <5>3. MaxIndex \in Nat
          BY WalletSetupAssumption
        <5> QED BY <5>1, <5>2, <5>3
      <4>2. r.wallet \in Numbers /\ r.wallet \in 0..Len(made)
        BY <2>2, MadeNumbers DEF WalletInv
      <4> QED BY <2>3, <3>1, <4>1, <4>2 DEF Address
    <3>2. CASE ~ok
      BY <2>3, <3>2, NoAddressIsAddress, MadeNumbers DEF WalletInv
    <3> QED BY <3>1, <3>2
  <2>5. SameWallets
    BY <2>1, <2>2, DerivedTyped, SameIfUnchanged DEF WalletInv
  <2>6. WalletsGrow /\ DeletedWhenTold'
    BY <1>2, <2>5, NoneDeleted
  <2> QED BY <1>1, <1>2, <2>1, <2>3, <2>4, <2>6, ServerKeepsWalletInv
<1>7. CASE ServeAddresses(i)
  <2>a. PICK a : a = IF made[r.wallet].live /\ made[r.wallet].first # -1
                     THEN [wallet |-> r.wallet, index |-> made[r.wallet].first] ELSE NoAddress
    OBVIOUS
  <2>1. PICK ok \in BOOLEAN :
          ok = made[r.wallet].live /\ GoesOn(i, Reply(r, ok, a)) /\ r.stage = "addresses"
    <3>1. r.stage = "addresses"
      BY <1>1, <1>7 DEF ServeAddresses, InServer
    <3>2. made[r.wallet].live \in BOOLEAN
      BY <1>1, <3>1, MadeNumbers DEF ImportJobFits, WalletFits, StepFits, ImportJobs, ImportKinds, WalletInv, WalletRows
    <3> QED BY <1>1, <1>7, <2>a, <3>1, <3>2 DEF ServeAddresses
  <2>2. r.wallet \in Made
    BY <1>1, <2>1 DEF ImportJobFits, StepFits, WalletFits, ImportJobs, ImportKinds
  <2>3. made[r.wallet].first \in -1..MaxIndex
    BY <2>2, MadeNumbers DEF WalletInv, WalletRows
  <2>4. a \in Address /\ a.wallet \in 0..Len(made) /\ (a = NoAddress \/ a.wallet = r.wallet)
    BY <2>a, <2>2, <2>3, NoAddressIsAddress, MadeNumbers, WalletSetupAssumption
    DEF WalletInv, Address, Numbers
  <2>5. WalletsGrow /\ DeletedWhenTold'
    BY <1>2, <1>7, SameIfUnchanged, NoneDeleted DEF ServeAddresses
  <2> QED BY <1>1, <1>2, <2>1, <2>4, <2>5, ServerKeepsWalletInv
<1> QED BY <1>3, <1>4, <1>5, <1>6, <1>7 DEF ServerSteps

(* So do faults, and a customer who pays first.                             *)
LEMMA OutsideTyped ==
  ASSUME WalletInv, (\E i \in Slots : Fault(i)) \/ (\E w \in Made : CustomerPays(w))
  PROVE  WalletInv'
<1>1. /\ UNCHANGED <<merchantId, view, flags, existingWallet, history>> /\ Waited /\ UNCHANGED told
      /\ faults' = faults \/ faults' = faults + 1
  BY DEF Fault, CustomerPays, history
<1>2. ASSUME NEW i \in Slots, Fault(i) PROVE WalletInv'
  <2>1. /\ request[i] # Free /\ GoesOn(i, Reply(request[i], FALSE, NoAddress)) /\ UNCHANGED made
    BY <1>2 DEF Fault
  <2>2. WalletsGrow /\ DeletedWhenTold'
    BY <1>1, <2>1, SameIfUnchanged, NoneDeleted
  <2>3. NoAddress \in Address /\ NoAddress.wallet \in 0..Len(made)
    BY NoAddressIsAddress, MadeNumbers DEF WalletInv
  <2> QED BY <1>1, <2>1, <2>2, <2>3, ServerKeepsWalletInv
<1>3. ASSUME NEW w \in Made, CustomerPays(w) PROVE WalletInv'
  <2>1. SameWallets
    BY <1>3, DerivedTyped DEF CustomerPays, WalletInv
  <2>2. WalletsGrow /\ DeletedWhenTold'
    BY <1>1, <2>1, NoneDeleted
  <2> QED BY <1>1, <1>3, <2>2, ServerKeepsWalletInv DEF CustomerPays
<1> QED BY <1>2, <1>3

(* The page and the user leave the wallets as they are.                     *)
LEMMA PageKeepsWalletInv ==
  ASSUME WalletInv, UNCHANGED made, ViewTyped', FlagsTyped', ToldGrows, merchantId' \in Merchants,
         Waited \/ UserClicks, UNCHANGED faults, JobsFit'
  PROVE  WalletInv'
<1>1. WalletsTyped' /\ Made' = Made
  BY DEF WalletInv, WalletsTyped, Made
<1>2. DeletedWhenTold'
  BY <1>1 DEF WalletInv, DeletedWhenTold, ToldGrows
<1>3. CountsTyped'
  BY CountsStay
<1> QED BY <1>1, <1>2, <1>3 DEF WalletInv, JobsFit

(* The form is reset.                                                       *)
LEMMA ResetTyped ==
  ASSUME WalletInv, UNCHANGED made, resetState
  PROVE  ViewTyped'
<1>1. 0 \in 0..Len(made')
  BY DEF WalletInv, WalletsTyped
<1>2. EmptyForm \in [key : Keys \cup {None}, path : Paths \cup {None}]
  BY DEF EmptyForm
<1>3. NotVerifying \in [wallet : 0..Len(made'), address : Address, loading : BOOLEAN, help : BOOLEAN]
  BY <1>1, NoAddressIsAddress DEF NotVerifying
<1> QED BY <1>1, <1>2, <1>3, NoAddressIsAddress DEF resetState, ViewTyped

(* A handler goes on with its next request.                                 *)
LEMMA GoesToTyped ==
  ASSUME NEW r \in ImportJobs, NEW stage \in ImportStages, NEW w \in Numbers, NEW q,
         q = [GoesTo(r, stage) EXCEPT !.wallet = w] \/ (w = r.wallet /\ q = GoesTo(r, stage))
  PROVE  /\ q \in ImportJobs /\ q.kind = r.kind /\ q.stage = stage /\ q.at = "server"
         /\ q.merchant = r.merchant /\ q.wallet = w /\ q.key = r.key
         /\ q.ok = r.ok /\ q.answer = r.answer /\ q # Free
<1>1. PICK p : p = GoesTo(r, stage)
  OBVIOUS
<1>2. /\ p \in ImportJobs /\ p.kind = r.kind /\ p.stage = stage /\ p.at = "server"
      /\ p.merchant = r.merchant /\ p.wallet = r.wallet /\ p.key = r.key
      /\ p.ok = r.ok /\ p.answer = r.answer
  BY <1>1 DEF GoesTo, ImportJobs
<1>3. q = [p EXCEPT !.wallet = w] \/ (w = r.wallet /\ q = p)
  BY <1>1
<1>4. /\ q \in ImportJobs /\ q.kind = r.kind /\ q.stage = stage /\ q.at = "server"
      /\ q.merchant = r.merchant /\ q.wallet = w /\ q.key = r.key
      /\ q.ok = r.ok /\ q.answer = r.answer
  BY <1>2, <1>3 DEF ImportJobs
<1> QED BY <1>4, FreeIsNoJob

(* A handler goes on to list the wallets, or to derive from the one listed.  *)
LEMMA JobGoesOn ==
  ASSUME WalletInv, UNCHANGED <<made, told, isSubmitting>>, NEW i \in Slots, request[i] # Free,
         NEW stage, NEW w, NEW q, GoesOn(i, q),
         q = [GoesTo(request[i], stage) EXCEPT !.wallet = w] \/ (w = request[i].wallet /\ q = GoesTo(request[i], stage)),
         \/ stage = "list" /\ request[i].kind \in {"import", "delete", "drop"} /\ w = request[i].wallet
         \/ stage = "derive" /\ request[i].kind = "import" /\ w \in Made
  PROVE  JobsFit' /\ q.kind = request[i].kind /\ q.stage = stage /\ q.at = "server" /\ q.wallet = w
<1>1. PICK r \in ImportJobs : r = request[i] /\ ImportJobFits(r)
  BY JobKnown
<1>2. stage \in ImportStages /\ w \in Numbers
  BY <1>1, MadeNumbers DEF ImportStages, WalletInv, ImportJobs
<1>3. /\ q \in ImportJobs /\ q.kind = r.kind /\ q.stage = stage /\ q.at = "server"
      /\ q.merchant = r.merchant /\ q.wallet = w /\ q.key = r.key
      /\ q.ok = r.ok /\ q.answer = r.answer /\ q # Free
  BY <1>1, <1>2, GoesToTyped
<1>4. StepFits(q) /\ WalletFits(q) /\ AnswerFits(q)
  <2>1. StepFits(q)
    BY <1>1, <1>3 DEF StepFits
  <2>2. WalletFits(q)
    BY <1>1, <1>3 DEF ImportJobFits, WalletFits
  <2>3. AnswerFits(q)
    BY <1>1, <1>3 DEF ImportJobFits, AnswerFits
  <2> QED BY <2>1, <2>2, <2>3
<1>5. WalletsGrow /\ ToldGrows
  BY WalletsStay DEF ToldGrows
<1>6. ImportJobFits(q)'
  BY <1>3, <1>4, <1>5, JobStays DEF ImportJobFits
<1>7. q.kind = "import" => Importing(i)
  BY <1>1, <1>3 DEF Importing
<1> QED BY <1>1, <1>3, <1>5, <1>6, <1>7, JobsProceed DEF WalletInv, OneImport

(* The handlers that take an answer.                                        *)
LEMMA PageStepsTyped ==
  ASSUME WalletInv, NEW i \in Slots, PageSteps(i)
  PROVE  WalletInv'
<1>1. PICK r \in ImportJobs : r = request[i] /\ r # Free /\ ImportJobFits(r)
  BY JobKnown DEF PageSteps, DataLoaded, FirstAddressLoaded, ImportCreated, ImportListed, ImportDerived,
                  DeleteGoesOn, DeleteListed, VerifyDeleteGoesOn, VerifyDeleteListed, AnsweredAt, Arrived
<1>2. /\ UNCHANGED <<made, merchantId, history, faults>> /\ Waited /\ UNCHANGED <<told, crossed>>
  BY DEF PageSteps, DataLoaded, FirstAddressLoaded, ImportCreated, ImportListed, ImportDerived,
         DeleteGoesOn, DeleteListed, VerifyDeleteGoesOn, VerifyDeleteListed, history
<1>3. WalletsGrow /\ ToldGrows /\ merchantId' \in Merchants
  BY <1>2, WalletsStay DEF ToldGrows, WalletInv, CountsTyped
<1>4. r.answer \in Address /\ r.answer.wallet \in 0..Len(made) /\ r.kind \in ImportKinds
  BY <1>1 DEF ImportJobFits, AnswerFits, ImportJobs
<1>5. ASSUME isSubmitting' \in BOOLEAN, isDeleting' \in BOOLEAN, existingWallet' \in {existingWallet, r.answer.wallet}
      PROVE  FlagsTyped'
  <2>1. existingWallet' \in 0..Len(made')
    BY <1>2, <1>4, <1>5 DEF WalletInv, FlagsTyped
  <2> QED BY <1>2, <1>5, <2>1 DEF WalletInv, FlagsTyped
<1>6. isSubmitting \in BOOLEAN /\ isDeleting \in BOOLEAN
  BY DEF WalletInv, FlagsTyped
<1>7. UNCHANGED view => ViewTyped'
  BY <1>3, ViewStays
<1>8. resetState => ViewTyped'
  BY <1>2, ResetTyped
<1>9. ASSUME ViewTyped', FlagsTyped', JobsFit' PROVE WalletInv'
  BY <1>2, <1>3, <1>9, PageKeepsWalletInv
<1>10. Ends(i) /\ (isSubmitting' = isSubmitting \/ r.kind = "import") => JobsFit'
  BY <1>1, <1>3, JobEnds DEF Importing
<1>11. CASE DataLoaded(i)
  BY <1>5, <1>6, <1>7, <1>9, <1>10, <1>11, <1>1 DEF DataLoaded, Listed, flags
<1>12. CASE FirstAddressLoaded(i)
  <2>1. ViewTyped'
    BY <1>1, <1>2, <1>4, <1>12 DEF FirstAddressLoaded, WalletInv, ViewTyped
  <2> QED BY <1>5, <1>6, <1>9, <1>10, <1>12, <2>1 DEF FirstAddressLoaded, flags
<1>13. CASE ImportCreated(i)
  <2>1. CASE r.ok /\ GoesOn(i, GoesTo(r, "list")) /\ UNCHANGED isSubmitting
    <3>1. r.kind = "import"
      BY <1>1, <1>13 DEF ImportCreated, AnsweredAt, Arrived
    <3>2. JobsFit'
      BY <1>1, <1>2, <2>1, <3>1, JobGoesOn
    <3> QED BY <1>5, <1>6, <1>7, <1>9, <1>13, <2>1, <3>2 DEF ImportCreated
  <2>2. CASE Ends(i) /\ isSubmitting' = FALSE
    <3>1. r.kind = "import"
      BY <1>1, <1>13 DEF ImportCreated, AnsweredAt, Arrived
    <3> QED BY <1>5, <1>6, <1>7, <1>9, <1>10, <1>13, <2>2, <3>1 DEF ImportCreated
  <2> QED BY <1>1, <1>13, <2>1, <2>2 DEF ImportCreated
<1>14. CASE ImportListed(i)
  <2>1. r.kind = "import" /\ UNCHANGED isDeleting
    BY <1>1, <1>14 DEF ImportListed, AnsweredAt, Arrived
  <2>2. PICK w : w = r.answer.wallet
    OBVIOUS
  <2>3. CASE /\ w # 0 /\ existingWallet' = w /\ mode' = "verify"
             /\ verify' = [verify EXCEPT !.wallet = w, !.loading = TRUE, !.help = FALSE]
             /\ GoesOn(i, [GoesTo(r, "derive") EXCEPT !.wallet = w])
             /\ UNCHANGED <<selectedBlockchain, form, selectedWallet, firstAddress, isSubmitting>>
    <3>1. w \in Made /\ Len(made') = Len(made)
      BY <1>2, <1>4, <2>2, <2>3, MadeNumbers DEF WalletInv
    <3>2. ViewTyped'
      BY <1>2, <1>4, <2>2, <2>3 DEF WalletInv, ViewTyped
    <3>3. JobsFit'
      BY <1>1, <1>2, <2>1, <2>3, <3>1, JobGoesOn
    <3> QED BY <1>5, <1>6, <1>9, <2>1, <2>2, <2>3, <3>2, <3>3
  <2>4. CASE Listed(i) /\ resetState /\ Ends(i) /\ isSubmitting' = FALSE
    BY <1>1, <1>5, <1>6, <1>8, <1>9, <1>10, <2>1, <2>4 DEF Listed
  <2>5. CASE Ends(i) /\ isSubmitting' = FALSE /\ UNCHANGED <<view, existingWallet>>
    BY <1>5, <1>6, <1>7, <1>9, <1>10, <2>1, <2>5
  <2> QED BY <1>1, <1>14, <2>2, <2>3, <2>4, <2>5 DEF ImportListed, Listed
<1>15. CASE ImportDerived(i)
  <2>1. r.kind = "import"
    BY <1>1, <1>15 DEF ImportDerived, AnsweredAt, Arrived
  <2>2. ViewTyped'
    BY <1>1, <1>2, <1>4, <1>15 DEF ImportDerived, WalletInv, ViewTyped
  <2> QED BY <1>5, <1>6, <1>9, <1>10, <1>15, <2>1, <2>2 DEF ImportDerived
<1>16. CASE DeleteGoesOn(i)
  <2>1. r.kind = "delete"
    BY <1>1, <1>16 DEF DeleteGoesOn, AnsweredAt, Arrived
  <2>2. JobsFit'
    <3>1. CASE GoesOn(i, GoesTo(r, "list"))
      BY <1>1, <1>2, <1>16, <2>1, <3>1, JobGoesOn DEF DeleteGoesOn
    <3>2. CASE Ends(i)
      BY <1>10, <1>16, <3>2 DEF DeleteGoesOn
    <3> QED BY <1>1, <1>16, <3>1, <3>2 DEF DeleteGoesOn
  <2> QED BY <1>5, <1>6, <1>7, <1>9, <1>16, <2>2 DEF DeleteGoesOn
<1>17. CASE DeleteListed(i)
  <2>1. Ends(i) /\ isDeleting' = FALSE /\ UNCHANGED isSubmitting
        /\ IF r.ok THEN existingWallet' = r.answer.wallet /\ resetState ELSE UNCHANGED <<view, existingWallet>>
    BY <1>1, <1>17 DEF DeleteListed, Listed
  <2>2. ViewTyped' /\ existingWallet' \in {existingWallet, r.answer.wallet}
    BY <1>7, <1>8, <2>1
  <2> QED BY <1>5, <1>6, <1>9, <1>10, <2>1, <2>2
<1>18. CASE VerifyDeleteGoesOn(i)
  <2>1. r.kind = "drop"
    BY <1>1, <1>18 DEF VerifyDeleteGoesOn, AnsweredAt, Arrived
  <2>a. UNCHANGED <<view, isSubmitting, isDeleting, existingWallet>>
    BY <1>18 DEF VerifyDeleteGoesOn, flags
  <2>2. JobsFit'
    <3>1. CASE GoesOn(i, GoesTo(r, "list"))
      BY <1>1, <1>2, <2>1, <2>a, <3>1, JobGoesOn
    <3>2. CASE Ends(i)
      BY <1>10, <2>a, <3>2
    <3> QED BY <1>1, <1>18, <3>1, <3>2 DEF VerifyDeleteGoesOn
  <2> QED BY <1>5, <1>6, <1>7, <1>9, <2>a, <2>2
<1>19. CASE VerifyDeleteListed(i)
  <2>1. /\ Ends(i) /\ UNCHANGED <<isSubmitting, isDeleting>>
        /\ UNCHANGED <<selectedBlockchain, form, selectedWallet, firstAddress>>
        /\ IF r.ok THEN /\ existingWallet' = r.answer.wallet /\ mode' = "import"
                        /\ verify' = [NotVerifying EXCEPT !.loading = verify.loading]
           ELSE UNCHANGED <<existingWallet, mode, verify>>
    BY <1>1, <1>19 DEF VerifyDeleteListed, Listed, flags
  <2>2. verify.loading \in BOOLEAN /\ Len(made') = Len(made) /\ Len(made) \in Nat
    BY <1>2, MadeNumbers DEF WalletInv, ViewTyped
  <2>3. [NotVerifying EXCEPT !.loading = verify.loading]
           \in [wallet : 0..Len(made'), address : Address, loading : BOOLEAN, help : BOOLEAN]
    <3>1. 0 \in 0..Len(made')
      BY <2>2
    <3>2. PICK b \in BOOLEAN : b = verify.loading
      BY <2>2
    <3>3. NotVerifying \in [wallet : 0..Len(made'), address : Address, loading : BOOLEAN, help : BOOLEAN]
      BY <3>1, NoAddressIsAddress DEF NotVerifying
    <3> QED BY <3>2, <3>3
  <2>4. ViewTyped'
    BY <1>2, <2>1, <2>2, <2>3 DEF WalletInv, ViewTyped
  <2> QED BY <1>5, <1>6, <1>9, <1>10, <2>1, <2>4
<1> QED BY <1>11, <1>12, <1>13, <1>14, <1>15, <1>16, <1>17, <1>18, <1>19 DEF PageSteps

(* What the user does.                                                      *)
LEMMA NewJob ==
  ASSUME WalletInv, UNCHANGED made, merchantId' \in Merchants, NEW kind, NEW stage, NEW w, NEW q,
         NEW m \in Merchants, q = Job(kind, stage, m, w),
         \/ kind = "load" /\ stage = "list" /\ w = 0
         \/ kind = "first" /\ stage = "addresses" /\ w \in Made
         \/ kind \in {"delete", "drop"} /\ stage = "delete" /\ w \in Made /\ told'[w] # "nothing"
  PROVE  /\ ImportJobFits(q)' /\ q # Free /\ q.kind = kind /\ q.stage = stage /\ q.at = "server"
         /\ q.merchant = m /\ q.wallet = w /\ q.ok
<1>1. /\ q.kind = kind /\ q.stage = stage /\ q.at = "server" /\ q.merchant = m /\ q.wallet = w
      /\ q.ok = TRUE /\ q.answer = NoAddress /\ q.key = None
  BY DEF Job
<1>2. kind \in ImportKinds /\ stage \in ImportStages /\ w \in Numbers /\ w \in 0..Len(made)
  BY MadeNumbers DEF ImportKinds, ImportStages, WalletInv, Numbers
<1>3. q \in ImportJobs
  BY <1>2, NoAddressIsAddress DEF Job, ImportJobs
<1>4. StepFits(q)' /\ WalletFits(q)' /\ AnswerFits(q)'
  <2>1. StepFits(q)'
    BY <1>1 DEF StepFits
  <2>2. WalletFits(q)'
    BY <1>1 DEF WalletFits, Made
  <2>3. AnswerFits(q)'
    BY <1>1, <1>2, NoAddressIsAddress DEF AnswerFits
  <2> QED BY <2>1, <2>2, <2>3
<1> QED BY <1>1, <1>3, <1>4, FreeIsNoJob DEF ImportJobFits

(* What the user does.                                                      *)
LEMMA UserStepsTyped ==
  ASSUME WalletInv, ViewInv, UserSteps
  PROVE  WalletInv'
<1>1. UNCHANGED <<made, faults>> /\ UserClicks
  BY DEF UserSteps, ChangeMerchant, GoBack, handleCardClick, OpenImport, SelectBlockchain,
         handleSubmitImport, PasteKey, EditPath, KeepWallet, ShowMismatchHelp, handleVerifyDelete,
         handleDelete
<1>2. WalletsGrow /\ Made' = Made /\ Len(made') = Len(made) /\ merchantId \in Merchants
  BY <1>1, WalletsStay DEF WalletInv, CountsTyped, Made
<1>3. UNCHANGED view => ViewTyped'
  BY <1>2, ViewStays
<1>4. resetState => ViewTyped'
  BY <1>1, ResetTyped
<1>5. UNCHANGED <<isSubmitting, isDeleting, existingWallet, history>> => FlagsTyped' /\ ToldGrows
  BY <1>2, FlagsStay DEF WalletInv, FlagsTyped
<1>6. ASSUME ViewTyped', FlagsTyped', ToldGrows, merchantId' \in Merchants, JobsFit' PROVE WalletInv'
  BY <1>1, <1>6, PageKeepsWalletInv
<1>7. ToldGrows /\ UNCHANGED <<request, isSubmitting>> => JobsFit'
  BY <1>2, JobsIfNone
<1>8. CASE \E m \in Merchants : ChangeMerchant(m)
  <2>1. PICK m \in Merchants : ChangeMerchant(m)
    BY <1>8
  <2>2. UNCHANGED <<view, isSubmitting, isDeleting, existingWallet, history>> /\ merchantId' \in Merchants
    BY <2>1 DEF ChangeMerchant, flags
  <2>3. PICK q : q = Job("load", "list", m, 0)
    OBVIOUS
  <2>4. Send(q)
    BY <2>1, <2>3 DEF ChangeMerchant, loadData
  <2>5. ImportJobFits(q)' /\ q.kind = "load"
    BY <1>1, <2>2, <2>3, NewJob
  <2>6. JobsFit'
    BY <1>2, <1>5, <2>2, <2>4, <2>5, JobSent
  <2> QED BY <1>3, <1>5, <1>6, <2>2, <2>6
<1>9. CASE GoBack \/ OpenImport \/ SelectBlockchain \/ ShowMismatchHelp \/ (\E k \in Keys : PasteKey(k)) \/ \E p \in Paths : EditPath(p)
  <2>1. UNCHANGED <<merchantId, isSubmitting, isDeleting, existingWallet, history, request>>
    BY <1>9 DEF GoBack, OpenImport, SelectBlockchain, ShowMismatchHelp, PasteKey, EditPath, flags
  <2>2. ViewTyped'
    <3>1. CASE GoBack
      BY <1>4, <3>1 DEF GoBack
    <3>2. CASE OpenImport
      BY <1>2, <3>2 DEF OpenImport, WalletInv, ViewTyped
    <3>3. CASE ShowMismatchHelp
      BY <1>2, <3>3 DEF ShowMismatchHelp, WalletInv, ViewTyped
    <3>4. ASSUME NEW p \in Paths, form' = [form EXCEPT !.path = p] \/ form' = form,
                 selectedBlockchain' \in BOOLEAN, UNCHANGED <<mode, selectedWallet, firstAddress, verify>>
          PROVE  ViewTyped'
      BY <1>2, <3>4 DEF WalletInv, ViewTyped
    <3>5. DefaultPath \in Paths
      BY WalletSetupAssumption DEF Paths
    <3>6. CASE SelectBlockchain
      BY <3>4, <3>5, <3>6 DEF SelectBlockchain
    <3>7. CASE \E p \in Paths : EditPath(p)
      BY <3>4, <3>7 DEF EditPath, WalletInv, ViewTyped
    <3>8. CASE \E k \in Keys : PasteKey(k)
      <4>1. PICK k \in Keys : PasteKey(k)
        BY <3>8
      <4>2. PathOf[k] # None => PathOf[k] \in Paths
        BY DEF Paths
      <4>3. form.path \in Paths \cup {None}
        BY DEF WalletInv, ViewTyped
      <4>4. PICK p \in Paths \cup {None} : p = IF PathOf[k] # None THEN PathOf[k] ELSE form.path
        BY <4>2, <4>3
      <4>5. form' = [key |-> k, path |-> p]
        BY <4>1, <4>4 DEF PasteKey
      <4> QED BY <1>2, <4>1, <4>5 DEF PasteKey, WalletInv, ViewTyped
    <3> QED BY <1>9, <3>1, <3>2, <3>3, <3>6, <3>7, <3>8
  <2> QED BY <1>2, <1>5, <1>6, <1>7, <2>1, <2>2
<1>10. CASE handleCardClick
  <2>1. /\ UNCHANGED <<merchantId, verify, isSubmitting, isDeleting, existingWallet, told>>
        /\ selectedBlockchain' = TRUE
    BY <1>10 DEF handleCardClick, flags
  <2>2. existingWallet \in 0..Len(made) /\ DefaultPath \in Paths /\ ToldGrows
    BY <2>1, WalletSetupAssumption DEF WalletInv, FlagsTyped, Paths, ToldGrows
  <2>3. CASE /\ existingWallet # 0 /\ mode' = "detail" /\ selectedWallet' = existingWallet
             /\ firstAddress' = NoAddress
             /\ Send(Job("first", "addresses", merchantId, existingWallet))
             /\ crossed' = (crossed \/ \E i \in Slots : request[i].kind = "first")
             /\ UNCHANGED form
    <3>1. ViewTyped'
      BY <1>2, <2>1, <2>2, <2>3, NoAddressIsAddress DEF WalletInv, ViewTyped
    <3>2. FlagsTyped'
      <4>1. (\E i \in Slots : request[i].kind = "first") \in BOOLEAN
        BY Zenon
      <4>2. crossed' \in BOOLEAN
        BY <2>3, Zenon DEF WalletInv, FlagsTyped
      <4> QED BY <1>2, <2>1, <4>2 DEF WalletInv, FlagsTyped
    <3>3. PICK q : q = Job("first", "addresses", merchantId, existingWallet)
      OBVIOUS
    <3>4. ImportJobFits(q)' /\ q.kind = "first" /\ Send(q)
      <4>1. existingWallet \in Made
        BY <2>2, <2>3, MadeNumbers DEF WalletInv
      <4>2. PICK w : w = existingWallet
        OBVIOUS
      <4>3. PICK m \in Merchants : m = merchantId
        BY <1>2
      <4>4. q = Job("first", "addresses", m, w)
        BY <3>3, <4>2, <4>3
      <4>5. ImportJobFits(q)' /\ q.kind = "first"
        BY <1>1, <1>2, <2>1, <4>1, <4>2, <4>4, NewJob
      <4> QED BY <2>3, <3>3, <4>5
    <3>5. JobsFit'
      BY <1>2, <2>1, <2>2, <3>4, JobSent
    <3> QED BY <1>2, <1>6, <2>1, <2>2, <3>1, <3>2, <3>5
  <2>4. CASE mode' = "import" /\ form' = [form EXCEPT !.path = DefaultPath]
             /\ UNCHANGED <<selectedWallet, firstAddress, request, crossed>>
    <3>1. ViewTyped'
      BY <1>2, <2>1, <2>2, <2>4 DEF WalletInv, ViewTyped
    <3> QED BY <1>2, <1>5, <1>6, <1>7, <2>1, <2>4, <3>1 DEF history
  <2> QED BY <1>10, <2>3, <2>4 DEF handleCardClick
<1>11. CASE handleSubmitImport
  <2>1. /\ UNCHANGED <<merchantId, view, isDeleting, existingWallet, history>> /\ ~isSubmitting /\ isSubmitting' = TRUE
        /\ Send([Job("import", "create", merchantId, 0) EXCEPT !.key = form.key])
        /\ form.key # None
    BY <1>11 DEF handleSubmitImport
  <2>2. FlagsTyped' /\ ToldGrows /\ form.key \in Keys
    BY <1>2, <2>1, FlagsStay DEF WalletInv, ViewTyped
  <2>3. PICK q : q = [Job("import", "create", merchantId, 0) EXCEPT !.key = form.key]
    OBVIOUS
  <2>4. /\ q.kind = "import" /\ q.stage = "create" /\ q.at = "server" /\ q.wallet = 0
        /\ q.answer = NoAddress /\ q.key = form.key /\ q \in ImportJobs
    <3>1. PICK m \in Merchants, k \in Keys : m = merchantId /\ k = form.key
      BY <1>2, <2>2
    <3>2. PICK p : p = Job("import", "create", m, 0)
      OBVIOUS
    <3>3. /\ p.kind = "import" /\ p.stage = "create" /\ p.at = "server" /\ p.wallet = 0
          /\ p.answer = NoAddress /\ p \in ImportJobs
      BY <3>2, NoAddressIsAddress, WalletSetupAssumption
      DEF Job, ImportJobs, ImportKinds, ImportStages, Numbers
    <3>4. q = [p EXCEPT !.key = k]
      BY <2>3, <3>1, <3>2
    <3> QED BY <3>1, <3>3, <3>4 DEF ImportJobs
  <2>5. StepFits(q)' /\ WalletFits(q)' /\ AnswerFits(q)'
    <3>1. StepFits(q)'
      BY <2>4 DEF StepFits
    <3>2. WalletFits(q)'
      BY <2>2, <2>4 DEF WalletFits
    <3>3. AnswerFits(q)'
      BY <1>2, <2>4, NoAddressIsAddress, MadeNumbers DEF AnswerFits, WalletInv
    <3> QED BY <3>1, <3>2, <3>3
  <2>6. JobsFit'
    BY <1>2, <2>1, <2>2, <2>3, <2>4, <2>5, JobSent DEF ImportJobFits
  <2> QED BY <1>2, <1>3, <1>6, <2>1, <2>2, <2>6
<1>12. ASSUME NEW w \in Made, NEW word \in {"keep", "delete"}, told' = [told EXCEPT ![w] = word],
              UNCHANGED <<existingWallet, crossed, isSubmitting>>, isDeleting' \in BOOLEAN
       PROVE  FlagsTyped' /\ ToldGrows /\ told'[w] = word
  <2>1. w \in Numbers \ {0}
    BY MadeNumbers DEF WalletInv
  <2> QED BY <1>2, <1>12, <2>1 DEF WalletInv, FlagsTyped, ToldGrows
<1>13. Comparing => verify.wallet \in Made
  BY MadeNumbers DEF Comparing, ViewInv, NeverBlank, WalletInv, ViewTyped
<1>14. CASE KeepWallet
  <2>1. FlagsTyped' /\ ToldGrows
    <3>1. UNCHANGED <<existingWallet, crossed, isSubmitting, isDeleting>> /\ isDeleting' \in BOOLEAN
      BY <1>14 DEF KeepWallet, flags, WalletInv, FlagsTyped
    <3> QED BY <1>12, <1>13, <1>14, <3>1 DEF KeepWallet
  <2> QED BY <1>2, <1>4, <1>6, <1>7, <1>14, <2>1 DEF KeepWallet, flags
<1>15. ASSUME NEW w \in Made, NEW kind \in {"delete", "drop"}, told' = [told EXCEPT ![w] = "delete"],
              UNCHANGED <<merchantId, view, existingWallet, crossed, isSubmitting>>, isDeleting' \in BOOLEAN,
              Send(Job(kind, "delete", merchantId, w))
       PROVE  WalletInv'
  <2>1. FlagsTyped' /\ ToldGrows /\ told'[w] = "delete"
    BY <1>12, <1>15
  <2>2. PICK m \in Merchants : m = merchantId
    BY <1>2
  <2>3. PICK q : q = Job(kind, "delete", m, w)
    OBVIOUS
  <2>4. ImportJobFits(q)' /\ q.kind = kind
    BY <1>1, <1>2, <1>15, <2>1, <2>3, NewJob
  <2>5. JobsFit'
    BY <1>2, <1>15, <2>1, <2>2, <2>3, <2>4, JobSent
  <2> QED BY <1>2, <1>3, <1>6, <1>15, <2>1, <2>5
<1>16. CASE handleVerifyDelete
  <2>1. PICK w \in Made : w = verify.wallet
    BY <1>13, <1>16 DEF handleVerifyDelete
  <2>2. /\ told' = [told EXCEPT ![w] = "delete"] /\ Send(Job("drop", "delete", merchantId, w))
        /\ UNCHANGED <<merchantId, view, existingWallet, crossed, isSubmitting>> /\ isDeleting' \in BOOLEAN
    BY <1>16, <2>1 DEF handleVerifyDelete, flags, WalletInv, FlagsTyped
  <2> QED BY <1>15, <2>2
<1>17. CASE handleDelete
  <2>1. PICK w \in Made : w = selectedWallet
    BY <1>17, MadeNumbers DEF handleDelete, ViewInv, NeverBlank, WalletInv, ViewTyped
  <2>2. /\ told' = [told EXCEPT ![w] = "delete"] /\ Send(Job("delete", "delete", merchantId, w))
        /\ UNCHANGED <<merchantId, view, existingWallet, crossed, isSubmitting>> /\ isDeleting' \in BOOLEAN
    BY <1>17, <2>1 DEF handleDelete
  <2> QED BY <1>15, <2>2
<1> QED BY <1>8, <1>9, <1>10, <1>11, <1>14, <1>16, <1>17 DEF UserSteps

-----------------------------------------------------------------------------
(* What the views show, step by step.                                       *)
ViewFacts ==
  /\ AddressIsOfWallet /\ NeverBlank /\ DetectedPathIsShown
  /\ mode = "overview" => form.key = None
ViewJobs ==
  /\ \A i \in Slots : ViewFits(request[i])
  /\ ~crossed => \A i, j \in Slots : request[i].kind = "first" /\ request[j].kind = "first" => i = j
ViewKept ==
  /\ mode' = "verify" => mode = "verify" /\ verify'.wallet = verify.wallet
  /\ mode' = "detail" => mode = "detail" /\ selectedWallet' = selectedWallet
  /\ crossed' = crossed

(* ViewInv in two halves: the page, and the answers on their way.           *)
LEMMA ViewInvParts ==
  (ViewInv <=> ViewFacts /\ ViewJobs) /\ (ViewInv' <=> ViewFacts' /\ ViewJobs')
BY DEF ViewInv, ViewFacts, ViewJobs

(* What a request is about is on display as it was.                         *)
LEMMA ViewKeptIfSame ==
  ASSUME UNCHANGED <<view, crossed>> \/ (resetState /\ UNCHANGED crossed)
  PROVE  ViewKept
BY DEF view, resetState, ViewKept

(* The page shows what it showed.                                           *)
LEMMA ViewFactsStay ==
  ASSUME ViewFacts, UNCHANGED <<view, crossed>>
  PROVE  ViewFacts'
BY DEF ViewFacts, AddressIsOfWallet, Comparing, NeverBlank, DetectedPathIsShown, Detected, view

(* An empty form shows nothing that could be wrong.                         *)
LEMMA ViewFactsReset ==
  ASSUME resetState
  PROVE  ViewFacts'
BY DEF resetState, ViewFacts, AddressIsOfWallet, Comparing, NeverBlank, DetectedPathIsShown, Detected,
       EmptyForm

(* An answer on its way stays true of what is on display.                   *)
LEMMA ViewFitsStays ==
  ASSUME ViewKept, NEW r, ViewFits(r)
  PROVE  ViewFits(r)'
BY DEF ViewKept, ViewFits

(* No request changes.                                                      *)
LEMMA ViewJobsStay ==
  ASSUME ViewJobs, ViewKept, UNCHANGED request
  PROVE  ViewJobs'
BY DEF ViewJobs, ViewKept, ViewFits

(* One request goes on.                                                     *)
LEMMA ViewJobsProceed ==
  ASSUME WalletInv, ViewJobs, ViewKept, NEW i \in Slots, NEW q, GoesOn(i, q), ViewFits(q)',
         q.kind = "first" => \/ request[i].kind = "first"
                             \/ \A j \in Slots : request[j].kind # "first"
  PROVE  ViewJobs'
<1>1. /\ DOMAIN request' = Slots /\ request'[i] = q
      /\ \A j \in Slots \ {i} : request'[j] = request[j]
  BY SlotChanges DEF WalletInv, ImportJobsFit, GoesOn
<1>2. ASSUME NEW j \in Slots PROVE ViewFits(request[j])'
  <2>1. CASE j = i
    BY <1>1, <2>1 DEF ViewFits
  <2>2. CASE j # i
    BY <1>1, <2>2 DEF ViewFits, ViewKept, ViewJobs
  <2> QED BY <2>1, <2>2
<1>3. ASSUME ~crossed', NEW j \in Slots, NEW k \in Slots, request'[j].kind = "first", request'[k].kind = "first"
      PROVE  j = k
  BY <1>1, <1>3 DEF ViewJobs, ViewKept
<1> QED BY <1>2, <1>3 DEF ViewJobs

(* A free slot says nothing.                                                *)
LEMMA FreeViewFits == ViewFits(Free)'
BY FreeIsNoJob DEF ViewFits

(* One request ends.                                                        *)
LEMMA ViewJobsEnd ==
  ASSUME WalletInv, ViewJobs, ViewKept, NEW i \in Slots, Ends(i)
  PROVE  ViewJobs'
BY ViewJobsProceed, FreeViewFits, FreeIsNoJob DEF Ends, GoesOn

(* The server answers with addresses of the wallet asked for.               *)
LEMMA ServerStepsShown ==
  ASSUME WalletInv, ViewInv,
         UNCHANGED <<view, history>>,
         UNCHANGED request \/ \E i \in Slots, ok \in BOOLEAN, a \in Address :
           request[i] # Free /\ GoesOn(i, Reply(request[i], ok, a))
  PROVE  ViewInv'
<1>1. ViewKept /\ ViewFacts'
  BY ViewKeptIfSame, ViewFactsStay, ViewInvParts DEF history
<1>2. CASE UNCHANGED request
  BY <1>1, <1>2, ViewJobsStay, ViewInvParts
<1>3. ASSUME NEW i \in Slots, NEW ok \in BOOLEAN, NEW a \in Address,
             request[i] # Free, GoesOn(i, Reply(request[i], ok, a))
      PROVE  ViewJobs'
  <2>1. PICK r \in ImportJobs : r = request[i]
    BY <1>3, JobKnown
  <2>2. PICK q : q = Reply(r, ok, a)
    OBVIOUS
  <2>3. q.kind = r.kind /\ q.stage = r.stage /\ q.wallet = r.wallet
    BY <2>2, Replied
  <2>4. ViewFits(r)
    BY <2>1, ViewInvParts DEF ViewJobs
  <2>5. ViewFits(r)'
    BY <1>1, <2>4, ViewFitsStays
  <2>6. ViewFits(q)'
    BY <2>3, <2>5 DEF ViewFits
  <2> QED BY <1>1, <1>3, <2>1, <2>2, <2>3, <2>6, ViewJobsProceed, ViewInvParts
<1> QED BY <1>1, <1>2, <1>3, ViewInvParts

(* The handlers show what they were answered.                               *)
LEMMA PageStepsShown ==
  ASSUME WalletInv, ViewInv, NEW i \in Slots, PageSteps(i)
  PROVE  ViewInv'
<1>1. PICK r \in ImportJobs : r = request[i] /\ r # Free /\ ImportJobFits(r)
  BY JobKnown DEF PageSteps, DataLoaded, FirstAddressLoaded, ImportCreated, ImportListed, ImportDerived,
                  DeleteGoesOn, DeleteListed, VerifyDeleteGoesOn, VerifyDeleteListed, AnsweredAt, Arrived
<1>2. UNCHANGED crossed /\ r.at = "page"
  BY <1>1 DEF PageSteps, DataLoaded, FirstAddressLoaded, ImportCreated, ImportListed, ImportDerived,
         DeleteGoesOn, DeleteListed, VerifyDeleteGoesOn, VerifyDeleteListed, history, AnsweredAt, Arrived
<1>3. ViewFacts /\ ViewJobs /\ ViewFits(r)
  BY <1>1, ViewInvParts DEF ViewJobs
<1>4. r.stage \in {"derive", "addresses"} => r.answer = NoAddress \/ r.answer.wallet = r.wallet
  BY <1>1, <1>2 DEF ImportJobFits, AnswerFits
<1>5. ASSUME ViewFacts', ViewKept, Ends(i) PROVE ViewInv'
  BY <1>3, <1>5, ViewJobsEnd, ViewInvParts
<1>6. ASSUME UNCHANGED view \/ resetState, Ends(i) PROVE ViewInv'
  <2>1. ViewFacts' /\ ViewKept
    BY <1>2, <1>3, <1>6, ViewFactsStay, ViewFactsReset, ViewKeptIfSame
  <2> QED BY <1>5, <1>6, <2>1
<1>7. ASSUME UNCHANGED view, GoesOn(i, GoesTo(r, "list")), r.kind # "first" PROVE ViewInv'
  <2>1. PICK q : q = GoesTo(r, "list")
    OBVIOUS
  <2>2. q.kind = r.kind /\ q.stage = "list"
    BY <2>1 DEF GoesTo, ImportJobs
  <2>3. ViewFacts' /\ ViewKept
    BY <1>2, <1>3, <1>7, ViewFactsStay, ViewKeptIfSame
  <2>4. ViewFits(q)'
    BY <1>7, <2>2 DEF ViewFits
  <2> QED BY <1>3, <1>7, <2>1, <2>2, <2>3, <2>4, ViewJobsProceed, ViewInvParts
<1>11. CASE DataLoaded(i)
  BY <1>6, <1>11 DEF DataLoaded
<1>12. CASE FirstAddressLoaded(i)
  <2>1. /\ r.kind = "first" /\ Ends(i)
        /\ UNCHANGED <<mode, selectedBlockchain, form, selectedWallet, verify>>
        /\ firstAddress' = IF r.ok /\ r.answer # NoAddress THEN r.answer ELSE firstAddress
    BY <1>1, <1>12 DEF FirstAddressLoaded, Arrived
  <2>2. r.stage = "addresses"
    BY <1>1, <2>1 DEF ImportJobFits, StepFits
  <2>3. mode = "detail" /\ ~crossed => selectedWallet = r.wallet
    BY <1>3, <2>1 DEF ViewFits
  <2>4. ViewFacts' /\ ViewKept
    BY <1>2, <1>3, <1>4, <2>1, <2>2, <2>3
    DEF ViewFacts, AddressIsOfWallet, Comparing, NeverBlank, DetectedPathIsShown, Detected, ViewKept
  <2> QED BY <1>5, <2>1, <2>4
<1>13. CASE ImportCreated(i)
  <2>1. r.kind = "import" /\ UNCHANGED view /\ (Ends(i) \/ GoesOn(i, GoesTo(r, "list")))
    BY <1>1, <1>13 DEF ImportCreated, AnsweredAt, Arrived
  <2> QED BY <1>6, <1>7, <2>1
<1>14. CASE ImportListed(i)
  <2>1. r.kind = "import"
    BY <1>1, <1>14 DEF ImportListed, AnsweredAt, Arrived
  <2>2. PICK w : w = r.answer.wallet
    OBVIOUS
  <2>3. CASE /\ w # 0 /\ mode' = "verify"
             /\ verify' = [verify EXCEPT !.wallet = w, !.loading = TRUE, !.help = FALSE]
             /\ GoesOn(i, [GoesTo(r, "derive") EXCEPT !.wallet = w])
             /\ UNCHANGED <<selectedBlockchain, form, selectedWallet, firstAddress, isSubmitting>>
    <3>1. PICK q : q = [GoesTo(r, "derive") EXCEPT !.wallet = w]
      OBVIOUS
    <3>2. q.kind = "import" /\ q.wallet = w /\ q.stage = "derive" /\ w \in Numbers
      <4>1. w \in Numbers /\ "derive" \in ImportStages
        BY <1>1, <2>2, MadeNumbers DEF ImportJobFits, AnswerFits, ImportJobs, ImportStages, Address
      <4>2. PICK p : p = GoesTo(r, "derive")
        OBVIOUS
      <4>3. p \in ImportJobs /\ p.kind = "import" /\ p.stage = "derive"
        BY <2>1, <4>1, <4>2 DEF GoesTo, ImportJobs
      <4>4. q = [p EXCEPT !.wallet = w]
        BY <3>1, <4>2
      <4> QED BY <4>1, <4>3, <4>4 DEF ImportJobs
    <3>3. verify'.wallet = w /\ verify'.loading
      BY <2>3 DEF WalletInv, ViewTyped
    <3>4. ViewFacts'
      BY <1>3, <2>3, <3>3
      DEF ViewFacts, AddressIsOfWallet, Comparing, NeverBlank, DetectedPathIsShown, Detected
    <3>5. /\ request'[i] = q /\ \A j \in Slots \ {i} : request'[j] = request[j]
      BY <2>3, <3>1, SlotChanges DEF WalletInv, ImportJobsFit, GoesOn
    <3>6. \A j \in Slots \ {i} : request[j].kind # "import"
      BY <1>1, <2>1 DEF WalletInv, OneImport, Importing
    <3>7. ASSUME NEW j \in Slots PROVE ViewFits(request[j])'
      BY <2>1, <2>3, <3>2, <3>3, <3>5, <3>6 DEF ViewFits
    <3>8. ~crossed' => \A j, k \in Slots : request'[j].kind = "first" /\ request'[k].kind = "first" => j = k
      BY <1>2, <1>3, <3>2, <3>5 DEF ViewJobs
    <3> QED BY <3>4, <3>7, <3>8, ViewInvParts DEF ViewJobs
  <2>4. CASE resetState /\ Ends(i)
    BY <1>6, <2>4
  <2>5. CASE Ends(i) /\ UNCHANGED view
    BY <1>6, <2>5
  <2> QED BY <1>1, <1>14, <2>2, <2>3, <2>4, <2>5 DEF ImportListed
<1>15. CASE ImportDerived(i)
  <2>1. /\ r.kind = "import" /\ r.stage = "derive" /\ Ends(i)
        /\ verify' = [verify EXCEPT !.address = r.answer, !.loading = FALSE]
        /\ UNCHANGED <<mode, selectedBlockchain, form, selectedWallet, firstAddress>>
    BY <1>1, <1>15 DEF ImportDerived, AnsweredAt, Arrived
  <2>2. verify'.wallet = verify.wallet /\ verify'.address = r.answer
    BY <2>1 DEF WalletInv, ViewTyped
  <2>3. mode = "verify" => verify.wallet = r.wallet
    BY <1>3, <2>1 DEF ViewFits
  <2>4. ViewFacts' /\ ViewKept
    BY <1>2, <1>3, <1>4, <2>1, <2>2, <2>3
    DEF ViewFacts, AddressIsOfWallet, Comparing, NeverBlank, DetectedPathIsShown, Detected, ViewKept
  <2> QED BY <1>5, <2>1, <2>4
<1>16. CASE DeleteGoesOn(i)
  <2>1. r.kind = "delete" /\ UNCHANGED view /\ (Ends(i) \/ GoesOn(i, GoesTo(r, "list")))
    BY <1>1, <1>16 DEF DeleteGoesOn, AnsweredAt, Arrived
  <2> QED BY <1>6, <1>7, <2>1
<1>17. CASE DeleteListed(i)
  BY <1>6, <1>17 DEF DeleteListed
<1>18. CASE VerifyDeleteGoesOn(i)
  <2>1. r.kind = "drop" /\ UNCHANGED view /\ (Ends(i) \/ GoesOn(i, GoesTo(r, "list")))
    BY <1>1, <1>18 DEF VerifyDeleteGoesOn, AnsweredAt, Arrived
  <2> QED BY <1>6, <1>7, <2>1
<1>19. CASE VerifyDeleteListed(i)
  <2>1. /\ Ends(i) /\ UNCHANGED <<selectedBlockchain, form, selectedWallet, firstAddress>>
        /\ (mode' = "import" \/ UNCHANGED <<mode, verify>>)
    BY <1>19 DEF VerifyDeleteListed
  <2>2. ViewFacts' /\ ViewKept
    BY <1>2, <1>3, <2>1
    DEF ViewFacts, AddressIsOfWallet, Comparing, NeverBlank, DetectedPathIsShown, Detected, ViewKept
  <2> QED BY <1>5, <2>1, <2>2
<1> QED BY <1>11, <1>12, <1>13, <1>14, <1>15, <1>16, <1>17, <1>18, <1>19 DEF PageSteps

(* The user opens, edits and leaves the views.                              *)
LEMMA UserStepsShown ==
  ASSUME WalletInv, ViewInv, UserSteps
  PROVE  ViewInv'
<1>1. ViewFacts /\ ViewJobs
  BY ViewInvParts
<1>2. ASSUME NEW q, q.kind # "first", q.kind # "import" \/ q.stage # "derive", Send(q),
             UNCHANGED <<view, crossed>>
      PROVE  ViewInv'
  <2>1. PICK i \in Slots : GoesOn(i, q)
    BY <1>2, SlotSent DEF WalletInv, ImportJobsFit, GoesOn
  <2>2. ViewFits(q)'
    BY <1>2 DEF ViewFits
  <2>3. ViewFacts' /\ ViewKept
    BY <1>1, <1>2, ViewFactsStay, ViewKeptIfSame
  <2> QED BY <1>1, <1>2, <2>1, <2>2, <2>3, ViewJobsProceed, ViewInvParts
<1>3. ASSUME ViewFacts', ViewKept, UNCHANGED request PROVE ViewInv'
  BY <1>1, <1>3, ViewJobsStay, ViewInvParts
<1>5. resetState /\ UNCHANGED crossed => ViewFacts' /\ ViewKept
  BY ViewFactsReset, ViewKeptIfSame
<1>6. CASE \E m \in Merchants : ChangeMerchant(m)
  <2>1. PICK m \in Merchants : ChangeMerchant(m)
    BY <1>6
  <2>2. PICK q : q = Job("load", "list", m, 0)
    OBVIOUS
  <2>3. Send(q) /\ UNCHANGED <<view, crossed>> /\ q.kind = "load"
    BY <2>1, <2>2 DEF ChangeMerchant, loadData, history, Job
  <2> QED BY <1>2, <2>3
<1>7. CASE GoBack
  BY <1>3, <1>5, <1>7 DEF GoBack, history
<1>8. CASE KeepWallet
  BY <1>3, <1>5, <1>8 DEF KeepWallet
<1>9. CASE handleSubmitImport
  <2>1. PICK q : q = [Job("import", "create", merchantId, 0) EXCEPT !.key = form.key]
    OBVIOUS
  <2>2. Send(q) /\ UNCHANGED <<view, crossed>>
    BY <1>9, <2>1 DEF handleSubmitImport, history
  <2>3. q.kind = "import" /\ q.stage = "create"
    BY <2>1 DEF Job
  <2> QED BY <1>2, <2>2, <2>3
<1>10. CASE handleVerifyDelete
  <2>1. PICK q : q = Job("drop", "delete", merchantId, verify.wallet)
    OBVIOUS
  <2>2. Send(q) /\ UNCHANGED <<view, crossed>>
    BY <1>10, <2>1 DEF handleVerifyDelete
  <2>3. q.kind = "drop"
    BY <2>1 DEF Job
  <2> QED BY <1>2, <2>2, <2>3
<1>11. CASE handleDelete
  <2>1. PICK q : q = Job("delete", "delete", merchantId, selectedWallet)
    OBVIOUS
  <2>2. Send(q) /\ UNCHANGED <<view, crossed>>
    BY <1>11, <2>1 DEF handleDelete
  <2>3. q.kind = "delete"
    BY <2>1 DEF Job
  <2> QED BY <1>2, <2>2, <2>3
<1>12. CASE ShowMismatchHelp
  <2>1. /\ verify' = [verify EXCEPT !.help = TRUE] /\ mode = "verify" /\ UNCHANGED <<crossed, request>>
        /\ UNCHANGED <<mode, form, selectedWallet, firstAddress>>
    BY <1>12 DEF ShowMismatchHelp, Comparing, history
  <2>2. /\ verify'.wallet = verify.wallet /\ verify'.address = verify.address
        /\ verify'.loading = verify.loading
    BY <2>1 DEF WalletInv, ViewTyped
  <2>3. ViewFacts' /\ ViewKept
    BY <1>1, <2>1, <2>2
    DEF ViewFacts, AddressIsOfWallet, Comparing, NeverBlank, DetectedPathIsShown, Detected, ViewKept
  <2> QED BY <1>3, <2>1, <2>3
<1>13. CASE OpenImport
  <2>1. ViewFacts' /\ ViewKept
    BY <1>1, <1>13
    DEF OpenImport, ViewFacts, AddressIsOfWallet, Comparing, NeverBlank, DetectedPathIsShown, Detected,
        ViewKept, history
  <2> QED BY <1>3, <1>13, <2>1 DEF OpenImport
<1>14. CASE SelectBlockchain \/ \E p \in Paths : EditPath(p)
  <2>1. /\ mode = "import" /\ UNCHANGED <<mode, selectedWallet, firstAddress, verify, crossed, request>>
        /\ form' = form \/ (~Detected /\ \E p : form' = [form EXCEPT !.path = p])
    BY <1>14 DEF SelectBlockchain, EditPath, history
  <2>2. form'.key = form.key /\ (Detected => form' = form)
    BY <2>1 DEF WalletInv, ViewTyped
  <2>3. ViewFacts' /\ ViewKept
    BY <1>1, <2>1, <2>2
    DEF ViewFacts, AddressIsOfWallet, Comparing, NeverBlank, DetectedPathIsShown, Detected, ViewKept
  <2> QED BY <1>3, <2>1, <2>3
<1>15. CASE \E k \in Keys : PasteKey(k)
  <2>1. PICK k \in Keys : PasteKey(k)
    BY <1>15
  <2>2. /\ mode = "import" /\ UNCHANGED <<mode, selectedWallet, firstAddress, verify, crossed, request>>
        /\ form'.key = k /\ (PathOf[k] # None => form'.path = PathOf[k])
    BY <2>1 DEF PasteKey, history
  <2>3. ViewFacts' /\ ViewKept
    BY <1>1, <2>2
    DEF ViewFacts, AddressIsOfWallet, Comparing, NeverBlank, DetectedPathIsShown, Detected, ViewKept
  <2> QED BY <1>3, <2>2, <2>3
<1>16. CASE handleCardClick
  <2>1. mode = "overview" /\ UNCHANGED verify
    BY <1>16 DEF handleCardClick
  <2>2. CASE /\ existingWallet # 0 /\ mode' = "detail" /\ selectedWallet' = existingWallet
             /\ firstAddress' = NoAddress
             /\ Send(Job("first", "addresses", merchantId, existingWallet))
             /\ crossed' = (crossed \/ \E i \in Slots : request[i].kind = "first")
             /\ UNCHANGED form
    <3>1. PICK q : q = Job("first", "addresses", merchantId, existingWallet)
      OBVIOUS
    <3>2. q.kind = "first" /\ q.wallet = existingWallet /\ q.stage = "addresses"
      BY <3>1 DEF Job
    <3>3. PICK i \in Slots : GoesOn(i, q)
      BY <2>2, <3>1, SlotSent DEF WalletInv, ImportJobsFit, GoesOn
    <3>4. /\ request'[i] = q /\ \A j \in Slots \ {i} : request'[j] = request[j]
      BY <3>3, SlotChanges DEF WalletInv, ImportJobsFit, GoesOn
    <3>5. ~crossed' => \A j \in Slots : request[j].kind # "first"
      BY <2>2, Zenon
    <3>6. ViewFits(q)'
      BY <2>2, <3>2 DEF ViewFits
    <3>7. ASSUME NEW j \in Slots PROVE ViewFits(request[j])'
      <4>1. CASE j = i
        BY <3>4, <3>6, <4>1 DEF ViewFits
      <4>2. CASE j # i
        BY <2>2, <3>4, <3>5, <4>2 DEF ViewFits
      <4> QED BY <4>1, <4>2
    <3>8. ~crossed' => \A j, k \in Slots : request'[j].kind = "first" /\ request'[k].kind = "first" => j = k
      BY <3>4, <3>5
    <3>9. ViewFacts'
      BY <1>1, <2>1, <2>2
      DEF ViewFacts, AddressIsOfWallet, Comparing, NeverBlank, DetectedPathIsShown, Detected
    <3> QED BY <3>7, <3>8, <3>9, ViewInvParts DEF ViewJobs
  <2>3. CASE mode' = "import" /\ form' = [form EXCEPT !.path = DefaultPath]
             /\ UNCHANGED <<selectedWallet, firstAddress, request, crossed>>
    <3>1. form'.key = form.key /\ form.key = None
      BY <1>1, <2>1, <2>3 DEF WalletInv, ViewTyped, ViewFacts
    <3>2. ViewFacts' /\ ViewKept
      BY <1>1, <2>1, <2>3, <3>1
      DEF ViewFacts, AddressIsOfWallet, Comparing, NeverBlank, DetectedPathIsShown, Detected, ViewKept
    <3> QED BY <1>3, <2>3, <3>2
  <2> QED BY <1>16, <2>2, <2>3 DEF handleCardClick
<1> QED BY <1>6, <1>7, <1>8, <1>9, <1>10, <1>11, <1>12, <1>13, <1>14, <1>15, <1>16 DEF UserSteps

-----------------------------------------------------------------------------
(* A user who waits, and loses nothing: one handler at a time.              *)
CalmFacts ==
  /\ Alone /\ KeptLive /\ VerifyLive /\ (Quiet => CardShows)
  /\ \A i \in Slots : request[i] # Free => CalmFits(request[i])

(* A user who has waited and lost nothing had done so before.               *)
LEMMA CalmBefore ==
  ASSUME WalletInv, CalmInv, Calm', Waited \/ UserClicks, faults' = faults \/ faults' = faults + 1
  PROVE  CalmFacts /\ UNCHANGED faults /\ (UserClicks => Quiet)
<1>1. faults \in Nat /\ impatient \in Nat
  BY DEF WalletInv, CountsTyped
<1>2. faults' = 0 /\ impatient' = 0
  BY DEF Calm
<1>3. faults = 0
  BY <1>1, <1>2
<1>4. impatient = 0 /\ (UserClicks => Quiet)
  BY <1>1, <1>2 DEF Waited, UserClicks
<1> QED BY <1>2, <1>3, <1>4 DEF Calm, CalmInv, CalmFacts

(* The only request goes on, or ends.                                       *)
LEMMA LoneProceeds ==
  ASSUME DOMAIN request = Slots, Alone, NEW i \in Slots, request[i] # Free, NEW q, GoesOn(i, q)
  PROVE  /\ Alone' /\ \A j \in Slots : request'[j] # Free => j = i /\ request'[j] = q
         /\ request'[i] = q /\ (Quiet' <=> q = Free)
<1>1. request'[i] = q /\ \A j \in Slots \ {i} : request'[j] = request[j] /\ request[j] = Free
  BY SlotChanges DEF GoesOn, Alone
<1> QED BY <1>1 DEF Alone, Quiet, FreeSlots

(* The first request is the only one.                                       *)
LEMMA QuietSends ==
  ASSUME DOMAIN request = Slots, Quiet, NEW q, Send(q), q # Free
  PROVE  /\ Alone' /\ \A j \in Slots : request'[j] # Free => request'[j] = q
         /\ ~Quiet'
<1>1. PICK i \in Slots : request' = [request EXCEPT ![i] = q]
  BY SlotSent
<1>2. \A j \in Slots : request[j] = Free
  BY DEF Quiet, FreeSlots
<1>3. request'[i] = q /\ \A j \in Slots \ {i} : request'[j] = Free
  BY <1>1, <1>2, SlotChanges
<1> QED BY <1>3 DEF Alone, Quiet, FreeSlots

(* What has to be shown after a step of a user who waits.                   *)
LEMMA CalmFrom ==
  ASSUME NEW q, Alone', \A j \in Slots : request'[j] # Free => request'[j] = q,
         q # Free => CalmFits(q)', KeptLive', VerifyLive', Quiet' => CardShows'
  PROVE  CalmInv'
<1>1. ASSUME NEW j \in Slots, request'[j] # Free PROVE CalmFits(request[j])'
  BY <1>1 DEF CalmFits, CardShows
<1> QED BY <1>1 DEF CalmInv

(* The same wallets are configured.                                         *)
LEMMA SameWalletOf ==
  ASSUME SameWallets, WalletInv
  PROVE  Made' = Made /\ \A m : WalletOf(m)' = WalletOf(m)
<1>1. Made' = Made
  BY DEF SameWallets, WalletInv, WalletsTyped, Made
<1>2. \A m : Configured(m)' = Configured(m)
  BY <1>1 DEF SameWallets, Configured
<1>3. ASSUME NEW m PROVE WalletOf(m)' = WalletOf(m)
  <2>1. Configured(m)' = Configured(m)
    BY <1>2
  <2>2. WalletOf(m) = IF Configured(m) = {} THEN 0 ELSE CHOOSE w \in Configured(m) : TRUE
    BY DEF WalletOf
  <2>3. WalletOf(m)' = IF Configured(m)' = {} THEN 0 ELSE CHOOSE w \in Configured(m)' : TRUE
    BY DEF WalletOf
  <2> QED BY <2>1, <2>2, <2>3
<1> QED BY <1>1, <1>3

(* The wallet that is being verified was made.                              *)
LEMMA VerifiedIsMade ==
  ASSUME WalletInv, ViewInv, mode = "verify"
  PROVE  verify.wallet \in Made
BY MadeNumbers DEF ViewInv, NeverBlank, WalletInv, ViewTyped

(* The only request is answered.                                            *)
LEMMA CalmAnswered ==
  ASSUME WalletInv, ViewInv, CalmFacts, NEW i \in Slots, request[i] # Free, request[i].at = "server",
         NEW ok \in BOOLEAN, NEW a \in Address, GoesOn(i, Reply(request[i], ok, a)),
         UNCHANGED <<merchantId, view, existingWallet, told>>, KeptLive',
         \A w \in Made : made[w].live =>
           made'[w].live \/ request[i].kind = "delete" \/ (ok /\ request[i].kind = "drop"),
         request[i].stage = "list" => ok /\ a.wallet = WalletOf(merchantId)',
         CardShows /\ (~ok \/ request[i].stage \in {"derive", "addresses"}) => CardShows'
  PROVE  CalmInv'
<1>1. PICK r \in ImportJobs : r = request[i] /\ ImportJobFits(r)
  BY JobKnown
<1>2. PICK q : q = Reply(r, ok, a)
  OBVIOUS
<1>3. /\ q.kind = r.kind /\ q.stage = r.stage /\ q.at = "page" /\ q.merchant = r.merchant
      /\ q.wallet = r.wallet /\ q.ok = ok /\ q.answer = a /\ q # Free
  BY <1>2, Replied
<1>4. /\ Alone' /\ \A j \in Slots : request'[j] # Free => j = i /\ request'[j] = q
      /\ request'[i] = q /\ ~Quiet'
  BY <1>1, <1>2, <1>3, LoneProceeds DEF WalletInv, ImportJobsFit, CalmFacts
<1>5. CalmFits(r)
  BY <1>1 DEF CalmFacts
<1>6. UNCHANGED <<mode, verify>>
  BY DEF view
<1>7. r.kind = "first" => r.stage = "addresses"
  BY <1>1 DEF ImportJobFits, StepFits
<1>8. CalmFits(q)'
  BY <1>1, <1>3, <1>5, <1>6, <1>7 DEF CalmFits
<1>9. VerifyLive'
  <2>1. ASSUME mode = "verify" PROVE made'[verify.wallet].live \/ Dropped(q)
    <3>1. verify.wallet \in Made
      BY <2>1, VerifiedIsMade
    <3>2. r.kind # "delete"
      BY <2>1, <1>5 DEF CalmFits
    <3>3. CASE made[verify.wallet].live
      BY <1>1, <1>3, <3>1, <3>2, <3>3 DEF Dropped
    <3>4. CASE \E j \in Slots : Dropped(request[j])
      <4>1. PICK j \in Slots : Dropped(request[j])
        BY <3>4
      <4>2. request[j] # Free
        BY <4>1, FreeIsNoJob DEF Dropped
      <4>3. Dropped(r)
        BY <1>1, <4>1, <4>2 DEF CalmFacts, Alone
      <4> QED BY <1>1, <1>3, <4>3 DEF Dropped
    <3> QED BY <2>1, <3>3, <3>4 DEF CalmFacts, VerifyLive
  <2> QED BY <1>4, <1>6, <2>1 DEF VerifyLive, Dropped
<1> QED BY <1>4, <1>8, <1>9, CalmFrom

(* The server's steps, for a user who waits.                                *)
LEMMA ServerStepsCalm ==
  ASSUME WalletInv, ViewInv, CalmFacts, NEW i \in Slots, ServerSteps(i)
  PROVE  CalmInv'
<1>1. PICK r \in ImportJobs : r = request[i] /\ r # Free /\ ImportJobFits(r) /\ r.at = "server"
  BY JobKnown DEF ServerSteps, ServeCreate, ServeList, ServeDelete, ServeDerive, ServeAddresses,
                  InServer, AtServer
<1>2. /\ UNCHANGED <<merchantId, view, flags, existingWallet, history, faults>> /\ Waited
      /\ UNCHANGED told
  BY DEF ServerSteps, ServeCreate, ServeList, ServeDelete, ServeDerive, ServeAddresses, history
<1>3. CalmFits(r) /\ KeptLive
  BY <1>1 DEF CalmFacts
<1>4. SameWallets => /\ KeptLive' /\ (CardShows => CardShows') /\ WalletOf(merchantId)' = WalletOf(merchantId)
                     /\ \A w \in Made : made'[w].live = made[w].live
  BY <1>2, <1>3, SameWalletOf DEF SameWallets, KeptLive, CardShows
<1>5. CASE ServeCreate(i)
  <2>1. PICK ok \in BOOLEAN :
          /\ made' = IF ok THEN Append(made, [merchant |-> r.merchant, key |-> r.key, live |-> TRUE,
                                              first |-> -1, last |-> -1]) ELSE made
          /\ GoesOn(i, Reply(r, ok, NoAddress)) /\ r.stage = "create"
    BY <1>1, <1>5 DEF ServeCreate, InServer
  <2>2. CASE ok
    <3>1. PICK w : w = [merchant |-> r.merchant, key |-> r.key, live |-> TRUE, first |-> -1, last |-> -1]
      OBVIOUS
    <3>2. made' = Append(made, w) /\ w.live
      BY <2>1, <2>2, <3>1
    <3>3. \A v \in Made' : IF v \in Made THEN made'[v] = made[v] ELSE made'[v] = w
      BY <3>2 DEF WalletInv, WalletsTyped, Made
    <3>4. KeptLive'
      BY <1>2, <1>3, <3>2, <3>3 DEF KeptLive
    <3>5. \A v \in Made : made'[v] = made[v]
      BY <3>2 DEF WalletInv, WalletsTyped, Made
    <3> QED BY <1>1, <1>2, <2>1, <2>2, <3>4, <3>5, NoAddressIsAddress, CalmAnswered
  <2>3. CASE ~ok
    <3>1. SameWallets
      BY <2>1, <2>3, SameIfUnchanged
    <3> QED BY <1>1, <1>2, <1>4, <2>1, <3>1, NoAddressIsAddress, CalmAnswered
  <2> QED BY <2>2, <2>3
<1>6. CASE ServeList(i)
  <2>1. PICK a : a = [NoAddress EXCEPT !.wallet = WalletOf(r.merchant)]
    OBVIOUS
  <2>2. a \in Address /\ a.wallet = WalletOf(r.merchant)
    BY <2>1, ConfiguredMade, MadeNumbers, WalletSetupAssumption
    DEF WalletInv, NoAddress, Address, Numbers
  <2>3. made' = made /\ GoesOn(i, Reply(r, TRUE, a)) /\ r.stage = "list"
    BY <1>1, <1>6, <2>1 DEF ServeList, InServer
  <2>4. SameWallets
    BY <2>3, SameIfUnchanged
  <2>5. r.merchant = merchantId
    BY <1>3 DEF CalmFits
  <2> QED BY <1>1, <1>2, <1>4, <2>2, <2>3, <2>4, <2>5, CalmAnswered
<1>7. CASE ServeDelete(i)
  <2>0. PICK ok \in BOOLEAN : ok <=> r.wallet \in Configured(r.merchant)
    <3>1. CASE r.wallet \in Configured(r.merchant)
      BY <3>1, Zenon
    <3>2. CASE r.wallet \notin Configured(r.merchant)
      BY <3>2, Zenon
    <3> QED BY <3>1, <3>2
  <2>1. /\ made' = IF ok THEN [made EXCEPT ![r.wallet].live = FALSE] ELSE made
        /\ GoesOn(i, Reply(r, ok, NoAddress)) /\ r.stage = "delete"
    BY <1>1, <1>7, <2>0 DEF ServeDelete, InServer
  <2>2. CASE ok
    <3>1. r.wallet \in Made /\ r.kind \in {"delete", "drop"} /\ told[r.wallet] = "delete"
      BY <1>1, <1>3, <2>1 DEF ImportJobFits, StepFits, WalletFits, ImportJobs, ImportKinds, CalmFits
    <3>2. Made' = Made /\ \A v \in Made \ {r.wallet} : made'[v] = made[v]
      BY <2>1, <2>2, <3>1 DEF Made, WalletInv, WalletsTyped
    <3>3. KeptLive'
      BY <1>2, <1>3, <3>1, <3>2 DEF KeptLive
    <3>4. \A w \in Made : made[w].live => made'[w].live \/ r.kind = "delete" \/ r.kind = "drop"
      BY <3>1
    <3> QED BY <1>1, <1>2, <2>1, <2>2, <3>3, <3>4, NoAddressIsAddress, CalmAnswered
  <2>3. CASE ~ok
    <3>1. SameWallets
      BY <2>1, <2>3, SameIfUnchanged
    <3> QED BY <1>1, <1>2, <1>4, <2>1, <3>1, NoAddressIsAddress, CalmAnswered
  <2> QED BY <2>2, <2>3
<1>8. ASSUME NEW ok \in BOOLEAN, NEW a \in Address, GoesOn(i, Reply(r, ok, a)), SameWallets, r.stage # "list"
      PROVE  CalmInv'
  BY <1>1, <1>2, <1>4, <1>8, CalmAnswered
<1>9. CASE ServeDerive(i)
  <2>1. PICK ok \in BOOLEAN :
          /\ ok = (made[r.wallet].live /\ NextIndex(r.wallet) <= MaxIndex)
          /\ made' = IF ok THEN Derived(r.wallet) ELSE made
          /\ GoesOn(i, Reply(r, ok, IF ok THEN [wallet |-> r.wallet, index |-> NextIndex(r.wallet)]
                                    ELSE NoAddress)) /\ r.stage = "derive"
    BY <1>1, <1>9 DEF ServeDerive, InServer
  <2>2. r.wallet \in Made
    BY <1>1, <2>1 DEF ImportJobFits, WalletFits
  <2>3. PICK a : a = IF ok THEN [wallet |-> r.wallet, index |-> NextIndex(r.wallet)] ELSE NoAddress
    OBVIOUS
  <2>4. a \in Address
    <3>1. CASE ok
      <4>1. NextIndex(r.wallet) \in 0..MaxIndex
        <5>1. made[r.wallet].live /\ NextIndex(r.wallet) <= MaxIndex
          BY <2>1, <3>1
        <5>2. NextIndex(r.wallet) \in 0..(MaxIndex + 1)
          BY <2>2, <5>1, NextIndexTyped DEF WalletInv
        <5>3. MaxIndex \in Nat
          BY WalletSetupAssumption
        <5> QED BY <5>1, <5>2, <5>3
      <4>2. r.wallet \in Numbers
        BY <2>2, MadeNumbers DEF WalletInv
      <4> QED BY <2>3, <3>1, <4>1, <4>2 DEF Address
    <3>2. CASE ~ok
      BY <2>3, <3>2, NoAddressIsAddress
    <3> QED BY <3>1, <3>2
  <2>5. SameWallets
    BY <2>1, <2>2, DerivedTyped, SameIfUnchanged DEF WalletInv
  <2> QED BY <1>8, <2>1, <2>3, <2>4, <2>5
<1>10. CASE ServeAddresses(i)
  <2>1. r.stage = "addresses" /\ r.wallet \in Made
    BY <1>1, <1>10 DEF ServeAddresses, InServer, ImportJobFits, StepFits, WalletFits, ImportJobs, ImportKinds
  <2>2. PICK a : a = IF made[r.wallet].live /\ made[r.wallet].first # -1
                     THEN [wallet |-> r.wallet, index |-> made[r.wallet].first] ELSE NoAddress
    OBVIOUS
  <2>3. made[r.wallet].first \in -1..MaxIndex /\ made[r.wallet].live \in BOOLEAN
    BY <2>1, MadeNumbers DEF WalletInv, WalletRows
  <2>4. a \in Address
    BY <2>1, <2>2, <2>3, NoAddressIsAddress, MadeNumbers, WalletSetupAssumption
    DEF WalletInv, Address, Numbers
  <2>5. GoesOn(i, Reply(r, made[r.wallet].live, a)) /\ UNCHANGED made
    BY <1>1, <1>10, <2>2 DEF ServeAddresses
  <2> QED BY <1>8, <2>1, <2>3, <2>4, <2>5, SameIfUnchanged
<1> QED BY <1>5, <1>6, <1>7, <1>9, <1>10 DEF ServerSteps

(* A customer's payment changes no wallet.                                  *)
LEMMA CustomerCalm ==
  ASSUME WalletInv, ViewInv, CalmFacts, NEW w \in Made, CustomerPays(w)
  PROVE  CalmInv'
<1>1. SameWallets
  BY DerivedTyped DEF CustomerPays, WalletInv
<1>2. UNCHANGED <<merchantId, mode, verify, existingWallet, told, request>>
  BY DEF CustomerPays, view, history
<1>3. Made' = Made /\ (\A m : WalletOf(m)' = WalletOf(m)) /\ \A v \in Made : made'[v].live = made[v].live
  BY <1>1, SameWalletOf DEF SameWallets
<1>4. KeptLive' /\ Alone' /\ (CardShows => CardShows') /\ (Quiet' <=> Quiet)
  BY <1>2, <1>3 DEF CalmFacts, KeptLive, Alone, CardShows, Quiet, FreeSlots
<1>5. VerifyLive'
  BY <1>2, <1>3, VerifiedIsMade DEF CalmFacts, VerifyLive, Dropped
<1>6. ASSUME NEW j \in Slots, request[j] # Free PROVE CalmFits(request[j])'
  BY <1>2, <1>3, <1>4, <1>6 DEF CalmFacts, CalmFits
<1> QED BY <1>2, <1>4, <1>5, <1>6 DEF CalmInv, CalmFacts

(* The card shows the wallet that the last answer was about.                *)
LEMMA PageStepsCalm ==
  ASSUME WalletInv, ViewInv, CalmFacts, NEW i \in Slots, PageSteps(i)
  PROVE  CalmInv'
<1>1. PICK r \in ImportJobs : r = request[i] /\ r # Free /\ ImportJobFits(r)
  BY JobKnown DEF PageSteps, DataLoaded, FirstAddressLoaded, ImportCreated, ImportListed, ImportDerived,
                  DeleteGoesOn, DeleteListed, VerifyDeleteGoesOn, VerifyDeleteListed, AnsweredAt, Arrived
<1>2. UNCHANGED <<made, merchantId, told>> /\ r.at = "page"
  BY <1>1 DEF PageSteps, DataLoaded, FirstAddressLoaded, ImportCreated, ImportListed, ImportDerived,
         DeleteGoesOn, DeleteListed, VerifyDeleteGoesOn, VerifyDeleteListed, history, AnsweredAt, Arrived
<1>3. CalmFits(r) /\ KeptLive' /\ \A m : WalletOf(m)' = WalletOf(m)
  <2>1. SameWallets
    BY <1>2, SameIfUnchanged
  <2>2. KeptLive'
    BY <1>2, <2>1, SameWalletOf DEF CalmFacts, KeptLive
  <2> QED BY <1>1, <2>1, <2>2, SameWalletOf DEF CalmFacts
<1>4. r.stage = "list" => r.ok /\ r.answer.wallet = WalletOf(merchantId)
  BY <1>2, <1>3 DEF CalmFits
<1>5. (CardShows /\ UNCHANGED existingWallet) \/ existingWallet' = WalletOf(merchantId) => CardShows'
  BY <1>2, <1>3 DEF CardShows
<1>6. mode = "verify" /\ ~Dropped(r) => made[verify.wallet].live
  <2>1. ASSUME NEW j \in Slots, Dropped(request[j]) PROVE Dropped(r)
    <3>1. request[j] # Free
      BY <2>1, FreeIsNoJob DEF Dropped
    <3> QED BY <1>1, <2>1, <3>1 DEF CalmFacts, Alone
  <2> QED BY <2>1 DEF CalmFacts, VerifyLive
<1>7. mode' # "verify" \/ (mode = "verify" /\ verify'.wallet = verify.wallet /\ ~Dropped(r)) => VerifyLive'
  BY <1>2, <1>6 DEF VerifyLive
<1>8. ASSUME Ends(i), VerifyLive', CardShows' PROVE CalmInv'
  <2>1. PICK q : q = Free
    OBVIOUS
  <2>2. GoesOn(i, q)
    BY <1>8, <2>1 DEF Ends, GoesOn
  <2>3. Alone' /\ \A j \in Slots : request'[j] # Free => request'[j] = q
    BY <1>1, <2>2, LoneProceeds DEF WalletInv, ImportJobsFit, CalmFacts
  <2> QED BY <1>3, <1>8, <2>1, <2>3, CalmFrom
<1>9. ASSUME NEW q, q # Free, GoesOn(i, q), CalmFits(q)', VerifyLive' \/ Dropped(q) PROVE CalmInv'
  <2>1. /\ Alone' /\ \A j \in Slots : request'[j] # Free => request'[j] = q
        /\ ~Quiet' /\ request'[i] = q
    BY <1>1, <1>9, LoneProceeds DEF WalletInv, ImportJobsFit, CalmFacts
  <2>2. VerifyLive'
    BY <1>9, <2>1 DEF VerifyLive, Dropped
  <2> QED BY <1>3, <1>9, <2>1, <2>2, CalmFrom
<1>10. ASSUME GoesOn(i, GoesTo(r, "list")), UNCHANGED view, r.kind # "first",
              r.kind = "drop" \/ VerifyLive'
       PROVE  CalmInv'
  <2>1. PICK q : q = GoesTo(r, "list")
    OBVIOUS
  <2>2. /\ q.kind = r.kind /\ q.stage = "list" /\ q.at = "server" /\ q.merchant = r.merchant
        /\ q.wallet = r.wallet /\ q # Free
    BY <1>1, <2>1, GoesToTyped DEF ImportStages, ImportJobs
  <2>3. CalmFits(q)'
    BY <1>2, <1>3, <1>10, <2>2 DEF CalmFits, view
  <2> QED BY <1>9, <1>10, <2>1, <2>2, <2>3 DEF Dropped
<1>11. CASE DataLoaded(i)
  <2>1. r.kind = "load" /\ r.stage = "list" /\ Ends(i) /\ UNCHANGED <<mode, verify>>
    BY <1>1, <1>11 DEF DataLoaded, Arrived, ImportJobFits, StepFits, view
  <2>2. existingWallet' = WalletOf(merchantId)
    BY <1>1, <1>4, <1>11, <2>1 DEF DataLoaded, Listed
  <2> QED BY <1>5, <1>7, <1>8, <2>1, <2>2 DEF Dropped
<1>12. CASE FirstAddressLoaded(i)
  <2>1. r.kind = "first" /\ Ends(i) /\ UNCHANGED <<mode, verify, existingWallet>>
    BY <1>1, <1>12 DEF FirstAddressLoaded, Arrived
  <2> QED BY <1>3, <1>5, <1>7, <1>8, <2>1 DEF Dropped, CalmFits
<1>13. CASE ImportCreated(i)
  <2>1. /\ r.kind = "import" /\ r.stage = "create" /\ UNCHANGED <<view, existingWallet>>
        /\ UNCHANGED <<mode, verify>>
    BY <1>1, <1>13 DEF ImportCreated, AnsweredAt, Arrived, view
  <2>2. VerifyLive'
    BY <1>7, <2>1 DEF Dropped, VerifyLive
  <2>3. CASE r.ok
    BY <1>1, <1>10, <1>13, <2>1, <2>2, <2>3 DEF ImportCreated
  <2>4. CASE ~r.ok
    BY <1>1, <1>3, <1>5, <1>8, <1>13, <2>1, <2>2, <2>4 DEF ImportCreated, CalmFits
  <2> QED BY <2>3, <2>4
<1>14. CASE ImportListed(i)
  <2>1. r.kind = "import" /\ r.stage = "list"
    BY <1>1, <1>14 DEF ImportListed, AnsweredAt, Arrived
  <2>2. PICK w : w = r.answer.wallet
    OBVIOUS
  <2>a. w = WalletOf(merchantId) /\ r.ok
    BY <1>4, <2>1, <2>2
  <2>3. CASE /\ w # 0 /\ existingWallet' = w /\ mode' = "verify"
             /\ verify' = [verify EXCEPT !.wallet = w, !.loading = TRUE, !.help = FALSE]
             /\ GoesOn(i, [GoesTo(r, "derive") EXCEPT !.wallet = w])
    <3>1. PICK p : p = GoesTo(r, "derive")
      OBVIOUS
    <3>2. PICK q : q = [p EXCEPT !.wallet = w]
      OBVIOUS
    <3>3. /\ p \in ImportJobs /\ p.kind = "import" /\ p.stage = "derive" /\ p.merchant = r.merchant
          /\ p.at = "server"
      BY <2>1, <3>1 DEF GoesTo, ImportJobs, ImportStages
    <3>4. /\ q.kind = "import" /\ q.stage = "derive" /\ q.merchant = r.merchant /\ q.at = "server"
      BY <3>2, <3>3 DEF ImportJobs
    <3>5. q # Free
      BY <3>4, FreeIsNoJob
    <3>6. CardShows'
      BY <1>5, <2>a, <2>3
    <3>7. CalmFits(q)'
      BY <1>2, <1>3, <3>4, <3>6 DEF CalmFits
    <3>8. verify'.wallet = w
      BY <2>3 DEF WalletInv, ViewTyped
    <3>9. made[w].live
      BY <2>a, <2>3, ConfiguredMade DEF Configured
    <3>10. VerifyLive'
      BY <1>2, <3>8, <3>9 DEF VerifyLive
    <3> QED BY <1>9, <2>3, <3>1, <3>2, <3>5, <3>7, <3>10
  <2>4. CASE existingWallet' = w /\ resetState /\ Ends(i)
    <3>1. mode' # "verify" /\ CardShows'
      BY <1>5, <2>a, <2>4 DEF resetState
    <3> QED BY <1>7, <1>8, <2>4, <3>1
  <2> QED BY <1>1, <1>14, <2>2, <2>a, <2>3, <2>4 DEF ImportListed, Listed
<1>15. CASE ImportDerived(i)
  <2>1. /\ r.kind = "import" /\ r.stage = "derive" /\ Ends(i) /\ UNCHANGED <<mode, existingWallet>>
        /\ verify' = [verify EXCEPT !.address = r.answer, !.loading = FALSE]
    BY <1>1, <1>15 DEF ImportDerived, AnsweredAt, Arrived
  <2>2. verify'.wallet = verify.wallet
    BY <2>1 DEF WalletInv, ViewTyped
  <2> QED BY <1>3, <1>5, <1>7, <1>8, <2>1, <2>2 DEF Dropped, CalmFits
<1>16. CASE DeleteGoesOn(i)
  <2>1. /\ r.kind = "delete" /\ r.stage = "delete" /\ UNCHANGED <<view, existingWallet>>
        /\ UNCHANGED <<mode, verify>>
    BY <1>1, <1>16 DEF DeleteGoesOn, AnsweredAt, Arrived, view
  <2>2. VerifyLive'
    BY <1>7, <2>1 DEF Dropped, VerifyLive
  <2>3. CASE r.ok
    BY <1>1, <1>10, <1>16, <2>1, <2>2, <2>3 DEF DeleteGoesOn
  <2>4. CASE ~r.ok
    BY <1>1, <1>3, <1>5, <1>8, <1>16, <2>1, <2>2, <2>4 DEF DeleteGoesOn, CalmFits
  <2> QED BY <2>3, <2>4
<1>17. CASE DeleteListed(i)
  <2>1. r.stage = "list" /\ Ends(i)
    BY <1>1, <1>17 DEF DeleteListed, AnsweredAt
  <2>2. existingWallet' = WalletOf(merchantId) /\ mode' = "overview"
    BY <1>1, <1>4, <1>17, <2>1 DEF DeleteListed, Listed, resetState
  <2> QED BY <1>5, <1>7, <1>8, <2>1, <2>2
<1>18. CASE VerifyDeleteGoesOn(i)
  <2>1. /\ r.kind = "drop" /\ r.stage = "delete" /\ UNCHANGED <<view, existingWallet>>
        /\ UNCHANGED <<mode, verify>>
    BY <1>1, <1>18 DEF VerifyDeleteGoesOn, AnsweredAt, Arrived, view
  <2>2. CASE r.ok
    BY <1>1, <1>10, <1>18, <2>1, <2>2 DEF VerifyDeleteGoesOn
  <2>3. CASE ~r.ok
    <3>1. VerifyLive'
      BY <1>7, <2>1, <2>3 DEF Dropped, VerifyLive
    <3> QED BY <1>1, <1>3, <1>5, <1>8, <1>18, <2>1, <2>3, <3>1 DEF VerifyDeleteGoesOn, CalmFits
  <2> QED BY <2>2, <2>3
<1>19. CASE VerifyDeleteListed(i)
  <2>1. r.stage = "list" /\ Ends(i)
    BY <1>1, <1>19 DEF VerifyDeleteListed, AnsweredAt
  <2>2. existingWallet' = WalletOf(merchantId) /\ mode' = "import"
    BY <1>1, <1>4, <1>19, <2>1 DEF VerifyDeleteListed, Listed
  <2> QED BY <1>5, <1>7, <1>8, <2>1, <2>2
<1> QED BY <1>11, <1>12, <1>13, <1>14, <1>15, <1>16, <1>17, <1>18, <1>19 DEF PageSteps

(* What the user starts once everything is answered.                        *)
LEMMA UserStepsCalm ==
  ASSUME WalletInv, ViewInv, CalmFacts, Quiet, UserSteps
  PROVE  CalmInv'
<1>1. \A j \in Slots : request[j] = Free
  BY DEF Quiet, FreeSlots
<1>2. CardShows /\ (mode = "verify" => made[verify.wallet].live)
  BY <1>1, FreeIsNoJob DEF CalmFacts, VerifyLive, Dropped
<1>3. UNCHANGED <<made, existingWallet>>
  BY DEF UserSteps, ChangeMerchant, GoBack, handleCardClick, OpenImport, SelectBlockchain,
         handleSubmitImport, PasteKey, EditPath, KeepWallet, ShowMismatchHelp, handleVerifyDelete,
         handleDelete
<1>4. Made' = Made /\ \A m : WalletOf(m)' = WalletOf(m)
  BY <1>3, SameIfUnchanged, SameWalletOf
<1>5. UNCHANGED merchantId => CardShows'
  BY <1>2, <1>3, <1>4 DEF CardShows
<1>6. mode' # "verify" \/ (mode = "verify" /\ verify'.wallet = verify.wallet) => VerifyLive'
  BY <1>2, <1>3 DEF VerifyLive
<1>7. UNCHANGED told => KeptLive'
  BY <1>3, <1>4 DEF CalmFacts, KeptLive
<1>8. ASSUME UNCHANGED <<request, merchantId>>, KeptLive', VerifyLive' PROVE CalmInv'
  <2>1. Alone' /\ \A j \in Slots : request'[j] = Free
    BY <1>1, <1>8 DEF Alone
  <2> QED BY <1>5, <1>8, <2>1, CalmFrom
<1>9. ASSUME NEW q, q # Free, Send(q), CalmFits(q)', KeptLive', VerifyLive' PROVE CalmInv'
  <2>1. /\ Alone' /\ \A j \in Slots : request'[j] # Free => request'[j] = q
        /\ ~Quiet'
    BY <1>9, QuietSends DEF WalletInv, ImportJobsFit
  <2> QED BY <1>9, <2>1, CalmFrom
<1>10. CASE \E m \in Merchants : ChangeMerchant(m)
  <2>1. PICK m \in Merchants : ChangeMerchant(m)
    BY <1>10
  <2>2. PICK q : q = Job("load", "list", m, 0)
    OBVIOUS
  <2>3. Send(q) /\ merchantId' = m /\ UNCHANGED <<mode, verify, told>>
    BY <2>1, <2>2 DEF ChangeMerchant, loadData, view, history
  <2>4. q.kind = "load" /\ q.stage = "list" /\ q.at = "server" /\ q.merchant = m
    BY <2>2 DEF Job
  <2>5. CalmFits(q)' /\ q # Free
    BY <2>3, <2>4, FreeIsNoJob DEF CalmFits
  <2> QED BY <1>6, <1>7, <1>9, <2>3, <2>5 DEF VerifyLive
<1>11. CASE GoBack \/ OpenImport \/ SelectBlockchain \/ (\E k \in Keys : PasteKey(k)) \/ \E p \in Paths : EditPath(p)
  <2>1. UNCHANGED <<request, merchantId, told>> /\ mode' \in {"overview", "import"}
    BY <1>11 DEF GoBack, OpenImport, SelectBlockchain, PasteKey, EditPath, history, resetState
  <2> QED BY <1>6, <1>7, <1>8, <2>1
<1>12. CASE ShowMismatchHelp
  <2>1. /\ UNCHANGED <<request, merchantId, told, mode>>
        /\ verify' = [verify EXCEPT !.help = TRUE]
    BY <1>12 DEF ShowMismatchHelp, history
  <2>2. verify'.wallet = verify.wallet
    BY <2>1 DEF WalletInv, ViewTyped
  <2> QED BY <1>6, <1>7, <1>8, <2>1, <2>2 DEF VerifyLive
<1>13. CASE handleCardClick
  <2>1. UNCHANGED <<merchantId, told>>
    BY <1>13 DEF handleCardClick
  <2>2. CASE mode' = "detail" /\ Send(Job("first", "addresses", merchantId, existingWallet))
    <3>1. PICK q : q = Job("first", "addresses", merchantId, existingWallet)
      OBVIOUS
    <3>2. q.kind = "first" /\ q.stage = "addresses" /\ q.at = "server" /\ q.merchant = merchantId
      BY <3>1 DEF Job
    <3>3. CalmFits(q)' /\ q # Free
      BY <1>5, <2>1, <3>2, FreeIsNoJob DEF CalmFits
    <3> QED BY <1>6, <1>7, <1>9, <2>1, <2>2, <3>1, <3>3
  <2>3. CASE mode' = "import" /\ UNCHANGED request
    BY <1>6, <1>7, <1>8, <2>1, <2>3
  <2> QED BY <1>13, <2>2, <2>3 DEF handleCardClick
<1>14. CASE handleSubmitImport
  <2>1. PICK q : q = [Job("import", "create", merchantId, 0) EXCEPT !.key = form.key]
    OBVIOUS
  <2>2. Send(q) /\ UNCHANGED <<merchantId, told, mode, verify>> /\ mode = "import"
    BY <1>14, <2>1 DEF handleSubmitImport, view, history
  <2>3. q.kind = "import" /\ q.stage = "create" /\ q.at = "server" /\ q.merchant = merchantId
    BY <2>1 DEF Job
  <2>4. CalmFits(q)' /\ q # Free
    BY <1>5, <2>2, <2>3, FreeIsNoJob DEF CalmFits
  <2> QED BY <1>6, <1>7, <1>9, <2>2, <2>4
<1>15. ASSUME NEW w \in Made, NEW word, told' = [told EXCEPT ![w] = word]
       PROVE  told'[w] = word /\ \A v \in Made \ {w} : told'[v] = told[v]
  <2>1. w \in Numbers \ {0}
    BY MadeNumbers DEF WalletInv
  <2> QED BY <1>15, <2>1 DEF WalletInv, FlagsTyped
<1>16. CASE KeepWallet
  <2>1. mode = "verify" /\ mode' = "overview" /\ UNCHANGED <<merchantId, request>>
    BY <1>16 DEF KeepWallet, Comparing, resetState
  <2>2. PICK w \in Made : w = verify.wallet
    BY <2>1, VerifiedIsMade
  <2>3. made[w].live /\ told' = [told EXCEPT ![w] = "keep"]
    BY <1>2, <1>16, <2>1, <2>2 DEF KeepWallet
  <2>4. KeptLive'
    BY <1>3, <1>4, <1>15, <2>3 DEF CalmFacts, KeptLive
  <2> QED BY <1>6, <1>8, <2>1, <2>4
<1>17. ASSUME NEW w \in Made, NEW kind \in {"delete", "drop"}, told' = [told EXCEPT ![w] = "delete"],
              UNCHANGED <<merchantId, mode, verify>>, Send(Job(kind, "delete", merchantId, w)),
              kind = "delete" => mode = "detail", kind = "drop" => mode = "verify"
       PROVE  CalmInv'
  <2>1. PICK q : q = Job(kind, "delete", merchantId, w)
    OBVIOUS
  <2>2. q.kind = kind /\ q.stage = "delete" /\ q.at = "server" /\ q.merchant = merchantId /\ q.wallet = w
    BY <2>1 DEF Job
  <2>3. told'[w] = "delete" /\ \A v \in Made \ {w} : told'[v] = told[v]
    BY <1>15, <1>17
  <2>4. KeptLive'
    BY <1>3, <1>4, <2>3 DEF CalmFacts, KeptLive
  <2>5. CalmFits(q)' /\ q # Free
    BY <1>5, <1>17, <2>2, <2>3, FreeIsNoJob DEF CalmFits
  <2>6. VerifyLive'
    BY <1>6, <1>17 DEF VerifyLive
  <2> QED BY <1>9, <1>17, <2>1, <2>4, <2>5, <2>6
<1>18. CASE handleVerifyDelete
  <2>1. mode = "verify"
    BY <1>18 DEF handleVerifyDelete, Comparing
  <2>2. PICK w \in Made : w = verify.wallet
    BY <2>1, VerifiedIsMade
  <2>3. /\ told' = [told EXCEPT ![w] = "delete"] /\ Send(Job("drop", "delete", merchantId, w))
        /\ UNCHANGED <<merchantId, mode, verify>>
    BY <1>18, <2>2 DEF handleVerifyDelete, view
  <2> QED BY <1>17, <2>1, <2>3
<1>19. CASE handleDelete
  <2>1. PICK w \in Made : w = selectedWallet
    BY <1>19, MadeNumbers DEF handleDelete, ViewInv, NeverBlank, WalletInv, ViewTyped
  <2>2. /\ told' = [told EXCEPT ![w] = "delete"] /\ Send(Job("delete", "delete", merchantId, w))
        /\ UNCHANGED <<merchantId, mode, verify>> /\ mode = "detail"
    BY <1>19, <2>1 DEF handleDelete, view
  <2> QED BY <1>17, <2>2
<1> QED BY <1>10, <1>11, <1>12, <1>13, <1>14, <1>16, <1>18, <1>19 DEF UserSteps

-----------------------------------------------------------------------------
WalletSetupInv == WalletInv /\ ViewInv /\ CalmInv

(* The page as it is opened.                                                *)
LEMMA WalletSetupStarts ==
  ASSUME WalletSetupInit
  PROVE  WalletSetupInv
<1>1. made = <<>> /\ Made = {} /\ Len(made) = 0 /\ merchantId \in Merchants
  BY DEF WalletSetupInit, Made
<1>2. PICK q : q = loadData(merchantId)
  OBVIOUS
<1>3. /\ q.kind = "load" /\ q.stage = "list" /\ q.at = "server" /\ q.merchant = merchantId /\ q.wallet = 0
      /\ q.answer = NoAddress /\ q \in ImportJobs
  BY <1>1, <1>2, NoAddressIsAddress, WalletSetupAssumption
  DEF loadData, Job, ImportJobs, ImportKinds, ImportStages, Numbers
<1>4. request = [i \in Slots |-> IF i = 1 THEN q ELSE Free]
  BY <1>2 DEF WalletSetupInit
<1>5. 1 \in Slots /\ q # Free
  BY <1>3, FreeIsNoJob, WalletSetupAssumption DEF Slots
<1>6. \A i \in Slots : request[i] = (IF i = 1 THEN q ELSE Free)
  BY <1>4
<1>7. ImportJobFits(q)
  BY <1>1, <1>3, NoAddressIsAddress DEF ImportJobFits, StepFits, WalletFits, AnswerFits
<1>8. \A i \in Slots : request[i].kind \in {"load", "none"} /\ (request[i] # Free => i = 1 /\ request[i] = q)
  BY <1>3, <1>6, FreeIsNoJob
<1>9. WalletInv
  <2>1. WalletsTyped /\ DeletedWhenTold
    BY <1>1, WalletSetupAssumption DEF WalletsTyped, DeletedWhenTold
  <2>2. ViewTyped
    <3>1. 0 \in 0..Len(made)
      BY <1>1
    <3>2. EmptyForm \in [key : Keys \cup {None}, path : Paths \cup {None}]
      BY DEF EmptyForm
    <3>3. NotVerifying \in [wallet : 0..Len(made), address : Address, loading : BOOLEAN, help : BOOLEAN]
      BY <3>1, NoAddressIsAddress DEF NotVerifying
    <3> QED BY <3>1, <3>2, <3>3, NoAddressIsAddress DEF WalletSetupInit, ViewTyped
  <2>3. FlagsTyped /\ CountsTyped
    <3>1. CountsTyped
      BY <1>1 DEF WalletSetupInit, CountsTyped
    <3>2. told \in [Numbers \ {0} -> {"nothing", "keep", "delete"}]
      BY DEF WalletSetupInit
    <3>3. /\ isSubmitting = FALSE /\ isDeleting = FALSE /\ crossed = FALSE /\ existingWallet = 0
      BY DEF WalletSetupInit
    <3>4. existingWallet \in 0..Len(made)
      BY <1>1, <3>3
    <3> QED BY <3>1, <3>2, <3>3, <3>4 DEF FlagsTyped
  <2>4. ImportJobsFit
    BY <1>4, <1>7, <1>8 DEF ImportJobsFit
  <2>5. OneImport
    BY <1>8 DEF OneImport, Importing
  <2> QED BY <2>1, <2>2, <2>3, <2>4, <2>5 DEF WalletInv
<1>10. ViewInv
  <2>1. AddressIsOfWallet /\ NeverBlank /\ DetectedPathIsShown /\ mode = "overview" /\ form.key = None
    BY DEF WalletSetupInit, AddressIsOfWallet, Comparing, NeverBlank, DetectedPathIsShown, Detected, EmptyForm
  <2>2. \A i \in Slots : ViewFits(request[i]) /\ request[i].kind # "first"
    BY <1>8 DEF ViewFits
  <2> QED BY <2>1, <2>2 DEF ViewInv
<1>11. CalmInv
  <2>1. Alone /\ ~Quiet
    BY <1>5, <1>6, <1>8 DEF Alone, Quiet, FreeSlots
  <2>2. KeptLive /\ VerifyLive
    BY <1>1 DEF WalletSetupInit, KeptLive, VerifyLive
  <2>3. CalmFits(q)
    BY <1>3 DEF CalmFits
  <2> QED BY <1>8, <2>1, <2>2, <2>3 DEF CalmInv
<1> QED BY <1>9, <1>10, <1>11 DEF WalletSetupInv

(* Every step keeps the invariant of the import.                            *)
LEMMA WalletSetupKeeps ==
  ASSUME WalletSetupInv, [WalletSetupNext]_walletSetupVars
  PROVE  WalletSetupInv'
<1>0. WalletInv /\ ViewInv /\ CalmInv
  BY DEF WalletSetupInv
<1>1. ASSUME NEW i \in Slots, ServerSteps(i) PROVE WalletSetupInv'
  <2>1. WalletInv'
    BY <1>0, <1>1, ServerStepsTyped
  <2>2. \E ok \in BOOLEAN, a \in Address : request[i] # Free /\ GoesOn(i, Reply(request[i], ok, a))
    <3>1. PICK r \in ImportJobs : r = request[i] /\ r # Free /\ ImportJobFits(r)
      BY <1>0, <1>1, JobKnown DEF ServerSteps, ServeCreate, ServeList, ServeDelete, ServeDerive,
                                  ServeAddresses, InServer, AtServer
    <3>2. PICK ok, a : GoesOn(i, Reply(r, ok, a))
      BY <1>1, <3>1 DEF ServerSteps, ServeCreate, ServeList, ServeDelete, ServeDerive, ServeAddresses
    <3>3. PICK q : q = Reply(r, ok, a)
      OBVIOUS
    <3>4. q.ok = ok /\ q.answer = a /\ q.at = "page"
      BY <3>3 DEF Reply, ImportJobs
    <3>5. request'[i] = q
      BY <1>0, <3>2, <3>3, SlotChanges DEF GoesOn, WalletInv, ImportJobsFit
    <3>6. q # Free
      BY <3>3 DEF Reply, ImportJobs, Free
    <3>7. q \in ImportJobs
      BY <2>1, <3>5, <3>6 DEF WalletInv, ImportJobsFit, ImportJobFits
    <3> QED BY <3>1, <3>2, <3>4, <3>7 DEF ImportJobs
  <2>3. UNCHANGED <<view, history>> /\ Waited /\ UNCHANGED faults
    BY <1>1 DEF ServerSteps, ServeCreate, ServeList, ServeDelete, ServeDerive, ServeAddresses
  <2>4. ViewInv'
    BY <1>0, <2>2, <2>3, ServerStepsShown
  <2>5. CalmInv'
    <3>1. CASE Calm'
      BY <1>0, <1>1, <2>3, <3>1, CalmBefore, ServerStepsCalm
    <3>2. CASE ~Calm'
      BY <3>2 DEF CalmInv
    <3> QED BY <3>1, <3>2
  <2> QED BY <2>1, <2>4, <2>5 DEF WalletSetupInv
<1>2. ASSUME NEW i \in Slots, PageSteps(i) PROVE WalletSetupInv'
  <2>1. Waited /\ UNCHANGED faults
    BY <1>2 DEF PageSteps, DataLoaded, FirstAddressLoaded, ImportCreated, ImportListed, ImportDerived,
         DeleteGoesOn, DeleteListed, VerifyDeleteGoesOn, VerifyDeleteListed
  <2>2. WalletInv' /\ ViewInv'
    BY <1>0, <1>2, PageStepsTyped, PageStepsShown
  <2>3. CalmInv'
    <3>1. CASE Calm'
      BY <1>0, <1>2, <2>1, <3>1, CalmBefore, PageStepsCalm
    <3>2. CASE ~Calm'
      BY <3>2 DEF CalmInv
    <3> QED BY <3>1, <3>2
  <2> QED BY <2>2, <2>3 DEF WalletSetupInv
<1>3. ASSUME NEW i \in Slots, Fault(i) PROVE WalletSetupInv'
  <2>1. /\ request[i] # Free /\ GoesOn(i, Reply(request[i], FALSE, NoAddress)) /\ UNCHANGED <<view, history>>
        /\ faults' = faults + 1
    BY <1>3 DEF Fault
  <2>2. WalletInv' /\ ViewInv'
    BY <1>0, <1>3, <2>1, OutsideTyped, ServerStepsShown, NoAddressIsAddress
  <2>3. CalmInv'
    BY <1>0, <2>1 DEF CalmInv, Calm, WalletInv, CountsTyped
  <2> QED BY <2>2, <2>3 DEF WalletSetupInv
<1>4. ASSUME NEW w \in Made, CustomerPays(w) PROVE WalletSetupInv'
  <2>1. UNCHANGED <<view, history, request, faults>> /\ Waited
    BY <1>4 DEF CustomerPays
  <2>2. WalletInv' /\ ViewInv'
    BY <1>0, <1>4, <2>1, OutsideTyped, ServerStepsShown
  <2>3. CalmInv'
    <3>1. CASE Calm'
      BY <1>0, <1>4, <2>1, <3>1, CalmBefore, CustomerCalm
    <3>2. CASE ~Calm'
      BY <3>2 DEF CalmInv
    <3> QED BY <3>1, <3>2
  <2> QED BY <2>2, <2>3 DEF WalletSetupInv
<1>5. CASE UserSteps
  <2>1. UserClicks /\ UNCHANGED faults
    BY <1>5 DEF UserSteps, ChangeMerchant, GoBack, handleCardClick, OpenImport, SelectBlockchain,
         handleSubmitImport, PasteKey, EditPath, KeepWallet, ShowMismatchHelp, handleVerifyDelete,
         handleDelete
  <2>2. WalletInv' /\ ViewInv'
    BY <1>0, <1>5, UserStepsTyped, UserStepsShown
  <2>3. CalmInv'
    <3>1. CASE Calm'
      BY <1>0, <1>5, <2>1, <3>1, CalmBefore, UserStepsCalm
    <3>2. CASE ~Calm'
      BY <3>2 DEF CalmInv
    <3> QED BY <3>1, <3>2
  <2> QED BY <2>2, <2>3 DEF WalletSetupInv
<1>6. CASE UNCHANGED walletSetupVars
  <2>1. UNCHANGED <<made, merchantId, mode, selectedBlockchain, form, isSubmitting, existingWallet,
    selectedWallet, firstAddress, verify, isDeleting, told, crossed, request, faults, impatient>>
    BY <1>6 DEF walletSetupVars
  <2>2. UNCHANGED <<view, flags, history>> /\ Waited
    BY <2>1 DEF view, flags, history, Waited
  <2>3. WalletInv'
    BY <1>0, <2>1, <2>2, SameIfUnchanged, NoneDeleted, ServerKeepsWalletInv
  <2>4. ViewInv'
    BY <1>0, <2>1, <2>2, ServerStepsShown
  <2>5. CalmInv'
    BY <1>0, <2>1 DEF CalmInv, Calm, Alone, KeptLive, VerifyLive, Quiet, FreeSlots, CardShows, CalmFits,
      WalletOf, Configured, Made, Dropped
  <2> QED BY <2>3, <2>4, <2>5 DEF WalletSetupInv
<1> QED BY <1>1, <1>2, <1>3, <1>4, <1>5, <1>6 DEF WalletSetupNext

(* What every step of the import keeps (WalletSetupInv).                     *)
LEMMA WalletSetupInvHolds == WalletSetupSpec => []WalletSetupInv
BY WalletSetupStarts, WalletSetupKeeps, PTL DEF WalletSetupSpec

(* The invariant gives the three properties.                                *)
LEMMA WalletSetupInvGives ==
  ASSUME WalletSetupInv
  PROVE  WalletSetupTypeOK /\ ViewsAreTrue /\ KeptStays
<1>1. WalletSetupTypeOK
  <2>1. \A w \in Made : made[w] \in WalletRows
    BY MadeNumbers DEF WalletSetupInv, WalletInv
  <2> QED BY <2>1 DEF WalletSetupInv, WalletInv, ViewTyped, FlagsTyped, WalletSetupTypeOK, WalletRows
<1>2. ViewsAreTrue
  BY DEF WalletSetupInv, ViewInv, CalmInv, Calm, ViewsAreTrue, ShownIsConfigured, CardShows
<1>3. KeptStays
  BY DEF WalletSetupInv, WalletInv, CalmInv, Calm, DeletedWhenTold, KeptLive, KeptStays
<1> QED BY <1>1, <1>2, <1>3

(* The types of the page's state and of the server's wallets.               *)
THEOREM WalletSetupTypes == WalletSetupSpec => []WalletSetupTypeOK
BY WalletSetupInvHolds, WalletSetupInvGives, PTL

(* What the views of the import show is true of the wallet they show it for *)
(* (wallet-setup-page.tsx:814, :934, :1070, :1200).                         *)
THEOREM ViewsTrue == WalletSetupSpec => []ViewsAreTrue
BY WalletSetupInvHolds, WalletSetupInvGives, PTL

(* A wallet is deleted only when the user said so, and one the user said to *)
(* keep stays (wallet-setup-page.tsx:1203).                                 *)
THEOREM KeptWalletStays == WalletSetupSpec => []KeptStays
BY WalletSetupInvHolds, WalletSetupInvGives, PTL

-----------------------------------------------------------------------------
(* The shell, its settings and balances (Dashboard).                         *)

(* Requests and answers.                                                    *)
LEMMA FreeIsNoAsk ==
  Free.kind = "none" /\ "none" \notin ShellKinds /\ Free \notin Asked /\ Free \notin Answers
BY DEF Free, ShellKinds, Asked, Answers

(* What an answer may hold.                                                 *)
LEMMA ResultsHold ==
  /\ Ids \subseteq Results /\ SUBSET Merchants \subseteq Results /\ Displays \subseteq Results
  /\ "refused" \in Results /\ "lost" \in Results
BY DEF Results

(* A request of the shell.                                                  *)
LEMMA AskingTyped ==
  ASSUME NEW kind \in ShellKinds, NEW id \in Ids, NEW then \in Thens, NEW stored \in Chosen,
         NEW q, q = Asking(kind, id, then, stored)
  PROVE  /\ q \in Asked /\ q.kind = kind /\ q.at = "server" /\ q.id = id /\ q.then = then
         /\ q.stored = stored /\ q # Free /\ ResultFits(q)
<1>1. /\ q \in Asked /\ q.kind = kind /\ q.at = "server" /\ q.id = id /\ q.then = then
      /\ q.stored = stored
  BY DEF Asking, Asked
<1> QED BY <1>1, FreeIsNoAsk DEF ResultFits

(* The answer to a request.                                                 *)
LEMMA AnswerTyped ==
  ASSUME NEW r, AskFits(r), NEW ok \in BOOLEAN, NEW result \in Results,
         NEW q, q = Answer(r, ok, result)
  PROVE  /\ q \in Answers /\ q.kind = r.kind /\ q.at = "page" /\ q.id = r.id /\ q.then = r.then
         /\ q.stored = r.stored /\ q.ok = ok /\ q.result = result /\ q # Free
         /\ (ResultFits(q) => AskFits(q))
<1>1. /\ r.kind \in ShellKinds /\ r.id \in Ids /\ r.then \in Thens /\ r.stored \in Chosen
      /\ ThenFits(r) /\ IdFits(r)
  BY DEF AskFits, Asked, Answers
<1>2. /\ q \in Answers /\ q.kind = r.kind /\ q.at = "page" /\ q.id = r.id /\ q.then = r.then
      /\ q.stored = r.stored /\ q.ok = ok /\ q.result = result
  BY <1>1 DEF Answer, Answers
<1>3. ThenFits(q) /\ IdFits(q)
  BY <1>1, <1>2 DEF ThenFits, IdFits
<1> QED BY <1>2, <1>3, FreeIsNoAsk DEF AskFits

(* A refusal, whatever was asked.                                           *)
LEMMA RefusalTyped ==
  ASSUME NEW r, AskFits(r), NEW result \in Results, NEW q, q = Answer(r, FALSE, result)
  PROVE  q.kind = r.kind /\ q.at = "page" /\ ~q.ok /\ q.result = result /\ AskFits(q) /\ q.then = r.then
         /\ q.id = r.id
<1>1. /\ r.kind \in ShellKinds /\ r.id \in Ids /\ r.then \in Thens /\ r.stored \in Chosen
      /\ ThenFits(r) /\ IdFits(r)
  BY DEF AskFits, Asked, Answers
<1>2. /\ q \in Answers /\ q.kind = r.kind /\ q.at = "page" /\ q.id = r.id /\ q.then = r.then
      /\ ~q.ok /\ q.result = result /\ q.stored = r.stored
  BY <1>1 DEF Answer, Answers
<1>3. ThenFits(q) /\ IdFits(q)
  BY <1>1, <1>2 DEF ThenFits, IdFits
<1>4. ResultFits(q)
  BY <1>2 DEF ResultFits
<1> QED BY <1>2, <1>3, <1>4 DEF AskFits

(* What a request on its way can be.                                        *)
LEMMA AskKnown ==
  ASSUME ShellInv, NEW i \in Slots, request[i] # Free
  PROVE  /\ AskFits(request[i]) /\ request[i].kind \in ShellKinds /\ request[i].id \in Ids
         /\ request[i].then \in Thens /\ request[i].stored \in Chosen
         /\ request[i].at \in {"server", "page"}
         /\ (request[i].at = "page" => request[i].ok \in BOOLEAN)
BY DEF ShellInv, AsksFit, AskFits, Asked, Answers

(* One request goes on.                                                     *)
LEMMA AsksProceed ==
  ASSUME ShellInv, NEW i \in Slots, NEW q, GoesOn(i, q), q # Free => AskFits(q)
  PROVE  AsksFit'
<1>1. /\ DOMAIN request' = Slots /\ request'[i] = q
      /\ \A j \in Slots \ {i} : request'[j] = request[j]
  BY SlotChanges DEF ShellInv, AsksFit, GoesOn
<1> QED BY <1>1 DEF ShellInv, AsksFit

(* One request ends.                                                        *)
LEMMA AsksEnd ==
  ASSUME ShellInv, NEW i \in Slots, Ends(i)
  PROVE  AsksFit'
<1>1. PICK q : q = Free
  OBVIOUS
<1> QED BY <1>1, AsksProceed DEF Ends, GoesOn

(* One request is sent.                                                     *)
LEMMA AsksSent ==
  ASSUME ShellInv, NEW q, Send(q), AskFits(q)
  PROVE  AsksFit'
<1>1. PICK i \in Slots : GoesOn(i, q)
  BY SlotSent DEF ShellInv, AsksFit, GoesOn
<1> QED BY <1>1, AsksProceed

(* The bounded counters.                                                    *)
LEMMA ActsStay ==
  ASSUME ShellInv, Unhurried \/ UserActs, faults' = faults \/ (faults < MaxFaults /\ faults' = faults + 1)
  PROVE  ActsTyped'
<1>1. faults \in 0..MaxFaults /\ hasty \in 0..MaxHasty /\ MaxFaults \in Nat /\ MaxHasty \in Nat
  BY DashboardAssumption DEF ShellInv, ActsTyped
<1>2. hasty' \in 0..MaxHasty
  BY <1>1 DEF Unhurried, UserActs
<1>3. faults' \in 0..MaxFaults
  BY <1>1
<1> QED BY <1>2, <1>3 DEF ActsTyped

-----------------------------------------------------------------------------
(* The server.                                                              *)
LEMMA OwnIsTheirs ==
  ASSUME ShellInv, NEW u
  PROVE  Own(u) \subseteq Merchants
BY DEF Own, ShellInv, ServerTyped

(* What the server does with each kind of request.                          *)
LEMMA ServeDoes ==
  ASSUME ShellInv, NEW i \in Slots, Serve(i), NEW r, r = request[i]
  PROVE  /\ AskFits(r) /\ r # Free /\ r.at = "server"
         /\ session' = IF r.kind = "login" THEN r.id ELSE IF r.kind = "logout" THEN None ELSE session
         /\ exists' = IF r.kind = "create" /\ Allowed(r) THEN exists \cup {r.id}
                      ELSE IF r.kind = "delete" /\ Allowed(r) THEN exists \ {r.id} ELSE exists
         /\ r.kind # "save" \/ ~Allowed(r) => settings' = settings
         /\ r.kind = "save" /\ Allowed(r) =>
              settings' = [settings EXCEPT ![r.id] = IF r.then = "fee" THEN [@ EXCEPT !.fee = r.stored]
                                                    ELSE [@ EXCEPT !.own = r.stored]]
         /\ Allowed(r) => GoesOn(i, Answer(r, TRUE, Result(r)))
         /\ ~Allowed(r) => GoesOn(i, Answer(r, FALSE, "refused"))
         /\ UNCHANGED <<browser, faults>> /\ Unhurried
BY AskKnown DEF Serve, AtServer

(* What the session allows.                                                 *)
LEMMA AllowedGives ==
  ASSUME ShellInv, NEW r, AskFits(r), Allowed(r)
  PROVE  /\ r.kind \in {"me", "list", "create"} => session \in Users
         /\ r.kind \in {"show", "fee", "save", "delete"} => r.id \in exists /\ Owner[r.id] = session
BY DEF Allowed, ShellInv, ServerTyped

(* What is answered to a request that is allowed.                           *)
LEMMA ResultTyped ==
  ASSUME ShellInv, NEW r, AskFits(r), Allowed(r)
  PROVE  /\ Result(r) \in Results
         /\ r.kind = "me" => Result(r) = session /\ session \in Users
         /\ r.kind = "list" => Result(r) = Own(session) /\ Own(session) \in SUBSET Merchants
         /\ r.kind = "show" => Result(r) = [id |-> r.id, settings |-> settings[r.id].own] /\ Result(r) \in Displays
         /\ r.kind = "fee" => Result(r) = settings[r.id].fee /\ Result(r) \in Chosen
<1>1. CASE r.kind = "me"
  BY <1>1, AllowedGives, ResultsHold DEF Result, Ids
<1>2. CASE r.kind = "list"
  BY <1>2, OwnIsTheirs, ResultsHold DEF Result
<1>3. CASE r.kind = "show"
  <2>1. r.id \in Merchants /\ settings[r.id].own \in Merchants
    BY <1>3 DEF AskFits, IdFits, ShellInv, ServerTyped
  <2>2. PICK d : d = [id |-> r.id, settings |-> settings[r.id].own]
    OBVIOUS
  <2>3. d \in Displays /\ Result(r) = d
    BY <1>3, <2>1, <2>2 DEF Displays, Result
  <2>4. d \in Results
    BY <2>3, ResultsHold
  <2> QED BY <1>3, <2>2, <2>3, <2>4
<1>4. CASE r.kind = "fee"
  <2>1. r.id \in Merchants /\ settings[r.id].fee \in Chosen
    BY <1>4 DEF AskFits, IdFits, ShellInv, ServerTyped
  <2> QED BY <1>4, <2>1, ResultsHold DEF Result, Ids
<1>5. CASE r.kind \notin {"me", "list", "show", "fee"}
  BY <1>5, ResultsHold DEF Result, AskFits, Asked, Answers
<1> QED BY <1>1, <1>2, <1>3, <1>4, <1>5

(* The server's step keeps the types.                                       *)
LEMMA ServeTyped ==
  ASSUME ShellInv, NEW i \in Slots, Serve(i)
  PROVE  ShellInv'
<1>1. PICK r : r = request[i]
  OBVIOUS
<1>2. /\ AskFits(r) /\ r # Free /\ r.at = "server"
      /\ session' = IF r.kind = "login" THEN r.id ELSE IF r.kind = "logout" THEN None ELSE session
      /\ exists' = IF r.kind = "create" /\ Allowed(r) THEN exists \cup {r.id}
                   ELSE IF r.kind = "delete" /\ Allowed(r) THEN exists \ {r.id} ELSE exists
      /\ r.kind # "save" \/ ~Allowed(r) => settings' = settings
      /\ r.kind = "save" /\ Allowed(r) =>
           settings' = [settings EXCEPT ![r.id] = IF r.then = "fee" THEN [@ EXCEPT !.fee = r.stored]
                                                 ELSE [@ EXCEPT !.own = r.stored]]
      /\ Allowed(r) => GoesOn(i, Answer(r, TRUE, Result(r)))
      /\ ~Allowed(r) => GoesOn(i, Answer(r, FALSE, "refused"))
      /\ UNCHANGED <<browser, faults>> /\ Unhurried
  BY <1>1, ServeDoes
<1>3. IdFits(r) /\ r.stored \in Chosen
  BY <1>2 DEF AskFits, Asked, Answers
<1>4. settings' \in [Merchants -> [own : Merchants, fee : Chosen]]
  <2>1. CASE r.kind # "save" \/ ~Allowed(r)
    BY <1>2, <2>1 DEF ShellInv, ServerTyped
  <2>2. CASE r.kind = "save" /\ Allowed(r)
    <3>1. PICK old \in [own : Merchants, fee : Chosen] : old = settings[r.id] /\ r.id \in Merchants
      BY <1>3, <2>2 DEF IdFits, ShellInv, ServerTyped
    <3>2. PICK new : new = IF r.then = "fee" THEN [old EXCEPT !.fee = r.stored] ELSE [old EXCEPT !.own = r.stored]
      OBVIOUS
    <3>3. new \in [own : Merchants, fee : Chosen]
      BY <1>3, <2>2, <3>2 DEF IdFits
    <3>4. settings' = [settings EXCEPT ![r.id] = new]
      BY <1>2, <2>2, <3>1, <3>2
    <3> QED BY <3>1, <3>3, <3>4 DEF ShellInv, ServerTyped
  <2> QED BY <2>1, <2>2
<1>5. ServerTyped'
  BY <1>2, <1>3, <1>4 DEF ShellInv, ServerTyped, IdFits
<1>6. ShellTyped' /\ ActsTyped'
  BY <1>2, ActsStay DEF ShellInv, ShellTyped, browser, fees
<1>7. AsksFit'
  <2>1. PICK q : q = IF Allowed(r) THEN Answer(r, TRUE, Result(r)) ELSE Answer(r, FALSE, "refused")
    OBVIOUS
  <2>2. GoesOn(i, q)
    BY <1>2, <2>1
  <2>3. CASE Allowed(r)
    <3>1. /\ Result(r) \in Results
          /\ r.kind = "me" => Result(r) \in Users
          /\ r.kind = "list" => Result(r) \in SUBSET Merchants
          /\ r.kind = "show" => Result(r) \in Displays
          /\ r.kind = "fee" => Result(r) \in Chosen
      BY <1>2, <2>3, ResultTyped
    <3>2. PICK x \in Results, ok \in BOOLEAN : x = Result(r) /\ q = Answer(r, ok, x)
      BY <2>1, <2>3, <3>1
    <3>3. /\ q.kind = r.kind /\ q.result = x /\ (ResultFits(q) => AskFits(q))
      BY <1>2, <3>2, AnswerTyped
    <3>4. ResultFits(q)
      BY <3>1, <3>2, <3>3 DEF ResultFits
    <3> QED BY <2>2, <3>3, <3>4, AsksProceed
  <2>4. CASE ~Allowed(r)
    <3>1. "refused" \in Results
      BY ResultsHold
    <3>2. ~q.ok /\ AskFits(q)
      BY <1>2, <2>1, <2>4, <3>1, RefusalTyped
    <3> QED BY <2>2, <3>2, AsksProceed
  <2> QED BY <2>3, <2>4
<1> QED BY <1>5, <1>6, <1>7 DEF ShellInv

(* So do a lost answer and a session that expires.                          *)
LEMMA LoseTyped ==
  ASSUME ShellInv, (\E i \in Slots : Lose(i)) \/ SessionExpires
  PROVE  ShellInv'
<1>1. /\ UNCHANGED <<exists, settings, browser>> /\ Unhurried /\ faults < MaxFaults /\ faults' = faults + 1
      /\ session' \in {session, None}
  BY DEF Lose, SessionExpires, server
<1>2. ServerTyped' /\ ShellTyped' /\ ActsTyped'
  BY <1>1, ActsStay DEF ShellInv, ServerTyped, ShellTyped, browser, fees
<1>3. ASSUME NEW i \in Slots, Lose(i) PROVE AsksFit'
  <2>1. PICK r : r = request[i] /\ r # Free /\ AskFits(r)
    BY <1>3, AskKnown DEF Lose
  <2>2. PICK q : q = Answer(r, FALSE, "lost")
    OBVIOUS
  <2>3. "lost" \in Results
    BY ResultsHold
  <2>4. AskFits(q)
    BY <2>1, <2>2, <2>3, RefusalTyped
  <2> QED BY <1>3, <2>1, <2>2, <2>4, AsksProceed DEF Lose
<1>4. ASSUME SessionExpires PROVE AsksFit'
  <2>1. request' = request
    BY <1>4 DEF SessionExpires
  <2>2. \A i \in Slots : request[i] # Free => AskFits(request[i])
    BY DEF ShellInv, AsksFit
  <2>3. DOMAIN request = Slots
    BY DEF ShellInv, AsksFit
  <2> QED BY <2>1, <2>2, <2>3 DEF AsksFit
<1>5. AsksFit'
  BY <1>3, <1>4
<1> QED BY <1>2, <1>5 DEF ShellInv

-----------------------------------------------------------------------------
(* The page.                                                                *)
LEMMA HandledTyped ==
  ASSUME ShellInv, UNCHANGED <<server, faults>>, Unhurried \/ UserActs
  PROVE  ServerTyped' /\ ActsTyped'
<1>1. ServerTyped'
  BY DEF ShellInv, ServerTyped, server
<1> QED BY <1>1, ActsStay

(* No user and no merchant is None.                                         *)
LEMMA NoneIsId ==
  /\ None \in Chosen /\ None \in Ids /\ Users \subseteq Ids /\ Merchants \subseteq Ids
  /\ Merchants \subseteq Chosen /\ None \notin Users /\ None \notin Merchants
BY DashboardAssumption DEF Chosen, Ids

(* The first merchant of a list, or None of an empty one.                   *)
LEMMA FirstOfTyped ==
  ASSUME NEW S, S \in SUBSET Merchants
  PROVE  /\ FirstOf(S) \in S \cup {None} /\ FirstOf(S) \in Chosen /\ (FirstOf(S) = None <=> S = {})
BY NoneIsId DEF FirstOf, Chosen

(* The stored id, if it is in the list, or the list's first.                *)
LEMMA ValidIdTyped ==
  ASSUME NEW stored \in Chosen, NEW S, S \in SUBSET Merchants
  PROVE  /\ ValidId(stored, S) \in S \cup {None} /\ ValidId(stored, S) \in Chosen
BY FirstOfTyped DEF ValidId, Chosen

(* The request for the list.                                                *)
LEMMA AskedList ==
  ASSUME NEW then \in {"load", "reset", "deleted"}, NEW id \in Ids, NEW stored \in Chosen,
         NEW q, q = getMerchants(then, id, stored)
  PROVE  /\ AskFits(q) /\ q # Free /\ q.kind = "list" /\ q.at = "server" /\ q.then = then
         /\ q.id = id /\ q.stored = stored
<1>1. /\ q \in Asked /\ q.kind = "list" /\ q.at = "server" /\ q.id = id /\ q.then = then
      /\ q.stored = stored /\ q # Free /\ ResultFits(q)
  BY AskingTyped DEF getMerchants, ShellKinds, Thens
<1> QED BY <1>1 DEF AskFits, ThenFits, IdFits

(* The request for a merchant.                                              *)
LEMMA AskedShow ==
  ASSUME NEW then \in {"load", "fee", "show"}, NEW id \in Merchants,
         NEW q, q = getMerchant(id, then)
  PROVE  /\ AskFits(q) /\ q # Free /\ q.kind = "show" /\ q.at = "server" /\ q.then = then
         /\ q.id = id
<1>0. "show" \in ShellKinds /\ id \in Ids /\ then \in Thens /\ None \in Chosen
  BY NoneIsId DEF ShellKinds, Thens
<1>1. /\ q \in Asked /\ q.kind = "show" /\ q.at = "server" /\ q.id = id /\ q.then = then
      /\ q # Free /\ ResultFits(q)
  BY <1>0, AskingTyped DEF getMerchant
<1> QED BY <1>1 DEF AskFits, ThenFits, IdFits

(* The request for the user.                                                *)
LEMMA AskedMe ==
  ASSUME NEW stored \in Chosen, NEW q, q = loadUserInfo(stored)
  PROVE  /\ AskFits(q) /\ q # Free /\ q.kind = "me" /\ q.at = "server" /\ q.then = "load"
<1>1. /\ q \in Asked /\ q.kind = "me" /\ q.at = "server" /\ q.then = "load"
      /\ q # Free /\ ResultFits(q)
  BY AskingTyped, NoneIsId DEF loadUserInfo, ShellKinds, Thens
<1> QED BY <1>1 DEF AskFits, ThenFits, IdFits

(* The request for a fee.                                                   *)
LEMMA AskedFee ==
  ASSUME NEW id \in Merchants, NEW q, q = Asking("fee", id, "show", None)
  PROVE  /\ AskFits(q) /\ q # Free /\ q.kind = "fee" /\ q.at = "server" /\ q.then = "show"
         /\ q.id = id
<1>0. "fee" \in ShellKinds /\ id \in Ids /\ "show" \in Thens /\ None \in Chosen
  BY NoneIsId DEF ShellKinds, Thens
<1>1. /\ q \in Asked /\ q.kind = "fee" /\ q.at = "server" /\ q.then = "show" /\ q.id = id
      /\ q # Free /\ ResultFits(q)
  BY <1>0, AskingTyped
<1> QED BY <1>1 DEF AskFits, ThenFits, IdFits

(* The answers that only read.                                              *)
LEMMA ReadsTyped ==
  ASSUME ShellInv, NEW i \in Slots, MeAnswered(i) \/ ListLoaded(i) \/ ShowAnswered(i) \/ FeeAnswered(i)
  PROVE  ShellInv'
<1>1. PICK r : /\ r = request[i] /\ r # Free /\ AskFits(r) /\ r.at = "page" /\ r.ok \in BOOLEAN
               /\ r.stored \in Chosen /\ r.id \in Ids /\ r.then \in Thens
  BY AskKnown DEF MeAnswered, ListLoaded, ShowAnswered, FeeAnswered, Arrived
<1>2. ServerTyped' /\ ActsTyped'
  BY HandledTyped DEF MeAnswered, ListLoaded, ShowAnswered, FeeAnswered, Handled
<1>3. CASE MeAnswered(i)
  <2>1. CASE r.ok
    <3>1. /\ user' = r.result /\ GoesOn(i, getMerchants("load", None, r.stored))
          /\ UNCHANGED <<page, isLoading, merchants, merchantId, merchant, fees>> /\ r.kind = "me"
      BY <1>1, <1>3, <2>1 DEF MeAnswered, Arrived
    <3>2. r.result \in Users
      BY <1>1, <2>1, <3>1 DEF AskFits, ResultFits
    <3>3. ShellTyped'
      BY <3>1, <3>2 DEF ShellInv, ShellTyped, fees
    <3>4. AsksFit'
      BY <1>1, <3>1, AskedList, AsksProceed, NoneIsId
    <3> QED BY <1>2, <3>3, <3>4 DEF ShellInv
  <2>2. CASE ~r.ok
    <3>1. /\ page' \in {page, "login"} /\ isLoading' = FALSE /\ Ends(i)
          /\ UNCHANGED <<user, merchants, merchantId, merchant, fees>>
      BY <1>1, <1>3, <2>2 DEF MeAnswered
    <3>2. ShellTyped'
      BY <3>1 DEF ShellInv, ShellTyped, fees
    <3> QED BY <1>2, <3>1, <3>2, AsksEnd DEF ShellInv
  <2> QED BY <2>1, <2>2
<1>4. CASE ListLoaded(i)
  <2>1. CASE ~r.ok
    <3>1. Ends(i) /\ UNCHANGED browser
      BY <1>1, <1>4, <2>1 DEF ListLoaded, browser
    <3>2. ShellTyped'
      BY <3>1 DEF ShellInv, ShellTyped, browser, fees
    <3> QED BY <1>2, <3>1, <3>2, AsksEnd DEF ShellInv
  <2>2. CASE r.ok
    <3>1. PICK id : id = ValidId(r.stored, r.result)
      OBVIOUS
    <3>2. /\ merchants' = r.result /\ merchantId' = id /\ page' = RouteFor(r.result)
          /\ UNCHANGED <<user, merchant, fees>> /\ r.kind = "list"
          /\ id = None => isLoading' = FALSE /\ Ends(i)
          /\ id # None => GoesOn(i, getMerchant(id, "load")) /\ UNCHANGED isLoading
      BY <1>1, <1>4, <2>2, <3>1 DEF ListLoaded, Arrived
    <3>3. r.result \in SUBSET Merchants
      BY <1>1, <2>2, <3>2 DEF AskFits, ResultFits
    <3>4. id \in Chosen
      BY <1>1, <3>1, <3>3, ValidIdTyped
    <3>5. page' \in {page, "manage"} /\ isLoading' \in {isLoading, FALSE}
      BY <3>2 DEF RouteFor
    <3>6. ShellTyped'
      BY <3>2, <3>3, <3>4, <3>5 DEF ShellInv, ShellTyped, fees
    <3>7. AsksFit'
      <4>1. CASE id = None
        BY <3>2, <4>1, AsksEnd
      <4>2. CASE id # None
        BY <3>2, <3>4, <4>2, AskedShow, AsksProceed DEF Chosen
      <4> QED BY <4>1, <4>2
    <3> QED BY <1>2, <3>6, <3>7 DEF ShellInv
  <2> QED BY <1>1, <2>1, <2>2
<1>5. CASE ShowAnswered(i)
  <2>1. /\ merchant' = IF r.ok THEN r.result ELSE merchant
        /\ isLoading' = (isLoading /\ ~(r.ok /\ r.then = "load"))
        /\ IF r.ok /\ r.then = "fee" THEN GoesOn(i, Asking("fee", r.id, "show", None)) ELSE Ends(i)
        /\ UNCHANGED <<page, user, merchants, merchantId, fees>> /\ r.kind = "show"
    BY <1>1, <1>5 DEF ShowAnswered, Arrived
  <2>2. merchant' \in Displays \cup {None}
    BY <1>1, <2>1 DEF AskFits, ResultFits, ShellInv, ShellTyped
  <2>3. isLoading' \in BOOLEAN
    BY <2>1
  <2>4. ShellTyped'
    BY <2>1, <2>2, <2>3 DEF ShellInv, ShellTyped, fees
  <2>5. AsksFit'
    <3>1. CASE r.ok /\ r.then = "fee"
      <4>1. r.id \in Merchants
        BY <1>1, <2>1 DEF AskFits, IdFits
      <4> QED BY <2>1, <3>1, <4>1, AskedFee, AsksProceed
    <3>2. CASE ~(r.ok /\ r.then = "fee")
      BY <2>1, <3>2, AsksEnd
    <3> QED BY <3>1, <3>2
  <2> QED BY <1>2, <2>4, <2>5 DEF ShellInv
<1>6. CASE FeeAnswered(i)
  <2>1. /\ globalFee' = IF r.ok /\ r.then # "left" THEN r.result ELSE globalFee
        /\ Ends(i) /\ r.kind = "fee"
        /\ UNCHANGED <<page, user, merchants, merchantId, merchant, loadedFor, isLoading>>
    BY <1>1, <1>6 DEF FeeAnswered, Arrived
  <2>2. globalFee' \in Chosen
    BY <1>1, <2>1 DEF AskFits, ResultFits, ShellInv, ShellTyped
  <2>3. ShellTyped'
    BY <2>1, <2>2 DEF ShellInv, ShellTyped
  <2> QED BY <1>2, <2>1, <2>3, AsksEnd DEF ShellInv
<1> QED BY <1>3, <1>4, <1>5, <1>6
(* The answers to what the user did.                                        *)
LEMMA ActsAnswered ==
  ASSUME ShellInv, NEW i \in Slots,
         \/ LoginAnswered(i) \/ LogoutAnswered(i) \/ CreateAnswered(i) \/ DeleteAnswered(i)
         \/ ListReloaded(i) \/ SaveAnswered(i)
  PROVE  ShellInv'
<1>1. PICK r : /\ r = request[i] /\ r # Free /\ AskFits(r) /\ r.at = "page" /\ r.ok \in BOOLEAN
               /\ r.stored \in Chosen /\ r.id \in Ids /\ r.then \in Thens
  BY AskKnown DEF LoginAnswered, LogoutAnswered, CreateAnswered, DeleteAnswered, ListReloaded,
                  SaveAnswered, Arrived
<1>2. ServerTyped' /\ ActsTyped'
  BY HandledTyped DEF LoginAnswered, LogoutAnswered, CreateAnswered, DeleteAnswered, ListReloaded,
                      SaveAnswered, Handled
<1>3. CASE LoginAnswered(i)
  <2>1. /\ page' \in {"manage", "settings"} /\ GoesOn(i, loadUserInfo(merchantId))
        /\ UNCHANGED <<user, merchants, merchantId, merchant, fees, isLoading>>
    BY <1>3 DEF LoginAnswered
  <2>2. ShellTyped'
    BY <2>1 DEF ShellInv, ShellTyped, fees
  <2>3. merchantId \in Chosen
    BY DEF ShellInv, ShellTyped
  <2> QED BY <1>2, <2>1, <2>2, <2>3, AskedMe, AsksProceed DEF ShellInv
<1>4. CASE LogoutAnswered(i)
  <2>1. /\ page' \in {page, "login"} /\ Ends(i)
        /\ UNCHANGED <<user, merchants, merchantId, merchant, fees, isLoading>>
    BY <1>4 DEF LogoutAnswered
  <2>2. ShellTyped'
    BY <2>1 DEF ShellInv, ShellTyped, fees
  <2> QED BY <1>2, <2>1, <2>2, AsksEnd DEF ShellInv
<1>5. CASE CreateAnswered(i)
  <2>1. /\ merchantId' = IF r.ok THEN r.id ELSE None
        /\ GoesOn(i, getMerchants("reset", None, None)) /\ r.kind = "create"
        /\ UNCHANGED <<page, user, merchants, merchant, fees, isLoading>>
    BY <1>1, <1>5 DEF CreateAnswered, Arrived
  <2>2. r.id \in Merchants
    BY <1>1, <2>1 DEF AskFits, IdFits
  <2>3. ShellTyped'
    BY <2>1, <2>2, NoneIsId DEF ShellInv, ShellTyped, fees
  <2> QED BY <1>2, <2>1, <2>3, AskedList, AsksProceed, NoneIsId DEF ShellInv
<1>6. CASE DeleteAnswered(i)
  <2>1. /\ r.ok => GoesOn(i, getMerchants("deleted", r.id, None))
        /\ ~r.ok => Ends(i)
        /\ UNCHANGED browser
    BY <1>1, <1>6 DEF DeleteAnswered
  <2>2. ShellTyped'
    BY <2>1 DEF ShellInv, ShellTyped, browser, fees
  <2>3. AsksFit'
    <3>1. CASE r.ok
      BY <1>1, <2>1, <3>1, AskedList, AsksProceed, NoneIsId
    <3>2. CASE ~r.ok
      BY <2>1, <3>2, AsksEnd
    <3> QED BY <3>1, <3>2
  <2> QED BY <1>2, <2>2, <2>3 DEF ShellInv
<1>7. CASE ListReloaded(i)
  <2>1. CASE ~r.ok
    <3>1. Ends(i) /\ UNCHANGED browser
      BY <1>1, <1>7, <2>1 DEF ListReloaded, browser
    <3>2. ShellTyped'
      BY <3>1 DEF ShellInv, ShellTyped, browser, fees
    <3> QED BY <1>2, <3>1, <3>2, AsksEnd DEF ShellInv
  <2>2. CASE r.ok
    <3>1. PICK next : next = FirstOf((IF merchants = None THEN {} ELSE merchants) \ {r.id})
      OBVIOUS
    <3>2. /\ merchants' = r.result /\ page' = RouteFor(r.result) /\ r.kind = "list"
          /\ merchantId' = IF r.then = "deleted" THEN next ELSE merchantId
          /\ Ends(i) /\ UNCHANGED <<user, merchant, fees, isLoading>>
      BY <1>1, <1>7, <2>2, <3>1 DEF ListReloaded, Arrived
    <3>3. r.result \in SUBSET Merchants
      BY <1>1, <2>2, <3>2 DEF AskFits, ResultFits
    <3>4. ((IF merchants = None THEN {} ELSE merchants) \ {r.id}) \in SUBSET Merchants
      BY DEF ShellInv, ShellTyped
    <3>5. next \in Chosen
      BY <3>1, <3>4, FirstOfTyped
    <3>6. page' \in {page, "manage"}
      BY <3>2 DEF RouteFor
    <3>7. ShellTyped'
      BY <3>2, <3>3, <3>5, <3>6 DEF ShellInv, ShellTyped, fees
    <3> QED BY <1>2, <3>2, <3>7, AsksEnd DEF ShellInv
  <2> QED BY <1>1, <2>1, <2>2
<1>8. CASE SaveAnswered(i)
  <2>1. /\ GoesOn(i, getMerchant(r.id, "show")) \/ Ends(i)
        /\ UNCHANGED browser /\ r.kind = "save"
    BY <1>1, <1>8 DEF SaveAnswered, Arrived
  <2>2. ShellTyped'
    BY <2>1 DEF ShellInv, ShellTyped, browser, fees
  <2>3. r.id \in Merchants
    BY <1>1, <2>1 DEF AskFits, IdFits
  <2>4. AsksFit'
    <3>1. CASE Ends(i)
      BY <3>1, AsksEnd
    <3>2. CASE GoesOn(i, getMerchant(r.id, "show"))
      BY <2>3, <3>2, AskedShow, AsksProceed
    <3> QED BY <2>1, <3>1, <3>2
  <2> QED BY <1>2, <2>2, <2>4 DEF ShellInv
<1> QED BY <1>3, <1>4, <1>5, <1>6, <1>7, <1>8

(* The dashboard is loaded.                                                 *)
LEMMA LoadAllTyped ==
  ASSUME ShellInv, loadAll
  PROVE  ShellInv'
<1>1. /\ loadedFor' = merchantId
      /\ merchantId = None => UNCHANGED request
      /\ merchantId # None => Send(getMerchant(merchantId, "fee"))
      /\ UNCHANGED <<page, user, merchants, merchantId, merchant, globalFee, isLoading>>
  BY DEF loadAll
<1>2. ServerTyped' /\ ActsTyped'
  BY HandledTyped DEF loadAll, Handled
<1>3. ShellTyped'
  BY <1>1 DEF ShellInv, ShellTyped
<1>4. merchantId \in Chosen
  BY DEF ShellInv, ShellTyped
<1>5. CASE merchantId = None
  <2>1. request' = request
    BY <1>1, <1>5
  <2>2. AsksFit'
    BY <2>1 DEF ShellInv, AsksFit
  <2> QED BY <1>2, <1>3, <2>2 DEF ShellInv
<1>6. CASE merchantId # None
  BY <1>1, <1>2, <1>3, <1>4, <1>6, AskedShow, AsksSent DEF ShellInv, Chosen
<1> QED BY <1>5, <1>6

-----------------------------------------------------------------------------
(* The user.                                                                *)
LEMMA LeftBehindFits ==
  ASSUME ShellInv, NEW sent, sent = LeftBehind
  PROVE  /\ DOMAIN sent = Slots
         /\ \A i \in Slots : /\ (sent[i] = Free <=> request[i] = Free)
                             /\ sent[i] # Free => AskFits(sent[i])
                             /\ sent[i].kind = request[i].kind
                             /\ sent[i] = request[i] \/ sent[i].then \in {"show", "left"}
<1>1. DOMAIN sent = Slots
  BY DEF LeftBehind
<1>2. ASSUME NEW i \in Slots
      PROVE  /\ (sent[i] = Free <=> request[i] = Free)
             /\ sent[i] # Free => AskFits(sent[i])
             /\ sent[i].kind = request[i].kind
             /\ sent[i] = request[i] \/ sent[i].then \in {"show", "left"}
  <2>1. PICK r, q : r = request[i] /\ q = sent[i]
    OBVIOUS
  <2>2. q = IF r = Free THEN Free
            ELSE IF r.then = "fee" /\ r.kind = "show" THEN [r EXCEPT !.then = "show"]
            ELSE IF r.kind = "fee" THEN [r EXCEPT !.then = "left"] ELSE r
    BY <2>1 DEF LeftBehind
  <2>3. CASE r = Free \/ q = r
    BY <2>1, <2>2, <2>3 DEF ShellInv, AsksFit
  <2>4. CASE r # Free /\ q # r
    <3>1. AskFits(r) /\ r \in Asked \cup Answers
      BY <2>1, <2>4 DEF ShellInv, AsksFit, AskFits
    <3>2. \/ r.kind = "show" /\ q = [r EXCEPT !.then = "show"]
          \/ r.kind = "fee" /\ q = [r EXCEPT !.then = "left"]
      BY <2>2, <2>4
    <3>3. /\ q \in Asked \cup Answers /\ q.kind = r.kind /\ q.id = r.id /\ q.stored = r.stored /\ q.at = r.at
          /\ q.then \in {"show", "left"} /\ (q.kind = "show" => q.then = "show")
          /\ r.at = "page" => q.ok = r.ok /\ q.result = r.result
      BY <3>1, <3>2 DEF Asked, Answers, Thens
    <3>4. AskFits(q)
      BY <3>1, <3>2, <3>3 DEF AskFits, ThenFits, IdFits, ResultFits
    <3> QED BY <2>1, <2>4, <3>3, <3>4, FreeIsNoAsk DEF AskFits
  <2> QED BY <2>3, <2>4
<1> QED BY <1>1, <1>2
(* Another page is opened, with what it asks for.                           *)
LEMMA GoToTyped ==
  ASSUME ShellInv, NEW p \in {"settings", "manage", "currencies"}, NEW sent, GoTo(p, sent),
         DOMAIN sent = Slots, \A i \in Slots : sent[i] # Free => AskFits(sent[i])
  PROVE  ShellInv'
<1>1. /\ page' = p /\ request' = sent /\ globalFee' = None /\ loadedFor' = None /\ UserActs
      /\ UNCHANGED <<server, user, merchants, merchantId, merchant, isLoading, faults>>
  BY DEF GoTo
<1>2. ServerTyped' /\ ActsTyped'
  BY <1>1, HandledTyped
<1>3. ShellTyped'
  BY <1>1, NoneIsId DEF ShellInv, ShellTyped
<1>4. AsksFit'
  BY <1>1 DEF AsksFit
<1> QED BY <1>2, <1>3, <1>4 DEF ShellInv

(* The user opens a page.                                                   *)
LEMMA OpeningTyped ==
  ASSUME ShellInv, OpenSettings \/ OpenManage \/ OpenCurrencies
  PROVE  ShellInv'
<1>1. PICK left : left = LeftBehind
  OBVIOUS
<1>2. DOMAIN left = Slots /\ \A i \in Slots : left[i] # Free => AskFits(left[i])
  BY <1>1, LeftBehindFits
<1>3. DOMAIN request = Slots /\ \A i \in Slots : request[i] # Free => AskFits(request[i])
  BY DEF ShellInv, AsksFit
<1>4. CASE OpenManage
  BY <1>1, <1>2, <1>4, GoToTyped DEF OpenManage
<1>5. CASE OpenCurrencies
  BY <1>3, <1>5, GoToTyped DEF OpenCurrencies
<1>6. CASE OpenSettings
  <2>1. CASE merchantId = None
    BY <1>1, <1>2, <1>6, <2>1, GoToTyped DEF OpenSettings
  <2>2. CASE merchantId # None
    <3>1. PICK i \in FreeSlots : GoTo("settings", [left EXCEPT ![i] = getMerchant(merchantId, "show")])
      BY <1>1, <1>6, <2>2 DEF OpenSettings
    <3>2. PICK q : q = getMerchant(merchantId, "show")
      OBVIOUS
    <3>3. AskFits(q)
      BY <2>2, <3>2, AskedShow DEF ShellInv, ShellTyped, Chosen
    <3>4. PICK sent : sent = [left EXCEPT ![i] = q]
      OBVIOUS
    <3>5. DOMAIN sent = Slots /\ \A j \in Slots : sent[j] # Free => AskFits(sent[j])
      BY <1>2, <3>3, <3>4
    <3> QED BY <3>1, <3>2, <3>4, <3>5, GoToTyped
  <2> QED BY <2>1, <2>2
<1> QED BY <1>4, <1>5, <1>6

(* The requests of signing in and out, creating and deleting.               *)
LEMMA ActTyped ==
  ASSUME ShellInv, NEW kind \in {"login", "logout", "create", "delete"}, NEW id \in Ids, NEW then \in Thens,
         kind = "login" => id \in Users, kind \in {"create", "delete"} => id \in Merchants,
         NEW q, q = Asking(kind, id, then, None)
  PROVE  /\ AskFits(q) /\ q # Free /\ q.kind = kind /\ q.at = "server" /\ q.id = id
         /\ q.then = then
<1>0. kind \in ShellKinds /\ None \in Chosen
  BY NoneIsId DEF ShellKinds
<1>1. /\ q \in Asked /\ q.kind = kind /\ q.at = "server" /\ q.id = id /\ q.then = then
      /\ q # Free /\ ResultFits(q)
  BY <1>0, AskingTyped
<1> QED BY <1>1 DEF AskFits, ThenFits, IdFits

(* A form is saved.                                                         *)
LEMMA SaveSent ==
  ASSUME ShellInv, NEW then \in {"methods", "currency", "webhook", "fee"}, NEW value,
         then = "fee" => value \in Chosen,
         then # "fee" => (merchant # None => value \in Merchants), SaveSettings(then, value),
         NEW q, q = Asking("save", merchantId, then, value)
  PROVE  /\ AskFits(q) /\ q # Free /\ q.kind = "save" /\ q.at = "server" /\ q.id = merchantId
         /\ q.then = then /\ q.stored = value /\ Send(q)
<1>1. merchantId \in Merchants /\ merchant # None /\ Send(q)
  BY DEF SaveSettings, ShellInv, ShellTyped, Chosen
<1>2. "save" \in ShellKinds /\ then \in Thens /\ merchantId \in Ids /\ value \in Chosen
  BY <1>1, NoneIsId DEF ShellKinds, Thens
<1>3. /\ q \in Asked /\ q.kind = "save" /\ q.at = "server" /\ q.id = merchantId /\ q.then = then
      /\ q.stored = value /\ q # Free /\ ResultFits(q)
  BY <1>2, AskingTyped
<1> QED BY <1>1, <1>3 DEF AskFits, ThenFits, IdFits

(* The four forms that save settings.                                       *)
LEMMA SaveTyped ==
  ASSUME ShellInv, PaymentMethodsChange \/ toggleCurrency \/ updateWebhookSettings \/ saveFeeSettings
  PROVE  ShellInv'
<1>1. PICK then \in {"methods", "currency", "webhook", "fee"}, value \in {merchant.settings, globalFee} :
        SaveSettings(then, value) /\ (then = "fee" => value = globalFee)
        /\ (then # "fee" => value = merchant.settings)
  BY DEF PaymentMethodsChange, toggleCurrency, updateWebhookSettings, saveFeeSettings
<1>2. /\ then = "fee" => value \in Chosen
      /\ then # "fee" => (merchant # None => value \in Merchants)
  BY <1>1 DEF ShellInv, ShellTyped, Displays
<1>3. PICK q : q = Asking("save", merchantId, then, value)
  OBVIOUS
<1>4. AskFits(q) /\ Send(q)
  BY <1>1, <1>2, <1>3, SaveSent
<1>5. UserActs /\ UNCHANGED <<server, browser, faults>>
  BY <1>1 DEF SaveSettings
<1>6. ServerTyped' /\ ActsTyped'
  BY <1>5, HandledTyped
<1>7. ShellTyped'
  BY <1>5 DEF ShellInv, ShellTyped, browser, fees
<1> QED BY <1>4, <1>6, <1>7, AsksSent DEF ShellInv

(* Everything the user does.                                                *)
LEMMA UserTyped ==
  ASSUME ShellInv, UserDoes
  PROVE  ShellInv'
<1>1. ASSUME NEW u \in Users, SignIn(u) PROVE ShellInv'
  <2>1. Send(Asking("login", u, "reload", None)) /\ UserActs /\ UNCHANGED <<server, browser, faults>>
    BY <1>1 DEF SignIn
  <2>2. PICK q : q = Asking("login", u, "reload", None)
    OBVIOUS
  <2>3. AskFits(q)
    BY <2>2, ActTyped, NoneIsId DEF Thens
  <2>4. ServerTyped' /\ ActsTyped'
    BY <2>1, HandledTyped
  <2>5. ShellTyped'
    BY <2>1 DEF ShellInv, ShellTyped, browser, fees
  <2> QED BY <2>1, <2>2, <2>3, <2>4, <2>5, AsksSent DEF ShellInv
<1>2. ASSUME NEW m \in Merchants,
             SelectMerchant(m) \/ uploadCreatedMerchant(m) \/ uploadEditedMerchant(m)
             \/ onConfirmDeleteMerchant(m)
      PROVE  ShellInv'
  <2>1. PICK q : /\ q \in {getMerchant(m, "show"), Asking("create", m, "choose", None),
                           getMerchants("reset", None, None), Asking("delete", m, "list", None)}
                 /\ Send(q)
    BY <1>2 DEF SelectMerchant, uploadCreatedMerchant, uploadEditedMerchant, onConfirmDeleteMerchant
  <2>2. AskFits(q)
    <3>1. CASE q = getMerchant(m, "show")
      BY <3>1, AskedShow
    <3>2. CASE q = Asking("create", m, "choose", None)
      BY <3>2, ActTyped, NoneIsId DEF Thens
    <3>3. CASE q = getMerchants("reset", None, None)
      BY <3>3, AskedList, NoneIsId
    <3>4. CASE q = Asking("delete", m, "list", None)
      BY <3>4, ActTyped, NoneIsId DEF Thens
    <3> QED BY <2>1, <3>1, <3>2, <3>3, <3>4
  <2>3. UserActs /\ UNCHANGED <<server, faults>>
    BY <1>2 DEF SelectMerchant, uploadCreatedMerchant, uploadEditedMerchant, onConfirmDeleteMerchant
  <2>4. /\ merchantId' \in {m, merchantId}
        /\ UNCHANGED <<page, user, merchants, merchant, fees, isLoading>>
    BY <1>2 DEF SelectMerchant, uploadCreatedMerchant, uploadEditedMerchant, onConfirmDeleteMerchant,
                browser
  <2>5. ShellTyped'
    BY <2>4, NoneIsId DEF ShellInv, ShellTyped, fees
  <2> QED BY <2>1, <2>2, <2>3, <2>5, HandledTyped, AsksSent DEF ShellInv
<1>3. CASE logout
  <2>1. /\ merchantId' = None /\ Send(Asking("logout", None, "login", None)) /\ UserActs
        /\ UNCHANGED <<server, faults>> /\ UNCHANGED <<page, user, merchants, merchant, fees, isLoading>>
    BY <1>3 DEF logout
  <2>2. PICK q : q = Asking("logout", None, "login", None)
    OBVIOUS
  <2>3. AskFits(q)
    BY <2>2, ActTyped, NoneIsId DEF Thens
  <2>4. ShellTyped'
    BY <2>1, NoneIsId DEF ShellInv, ShellTyped, fees
  <2> QED BY <2>1, <2>2, <2>3, <2>4, HandledTyped, AsksSent DEF ShellInv
<1> QED BY <1>1, <1>2, <1>3, OpeningTyped, SaveTyped DEF UserDoes

(* The tab as it is opened.                                                 *)
LEMMA ShellStarts ==
  ASSUME DashboardInit
  PROVE  ShellInv
<1>1. PICK q : q = loadUserInfo(merchantId)
  OBVIOUS
<1>2. AskFits(q)
  BY <1>1, AskedMe DEF DashboardInit, Chosen
<1>3. ServerTyped
  <2>1. \A m \in Merchants : [own |-> m, fee |-> m] \in [own : Merchants, fee : Chosen]
    BY NoneIsId
  <2> QED BY <2>1 DEF DashboardInit, ServerTyped
<1>4. ShellTyped
  BY NoneIsId DEF DashboardInit, ShellTyped, Chosen
<1>5. ActsTyped
  BY DashboardAssumption DEF DashboardInit, ActsTyped
<1>6. AsksFit
  BY <1>1, <1>2 DEF DashboardInit, AsksFit
<1> QED BY <1>3, <1>4, <1>5, <1>6 DEF ShellInv

(* Every step keeps the types.                                              *)
LEMMA ShellKeeps ==
  ASSUME ShellInv, [DashboardNext]_dashboardVars
  PROVE  ShellInv'
<1>1. ASSUME NEW i \in Slots, Answered(i) PROVE ShellInv'
  BY <1>1, ReadsTyped, ActsAnswered DEF Answered
<1>2. CASE UNCHANGED dashboardVars
  <2>1. ServerTyped' /\ ShellTyped' /\ ActsTyped'
    BY <1>2 DEF dashboardVars, ShellInv, ServerTyped, ShellTyped, ActsTyped, server, browser, fees
  <2>2. request' = request
    BY <1>2 DEF dashboardVars
  <2>3. AsksFit'
    BY <2>2 DEF ShellInv, AsksFit
  <2> QED BY <2>1, <2>3 DEF ShellInv
<1> QED BY <1>1, <1>2, UserTyped, LoseTyped, LoadAllTyped, ServeTyped DEF DashboardNext

-----------------------------------------------------------------------------
(* A user who waits, and loses nothing.                                     *)
LEMMA QuietIsFree ==
  /\ Quiet <=> \A i \in Slots : request[i] = Free
  /\ Quiet' <=> \A i \in Slots : request'[i] = Free
BY DEF Quiet, FreeSlots

(* A user who has waited and lost nothing had done so before.               *)
LEMMA UnhurtBefore ==
  ASSUME ShellInv, UnhurtInv, DashboardNext, Unhurt'
  PROVE  Unhurt /\ UnhurtFacts /\ (UserActs => Quiet /\ ~EffectIsDue)
<1>1. faults \in Nat /\ hasty \in Nat
  BY DashboardAssumption DEF ShellInv, ActsTyped
<1>2. Unhurried \/ UserActs
  BY DEF DashboardNext, UserDoes, SignIn, SelectMerchant, uploadCreatedMerchant, uploadEditedMerchant,
         onConfirmDeleteMerchant, logout, OpenSettings, OpenManage, OpenCurrencies, PaymentMethodsChange,
         toggleCurrency, updateWebhookSettings, saveFeeSettings, SaveSettings, GoTo, SessionExpires,
         loadAll, Serve, Lose, Answered, MeAnswered, ListLoaded, ShowAnswered, LoginAnswered,
         LogoutAnswered, CreateAnswered, DeleteAnswered, ListReloaded, SaveAnswered, FeeAnswered, Handled
<1>3. faults' = faults \/ faults' = faults + 1
  BY DEF DashboardNext, UserDoes, SignIn, SelectMerchant, uploadCreatedMerchant, uploadEditedMerchant,
         onConfirmDeleteMerchant, logout, OpenSettings, OpenManage, OpenCurrencies, PaymentMethodsChange,
         toggleCurrency, updateWebhookSettings, saveFeeSettings, SaveSettings, GoTo, SessionExpires,
         loadAll, Serve, Lose, Answered, MeAnswered, ListLoaded, ShowAnswered, LoginAnswered,
         LogoutAnswered, CreateAnswered, DeleteAnswered, ListReloaded, SaveAnswered, FeeAnswered, Handled
<1>4. faults = 0 /\ hasty = 0
  BY <1>1, <1>2, <1>3 DEF Unhurt, Unhurried, UserActs
<1>5. Unhurt /\ UnhurtFacts
  BY <1>4 DEF Unhurt, UnhurtInv
<1>6. ASSUME UserActs PROVE Quiet /\ ~EffectIsDue
  BY <1>1, <1>4, <1>6 DEF Unhurt, UserActs
<1> QED BY <1>5, <1>6

(* An answer on its way stays right while what it is about does.            *)
LEMMA FitsSame ==
  ASSUME NEW x, UnhurtFits(x),
         UNCHANGED <<session, exists, page, user, merchants, merchantId, loadedFor>>
  PROVE  UnhurtFits(x)'
BY DEF UnhurtFits, MeFits, ListFits, ReadFits, SaveFits, SessionFits, ManageFits, TabKnown, SignedIn,
       ChosenOwn, Own, ListIsOwn

(* The tab knows its user and merchants as before.                          *)
LEMMA TabKnownSame ==
  ASSUME TabKnown, UNCHANGED <<session, exists, user, merchants, merchantId>>
  PROVE  TabKnown'
BY DEF TabKnown, SignedIn, ChosenOwn, Own

(* Beside reads of the merchant, one request is on its way at most.         *)
LEMMA OnlyOneActs ==
  ASSUME UnhurtFacts, NEW i \in Slots, request[i] # Free, request[i].kind \notin {"show", "fee"}
  PROVE  \A j \in Slots \ {i} : request[j] = Free
BY DEF UnhurtFacts, OnlyReads

(* After a step on slot i: what is left to show.                            *)
LEMMA UnhurtStep ==
  ASSUME ShellInv, UnhurtFacts, NEW i \in Slots, NEW r, r = request[i], r # Free, NEW q, GoesOn(i, q),
         q = Free \/ q.kind \in {"show", "fee"} \/ r.kind \notin {"show", "fee"},
         \/ r.kind \notin {"show", "fee"}
         \/ UNCHANGED <<session, exists, page, user, merchants, merchantId, loadedFor>>,
         q # Free => UnhurtFits(q)'
  PROVE  /\ OnlyReads' /\ (\A j \in Slots : request[j] # Free => UnhurtFits(request[j]))'
         /\ request'[i] = q /\ \A j \in Slots \ {i} : request'[j] = request[j]
<1>1. request'[i] = q /\ \A j \in Slots \ {i} : request'[j] = request[j]
  BY SlotChanges DEF ShellInv, AsksFit, GoesOn
<1>2. OnlyReads'
  BY <1>1 DEF UnhurtFacts, OnlyReads
<1>3. ASSUME NEW j \in Slots, request'[j] # Free PROVE UnhurtFits(request[j])'
  <2>1. CASE j = i
    BY <1>1, <1>3, <2>1
  <2>2. CASE j # i
    <3>1. PICK x : x = request[j] /\ x = request'[j] /\ x # Free /\ UnhurtFits(x)
      BY <1>1, <1>3, <2>2 DEF UnhurtFacts
    <3>2. UNCHANGED <<session, exists, page, user, merchants, merchantId, loadedFor>>
      BY <2>2, <3>1, OnlyOneActs
    <3>3. UnhurtFits(x)'
      BY <3>1, <3>2, FitsSame
    <3> QED BY <3>1, <3>3
  <2> QED BY <2>1, <2>2
<1> QED BY <1>1, <1>2, <1>3

(* What has to be shown after a step of a user who waits.                   *)
LEMMA UnhurtFrom ==
  ASSUME OnlyReads', (\A j \in Slots : request[j] # Free => UnhurtFits(request[j]))',
         SettingsApart', DisplayApart', (Quiet /\ page # "login" => TabKnown)',
         (page = "currencies" => ~isLoading)', ShownIsChosen', FeeIsChosen'
  PROVE  UnhurtInv'
BY DEF UnhurtInv, UnhurtFacts

(* A read of the chosen merchant is allowed.                                *)
LEMMA ReadIsAllowed ==
  ASSUME ShellInv, UnhurtFacts, NEW r, AskFits(r), UnhurtFits(r), r.kind \in {"show", "fee", "save"}
  PROVE  TabKnown /\ r.id \in Merchants /\ r.id \in exists /\ Owner[r.id] = session /\ Allowed(r)
<1>1. TabKnown /\ r.id = merchantId /\ r.id \in Merchants
  BY DEF AskFits, IdFits, UnhurtFits, ReadFits, SaveFits
<1>2. r.id \in Own(session)
  BY <1>1, NoneIsId DEF TabKnown, ChosenOwn
<1> QED BY <1>1, <1>2 DEF Own, Allowed

(* What the server answers.                                                 *)
LEMMA ServedAnswer ==
  ASSUME ShellInv, UnhurtFacts, NEW i \in Slots, Serve(i), NEW r, r = request[i]
  PROVE  \E q : /\ GoesOn(i, q) /\ q # Free /\ q.kind = r.kind /\ q.then = r.then /\ q.id = r.id
                /\ q.stored = r.stored /\ q.at = "page" /\ (q.ok <=> Allowed(r))
                /\ (Allowed(r) => q.result = Result(r)) /\ (~Allowed(r) => q.result = "refused")
<1>1. /\ AskFits(r) /\ r # Free
      /\ Allowed(r) => GoesOn(i, Answer(r, TRUE, Result(r)))
      /\ ~Allowed(r) => GoesOn(i, Answer(r, FALSE, "refused"))
  BY ServeDoes
<1>2. r.kind # "none"
  BY <1>1 DEF AskFits, Asked, Answers, ShellKinds
<1>3. CASE Allowed(r)
  <2>1. PICK q : q = Answer(r, TRUE, Result(r))
    OBVIOUS
  <2>2. /\ q.kind = r.kind /\ q.then = r.then /\ q.id = r.id /\ q.stored = r.stored /\ q.at = "page"
        /\ q.ok = TRUE /\ q.result = Result(r)
    BY <2>1 DEF Answer
  <2> QED BY <1>1, <1>2, <1>3, <2>1, <2>2, FreeIsNoAsk
<1>4. CASE ~Allowed(r)
  <2>1. PICK q : q = Answer(r, FALSE, "refused")
    OBVIOUS
  <2>2. /\ q.kind = r.kind /\ q.then = r.then /\ q.id = r.id /\ q.stored = r.stored /\ q.at = "page"
        /\ q.ok = FALSE /\ q.result = "refused"
    BY <2>1 DEF Answer
  <2> QED BY <1>1, <1>2, <1>4, <2>1, <2>2, FreeIsNoAsk
<1> QED BY <1>3, <1>4

(* The answer is right about the chosen merchant.                           *)
LEMMA ServeFits ==
  ASSUME ShellInv, UnhurtFacts, NEW i \in Slots, Serve(i), NEW r, r = request[i],
         NEW q, q.kind = r.kind, q.then = r.then, q.id = r.id, q.stored = r.stored, q.at = "page",
         q.ok <=> Allowed(r), Allowed(r) => q.result = Result(r), ~Allowed(r) => q.result = "refused"
  PROVE  UnhurtFits(q)'
<1>1. /\ AskFits(r) /\ r # Free /\ r.at = "server"
      /\ session' = IF r.kind = "login" THEN r.id ELSE IF r.kind = "logout" THEN None ELSE session
      /\ exists' = IF r.kind = "create" /\ Allowed(r) THEN exists \cup {r.id}
                   ELSE IF r.kind = "delete" /\ Allowed(r) THEN exists \ {r.id} ELSE exists
      /\ UNCHANGED browser
  BY ServeDoes
<1>2. UNCHANGED <<page, user, merchants, merchantId, merchant, globalFee, loadedFor, isLoading>>
  BY <1>1 DEF browser, fees
<1>3. UnhurtFits(r) /\ IdFits(r)
  BY <1>1 DEF UnhurtFacts, AskFits
<1>4. CASE r.kind = "me"
  <2>1. UNCHANGED <<session, page>> /\ page \in OpeningPages
    BY <1>1, <1>2, <1>3, <1>4 DEF UnhurtFits, MeFits
  <2>2. Allowed(r) <=> session # None
    BY <1>4 DEF Allowed
  <2>3. Allowed(r) => q.result = session
    BY <1>4 DEF Result
  <2> QED BY <1>4, <2>1, <2>2, <2>3 DEF UnhurtFits, MeFits, ListFits, ReadFits, SaveFits, SessionFits, ManageFits
<1>5. CASE r.kind = "list"
  <2>1. UNCHANGED <<session, exists>> /\ ListFits(r)
    BY <1>1, <1>3, <1>5 DEF UnhurtFits
  <2>2. Allowed(r) /\ Result(r) = Own(session)
    BY <1>5, <2>1 DEF Allowed, Result, ListFits, SignedIn
  <2>3. ListFits(q)'
    BY <1>2, <1>5, <2>1, <2>2 DEF ListFits, ListIsOwn, SignedIn, ChosenOwn, Own
  <2> QED BY <1>5, <2>3 DEF UnhurtFits, MeFits, ReadFits, SaveFits, SessionFits, ManageFits
<1>6. CASE r.kind \in {"show", "fee"}
  <2>1. UNCHANGED <<session, exists>> /\ ReadFits(r) /\ TabKnown
    BY <1>1, <1>3, <1>6 DEF UnhurtFits, ReadFits
  <2>2. Allowed(r) /\ r.id \in Merchants
    BY <1>1, <1>3, <1>6, ReadIsAllowed
  <2>3. Result(r) = IF r.kind = "show" THEN [id |-> r.id, settings |-> r.id] ELSE r.id
    <3>0. SettingsApart
      BY DEF UnhurtFacts
    <3>1. settings[r.id] = [own |-> r.id, fee |-> r.id]
      BY <2>2, <3>0 DEF SettingsApart
    <3>2. /\ r.kind = "show" => Result(r) = [id |-> r.id, settings |-> settings[r.id].own]
          /\ r.kind = "fee" => Result(r) = settings[r.id].fee
      BY <1>1, <2>2, ResultTyped
    <3> QED BY <1>6, <3>1, <3>2
  <2>4. TabKnown'
    BY <1>2, <2>1, TabKnownSame
  <2>5. ReadFits(q)'
    BY <1>2, <1>6, <2>1, <2>2, <2>3, <2>4 DEF ReadFits
  <2> QED BY <1>6, <2>5 DEF UnhurtFits, MeFits, ListFits, SaveFits, SessionFits, ManageFits
<1>7. CASE r.kind = "save"
  <2>1. UNCHANGED <<session, exists>> /\ SaveFits(r) /\ TabKnown
    BY <1>1, <1>3, <1>7 DEF UnhurtFits, SaveFits
  <2>2. TabKnown'
    BY <1>2, <2>1, TabKnownSame
  <2>3. SaveFits(q)'
    BY <1>2, <1>7, <2>1, <2>2 DEF SaveFits
  <2> QED BY <1>7, <2>3 DEF UnhurtFits, MeFits, ListFits, ReadFits, SessionFits, ManageFits
<1>8. CASE r.kind \in {"login", "logout"}
  <2>1. SessionFits(q)'
    BY <1>2, <1>3, <1>8 DEF UnhurtFits, SessionFits, Allowed
  <2> QED BY <1>8, <2>1 DEF UnhurtFits, MeFits, ListFits, ReadFits, SaveFits, ManageFits
<1>9. CASE r.kind = "create"
  <2>1. session' = session /\ ManageFits(r) /\ page = "manage" /\ SignedIn
    BY <1>1, <1>3, <1>9 DEF UnhurtFits, ManageFits
  <2>2. Allowed(r) /\ exists' = exists \cup {r.id}
    BY <1>1, <1>9, <2>1 DEF Allowed, SignedIn
  <2>3. Own(session) \subseteq Own(session)'
    BY <2>1, <2>2 DEF Own
  <2>4. SignedIn' /\ ChosenOwn' /\ page' = "manage" /\ Owner[r.id] = session' /\ r.id \in exists'
    BY <1>2, <1>9, <2>1, <2>2, <2>3 DEF SignedIn, ChosenOwn, ManageFits
  <2>5. ManageFits(q)'
    BY <1>9, <2>2, <2>4 DEF ManageFits
  <2> QED BY <1>9, <2>5 DEF UnhurtFits, MeFits, ListFits, ReadFits, SaveFits, SessionFits
<1>10. CASE r.kind = "delete"
  <2>1. session' = session /\ ManageFits(r) /\ page = "manage" /\ SignedIn /\ merchants = Own(session)
        /\ r.id \in merchants /\ merchants # None
    BY <1>1, <1>3, <1>10 DEF UnhurtFits, ManageFits
  <2>2. Allowed(r) /\ exists' = exists \ {r.id}
    BY <1>1, <1>10, <2>1 DEF Allowed, Own
  <2>3. Own(session)' = merchants \ {r.id}
    BY <2>1, <2>2 DEF Own
  <2>5. SignedIn' /\ page' = "manage" /\ merchants' # None /\ merchants' \ {r.id} = Own(session)'
    BY <1>2, <2>1, <2>3 DEF SignedIn
  <2>6. ManageFits(q)'
    BY <1>10, <2>2, <2>5 DEF ManageFits
  <2> QED BY <1>10, <2>6 DEF UnhurtFits, MeFits, ListFits, ReadFits, SaveFits, SessionFits
<1>11. r.kind \in ShellKinds
  BY <1>1 DEF AskFits, Asked, Answers
<1> QED BY <1>4, <1>5, <1>6, <1>7, <1>8, <1>9, <1>10, <1>11 DEF ShellKinds

(* The server answers.                                                      *)
LEMMA ServeUnhurt ==
  ASSUME ShellInv, UnhurtFacts, NEW i \in Slots, Serve(i)
  PROVE  UnhurtInv'
<1>1. PICK r : r = request[i]
  OBVIOUS
<1>2. PICK q : /\ GoesOn(i, q) /\ q # Free /\ q.kind = r.kind /\ q.then = r.then /\ q.id = r.id
               /\ q.stored = r.stored /\ q.at = "page" /\ (q.ok <=> Allowed(r))
               /\ (Allowed(r) => q.result = Result(r)) /\ (~Allowed(r) => q.result = "refused")
  BY <1>1, ServedAnswer
<1>3. UnhurtFits(q)'
  BY <1>1, <1>2, ServeFits
<1>4. /\ AskFits(r) /\ r # Free /\ r.at = "server"
      /\ session' = IF r.kind = "login" THEN r.id ELSE IF r.kind = "logout" THEN None ELSE session
      /\ exists' = IF r.kind = "create" /\ Allowed(r) THEN exists \cup {r.id}
                   ELSE IF r.kind = "delete" /\ Allowed(r) THEN exists \ {r.id} ELSE exists
      /\ r.kind # "save" \/ ~Allowed(r) => settings' = settings
      /\ r.kind = "save" /\ Allowed(r) =>
           settings' = [settings EXCEPT ![r.id] = IF r.then = "fee" THEN [@ EXCEPT !.fee = r.stored]
                                                 ELSE [@ EXCEPT !.own = r.stored]]
      /\ UNCHANGED <<page, user, merchants, merchantId, merchant, globalFee, loadedFor, isLoading>>
  BY <1>1, ServeDoes DEF browser, fees
<1>5. \/ r.kind \notin {"show", "fee"}
      \/ UNCHANGED <<session, exists, page, user, merchants, merchantId, loadedFor>>
  BY <1>4
<1>6. /\ OnlyReads' /\ (\A j \in Slots : request[j] # Free => UnhurtFits(request[j]))'
      /\ request'[i] = q /\ \A j \in Slots \ {i} : request'[j] = request[j]
  BY <1>1, <1>2, <1>3, <1>4, <1>5, UnhurtStep
<1>7. \A j \in Slots : request'[j].kind = request[j].kind /\ request'[j].then = request[j].then
  BY <1>1, <1>2, <1>6
<1>8. SettingsApart'
  <2>1. CASE r.kind # "save" \/ ~Allowed(r)
    BY <1>4, <2>1 DEF UnhurtFacts, SettingsApart
  <2>2. CASE r.kind = "save" /\ Allowed(r)
    <3>1. r.id \in Merchants /\ r.stored = r.id
      BY <1>1, <1>4, <2>2 DEF AskFits, IdFits, UnhurtFacts, UnhurtFits, SaveFits
    <3>2. PICK old : old = settings[r.id] /\ old = [own |-> r.id, fee |-> r.id]
      BY <3>1 DEF UnhurtFacts, SettingsApart
    <3>3. PICK new : new = IF r.then = "fee" THEN [old EXCEPT !.fee = r.stored] ELSE [old EXCEPT !.own = r.stored]
      OBVIOUS
    <3>4. new = old
      BY <3>1, <3>2, <3>3
    <3>5. settings' = [settings EXCEPT ![r.id] = new]
      BY <1>4, <2>2, <3>2, <3>3
    <3>6. \A m \in Merchants : settings'[m] = settings[m]
      BY <3>2, <3>4, <3>5 DEF ShellInv, ServerTyped
    <3> QED BY <3>6 DEF UnhurtFacts, SettingsApart
  <2> QED BY <2>1, <2>2
<1>9. DisplayApart' /\ (page = "currencies" => ~isLoading)'
  BY <1>4 DEF UnhurtFacts, DisplayApart
<1>10. ~Quiet'
  BY <1>2, <1>6, QuietIsFree
<1>11. ShownIsChosen'
  BY <1>4, <1>7 DEF UnhurtFacts, ShownIsChosen
<1>12. FeeIsChosen'
  BY <1>4, <1>7 DEF UnhurtFacts, FeeIsChosen
<1> QED BY <1>6, <1>8, <1>9, <1>10, <1>11, <1>12, UnhurtFrom

(* The page goes on: nothing of the server's changes, and what is sent or   *)
(* left behind is known.                                                    *)
LEMMA TabStep ==
  ASSUME ShellInv, UnhurtFacts, NEW i \in Slots, NEW r, r = request[i], r # Free, NEW q, GoesOn(i, q),
         q = Free \/ q.kind \in {"show", "fee"} \/ r.kind \notin {"show", "fee"},
         \/ r.kind \notin {"show", "fee"}
         \/ UNCHANGED <<session, exists, page, user, merchants, merchantId, loadedFor>>,
         q # Free => UnhurtFits(q)', UNCHANGED <<server, faults, hasty>>,
         q = Free => page' = "login" \/ TabKnown',
         (page = "currencies" => ~isLoading)', DisplayApart',
         ShownIsChosen', FeeIsChosen'
  PROVE  UnhurtInv'
<1>1. /\ OnlyReads' /\ (\A j \in Slots : request[j] # Free => UnhurtFits(request[j]))'
      /\ request'[i] = q
  BY UnhurtStep
<1>2. SettingsApart'
  BY DEF UnhurtFacts, SettingsApart, server
<1>3. (Quiet /\ page # "login" => TabKnown)'
  <2>1. CASE q = Free
    BY <2>1
  <2>2. CASE q # Free
    BY <1>1, <2>2, QuietIsFree
  <2> QED BY <2>1, <2>2
<1> QED BY <1>1, <1>2, <1>3, UnhurtFrom

(* The user is known.                                                       *)
LEMMA MeUnhurt ==
  ASSUME ShellInv, UnhurtFacts, NEW i \in Slots, MeAnswered(i)
  PROVE  UnhurtInv'
<1>1. PICK r : /\ r = request[i] /\ r # Free /\ r.at = "page" /\ r.kind = "me" /\ AskFits(r)
               /\ UnhurtFits(r) /\ r.stored \in Chosen
  BY AskKnown DEF MeAnswered, Arrived, UnhurtFacts
<1>2. /\ page \in OpeningPages
      /\ r.ok => session # None /\ r.result = session
      /\ ~r.ok => r.result = "refused"
  BY <1>1 DEF UnhurtFits, MeFits
<1>3. UNCHANGED <<merchants, merchantId, merchant, globalFee, loadedFor>> /\ UNCHANGED <<server, faults, hasty>>
  BY DEF MeAnswered, Handled, Unhurried, fees
<1>4. DOMAIN request = Slots
  BY DEF ShellInv, AsksFit
<1>5. CASE r.ok
  <2>1. PICK q : q = getMerchants("load", None, r.stored)
    OBVIOUS
  <2>2. user' = r.result /\ GoesOn(i, q) /\ UNCHANGED <<page, isLoading>>
    BY <1>1, <1>5, <2>1 DEF MeAnswered
  <2>3. q # Free /\ q.kind = "list" /\ q.at = "server" /\ q.then = "load"
    BY <1>1, <2>1, AskedList, NoneIsId
  <2>4. UnhurtFits(q)'
    BY <1>2, <1>3, <1>5, <2>2, <2>3
       DEF UnhurtFits, MeFits, ListFits, ReadFits, SaveFits, SessionFits, ManageFits, SignedIn, ListIsOwn, server
  <2>5. request'[i] = q
    BY <1>4, <2>2 DEF GoesOn
  <2>6. ShownIsChosen'
    BY <2>3, <2>5 DEF ShownIsChosen
  <2>7. FeeIsChosen' /\ (page = "currencies" => ~isLoading)' /\ DisplayApart'
    BY <1>2, <1>3, <2>2 DEF FeeIsChosen, OpeningPages, UnhurtFacts, DisplayApart
  <2> QED BY <1>1, <1>3, <2>2, <2>3, <2>4, <2>6, <2>7, TabStep
<1>6. CASE ~r.ok
  <2>1. page' = "login" /\ GoesOn(i, Free)
    BY <1>1, <1>2, <1>6 DEF MeAnswered, Ends, GoesOn
  <2>2. ShownIsChosen' /\ FeeIsChosen' /\ (page = "currencies" => ~isLoading)' /\ DisplayApart'
    BY <1>3, <2>1 DEF ShownIsChosen, FeeIsChosen, MerchantPages, UnhurtFacts, DisplayApart
  <2> QED BY <1>1, <1>3, <2>1, <2>2, TabStep
<1> QED BY <1>5, <1>6

(* The list arrives, and an id of it is chosen.                             *)
LEMMA ListUnhurt ==
  ASSUME ShellInv, UnhurtFacts, NEW i \in Slots, ListLoaded(i)
  PROVE  UnhurtInv'
<1>1. PICK r : /\ r = request[i] /\ r # Free /\ r.at = "page" /\ r.kind = "list" /\ AskFits(r)
               /\ UnhurtFits(r) /\ r.then = "load" /\ r.stored \in Chosen
  BY AskKnown DEF ListLoaded, Arrived, UnhurtFacts
<1>2. page \in OpeningPages /\ SignedIn /\ r.ok /\ r.result = Own(session)
  BY <1>1 DEF UnhurtFits, ListFits, ListIsOwn
<1>3. PICK id : id = ValidId(r.stored, r.result)
  OBVIOUS
<1>4. /\ merchants' = r.result /\ merchantId' = id /\ page' = RouteFor(r.result)
      /\ id = None => isLoading' = FALSE /\ Ends(i)
      /\ id # None => GoesOn(i, getMerchant(id, "load")) /\ UNCHANGED isLoading
      /\ UNCHANGED <<user, merchant, globalFee, loadedFor>> /\ UNCHANGED <<server, faults, hasty>>
  BY <1>1, <1>2, <1>3 DEF ListLoaded, Handled, Unhurried, fees
<1>5. page' \in OpeningPages /\ page' \notin {"login", "currencies"}
  BY <1>2, <1>4 DEF RouteFor, OpeningPages
<1>6. id \in Own(session) \cup {None} /\ id \in Chosen
  BY <1>1, <1>2, <1>3, OwnIsTheirs, ValidIdTyped
<1>7. TabKnown'
  BY <1>2, <1>4, <1>6 DEF TabKnown, SignedIn, ChosenOwn, Own, server
<1>8. FeeIsChosen' /\ (page = "currencies" => ~isLoading)' /\ DisplayApart'
  BY <1>4, <1>5 DEF FeeIsChosen, UnhurtFacts, DisplayApart
<1>9. CASE id = None
  <2>1. GoesOn(i, Free)
    BY <1>4, <1>9 DEF Ends, GoesOn
  <2>2. ShownIsChosen'
    BY <1>4, <1>9 DEF ShownIsChosen
  <2> QED BY <1>1, <1>4, <1>7, <1>8, <2>1, <2>2, TabStep
<1>10. CASE id # None
  <2>1. PICK q : q = getMerchant(id, "load")
    OBVIOUS
  <2>2. q # Free /\ q.kind = "show" /\ q.at = "server" /\ q.then = "load" /\ q.id = id
    BY <1>6, <1>10, <2>1, AskedShow DEF Chosen
  <2>3. UnhurtFits(q)'
    BY <1>4, <1>5, <1>7, <2>2
       DEF UnhurtFits, MeFits, ListFits, ReadFits, SaveFits, SessionFits, ManageFits
  <2>4. GoesOn(i, q) /\ request'[i] = q
    BY <1>4, <1>10, <2>1 DEF GoesOn, ShellInv, AsksFit
  <2>5. ShownIsChosen'
    BY <2>2, <2>4 DEF ShownIsChosen
  <2> QED BY <1>1, <1>4, <1>8, <2>2, <2>3, <2>4, <2>5, TabStep
<1> QED BY <1>9, <1>10

(* The merchant arrives, and is put on display.                             *)
LEMMA ShowUnhurt ==
  ASSUME ShellInv, UnhurtFacts, NEW i \in Slots, ShowAnswered(i)
  PROVE  UnhurtInv'
<1>1. PICK r : /\ r = request[i] /\ r # Free /\ r.at = "page" /\ r.kind = "show" /\ AskFits(r)
               /\ UnhurtFits(r)
  BY AskKnown DEF ShowAnswered, Arrived, UnhurtFacts
<1>2. /\ TabKnown /\ r.id = merchantId /\ r.ok /\ r.result = [id |-> r.id, settings |-> r.id]
      /\ r.then = "fee" => page = "currencies" /\ loadedFor = merchantId
  BY <1>1 DEF UnhurtFits, ReadFits
<1>3. /\ merchant' = r.result /\ isLoading' = (isLoading /\ ~(r.ok /\ r.then = "load"))
      /\ r.then = "fee" => GoesOn(i, Asking("fee", r.id, "show", None))
      /\ r.then # "fee" => Ends(i)
      /\ UNCHANGED <<page, user, merchants, merchantId, globalFee, loadedFor>>
      /\ UNCHANGED <<server, faults, hasty>>
  BY <1>1, <1>2 DEF ShowAnswered, Handled, Unhurried, fees
<1>4. UNCHANGED <<session, exists>>
  BY <1>3 DEF server
<1>5. TabKnown'
  BY <1>2, <1>3, <1>4, TabKnownSame
<1>6. (page = "currencies" => ~isLoading)' /\ DisplayApart' /\ ShownIsChosen'
  <2>1. (page = "currencies" => ~isLoading)'
    BY <1>3 DEF UnhurtFacts
  <2>2. merchant'.id = merchantId' /\ merchant'.settings = merchant'.id
    BY <1>2, <1>3
  <2> QED BY <2>1, <2>2 DEF DisplayApart, ShownIsChosen
<1>7. CASE r.then = "fee"
  <2>1. PICK q : q = Asking("fee", r.id, "show", None)
    OBVIOUS
  <2>2. q # Free /\ q.kind = "fee" /\ q.at = "server" /\ q.then = "show" /\ q.id = r.id
    BY <1>1, <2>1, AskedFee DEF AskFits, IdFits
  <2>3. UnhurtFits(q)'
    BY <1>2, <1>3, <1>5, <1>7, <2>2
       DEF UnhurtFits, MeFits, ListFits, ReadFits, SaveFits, SessionFits, ManageFits
  <2>4. GoesOn(i, q) /\ request'[i] = q
    BY <1>3, <1>7, <2>1 DEF GoesOn, ShellInv, AsksFit
  <2>5. FeeIsChosen'
    BY <2>2, <2>4 DEF FeeIsChosen
  <2> QED BY <1>1, <1>3, <1>4, <1>6, <2>2, <2>3, <2>4, <2>5, TabStep
<1>8. CASE r.then # "fee"
  <2>1. GoesOn(i, Free)
    BY <1>3, <1>8 DEF Ends, GoesOn
  <2>2. \A j \in Slots \ {i} : request'[j] = request[j]
    BY <2>1, SlotChanges DEF GoesOn, ShellInv, AsksFit
  <2>3. FeeIsChosen'
    <3> SUFFICES ASSUME page = "currencies", merchantId # None, loadedFor = merchantId, globalFee # merchantId
                 PROVE  \E j \in Slots : \/ request'[j].kind = "fee"
                                         \/ request'[j].kind = "show" /\ request'[j].then = "fee"
      BY <1>3 DEF FeeIsChosen
    <3>1. PICK j \in Slots : \/ request[j].kind = "fee"
                             \/ request[j].kind = "show" /\ request[j].then = "fee"
      BY DEF UnhurtFacts, FeeIsChosen
    <3>2. j # i
      BY <1>1, <1>8, <3>1
    <3> QED BY <2>2, <3>1, <3>2
  <2> QED BY <1>1, <1>3, <1>4, <1>5, <1>6, <2>1, <2>3, TabStep
<1> QED BY <1>7, <1>8

(* The fee arrives, and is put into the form.                               *)
LEMMA FeeUnhurt ==
  ASSUME ShellInv, UnhurtFacts, NEW i \in Slots, FeeAnswered(i)
  PROVE  UnhurtInv'
<1>1. PICK r : /\ r = request[i] /\ r # Free /\ r.at = "page" /\ r.kind = "fee" /\ AskFits(r)
               /\ UnhurtFits(r)
  BY AskKnown DEF FeeAnswered, Arrived, UnhurtFacts
<1>2. /\ TabKnown /\ r.id = merchantId /\ r.ok /\ r.result = r.id /\ r.then = "show"
  BY <1>1 DEF UnhurtFits, ReadFits
<1>3. /\ globalFee' = merchantId /\ GoesOn(i, Free)
      /\ UNCHANGED <<page, user, merchants, merchantId, merchant, loadedFor, isLoading>>
      /\ UNCHANGED <<server, faults, hasty>>
  BY <1>1, <1>2 DEF FeeAnswered, Handled, Unhurried, Ends, GoesOn
<1>4. UNCHANGED <<session, exists>>
  BY <1>3 DEF server
<1>5. TabKnown'
  BY <1>2, <1>3, <1>4, TabKnownSame
<1>6. (page = "currencies" => ~isLoading)' /\ DisplayApart' /\ FeeIsChosen'
  BY <1>3 DEF UnhurtFacts, DisplayApart, FeeIsChosen
<1>7. \A j \in Slots \ {i} : request'[j] = request[j]
  BY <1>3, SlotChanges DEF GoesOn, ShellInv, AsksFit
<1>8. ShownIsChosen'
  <2> SUFFICES ASSUME page \in MerchantPages, merchantId # None, merchant # None,
                      page = "currencies" => loadedFor = merchantId, merchant.id # merchantId
               PROVE  \E j \in Slots : request'[j].kind \in {"show", "me", "list"}
    BY <1>3 DEF ShownIsChosen
  <2>1. PICK j \in Slots : request[j].kind \in {"show", "me", "list"}
    BY DEF UnhurtFacts, ShownIsChosen
  <2>2. j # i
    BY <1>1, <2>1
  <2> QED BY <1>7, <2>1, <2>2
<1> QED BY <1>1, <1>3, <1>4, <1>5, <1>6, <1>8, TabStep

(* The user is signed in, or out.                                           *)
LEMMA SessionUnhurt ==
  ASSUME ShellInv, UnhurtFacts, NEW i \in Slots, LoginAnswered(i) \/ LogoutAnswered(i)
  PROVE  UnhurtInv'
<1>1. PICK r : /\ r = request[i] /\ r # Free /\ r.at = "page" /\ r.kind \in {"login", "logout"} /\ AskFits(r)
               /\ UnhurtFits(r)
  BY AskKnown DEF LoginAnswered, LogoutAnswered, Arrived, UnhurtFacts
<1>2. /\ UNCHANGED <<user, merchants, merchantId, merchant, globalFee, loadedFor, isLoading>>
      /\ UNCHANGED <<server, faults, hasty>>
  BY DEF LoginAnswered, LogoutAnswered, Handled, Unhurried, fees
<1>3. DisplayApart'
  BY <1>2 DEF UnhurtFacts, DisplayApart
<1>4. CASE LoginAnswered(i)
  <2>1. PICK q : q = loadUserInfo(merchantId)
    OBVIOUS
  <2>2. /\ page' \in {"manage", "settings"} /\ GoesOn(i, q)
    BY <1>4, <2>1 DEF LoginAnswered
  <2>3. q # Free /\ q.kind = "me" /\ q.at = "server"
    BY <2>1, AskedMe DEF ShellInv, ShellTyped
  <2>4. UnhurtFits(q)'
    BY <2>2, <2>3
       DEF UnhurtFits, MeFits, ListFits, ReadFits, SaveFits, SessionFits, ManageFits, OpeningPages
  <2>5. request'[i] = q
    BY <2>2 DEF GoesOn, ShellInv, AsksFit
  <2>6. ShownIsChosen'
    BY <2>3, <2>5 DEF ShownIsChosen
  <2>7. FeeIsChosen' /\ (page = "currencies" => ~isLoading)'
    BY <2>2 DEF FeeIsChosen
  <2> QED BY <1>1, <1>2, <1>3, <2>2, <2>3, <2>4, <2>6, <2>7, TabStep
<1>5. CASE LogoutAnswered(i)
  <2>1. r.kind = "logout" /\ r.ok
    BY <1>1, <1>5 DEF LogoutAnswered, Arrived, UnhurtFits, SessionFits
  <2>2. page' = "login" /\ GoesOn(i, Free)
    BY <1>1, <1>5, <2>1 DEF LogoutAnswered, Ends, GoesOn
  <2>3. ShownIsChosen' /\ FeeIsChosen' /\ (page = "currencies" => ~isLoading)'
    BY <2>2 DEF ShownIsChosen, FeeIsChosen, MerchantPages
  <2> QED BY <1>1, <1>2, <1>3, <2>2, <2>3, TabStep
<1> QED BY <1>4, <1>5

(* A merchant was created, or deleted.                                      *)
LEMMA ManageUnhurt ==
  ASSUME ShellInv, UnhurtFacts, NEW i \in Slots, CreateAnswered(i) \/ DeleteAnswered(i)
  PROVE  UnhurtInv'
<1>1. PICK r : /\ r = request[i] /\ r # Free /\ r.at = "page" /\ r.kind \in {"create", "delete"} /\ AskFits(r)
               /\ UnhurtFits(r) /\ r.id \in Ids
  BY AskKnown DEF CreateAnswered, DeleteAnswered, Arrived, UnhurtFacts
<1>2. /\ UNCHANGED <<page, user, merchants, merchant, globalFee, loadedFor, isLoading>>
      /\ UNCHANGED <<server, faults, hasty>>
  BY DEF CreateAnswered, DeleteAnswered, Handled, Unhurried, browser, fees
<1>3. page = "manage" /\ SignedIn /\ r.ok
  BY <1>1 DEF UnhurtFits, ManageFits
<1>4. DisplayApart' /\ ShownIsChosen' /\ FeeIsChosen' /\ (page = "currencies" => ~isLoading)' /\ SignedIn'
  BY <1>2, <1>3 DEF UnhurtFacts, DisplayApart, ShownIsChosen, FeeIsChosen, MerchantPages, SignedIn, server
<1>5. CASE CreateAnswered(i)
  <2>1. PICK q : q = getMerchants("reset", None, None)
    OBVIOUS
  <2>2. merchantId' = r.id /\ GoesOn(i, q) /\ r.kind = "create"
    BY <1>1, <1>3, <1>5, <2>1 DEF CreateAnswered, Arrived
  <2>3. r.id \in Merchants /\ Owner[r.id] = session /\ r.id \in exists
    BY <1>1, <2>2 DEF UnhurtFits, ManageFits, AskFits, IdFits
  <2>4. ChosenOwn'
    BY <1>2, <2>2, <2>3 DEF ChosenOwn, Own, ShellInv, ServerTyped, server
  <2>5. q # Free /\ q.kind = "list" /\ q.at = "server" /\ q.then = "reset"
    BY <2>1, AskedList, NoneIsId
  <2>6. UnhurtFits(q)'
    BY <1>2, <1>3, <1>4, <2>4, <2>5
       DEF UnhurtFits, MeFits, ListFits, ReadFits, SaveFits, SessionFits, ManageFits, ListIsOwn
  <2> QED BY <1>1, <1>2, <1>4, <2>2, <2>5, <2>6, TabStep
<1>6. CASE DeleteAnswered(i)
  <2>1. PICK q : q = getMerchants("deleted", r.id, None)
    OBVIOUS
  <2>2. UNCHANGED merchantId /\ GoesOn(i, q) /\ r.kind = "delete"
    BY <1>1, <1>3, <1>6, <2>1 DEF DeleteAnswered, Arrived, browser
  <2>3. merchants # None /\ merchants \ {r.id} = Own(session)
    BY <1>1, <2>2 DEF UnhurtFits, ManageFits
  <2>4. merchants' # None /\ merchants' \ {r.id} = Own(session)'
    BY <1>2, <2>3 DEF Own, server
  <2>5. q # Free /\ q.kind = "list" /\ q.at = "server" /\ q.then = "deleted" /\ q.id = r.id
    BY <1>1, <2>1, AskedList, NoneIsId
  <2>6. UnhurtFits(q)'
    BY <1>2, <1>3, <1>4, <2>4, <2>5
       DEF UnhurtFits, MeFits, ListFits, ReadFits, SaveFits, SessionFits, ManageFits, ListIsOwn
  <2> QED BY <1>1, <1>2, <1>4, <2>2, <2>5, <2>6, TabStep
<1> QED BY <1>5, <1>6

(* The list arrives again.                                                  *)
LEMMA ReloadUnhurt ==
  ASSUME ShellInv, UnhurtFacts, NEW i \in Slots, ListReloaded(i)
  PROVE  UnhurtInv'
<1>1. PICK r : /\ r = request[i] /\ r # Free /\ r.at = "page" /\ r.kind = "list" /\ AskFits(r)
               /\ UnhurtFits(r) /\ r.then \in {"reset", "deleted"}
  BY AskKnown DEF ListReloaded, Arrived, UnhurtFacts
<1>2. page = "manage" /\ SignedIn /\ r.ok /\ r.result = Own(session)
  BY <1>1 DEF UnhurtFits, ListFits, ListIsOwn
<1>3. PICK next : next = FirstOf((IF merchants = None THEN {} ELSE merchants) \ {r.id})
  OBVIOUS
<1>4. /\ merchants' = Own(session) /\ page' = RouteFor(r.result) /\ GoesOn(i, Free)
      /\ merchantId' = IF r.then = "deleted" THEN next ELSE merchantId
      /\ UNCHANGED <<user, merchant, globalFee, loadedFor, isLoading>> /\ UNCHANGED <<server, faults, hasty>>
  BY <1>1, <1>2, <1>3 DEF ListReloaded, Handled, Unhurried, Ends, GoesOn, fees
<1>5. page' = "manage"
  BY <1>2, <1>4 DEF RouteFor
<1>6. merchantId' \in Own(session) \cup {None}
  <2>1. CASE r.then = "deleted"
    <3>1. merchants # None /\ merchants \ {r.id} = Own(session)
      BY <1>1, <2>1 DEF UnhurtFits, ListFits
    <3>2. next = FirstOf(Own(session)) /\ Own(session) \in SUBSET Merchants
      BY <1>3, <3>1, OwnIsTheirs
    <3> QED BY <1>4, <2>1, <3>2, FirstOfTyped
  <2>2. CASE r.then = "reset"
    BY <1>1, <1>4, <2>2 DEF UnhurtFits, ListFits, ChosenOwn
  <2> QED BY <1>1, <2>1, <2>2
<1>7. TabKnown'
  BY <1>2, <1>4, <1>6 DEF TabKnown, SignedIn, ChosenOwn, Own, server
<1>8. ShownIsChosen' /\ FeeIsChosen' /\ (page = "currencies" => ~isLoading)' /\ DisplayApart'
  BY <1>4, <1>5 DEF ShownIsChosen, FeeIsChosen, MerchantPages, UnhurtFacts, DisplayApart
<1> QED BY <1>1, <1>4, <1>7, <1>8, TabStep

(* The settings were saved.                                                 *)
LEMMA SaveUnhurt ==
  ASSUME ShellInv, UnhurtFacts, NEW i \in Slots, SaveAnswered(i)
  PROVE  UnhurtInv'
<1>1. PICK r : /\ r = request[i] /\ r # Free /\ r.at = "page" /\ r.kind = "save" /\ AskFits(r)
               /\ UnhurtFits(r)
  BY AskKnown DEF SaveAnswered, Arrived, UnhurtFacts
<1>2. /\ TabKnown /\ page \in MerchantPages /\ r.id = merchantId /\ r.id \in Merchants
      /\ page = "currencies" => loadedFor = merchantId
  BY <1>1 DEF UnhurtFits, SaveFits, AskFits, IdFits
<1>3. /\ GoesOn(i, getMerchant(r.id, "show")) \/ GoesOn(i, Free)
      /\ UNCHANGED <<page, user, merchants, merchantId, merchant, globalFee, loadedFor, isLoading>>
      /\ UNCHANGED <<server, faults, hasty>>
  BY <1>1 DEF SaveAnswered, Handled, Unhurried, Ends, GoesOn, browser, fees
<1>4. UNCHANGED <<session, exists>>
  BY <1>3 DEF server
<1>5. TabKnown'
  BY <1>2, <1>3, <1>4, TabKnownSame
<1>6. \A j \in Slots \ {i} : request[j] = Free
  BY <1>1, OnlyOneActs
<1>7. \A j \in Slots : request[j].kind \notin {"show", "me", "list", "fee"}
  BY <1>1, <1>6, FreeIsNoAsk
<1>8. (page = "currencies" => ~isLoading)' /\ DisplayApart' /\ FeeIsChosen'
  BY <1>3, <1>7 DEF UnhurtFacts, DisplayApart, FeeIsChosen
<1>9. CASE GoesOn(i, Free)
  <2>1. ShownIsChosen'
    BY <1>3, <1>7 DEF UnhurtFacts, ShownIsChosen
  <2> QED BY <1>1, <1>3, <1>4, <1>5, <1>8, <1>9, <2>1, TabStep
<1>10. CASE GoesOn(i, getMerchant(r.id, "show"))
  <2>1. PICK q : q = getMerchant(r.id, "show")
    OBVIOUS
  <2>2. q # Free /\ q.kind = "show" /\ q.at = "server" /\ q.then = "show" /\ q.id = r.id
    BY <1>2, <2>1, AskedShow
  <2>3. UnhurtFits(q)'
    BY <1>2, <1>3, <1>5, <2>2
       DEF UnhurtFits, MeFits, ListFits, ReadFits, SaveFits, SessionFits, ManageFits
  <2>4. GoesOn(i, q) /\ request'[i] = q
    BY <1>10, <2>1 DEF GoesOn, ShellInv, AsksFit
  <2>5. ShownIsChosen'
    BY <2>2, <2>4 DEF ShownIsChosen
  <2> QED BY <1>1, <1>3, <1>4, <1>8, <2>2, <2>3, <2>4, <2>5, TabStep
<1> QED BY <1>3, <1>9, <1>10

(* The effect of the currencies page.                                       *)
LEMMA LoadAllUnhurt ==
  ASSUME ShellInv, UnhurtFacts, loadAll
  PROVE  UnhurtInv'
<1>1. /\ page = "currencies" /\ ~isLoading /\ merchantId # loadedFor /\ loadedFor' = merchantId
      /\ merchantId = None => UNCHANGED request
      /\ merchantId # None => Send(getMerchant(merchantId, "fee"))
      /\ UNCHANGED <<page, user, merchants, merchantId, merchant, globalFee, isLoading>>
      /\ UNCHANGED <<server, faults, hasty>>
  BY DEF loadAll, EffectIsDue, Handled, Unhurried
<1>2. UNCHANGED <<session, exists>> /\ SettingsApart' /\ DisplayApart' /\ (page = "currencies" => ~isLoading)'
  BY <1>1 DEF UnhurtFacts, server, SettingsApart, DisplayApart
<1>3. ASSUME TabKnown PROVE TabKnown'
  BY <1>1, <1>2, <1>3, TabKnownSame
<1>4. ASSUME NEW j \in Slots, NEW r, r = request[j], r # Free
      PROVE  /\ r.kind \in {"show", "logout"} /\ UnhurtFits(r)' /\ (r.kind = "logout" => merchantId = None)
             /\ (r.kind = "show" => TabKnown /\ r.id = merchantId)
  <2>1. UnhurtFits(r) /\ r.kind \in ShellKinds /\ AskFits(r) /\ r.then \in Thens
    BY <1>4, AskKnown DEF UnhurtFacts
  <2>2. r.kind \in {"show", "logout"}
    BY <1>1, <2>1 DEF ShellKinds, UnhurtFits, MeFits, ListFits, ReadFits, SaveFits, SessionFits, ManageFits,
                      OpeningPages, AskFits, ThenFits
  <2>3. /\ r.kind = "logout" => merchantId = None
        /\ r.kind = "show" => TabKnown /\ r.id = merchantId /\ r.then # "fee"
    BY <1>1, <2>1 DEF UnhurtFits, SessionFits, ReadFits
  <2>4. UnhurtFits(r)'
    BY <1>1, <1>3, <2>1, <2>2, <2>3
       DEF UnhurtFits, MeFits, ListFits, ReadFits, SaveFits, SessionFits, ManageFits
  <2> QED BY <2>2, <2>3, <2>4
<1>5. CASE merchantId = None
  <2>1. request' = request
    BY <1>1, <1>5
  <2>2. OnlyReads'
    BY <2>1 DEF UnhurtFacts, OnlyReads
  <2>3. (\A j \in Slots : request[j] # Free => UnhurtFits(request[j]))'
    <3> SUFFICES ASSUME NEW j \in Slots, request'[j] # Free PROVE UnhurtFits(request[j])'
      OBVIOUS
    <3>1. PICK r : r = request[j] /\ r = request'[j]
      BY <2>1
    <3>2. UnhurtFits(r)'
      BY <1>4, <3>1
    <3> QED BY <3>1, <3>2
  <2>4. (Quiet /\ page # "login" => TabKnown)'
    BY <1>1, <1>3, <2>1, QuietIsFree DEF UnhurtFacts
  <2>5. ShownIsChosen' /\ FeeIsChosen'
    BY <1>1, <1>5 DEF ShownIsChosen, FeeIsChosen
  <2> QED BY <1>2, <2>2, <2>3, <2>4, <2>5, UnhurtFrom
<1>6. CASE merchantId # None
  <2>1. PICK q : q = getMerchant(merchantId, "fee")
    OBVIOUS
  <2>2. q # Free /\ q.kind = "show" /\ q.at = "server" /\ q.then = "fee" /\ q.id = merchantId
    BY <1>6, <2>1, AskedShow DEF ShellInv, ShellTyped, Chosen
  <2>3. PICK i \in Slots : request[i] = Free /\ request' = [request EXCEPT ![i] = q]
    BY <1>1, <1>6, <2>1, SlotSent DEF ShellInv, AsksFit
  <2>4. request'[i] = q /\ \A j \in Slots \ {i} : request'[j] = request[j]
    BY <2>3, SlotChanges DEF ShellInv, AsksFit
  <2>5. TabKnown
    <3>1. CASE Quiet
      BY <1>1, <3>1 DEF UnhurtFacts
    <3>2. CASE ~Quiet
      BY <1>4, <1>6, <3>2, QuietIsFree
    <3> QED BY <3>1, <3>2
  <2>6. UnhurtFits(q)'
    BY <1>1, <1>3, <2>2, <2>5
       DEF UnhurtFits, MeFits, ListFits, ReadFits, SaveFits, SessionFits, ManageFits
  <2>7. OnlyReads'
    <3>1. ASSUME NEW j \in Slots, request'[j] # Free PROVE request'[j].kind = "show"
      <4>1. CASE j = i
        BY <2>2, <2>4, <4>1
      <4>2. CASE j # i
        BY <1>4, <1>6, <2>4, <3>1, <4>2
      <4> QED BY <4>1, <4>2
    <3> QED BY <3>1 DEF OnlyReads
  <2>8. (\A j \in Slots : request[j] # Free => UnhurtFits(request[j]))'
    <3> SUFFICES ASSUME NEW j \in Slots, request'[j] # Free PROVE UnhurtFits(request[j])'
      OBVIOUS
    <3>1. PICK r : r = request'[j]
      OBVIOUS
    <3>2. UnhurtFits(r)'
      <4>1. CASE j = i
        BY <2>4, <2>6, <3>1, <4>1
      <4>2. CASE j # i
        BY <1>4, <2>4, <3>1, <4>2
      <4> QED BY <4>1, <4>2
    <3> QED BY <3>1, <3>2
  <2>9. ~Quiet'
    BY <2>2, <2>4, QuietIsFree
  <2>10. ShownIsChosen' /\ FeeIsChosen'
    BY <2>2, <2>4 DEF ShownIsChosen, FeeIsChosen
  <2> QED BY <1>2, <2>7, <2>8, <2>9, <2>10, UnhurtFrom
<1> QED BY <1>5, <1>6

(* The user acts when everything has been answered: what is sent is alone.  *)
LEMMA ActAlone ==
  ASSUME ShellInv, UnhurtFacts, NEW q, q # Free, NEW i \in Slots,
         request'[i] = q, \A j \in Slots \ {i} : request'[j] = Free, UnhurtFits(q)', UNCHANGED <<settings, merchant>>,
         (page = "currencies" => ~isLoading)', FeeIsChosen', ShownIsChosen'
  PROVE  UnhurtInv'
<1>1. OnlyReads' /\ ~Quiet'
  BY QuietIsFree DEF OnlyReads
<1>2. (\A j \in Slots : request[j] # Free => UnhurtFits(request[j]))'
  OBVIOUS
<1>3. SettingsApart' /\ DisplayApart'
  BY DEF UnhurtFacts, SettingsApart, DisplayApart
<1> QED BY <1>1, <1>2, <1>3, UnhurtFrom

(* The first request is sent.                                               *)
LEMMA SendAlone ==
  ASSUME ShellInv, UnhurtFacts, Quiet, NEW q, q # Free, Send(q),
         UnhurtFits(q)', UNCHANGED <<settings, merchant>>,
         (page = "currencies" => ~isLoading)', FeeIsChosen',
         ShownIsChosen \/ q.kind = "show" \/ merchantId' = None \/ page' \notin MerchantPages,
         merchantId' # None /\ q.kind # "show" => UNCHANGED <<page, merchantId, loadedFor>>
  PROVE  UnhurtInv'
<1>1. PICK i \in Slots : request' = [request EXCEPT ![i] = q]
  BY SlotSent DEF ShellInv, AsksFit
<1>2. \A j \in Slots : request[j] = Free
  BY QuietIsFree
<1>3. request'[i] = q /\ \A j \in Slots \ {i} : request'[j] = Free
  BY <1>1, <1>2, SlotChanges DEF ShellInv, AsksFit
<1>4. ShownIsChosen'
  <2>1. CASE q.kind = "show"
    BY <1>3, <2>1 DEF ShownIsChosen
  <2>2. CASE merchantId' = None \/ page' \notin MerchantPages
    BY <2>2 DEF ShownIsChosen
  <2>3. CASE q.kind # "show" /\ merchantId' # None /\ ShownIsChosen
    BY <1>2, <2>3, FreeIsNoAsk DEF ShownIsChosen
  <2> QED BY <2>1, <2>2, <2>3
<1> QED BY <1>3, <1>4, ActAlone

(* The user signs in.                                                       *)
LEMMA SignInUnhurt ==
  ASSUME ShellInv, UnhurtFacts, Quiet, NEW u \in Users, SignIn(u)
  PROVE  UnhurtInv'
<1>1. PICK q : q = Asking("login", u, "reload", None)
  OBVIOUS
<1>2. q # Free /\ q.kind = "login" /\ q.at = "server"
  BY <1>1, ActTyped, NoneIsId DEF Thens
<1>3. /\ page = "login" /\ Send(q) /\ UNCHANGED <<settings, page, merchantId, merchant, loadedFor>>
  BY <1>1 DEF SignIn, server, browser, fees
<1>4. UnhurtFits(q)'
  BY <1>2, <1>3 DEF UnhurtFits, MeFits, ListFits, ReadFits, SaveFits, SessionFits, ManageFits
<1>5. FeeIsChosen' /\ (page = "currencies" => ~isLoading)' /\ page' \notin MerchantPages
  BY <1>3 DEF FeeIsChosen, MerchantPages
<1> QED BY <1>2, <1>3, <1>4, <1>5, SendAlone

(* The user signs out.                                                      *)
LEMMA LogoutUnhurt ==
  ASSUME ShellInv, UnhurtFacts, Quiet, logout
  PROVE  UnhurtInv'
<1>1. PICK q : q = Asking("logout", None, "login", None)
  OBVIOUS
<1>2. q # Free /\ q.kind = "logout" /\ q.at = "server"
  BY <1>1, ActTyped, NoneIsId DEF Thens
<1>3. /\ merchantId' = None /\ Send(q) /\ UNCHANGED <<settings, page, merchant, isLoading>>
  BY <1>1 DEF logout, server
<1>4. UnhurtFits(q)'
  BY <1>2, <1>3 DEF UnhurtFits, MeFits, ListFits, ReadFits, SaveFits, SessionFits, ManageFits
<1>5. FeeIsChosen' /\ (page = "currencies" => ~isLoading)'
  BY <1>3 DEF FeeIsChosen, UnhurtFacts
<1> QED BY <1>2, <1>3, <1>4, <1>5, SendAlone

(* The user chooses a merchant.                                             *)
LEMMA SelectUnhurt ==
  ASSUME ShellInv, UnhurtFacts, Quiet, ~EffectIsDue, NEW m \in Merchants, SelectMerchant(m)
  PROVE  UnhurtInv'
<1>1. PICK q : q = getMerchant(m, "show")
  OBVIOUS
<1>2. q # Free /\ q.kind = "show" /\ q.at = "server" /\ q.then = "show" /\ q.id = m
  BY <1>1, AskedShow
<1>3. /\ page \in MerchantPages /\ m \in merchants /\ merchantId' = m /\ Send(q)
      /\ UNCHANGED <<session, exists, settings, page, user, merchants, merchant, globalFee, loadedFor, isLoading>>
  BY <1>1 DEF SelectMerchant, server, fees
<1>4. TabKnown
  BY <1>3 DEF UnhurtFacts, MerchantPages
<1>5. TabKnown'
  BY <1>3, <1>4 DEF TabKnown, SignedIn, ChosenOwn, Own
<1>6. UnhurtFits(q)'
  BY <1>2, <1>3, <1>5 DEF UnhurtFits, MeFits, ListFits, ReadFits, SaveFits, SessionFits, ManageFits
<1>7. (page = "currencies" => ~isLoading)'
  BY <1>3 DEF UnhurtFacts
<1>8. FeeIsChosen'
  <2> SUFFICES ASSUME page = "currencies", loadedFor = m PROVE globalFee = m
    BY <1>3 DEF FeeIsChosen
  <2>1. merchantId = m
    BY DEF EffectIsDue, UnhurtFacts
  <2>2. \A j \in Slots : request[j].kind \notin {"fee", "show"}
    BY QuietIsFree, FreeIsNoAsk
  <2> QED BY <2>1, <2>2, NoneIsId DEF UnhurtFacts, FeeIsChosen
<1> QED BY <1>2, <1>3, <1>6, <1>7, <1>8, SendAlone

(* The user creates, edits or deletes a merchant.                           *)
LEMMA ManageActUnhurt ==
  ASSUME ShellInv, UnhurtFacts, Quiet, NEW m \in Merchants,
         uploadCreatedMerchant(m) \/ uploadEditedMerchant(m) \/ onConfirmDeleteMerchant(m)
  PROVE  UnhurtInv'
<1>1. /\ page = "manage" /\ merchants # None
      /\ UNCHANGED <<session, exists, settings, page, user, merchants, merchantId, merchant, globalFee, loadedFor,
                     isLoading>>
  BY DEF uploadCreatedMerchant, uploadEditedMerchant, onConfirmDeleteMerchant, OnManage, server, browser, fees
<1>2. TabKnown
  BY <1>1 DEF UnhurtFacts
<1>3. TabKnown'
  BY <1>1, <1>2, TabKnownSame
<1>4. FeeIsChosen' /\ (page = "currencies" => ~isLoading)' /\ page' \notin MerchantPages
  BY <1>1 DEF FeeIsChosen, MerchantPages
<1>5. ASSUME NEW q, q # Free, UnhurtFits(q)', Send(q) PROVE UnhurtInv'
  BY <1>1, <1>4, <1>5, SendAlone
<1>6. CASE uploadCreatedMerchant(m)
  <2>1. PICK q : q = Asking("create", m, "choose", None)
    OBVIOUS
  <2>2. q # Free /\ q.kind = "create" /\ q.at = "server" /\ q.id = m
    BY <2>1, ActTyped, NoneIsId DEF Thens
  <2>3. Send(q) /\ Owner[m] = user
    BY <1>6, <2>1 DEF uploadCreatedMerchant
  <2>4. UnhurtFits(q)'
    BY <1>1, <1>2, <1>3, <2>2, <2>3
       DEF UnhurtFits, MeFits, ListFits, ReadFits, SaveFits, SessionFits, ManageFits, TabKnown, SignedIn
  <2> QED BY <1>5, <2>2, <2>3, <2>4
<1>7. CASE uploadEditedMerchant(m)
  <2>1. PICK q : q = getMerchants("reset", None, None)
    OBVIOUS
  <2>2. q # Free /\ q.kind = "list" /\ q.at = "server" /\ q.then = "reset"
    BY <2>1, AskedList, NoneIsId
  <2>3. Send(q)
    BY <1>7, <2>1 DEF uploadEditedMerchant
  <2>4. UnhurtFits(q)'
    BY <1>1, <1>3, <2>2
       DEF UnhurtFits, MeFits, ListFits, ListIsOwn, ReadFits, SaveFits, SessionFits, ManageFits, TabKnown
  <2> QED BY <1>5, <2>2, <2>3, <2>4
<1>8. CASE onConfirmDeleteMerchant(m)
  <2>1. PICK q : q = Asking("delete", m, "list", None)
    OBVIOUS
  <2>2. q # Free /\ q.kind = "delete" /\ q.at = "server" /\ q.id = m
    BY <2>1, ActTyped, NoneIsId DEF Thens
  <2>3. Send(q) /\ m \in merchants
    BY <1>8, <2>1 DEF onConfirmDeleteMerchant
  <2>4. UnhurtFits(q)'
    BY <1>1, <1>2, <1>3, <2>2, <2>3
       DEF UnhurtFits, MeFits, ListFits, ReadFits, SaveFits, SessionFits, ManageFits, TabKnown, SignedIn
  <2> QED BY <1>5, <2>2, <2>3, <2>4
<1> QED BY <1>6, <1>7, <1>8

(* The user opens a page.                                                   *)
LEMMA OpeningUnhurt ==
  ASSUME ShellInv, UnhurtFacts, Quiet, OpenSettings \/ OpenManage \/ OpenCurrencies
  PROVE  UnhurtInv'
<1>1. PICK left : left = LeftBehind
  OBVIOUS
<1>2. DOMAIN left = Slots /\ \A j \in Slots : left[j] = Free
  BY <1>1, LeftBehindFits, QuietIsFree
<1>3. page # "login" /\ TabKnown
  BY DEF OpenSettings, OpenManage, OpenCurrencies, MerchantPages, UnhurtFacts
<1>4. ASSUME NEW p \in {"settings", "manage", "currencies"}, NEW sent, GoTo(p, sent),
             p = "currencies" => ~isLoading
      PROVE  /\ page' = p /\ request' = sent /\ globalFee' = None /\ loadedFor' = None
             /\ UNCHANGED <<session, exists, settings, user, merchants, merchantId, merchant, isLoading>>
             /\ TabKnown' /\ SettingsApart' /\ DisplayApart' /\ (page = "currencies" => ~isLoading)' /\ FeeIsChosen'
             /\ p \in {"manage", "currencies"} => ShownIsChosen'
  <2>1. /\ page' = p /\ request' = sent /\ globalFee' = None /\ loadedFor' = None
        /\ UNCHANGED <<session, exists, settings, user, merchants, merchantId, merchant, isLoading>>
    BY <1>4 DEF GoTo, server
  <2>2. TabKnown'
    BY <1>3, <2>1, TabKnownSame
  <2>3. SettingsApart' /\ DisplayApart' /\ (page = "currencies" => ~isLoading)'
    BY <1>4, <2>1 DEF UnhurtFacts, SettingsApart, DisplayApart
  <2>4. FeeIsChosen' /\ (p \in {"manage", "currencies"} => ShownIsChosen')
    BY <2>1 DEF FeeIsChosen, ShownIsChosen, MerchantPages
  <2> QED BY <2>1, <2>2, <2>3, <2>4
<1>5. ASSUME NEW sent, \A j \in Slots : sent[j] = Free, request' = sent
      PROVE  OnlyReads' /\ (\A j \in Slots : request[j] # Free => UnhurtFits(request[j]))'
  BY <1>5 DEF OnlyReads
<1>6. CASE OpenManage
  <2>1. GoTo("manage", left)
    BY <1>1, <1>6 DEF OpenManage
  <2> QED BY <1>2, <1>4, <1>5, <2>1, UnhurtFrom
<1>7. CASE OpenCurrencies
  <2>1. GoTo("currencies", request) /\ ~isLoading
    BY <1>7 DEF OpenCurrencies, HasMerchants
  <2>2. \A j \in Slots : request[j] = Free
    BY QuietIsFree
  <2> QED BY <1>4, <1>5, <2>1, <2>2, UnhurtFrom
<1>8. CASE OpenSettings
  <2>1. CASE merchantId = None
    <3>1. GoTo("settings", left)
      BY <1>1, <1>8, <2>1 DEF OpenSettings
    <3>2. ShownIsChosen'
      BY <1>4, <2>1, <3>1 DEF ShownIsChosen
    <3> QED BY <1>2, <1>4, <1>5, <3>1, <3>2, UnhurtFrom
  <2>2. CASE merchantId # None
    <3>1. PICK q : q = getMerchant(merchantId, "show")
      OBVIOUS
    <3>2. PICK i \in FreeSlots : GoTo("settings", [left EXCEPT ![i] = q])
      BY <1>1, <1>8, <2>2, <3>1 DEF OpenSettings
    <3>3. q # Free /\ q.kind = "show" /\ q.at = "server" /\ q.then = "show" /\ q.id = merchantId
      BY <2>2, <3>1, AskedShow DEF ShellInv, ShellTyped, Chosen
    <3>4. PICK sent : sent = [left EXCEPT ![i] = q]
      OBVIOUS
    <3>5. /\ page' = "settings" /\ request' = sent /\ TabKnown'
          /\ UNCHANGED <<settings, merchantId, merchant, isLoading>>
          /\ (page = "currencies" => ~isLoading)' /\ FeeIsChosen'
      BY <1>4, <3>2, <3>4
    <3>6. i \in Slots /\ request'[i] = q /\ \A j \in Slots \ {i} : request'[j] = Free
      BY <1>2, <3>2, <3>4, <3>5 DEF FreeSlots
    <3>7. UnhurtFits(q)'
      BY <3>3, <3>5
         DEF UnhurtFits, MeFits, ListFits, ReadFits, SaveFits, SessionFits, ManageFits, MerchantPages
    <3>8. ShownIsChosen'
      BY <3>3, <3>6 DEF ShownIsChosen
    <3> QED BY <3>3, <3>5, <3>6, <3>7, <3>8, ActAlone
  <2> QED BY <2>1, <2>2
<1> QED BY <1>6, <1>7, <1>8

(* The user saves a form, which holds the chosen merchant's settings.       *)
LEMMA SaveActUnhurt ==
  ASSUME ShellInv, UnhurtFacts, Quiet, ~EffectIsDue,
         PaymentMethodsChange \/ toggleCurrency \/ updateWebhookSettings \/ saveFeeSettings
  PROVE  UnhurtInv'
<1>1. PICK then \in {"methods", "currency", "webhook", "fee"}, value \in {merchant.settings, globalFee} :
        /\ SaveSettings(then, value) /\ page \in MerchantPages
        /\ then = "fee" => value = globalFee /\ page = "currencies"
        /\ then # "fee" => value = merchant.settings
  BY DEF PaymentMethodsChange, toggleCurrency, updateWebhookSettings, saveFeeSettings, MerchantPages
<1>2. PICK q : q = Asking("save", merchantId, then, value)
  OBVIOUS
<1>3. /\ then = "fee" => value \in Chosen
      /\ then # "fee" => (merchant # None => value \in Merchants)
  BY <1>1 DEF ShellInv, ShellTyped, Displays
<1>4. /\ q # Free /\ q.kind = "save" /\ q.at = "server" /\ q.id = merchantId /\ q.stored = value
      /\ Send(q)
  BY <1>1, <1>2, <1>3, SaveSent
<1>5. /\ ~isLoading /\ merchantId # None /\ merchant # None
      /\ UNCHANGED <<session, exists, settings, page, user, merchants, merchantId, merchant, globalFee, loadedFor,
                     isLoading>>
  BY <1>1 DEF SaveSettings, server, browser, fees
<1>6. TabKnown /\ (page = "currencies" => loadedFor = merchantId)
  BY <1>1, <1>5 DEF UnhurtFacts, MerchantPages, EffectIsDue
<1>7. \A j \in Slots : request[j].kind \notin {"show", "me", "list", "fee"}
  BY QuietIsFree, FreeIsNoAsk
<1>8. merchant.id = merchantId /\ merchant.settings = merchant.id /\ (page = "currencies" => globalFee = merchantId)
  BY <1>1, <1>5, <1>6, <1>7 DEF UnhurtFacts, ShownIsChosen, DisplayApart, FeeIsChosen
<1>9. value = merchantId
  BY <1>1, <1>8
<1>10. TabKnown'
  BY <1>5, <1>6, TabKnownSame
<1>11. UnhurtFits(q)'
  BY <1>1, <1>4, <1>5, <1>6, <1>9, <1>10
     DEF UnhurtFits, MeFits, ListFits, ReadFits, SaveFits, SessionFits, ManageFits
<1>12. FeeIsChosen' /\ (page = "currencies" => ~isLoading)'
  BY <1>5, <1>8 DEF FeeIsChosen
<1>13. ShownIsChosen
  BY DEF UnhurtFacts
<1> QED BY <1>4, <1>5, <1>11, <1>12, <1>13, SendAlone

(* The tab as it is opened.                                                 *)
LEMMA UnhurtStarts ==
  ASSUME DashboardInit
  PROVE  UnhurtInv
<1>1. ShellInv
  BY ShellStarts
<1>2. PICK q : q = loadUserInfo(merchantId)
  OBVIOUS
<1>3. q # Free /\ q.kind = "me" /\ q.at = "server"
  BY <1>2, AskedMe DEF DashboardInit, Chosen
<1>4. 1 \in Slots
  BY DashboardAssumption DEF Slots
<1>5. request[1] = q /\ \A j \in Slots \ {1} : request[j] = Free
  BY <1>2, <1>4 DEF DashboardInit
<1>6. OnlyReads /\ ~Quiet
  BY <1>3, <1>4, <1>5, QuietIsFree DEF OnlyReads
<1>7. UnhurtFits(q)
  BY <1>3 DEF DashboardInit, UnhurtFits, MeFits, ListFits, ReadFits, SaveFits, SessionFits, ManageFits,
              OpeningPages
<1>8. SettingsApart /\ DisplayApart /\ ShownIsChosen /\ FeeIsChosen /\ (page = "currencies" => ~isLoading)
  BY DEF DashboardInit, SettingsApart, DisplayApart, ShownIsChosen, FeeIsChosen
<1> QED BY <1>5, <1>6, <1>7, <1>8 DEF UnhurtInv, UnhurtFacts

(* Every step keeps the invariant of a user who waits.                      *)
LEMMA UnhurtKeeps ==
  ASSUME ShellInv, UnhurtInv, [DashboardNext]_dashboardVars
  PROVE  UnhurtInv'
<1>1. CASE ~Unhurt'
  BY <1>1 DEF UnhurtInv
<1>2. CASE DashboardNext /\ Unhurt'
  <2>1. Unhurt /\ UnhurtFacts /\ (UserActs => Quiet /\ ~EffectIsDue)
    BY <1>2, UnhurtBefore
  <2>2. ASSUME UserDoes PROVE UnhurtInv'
    <3>1. UserActs
      BY <2>2 DEF UserDoes, SignIn, SelectMerchant, uploadCreatedMerchant, uploadEditedMerchant,
         onConfirmDeleteMerchant, logout, OpenSettings, OpenManage, OpenCurrencies, PaymentMethodsChange,
         toggleCurrency, updateWebhookSettings, saveFeeSettings, SaveSettings, GoTo
    <3> QED BY <2>1, <2>2, <3>1, SignInUnhurt, LogoutUnhurt, SelectUnhurt, ManageActUnhurt, OpeningUnhurt,
               SaveActUnhurt DEF UserDoes
  <2>3. ASSUME NEW i \in Slots, Answered(i) PROVE UnhurtInv'
    BY <2>1, <2>3, MeUnhurt, ListUnhurt, ShowUnhurt, FeeUnhurt, SessionUnhurt, ManageUnhurt, ReloadUnhurt,
       SaveUnhurt DEF Answered
  <2>4. ASSUME NEW i \in Slots, Serve(i) PROVE UnhurtInv'
    BY <2>1, <2>4, ServeUnhurt
  <2>5. ASSUME (\E i \in Slots : Lose(i)) \/ SessionExpires PROVE FALSE
    <3>1. faults' = faults + 1
      BY <2>5 DEF Lose, SessionExpires
    <3>2. faults = 0 /\ faults' = 0
      BY <1>2, <2>1 DEF Unhurt
    <3> QED BY <3>1, <3>2
  <2> QED BY <1>2, <2>1, <2>2, <2>3, <2>4, <2>5, LoadAllUnhurt DEF DashboardNext
<1>3. CASE UNCHANGED dashboardVars
  <2>1. UNCHANGED <<session, exists, settings, page, user, merchants, merchantId, merchant, globalFee, loadedFor,
                    isLoading, request, faults, hasty>>
    BY <1>3 DEF dashboardVars, server, browser, fees
  <2>2. CASE ~Unhurt
    BY <2>1, <2>2 DEF UnhurtInv, Unhurt
  <2>3. CASE Unhurt
    <3>1. UnhurtFacts
      BY <2>3 DEF UnhurtInv
    <3>2. SettingsApart' /\ DisplayApart' /\ (page = "currencies" => ~isLoading)'
      BY <2>1, <3>1 DEF UnhurtFacts, SettingsApart, DisplayApart
    <3>3. OnlyReads' /\ ShownIsChosen' /\ FeeIsChosen'
      BY <2>1, <3>1 DEF UnhurtFacts, OnlyReads, ShownIsChosen, FeeIsChosen
    <3>4. (\A j \in Slots : request[j] # Free => UnhurtFits(request[j]))'
      <4> SUFFICES ASSUME NEW j \in Slots, request'[j] # Free PROVE UnhurtFits(request[j])'
        OBVIOUS
      <4>1. PICK r : r = request[j] /\ r = request'[j]
        BY <2>1
      <4>2. UnhurtFits(r)
        BY <3>1, <4>1 DEF UnhurtFacts
      <4>3. UnhurtFits(r)'
        BY <2>1, <4>2, FitsSame
      <4> QED BY <4>1, <4>3
    <3>5. (Quiet /\ page # "login" => TabKnown)'
      BY <2>1, <3>1, TabKnownSame, QuietIsFree DEF UnhurtFacts
    <3> QED BY <3>2, <3>3, <3>4, <3>5, UnhurtFrom
  <2> QED BY <2>2, <2>3
<1> QED BY <1>1, <1>2, <1>3

DashboardInv == ShellInv /\ UnhurtInv

(* What every step of the shell keeps: the types, and, for a user who waits  *)
(* and loses nothing, which merchant every answer on its way is about.      *)
THEOREM DashboardInvHolds == DashboardSpec => []DashboardInv
<1>1. DashboardInit => DashboardInv
  BY ShellStarts, UnhurtStarts DEF DashboardInv
<1>2. DashboardInv /\ [DashboardNext]_dashboardVars => DashboardInv'
  BY ShellKeeps, UnhurtKeeps DEF DashboardInv
<1> QED BY <1>1, <1>2, PTL DEF DashboardSpec

(* The invariant gives the three properties.                                *)
LEMMA DashboardInvGives ==
  ASSUME DashboardInv
  PROVE  DashboardTypeOK /\ SettingsStayApart /\ ChosenIsOwn
<1>1. DashboardTypeOK
  <2>1. \A i \in Slots : request[i] = Free \/ request[i].at \in {"server", "page"}
    BY AskKnown DEF DashboardInv
  <2> QED BY <2>1 DEF DashboardInv, ShellInv, ServerTyped, ShellTyped, ActsTyped, DashboardTypeOK, Chosen, MerchantPages
<1>2. SettingsStayApart
  BY DEF DashboardInv, UnhurtInv, UnhurtFacts, Unhurt, SettingsApart, SettingsStayApart
<1>3. ChosenIsOwn
  BY DEF DashboardInv, UnhurtInv, UnhurtFacts, Unhurt, TabKnown, SignedIn, ChosenOwn, ChosenIsOwn
<1> QED BY <1>1, <1>2, <1>3

(* The types of the shell's state and of the server's settings (app.tsx).    *)
THEOREM DashboardTypes == DashboardSpec => []DashboardTypeOK
<1>1. DashboardInv => DashboardTypeOK
  BY DashboardInvGives
<1> QED BY <1>1, DashboardInvHolds, PTL

(* A form saved by a user who waits for the answers writes the settings and  *)
(* the fee of the merchant they were read for (settings-page.tsx): never     *)
(* those of another, whichever way the merchant was chosen.                 *)
THEOREM SettingsKeptApart == DashboardSpec => []SettingsStayApart
<1>1. DashboardInv => SettingsStayApart
  BY DashboardInvGives
<1> QED BY <1>1, DashboardInvHolds, PTL

(* Once all is answered, the merchant kept in localStorage is one of the     *)
(* signed-in user's (app.tsx:166), whoever used the tab before.             *)
THEOREM ChosenAreOwn == DashboardSpec => []ChosenIsOwn
<1>1. DashboardInv => ChosenIsOwn
  BY DashboardInvGives
<1> QED BY <1>1, DashboardInvHolds, PTL

-----------------------------------------------------------------------------
(* The lists (Listings).                                                     *)

-----------------------------------------------------------------------------
(* The rows of a page, and the row after it.                                *)
LEMMA LimitTyped == Limit \in Nat
BY ListingsAssumption DEF Limit

(* The rows left out come after those of the page.                          *)
LEMMA FirstRowsFirst ==
  ASSUME NEW b \in Nat, NEW ns, ns \subseteq 1..b
  PROVE  FirstRows(ns) \subseteq ns /\ \A a \in FirstRows(ns), n \in ns \ FirstRows(ns) : n < a
<1>1. PICK first : first = FirstRows(ns)
  OBVIOUS
<1>2. first \subseteq ns
  BY <1>1 DEF FirstRows
<1>3. \A x \in ns : x \in 1..b /\ x \in Nat
  OBVIOUS
<1>4. ASSUME NEW a \in first, NEW n \in ns \ first PROVE n < a
  <2>1. a \in ns /\ a \in Nat /\ n \in ns /\ n \in Nat
    BY <1>2, <1>3
  <2>2. PICK A : A = {k \in ns : k > a}
    OBVIOUS
  <2>3. PICK N : N = {k \in ns : k > n}
    OBVIOUS
  <2>4. IsFiniteSet(1..b)
    BY FS_Interval
  <2>5. A \in SUBSET (1..b) /\ N \in SUBSET (1..b)
    BY <1>3, <2>2, <2>3
  <2>6. IsFiniteSet(A)
    BY <2>4, <2>5, FS_Subset
  <2>7. IsFiniteSet(N)
    BY <2>4, <2>5, FS_Subset
  <2>8. Cardinality(N) \in Nat /\ Cardinality(A) \in Nat
    BY <2>6, <2>7, FS_CardinalityType
  <2>9. Cardinality(A) < Limit /\ ~(Cardinality(N) < Limit)
    BY <1>1, <2>1, <2>2, <2>3 DEF FirstRows
  <2>10. CASE ~(n < a)
    <3>1. ASSUME NEW k \in N PROVE k \in A
      <4>1. k \in ns /\ k > n /\ k \in Nat
        BY <1>3, <2>3
      <4>2. k > a
        BY <2>1, <2>10, <4>1
      <4> QED BY <2>2, <4>1, <4>2
    <3>2. Cardinality(N) <= Cardinality(A)
      <4>1. N \in SUBSET A
        BY <3>1
      <4> QED BY <2>6, <4>1, FS_Subset
    <3> QED BY <2>8, <2>9, <3>2, LimitTyped
  <2> QED BY <2>10
<1> QED BY <1>1, <1>2, <1>4

(* The greatest of some rows, or 0.                                         *)
LEMMA GreatestIs ==
  ASSUME NEW b \in Nat, NEW ns, ns \subseteq 1..b
  PROVE  /\ Greatest(ns) \in 0..b /\ (Greatest(ns) # 0 => Greatest(ns) \in ns)
         /\ \A x \in ns : x <= Greatest(ns)
<1>1. CASE ns = {}
  BY <1>1 DEF Greatest
<1>2. CASE ns # {}
  <2>1. \A x \in ns : x \in 1..b /\ x \in Int
    OBVIOUS
  <2>2. ns \subseteq -1..b
    BY <2>1
  <2>3. Max(ns) \in ns /\ \A x \in ns : Max(ns) >= x
    BY <1>2, <2>2, GreatestOf
  <2>4. Max(ns) \in 1..b
    BY <2>1, <2>3
  <2>5. \A x \in ns : x <= Max(ns)
    BY <2>1, <2>3
  <2> QED BY <1>2, <2>3, <2>4, <2>5 DEF Greatest
<1> QED BY <1>1, <1>2

(* A page has every row of the merchant's from the cursor down to the next. *)
LEMMA PageFromGives ==
  ASSUME RowsTyped, NEW m \in Merchants, NEW from \in Nat, NEW p, p = PageFrom(m, from)
  PROVE  /\ p \in Page /\ p.merchant = m
         /\ \A r \in p.rows : OfMerchant(r.id, m) /\ r.id <= from /\ r.id > p.next
         /\ p.next # 0 => OfMerchant(p.next, m)
         /\ p.next \in Nat /\ p.next <= from
         /\ \A n \in 1..Len(rows) : rows[n].merchant = m /\ ~rows[n].gone /\ n <= from /\ n > p.next =>
              \E r \in p.rows : n = r.id
<1>1. PICK ns, first : ns = RowsOf(m, from) /\ first = FirstRows(ns)
  OBVIOUS
<1>2. Len(rows) \in Nat /\ MaxRows \in Nat /\ Len(rows) <= MaxRows
  BY ListingsAssumption DEF RowsTyped
<1>3. ns \subseteq 1..Len(rows)
  BY <1>1 DEF RowsOf
<1>4. first \subseteq ns /\ \A a \in first, n \in ns \ first : n < a
  BY <1>1, <1>2, <1>3, FirstRowsFirst
<1>5. PICK next : next = Greatest(ns \ first)
  OBVIOUS
<1>6. next \in 0..Len(rows) /\ (next # 0 => next \in ns \ first) /\ \A x \in ns \ first : x <= next
  BY <1>2, <1>3, <1>5, GreatestIs
<1>7. p = [merchant |-> m, rows |-> {[id |-> n, done |-> rows[n].done] : n \in first}, next |-> next]
  BY <1>1, <1>5 DEF PageFrom, PageOf
<1>8. \A n \in ns : n \in 1..Len(rows) /\ rows[n].merchant = m /\ ~rows[n].gone /\ n <= from
  BY <1>1 DEF RowsOf
<1>9. \A n \in 1..Len(rows) : rows[n] \in ListRow
  BY DEF RowsTyped
<1>10. p \in Page
  <2>1. \A n \in first : [id |-> n, done |-> rows[n].done] \in [id : 1..MaxRows, done : BOOLEAN]
    BY <1>2, <1>3, <1>4, <1>9 DEF ListRow
  <2>2. p.rows \in SUBSET [id : 1..MaxRows, done : BOOLEAN]
    BY <1>7, <2>1
  <2> QED BY <1>2, <1>6, <1>7, <2>2 DEF Page
<1>11. ASSUME NEW r \in p.rows PROVE OfMerchant(r.id, m) /\ r.id <= from /\ r.id > p.next
  <2>1. r.id \in first /\ p.next = next
    BY <1>7, <1>11
  <2>2. r.id > next
    <3>1. r.id \in 1..Len(rows)
      BY <1>4, <1>8, <2>1
    <3> QED BY <1>2, <1>4, <1>6, <2>1, <3>1
  <2> QED BY <1>4, <1>8, <2>1, <2>2 DEF OfMerchant
<1>12. p.next # 0 => OfMerchant(p.next, m)
  BY <1>6, <1>7, <1>8 DEF OfMerchant
<1>13. p.next \in Nat /\ p.next <= from
  BY <1>6, <1>7, <1>8
<1>14. ASSUME NEW n \in 1..Len(rows), rows[n].merchant = m, ~rows[n].gone, n <= from, n > p.next
       PROVE  \E r \in p.rows : n = r.id
  <2>1. n \in ns
    BY <1>1, <1>14 DEF RowsOf
  <2>2. n \in first
    <3>1. ~(n <= next)
      BY <1>2, <1>6, <1>7, <1>14
    <3> QED BY <1>6, <2>1, <3>1
  <2>3. PICK r : r = [id |-> n, done |-> rows[n].done]
    OBVIOUS
  <2>4. r \in p.rows /\ r.id = n
    BY <1>7, <2>2, <2>3
  <2> QED BY <2>4
<1> QED BY <1>7, <1>10, <1>11, <1>12, <1>13, <1>14

-----------------------------------------------------------------------------
(* Pages that follow each other.                                            *)
LEMMA PagesFitIfNone == PagesFit(<<>>)
BY DEF PagesFit, Linked, Falling, Complete

(* The last page is dropped.                                                *)
LEMMA PagesFitFront ==
  ASSUME NEW pages, PagesFit(pages), pages # <<>>, NEW kept, kept = Front(pages)
  PROVE  /\ PagesFit(kept) /\ (kept # <<>> => Cursor(kept) # 0) /\ Len(kept) = Len(pages) - 1
         /\ \A k \in DOMAIN kept : k \in DOMAIN pages /\ kept[k] = pages[k]
<1>1. pages \in Seq(Page) /\ Len(pages) \in Nat \ {0}
  BY EmptySeq DEF PagesFit
<1>2. /\ kept \in Seq(Page) /\ Len(kept) = Len(pages) - 1
      /\ \A k \in 1..Len(kept) : kept[k] = pages[k]
  <2>1. PICK last : last = Len(pages) - 1 /\ last \in Nat
    BY <1>1
  <2>2. \A k \in 1..last : pages[k] \in Page
    BY <1>1, <2>1
  <2>3. kept = SubSeq(pages, 1, last)
    BY <2>1 DEF Front
  <2>4. /\ kept \in Seq(Page) /\ Len(kept) = IF 1 <= last THEN last - 1 + 1 ELSE 0
        /\ \A k \in 1..(last - 1 + 1) : kept[k] = pages[1 + k - 1]
    BY <2>1, <2>2, <2>3, SubSeqProperties
  <2>5. Len(kept) = last
    BY <2>1, <2>4
  <2>6. \A k \in 1..last : 1 + k - 1 = k
    BY <2>1
  <2> QED BY <2>1, <2>4, <2>5, <2>6
<1>3. DOMAIN kept = 1..Len(kept) /\ DOMAIN pages = 1..Len(pages)
  BY <1>1, <1>2
<1>4. \A k \in DOMAIN kept : k \in DOMAIN pages /\ kept[k] = pages[k] /\ k < Len(pages)
  BY <1>1, <1>2, <1>3
<1>5. CASE kept = <<>>
  BY <1>2, <1>4, <1>5, PagesFitIfNone
<1>6. CASE kept # <<>>
  <2>1. Len(kept) \in DOMAIN kept /\ 1 \in DOMAIN kept /\ kept[1] = pages[1]
    BY <1>1, <1>2, <1>3, <1>6, EmptySeq
  <2>2. Linked(kept)
    BY <1>1, <1>2, <1>3, <1>4, <2>1 DEF PagesFit, Linked
  <2>3. Falling(kept)
    BY <1>3, <1>4 DEF PagesFit, Falling
  <2>4. ASSUME NEW l \in DOMAIN kept, NEW n
        PROVE  (Reached(kept, l, n) <=> Reached(pages, l, n)) /\ (Has(kept, l, n) <=> Has(pages, l, n))
    <3>1. \A j \in 1..l : kept[j] = pages[j]
      BY <1>1, <1>2, <1>3, <2>4
    <3> QED BY <3>1 DEF Reached, Has
  <2>5. Complete(kept)
    BY <1>4, <2>1, <2>4 DEF PagesFit, Complete
  <2>6. Cursor(kept) # 0
    BY <1>1, <1>2, <1>4, <1>6, <2>1 DEF Cursor, Last, PagesFit, Linked
  <2> QED BY <1>2, <1>4, <2>2, <2>3, <2>5, <2>6 DEF PagesFit
<1> QED BY <1>5, <1>6

(* The page after the last is added.                                        *)
LEMMA CursorOf ==
  ASSUME NEW pages, PagesFit(pages)
  PROVE  /\ pages = <<>> => Cursor(pages) = Newest
         /\ pages # <<>> => Len(pages) \in DOMAIN pages /\ Cursor(pages) = pages[Len(pages)].next
         /\ Cursor(pages) \in Nat
<1>1. pages \in Seq(Page) /\ MaxRows \in Nat
  BY ListingsAssumption DEF PagesFit
<1>2. CASE pages = <<>>
  BY <1>1, <1>2 DEF Cursor, Newest
<1>3. CASE pages # <<>>
  <2>1. Len(pages) \in DOMAIN pages /\ pages[Len(pages)] \in Page
    BY <1>1, <1>3, EmptySeq
  <2> QED BY <1>1, <1>3, <2>1 DEF Cursor, Last, Page
<1> QED BY <1>2, <1>3

(* The page that starts at the cursor fits behind the last.                 *)
LEMMA PagesFitAppend ==
  ASSUME RowsTyped, NEW pages, PagesFit(pages), Cursor(pages) # 0, NEW m \in Merchants,
         Cursor(pages) # Newest => rows[Cursor(pages)].merchant = m,
         NEW loaded, loaded = Append(pages, PageFrom(m, Cursor(pages)))
  PROVE  /\ PagesFit(loaded) /\ loaded # <<>> /\ Len(loaded) = Len(pages) + 1
         /\ loaded[Len(loaded)] = PageFrom(m, Cursor(pages))
         /\ \A k \in DOMAIN pages : k \in DOMAIN loaded /\ loaded[k] = pages[k]
<1>0a. PICK from : from = Cursor(pages)
  OBVIOUS
<1>0b. PICK p : p = PageFrom(m, from)
  OBVIOUS
<1>0c. from # 0 /\ (from # Newest => rows[from].merchant = m) /\ loaded = Append(pages, p)
  BY <1>0a, <1>0b
<1>1. pages \in Seq(Page) /\ MaxRows \in Nat /\ Len(rows) \in Nat /\ Len(rows) <= MaxRows /\ from \in Nat
  BY <1>0a, CursorOf, ListingsAssumption DEF PagesFit, RowsTyped
<1>2. /\ p \in Page /\ p.merchant = m
      /\ \A r \in p.rows : OfMerchant(r.id, m) /\ r.id <= from /\ r.id > p.next
      /\ p.next # 0 => OfMerchant(p.next, m)
      /\ p.next \in Nat /\ p.next <= from
      /\ \A n \in 1..Len(rows) : rows[n].merchant = m /\ ~rows[n].gone /\ n <= from /\ n > p.next =>
           \E r \in p.rows : n = r.id
  BY <1>0b, <1>1, PageFromGives
<1>3. PICK len : len = Len(pages) /\ len \in Nat
  BY <1>1
<1>4. /\ loaded \in Seq(Page) /\ Len(loaded) = len + 1 /\ loaded[len + 1] = p
      /\ \A k \in 1..len : loaded[k] = pages[k]
      /\ DOMAIN loaded = 1..(len + 1) /\ DOMAIN pages = 1..len
  BY <1>0c, <1>1, <1>2, <1>3, AppendProperties
<1>5. /\ pages # <<>> => len \in DOMAIN pages /\ from = pages[len].next /\ len # 0
      /\ pages = <<>> => from = Newest /\ len = 0
  BY <1>0a, <1>1, <1>3, CursorOf, EmptySeq
<1>6. /\ loaded[1].merchant = m
      /\ \A k \in DOMAIN loaded : loaded[k].merchant = m /\ (k <= len => pages[1].merchant = m)
  <2>1. CASE pages = <<>>
    BY <1>2, <1>4, <1>5, <2>1
  <2>2. CASE pages # <<>>
    <3>1. from # 0 => OfMerchant(from, pages[1].merchant)
      BY <1>5, <2>2 DEF PagesFit, Linked
    <3>2. from # Newest
      BY <1>0c, <1>1, <3>1 DEF OfMerchant, Newest
    <3>3. pages[1].merchant = m
      BY <1>0c, <3>1, <3>2 DEF OfMerchant
    <3>4. \A k \in DOMAIN pages : pages[k].merchant = m
      BY <3>3 DEF PagesFit, Linked
    <3>5. \A k \in DOMAIN loaded : k \in DOMAIN pages \/ k = len + 1
      BY <1>3, <1>4
    <3>6. 1 \in DOMAIN pages
      BY <1>3, <1>4, <1>5, <2>2
    <3> QED BY <1>2, <1>4, <3>3, <3>4, <3>5, <3>6
  <2> QED BY <2>1, <2>2
<1>7. \A k \in DOMAIN loaded : k = len + 1 \/ (k \in DOMAIN pages /\ loaded[k] = pages[k] /\ k <= len)
  BY <1>3, <1>4
<1>8. Linked(loaded)
  <2> SUFFICES ASSUME NEW k \in DOMAIN loaded
               PROVE  /\ loaded[k].merchant = loaded[1].merchant
                      /\ \A r \in loaded[k].rows : OfMerchant(r.id, loaded[1].merchant) /\ r.id > loaded[k].next
                      /\ loaded[k].next # 0 => OfMerchant(loaded[k].next, loaded[1].merchant)
                      /\ k < Len(loaded) => loaded[k].next # 0
    BY DEF Linked
  <2>1. CASE k = len + 1
    BY <1>2, <1>3, <1>4, <1>6, <2>1
  <2>2. CASE k # len + 1
    <3>1. k \in DOMAIN pages /\ loaded[k] = pages[k] /\ pages[1].merchant = loaded[1].merchant /\ k <= len
      BY <1>6, <1>7, <2>2
    <3>2. /\ \A r \in pages[k].rows : OfMerchant(r.id, pages[1].merchant) /\ r.id > pages[k].next
          /\ pages[k].next # 0 => OfMerchant(pages[k].next, pages[1].merchant)
          /\ k < len => pages[k].next # 0
      BY <1>3, <3>1 DEF PagesFit, Linked
    <3>3. pages[k].next # 0
      <4>1. CASE k = len
        BY <1>0c, <1>4, <1>5, <3>1, <4>1
      <4>2. CASE k # len
        BY <1>3, <1>4, <3>1, <3>2, <4>2
      <4> QED BY <4>1, <4>2
    <3> QED BY <1>6, <3>1, <3>2, <3>3
  <2> QED BY <2>1, <2>2
<1>9. \A k \in DOMAIN pages : pages[k].next \in Nat /\ pages[k].next >= from
  <2> SUFFICES ASSUME NEW k \in DOMAIN pages PROVE pages[k].next \in Nat /\ pages[k].next >= from
    OBVIOUS
  <2>1. pages[k].next \in Nat /\ pages # <<>> /\ k \in 1..len
    <3>1. k \in 1..len /\ len # 0
      BY <1>3, <1>4
    <3>2. pages[k] \in Page
      BY <1>1
    <3>3. pages[k].next \in Nat
      BY <1>1, <3>2 DEF Page
    <3> QED BY <1>5, <3>1, <3>3
  <2>2. CASE k = len
    BY <1>1, <1>5, <2>1, <2>2
  <2>3. CASE k # len
    <3>1. k < len
      BY <1>3, <2>1, <2>3
    <3>2. pages[len].next <= pages[k].next
      BY <1>5, <2>1, <3>1 DEF PagesFit, Falling
    <3> QED BY <1>1, <1>5, <2>1, <3>2
  <2> QED BY <2>2, <2>3
<1>10. Falling(loaded)
  <2> SUFFICES ASSUME NEW j \in DOMAIN loaded, NEW k \in DOMAIN loaded, j < k
               PROVE  loaded[k].next <= loaded[j].next /\ \A r \in loaded[k].rows : r.id <= loaded[j].next
    BY DEF Falling
  <2>1. j \in DOMAIN pages /\ loaded[j] = pages[j]
    BY <1>3, <1>4
  <2>2. CASE k = len + 1
    <3>1. loaded[k] = p /\ loaded[j].next \in Nat /\ loaded[j].next >= from
      BY <1>4, <1>9, <2>1, <2>2
    <3>2. \A r \in p.rows : r.id \in Nat
      BY <1>1, <1>2 DEF OfMerchant
    <3> QED BY <1>1, <1>2, <3>1, <3>2
  <2>3. CASE k # len + 1
    BY <1>7, <2>1, <2>3 DEF PagesFit, Falling
  <2> QED BY <2>2, <2>3
<1>11. Complete(loaded)
  <2> SUFFICES ASSUME NEW l \in DOMAIN loaded, NEW n \in 1..Len(rows), rows[n].merchant = m, ~rows[n].gone,
                      n > loaded[l].next, Reached(loaded, l, n)
               PROVE  Has(loaded, l, n)
    BY <1>6 DEF Complete
  <2>1. CASE l \in DOMAIN pages
    <3>1. \A j \in 1..l : loaded[j] = pages[j]
      BY <1>3, <1>4, <2>1
    <3>2. Reached(pages, l, n) /\ n > pages[l].next /\ pages[1].merchant = m
      BY <1>4, <1>6, <1>7, <2>1, <3>1 DEF Reached
    <3>3. Has(pages, l, n)
      BY <2>1, <3>2 DEF PagesFit, Complete
    <3> QED BY <3>1, <3>3 DEF Has
  <2>2. CASE l = len + 1 /\ n <= from
    <3>1. \E r \in p.rows : n = r.id
      BY <1>2, <1>4, <2>2
    <3> QED BY <1>3, <1>4, <2>2, <3>1 DEF Has
  <2>3. CASE l = len + 1 /\ ~(n <= from)
    <3>1. pages # <<>>
      <4>1. n <= Newest
        BY <1>1 DEF Newest
      <4> QED BY <1>5, <2>3, <4>1
    <3>2. PICK j \in 1..l : \E r \in loaded[j].rows : n <= r.id
      BY DEF Reached
    <3>3. j # len + 1
      <4>1. ASSUME j = len + 1 PROVE FALSE
        <5>1. PICK r \in p.rows : n <= r.id
          BY <1>4, <3>2, <4>1
        <5>2. r.id \in Nat /\ r.id <= from
          BY <1>1, <1>2 DEF OfMerchant
        <5> QED BY <1>1, <2>3, <5>1, <5>2
      <4> QED BY <4>1
    <3>4. j \in 1..len /\ loaded[j] = pages[j]
      BY <1>3, <1>4, <2>3, <3>3
    <3>5. Reached(pages, len, n)
      BY <3>2, <3>4 DEF Reached
    <3>6. len \in DOMAIN pages /\ n > pages[len].next /\ pages[1].merchant = m
      BY <1>1, <1>3, <1>4, <1>5, <1>6, <2>3, <3>1
    <3>7. Has(pages, len, n)
      BY <3>5, <3>6 DEF PagesFit, Complete
    <3> QED BY <1>3, <1>4, <2>3, <3>7 DEF Has
  <2> QED BY <1>7, <2>1, <2>2, <2>3
<1>12. loaded # <<>>
  BY <1>3, <1>4, EmptySeq
<1> QED BY <1>0a, <1>0b, <1>3, <1>4, <1>7, <1>8, <1>10, <1>11, <1>12 DEF PagesFit

(* The server's rows stay what they are, except that one may go.            *)
RowsGrow ==
  /\ Len(rows) <= Len(rows')
  /\ \A n \in 1..Len(rows) : /\ rows'[n].merchant = rows[n].merchant /\ rows'[n].by = rows[n].by
                             /\ rows[n].gone => rows'[n].gone

(* Pages that were right stay right.                                        *)
LEMMA PagesFitGrows ==
  ASSUME RowsTyped, RowsTyped', RowsGrow, NEW pages, PagesFit(pages)
  PROVE  PagesFit(pages)'
<1>1. Len(rows) \in Nat /\ Len(rows') \in Nat /\ Len(rows) <= Len(rows') /\ pages \in Seq(Page)
  BY DEF RowsTyped, RowsGrow, PagesFit
<1>2. \A n, m : OfMerchant(n, m) => OfMerchant(n, m)'
  BY <1>1 DEF OfMerchant, RowsGrow
<1>3. Linked(pages)'
  BY <1>2 DEF PagesFit, Linked
<1>4. Complete(pages)'
  <2> SUFFICES ASSUME NEW l \in DOMAIN pages, NEW n \in 1..Len(rows'),
                      rows'[n].merchant = pages[1].merchant, ~rows'[n].gone, n > pages[l].next, Reached(pages, l, n)
               PROVE  Has(pages, l, n)
    BY DEF Complete, Reached, Has
  <2>1. PICK j \in 1..l : \E r \in pages[j].rows : n <= r.id
    BY DEF Reached
  <2>2. PICK r \in pages[j].rows : n <= r.id
    BY <2>1
  <2>3. j \in DOMAIN pages
    BY <1>1
  <2>4. r.id \in 1..Len(rows)
    BY <2>2, <2>3 DEF PagesFit, Linked, OfMerchant
  <2>5. n \in 1..Len(rows)
    BY <1>1, <2>2, <2>4
  <2> QED BY <2>5 DEF RowsGrow, PagesFit, Complete
<1> QED BY <1>1, <1>3, <1>4 DEF PagesFit, Falling

(* And if no row changes.                                                   *)
LEMMA PagesFitSame ==
  ASSUME UNCHANGED rows, NEW pages, PagesFit(pages)
  PROVE  PagesFit(pages)'
BY DEF PagesFit, Linked, Falling, Complete, OfMerchant, Reached, Has

-----------------------------------------------------------------------------
(* What is in the slots.                                                    *)
LEMMA FreeIsNoFetch == Free.kind = "none" /\ Free.kind \notin {"fetch", "add", "reset", "delete", "decide"}
BY DEF Free

(* What a request is about stays there.                                     *)
LEMMA SlotsGrow ==
  ASSUME RowsTyped, RowsTyped', RowsGrow, NEW r, QueryFits(r), ChangeFits(r)
  PROVE  QueryFits(r)' /\ ChangeFits(r)'
<1>1. QueryFits(r)'
  BY PagesFitGrows DEF QueryFits
<1>2. ChangeFits(r)'
  <2>1. Len(rows) \in Nat /\ Len(rows') \in Nat /\ Len(rows) <= Len(rows')
    BY DEF RowsTyped, RowsGrow
  <2> QED BY <2>1 DEF ChangeFits
<1> QED BY <1>1, <1>2

(* What a request on its way can be.                                        *)
LEMMA SlotKnown ==
  ASSUME SlotsFit, NEW i \in Slots, NEW r, r = request[i], r # Free
  PROVE  /\ QueryFits(r) /\ ChangeFits(r) /\ r.kind \in {"fetch", "add", "reset", "delete", "decide"}
         /\ r.at \in ListStages /\ r.merchant \in Merchants
         /\ (r.kind = "fetch" <=> i \in Fetches)
<1>1. QueryFits(r) /\ ChangeFits(r)
  BY DEF SlotsFit
<1>2. r \in Queries \/ r \in Changes
  BY <1>1 DEF QueryFits, ChangeFits
<1> QED BY <1>1, <1>2 DEF Queries, Changes, Fetches

(* One slot's request goes on, or is answered.                              *)
LEMMA SlotsProceed ==
  ASSUME RowsTyped, RowsTyped', RowsGrow \/ UNCHANGED rows, SlotsFit, OneFetch, NEW i \in Slots,
         NEW q, GoesOn(i, q), q # Free => QueryFits(q)' /\ ChangeFits(q)',
         q.kind = "fetch" => request[i].kind = "fetch"
  PROVE  /\ SlotsFit' /\ OneFetch' /\ request'[i] = q /\ DOMAIN request' = Slots
         /\ \A j \in Slots \ {i} : request'[j] = request[j]
<1>1. DOMAIN request' = Slots /\ request'[i] = q /\ \A j \in Slots \ {i} : request'[j] = request[j]
  BY SlotChanges DEF SlotsFit, GoesOn
<1>2. RowsGrow
  BY DEF RowsGrow, RowsTyped
<1>3. ASSUME NEW j \in Slots, request'[j] # Free PROVE QueryFits(request[j])' /\ ChangeFits(request[j])'
  <2>1. PICK x : x = request'[j]
    OBVIOUS
  <2>2. CASE j = i
    BY <1>1, <1>3, <2>2
  <2>3. CASE j # i
    <3>1. QueryFits(x) /\ ChangeFits(x) /\ x = request[j]
      BY <1>1, <1>3, <2>1, <2>3 DEF SlotsFit
    <3>2. QueryFits(x)' /\ ChangeFits(x)'
      BY <1>2, <3>1, SlotsGrow
    <3> QED BY <2>1, <3>2
  <2> QED BY <2>2, <2>3
<1>4. Fetches' \subseteq Fetches
  BY <1>1 DEF Fetches
<1>5. OneFetch'
  BY <1>4 DEF OneFetch
<1> QED BY <1>1, <1>3, <1>5 DEF SlotsFit

(* What StartFetch sends or shares.                                         *)
LEMMA FetchStarted ==
  ASSUME SlotsFit, NEW sent, DOMAIN sent = Slots,
         \A j \in Slots : sent[j] = request[j] \/ (sent[j].kind # "fetch" /\ request[j].kind # "fetch"),
         NEW m, NEW pages, NEW left, StartFetch(sent, m, pages, left), NEW q, q = Fetch(m, pages, left)
  PROVE  \/ /\ isFetching /\ data = <<>> /\ request' = sent /\ shared' \in {"other", "same"}
            /\ shared' # "other" => shared # "other" /\ \A j \in Fetches : request[j].merchant = m
         \/ /\ ~(isFetching /\ data = <<>>)
            /\ \E f \in Slots :
                 /\ request'[f] = q /\ DOMAIN request' = Slots
                 /\ \A j \in Slots \ {f} : request'[j] = Free \/ (request'[j] = sent[j] /\ sent[j].kind # "fetch")
                 /\ sent[f] = Free \/ f \in Fetches
                 /\ \A j \in Slots \ {f} : request'[j] = Free => sent[j] = Free \/ j \in Fetches
            /\ shared' \in {"other", "no"}
            /\ shared' # "other" => \A k \in DOMAIN pages : pages[k].merchant = m
<1>1. CASE isFetching /\ data = <<>>
  BY <1>1 DEF StartFetch, Fetches
<1>2. CASE ~(isFetching /\ data = <<>>)
  <2>1. PICK cleared : cleared = [i \in Slots |-> IF i \in Fetches THEN Free ELSE sent[i]]
    OBVIOUS
  <2>2. Sends(cleared, q)
    BY <1>2, <2>1 DEF StartFetch
  <2>3. PICK f \in Slots : cleared[f] = Free /\ request' = [cleared EXCEPT ![f] = q]
    BY <2>2 DEF Sends
  <2>4. DOMAIN request' = Slots /\ request'[f] = q /\ \A j \in Slots \ {f} : request'[j] = cleared[j]
    BY <2>1, <2>3
  <2>5. \A j \in Slots : (cleared[j] = Free /\ j \in Fetches) \/ (cleared[j] = sent[j] /\ j \notin Fetches)
    BY <2>1
  <2>6. \A j \in Slots \ Fetches : sent[j].kind # "fetch"
    BY DEF Fetches
  <2>7. shared' \in {"other", "no"} /\ (shared' # "other" => \A k \in DOMAIN pages : pages[k].merchant = m)
    BY <1>2 DEF StartFetch
  <2> QED BY <1>2, <2>3, <2>4, <2>5, <2>6, <2>7
<1> QED BY <1>1, <1>2

(* A fetch that is started fits.                                            *)
LEMMA FetchFits ==
  ASSUME NEW m \in Merchants, NEW pages, PagesFit(pages), pages # <<>> => Cursor(pages) # 0, NEW left \in Nat,
         NEW q, q = Fetch(m, pages, left)
  PROVE  /\ QueryFits(q) /\ ChangeFits(q) /\ q # Free /\ q.kind = "fetch" /\ q.at = "server"
         /\ q.merchant = m /\ q.pages = pages /\ q.left = left
<1>1. /\ q.kind = "fetch" /\ q.at = "server" /\ q.merchant = m /\ q.pages = pages /\ q.left = left
  BY DEF Fetch
<1>2. q \in Queries
  BY DEF Fetch, Queries, PagesFit, ListStages
<1>3. Cursor(pages) # 0
  <2>1. CASE pages = <<>>
    BY <2>1, CursorOf, ListingsAssumption DEF Newest
  <2> QED BY <2>1
<1> QED BY <1>1, <1>2, <1>3, FreeIsNoFetch DEF QueryFits, ChangeFits

(* Every other request stays, and the one fetch is the new one or the shared. *)
LEMMA StartsFitting ==
  ASSUME ListsInv, UNCHANGED rows, NEW sent, DOMAIN sent = Slots,
         \A j \in Slots : sent[j] = request[j] \/ (sent[j].kind # "fetch" /\ request[j].kind # "fetch"),
         \A j \in Slots : sent[j] # Free => QueryFits(sent[j]) /\ ChangeFits(sent[j]),
         NEW m \in Merchants, NEW pages, PagesFit(pages), pages # <<>> => Cursor(pages) # 0,
         NEW left \in Nat, StartFetch(sent, m, pages, left)
  PROVE  SlotsFit' /\ OneFetch' /\ shared' \in {"no", "same", "other"}
<1>1. PICK q : q = Fetch(m, pages, left)
  OBVIOUS
<1>2. QueryFits(q) /\ ChangeFits(q) /\ q # Free /\ q.kind = "fetch"
  BY <1>1, FetchFits
<1>3. SlotsFit
  BY DEF ListsInv
<1>4. ASSUME NEW x, QueryFits(x), ChangeFits(x) PROVE QueryFits(x)' /\ ChangeFits(x)'
  BY <1>4, PagesFitSame DEF QueryFits, ChangeFits
<1>5. CASE request' = sent /\ shared' \in {"other", "same"}
  <2>1. SlotsFit'
    <3> SUFFICES ASSUME NEW j \in Slots, request'[j] # Free PROVE QueryFits(request[j])' /\ ChangeFits(request[j])'
      BY <1>5 DEF SlotsFit
    <3>1. PICK x : x = request'[j] /\ x = sent[j]
      BY <1>5
    <3>2. QueryFits(x)' /\ ChangeFits(x)'
      BY <1>4, <3>1
    <3> QED BY <3>1, <3>2
  <2>2. Fetches' \subseteq Fetches
    BY <1>5 DEF Fetches
  <2>3. OneFetch'
    BY <2>2 DEF OneFetch, ListsInv
  <2> QED BY <1>5, <2>1, <2>3
<1>6. CASE /\ shared' \in {"other", "no"}
           /\ \E f \in Slots :
                /\ request'[f] = q /\ DOMAIN request' = Slots
                /\ \A j \in Slots \ {f} : request'[j] = Free \/ (request'[j] = sent[j] /\ sent[j].kind # "fetch")
  <2>1. PICK f \in Slots :
          /\ request'[f] = q /\ DOMAIN request' = Slots
          /\ \A j \in Slots \ {f} : request'[j] = Free \/ (request'[j] = sent[j] /\ sent[j].kind # "fetch")
    BY <1>6
  <2>2. SlotsFit'
    <3> SUFFICES ASSUME NEW j \in Slots, request'[j] # Free PROVE QueryFits(request[j])' /\ ChangeFits(request[j])'
      BY <2>1 DEF SlotsFit
    <3>1. PICK x : x = request'[j]
      OBVIOUS
    <3>2. QueryFits(x) /\ ChangeFits(x)
      BY <1>2, <2>1, <3>1
    <3>3. QueryFits(x)' /\ ChangeFits(x)'
      BY <1>4, <3>2
    <3> QED BY <3>1, <3>3
  <2>3. Fetches' \subseteq {f}
    BY <2>1, FreeIsNoFetch DEF Fetches
  <2>4. OneFetch'
    BY <2>3 DEF OneFetch
  <2> QED BY <1>6, <2>2, <2>4
<1> QED BY <1>1, <1>3, <1>5, <1>6, FetchStarted

(* The requests a handler leaves behind it.                                 *)
LEMMA SentKeeps ==
  ASSUME SlotsFit, NEW sent, NEW i \in Slots, request[i].kind # "fetch",
         \/ sent = request
         \/ sent = Without({i})
         \/ \E q : sent = [request EXCEPT ![i] = q] /\ q.kind # "fetch" /\ QueryFits(q) /\ ChangeFits(q)
  PROVE  /\ DOMAIN sent = Slots
         /\ \A j \in Slots : sent[j] = request[j] \/ (sent[j].kind # "fetch" /\ request[j].kind # "fetch")
         /\ \A j \in Slots : sent[j] # Free => QueryFits(sent[j]) /\ ChangeFits(sent[j])
         /\ \A j \in Slots \ {i} : sent[j] = request[j]
<1>1. DOMAIN request = Slots /\ \A j \in Slots : request[j] # Free => QueryFits(request[j]) /\ ChangeFits(request[j])
  BY DEF SlotsFit
<1>2. CASE sent = request
  BY <1>1, <1>2
<1>3. CASE sent = Without({i})
  <2>1. DOMAIN sent = Slots /\ sent[i] = Free /\ \A j \in Slots \ {i} : sent[j] = request[j]
    BY <1>3 DEF Without
  <2> QED BY <1>1, <2>1, FreeIsNoFetch
<1>4. ASSUME NEW q, sent = [request EXCEPT ![i] = q], q.kind # "fetch", QueryFits(q), ChangeFits(q)
      PROVE  /\ DOMAIN sent = Slots
             /\ \A j \in Slots : sent[j] = request[j] \/ (sent[j].kind # "fetch" /\ request[j].kind # "fetch")
             /\ \A j \in Slots : sent[j] # Free => QueryFits(sent[j]) /\ ChangeFits(sent[j])
             /\ \A j \in Slots \ {i} : sent[j] = request[j]
  <2>1. DOMAIN sent = Slots /\ sent[i] = q /\ \A j \in Slots \ {i} : sent[j] = request[j]
    BY <1>1, <1>4
  <2> QED BY <1>1, <1>4, <2>1
<1> QED BY <1>2, <1>3, <1>4

(* The pages a fetch may start from.                                        *)
LEMMA KeptPages ==
  ASSUME ListsInv
  PROVE  /\ PagesFit(<<>>) /\ PagesFit(data) /\ Pages \in Nat /\ 1 \in Nat
         /\ data # <<>> => PagesFit(Front(data)) /\ (Front(data) # <<>> => Cursor(Front(data)) # 0)
<1>1. PagesFit(data)
  BY DEF ListsInv
<1>2. Pages \in Nat
  BY <1>1 DEF Pages, PagesFit
<1> QED BY <1>1, <1>2, PagesFitIfNone, PagesFitFront

(* Loading everything anew, or the last page.                               *)
LEMMA RefetchFits ==
  ASSUME ListsInv, UNCHANGED rows, NEW sent, DOMAIN sent = Slots,
         \A j \in Slots : sent[j] = request[j] \/ (sent[j].kind # "fetch" /\ request[j].kind # "fetch"),
         \A j \in Slots : sent[j] # Free => QueryFits(sent[j]) /\ ChangeFits(sent[j]),
         NEW m \in Merchants, refetch(sent, m) \/ invalidateQueries(sent, m)
  PROVE  SlotsFit' /\ OneFetch' /\ shared' \in {"no", "same", "other"}
<1>1. CASE refetch(sent, m)
  BY <1>1, KeptPages, StartsFitting DEF refetch
<1>2. CASE invalidateQueries(sent, m)
  <2>1. PICK pages : pages = IF data = <<>> THEN <<>> ELSE Front(data)
    OBVIOUS
  <2>2. PagesFit(pages) /\ (pages # <<>> => Cursor(pages) # 0)
    BY <2>1, KeptPages
  <2>3. StartFetch(sent, m, pages, 1)
    BY <1>2, <2>1 DEF invalidateQueries
  <2> QED BY <2>2, <2>3, StartsFitting
<1> QED BY <1>1, <1>2

-----------------------------------------------------------------------------
(* Every step keeps the lists well formed.                                  *)
LEMMA ListsInvFrom ==
  ASSUME ListsInv, RowsTyped', RowsGrow \/ UNCHANGED rows, SlotsFit', OneFetch', ScreenTyped',
         PagesFit(data)', PaymentsMadeOnce'
  PROVE  ListsInv'
BY DEF ListsInv

(* The screen is what it was.                                               *)
LEMMA ScreenStays ==
  ASSUME ListsInv, RowsTyped', RowsGrow \/ UNCHANGED rows, UNCHANGED <<merchantId, screen>>,
         shared' \in {"no", "same", "other"}, faults' \in Nat
  PROVE  ScreenTyped'
<1>1. Len(rows) \in Nat /\ Len(rows') \in Nat /\ Len(rows) <= Len(rows')
  BY DEF RowsGrow, ListsInv, RowsTyped
<1> QED BY <1>1 DEF screen, ScreenTyped, ListsInv

(* The cached pages are what they were.                                     *)
LEMMA DataStays ==
  ASSUME ListsInv, RowsTyped', RowsGrow \/ UNCHANGED rows, UNCHANGED data
  PROVE  PagesFit(data)'
<1>1. PICK pages : pages = data /\ pages = data'
  OBVIOUS
<1>2. PagesFit(pages)'
  BY <1>1, PagesFitGrows, PagesFitSame DEF ListsInv
<1> QED BY <1>1, <1>2

(* The server's rows are what they were.                                    *)
LEMMA MadeOnceStays ==
  ASSUME ListsInv, UNCHANGED <<rows, list>>
  PROVE  PaymentsMadeOnce' /\ RowsTyped'
BY DEF ListsInv, PaymentsMadeOnce, RowsTyped

(* A change is answered, or fails.                                          *)
LEMMA SlotMoves ==
  ASSUME NEW r, QueryFits(r), ChangeFits(r), r.kind \in {"add", "reset", "delete", "decide"},
         NEW at \in ListStages, NEW q, q = [r EXCEPT !.at = at]
  PROVE  QueryFits(q) /\ ChangeFits(q) /\ q # Free /\ q.kind = r.kind /\ q.at = at /\ q.row = r.row
         /\ q.merchant = r.merchant
<1>1. r \in Changes
  BY DEF ChangeFits
<1>2. q \in Changes /\ q.kind = r.kind /\ q.at = at /\ q.row = r.row /\ q.merchant = r.merchant
  BY <1>1 DEF Changes
<1> QED BY <1>2, FreeIsNoFetch DEF QueryFits, ChangeFits

(* A fetch fails.                                                           *)
LEMMA FetchFails ==
  ASSUME NEW r, QueryFits(r), ChangeFits(r), r.kind = "fetch", NEW q, q = [r EXCEPT !.at = "failed"]
  PROVE  QueryFits(q) /\ ChangeFits(q) /\ q # Free /\ q.kind = "fetch" /\ q.at = "failed"
         /\ q.pages = r.pages /\ q.merchant = r.merchant
<1>1. r \in Queries
  BY DEF QueryFits
<1>2. q \in Queries /\ q.kind = r.kind /\ q.at = "failed" /\ q.pages = r.pages /\ q.merchant = r.merchant
  BY <1>1 DEF Queries, ListStages
<1> QED BY <1>2, FreeIsNoFetch DEF QueryFits, ChangeFits

(* The server adds a page, or refuses the cursor.                           *)
ServedAs(r, q) ==
  \/ /\ q.at = "failed" /\ q.pages = r.pages /\ Cursor(r.pages) # Newest
     /\ rows[Cursor(r.pages)].merchant # r.merchant
  \/ /\ q.at \in {"server", "page"}
     /\ Len(q.pages) = Len(r.pages) + 1
     /\ q.pages[Len(q.pages)] = PageFrom(r.merchant, Cursor(r.pages))
     /\ \A k \in DOMAIN r.pages : k \in DOMAIN q.pages /\ q.pages[k] = r.pages[k]

(* The server's step, with the request that it leaves.                      *)
LEMMA PageServed ==
  ASSUME ListsInv, NEW i \in Slots, ServePage(i), NEW r, r = request[i]
  PROVE  \E q : /\ GoesOn(i, q) /\ QueryFits(q) /\ ChangeFits(q) /\ q # Free /\ q.kind = "fetch"
                /\ q.merchant = r.merchant
                /\ r.kind = "fetch" /\ r.at = "server" /\ QueryFits(r) /\ r # Free
                /\ ServedAs(r, q)
<1>1. r.kind = "fetch" /\ r.at = "server" /\ r # Free
  BY FreeIsNoFetch DEF ServePage
<1>2. QueryFits(r) /\ ChangeFits(r) /\ r.merchant \in Merchants
  BY <1>1, SlotKnown DEF ListsInv
<1>3. r \in Queries /\ PagesFit(r.pages) /\ Cursor(r.pages) # 0
  BY <1>1, <1>2 DEF QueryFits
<1>4. PICK from : from = Cursor(r.pages)
  OBVIOUS
<1>5. PICK p : p = PageFrom(r.merchant, from)
  OBVIOUS
<1>6. PICK loaded : loaded = Append(r.pages, p)
  OBVIOUS
<1>7. PICK ends \in BOOLEAN : ends <=> (r.left = 1 \/ Cursor(loaded) = 0)
  OBVIOUS
<1>8. CASE from # Newest /\ rows[from].merchant # r.merchant
  <2>1. PICK q : q = [r EXCEPT !.at = "failed"]
    OBVIOUS
  <2>2. GoesOn(i, q)
    BY <1>4, <1>8, <2>1 DEF ServePage
  <2>3. /\ QueryFits(q) /\ ChangeFits(q) /\ q # Free /\ q.kind = "fetch" /\ q.at = "failed"
        /\ q.pages = r.pages /\ q.merchant = r.merchant
    BY <1>1, <1>2, <2>1, FetchFails
  <2>4. ServedAs(r, q)
    BY <1>4, <1>8, <2>3 DEF ServedAs
  <2> QED BY <1>1, <1>2, <2>2, <2>3, <2>4
<1>9. CASE ~(from # Newest /\ rows[from].merchant # r.merchant)
  <2>1. PICK at \in {"server", "page"} : at = IF ends THEN "page" ELSE "server"
    OBVIOUS
  <2>2. PICK q : q = [r EXCEPT !.pages = loaded, !.left = @ - 1, !.at = at]
    OBVIOUS
  <2>3. GoesOn(i, q)
    <3>1. GoesOn(i, [r EXCEPT !.pages = loaded, !.left = @ - 1,
                              !.at = IF r.left = 1 \/ Cursor(loaded) = 0 THEN "page" ELSE @])
      BY <1>4, <1>5, <1>6, <1>9 DEF ServePage
    <3>2. CASE ends
      BY <1>7, <2>1, <2>2, <3>1, <3>2
    <3>3. CASE ~ends
      BY <1>1, <1>3, <1>7, <2>1, <2>2, <3>1, <3>3 DEF Queries
    <3> QED BY <3>2, <3>3
  <2>4. PICK pages : pages = r.pages
    OBVIOUS
  <2>5. RowsTyped /\ PagesFit(pages) /\ from = Cursor(pages) /\ from # 0
        /\ (from # Newest => rows[from].merchant = r.merchant) /\ loaded = Append(pages, p)
    BY <1>3, <1>4, <1>6, <1>9, <2>4 DEF ListsInv
  <2>6. /\ PagesFit(loaded) /\ loaded # <<>> /\ Len(loaded) = Len(pages) + 1
        /\ loaded[Len(loaded)] = p
        /\ \A k \in DOMAIN pages : k \in DOMAIN loaded /\ loaded[k] = pages[k]
    <3>1. PICK m \in Merchants : m = r.merchant
      BY <1>2
    <3>2. /\ Cursor(pages) # Newest => rows[Cursor(pages)].merchant = m
          /\ loaded = Append(pages, PageFrom(m, Cursor(pages))) /\ Cursor(pages) # 0
          /\ p = PageFrom(m, Cursor(pages))
      BY <1>5, <2>5, <3>1
    <3>3. RowsTyped /\ PagesFit(pages)
      BY <2>5
    <3> QED BY <3>2, <3>3, PagesFitAppend
  <2>7. loaded \in Seq(Page) /\ r.left - 1 \in Int
    BY <1>3, <2>6 DEF PagesFit, Queries
  <2>8. q \in Queries /\ q.kind = "fetch" /\ q.pages = loaded /\ q.merchant = r.merchant /\ q.at = at
    BY <1>3, <2>2, <2>7 DEF Queries, ListStages
  <2>9. at = "server" => Cursor(loaded) # 0
    BY <1>7, <2>1
  <2>10. QueryFits(q) /\ ChangeFits(q) /\ q # Free
    BY <2>6, <2>8, <2>9, FreeIsNoFetch DEF QueryFits, ChangeFits
  <2>11. ServedAs(r, q)
    BY <1>4, <1>5, <2>1, <2>4, <2>6, <2>8 DEF ServedAs
  <2> QED BY <1>1, <1>2, <2>3, <2>8, <2>10, <2>11
<1> QED BY <1>8, <1>9

(* A row is added, unless it was made before.                               *)
LEMMA RowAdded ==
  ASSUME ListsInv, NEW m \in Merchants, NEW by \in 0..Elsewhere, Len(rows) < MaxRows,
         rows' = Append(rows, Row(m, by))
  PROVE  /\ RowsTyped' /\ RowsGrow /\ Len(rows') = Len(rows) + 1
         /\ rows'[Len(rows) + 1].merchant = m /\ rows'[Len(rows) + 1].by = by
<1>1. rows \in Seq(ListRow) /\ Len(rows) \in Nat /\ MaxRows \in Nat
  BY ListingsAssumption DEF ListsInv, RowsTyped
<1>2. PICK row : row = Row(m, by)
  OBVIOUS
<1>3. row \in ListRow /\ row.merchant = m /\ row.by = by
  BY <1>2 DEF Row, ListRow
<1>4. /\ rows' \in Seq(ListRow) /\ Len(rows') = Len(rows) + 1
      /\ \A n \in 1..Len(rows) : rows'[n] = rows[n]
      /\ rows'[Len(rows) + 1] = row
  BY <1>1, <1>2, <1>3, AppendProperties
<1> QED BY <1>1, <1>3, <1>4 DEF RowsTyped, RowsGrow

(* No payment is made twice for one form.                                   *)
LEMMA OnceMore ==
  ASSUME ListsInv, NEW m \in Merchants, NEW by \in 0..Elsewhere, Len(rows) < MaxRows,
         rows' = Append(rows, Row(m, by)), UNCHANGED list,
         list.once /\ by \in 1..MaxForms =>
           ~ \E n \in 1..Len(rows) : rows[n].merchant = m /\ rows[n].by = by
  PROVE  PaymentsMadeOnce'
<1>1. /\ RowsTyped' /\ RowsGrow /\ Len(rows') = Len(rows) + 1
      /\ rows'[Len(rows) + 1].merchant = m /\ rows'[Len(rows) + 1].by = by
  BY RowAdded
<1>2. Len(rows) \in Nat
  BY DEF ListsInv, RowsTyped
<1>3. \A n \in 1..Len(rows') : n \in 1..Len(rows) \/ n = Len(rows) + 1
  BY <1>1, <1>2
<1>4. \A n \in 1..Len(rows) : rows'[n].merchant = rows[n].merchant /\ rows'[n].by = rows[n].by
  BY <1>1 DEF RowsGrow
<1>5. SUFFICES ASSUME list.once, NEW n \in 1..Len(rows'), NEW k \in 1..Len(rows'), n # k,
                      rows'[n].merchant = rows'[k].merchant, rows'[n].by \in 1..MaxForms,
                      rows'[n].by = rows'[k].by
               PROVE  FALSE
  BY DEF PaymentsMadeOnce
<1>6. CASE n \in 1..Len(rows) /\ k \in 1..Len(rows)
  BY <1>4, <1>5, <1>6 DEF ListsInv, PaymentsMadeOnce
<1>7. CASE n = Len(rows) + 1 \/ k = Len(rows) + 1
  BY <1>1, <1>3, <1>4, <1>5, <1>7
<1> QED BY <1>3, <1>6, <1>7

(* A row is deleted or decided on.                                          *)
LEMMA RowChanged ==
  ASSUME ListsInv, UNCHANGED list, NEW k \in 1..Len(rows), NEW gone \in BOOLEAN, NEW done \in BOOLEAN,
         rows' = [rows EXCEPT ![k].gone = @ \/ gone, ![k].done = @ \/ done]
  PROVE  RowsTyped' /\ RowsGrow /\ PaymentsMadeOnce'
<1>1. rows \in Seq(ListRow) /\ Len(rows) \in Nat
  BY DEF ListsInv, RowsTyped
<1>2. PICK old \in ListRow : old = rows[k]
  BY <1>1
<1>3. PICK new : new = [old EXCEPT !.gone = @ \/ gone, !.done = @ \/ done]
  OBVIOUS
<1>4. new \in ListRow /\ new.merchant = old.merchant /\ new.by = old.by /\ (old.gone => new.gone)
  BY <1>2, <1>3 DEF ListRow
<1>5. rows' = [rows EXCEPT ![k] = new]
  BY <1>2, <1>3
<1>6. /\ rows' \in Seq(ListRow) /\ Len(rows') = Len(rows)
      /\ \A n \in 1..Len(rows) : rows'[n] = IF n = k THEN new ELSE rows[n]
  <2>1. PICK changed : changed = [rows EXCEPT ![k] = new]
    OBVIOUS
  <2>2. DOMAIN changed = DOMAIN rows /\ \A n \in DOMAIN rows : changed[n] = IF n = k THEN new ELSE rows[n]
    BY <2>1
  <2>3. changed \in Seq(ListRow) /\ Len(changed) = Len(rows)
    BY <1>1, <1>4, <2>1
  <2>4. rows' = changed
    BY <1>5, <2>1
  <2>5. \A n \in 1..Len(rows) : changed[n] = IF n = k THEN new ELSE rows[n]
    BY <1>1, <2>2
  <2> QED BY <2>3, <2>4, <2>5
<1>7. RowsTyped' /\ RowsGrow
  <2>1. RowsTyped'
    BY <1>6 DEF RowsTyped, ListsInv
  <2>2. ASSUME NEW n \in 1..Len(rows)
        PROVE  rows'[n].merchant = rows[n].merchant /\ rows'[n].by = rows[n].by /\ (rows[n].gone => rows'[n].gone)
    <3>1. CASE n = k
      BY <1>2, <1>4, <1>6, <3>1
    <3>2. CASE n # k
      BY <1>6, <3>2
    <3> QED BY <3>1, <3>2
  <2> QED BY <1>1, <1>6, <2>1, <2>2 DEF RowsGrow
<1>8. \A n \in 1..Len(rows') : n \in 1..Len(rows) /\ rows'[n].merchant = rows[n].merchant /\ rows'[n].by = rows[n].by
  BY <1>6, <1>7 DEF RowsGrow
<1>9. PaymentsMadeOnce'
  BY <1>8 DEF ListsInv, PaymentsMadeOnce
<1> QED BY <1>7, <1>9

(* The server's rows are what they were.                                    *)
LEMMA KeepsLists ==
  ASSUME ListsInv, UNCHANGED <<rows, list>>, ScreenTyped', SlotsFit', OneFetch', PagesFit(data)'
  PROVE  ListsInv'
BY MadeOnceStays DEF ListsInv

(* And so are the cached pages.                                             *)
LEMMA KeepsRows ==
  ASSUME ListsInv, UNCHANGED <<rows, list, data>>, ScreenTyped', SlotsFit', OneFetch'
  PROVE  ListsInv'
BY MadeOnceStays, DataStays, KeepsLists

(* What a request is about is there as before.                              *)
LEMMA RequestFitsSame ==
  ASSUME UNCHANGED rows, NEW r, QueryFits(r), ChangeFits(r)
  PROVE  QueryFits(r)' /\ ChangeFits(r)'
BY PagesFitSame DEF QueryFits, ChangeFits

(* Only one slot changes, and it keeps its kind or is freed.                *)
LEMMA OneSlotProceeds ==
  ASSUME ListsInv, UNCHANGED rows, NEW i \in Slots, NEW q, GoesOn(i, q),
         q # Free => QueryFits(q) /\ ChangeFits(q), q.kind = "fetch" => request[i].kind = "fetch"
  PROVE  /\ SlotsFit' /\ OneFetch' /\ request'[i] = q /\ DOMAIN request' = Slots
         /\ \A j \in Slots \ {i} : request'[j] = request[j]
<1>1. q # Free => QueryFits(q)' /\ ChangeFits(q)'
  BY RequestFitsSame
<1>2. RowsTyped /\ RowsTyped' /\ SlotsFit /\ OneFetch
  BY DEF ListsInv, RowsTyped
<1> QED BY <1>1, <1>2, SlotsProceed

(* One request ends.                                                        *)
LEMMA OneSlotEnds ==
  ASSUME ListsInv, UNCHANGED rows, NEW i \in Slots, Ends(i)
  PROVE  /\ SlotsFit' /\ OneFetch' /\ request'[i] = Free /\ DOMAIN request' = Slots
         /\ \A j \in Slots \ {i} : request'[j] = request[j]
<1>1. PICK q : q = Free
  OBVIOUS
<1>2. GoesOn(i, q) /\ q.kind # "fetch"
  BY <1>1, FreeIsNoFetch DEF Ends, GoesOn
<1>3. /\ SlotsFit' /\ OneFetch' /\ request'[i] = q /\ DOMAIN request' = Slots
      /\ \A j \in Slots \ {i} : request'[j] = request[j]
  BY <1>1, <1>2, OneSlotProceeds
<1> QED BY <1>1, <1>3

(* The counter of faults, and the history.                                  *)
LEMMA FaultsTyped == ASSUME ListsInv PROVE faults \in Nat /\ faults + 1 \in Nat /\ shared \in {"no", "same", "other"}
BY DEF ListsInv, ScreenTyped

(* What the server does.                                                    *)
LEMMA ServePageKeeps ==
  ASSUME ListsInv, NEW i \in Slots, ServePage(i)
  PROVE  ListsInv'
<1>1. PICK q : GoesOn(i, q) /\ QueryFits(q) /\ ChangeFits(q) /\ q.kind = "fetch" /\ request[i].kind = "fetch"
  BY PageServed
<1>2. UNCHANGED <<rows, list, merchantId, screen, data, shared, bounds>>
  BY DEF ServePage
<1>3. SlotsFit' /\ OneFetch'
  BY <1>1, <1>2, OneSlotProceeds
<1>4. ScreenTyped'
  BY <1>2, FaultsTyped, MadeOnceStays, ScreenStays DEF bounds
<1> QED BY <1>2, <1>3, <1>4, KeepsRows

(* A row is added.                                                          *)
LEMMA ServeAddKeeps ==
  ASSUME ListsInv, NEW i \in Slots, ServeAdd(i)
  PROVE  ListsInv'
<1>1. PICK r : r = request[i]
  OBVIOUS
<1>2. r.kind = "add" /\ r # Free /\ UNCHANGED <<list, merchantId, screen, data, shared, bounds>>
  BY <1>1, FreeIsNoFetch DEF ServeAdd
<1>3. QueryFits(r) /\ ChangeFits(r) /\ r.merchant \in Merchants
  BY <1>1, <1>2, SlotKnown DEF ListsInv
<1>4. r.row \in 1..MaxForms /\ r.row \in 0..Elsewhere
  BY <1>2, <1>3, ListingsAssumption DEF ChangeFits, Elsewhere
<1>5. CASE ~Known(r) /\ Len(rows) < MaxRows
  <2>1. PICK q : q = [r EXCEPT !.at = "page"]
    OBVIOUS
  <2>2. rows' = Append(rows, Row(r.merchant, r.row)) /\ GoesOn(i, q)
    BY <1>1, <1>5, <2>1 DEF ServeAdd
  <2>3. PICK m \in Merchants : m = r.merchant
    BY <1>3
  <2>4. PICK by \in 0..Elsewhere : by = r.row
    BY <1>4
  <2>5. RowsTyped' /\ RowsGrow
    BY <1>5, <2>2, <2>3, <2>4, RowAdded
  <2>6. list.once /\ by \in 1..MaxForms => ~ \E n \in 1..Len(rows) : rows[n].merchant = m /\ rows[n].by = by
    BY <1>5, <2>3, <2>4 DEF Known
  <2>7. PaymentsMadeOnce'
    BY <1>2, <1>5, <2>2, <2>3, <2>4, <2>6, OnceMore
  <2>8. QueryFits(q) /\ ChangeFits(q) /\ q.kind # "fetch"
    BY <1>2, <1>3, <2>1, SlotMoves DEF ListStages
  <2>9. RowsTyped /\ SlotsFit /\ OneFetch
    BY DEF ListsInv
  <2>10. SlotsFit' /\ OneFetch'
    BY <2>2, <2>5, <2>8, <2>9, SlotsGrow, SlotsProceed
  <2>11. ScreenTyped' /\ PagesFit(data)'
    BY <1>2, <2>5, FaultsTyped, ScreenStays, DataStays DEF bounds
  <2> QED BY <2>5, <2>7, <2>10, <2>11 DEF ListsInv
<1>6. CASE ~(~Known(r) /\ Len(rows) < MaxRows)
  <2>1. PICK q : q = [r EXCEPT !.at = "failed"]
    OBVIOUS
  <2>2. UNCHANGED rows /\ GoesOn(i, q)
    BY <1>1, <1>6, <2>1 DEF ServeAdd
  <2>3. QueryFits(q) /\ ChangeFits(q) /\ q.kind # "fetch"
    BY <1>2, <1>3, <2>1, SlotMoves DEF ListStages
  <2>4. SlotsFit' /\ OneFetch'
    BY <2>2, <2>3, OneSlotProceeds
  <2>5. ScreenTyped'
    BY <1>2, <2>2, FaultsTyped, MadeOnceStays, ScreenStays DEF bounds
  <2> QED BY <1>2, <2>2, <2>4, <2>5, KeepsRows
<1> QED BY <1>5, <1>6

(* A row is deleted or decided on.                                          *)
LEMMA ServeChangeKeeps ==
  ASSUME ListsInv, NEW i \in Slots, ServeChange(i)
  PROVE  ListsInv'
<1>1. PICK r : r = request[i]
  OBVIOUS
<1>2. r.kind \in {"delete", "decide"} /\ r # Free /\ UNCHANGED <<list, merchantId, screen, data, shared, bounds>>
  BY <1>1, FreeIsNoFetch DEF ServeChange
<1>3. QueryFits(r) /\ ChangeFits(r) /\ r.row \in 1..Len(rows)
  BY <1>1, <1>2, SlotKnown DEF ListsInv, ChangeFits
<1>4. PICK ok \in BOOLEAN : ok <=> /\ rows[r.row].merchant = r.merchant /\ ~rows[r.row].gone
                                   /\ r.kind = "decide" => ~rows[r.row].done
  OBVIOUS
<1>5. PICK at \in ListStages : at = IF ok THEN "page" ELSE "failed"
  BY DEF ListStages
<1>6. PICK q : q = [r EXCEPT !.at = at]
  OBVIOUS
<1>7. QueryFits(q) /\ ChangeFits(q) /\ q.kind # "fetch"
  BY <1>2, <1>3, <1>6, SlotMoves
<1>8. CASE ok
  <2>1. PICK k \in 1..Len(rows) : k = r.row
    BY <1>3
  <2>2. PICK gone \in BOOLEAN : gone = (r.kind = "delete")
    OBVIOUS
  <2>3. PICK done \in BOOLEAN : done = (r.kind = "decide")
    OBVIOUS
  <2>4. rows' = [rows EXCEPT ![k].gone = @ \/ gone, ![k].done = @ \/ done] /\ GoesOn(i, q)
    BY <1>1, <1>4, <1>5, <1>6, <1>8, <2>1, <2>2, <2>3 DEF ServeChange
  <2>5. RowsTyped' /\ RowsGrow /\ PaymentsMadeOnce'
    BY <1>2, <2>4, RowChanged
  <2>6. RowsTyped /\ SlotsFit /\ OneFetch
    BY DEF ListsInv
  <2>7. SlotsFit' /\ OneFetch'
    BY <1>7, <2>4, <2>5, <2>6, SlotsGrow, SlotsProceed
  <2>8. ScreenTyped' /\ PagesFit(data)'
    BY <1>2, <2>5, FaultsTyped, ScreenStays, DataStays DEF bounds
  <2> QED BY <2>5, <2>7, <2>8 DEF ListsInv
<1>9. CASE ~ok
  <2>1. UNCHANGED rows /\ GoesOn(i, q)
    BY <1>1, <1>4, <1>5, <1>6, <1>9 DEF ServeChange
  <2>2. SlotsFit' /\ OneFetch'
    BY <1>7, <2>1, OneSlotProceeds
  <2>3. ScreenTyped'
    BY <1>2, <2>1, FaultsTyped, MadeOnceStays, ScreenStays DEF bounds
  <2> QED BY <1>2, <2>1, <2>2, <2>3, KeepsRows
<1> QED BY <1>8, <1>9

(* Somebody else adds a row.                                                *)
LEMMA AddedElsewhereKeeps ==
  ASSUME ListsInv, NEW m \in Merchants, AddedElsewhere(m)
  PROVE  ListsInv'
<1>1. PICK by \in 0..Elsewhere : by = Elsewhere /\ by \notin 1..MaxForms
  BY ListingsAssumption DEF Elsewhere
<1>2. /\ Len(rows) < MaxRows /\ rows' = Append(rows, Row(m, by))
      /\ UNCHANGED <<list, merchantId, screen, data, shared, request, bounds>>
  BY <1>1 DEF AddedElsewhere
<1>3. RowsTyped' /\ RowsGrow /\ PaymentsMadeOnce'
  BY <1>1, <1>2, RowAdded, OnceMore
<1>4. RowsTyped /\ SlotsFit /\ OneFetch
  BY DEF ListsInv
<1>5. SlotsFit'
  <2> SUFFICES ASSUME NEW j \in Slots, request'[j] # Free PROVE QueryFits(request[j])' /\ ChangeFits(request[j])'
    BY <1>2, <1>4 DEF SlotsFit
  <2>1. PICK x : x = request'[j] /\ x = request[j]
    BY <1>2
  <2>2. QueryFits(x)' /\ ChangeFits(x)'
    BY <1>3, <1>4, <2>1, SlotsGrow DEF SlotsFit
  <2> QED BY <2>1, <2>2
<1>6. OneFetch'
  BY <1>2, <1>4 DEF OneFetch, Fetches
<1>7. ScreenTyped' /\ PagesFit(data)'
  BY <1>2, <1>3, FaultsTyped, ScreenStays, DataStays DEF bounds
<1> QED BY <1>3, <1>5, <1>6, <1>7 DEF ListsInv

(* A request fails.                                                         *)
LEMMA FailureKeeps ==
  ASSUME ListsInv, NEW i \in Slots, Fails(i) \/ AnswerIsLost(i)
  PROVE  ListsInv'
<1>1. PICK r : r = request[i]
  OBVIOUS
<1>2. PICK q : q = [r EXCEPT !.at = "failed"]
  OBVIOUS
<1>3. /\ r # Free /\ GoesOn(i, q) /\ faults' = faults + 1
      /\ UNCHANGED <<rows, list, merchantId, screen, data, shared, switches>>
  BY <1>1, <1>2, FreeIsNoFetch DEF Fails, AnswerIsLost
<1>4. QueryFits(r) /\ ChangeFits(r) /\ r.kind \in {"fetch", "add", "reset", "delete", "decide"}
  BY <1>1, <1>3, SlotKnown DEF ListsInv
<1>5. QueryFits(q) /\ ChangeFits(q) /\ q.kind = r.kind
  BY <1>2, <1>4, SlotMoves, FetchFails DEF ListStages
<1>6. SlotsFit' /\ OneFetch'
  BY <1>1, <1>3, <1>5, OneSlotProceeds
<1>7. ScreenTyped'
  BY <1>3, FaultsTyped, MadeOnceStays, ScreenStays
<1> QED BY <1>3, <1>6, <1>7, KeepsRows

(* What the query and the handlers do with the answers.                     *)
LEMMA PageFetchedKeeps ==
  ASSUME ListsInv, NEW i \in Slots, PageFetched(i)
  PROVE  ListsInv'
<1>1. PICK r : r = request[i]
  OBVIOUS
<1>2. /\ r # Free /\ r.kind = "fetch" /\ data' = r.pages /\ Ends(i)
      /\ UNCHANGED <<rows, list, merchantId, screen, shared, bounds>>
  BY <1>1, FreeIsNoFetch DEF PageFetched
<1>3. PICK pages : pages = r.pages
  OBVIOUS
<1>4. PagesFit(pages)
  BY <1>1, <1>2, <1>3, SlotKnown DEF ListsInv, QueryFits
<1>5. PagesFit(pages)'
  BY <1>2, <1>4, PagesFitSame
<1>6. PagesFit(data)'
  BY <1>2, <1>3, <1>5
<1>7. SlotsFit' /\ OneFetch'
  BY <1>2, OneSlotEnds
<1>8. ScreenTyped'
  BY <1>2, FaultsTyped, MadeOnceStays, ScreenStays DEF bounds
<1> QED BY <1>2, <1>6, <1>7, <1>8, KeepsLists

(* The old pages stay.                                                      *)
LEMMA FetchFailedKeeps ==
  ASSUME ListsInv, NEW i \in Slots, FetchFailed(i)
  PROVE  ListsInv'
<1>1. Ends(i) /\ UNCHANGED <<rows, list, merchantId, screen, data, shared, bounds>>
  BY DEF FetchFailed
<1>2. SlotsFit' /\ OneFetch'
  BY <1>1, OneSlotEnds
<1>3. ScreenTyped'
  BY <1>1, FaultsTyped, MadeOnceStays, ScreenStays DEF bounds
<1> QED BY <1>1, <1>2, <1>3, KeepsRows

(* The list is invalidated.                                                 *)
LEMMA AddSettlesKeeps ==
  ASSUME ListsInv, NEW i \in Slots, AddSettles(i)
  PROVE  ListsInv'
<1>1. PICK r : r = request[i]
  OBVIOUS
<1>2. r # Free /\ r.kind = "add" /\ UNCHANGED <<rows, list, merchantId, screen, data, bounds>>
  BY <1>1, FreeIsNoFetch DEF AddSettles
<1>3. QueryFits(r) /\ ChangeFits(r) /\ SlotsFit /\ merchantId \in Merchants
  BY <1>1, <1>2, SlotKnown DEF ListsInv, ScreenTyped
<1>4. SlotsFit' /\ OneFetch' /\ shared' \in {"no", "same", "other"}
  <2>1. CASE open
    <3>1. PICK q : q = [r EXCEPT !.kind = "reset"]
      OBVIOUS
    <3>2. PICK sent : sent = [request EXCEPT ![i] = q]
      OBVIOUS
    <3>3. invalidateQueries(sent, merchantId)
      BY <1>1, <2>1, <3>1, <3>2 DEF AddSettles
    <3>4. QueryFits(q) /\ ChangeFits(q) /\ q.kind # "fetch"
      BY <1>2, <1>3, <3>1 DEF QueryFits, ChangeFits, Changes
    <3>5. /\ DOMAIN sent = Slots
          /\ \A j \in Slots : sent[j] = request[j] \/ (sent[j].kind # "fetch" /\ request[j].kind # "fetch")
          /\ \A j \in Slots : sent[j] # Free => QueryFits(sent[j]) /\ ChangeFits(sent[j])
      BY <1>1, <1>2, <1>3, <3>2, <3>4, SentKeeps
    <3> QED BY <1>2, <1>3, <3>3, <3>5, RefetchFits
  <2>2. CASE ~open
    <3>1. Ends(i) /\ UNCHANGED shared
      BY <2>2 DEF AddSettles
    <3> QED BY <1>2, <3>1, OneSlotEnds, FaultsTyped
  <2> QED BY <2>1, <2>2
<1>5. ScreenTyped'
  BY <1>2, <1>4, FaultsTyped, MadeOnceStays, ScreenStays DEF bounds
<1> QED BY <1>2, <1>4, <1>5, KeepsRows

(* The form gets its next id.                                               *)
LEMMA FormResetKeeps ==
  ASSUME ListsInv, NEW i \in Slots, FormReset(i)
  PROVE  ListsInv'
<1>1. PICK r : r = request[i]
  OBVIOUS
<1>2. /\ r # Free /\ r.kind = "reset" /\ Ends(i)
      /\ UNCHANGED <<rows, list, merchantId, open, mounting, card, data, shared, bounds>>
      /\ formId' = IF Filled(i) THEN formId + 1 ELSE formId
      /\ submitting' \in BOOLEAN
  BY <1>1, FreeIsNoFetch DEF FormReset
<1>3. r.row \in 1..MaxForms
  BY <1>1, <1>2, SlotKnown DEF ListsInv, ChangeFits
<1>4. formId' \in 1..Elsewhere
  BY <1>1, <1>2, <1>3, ListingsAssumption DEF Filled, Elsewhere, ListsInv, ScreenTyped
<1>5. ScreenTyped'
  BY <1>2, <1>4 DEF ScreenTyped, ListsInv, bounds
<1>6. SlotsFit' /\ OneFetch'
  BY <1>2, OneSlotEnds
<1> QED BY <1>2, <1>5, <1>6, KeepsRows

(* The form keeps its id.                                                   *)
LEMMA AddFailedKeeps ==
  ASSUME ListsInv, NEW i \in Slots, AddFailed(i)
  PROVE  ListsInv'
<1>1. /\ Ends(i) /\ submitting' \in BOOLEAN
      /\ UNCHANGED <<rows, list, merchantId, open, mounting, formId, card, data, shared, bounds>>
  BY DEF AddFailed
<1>2. ScreenTyped'
  BY <1>1 DEF ScreenTyped, ListsInv, bounds
<1>3. SlotsFit' /\ OneFetch'
  BY <1>1, OneSlotEnds
<1> QED BY <1>1, <1>2, <1>3, KeepsRows

(* A request ends, and a fetch starts that takes its place or another.      *)
LEMMA SettlesFitting ==
  ASSUME ListsInv, UNCHANGED rows, NEW i \in Slots, request[i].kind # "fetch",
         \/ refetch(Without({i}), merchantId)
         \/ invalidateQueries(Without({i}), merchantId)
         \/ Ends(i) /\ UNCHANGED shared
  PROVE  SlotsFit' /\ OneFetch' /\ shared' \in {"no", "same", "other"}
<1>1. SlotsFit /\ merchantId \in Merchants
  BY DEF ListsInv, ScreenTyped
<1>2. CASE refetch(Without({i}), merchantId) \/ invalidateQueries(Without({i}), merchantId)
  <2>1. PICK sent : sent = Without({i})
    OBVIOUS
  <2>2. /\ DOMAIN sent = Slots
        /\ \A j \in Slots : sent[j] = request[j] \/ (sent[j].kind # "fetch" /\ request[j].kind # "fetch")
        /\ \A j \in Slots : sent[j] # Free => QueryFits(sent[j]) /\ ChangeFits(sent[j])
    BY <1>1, <2>1, SentKeeps
  <2>3. refetch(sent, merchantId) \/ invalidateQueries(sent, merchantId)
    BY <1>2, <2>1
  <2> QED BY <1>1, <2>2, <2>3, RefetchFits
<1>3. CASE Ends(i) /\ UNCHANGED shared
  BY <1>3, OneSlotEnds, FaultsTyped
<1> QED BY <1>2, <1>3

(* The list is invalidated.                                                 *)
LEMMA DeleteSettlesKeeps ==
  ASSUME ListsInv, NEW i \in Slots, DeleteSettles(i)
  PROVE  ListsInv'
<1>1. request[i].kind # "fetch" /\ UNCHANGED <<rows, list, merchantId, screen, data, bounds>>
  BY DEF DeleteSettles
<1>2. \/ invalidateQueries(Without({i}), merchantId)
      \/ Ends(i) /\ UNCHANGED shared
  BY DEF DeleteSettles
<1>3. SlotsFit' /\ OneFetch' /\ shared' \in {"no", "same", "other"}
  BY <1>1, <1>2, SettlesFitting
<1>4. ScreenTyped'
  BY <1>1, <1>3, FaultsTyped, MadeOnceStays, ScreenStays DEF bounds
<1> QED BY <1>1, <1>3, <1>4, KeepsRows

(* The card closes, and everything is loaded anew.                          *)
LEMMA ResolvedKeeps ==
  ASSUME ListsInv, NEW i \in Slots, Resolved(i)
  PROVE  ListsInv'
<1>1. /\ request[i].kind # "fetch"
      /\ UNCHANGED <<rows, list, merchantId, open, mounting, formId, submitting, data, bounds>>
      /\ card' \in {0, card}
  BY DEF Resolved
<1>2. \/ refetch(Without({i}), merchantId)
      \/ Ends(i) /\ UNCHANGED shared
  BY DEF Resolved
<1>3. SlotsFit' /\ OneFetch' /\ shared' \in {"no", "same", "other"}
  BY <1>1, <1>2, SettlesFitting
<1>4. ScreenTyped'
  BY <1>1, <1>3 DEF ScreenTyped, ListsInv, bounds, RowsTyped
<1> QED BY <1>1, <1>3, <1>4, KeepsRows

(* What the merchant does.                                                  *)
LEMMA RequestIsSent ==
  ASSUME ListsInv
  PROVE  /\ SlotsFit /\ DOMAIN request = Slots /\ merchantId \in Merchants
         /\ \A j \in Slots : request[j] = request[j] \/ (request[j].kind # "fetch" /\ request[j].kind # "fetch")
         /\ \A j \in Slots : request[j] # Free => QueryFits(request[j]) /\ ChangeFits(request[j])
BY DEF ListsInv, SlotsFit, ScreenTyped

(* No request changes.                                                      *)
LEMMA SameSlots ==
  ASSUME ListsInv, UNCHANGED <<rows, request>>
  PROVE  SlotsFit' /\ OneFetch'
<1>1. OneFetch'
  BY DEF ListsInv, OneFetch, Fetches
<1>2. SlotsFit'
  <2> SUFFICES ASSUME NEW j \in Slots, request'[j] # Free PROVE QueryFits(request[j])' /\ ChangeFits(request[j])'
    BY DEF SlotsFit, ListsInv
  <2>1. PICK x : x = request'[j] /\ x = request[j]
    OBVIOUS
  <2>2. QueryFits(x)' /\ ChangeFits(x)'
    BY <2>1, RequestFitsSame, RequestIsSent
  <2> QED BY <2>1, <2>2
<1> QED BY <1>1, <1>2

(* Another merchant is chosen.                                              *)
LEMMA SwitchMerchantKeeps ==
  ASSUME ListsInv, NEW m \in Merchants, SwitchMerchant(m)
  PROVE  ListsInv'
<1>1. merchantId' = m /\ UNCHANGED <<rows, list, screen, data, faults>>
  BY DEF SwitchMerchant
<1>2. CASE open
  <2>1. refetch(request, m)
    BY <1>2 DEF SwitchMerchant
  <2>2. SlotsFit' /\ OneFetch' /\ shared' \in {"no", "same", "other"}
    BY <1>1, <2>1, RequestIsSent, RefetchFits
  <2>3. ScreenTyped'
    BY <1>1, <2>2 DEF ListsInv, ScreenTyped, screen
  <2> QED BY <1>1, <2>2, <2>3, KeepsRows
<1>3. CASE ~open
  <2>1. UNCHANGED <<request, shared>>
    BY <1>3 DEF SwitchMerchant
  <2>2. SlotsFit' /\ OneFetch'
    BY <1>1, <2>1, SameSlots
  <2>3. ScreenTyped'
    BY <1>1, <2>1 DEF ListsInv, ScreenTyped, screen
  <2> QED BY <1>1, <2>2, <2>3, KeepsRows
<1> QED BY <1>2, <1>3

(* The page is left; the details of a row are opened and closed.            *)
LEMMA PageKeeps ==
  ASSUME ListsInv, LeavePage \/ CloseCard \/ \E n \in 1..MaxRows : OpenCard(n)
  PROVE  ListsInv'
<1>1. /\ UNCHANGED <<rows, list, merchantId, mounting, data, shared, request, faults>>
      /\ open' \in {open, FALSE} /\ submitting' \in {submitting, FALSE}
  BY DEF LeavePage, CloseCard, OpenCard, bounds
<1>2. formId' \in {formId} \/ (formId <= MaxForms /\ formId' = formId + 1)
  BY DEF LeavePage, CloseCard, OpenCard
<1>3. formId' \in 1..Elsewhere
  BY <1>2, ListingsAssumption DEF ListsInv, ScreenTyped, Elsewhere
<1>4. card' \in {card, 0} \cup Undecided
  BY DEF LeavePage, CloseCard, OpenCard
<1>5. Undecided \subseteq 1..Len(rows)
  BY DEF Undecided, Shown, ListsInv, PagesFit, Linked, OfMerchant
<1>6. card' \in 0..Len(rows')
  BY <1>1, <1>4, <1>5 DEF ListsInv, ScreenTyped, RowsTyped
<1>7. ScreenTyped'
  BY <1>1, <1>3, <1>6 DEF ListsInv, ScreenTyped
<1> QED BY <1>1, <1>7, SameSlots, KeepsRows

(* The page is opened.                                                      *)
LEMMA EnterPageKeeps ==
  ASSUME ListsInv, EnterPage
  PROVE  ListsInv'
<1>1. /\ UNCHANGED <<rows, list, merchantId, data, formId, submitting, card, bounds>>
      /\ open' = TRUE /\ mounting' \in BOOLEAN /\ refetch(request, merchantId)
  BY DEF EnterPage
<1>2. SlotsFit' /\ OneFetch' /\ shared' \in {"no", "same", "other"}
  BY <1>1, RequestIsSent, RefetchFits
<1>3. ScreenTyped'
  BY <1>1, <1>2 DEF ListsInv, ScreenTyped, bounds
<1> QED BY <1>1, <1>2, <1>3, KeepsRows

(* The cached pages are removed.                                            *)
LEMMA MountHandlerKeeps ==
  ASSUME ListsInv, MountHandler
  PROVE  ListsInv'
<1>1. /\ UNCHANGED <<rows, list, merchantId, open, formId, submitting, card, bounds>>
      /\ mounting' = FALSE /\ data' = <<>> /\ shared' = "no"
  BY DEF MountHandler
<1>2. PICK q : q = Fetch(merchantId, <<>>, 1)
  OBVIOUS
<1>3. PICK cleared : cleared = Without(Fetches)
  OBVIOUS
<1>4. Sends(cleared, q)
  BY <1>2, <1>3 DEF MountHandler
<1>5. QueryFits(q) /\ ChangeFits(q) /\ q.kind = "fetch"
  BY <1>2, RequestIsSent, PagesFitIfNone, FetchFits
<1>6. PICK f \in Slots : request' = [cleared EXCEPT ![f] = q]
  BY <1>4 DEF Sends
<1>7. /\ DOMAIN request' = Slots /\ request'[f] = q
      /\ \A j \in Slots \ {f} : request'[j] = IF j \in Fetches THEN Free ELSE request[j]
  BY <1>3, <1>6 DEF Without
<1>8. SlotsFit'
  <2> SUFFICES ASSUME NEW j \in Slots, request'[j] # Free PROVE QueryFits(request[j])' /\ ChangeFits(request[j])'
    BY <1>7 DEF SlotsFit
  <2>1. PICK x : x = request'[j]
    OBVIOUS
  <2>2. QueryFits(x) /\ ChangeFits(x)
    BY <1>5, <1>7, <2>1, RequestIsSent
  <2>3. QueryFits(x)' /\ ChangeFits(x)'
    BY <1>1, <2>2, RequestFitsSame
  <2> QED BY <2>1, <2>3
<1>9. Fetches' \subseteq {f}
  <2>1. ASSUME NEW j \in Slots, j # f PROVE request'[j].kind # "fetch"
    <3>1. CASE j \in Fetches
      BY <1>7, <2>1, <3>1, FreeIsNoFetch
    <3>2. CASE j \notin Fetches
      BY <1>7, <2>1, <3>2 DEF Fetches
    <3> QED BY <3>1, <3>2
  <2> QED BY <2>1 DEF Fetches
<1>10. OneFetch'
  BY <1>9 DEF OneFetch
<1>11. ScreenTyped'
  BY <1>1 DEF ListsInv, ScreenTyped, bounds
<1>12. PagesFit(data)'
  <2>1. PICK none : none = <<>>
    OBVIOUS
  <2>2. PagesFit(none)'
    BY <1>1, <2>1, PagesFitIfNone, PagesFitSame
  <2> QED BY <1>1, <2>1, <2>2
<1> QED BY <1>1, <1>8, <1>10, <1>11, <1>12, KeepsLists

(* "Load more".                                                             *)
LEMMA FetchNextPageKeeps ==
  ASSUME ListsInv, fetchNextPage
  PROVE  ListsInv'
<1>1. /\ UNCHANGED <<rows, list, merchantId, screen, data, bounds>>
      /\ StartFetch(request, merchantId, data, 1) /\ Cursor(data) # 0
  BY DEF fetchNextPage
<1>2. PICK pages : pages = data
  OBVIOUS
<1>3. StartFetch(request, merchantId, pages, 1) /\ Cursor(pages) # 0 /\ PagesFit(pages) /\ 1 \in Nat
  BY <1>1, <1>2 DEF ListsInv
<1>4. SlotsFit' /\ OneFetch' /\ shared' \in {"no", "same", "other"}
  BY <1>1, <1>3, RequestIsSent, StartsFitting
<1>5. ScreenTyped'
  BY <1>1, <1>4, FaultsTyped, MadeOnceStays, ScreenStays DEF bounds
<1> QED BY <1>1, <1>4, <1>5, KeepsRows

(* A request for a change is sent.                                          *)
LEMMA ChangeSent ==
  ASSUME ListsInv, UNCHANGED rows, NEW kind \in {"add", "delete", "decide"}, NEW row \in Nat,
         IF kind = "add" THEN row \in 1..MaxForms ELSE row \in 1..Len(rows),
         Send(Mutation(kind, merchantId, row))
  PROVE  SlotsFit' /\ OneFetch'
<1>1. PICK q : q = Mutation(kind, merchantId, row)
  OBVIOUS
<1>2. q.kind = kind /\ q.at = "server" /\ q.row = row /\ q \in Changes
  BY <1>1 DEF Mutation, Changes, ListStages, ListsInv, ScreenTyped
<1>3. QueryFits(q) /\ ChangeFits(q) /\ q.kind # "fetch"
  BY <1>2 DEF QueryFits, ChangeFits
<1>4. PICK i \in Slots : request' = [request EXCEPT ![i] = q]
  BY <1>1, RequestIsSent, SlotSent
<1>5. GoesOn(i, q)
  BY <1>4 DEF GoesOn
<1> QED BY <1>3, <1>5, OneSlotProceeds

(* A row is added, deleted or decided on.                                   *)
LEMMA SubmitKeeps ==
  ASSUME ListsInv, uploadCreated \/ handleResolve \/ \E n \in 1..MaxRows : deleteSelected(n)
  PROVE  ListsInv'
<1>1. CASE uploadCreated
  <2>1. formId \in 1..MaxForms /\ formId \in Nat
    BY <1>1 DEF uploadCreated, ListsInv, ScreenTyped, Elsewhere
  <2>2. SlotsFit' /\ OneFetch'
    BY <1>1, <2>1, ChangeSent DEF uploadCreated
  <2>3. ScreenTyped'
    BY <1>1 DEF uploadCreated, ListsInv, ScreenTyped, bounds
  <2> QED BY <1>1, <2>2, <2>3, KeepsRows DEF uploadCreated
<1>2. CASE handleResolve
  <2>1. card \in 1..Len(rows) /\ card \in Nat
    BY <1>2 DEF handleResolve, ListsInv, ScreenTyped, RowsTyped
  <2>2. SlotsFit' /\ OneFetch'
    BY <1>2, <2>1, ChangeSent DEF handleResolve
  <2>3. ScreenTyped'
    BY <1>2, FaultsTyped, MadeOnceStays, ScreenStays DEF handleResolve, bounds
  <2> QED BY <1>2, <2>2, <2>3, KeepsRows DEF handleResolve
<1>3. ASSUME NEW n \in 1..MaxRows, deleteSelected(n) PROVE ListsInv'
  <2>1. Rows \subseteq 1..Len(rows)
    BY DEF Rows, Shown, ListsInv, PagesFit, Linked, OfMerchant
  <2>2. n \in 1..Len(rows) /\ n \in Nat
    BY <1>3, <2>1 DEF deleteSelected, ListsInv, RowsTyped
  <2>3. SlotsFit' /\ OneFetch'
    BY <1>3, <2>2, ChangeSent DEF deleteSelected
  <2>4. ScreenTyped'
    BY <1>3, FaultsTyped, MadeOnceStays, ScreenStays DEF deleteSelected, bounds
  <2> QED BY <1>3, <2>3, <2>4, KeepsRows DEF deleteSelected
<1> QED BY <1>1, <1>2, <1>3

(* Nothing happens.                                                         *)
LEMMA StutterKeepsLists == ASSUME ListsInv, UNCHANGED listingsVars PROVE ListsInv'
<1>1. UNCHANGED <<rows, list, data, request, merchantId, screen, shared, bounds>>
  BY DEF listingsVars, screen, bounds
<1>2. ScreenTyped'
  BY <1>1, FaultsTyped, MadeOnceStays, ScreenStays DEF bounds
<1> QED BY <1>1, <1>2, SameSlots, KeepsRows

(* The page as it is opened.                                                *)
LEMMA ListsStart == ASSUME ListingsInit PROVE ListsInv
<1>1. OldRows \in Nat /\ MaxRows \in Nat /\ OldRows <= MaxRows /\ MaxForms \in Nat \ {0} /\ 1 \in Slots
  BY ListingsAssumption DEF Slots
<1>2. \A n \in 1..OldRows : rows[n] \in {Row(m, Before) : m \in Merchants}
  BY DEF ListingsInit
<1>3. \A m \in Merchants : Row(m, Before) \in ListRow /\ Row(m, Before).by = 0
  BY <1>1 DEF Row, Before, ListRow, Elsewhere
<1>4. rows \in [1..OldRows -> ListRow]
  BY <1>2, <1>3 DEF ListingsInit
<1>5. RowsTyped
  <2>1. rows \in Seq(ListRow) /\ Len(rows) = OldRows
    BY <1>1, <1>4
  <2> QED BY <1>1, <2>1 DEF RowsTyped
<1>6. PaymentsMadeOnce
  <2>1. Len(rows) = OldRows
    BY <1>1, <1>4
  <2>2. \A n \in 1..Len(rows) : rows[n].by = 0
    BY <1>2, <1>3, <2>1
  <2> QED BY <2>2 DEF PaymentsMadeOnce
<1>7. data = <<>> /\ merchantId \in Merchants
  BY DEF ListingsInit
<1>8. PagesFit(data)
  BY <1>7, PagesFitIfNone
<1>9. PICK q : q = Fetch(merchantId, <<>>, 1)
  OBVIOUS
<1>10. QueryFits(q) /\ ChangeFits(q)
  BY <1>7, <1>9, PagesFitIfNone, FetchFits
<1>11. request = [i \in Slots |-> IF i = 1 THEN q ELSE Free]
  BY <1>9 DEF ListingsInit
<1>12. SlotsFit
  BY <1>10, <1>11 DEF SlotsFit
<1>13. OneFetch
  BY <1>11, FreeIsNoFetch DEF OneFetch, Fetches
<1>14. list.remounts \in BOOLEAN
  <2>1. /\ PaymentsPage.remounts \in BOOLEAN /\ PaymentLinksPage.remounts \in BOOLEAN
        /\ CustomersPage.remounts \in BOOLEAN /\ ApiKeysSection.remounts \in BOOLEAN
    BY DEF PaymentsPage, PaymentLinksPage, CustomersPage, ApiKeysSection
  <2>2. list \in {PaymentsPage, PaymentLinksPage, CustomersPage, ApiKeysSection}
    BY ListsAssumption DEF ListingsInit
  <2> QED BY <2>1, <2>2
<1>15. ScreenTyped
  <2>1. mounting \in BOOLEAN /\ open \in BOOLEAN
    BY <1>14, Zenon DEF ListingsInit
  <2>2. 0 \in 0..Len(rows) /\ 1 \in 1..Elsewhere
    BY <1>1, <1>5 DEF RowsTyped, Elsewhere
  <2>3. /\ merchantId \in Merchants /\ formId = 1 /\ submitting = FALSE /\ card = 0 /\ shared = "no" /\ faults = 0
    BY DEF ListingsInit
  <2> QED BY <2>1, <2>2, <2>3 DEF ScreenTyped
<1> QED BY <1>5, <1>6, <1>8, <1>12, <1>13, <1>15 DEF ListsInv

(* Every step keeps the invariant.                                          *)
LEMMA StepKeepsLists == ASSUME ListsInv, ListingsNext PROVE ListsInv'
<1>1. CASE \E m \in Merchants : AddedElsewhere(m) \/ SwitchMerchant(m)
  BY <1>1, AddedElsewhereKeeps, SwitchMerchantKeeps
<1>2. ASSUME NEW i \in Slots,
             \/ ServePage(i) \/ ServeAdd(i) \/ ServeChange(i) \/ Fails(i) \/ AnswerIsLost(i)
             \/ PageFetched(i) \/ FetchFailed(i) \/ AddSettles(i) \/ FormReset(i) \/ AddFailed(i)
             \/ DeleteSettles(i) \/ Resolved(i)
      PROVE  ListsInv'
  <2>1. CASE ServePage(i) \/ ServeAdd(i) \/ ServeChange(i) \/ Fails(i) \/ AnswerIsLost(i)
    BY <2>1, ServePageKeeps, ServeAddKeeps, ServeChangeKeeps, FailureKeeps
  <2>2. CASE PageFetched(i) \/ FetchFailed(i) \/ AddSettles(i) \/ FormReset(i) \/ AddFailed(i)
    BY <2>2, PageFetchedKeeps, FetchFailedKeeps, AddSettlesKeeps, FormResetKeeps, AddFailedKeeps
  <2>3. CASE DeleteSettles(i) \/ Resolved(i)
    BY <2>3, DeleteSettlesKeeps, ResolvedKeeps
  <2> QED BY <1>2, <2>1, <2>2, <2>3
<1>3. CASE LeavePage \/ EnterPage \/ MountHandler \/ fetchNextPage \/ uploadCreated \/ CloseCard \/ handleResolve
  BY <1>3, PageKeeps, EnterPageKeeps, MountHandlerKeeps, FetchNextPageKeeps, SubmitKeeps
<1>4. CASE \E n \in 1..MaxRows : deleteSelected(n) \/ OpenCard(n)
  BY <1>4, PageKeeps, SubmitKeeps
<1> QED BY <1>1, <1>2, <1>3, <1>4 DEF ListingsNext

(* What every step of a list keeps: the pages in the cache, and those that a *)
(* fetch has so far, are one merchant's, fall and leave nothing out.        *)
THEOREM ListsInvHolds == ListingsSpec => []ListsInv
<1>1. ListsInv /\ [ListingsNext]_listingsVars => ListsInv'
  BY StepKeepsLists, StutterKeepsLists
<1> QED BY <1>1, ListsStart, PTL DEF ListingsSpec

(* The invariant gives the types.                                           *)
LEMMA ListsHaveTypes == ASSUME ListsInv PROVE ListingsTypeOK
<1>1. Cardinality(Fetches) <= 1
  <2>1. CASE Fetches = {}
    BY <2>1, FS_EmptySet
  <2>2. CASE Fetches # {}
    <3>1. PICK i : i \in Fetches
      BY <2>2
    <3>2. Fetches = {i}
      BY <3>1 DEF ListsInv, OneFetch
    <3>3. Cardinality({i}) = 1
      BY FS_Singleton
    <3> QED BY <3>2, <3>3
  <2> QED BY <2>1, <2>2
<1>2. \A n \in DOMAIN rows : rows[n] \in ListRow
  BY DEF ListsInv, RowsTyped
<1>3. \A k \in DOMAIN data : data[k] \in Page
  BY DEF ListsInv, PagesFit
<1> QED BY <1>1, <1>2, <1>3 DEF ListsInv, ScreenTyped, ListingsTypeOK, ListRow

(* Pages that fall and leave nothing out are one list.                      *)
LEMMA ListsSkipNothing == ASSUME ListsInv PROVE NothingSkipped
<1>1. PICK pages : pages = data
  OBVIOUS
<1>2. PagesFit(pages) /\ rows \in Seq(ListRow) /\ Len(rows) \in Nat
  BY <1>1 DEF ListsInv, RowsTyped
<1>3. pages \in Seq(Page) /\ Linked(pages) /\ Falling(pages) /\ Complete(pages) /\ MaxRows \in Nat
  BY <1>2, ListingsAssumption DEF PagesFit
<1>4. \A k \in DOMAIN pages : /\ pages[k].next \in Nat /\ pages[k].merchant = pages[1].merchant
                              /\ \A r \in pages[k].rows : r.id \in Nat /\ r.id > pages[k].next
  <2> SUFFICES ASSUME NEW k \in DOMAIN pages
               PROVE  /\ pages[k].next \in Nat /\ pages[k].merchant = pages[1].merchant
                      /\ \A r \in pages[k].rows : r.id \in Nat /\ r.id > pages[k].next
    OBVIOUS
  <2>1. pages[k] \in Page
    BY <1>3
  <2>2. pages[k].next \in Nat
    BY <1>3, <2>1 DEF Page
  <2> QED BY <1>3, <2>2 DEF Linked, OfMerchant
<1>5. ASSUME NEW j \in DOMAIN pages, NEW k \in DOMAIN pages, j < k
      PROVE  /\ pages[j].merchant = pages[k].merchant
             /\ \A a \in pages[j].rows, b \in pages[k].rows : a.id > b.id
  <2>1. \A b \in pages[k].rows : b.id <= pages[j].next
    BY <1>3, <1>5 DEF Falling
  <2> QED BY <1>4, <1>5, <2>1
<1>6. ASSUME NEW n \in 1..Len(rows), NEW a \in Rows, NEW b \in Rows, b < n, n < a,
             rows[n].merchant = pages[1].merchant, ~rows[n].gone
      PROVE  n \in Rows
  <2>1. PICK j \in DOMAIN pages : \E r \in pages[j].rows : r.id = a
    BY <1>1 DEF Rows, Shown
  <2>2. PICK k \in DOMAIN pages : \E r \in pages[k].rows : r.id = b
    BY <1>1 DEF Rows, Shown
  <2>3. PICK l : l = Len(pages) /\ l \in DOMAIN pages
    BY <1>3, <2>1
  <2>4. b > pages[k].next /\ b \in Nat /\ a \in Nat /\ pages[k].next \in Nat /\ pages[l].next \in Nat
    BY <1>4, <2>1, <2>2, <2>3
  <2>5. pages[l].next <= pages[k].next
    <3>1. CASE k = l
      BY <2>4, <3>1
    <3>2. CASE k # l
      <4>1. k < l
        BY <1>3, <2>2, <2>3, <3>2
      <4> QED BY <1>3, <2>2, <2>3, <4>1 DEF Falling
    <3> QED BY <3>1, <3>2
  <2>6. n > pages[l].next /\ n <= a
    BY <1>2, <1>6, <2>4, <2>5
  <2>7. j \in 1..l
    BY <1>3, <2>1, <2>3
  <2>8. Reached(pages, l, n)
    BY <2>1, <2>6, <2>7 DEF Reached
  <2>9. Has(pages, l, n)
    BY <1>3, <1>6, <2>3, <2>6, <2>8 DEF Complete
  <2>10. PICK h \in 1..l : \E r \in pages[h].rows : n = r.id
    BY <2>9 DEF Has
  <2>11. h \in DOMAIN data
    BY <1>1, <1>3, <2>3, <2>10
  <2> QED BY <1>1, <2>10, <2>11 DEF Rows, Shown
<1> QED BY <1>1, <1>5, <1>6 DEF NothingSkipped

(* The types of the lists (payments-queries.ts:13): the cached pages are     *)
(* pages as the server makes them, and one fetch at most is running.        *)
THEOREM ListingsTypes == ListingsSpec => []ListingsTypeOK
BY ListsInvHolds, ListsHaveTypes, PTL

(* "Load more" and the partial reload of the list after a mutation leave    *)
(* one list of one merchant (payments-queries.ts:51).                       *)
THEOREM NoRowSkipped == ListingsSpec => []NothingSkipped
BY ListsInvHolds, ListsSkipNothing, PTL

(* A form that is sent again under the same id makes no second payment      *)
(* (payment/service.go:463).                                                *)
THEOREM MadeOnce == ListingsSpec => []PaymentsMadeOnce
<1>1. ListsInv => PaymentsMadeOnce
  BY DEF ListsInv
<1> QED BY <1>1, ListsInvHolds, PTL

-----------------------------------------------------------------------------
(* Which merchant's rows, and how recent, when nothing has failed.          *)
SameFetches == Fetches' = Fetches /\ \A i \in Fetches : request'[i] = request[i]

(* The server would answer as before.                                       *)
LEMMA PageFromSame ==
  ASSUME UNCHANGED <<rows, list>>, NEW m, NEW from
  PROVE  PageFrom(m, from)' = PageFrom(m, from)
BY DEF PageFrom, PageOf, RowsOf, FirstRows, Limit, Greatest

(* Whose pages they are, if no fetch changes.                               *)
LEMMA ShownSame ==
  ASSUME ShownInv, UNCHANGED <<data, mounting, merchantId, shared, faults>>, open' => open, SameFetches
  PROVE  ShownInv'
<1>1. FirstFetch => FirstFetch'
  BY DEF SameFetches, FirstFetch, PagesOf
<1>2. FetchedChosen => FetchedChosen'
  BY DEF SameFetches, FetchedChosen, PagesOf
<1> QED BY <1>1, <1>2 DEF ShownInv

(* How recent they are, if no fetch changes and no act is settled.          *)
LEMMA ActsSame ==
  ASSUME ActsInv, UNCHANGED <<rows, list, data, mounting, merchantId, shared, faults>>, open' => open,
         SameFetches, Unsettled => Unsettled'
  PROVE  ActsInv'
<1>1. PICK m : m = merchantId /\ m = merchantId'
  OBVIOUS
<1>2. PageFrom(m, Newest)' = PageFrom(m, Newest)
  BY PageFromSame
<1>3. ASSUME NEW pages, Current(pages) PROVE Current(pages)'
  BY <1>1, <1>2, <1>3 DEF Current, Newest
<1>4. ByOneself' => ByOneself
  BY DEF ByOneself
<1>5. SUFFICES ASSUME faults = 0, open, ~mounting, shared = "no", ByOneself, ~Unsettled
               PROVE  /\ \A i \in Fetches' : request'[i].at = "page" => Current(request[i].pages)'
                      /\ Fetches' = {} => Current(data)'
  BY <1>4 DEF ActsInv
<1>6. ASSUME NEW i \in Fetches', request'[i].at = "page" PROVE Current(request[i].pages)'
  <2>1. PICK pages : pages = request[i].pages /\ pages = request'[i].pages
    BY <1>6 DEF SameFetches
  <2>2. Current(pages)
    BY <1>5, <1>6, <2>1 DEF SameFetches, ActsInv
  <2>3. Current(pages)'
    BY <1>3, <2>2
  <2> QED BY <2>1, <2>3
<1>7. ASSUME Fetches' = {} PROVE Current(data)'
  <2>1. PICK pages : pages = data /\ pages = data'
    OBVIOUS
  <2>2. Current(pages)
    BY <1>5, <1>7, <2>1 DEF SameFetches, ActsInv
  <2>3. Current(pages)'
    BY <1>3, <2>2
  <2> QED BY <2>1, <2>3
<1> QED BY <1>6, <1>7

(* A request that is no fetch changes no fetch.                             *)
LEMMA OthersSame ==
  ASSUME NEW i \in Slots, request[i].kind # "fetch", request'[i].kind # "fetch",
         \A j \in Slots \ {i} : request'[j] = request[j]
  PROVE  SameFetches
BY DEF SameFetches, Fetches

(* A fetch is started for the merchant that is chosen, or shared.           *)
LEMMA ShownStarts ==
  ASSUME ListsInv, ShownInv, UNCHANGED <<data, faults>>, NEW sent, DOMAIN sent = Slots,
         \A j \in Slots : sent[j] = request[j] \/ (sent[j].kind # "fetch" /\ request[j].kind # "fetch"),
         NEW m, m = merchantId', NEW pages, data = <<>> => pages = <<>>, NEW left,
         StartFetch(sent, m, pages, left)
  PROVE  ShownInv' /\ ActsInv'
<1>1. PICK q : q = Fetch(m, pages, left)
  OBVIOUS
<1>2. q.kind = "fetch" /\ q.at = "server" /\ q.merchant = m /\ q.pages = pages
  BY <1>1 DEF Fetch
<1>3. SlotsFit
  BY DEF ListsInv
<1>4. CASE /\ isFetching /\ data = <<>> /\ request' = sent /\ shared' \in {"other", "same"}
           /\ shared' # "other" => shared # "other" /\ \A j \in Fetches : request[j].merchant = m
  <2>1. Fetches' = Fetches /\ \A j \in Fetches : request'[j] = request[j]
    BY <1>4 DEF Fetches
  <2>2. Fetches' # {}
    BY <1>4, <2>1 DEF isFetching
  <2>3. FirstFetch => FirstFetch'
    BY <2>1 DEF FirstFetch, PagesOf
  <2>4. FirstFetch => FetchedChosen'
    BY <1>4, <2>1, <2>2 DEF FirstFetch, FetchedChosen, PagesOf
  <2> QED BY <1>4, <2>3, <2>4 DEF ShownInv, ActsInv
<1>5. CASE /\ \E f \in Slots :
                /\ request'[f] = q /\ DOMAIN request' = Slots
                /\ \A j \in Slots \ {f} : request'[j] = Free \/ (request'[j] = sent[j] /\ sent[j].kind # "fetch")
           /\ shared' # "other" => \A k \in DOMAIN pages : pages[k].merchant = m
  <2>1. PICK f \in Slots :
          /\ request'[f] = q
          /\ \A j \in Slots \ {f} : request'[j] = Free \/ (request'[j] = sent[j] /\ sent[j].kind # "fetch")
    BY <1>5
  <2>2. Fetches' = {f}
    BY <1>2, <2>1, FreeIsNoFetch DEF Fetches
  <2>3. FirstFetch'
    BY <1>2, <2>1, <2>2 DEF FirstFetch, PagesOf
  <2>4. FetchedChosen'
    BY <1>2, <1>5, <2>1, <2>2 DEF FetchedChosen, PagesOf
  <2>5. ActsInv'
    BY <1>2, <2>1, <2>2 DEF ActsInv
  <2> QED BY <2>3, <2>4, <2>5 DEF ShownInv
<1> QED BY <1>1, <1>3, <1>4, <1>5, FetchStarted

(* Loading everything anew, or the last page.                               *)
LEMMA ReloadStarts ==
  ASSUME ListsInv, ShownInv, UNCHANGED <<data, faults>>, NEW sent, DOMAIN sent = Slots,
         \A j \in Slots : sent[j] = request[j] \/ (sent[j].kind # "fetch" /\ request[j].kind # "fetch"),
         NEW m, m = merchantId', refetch(sent, m) \/ invalidateQueries(sent, m)
  PROVE  ShownInv' /\ ActsInv'
<1>1. CASE refetch(sent, m)
  <2>1. PICK pages : pages = <<>>
    OBVIOUS
  <2>2. StartFetch(sent, m, pages, Pages)
    BY <1>1, <2>1 DEF refetch
  <2> QED BY <2>1, <2>2, ShownStarts
<1>2. CASE invalidateQueries(sent, m)
  <2>1. PICK pages : pages = IF data = <<>> THEN <<>> ELSE Front(data)
    OBVIOUS
  <2>2. StartFetch(sent, m, pages, 1)
    BY <1>2, <2>1 DEF invalidateQueries
  <2> QED BY <2>1, <2>2, ShownStarts
<1> QED BY <1>1, <1>2

(* The page closes, or a request that is no fetch proceeds.                 *)
LEMMA OtherRequest ==
  ASSUME ListsInv, ShownInv, ActsInv, NEW i \in Slots, request[i].kind # "fetch", request'[i].kind # "fetch",
         \A j \in Slots \ {i} : request'[j] = request[j],
         UNCHANGED <<rows, list, data, mounting, merchantId, shared, faults>>, open' => open,
         request[i].kind \in {"add", "delete", "decide"} /\ request[i].at = "page" => ~open'
  PROVE  ShownInv' /\ ActsInv'
<1>1. SameFetches
  BY OthersSame
<1>2. ShownInv'
  BY <1>1, ShownSame
<1>3. CASE ~open'
  BY <1>2, <1>3 DEF ActsInv
<1>4. CASE open'
  <2>1. Unsettled => Unsettled'
    BY <1>4 DEF Unsettled
  <2> QED BY <1>1, <1>2, <2>1, ActsSame
<1> QED BY <1>3, <1>4

(* A change is made, and the page not yet told.                             *)
LEMMA RequestAnswered ==
  ASSUME ListsInv, ShownInv, NEW i \in Slots, request[i].kind # "fetch",
         \A j \in Slots \ {i} : request'[j] = request[j],
         request'[i].kind \in {"add", "delete", "decide"}, request'[i].at = "page",
         UNCHANGED <<data, mounting, open, merchantId, shared, faults>>
  PROVE  ShownInv' /\ ActsInv'
<1>1. SameFetches
  BY OthersSame
<1>2. Unsettled'
  BY DEF Unsettled
<1> QED BY <1>1, <1>2, ShownSame DEF ActsInv

(* A request fails.                                                         *)
LEMMA FailureShows ==
  ASSUME ListsInv, ShownInv, ActsInv, NEW i \in Slots, Fails(i) \/ AnswerIsLost(i)
  PROVE  ShownInv' /\ ActsInv'
<1>1. faults' # 0
  BY FaultsTyped DEF Fails, AnswerIsLost
<1> QED BY <1>1 DEF ShownInv, ActsInv

(* The first page of a fetch is what the server has now.                    *)
LEMMA ServePageShows ==
  ASSUME ListsInv, ShownInv, ActsInv, NEW i \in Slots, ServePage(i)
  PROVE  ShownInv' /\ ActsInv'
<1>1. PICK r : r = request[i]
  OBVIOUS
<1>2. PICK q : /\ GoesOn(i, q) /\ QueryFits(q) /\ ChangeFits(q) /\ q # Free /\ q.kind = "fetch"
               /\ q.merchant = r.merchant
               /\ r.kind = "fetch" /\ r.at = "server" /\ QueryFits(r) /\ r # Free
               /\ ServedAs(r, q)
  BY <1>1, PageServed
<1>3. UNCHANGED <<rows, list, merchantId, screen, data, shared, bounds>>
  BY DEF ServePage
<1>4. DOMAIN request' = Slots /\ request'[i] = q /\ \A j \in Slots \ {i} : request'[j] = request[j]
  BY <1>2, SlotChanges, RequestIsSent DEF GoesOn
<1>5. i \in Fetches /\ Fetches = {i} /\ Fetches' = {i}
  <2>1. i \in Fetches
    BY <1>1, <1>2 DEF Fetches
  <2>2. Fetches = {i}
    BY <2>1 DEF ListsInv, OneFetch
  <2>3. Fetches' = Fetches
    BY <1>2, <1>4, <2>1 DEF Fetches
  <2> QED BY <2>1, <2>2, <2>3
<1>6. PICK pages : pages = r.pages
  OBVIOUS
<1>7. PICK more : more = q.pages
  OBVIOUS
<1>8. PagesFit(pages) /\ pages \in Seq(Page) /\ PagesFit(more) /\ more \in Seq(Page) /\ Cursor(pages) # 0
  BY <1>2, <1>6, <1>7 DEF QueryFits, PagesFit
<1>9. PICK m \in Merchants : m = r.merchant
  BY <1>1, <1>2, SlotKnown, FreeIsNoFetch, RequestIsSent
<1>10. ASSUME PagesOf(m, pages)
       PROVE  /\ q.at \in {"server", "page"} /\ Len(more) = Len(pages) + 1 /\ PagesOf(m, more)
              /\ more[Len(more)] = PageFrom(m, Cursor(pages))
  <2>1. ~(Cursor(pages) # Newest /\ rows[Cursor(pages)].merchant # m)
    <3>1. ASSUME Cursor(pages) # Newest PROVE rows[Cursor(pages)].merchant = m
      <4>1. pages # <<>>
        BY <3>1, <1>8, CursorOf
      <4>2. Len(pages) \in DOMAIN pages /\ Cursor(pages) = pages[Len(pages)].next
        BY <1>8, <4>1, CursorOf
      <4>3. 1 \in DOMAIN pages
        BY <1>8, <4>2
      <4> QED BY <1>8, <1>10, <4>2, <4>3 DEF PagesFit, Linked, OfMerchant, PagesOf
    <3> QED BY <3>1
  <2>2. /\ q.at \in {"server", "page"} /\ Len(more) = Len(pages) + 1
        /\ more[Len(more)] = PageFrom(m, Cursor(pages))
        /\ \A k \in DOMAIN pages : k \in DOMAIN more /\ more[k] = pages[k]
    BY <1>2, <1>6, <1>7, <1>9, <2>1 DEF ServedAs
  <2>3. RowsTyped /\ Cursor(pages) \in Nat
    BY <1>8, CursorOf DEF ListsInv
  <2>4. PageFrom(m, Cursor(pages)).merchant = m
    BY <2>3, PageFromGives
  <2>5. ASSUME NEW k \in DOMAIN more PROVE more[k].merchant = m
    <3>1. k \in DOMAIN pages \/ k = Len(more)
      BY <1>8, <2>2
    <3> QED BY <1>10, <2>2, <2>4, <3>1 DEF PagesOf
  <2> QED BY <2>2, <2>5 DEF PagesOf
<1>11. FirstFetch => FirstFetch'
  <2> SUFFICES ASSUME FirstFetch, data = <<>>
               PROVE  request'[i].at # "failed" /\ PagesOf(request'[i].merchant, request'[i].pages)
    BY <1>3, <1>5 DEF FirstFetch, PagesOf
  <2>1. PagesOf(m, pages)
    BY <1>1, <1>5, <1>6, <1>9 DEF FirstFetch
  <2>2. q.at # "failed" /\ PagesOf(m, more) /\ q.merchant = m
    BY <1>2, <1>9, <1>10, <2>1
  <2> QED BY <1>4, <1>7, <2>2
<1>12. ASSUME FetchedChosen, open, ~mounting, shared # "other"
       PROVE  m = merchantId /\ PagesOf(m, pages)
  BY <1>1, <1>5, <1>6, <1>9, <1>12 DEF FetchedChosen
<1>13. FetchedChosen => FetchedChosen'
  <2> SUFFICES ASSUME FetchedChosen, open, ~mounting, shared # "other"
               PROVE  request'[i].at # "failed" /\ request'[i].merchant = merchantId /\ PagesOf(merchantId, request'[i].pages)
    BY <1>3, <1>5 DEF FetchedChosen, PagesOf, screen
  <2>1. m = merchantId /\ q.at # "failed" /\ PagesOf(m, more) /\ q.merchant = m
    BY <1>2, <1>9, <1>10, <1>12
  <2> QED BY <1>4, <1>7, <2>1
<1>14. ShownInv'
  BY <1>3, <1>11, <1>13 DEF ShownInv, bounds
<1>15. ActsInv'
  <2> SUFFICES ASSUME faults' = 0, open', ~mounting', shared' = "no", request'[i].at = "page"
               PROVE  Current(request[i].pages)'
    BY <1>5 DEF ActsInv
  <2>1. m = merchantId /\ PagesOf(m, pages)
    BY <1>3, <1>12 DEF ShownInv, bounds, screen
  <2>2. Len(more) = Len(pages) + 1 /\ more[Len(more)] = PageFrom(m, Cursor(pages))
    BY <1>10, <2>1
  <2>3. ASSUME Len(more) = 1 PROVE more[1] = PageFrom(m, Newest)
    <3>1. pages = <<>>
      BY <1>8, <2>2, <2>3, EmptySeq
    <3> QED BY <2>2, <2>3, <3>1 DEF Cursor
  <2>4. PageFrom(m, Newest)' = PageFrom(m, Newest)
    BY <1>3, PageFromSame
  <2>5. m = merchantId' /\ more = request'[i].pages
    BY <1>3, <1>4, <1>7, <2>1
  <2> QED BY <2>3, <2>4, <2>5 DEF Current, Newest
<1> QED BY <1>14, <1>15

(* A row is added, or refused.                                              *)
LEMMA ServeAddShows ==
  ASSUME ListsInv, ShownInv, ActsInv, NEW i \in Slots, ServeAdd(i)
  PROVE  ShownInv' /\ ActsInv'
<1>1. PICK r : r = request[i]
  OBVIOUS
<1>2. r.kind = "add" /\ r # Free /\ r.at = "server" /\ UNCHANGED <<list, merchantId, screen, data, shared, bounds>>
  BY <1>1, FreeIsNoFetch DEF ServeAdd
<1>3. QueryFits(r) /\ ChangeFits(r)
  BY <1>1, <1>2, SlotKnown DEF ListsInv
<1>4. PICK at \in ListStages : at = IF ~Known(r) /\ Len(rows) < MaxRows THEN "page" ELSE "failed"
  BY DEF ListStages
<1>5. PICK q : q = [r EXCEPT !.at = at]
  OBVIOUS
<1>6. GoesOn(i, q) /\ (~(~Known(r) /\ Len(rows) < MaxRows) => UNCHANGED rows)
  BY <1>1, <1>4, <1>5 DEF ServeAdd
<1>7. q.kind = "add" /\ q.at = at
  BY <1>2, <1>3, <1>5, SlotMoves
<1>8. request'[i] = q /\ \A j \in Slots \ {i} : request'[j] = request[j]
  BY <1>6, SlotChanges, RequestIsSent DEF GoesOn
<1>9. CASE at = "page"
  BY <1>1, <1>2, <1>7, <1>8, <1>9, RequestAnswered DEF screen, bounds
<1>10. CASE at # "page"
  <2>1. UNCHANGED rows
    BY <1>4, <1>6, <1>10
  <2> QED BY <1>1, <1>2, <1>7, <1>8, <2>1, OtherRequest DEF screen, bounds
<1> QED BY <1>9, <1>10

(* A row is changed, or refused.                                            *)
LEMMA ServeChangeShows ==
  ASSUME ListsInv, ShownInv, ActsInv, NEW i \in Slots, ServeChange(i)
  PROVE  ShownInv' /\ ActsInv'
<1>1. PICK r : r = request[i]
  OBVIOUS
<1>2. /\ r.kind \in {"delete", "decide"} /\ r # Free /\ r.at = "server"
      /\ UNCHANGED <<list, merchantId, screen, data, shared, bounds>>
  BY <1>1, FreeIsNoFetch DEF ServeChange
<1>3. QueryFits(r) /\ ChangeFits(r)
  BY <1>1, <1>2, SlotKnown DEF ListsInv
<1>4. PICK ok \in BOOLEAN : ok <=> /\ rows[r.row].merchant = r.merchant /\ ~rows[r.row].gone
                                   /\ r.kind = "decide" => ~rows[r.row].done
  OBVIOUS
<1>5. PICK at \in ListStages : at = IF ok THEN "page" ELSE "failed"
  BY DEF ListStages
<1>6. PICK q : q = [r EXCEPT !.at = at]
  OBVIOUS
<1>7. GoesOn(i, q) /\ (~ok => UNCHANGED rows)
  BY <1>1, <1>4, <1>5, <1>6 DEF ServeChange
<1>8. q.kind = r.kind /\ q.at = at
  BY <1>2, <1>3, <1>6, SlotMoves
<1>9. request'[i] = q /\ \A j \in Slots \ {i} : request'[j] = request[j]
  BY <1>7, SlotChanges, RequestIsSent DEF GoesOn
<1>10. CASE ok
  BY <1>1, <1>2, <1>5, <1>8, <1>9, <1>10, RequestAnswered DEF screen, bounds
<1>11. CASE ~ok
  BY <1>1, <1>2, <1>7, <1>8, <1>9, <1>11, OtherRequest DEF screen, bounds
<1> QED BY <1>10, <1>11

(* Somebody else adds a row.                                                *)
LEMMA AddedElsewhereShows ==
  ASSUME ListsInv, ShownInv, ActsInv, NEW m \in Merchants, AddedElsewhere(m)
  PROVE  ShownInv' /\ ActsInv'
<1>1. /\ Len(rows) < MaxRows /\ rows' = Append(rows, Row(m, Elsewhere))
      /\ UNCHANGED <<list, merchantId, screen, data, shared, request, bounds>>
  BY DEF AddedElsewhere
<1>2. SameFetches
  BY <1>1 DEF SameFetches, Fetches
<1>3. ShownInv'
  BY <1>1, <1>2, ShownSame DEF screen, bounds
<1>4. Elsewhere \in 0..Elsewhere
  BY ListingsAssumption DEF Elsewhere
<1>5. Len(rows') = Len(rows) + 1 /\ rows'[Len(rows) + 1].by = Elsewhere
  BY <1>1, <1>4, RowAdded
<1>6. ~ByOneself'
  BY <1>5 DEF ByOneself, ListsInv, RowsTyped
<1> QED BY <1>3, <1>6 DEF ActsInv

(* The fetched pages are put in the cache.                                  *)
LEMMA PageFetchedShows ==
  ASSUME ListsInv, ShownInv, ActsInv, NEW i \in Slots, PageFetched(i)
  PROVE  ShownInv' /\ ActsInv'
<1>1. PICK pages : pages = request[i].pages
  OBVIOUS
<1>2. /\ request[i].kind = "fetch" /\ request[i].at = "page" /\ data' = pages /\ Ends(i)
      /\ UNCHANGED <<rows, list, merchantId, screen, shared, bounds>>
  BY <1>1 DEF PageFetched
<1>3. request'[i] = Free /\ \A j \in Slots \ {i} : request'[j] = request[j]
  BY <1>2, OneSlotEnds
<1>4. i \in Fetches /\ Fetches = {i}
  BY <1>2 DEF Fetches, ListsInv, OneFetch
<1>5. Fetches' = {}
  BY <1>3, <1>4, FreeIsNoFetch DEF Fetches
<1>6. FetchedChosen => FetchedChosen'
  BY <1>1, <1>2, <1>4, <1>5 DEF FetchedChosen, PagesOf, screen
<1>7. ShownInv'
  BY <1>2, <1>5, <1>6 DEF ShownInv, FirstFetch, bounds
<1>8. ActsInv'
  <2> SUFFICES ASSUME faults' = 0, open', ~mounting', shared' = "no", ByOneself', ~Unsettled'
               PROVE  Current(data)'
    BY <1>5 DEF ActsInv
  <2>1. ByOneself
    BY <1>2 DEF ByOneself
  <2>2. ~Unsettled
    <3>1. ASSUME NEW j \in Slots, request[j].kind \in {"add", "delete", "decide"}, request[j].at = "page"
          PROVE  Unsettled'
      <4>1. j # i
        BY <1>2, <3>1
      <4> QED BY <1>3, <3>1, <4>1 DEF Unsettled
    <3> QED BY <3>1 DEF Unsettled
  <2>3. Current(pages)
    BY <1>1, <1>2, <1>4, <2>1, <2>2 DEF ActsInv, bounds, screen
  <2>4. PICK m : m = merchantId /\ m = merchantId'
    BY <1>2
  <2>5. PageFrom(m, Newest)' = PageFrom(m, Newest)
    BY <1>2, PageFromSame
  <2> QED BY <1>2, <2>3, <2>4, <2>5 DEF Current, Newest
<1> QED BY <1>7, <1>8

(* No fetch fails unless something was lost.                                *)
LEMMA FetchFailedShows ==
  ASSUME ListsInv, ShownInv, ActsInv, NEW i \in Slots, FetchFailed(i)
  PROVE  ShownInv' /\ ActsInv'
<1>1. /\ request[i].kind = "fetch" /\ request[i].at = "failed" /\ Ends(i)
      /\ UNCHANGED <<rows, list, merchantId, screen, data, shared, bounds>>
  BY DEF FetchFailed
<1>2. i \in Fetches /\ Fetches = {i}
  BY <1>1 DEF Fetches, ListsInv, OneFetch
<1>3. Fetches' = {}
  <2>1. request'[i] = Free /\ \A j \in Slots \ {i} : request'[j] = request[j]
    BY <1>1, OneSlotEnds
  <2> QED BY <1>2, <2>1, FreeIsNoFetch DEF Fetches
<1>4. faults = 0 => ~(open /\ ~mounting /\ shared # "other")
  BY <1>1, <1>2 DEF ShownInv, FetchedChosen
<1> QED BY <1>1, <1>3, <1>4 DEF ShownInv, FirstFetch, FetchedChosen, ActsInv, screen, bounds

(* A request settles: the list is loaded again, or the page is closed.      *)
LEMMA SettlesShowing ==
  ASSUME ListsInv, ShownInv, ActsInv, NEW i \in Slots, request[i].kind \in {"add", "delete", "decide"},
         UNCHANGED <<rows, list, data, mounting, open, merchantId, faults>>,
         \/ refetch(Without({i}), merchantId)
         \/ invalidateQueries(Without({i}), merchantId)
         \/ Ends(i) /\ UNCHANGED shared /\ (request[i].at = "page" => ~open)
  PROVE  ShownInv' /\ ActsInv'
<1>1. CASE refetch(Without({i}), merchantId) \/ invalidateQueries(Without({i}), merchantId)
  <2>1. PICK sent : sent = Without({i})
    OBVIOUS
  <2>2. PICK m : m = merchantId /\ m = merchantId'
    OBVIOUS
  <2>3. /\ DOMAIN sent = Slots
        /\ \A j \in Slots : sent[j] = request[j] \/ (sent[j].kind # "fetch" /\ request[j].kind # "fetch")
    BY <2>1, RequestIsSent, SentKeeps
  <2>4. refetch(sent, m) \/ invalidateQueries(sent, m)
    BY <1>1, <2>1, <2>2
  <2> QED BY <2>2, <2>3, <2>4, ReloadStarts
<1>2. CASE Ends(i) /\ UNCHANGED shared /\ (request[i].at = "page" => ~open)
  <2>1. request'[i] = Free /\ \A j \in Slots \ {i} : request'[j] = request[j]
    BY <1>2, OneSlotEnds
  <2> QED BY <1>2, <2>1, FreeIsNoFetch, OtherRequest
<1> QED BY <1>1, <1>2

(* The list is loaded again, with the new row.                              *)
LEMMA AddSettlesShows ==
  ASSUME ListsInv, ShownInv, ActsInv, NEW i \in Slots, AddSettles(i)
  PROVE  ShownInv' /\ ActsInv'
<1>1. PICK r : r = request[i]
  OBVIOUS
<1>2. r # Free /\ r.kind = "add" /\ UNCHANGED <<rows, list, merchantId, screen, data, bounds>>
  BY <1>1, FreeIsNoFetch DEF AddSettles
<1>3. QueryFits(r) /\ ChangeFits(r)
  BY <1>1, <1>2, SlotKnown, RequestIsSent
<1>4. CASE open
  <2>1. PICK q : q = [r EXCEPT !.kind = "reset"]
    OBVIOUS
  <2>2. PICK sent : sent = [request EXCEPT ![i] = q]
    OBVIOUS
  <2>3. PICK m : m = merchantId /\ m = merchantId'
    BY <1>2
  <2>4. invalidateQueries(sent, m)
    BY <1>1, <1>4, <2>1, <2>2, <2>3 DEF AddSettles
  <2>5. QueryFits(q) /\ ChangeFits(q) /\ q.kind # "fetch"
    BY <1>2, <1>3, <2>1 DEF QueryFits, ChangeFits, Changes
  <2>6. /\ DOMAIN sent = Slots
        /\ \A j \in Slots : sent[j] = request[j] \/ (sent[j].kind # "fetch" /\ request[j].kind # "fetch")
    BY <1>1, <1>2, <2>2, <2>5, RequestIsSent, SentKeeps
  <2> QED BY <1>2, <2>3, <2>4, <2>6, ReloadStarts DEF bounds
<1>5. CASE ~open
  <2>1. Ends(i) /\ UNCHANGED shared
    BY <1>5 DEF AddSettles
  <2> QED BY <1>1, <1>2, <1>5, <2>1, SettlesShowing DEF screen, bounds
<1> QED BY <1>4, <1>5

(* The list is loaded again, or nothing was changed.                        *)
LEMMA AnswerShows ==
  ASSUME ListsInv, ShownInv, ActsInv, NEW i \in Slots,
         FormReset(i) \/ AddFailed(i) \/ DeleteSettles(i) \/ Resolved(i)
  PROVE  ShownInv' /\ ActsInv'
<1>1. CASE FormReset(i)
  <2>1. Ends(i) /\ request[i].kind = "reset"
        /\ UNCHANGED <<rows, list, merchantId, open, mounting, card, data, shared, bounds>>
    BY <1>1 DEF FormReset
  <2>2. request'[i] = Free /\ \A j \in Slots \ {i} : request'[j] = request[j]
    BY <2>1, OneSlotEnds
  <2> QED BY <2>1, <2>2, FreeIsNoFetch, OtherRequest DEF bounds
<1>2. CASE AddFailed(i)
  <2>1. Ends(i) /\ request[i].kind = "add" /\ request[i].at = "failed"
        /\ UNCHANGED <<rows, list, merchantId, open, mounting, formId, card, data, shared, bounds>>
    BY <1>2 DEF AddFailed
  <2> QED BY <2>1, SettlesShowing DEF bounds
<1>3. CASE DeleteSettles(i)
  <2>1. request[i].kind = "delete" /\ UNCHANGED <<rows, list, merchantId, screen, data, bounds>>
    BY <1>3 DEF DeleteSettles
  <2>2. \/ invalidateQueries(Without({i}), merchantId)
        \/ Ends(i) /\ UNCHANGED shared /\ (request[i].at = "page" => ~open)
    BY <1>3 DEF DeleteSettles
  <2> QED BY <2>1, <2>2, SettlesShowing DEF screen, bounds
<1>4. CASE Resolved(i)
  <2>1. request[i].kind = "decide"
        /\ UNCHANGED <<rows, list, merchantId, open, mounting, formId, submitting, data, bounds>>
    BY <1>4 DEF Resolved
  <2>2. \/ refetch(Without({i}), merchantId)
        \/ Ends(i) /\ UNCHANGED shared /\ (request[i].at = "page" => ~open)
    BY <1>4 DEF Resolved
  <2> QED BY <2>1, <2>2, SettlesShowing DEF bounds
<1> QED BY <1>1, <1>2, <1>3, <1>4

(* The list is loaded for the merchant that is chosen.                      *)
LEMMA SwitchMerchantShows ==
  ASSUME ListsInv, ShownInv, ActsInv, NEW m \in Merchants, SwitchMerchant(m)
  PROVE  ShownInv' /\ ActsInv'
<1>1. merchantId' = m /\ UNCHANGED <<rows, list, screen, data, faults>>
  BY DEF SwitchMerchant
<1>2. CASE open
  <2>1. PICK sent : sent = request
    OBVIOUS
  <2>2. refetch(sent, m)
    BY <1>2, <2>1 DEF SwitchMerchant
  <2>3. DOMAIN sent = Slots /\ \A j \in Slots : sent[j] = request[j]
    BY <2>1, RequestIsSent
  <2> QED BY <1>1, <2>2, <2>3, ReloadStarts
<1>3. CASE ~open
  <2>1. UNCHANGED <<request, shared>>
    BY <1>3 DEF SwitchMerchant
  <2>2. FirstFetch => FirstFetch'
    BY <1>1, <2>1 DEF FirstFetch, PagesOf, Fetches
  <2> QED BY <1>1, <1>3, <2>2 DEF ShownInv, FetchedChosen, ActsInv, screen
<1> QED BY <1>2, <1>3

(* The page is left; the details of a row are opened and closed.            *)
LEMMA PageShows ==
  ASSUME ListsInv, ShownInv, ActsInv, LeavePage \/ CloseCard \/ \E n \in 1..MaxRows : OpenCard(n)
  PROVE  ShownInv' /\ ActsInv'
<1>1. /\ UNCHANGED <<rows, list, merchantId, mounting, data, shared, request, faults>>
      /\ open' => open
  BY DEF LeavePage, CloseCard, OpenCard, bounds
<1>2. SameFetches /\ (Unsettled => Unsettled')
  BY <1>1 DEF SameFetches, Fetches, Unsettled
<1> QED BY <1>1, <1>2, ShownSame, ActsSame

(* The page is opened, or asked for more.                                   *)
LEMMA PageLoads ==
  ASSUME ListsInv, ShownInv, ActsInv, EnterPage \/ fetchNextPage
  PROVE  ShownInv' /\ ActsInv'
<1>1. PICK sent : sent = request
  OBVIOUS
<1>2. PICK m : m = merchantId /\ m = merchantId'
  BY DEF EnterPage, fetchNextPage
<1>3. DOMAIN sent = Slots /\ \A j \in Slots : sent[j] = request[j]
  BY <1>1, RequestIsSent
<1>4. UNCHANGED <<data, faults>>
  BY DEF EnterPage, fetchNextPage, bounds
<1>5. CASE EnterPage
  <2>1. refetch(sent, m)
    BY <1>1, <1>2, <1>5 DEF EnterPage
  <2> QED BY <1>2, <1>3, <1>4, <2>1, ReloadStarts
<1>6. CASE fetchNextPage
  <2>1. PICK pages : pages = data
    OBVIOUS
  <2>2. StartFetch(sent, m, pages, 1)
    BY <1>1, <1>2, <1>6, <2>1 DEF fetchNextPage
  <2> QED BY <1>2, <1>3, <1>4, <2>1, <2>2, ShownStarts
<1> QED BY <1>5, <1>6

(* The cached pages are removed, and loaded anew.                           *)
LEMMA MountHandlerShows ==
  ASSUME ListsInv, ShownInv, ActsInv, MountHandler
  PROVE  ShownInv' /\ ActsInv'
<1>1. UNCHANGED merchantId /\ data' = <<>>
  BY DEF MountHandler
<1>2. PICK q : q = Fetch(merchantId, <<>>, 1)
  OBVIOUS
<1>3. q.kind = "fetch" /\ q.at = "server" /\ q.merchant = merchantId /\ q.pages = <<>>
  BY <1>2 DEF Fetch
<1>4. PICK cleared : cleared = Without(Fetches)
  OBVIOUS
<1>5. Sends(cleared, q)
  BY <1>2, <1>4 DEF MountHandler
<1>6. PICK f \in Slots : request' = [cleared EXCEPT ![f] = q]
  BY <1>5 DEF Sends
<1>7. request'[f] = q /\ \A j \in Slots \ {f} : request'[j] = IF j \in Fetches THEN Free ELSE request[j]
  BY <1>4, <1>6 DEF Without
<1>8. Fetches' = {f}
  <2>1. ASSUME NEW j \in Slots, j # f PROVE request'[j].kind # "fetch"
    <3>1. CASE j \in Fetches
      BY <1>7, <2>1, <3>1, FreeIsNoFetch
    <3>2. CASE j \notin Fetches
      BY <1>7, <2>1, <3>2 DEF Fetches
    <3> QED BY <3>1, <3>2
  <2> QED BY <1>3, <1>7, <2>1 DEF Fetches
<1>9. FirstFetch' /\ FetchedChosen'
  BY <1>1, <1>3, <1>7, <1>8 DEF FirstFetch, FetchedChosen, PagesOf
<1> QED BY <1>3, <1>7, <1>8, <1>9 DEF ShownInv, ActsInv

(* A change is sent.                                                        *)
LEMMA SubmitShows ==
  ASSUME ListsInv, ShownInv, ActsInv,
         uploadCreated \/ handleResolve \/ \E n \in 1..MaxRows : deleteSelected(n)
  PROVE  ShownInv' /\ ActsInv'
<1>1. UNCHANGED <<rows, list, merchantId, open, mounting, data, shared, faults>>
  BY DEF uploadCreated, handleResolve, deleteSelected, screen, bounds
<1>2. PICK q : q.kind \in {"add", "delete", "decide"} /\ Send(q)
  <2>1. \A kind, m, row : Mutation(kind, m, row).kind = kind
    BY DEF Mutation
  <2>2. CASE uploadCreated
    BY <2>1, <2>2 DEF uploadCreated
  <2>3. CASE handleResolve
    BY <2>1, <2>3 DEF handleResolve
  <2>4. ASSUME NEW n \in 1..MaxRows, deleteSelected(n)
        PROVE  \E q : q.kind \in {"add", "delete", "decide"} /\ Send(q)
    BY <2>1, <2>4 DEF deleteSelected
  <2> QED BY <2>2, <2>3, <2>4
<1>3. PICK i \in Slots : request[i] = Free /\ request' = [request EXCEPT ![i] = q]
  BY <1>2, SlotSent, RequestIsSent
<1>4. request'[i] = q /\ \A j \in Slots \ {i} : request'[j] = request[j]
  BY <1>3, SlotChanges, RequestIsSent
<1> QED BY <1>1, <1>2, <1>3, <1>4, FreeIsNoFetch, OtherRequest

(* Nothing happens.                                                         *)
LEMMA StutterShows == ASSUME ShownInv, ActsInv, UNCHANGED listingsVars PROVE ShownInv' /\ ActsInv'
<1>1. /\ UNCHANGED <<rows, list, merchantId, mounting, data, shared, request, faults>>
      /\ open' => open
  BY DEF listingsVars
<1>2. SameFetches /\ (Unsettled => Unsettled')
  BY <1>1 DEF SameFetches, Fetches, Unsettled
<1> QED BY <1>1, <1>2, ShownSame, ActsSame

(* Every step keeps both.                                                   *)
LEMMA StepShows == ASSUME ListsInv, ShownInv, ActsInv, ListingsNext PROVE ShownInv' /\ ActsInv'
<1>1. CASE \E m \in Merchants : AddedElsewhere(m) \/ SwitchMerchant(m)
  BY <1>1, AddedElsewhereShows, SwitchMerchantShows
<1>2. ASSUME NEW i \in Slots,
             \/ ServePage(i) \/ ServeAdd(i) \/ ServeChange(i) \/ Fails(i) \/ AnswerIsLost(i)
             \/ PageFetched(i) \/ FetchFailed(i) \/ AddSettles(i) \/ FormReset(i) \/ AddFailed(i)
             \/ DeleteSettles(i) \/ Resolved(i)
      PROVE  ShownInv' /\ ActsInv'
  <2>1. CASE ServePage(i) \/ ServeAdd(i) \/ ServeChange(i) \/ Fails(i) \/ AnswerIsLost(i)
    BY <2>1, ServePageShows, ServeAddShows, ServeChangeShows, FailureShows
  <2>2. CASE PageFetched(i) \/ FetchFailed(i) \/ AddSettles(i)
    BY <2>2, PageFetchedShows, FetchFailedShows, AddSettlesShows
  <2>3. CASE FormReset(i) \/ AddFailed(i) \/ DeleteSettles(i) \/ Resolved(i)
    BY <2>3, AnswerShows
  <2> QED BY <1>2, <2>1, <2>2, <2>3
<1>3. CASE LeavePage \/ EnterPage \/ MountHandler \/ fetchNextPage \/ uploadCreated \/ CloseCard \/ handleResolve
  BY <1>3, PageShows, PageLoads, MountHandlerShows, SubmitShows
<1>4. CASE \E n \in 1..MaxRows : deleteSelected(n) \/ OpenCard(n)
  BY <1>4, PageShows, SubmitShows
<1> QED BY <1>1, <1>2, <1>3, <1>4 DEF ListingsNext

(* The page as it is opened.                                                *)
LEMMA ListsStartShowing == ASSUME ListingsInit PROVE ShownInv /\ ActsInv
<1>1. PICK q : q = Fetch(merchantId, <<>>, 1)
  OBVIOUS
<1>2. q.kind = "fetch" /\ q.at = "server" /\ q.merchant = merchantId /\ q.pages = <<>>
  BY <1>1 DEF Fetch
<1>3. request = [i \in Slots |-> IF i = 1 THEN q ELSE Free] /\ 1 \in Slots
  BY <1>1, ListingsAssumption DEF ListingsInit, Slots
<1>4. Fetches = {1} /\ request[1] = q
  BY <1>2, <1>3, FreeIsNoFetch DEF Fetches
<1> QED BY <1>2, <1>4 DEF ShownInv, FirstFetch, FetchedChosen, PagesOf, ActsInv

(* And which merchant's pages they are, and how recent, if nothing failed.   *)
THEOREM ListsShowHolds == ListingsSpec => [](ListsInv /\ ShownInv /\ ActsInv)
<1>1. ListsInv /\ ShownInv /\ ActsInv /\ [ListingsNext]_listingsVars => (ListsInv /\ ShownInv /\ ActsInv)'
  BY StepKeepsLists, StutterKeepsLists, StepShows, StutterShows
<1>2. ListingsInit => ListsInv /\ ShownInv /\ ActsInv
  BY ListsStart, ListsStartShowing
<1> QED BY <1>1, <1>2, PTL DEF ListingsSpec

(* Once everything has come in.                                             *)
LEMMA NothingInFlight == ASSUME Quiet PROVE Fetches = {} /\ ~Unsettled
<1>1. \A i \in Slots : request[i] = Free
  BY DEF Quiet, FreeSlots
<1> QED BY <1>1, FreeIsNoFetch DEF Fetches, Unsettled

(* When everything has come in the list shows rows of the merchant that is  *)
(* chosen, although no key of the cache names one (payments-queries.ts:14). *)
THEOREM ChosenIsListed == ListingsSpec => []ShowsChosen
<1>1. ShownInv => ShowsChosen
  BY NothingInFlight DEF ShownInv, FetchedChosen, PagesOf, ShowsChosen
<1> QED BY <1>1, ListsShowHolds, PTL

(* What was added, deleted or decided here is in the list once it has been  *)
(* invalidated and loaded again (payments-page.tsx).                        *)
THEOREM OwnActsListed == ListingsSpec => []OwnActsShow
<1>1. ActsInv => OwnActsShow
  BY NothingInFlight DEF ActsInv, Current, ByOneself, OwnActsShow
<1> QED BY <1>1, ListsShowHolds, PTL
=============================================================================
