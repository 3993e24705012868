----------------------- MODULE DerivedAddressesProofs -----------------------
(* For any wallets, keys, payments and requests: the types; that deriving   *)
(* leaves no gap among the addresses of a key whose wallets are kept; and   *)
(* that an address is issued once if no wallet is deleted, every wallet is  *)
(* served by one request at a time and no request ends between storing a    *)
(* transaction and marking its address.                                     *)
EXTENDS DerivedAddresses, WellFoundedInduction, TLAPS

OneRequestPerWallet ==
  \A k, l \in Workers : k # l => Serves[k] \cap Serves[l] = {}

-----------------------------------------------------------------------------
(* Least and greatest indexes                                               *)

Below == {ss \in Nat \X Nat : ss[1] < ss[2]}

LEMMA BelowIsWellFounded == IsWellFoundedOn(Below, Nat)
BY NatLessThanWellFounded, Zenon DEF OpToRel, Below

LEMMA LeastNatural ==
  ASSUME NEW S, S \subseteq Nat, S # {}
  PROVE  \E x \in S : \A y \in S : x =< y
<1>1. PICK x \in S : \A y \in S : ~(<<y, x>> \in Below)
  BY BelowIsWellFounded, WFMin
<1>2. ASSUME NEW y \in S PROVE x =< y
  <2>1. x \in Nat /\ y \in Nat
    OBVIOUS
  <2>2. <<y, x>> \in Below <=> y < x
    BY <2>1 DEF Below
  <2> QED BY <2>1, <2>2, <1>1
<1> QED BY <1>2

LEMMA MinIsMember ==
  ASSUME NEW S, S \subseteq Nat, S # {}
  PROVE  Min(S) \in S
BY LeastNatural DEF Min

LEMMA MaxOfBounded ==
  ASSUME NEW S, S \subseteq Nat \cup {-1}, S # {},
         NEW b \in Nat, \A x \in S : x =< b
  PROVE  Max(S) \in S /\ \A x \in S : Max(S) >= x
<1> DEFINE T == {n \in Nat : \A x \in S : x =< n}
<1>1. b \in T /\ T \subseteq Nat
  OBVIOUS
<1> HIDE DEF T
<1>2. PICK m \in T : \A n \in T : m =< n
  BY <1>1, LeastNatural
<1> USE DEF T
<1>3. \E x \in S : \A y \in S : x >= y
  <2>1. CASE m \in S
    BY <2>1, <1>2
  <2>2. CASE m \notin S /\ m > 0
    <3>1. m - 1 \in T
      BY <2>2, <1>2
    <3> QED BY <3>1, <1>2
  <2>3. CASE m \notin S /\ m = 0
    <3>1. \A x \in S : x = -1
      BY <2>3, <1>2
    <3>2. \A x, y \in S : x >= y
      BY <3>1
    <3> QED BY <3>2
  <2> QED BY <2>1, <2>2, <2>3
<1> QED BY <1>3 DEF Max

-----------------------------------------------------------------------------
(* Types: the derived indexes have an upper bound, so that the next index   *)
(* is a number.                                                             *)

Bounded == \E b \in Nat : \A x \in rows : x.index =< b
LastTyped == last \in [Wallets -> Nat \cup {-1}]

LEMMA NextIndexIsFree ==
  ASSUME TypeOK, Bounded, LastTyped, NEW w \in Wallets
  PROVE  /\ NextIndex(w) \in Nat
         /\ NextIndex(w) - 1 \in SharedIndexes(w) \cup {last[w]}
         /\ \A x \in rows : KeyOf[x.wallet] = KeyOf[w] => x.index < NextIndex(w)
<1> DEFINE S == SharedIndexes(w) \cup {last[w]}
<1>1. \A x \in rows : x.wallet \in Wallets /\ x.index \in Nat
  BY DEF TypeOK, Rows
<1>2. S \subseteq Nat \cup {-1} /\ S # {}
  BY <1>1 DEF SharedIndexes, LastTyped
<1>3. PICK b \in Nat : \A x \in rows : x.index =< b
  BY DEF Bounded
<1>4. PICK c \in Nat : \A x \in S : x =< c
  <2>1. CASE last[w] =< b
    BY <2>1, <1>3, <1>1 DEF SharedIndexes
  <2>2. CASE last[w] > b
    <3>1. last[w] \in Nat
      BY <2>2 DEF LastTyped
    <3>2. \A x \in S : x =< last[w]
      BY <3>1, <2>2, <1>3, <1>1 DEF SharedIndexes
    <3> QED BY <3>1, <3>2
  <2>3. last[w] \in Int
    BY DEF LastTyped
  <2> QED BY <2>1, <2>2, <2>3
<1> HIDE DEF S
<1>5. Max(S) \in S /\ \A x \in S : Max(S) >= x
  BY <1>2, <1>4, MaxOfBounded
<1>6. NextIndex(w) = Max(S) + 1
  BY DEF NextIndex, S
<1>7. NextIndex(w) \in Nat /\ NextIndex(w) - 1 \in S
  <2>1. Max(S) \in Nat \cup {-1}
    BY <1>2, <1>5
  <2> QED BY <2>1, <1>5, <1>6
<1>8. ASSUME NEW x \in rows, KeyOf[x.wallet] = KeyOf[w]
      PROVE  x.index < NextIndex(w)
  <2>1. x.index \in S
    BY <1>8 DEF S, SharedIndexes
  <2>2. Max(S) \in Nat \cup {-1}
    BY <1>2, <1>5
  <2>3. x.index \in Nat /\ Max(S) >= x.index
    BY <2>1, <1>1, <1>5
  <2> QED BY <2>2, <2>3, <1>6
<1> QED BY <1>7, <1>8 DEF S

(* A request that is not idle carries a wallet, a payment and an index.     *)
Busy == [pc : Steps, wallet : Wallets, payment : Payments \cup {NoPayment},
         index : Nat, tries : Nat]

LEMMA JobTyped ==
  /\ \A pc \in Steps, w \in Wallets, p \in Payments \cup {NoPayment},
        i \in Nat, n \in Nat : Job(pc, w, p, i, n) \in Busy
  /\ \A pc, w, p, i, n :
       /\ Job(pc, w, p, i, n).pc = pc /\ Job(pc, w, p, i, n).wallet = w
       /\ Job(pc, w, p, i, n).payment = p /\ Job(pc, w, p, i, n).index = i
  /\ Busy \subseteq WorkerStates /\ Idle \in WorkerStates
  /\ Idle.pc = "idle" /\ "idle" \notin Steps
BY DEF Job, Busy, WorkerStates, Idle, Steps

LEMMA BusyTyped ==
  ASSUME TypeOK, NEW k \in Workers, worker[k].pc # "idle"
  PROVE  worker[k] \in Busy
BY DEF TypeOK, WorkerStates, Busy, Idle

(* What a request does to its own record.                                   *)
LEMMA Taking ==
  ASSUME TypeOK, NEW k \in Workers, NEW step \in WorkerStates,
         WorkerTakes(k, step)
  PROVE  /\ worker' \in [Workers -> WorkerStates]
         /\ worker'[k] = step
         /\ \A l \in Workers \ {k} : worker'[l] = worker[l]
BY DEF TypeOK, WorkerTakes

LEMMA Moving ==
  ASSUME TypeOK, NEW k \in Workers, worker[k].pc # "idle",
         NEW step \in Steps, NEW i \in Nat, NEW n \in Nat,
         MovesTo(k, step, i, n)
  PROVE  /\ worker' \in [Workers -> WorkerStates]
         /\ worker'[k] = Job(step, worker[k].wallet, worker[k].payment, i, n)
         /\ \A l \in Workers \ {k} : worker'[l] = worker[l]
<1>1. worker[k] \in Busy
  BY BusyTyped
<1>2. Job(step, worker[k].wallet, worker[k].payment, i, n) \in WorkerStates
  BY <1>1, JobTyped DEF Busy
<1> QED BY <1>2, Taking DEF MovesTo

TInv == TypeOK /\ Bounded /\ LastTyped

LEMMA RowsShrink ==
  ASSUME Bounded, TypeOK, rows' \subseteq rows
  PROVE  rows' \subseteq Rows /\ Bounded'
BY DEF Bounded, TypeOK

LEMMA TInvInit == Init => TInv
<1> SUFFICES ASSUME Init PROVE TInv
  OBVIOUS
<1>1. TypeOK
  BY JobTyped DEF Init, TypeOK
<1>2. Bounded /\ LastTyped
  BY DEF Init, Bounded, LastTyped
<1> QED BY <1>1, <1>2 DEF TInv

LEMMA WalletStepTyped ==
  ASSUME TInv, NEW w \in Wallets,
         CreateXpubWallet(w) \/ DeleteDerivedAddresses(w) \/ HardDeleteXpubWallet(w)
  PROVE  TInv'
<1> USE DEF TInv
<1>1. CASE CreateXpubWallet(w)
  BY <1>1 DEF CreateXpubWallet, TypeOK, Bounded, LastTyped
<1>2. CASE DeleteDerivedAddresses(w)
  BY <1>2, RowsShrink DEF DeleteDerivedAddresses, TypeOK, LastTyped
<1>3. CASE HardDeleteXpubWallet(w)
  BY <1>3 DEF HardDeleteXpubWallet, TypeOK, Bounded, LastTyped
<1> QED BY <1>1, <1>2, <1>3

LEMMA CreateTyped ==
  ASSUME TInv, NEW k \in Workers, CreateDerivedAddress(k)
  PROVE  TInv'
<1> USE DEF TInv
<1> DEFINE w == worker[k].wallet  i == worker[k].index  n == worker[k].tries
<1>1. worker[k].pc # "idle" /\ w \in Wallets /\ i \in Nat /\ n \in Nat
  BY BusyTyped, JobTyped DEF CreateDerivedAddress, At, Busy
<1> HIDE DEF w, i, n
<1>2. UNCHANGED <<wallet, last, issued, removing, faults>>
  BY DEF CreateDerivedAddress
<1>3. worker' \in [Workers -> WorkerStates]
  <2>1. CASE MovesTo(k, "update", i, n)
    BY <2>1, <1>1, Moving DEF Steps
  <2>2. CASE MovesTo(k, "insert", i + 1, n + 1)
    BY <2>2, <1>1, Moving DEF Steps
  <2>3. CASE WorkerTakes(k, Idle)
    BY <2>3, Taking, JobTyped
  <2> QED BY <2>1, <2>2, <2>3 DEF CreateDerivedAddress, w, i, n
<1>4. rows' \subseteq Rows /\ Bounded'
  <2>1. CASE rows' = rows \cup {Row(w, i, FALSE)}
    <3>1. Row(w, i, FALSE) \in Rows /\ Row(w, i, FALSE).index = i
      BY <1>1 DEF Row, Rows
    <3>2. PICK b \in Nat : \A x \in rows : x.index =< b
      BY DEF Bounded
    <3>3. \A x \in rows : x.index \in Nat
      BY DEF TypeOK, Rows
    <3>4. ASSUME NEW x \in rows' PROVE x.index =< b + i
      <4>1. CASE x \in rows
        <5>1. x.index \in Nat /\ x.index =< b
          BY <4>1, <3>2, <3>3
        <5> QED BY <5>1, <1>1
      <4>2. CASE x = Row(w, i, FALSE)
        <5>1. x.index = i
          BY <4>2, <3>1
        <5>2. i =< b + i
          BY <1>1
        <5> QED BY <5>1, <5>2
      <4> QED BY <2>1, <4>1, <4>2
    <3>5. b + i \in Nat
      BY <1>1
    <3>6. Bounded'
      BY <3>4, <3>5 DEF Bounded
    <3> QED BY <2>1, <3>1, <3>6 DEF TypeOK
  <2>2. CASE UNCHANGED rows
    BY <2>2, RowsShrink
  <2> QED BY <2>1, <2>2 DEF CreateDerivedAddress, w, i
<1> QED BY <1>2, <1>3, <1>4 DEF TypeOK, LastTyped

LEMMA MarkTyped ==
  ASSUME TInv, NEW k \in Workers, MarkAddressAsUsed(k)
  PROVE  TInv'
<1> USE DEF TInv
<1> DEFINE w == worker[k].wallet  i == worker[k].index
<1>1. w \in Wallets /\ i \in Nat
  BY BusyTyped, JobTyped DEF MarkAddressAsUsed, At, Busy
<1> HIDE DEF w, i
<1>2. UNCHANGED <<wallet, last, issued, removing, faults>>
      /\ worker' \in [Workers -> WorkerStates]
  BY Taking, JobTyped DEF MarkAddressAsUsed
<1>3. rows' \subseteq Rows /\ Bounded'
  <2>1. CASE rows' = (rows \ {Row(w, i, FALSE)}) \cup {Row(w, i, TRUE)}
             /\ Row(w, i, FALSE) \in rows
    <3>1. Row(w, i, TRUE) \in Rows /\ Row(w, i, TRUE).index = i
          /\ Row(w, i, FALSE).index = i
      BY <1>1 DEF Row, Rows
    <3>2. PICK b \in Nat : \A x \in rows : x.index =< b
      BY DEF Bounded
    <3>3. \A x \in rows' : x.index =< b
      BY <2>1, <3>1, <3>2
    <3> QED BY <2>1, <3>1, <3>3 DEF TypeOK, Bounded
  <2>2. CASE UNCHANGED rows
    BY <2>2, RowsShrink
  <2> QED BY <2>1, <2>2 DEF MarkAddressAsUsed, w, i
<1> QED BY <1>2, <1>3 DEF TypeOK, LastTyped

LEMMA WorkerStepTyped ==
  ASSUME TInv, NEW k \in Workers, WorkerNext(k)
  PROVE  TInv'
<1> USE DEF TInv
<1>1. ASSUME UNCHANGED <<wallet, last, rows, issued, removing, faults>>,
             worker' \in [Workers -> WorkerStates]
      PROVE  TInv'
  BY <1>1 DEF TypeOK, Bounded, LastTyped
<1>2. ASSUME NEW w \in Wallets, DeriveByHand(k, w) PROVE TInv'
  <2>1. Job("read", w, NoPayment, 0, 0) \in WorkerStates
    BY JobTyped DEF Steps
  <2> QED BY <1>1, <1>2, <2>1, Taking DEF DeriveByHand
<1>3. ASSUME NEW w \in Wallets, NEW p \in Payments, GetNextUnusedAddress(k, w, p)
      PROVE  TInv'
  <2>1. Job("read", w, p, 0, 0) \in WorkerStates
    BY JobTyped DEF Steps
  <2>2. Unused(w) # {} => Job("store", w, p, Min(Unused(w)), 0) \in WorkerStates
    <3>1. Unused(w) \subseteq Nat
      BY DEF Unused, TypeOK, Rows
    <3> QED BY <3>1, MinIsMember, JobTyped DEF Steps
  <2> QED BY <1>1, <1>3, <2>1, <2>2, Taking DEF GetNextUnusedAddress
<1>4. CASE ReadIndex(k)
  <2>1. worker[k].pc # "idle" /\ worker[k].wallet \in Wallets
    BY <1>4, BusyTyped DEF ReadIndex, At, Busy
  <2>2. NextIndex(worker[k].wallet) \in Nat
    BY <2>1, NextIndexIsFree
  <2>3. worker' \in [Workers -> WorkerStates]
    BY <1>4, <2>1, <2>2, Moving, Taking, JobTyped DEF ReadIndex, Steps
  <2> QED BY <1>1, <1>4, <2>3 DEF ReadIndex
<1>5. CASE CreateDerivedAddress(k)
  BY <1>5, CreateTyped
<1>6. CASE UpdateLastIndex(k)
  <2>1. worker[k].pc # "idle" /\ worker[k] \in Busy
    BY <1>6, BusyTyped DEF UpdateLastIndex, At
  <2>2. worker' \in [Workers -> WorkerStates]
    BY <1>6, <2>1, Moving, Taking, JobTyped DEF UpdateLastIndex, Steps, Busy
  <2>3. LastTyped' /\ faults' \in Nat
    BY <1>6, <2>1 DEF UpdateLastIndex, LastTyped, Busy, TypeOK
  <2> QED BY <1>6, <2>2, <2>3 DEF UpdateLastIndex, TypeOK, LastTyped, Bounded
<1>7. CASE CreateTransaction(k)
  <2>1. worker[k].pc # "idle" /\ worker[k] \in Busy
    BY <1>7, BusyTyped DEF CreateTransaction, At
  <2>2. worker' \in [Workers -> WorkerStates]
    BY <1>7, <2>1, Moving DEF CreateTransaction, Steps, Busy
  <2>3. Address(worker[k].wallet, worker[k].index) \in Addresses
    BY <2>1, WalletsAssumption DEF Address, Addresses, Busy
  <2>4. issued' \in [Payments -> Addresses \cup {NoAddress}]
    BY <1>7, <2>3 DEF CreateTransaction, TypeOK
  <2> QED BY <1>7, <2>2, <2>4 DEF CreateTransaction, TypeOK, LastTyped, Bounded
<1>8. CASE MarkAddressAsUsed(k)
  BY <1>8, MarkTyped
<1>9. CASE RequestEnds(k)
  BY <1>9, Taking, JobTyped DEF RequestEnds, TypeOK, Bounded, LastTyped
<1> QED BY <1>2, <1>3, <1>4, <1>5, <1>6, <1>7, <1>8, <1>9 DEF WorkerNext

LEMMA TInvStep == TInv /\ [Next]_vars => TInv'
<1> SUFFICES ASSUME TInv, [Next]_vars PROVE TInv'
  OBVIOUS
<1>1. CASE UNCHANGED vars
  BY <1>1 DEF vars, TInv, TypeOK, Bounded, LastTyped
<1>2. CASE Next
  BY <1>2, WalletStepTyped, WorkerStepTyped DEF Next
<1> QED BY <1>1, <1>2

(* Every wallet, row, address and request is well typed.                    *)
THEOREM AddressesTyped == Spec => []TypeOK
<1>1. TInv => TypeOK
  BY DEF TInv
<1> QED BY <1>1, TInvInit, TInvStep, PTL DEF Spec

-----------------------------------------------------------------------------
(* Gaps: of a key that is kept, every index below the one a request is      *)
(* about to insert is taken, and a wallet's own counter stands at a taken   *)
(* index.                                                                   *)

LEMMA KeptTogether ==
  ASSUME NEW v \in Wallets, NEW w \in Wallets, KeyOf[v] = KeyOf[w], w \in Kept
  PROVE  v \in Kept
BY DEF Kept

Climbs(k) == worker[k].pc # "idle" /\ worker[k].wallet \in Kept =>
  /\ worker[k].pc = "insert" =>
       \A i \in 0..(worker[k].index - 1) : Taken(worker[k].wallet, i)
  /\ worker[k].pc = "update" => Taken(worker[k].wallet, worker[k].index)

LastDerived == \A w \in Kept : last[w] = -1 \/ Taken(w, last[w])

GapInv == NoGaps /\ LastDerived /\ \A k \in Workers : Climbs(k)

(* A step of request k that removes no index, adds at most one whose lower  *)
(* neighbours are taken, and keeps what k and the wallets know.             *)
LEMMA GapFrame ==
  ASSUME TInv, TInv', GapInv, NEW k \in Workers,
         \A w \in Wallets, i \in Nat : Taken(w, i) => Taken(w, i)',
         \A x \in rows' : x.wallet \in Kept =>
           \/ Taken(x.wallet, x.index)
           \/ \A i \in 0..(x.index - 1) : Taken(x.wallet, i)',
         \A w \in Kept : last'[w] = last[w] \/ Taken(w, last'[w]),
         \A l \in Workers \ {k} : worker'[l] = worker[l],
         Climbs(k)'
  PROVE  GapInv'
<1>1. ASSUME NEW x \in rows', x.wallet \in Kept, NEW i \in 0..x.index
      PROVE  Taken(x.wallet, i)'
  <2>1. x.wallet \in Wallets /\ x.index \in Nat
    BY DEF TInv, TypeOK, Rows
  <2>2. CASE Taken(x.wallet, x.index)
    <3>1. PICK y \in rows : KeyOf[y.wallet] = KeyOf[x.wallet] /\ y.index = x.index
      BY <2>2 DEF Taken
    <3>2. y.wallet \in Kept
      BY <1>1, <2>1, <3>1, KeptTogether DEF TInv, TypeOK, Rows
    <3>3. Taken(y.wallet, i)
      BY <3>1, <3>2 DEF GapInv, NoGaps
    <3>4. Taken(x.wallet, i)
      BY <3>1, <3>3 DEF Taken
    <3> QED BY <3>4, <2>1
  <2>3. CASE \A j \in 0..(x.index - 1) : Taken(x.wallet, j)'
    <3>1. CASE i = x.index
      BY <3>1 DEF Taken
    <3>2. CASE i # x.index
      <4>1. i \in 0..(x.index - 1)
        BY <3>2, <2>1
      <4> QED BY <4>1, <2>3
    <3> QED BY <3>1, <3>2
  <2> QED BY <1>1, <2>2, <2>3
<1>2. NoGaps'
  BY <1>1 DEF NoGaps, Kept
<1>3. LastDerived'
  <2> SUFFICES ASSUME NEW w \in Kept, last'[w] # -1 PROVE Taken(w, last[w])'
    BY DEF LastDerived, Kept
  <2>1. w \in Wallets /\ \E j \in Nat : j = last'[w]
    BY DEF TInv, LastTyped, Kept
  <2>2. Taken(w, last'[w])
    BY <2>1 DEF GapInv, LastDerived
  <2> QED BY <2>1, <2>2
<1>4. ASSUME NEW l \in Workers PROVE Climbs(l)'
  <2>1. CASE l # k
    <3>1. worker'[l] = worker[l] /\ Climbs(l)
      BY <2>1 DEF GapInv
    <3>2. CASE worker[l].pc \in {"insert", "update"} /\ worker[l].wallet \in Kept
      <4>1. worker[l].wallet \in Wallets /\ worker[l].index \in Nat
        BY <3>2, BusyTyped DEF TInv, Busy
      <4> QED BY <3>1, <3>2, <4>1 DEF Climbs, Kept
    <3> QED BY <3>1, <3>2 DEF Climbs, Kept
  <2> QED BY <2>1
<1> QED BY <1>2, <1>3, <1>4 DEF GapInv

(* A step that leaves the rows and counters alone.                          *)
LEMMA GapStutter ==
  ASSUME TInv, TInv', GapInv, NEW k \in Workers, UNCHANGED <<rows, last>>,
         \A l \in Workers \ {k} : worker'[l] = worker[l], Climbs(k)'
  PROVE  GapInv'
<1>1. \A w, i : Taken(w, i)' <=> Taken(w, i)
  BY DEF Taken
<1>2. \A x \in rows' : Taken(x.wallet, x.index)
  BY DEF Taken
<1> QED BY <1>1, <1>2, GapFrame

LEMMA GapCreate ==
  ASSUME TInv, TInv', GapInv, NEW k \in Workers, CreateDerivedAddress(k)
  PROVE  GapInv'
<1>1. PICK w \in Wallets, i \in Nat, n \in Nat :
        /\ worker[k].pc = "insert" /\ worker[k].wallet = w
        /\ worker[k].index = i /\ worker[k].tries = n
  BY BusyTyped DEF CreateDerivedAddress, At, Busy, TInv
<1>2. w \in Kept => \A j \in 0..(i - 1) : Taken(w, j)
  BY <1>1 DEF GapInv, Climbs
<1>3. last' = last
  BY DEF CreateDerivedAddress
<1>4. CASE rows' = rows \cup {Row(w, i, FALSE)} /\ MovesTo(k, "update", i, n)
  <2>1. worker'[k] = Job("update", w, worker[k].payment, i, n)
        /\ \A l \in Workers \ {k} : worker'[l] = worker[l]
    BY <1>1, <1>4, Moving DEF TInv, Steps
  <2>2. \A v, j : Taken(v, j) => Taken(v, j)'
    BY <1>4 DEF Taken
  <2>3. Row(w, i, FALSE).wallet = w /\ Row(w, i, FALSE).index = i
    BY DEF Row
  <2>4. Taken(w, i)'
    BY <2>3, <1>4 DEF Taken
  <2>5. Climbs(k)'
    BY <2>1, <2>4, JobTyped DEF Climbs
  <2>6. ASSUME NEW x \in rows', x.wallet \in Kept
        PROVE  \/ Taken(x.wallet, x.index)
               \/ \A j \in 0..(x.index - 1) : Taken(x.wallet, j)'
    <3>1. CASE x \in rows
      BY <3>1 DEF Taken
    <3>2. CASE x = Row(w, i, FALSE)
      BY <3>2, <2>2, <2>3, <2>6, <1>2
    <3> QED BY <3>1, <3>2, <1>4
  <2> QED BY <1>3, <2>1, <2>2, <2>5, <2>6, GapFrame
<1>5. CASE Taken(w, i) /\ MovesTo(k, "insert", i + 1, n + 1) /\ UNCHANGED rows
  <2>0. i + 1 \in Nat /\ n + 1 \in Nat /\ "insert" \in Steps
    BY DEF Steps
  <2>1. worker'[k] = Job("insert", w, worker[k].payment, i + 1, n + 1)
        /\ \A l \in Workers \ {k} : worker'[l] = worker[l]
    BY <2>0, <1>1, <1>5, Moving DEF TInv
  <2>2. \A j \in 0..(i + 1 - 1) : j \in 0..(i - 1) \/ j = i
    BY <1>1
  <2>3. w \in Kept => \A j \in 0..(i + 1 - 1) : Taken(w, j)'
    BY <2>2, <1>2, <1>5 DEF Taken
  <2>4. Climbs(k)'
    BY <2>1, <2>3, JobTyped DEF Climbs
  <2> QED BY <1>3, <1>5, <2>1, <2>4, GapStutter
<1>6. CASE WorkerTakes(k, Idle) /\ UNCHANGED rows
  <2>1. worker'[k] = Idle /\ \A l \in Workers \ {k} : worker'[l] = worker[l]
    BY <1>6, Taking, JobTyped DEF TInv
  <2>2. Climbs(k)'
    BY <2>1, JobTyped DEF Climbs
  <2> QED BY <1>3, <1>6, <2>1, <2>2, GapStutter
<1> QED BY <1>1, <1>4, <1>5, <1>6 DEF CreateDerivedAddress

LEMMA GapMark ==
  ASSUME TInv, TInv', GapInv, NEW k \in Workers, MarkAddressAsUsed(k)
  PROVE  GapInv'
<1> DEFINE w == worker[k].wallet  i == worker[k].index
<1>1. worker'[k] = Idle /\ \A l \in Workers \ {k} : worker'[l] = worker[l]
  BY Taking, JobTyped DEF MarkAddressAsUsed, TInv
<1>2. Climbs(k)'
  BY <1>1, JobTyped DEF Climbs
<1> HIDE DEF w, i
<1>3. Row(w, i, FALSE).wallet = w /\ Row(w, i, FALSE).index = i
      /\ Row(w, i, TRUE).wallet = w /\ Row(w, i, TRUE).index = i
  BY DEF Row
<1>4. CASE Row(w, i, FALSE) \in rows
           /\ rows' = (rows \ {Row(w, i, FALSE)}) \cup {Row(w, i, TRUE)}
  <2>1. \A v, j : Taken(v, j)' <=> Taken(v, j)
    BY <1>3, <1>4 DEF Taken
  <2>2. \A x \in rows' : Taken(x.wallet, x.index)
    BY <2>1 DEF Taken
  <2> QED BY <1>1, <1>2, <2>1, <2>2, GapFrame DEF MarkAddressAsUsed
<1>5. CASE UNCHANGED rows
  BY <1>1, <1>2, <1>5, GapStutter DEF MarkAddressAsUsed
<1> QED BY <1>4, <1>5 DEF MarkAddressAsUsed, w, i

LEMMA GapUpdate ==
  ASSUME TInv, TInv', GapInv, NEW k \in Workers, UpdateLastIndex(k)
  PROVE  GapInv'
<1>1. worker[k].pc = "update" /\ worker[k] \in Busy
  BY BusyTyped DEF UpdateLastIndex, At, TInv
<1>2. worker[k].wallet \in Kept => Taken(worker[k].wallet, worker[k].index)
  BY <1>1 DEF GapInv, Climbs
<1>3. \A w \in Kept : last'[w] = last[w] \/ Taken(w, last'[w])
  BY <1>2 DEF UpdateLastIndex, TInv, LastTyped, Kept
<1>4. /\ worker'[k].pc \in {"idle", "store"}
      /\ \A l \in Workers \ {k} : worker'[l] = worker[l]
  <2>1. CASE WorkerTakes(k, Idle)
    BY <2>1, Taking, JobTyped DEF TInv
  <2>2. CASE MovesTo(k, "store", worker[k].index, 0)
    <3>1. /\ worker'[k] = Job("store", worker[k].wallet, worker[k].payment,
                              worker[k].index, 0)
          /\ \A l \in Workers \ {k} : worker'[l] = worker[l]
      BY <2>2, <1>1, Moving DEF TInv, Steps, Busy
    <3> QED BY <3>1, JobTyped
  <2> QED BY <2>1, <2>2 DEF UpdateLastIndex
<1>5. Climbs(k)'
  BY <1>4 DEF Climbs
<1>6. rows' = rows
  BY DEF UpdateLastIndex
<1>7. \A w, i : Taken(w, i)' <=> Taken(w, i)
  BY <1>6 DEF Taken
<1>8. \A x \in rows' : Taken(x.wallet, x.index)
  BY <1>6 DEF Taken
<1> QED BY <1>3, <1>4, <1>5, <1>7, <1>8, GapFrame

LEMMA GapRead ==
  ASSUME TInv, TInv', GapInv, NEW k \in Workers, ReadIndex(k)
  PROVE  GapInv'
<1>1. PICK w \in Wallets : worker[k].pc # "idle" /\ worker[k].wallet = w
  BY BusyTyped DEF ReadIndex, At, TInv, Busy
<1>2. NextIndex(w) \in Nat /\ NextIndex(w) - 1 \in SharedIndexes(w) \cup {last[w]}
  BY <1>1, NextIndexIsFree DEF TInv
<1>3. ASSUME w \in Kept PROVE \A i \in 0..(NextIndex(w) - 1) : Taken(w, i)
  <2>1. CASE NextIndex(w) - 1 = -1
    BY <2>1, <1>2
  <2>2. CASE NextIndex(w) - 1 # -1
    <3>1. Taken(w, NextIndex(w) - 1)
      BY <1>1, <1>2, <1>3, <2>2 DEF SharedIndexes, Taken, GapInv, LastDerived
    <3>2. PICK x \in rows : KeyOf[x.wallet] = KeyOf[w] /\ x.index = NextIndex(w) - 1
      BY <3>1 DEF Taken
    <3>3. x.wallet \in Kept
      BY <1>3, <3>2, KeptTogether DEF TInv, TypeOK, Rows
    <3>4. \A i \in 0..(NextIndex(w) - 1) : Taken(x.wallet, i)
      BY <3>2, <3>3 DEF GapInv, NoGaps
    <3> QED BY <3>2, <3>4 DEF Taken
  <2> QED BY <2>1, <2>2
<1>4. UNCHANGED <<rows, last>>
  BY DEF ReadIndex
<1>5. \A l \in Workers \ {k} : worker'[l] = worker[l]
  BY <1>1, <1>2, Moving, Taking, JobTyped DEF ReadIndex, TInv, Steps
<1>6. CASE MovesTo(k, "insert", NextIndex(w), 0)
  <2>0. PICK next \in Nat : next = NextIndex(w)
    BY <1>2
  <2>1. worker'[k] = Job("insert", w, worker[k].payment, next, 0)
    BY <1>1, <2>0, <1>6, Moving DEF TInv, Steps
  <2>2. w \in Kept => \A i \in 0..(next - 1) : Taken(w, i)'
    BY <1>3, <1>4, <2>0 DEF Taken
  <2>3. Climbs(k)'
    BY <2>1, <2>2, JobTyped DEF Climbs
  <2> QED BY <1>4, <1>5, <2>3, GapStutter
<1>7. CASE WorkerTakes(k, Idle)
  <2>1. Climbs(k)'
    BY <1>7, Taking, JobTyped DEF Climbs, TInv
  <2> QED BY <1>4, <1>5, <2>1, GapStutter
<1> QED BY <1>1, <1>6, <1>7 DEF ReadIndex

(* A step after which request k neither inserts nor updates an index.       *)
LEMMA GapOther ==
  ASSUME TInv, TInv', GapInv, NEW k \in Workers, WorkerNext(k),
         UNCHANGED <<rows, last>>,
         \A l \in Workers \ {k} : worker'[l] = worker[l],
         worker'[k].pc \notin {"insert", "update"}
  PROVE  GapInv'
<1>1. Climbs(k)'
  BY DEF Climbs
<1> QED BY <1>1, GapStutter

(* A deletion takes indexes only of a key that is not kept.                 *)
LEMMA GapDelete ==
  ASSUME TInv, GapInv, NEW w \in Wallets, DeleteDerivedAddresses(w)
  PROVE  GapInv'
<1>1. w \in Deletable /\ UNCHANGED <<last, worker>>
      /\ rows' = {x \in rows : x.wallet # w}
  BY DEF DeleteDerivedAddresses
<1>2. \A v \in Kept, i \in Nat : Taken(v, i)' <=> Taken(v, i)
  BY <1>1 DEF Kept, Taken
<1>3. NoGaps'
  <2> SUFFICES ASSUME NEW x \in rows', x.wallet \in Kept, NEW i \in 0..x.index
               PROVE  Taken(x.wallet, i)'
    BY DEF NoGaps, Kept
  <2>1. x \in rows /\ i \in Nat
    BY <1>1 DEF TInv, TypeOK, Rows
  <2> QED BY <1>2, <2>1 DEF GapInv, NoGaps
<1>4. LastDerived'
  <2> SUFFICES ASSUME NEW v \in Kept, last[v] # -1 PROVE Taken(v, last[v])'
    BY <1>1 DEF LastDerived, Kept
  <2>1. last[v] \in Nat
    BY DEF TInv, LastTyped, Kept
  <2> QED BY <1>1, <1>2, <2>1 DEF GapInv, LastDerived
<1>5. ASSUME NEW k \in Workers PROVE Climbs(k)'
  <2> SUFFICES ASSUME worker[k].pc # "idle", worker[k].wallet \in Kept
               PROVE  Climbs(k)'
    BY <1>1 DEF Climbs, Kept
  <2>1. worker[k].index \in Nat
    BY BusyTyped DEF TInv, Busy
  <2>2. Climbs(k)
    BY DEF GapInv
  <2> QED BY <1>1, <1>2, <2>1, <2>2 DEF Climbs, Kept
<1> QED BY <1>3, <1>4, <1>5 DEF GapInv

LEMMA GapStep ==
  ASSUME TInv, TInv', GapInv, [Next]_vars
  PROVE  GapInv'
<1>1. ASSUME UNCHANGED <<rows, last, worker>> PROVE GapInv'
  BY <1>1 DEF GapInv, NoGaps, LastDerived, Climbs, Taken, Kept
<1>2. CASE UNCHANGED vars
  BY <1>1, <1>2 DEF vars
<1>3. ASSUME NEW w \in Wallets,
             CreateXpubWallet(w) \/ DeleteDerivedAddresses(w) \/ HardDeleteXpubWallet(w)
      PROVE  GapInv'
  BY <1>1, <1>3, GapDelete DEF CreateXpubWallet, HardDeleteXpubWallet
<1>4. ASSUME NEW k \in Workers, WorkerNext(k) PROVE GapInv'
  <2>1. ASSUME NEW w \in Wallets, DeriveByHand(k, w) PROVE GapInv'
    <3>1. Job("read", w, NoPayment, 0, 0) \in WorkerStates
      BY JobTyped DEF Steps
    <3>2. worker'[k].pc = "read" /\ \A l \in Workers \ {k} : worker'[l] = worker[l]
      BY <2>1, <3>1, Taking, JobTyped DEF DeriveByHand, TInv
    <3> QED BY <1>4, <2>1, <3>2, GapOther DEF DeriveByHand
  <2>2. ASSUME NEW w \in Wallets, NEW p \in Payments, GetNextUnusedAddress(k, w, p)
        PROVE  GapInv'
    <3>1. worker'[k].pc \in {"read", "store"}
          /\ \A l \in Workers \ {k} : worker'[l] = worker[l]
      BY <2>2, JobTyped DEF GetNextUnusedAddress, WorkerTakes, TInv, TypeOK
    <3> QED BY <1>4, <2>2, <3>1, GapOther DEF GetNextUnusedAddress
  <2>3. CASE CreateTransaction(k)
    <3>1. worker'[k].pc = "mark" /\ \A l \in Workers \ {k} : worker'[l] = worker[l]
      BY <2>3, JobTyped DEF CreateTransaction, MovesTo, WorkerTakes, TInv, TypeOK
    <3> QED BY <1>4, <2>3, <3>1, GapOther DEF CreateTransaction
  <2>4. CASE RequestEnds(k)
    <3>1. worker'[k].pc = "idle" /\ \A l \in Workers \ {k} : worker'[l] = worker[l]
      BY <2>4, JobTyped, Taking DEF RequestEnds, TInv
    <3> QED BY <1>4, <2>4, <3>1, GapOther DEF RequestEnds
  <2> QED
    BY <1>4, <2>1, <2>2, <2>3, <2>4, GapRead, GapCreate, GapUpdate, GapMark
       DEF WorkerNext
<1> QED BY <1>2, <1>3, <1>4 DEF Next

(* Of a key whose wallets are kept, however many requests derive addresses  *)
(* at once, wherever they die and whatever else is deleted, no index is     *)
(* skipped.                                                                 *)
THEOREM NoIndexSkipped == Spec => []NoGaps
<1>1. Init => GapInv
  BY JobTyped DEF Init, GapInv, NoGaps, LastDerived, Climbs, Kept
<1>2. TInv /\ TInv' /\ GapInv /\ [Next]_vars => GapInv'
  BY GapStep
<1>3. GapInv => NoGaps
  BY DEF GapInv
<1> QED BY <1>1, <1>2, <1>3, TInvInit, TInvStep, PTL DEF Spec

-----------------------------------------------------------------------------
(* Issuing: what a request holds in its hands is its own.                   *)

Serving(k) ==
  LET w == worker[k].wallet  i == worker[k].index  p == worker[k].payment IN
  worker[k].pc # "idle" =>
    /\ w \in Serves[k]
    /\ worker[k].pc \in {"update", "store", "mark"} => Row(w, i, FALSE) \in rows
    /\ worker[k].pc \in {"store", "mark"} => p \in Payments
    /\ worker[k].pc = "mark" => issued[p] = Address(w, i)
    /\ worker[k].pc # "mark" /\ p \in Payments => issued[p] = NoAddress

Marks(k, p, x) == worker[k].pc = "mark" /\ worker[k].payment = p
                  /\ worker[k].wallet = x.wallet /\ worker[k].index = x.index

RowsApart == \A x, y \in rows :
  KeyOf[x.wallet] = KeyOf[y.wallet] /\ x.index = y.index => x = y

PaymentsApart == \A k, l \in Workers :
  k # l /\ worker[k].pc # "idle" /\ worker[l].pc # "idle" =>
    worker[k].payment # worker[l].payment \/ worker[k].payment \notin Payments

IssuedTaken == \A p \in Payments : issued[p] # NoAddress =>
  \E x \in rows : issued[p] = Address(x.wallet, x.index)

(* Of an address that was issued the row is used, or about to be.           *)
IssuedUsed == \A p \in Payments, x \in rows :
  issued[p] = Address(x.wallet, x.index) => x.used \/ \E k \in Workers : Marks(k, p, x)

IssueInv ==
  /\ \A k \in Workers : Serving(k)
  /\ RowsApart /\ PaymentsApart /\ IssuedTaken /\ IssuedUsed /\ IssuedOnce

LEMMA Addressing ==
  /\ \A v, w \in Wallets, i, j \in Nat :
       Address(v, i) = Address(w, j) => KeyOf[v] = KeyOf[w] /\ i = j
  /\ \A w \in Wallets, i \in Nat : Address(w, i) # NoAddress
<1>1. \A w \in Wallets, i \in Nat : Address(w, i) \in [key : Keys, index : Nat]
  BY WalletsAssumption DEF Address
<1>2. \A w \in Wallets, i \in Nat : Address(w, i) # NoAddress
  BY <1>1, NonesAssumption
<1> QED BY <1>2 DEF Address

LEMMA UnusedRow ==
  ASSUME NEW x \in Rows, ~x.used
  PROVE  x = Row(x.wallet, x.index, FALSE)
<1>1. x.used = FALSE
  BY DEF Rows
<1> QED BY <1>1 DEF Rows, Row

(* A request takes a step that touches neither rows nor transactions.       *)
LEMMA IssueFrame ==
  ASSUME TInv, IssueInv, NEW k \in Workers, UNCHANGED <<rows, issued>>,
         \A l \in Workers \ {k} : worker'[l] = worker[l],
         Serving(k)', worker[k].pc # "mark",
         worker'[k].pc # "idle" =>
           \/ worker'[k].payment \notin Payments
           \/ \A l \in Workers \ {k} :
                worker[l].pc # "idle" => worker[l].payment # worker'[k].payment
  PROVE  IssueInv'
<1>1. ASSUME NEW l \in Workers PROVE Serving(l)'
  <2>1. CASE l # k
    BY <2>1 DEF IssueInv, Serving
  <2> QED BY <2>1
<1>2. PaymentsApart'
  BY DEF IssueInv, PaymentsApart
<1>3. RowsApart' /\ IssuedTaken' /\ IssuedOnce'
  BY DEF IssueInv, RowsApart, IssuedTaken, IssuedOnce
<1>4. IssuedUsed'
  BY DEF IssueInv, IssuedUsed, Marks
<1> QED BY <1>1, <1>2, <1>3, <1>4 DEF IssueInv

(* A request goes on with the wallet and payment it has.                    *)
LEMMA IssueOwn ==
  ASSUME TInv, IssueInv, NEW k \in Workers, UNCHANGED <<rows, issued>>,
         worker[k].pc \notin {"idle", "mark"},
         NEW step \in Steps \ {"mark"}, NEW i \in Nat, NEW n \in Nat,
         MovesTo(k, step, i, n),
         step \in {"update", "store"} => Row(worker[k].wallet, i, FALSE) \in rows,
         step = "store" => worker[k].payment \in Payments
  PROVE  IssueInv'
<1>1. /\ worker'[k] = Job(step, worker[k].wallet, worker[k].payment, i, n)
      /\ \A l \in Workers \ {k} : worker'[l] = worker[l]
  BY Moving DEF TInv
<1>2. /\ worker'[k].pc = step /\ worker'[k].wallet = worker[k].wallet
      /\ worker'[k].payment = worker[k].payment /\ worker'[k].index = i
  BY <1>1, JobTyped
<1>3. Serving(k)
  BY DEF IssueInv
<1>4. Serving(k)'
  BY <1>2, <1>3 DEF Serving
<1>5. \/ worker'[k].payment \notin Payments
      \/ \A l \in Workers \ {k} :
           worker[l].pc # "idle" => worker[l].payment # worker'[k].payment
  BY <1>2 DEF IssueInv, PaymentsApart
<1> QED BY <1>1, <1>4, <1>5, IssueFrame

LEMMA IssueEnds ==
  ASSUME TInv, IssueInv, NEW k \in Workers, UNCHANGED <<rows, issued>>,
         worker[k].pc # "mark", WorkerTakes(k, Idle)
  PROVE  IssueInv'
<1>1. worker'[k] = Idle /\ \A l \in Workers \ {k} : worker'[l] = worker[l]
  BY Taking, JobTyped DEF TInv
<1>2. Serving(k)' /\ worker'[k].pc = "idle"
  BY <1>1, JobTyped DEF Serving
<1> QED BY <1>1, <1>2, IssueFrame

(* Another request's wallet is another wallet.                              *)
LEMMA OtherWallet ==
  ASSUME OneRequestPerWallet, IssueInv, NEW k \in Workers, NEW l \in Workers, k # l,
         worker[k].pc # "idle", worker[l].pc # "idle"
  PROVE  worker[k].wallet # worker[l].wallet
<1>1. worker[k].wallet \in Serves[k] /\ worker[l].wallet \in Serves[l]
  BY DEF IssueInv, Serving
<1> QED BY <1>1 DEF OneRequestPerWallet

LEMMA IssueStart ==
  ASSUME TInv, IssueInv, NEW k \in Workers, NEW w \in Wallets, w \in Serves[k],
         worker[k].pc = "idle", UNCHANGED <<rows, issued>>,
         NEW p \in Payments \cup {NoPayment}, p \in Payments => Unserved(p),
         NEW step \in {"read", "store"}, NEW i \in Nat,
         step = "store" => p \in Payments /\ Row(w, i, FALSE) \in rows,
         WorkerTakes(k, Job(step, w, p, i, 0))
  PROVE  IssueInv'
<1>1. Job(step, w, p, i, 0) \in WorkerStates
  BY JobTyped DEF Steps
<1>2. /\ worker'[k].pc = step /\ worker'[k].wallet = w
      /\ worker'[k].payment = p /\ worker'[k].index = i
      /\ \A l \in Workers \ {k} : worker'[l] = worker[l]
  BY <1>1, Taking, JobTyped DEF TInv
<1>3. Serving(k)'
  BY <1>2 DEF Serving, Unserved
<1>4. p \in Payments => \A l \in Workers : worker[l].pc # "idle" => worker[l].payment # p
  BY JobTyped DEF Unserved
<1> QED BY <1>2, <1>3, <1>4, IssueFrame

LEMMA IssueInsert ==
  ASSUME OneRequestPerWallet, TInv, IssueInv, NEW k \in Workers,
         NEW w \in Wallets, NEW i \in Nat, NEW n \in Nat,
         worker[k].pc = "insert", worker[k].wallet = w, ~Taken(w, i),
         rows' = rows \cup {Row(w, i, FALSE)}, issued' = issued,
         MovesTo(k, "update", i, n)
  PROVE  IssueInv'
<1>1. /\ worker'[k].pc = "update" /\ worker'[k].wallet = w
      /\ worker'[k].payment = worker[k].payment /\ worker'[k].index = i
      /\ \A l \in Workers \ {k} : worker'[l] = worker[l]
  <2>1. worker'[k] = Job("update", w, worker[k].payment, i, n)
        /\ \A l \in Workers \ {k} : worker'[l] = worker[l]
    BY Moving DEF TInv, Steps
  <2> QED BY <2>1, JobTyped
<1>2. \A x \in rows : x.wallet \in Wallets /\ x.index \in Nat
  BY DEF TInv, TypeOK, Rows
<1>3. ASSUME NEW l \in Workers PROVE Serving(l)'
  <2>1. Serving(l)
    BY DEF IssueInv
  <2>2. CASE l = k
    BY <1>1, <2>1, <2>2 DEF Serving
  <2>3. CASE l # k
    BY <1>1, <2>1, <2>3 DEF Serving
  <2> QED BY <2>2, <2>3
<1>4. RowsApart'
  <2>1. \A x \in rows' : x \in rows \/ x = Row(w, i, FALSE)
    OBVIOUS
  <2>2. Row(w, i, FALSE).wallet = w /\ Row(w, i, FALSE).index = i
    BY DEF Row
  <2>3. \A x \in rows : ~(KeyOf[x.wallet] = KeyOf[w] /\ x.index = i)
    BY DEF Taken
  <2>4. ASSUME NEW x \in rows', NEW y \in rows',
               KeyOf[x.wallet] = KeyOf[y.wallet], x.index = y.index
        PROVE  x = y
    <3>1. CASE x = Row(w, i, FALSE) /\ y = Row(w, i, FALSE)
      BY <3>1
    <3>2. CASE x \in rows /\ y \in rows
      BY <3>2, <2>4 DEF IssueInv, RowsApart
    <3>3. CASE x = Row(w, i, FALSE) /\ y \in rows
      BY <3>3, <2>2, <2>3, <2>4
    <3>4. CASE x \in rows /\ y = Row(w, i, FALSE)
      BY <3>4, <2>2, <2>3, <2>4
    <3> QED BY <3>1, <3>2, <3>3, <3>4, <2>1
  <2> QED BY <2>4 DEF RowsApart
<1>5. PaymentsApart'
  BY <1>1 DEF IssueInv, PaymentsApart
<1>6. IssuedTaken' /\ IssuedOnce'
  BY DEF IssueInv, IssuedTaken, IssuedOnce
<1>7. ASSUME NEW p \in Payments, NEW x \in rows', issued[p] = Address(x.wallet, x.index)
      PROVE  x.used \/ \E l \in Workers : Marks(l, p, x)'
  <2>1. CASE x \in rows
    <3>1. x.used \/ \E l \in Workers : Marks(l, p, x)
      BY <1>7, <2>1 DEF IssueInv, IssuedUsed
    <3> QED BY <3>1, <1>1 DEF Marks
  <2>2. CASE x = Row(w, i, FALSE)
    <3>1. issued[p] = Address(w, i) /\ issued[p] # NoAddress
      BY <1>7, <2>2, Addressing DEF Row
    <3>2. PICK y \in rows : issued[p] = Address(y.wallet, y.index)
      BY <3>1 DEF IssueInv, IssuedTaken
    <3>3. Taken(w, i)
      <4>1. KeyOf[y.wallet] = KeyOf[w] /\ y.index = i
        BY <3>1, <3>2 DEF Address
      <4> QED BY <4>1 DEF Taken
    <3> QED BY <3>3
  <2> QED BY <2>1, <2>2
<1>8. IssuedUsed'
  BY <1>7 DEF IssuedUsed
<1> QED BY <1>3, <1>4, <1>5, <1>6, <1>8 DEF IssueInv

LEMMA IssueStore ==
  ASSUME OneRequestPerWallet, TInv, IssueInv, NEW k \in Workers, CreateTransaction(k)
  PROVE  IssueInv'
<1>1. PICK w \in Wallets, i \in Nat, p \in Payments :
        /\ worker[k].pc = "store" /\ worker[k].wallet = w
        /\ worker[k].index = i /\ worker[k].payment = p
        /\ Row(w, i, FALSE) \in rows /\ issued[p] = NoAddress /\ w \in Serves[k]
  BY BusyTyped DEF CreateTransaction, At, Busy, TInv, IssueInv, Serving
<1>2. /\ worker'[k].pc = "mark" /\ worker'[k].wallet = w
      /\ worker'[k].payment = p /\ worker'[k].index = i
      /\ \A l \in Workers \ {k} : worker'[l] = worker[l]
  BY <1>1, Moving, JobTyped DEF TInv, Steps, CreateTransaction
<1>3. /\ issued'[p] = Address(w, i) /\ rows' = rows
      /\ \A q \in Payments \ {p} : issued'[q] = issued[q]
  BY <1>1 DEF CreateTransaction, TInv, TypeOK
<1>4. \A l \in Workers \ {k} : worker[l].pc # "idle" => worker[l].payment # p
  BY <1>1 DEF IssueInv, PaymentsApart
<1>5. ASSUME NEW l \in Workers PROVE Serving(l)'
  <2>1. Serving(l)
    BY DEF IssueInv
  <2>2. CASE l = k
    BY <1>1, <1>2, <1>3, <2>2 DEF Serving
  <2>3. CASE l # k
    <3>1. worker'[l] = worker[l] /\ (worker[l].pc # "idle" => worker[l].payment # p)
      BY <2>3, <1>2, <1>4
    <3> QED BY <3>1, <2>1, <1>3 DEF Serving
  <2> QED BY <2>2, <2>3
<1>6. RowsApart' /\ PaymentsApart'
  BY <1>1, <1>2, <1>3, <1>4 DEF IssueInv, RowsApart, PaymentsApart
<1>7. IssuedTaken'
  BY <1>1, <1>3, Addressing DEF IssueInv, IssuedTaken, Row
<1>8. ASSUME NEW q \in Payments \ {p} PROVE issued[q] # Address(w, i)
  <2> SUFFICES ASSUME issued[q] = Address(w, i) PROVE FALSE
    OBVIOUS
  <2>1. PICK l \in Workers : Marks(l, q, Row(w, i, FALSE))
    BY <1>1, Addressing DEF IssueInv, IssuedUsed, Row
  <2>2. l # k /\ worker[l].pc # "idle" /\ worker[l].wallet = w
    BY <2>1, <1>1, Addressing DEF Marks, Row
  <2> QED BY <2>2, <1>1, OtherWallet
<1>9. IssuedOnce'
  BY <1>3, <1>8 DEF IssueInv, IssuedOnce
<1>10. ASSUME NEW q \in Payments, NEW x \in rows, issued'[q] = Address(x.wallet, x.index)
       PROVE  x.used \/ \E l \in Workers : Marks(l, q, x)'
  <2>1. CASE q = p
    <3>1. x.wallet \in Wallets /\ x.index \in Nat
      BY DEF TInv, TypeOK, Rows
    <3>2. KeyOf[x.wallet] = KeyOf[w] /\ x.index = i
      BY <3>1, <2>1, <1>3, <1>10, Addressing DEF Row
    <3>3. x = Row(w, i, FALSE)
      BY <3>2, <1>1, Addressing DEF IssueInv, RowsApart, Row
    <3> QED BY <3>3, <2>1, <1>2, Addressing DEF Marks, Row
  <2>2. CASE q # p
    <3>1. x.used \/ \E l \in Workers : Marks(l, q, x)
      BY <2>2, <1>3, <1>10 DEF IssueInv, IssuedUsed
    <3> QED BY <3>1, <1>1, <1>2 DEF Marks
  <2> QED BY <2>1, <2>2
<1>11. IssuedUsed'
  BY <1>3, <1>10 DEF IssuedUsed
<1> QED BY <1>5, <1>6, <1>7, <1>9, <1>11 DEF IssueInv

LEMMA IssueMark ==
  ASSUME OneRequestPerWallet, TInv, IssueInv, NEW k \in Workers, MarkAddressAsUsed(k)
  PROVE  IssueInv'
<1>1. PICK w \in Wallets, i \in Nat :
        /\ worker[k].pc = "mark" /\ worker[k].wallet = w /\ worker[k].index = i
        /\ Row(w, i, FALSE) \in rows
  BY BusyTyped DEF MarkAddressAsUsed, At, Busy, TInv, IssueInv, Serving
<1>2. worker'[k].pc = "idle" /\ \A l \in Workers \ {k} : worker'[l] = worker[l]
  BY Taking, JobTyped DEF MarkAddressAsUsed, TInv
<1>3. /\ rows' = (rows \ {Row(w, i, FALSE)}) \cup {Row(w, i, TRUE)}
      /\ issued' = issued
  BY <1>1 DEF MarkAddressAsUsed
<1>4. ASSUME NEW l \in Workers PROVE Serving(l)'
  <2>1. CASE l = k
    BY <1>2, <2>1 DEF Serving
  <2>2. CASE l # k /\ worker[l].pc # "idle"
    <3>1. worker[l].wallet # w
      BY <2>2, <1>1, OtherWallet
    <3>2. Row(worker[l].wallet, worker[l].index, FALSE) # Row(w, i, FALSE)
      BY <3>1, Addressing DEF Row
    <3>3. Serving(l) /\ worker'[l] = worker[l]
      BY <2>2, <1>2 DEF IssueInv
    <3> QED BY <3>2, <3>3, <1>3 DEF Serving
  <2>3. CASE l # k /\ worker[l].pc = "idle"
    BY <1>2, <2>3 DEF Serving
  <2> QED BY <2>1, <2>2, <2>3
<1>5. RowsApart'
  <2>1. \A x \in rows' : x \in rows \/ x = Row(w, i, TRUE)
    BY <1>3
  <2>2. \A x \in rows : KeyOf[x.wallet] = KeyOf[w] /\ x.index = i => x = Row(w, i, FALSE)
    BY <1>1, Addressing DEF IssueInv, RowsApart, Row
  <2>3. Row(w, i, TRUE).wallet = w /\ Row(w, i, TRUE).index = i
    BY DEF Row
  <2>4. ASSUME NEW x \in rows', NEW y \in rows',
               KeyOf[x.wallet] = KeyOf[y.wallet], x.index = y.index
        PROVE  x = y
    <3>1. CASE x = Row(w, i, TRUE) /\ y = Row(w, i, TRUE)
      BY <3>1
    <3>2. CASE x \in rows /\ y \in rows
      BY <3>2, <2>4 DEF IssueInv, RowsApart
    <3>3. CASE x = Row(w, i, TRUE) /\ y # Row(w, i, TRUE)
      <4>1. y \in rows /\ y # Row(w, i, FALSE)
        BY <3>3, <1>3
      <4> QED BY <4>1, <3>3, <2>2, <2>3, <2>4
    <3>4. CASE y = Row(w, i, TRUE) /\ x # Row(w, i, TRUE)
      <4>1. x \in rows /\ x # Row(w, i, FALSE)
        BY <3>4, <1>3
      <4> QED BY <4>1, <3>4, <2>2, <2>3, <2>4
    <3> QED BY <3>1, <3>2, <3>3, <3>4, <2>1
  <2> QED BY <2>4 DEF RowsApart
<1>6. PaymentsApart' /\ IssuedOnce'
  BY <1>2, <1>3 DEF IssueInv, PaymentsApart, IssuedOnce
<1>7. IssuedTaken'
  <2> SUFFICES ASSUME NEW p \in Payments, issued[p] # NoAddress
               PROVE  \E x \in rows' : issued[p] = Address(x.wallet, x.index)
    BY <1>3 DEF IssuedTaken
  <2>1. PICK x \in rows : issued[p] = Address(x.wallet, x.index)
    BY DEF IssueInv, IssuedTaken
  <2>2. CASE x # Row(w, i, FALSE)
    BY <2>1, <2>2, <1>3
  <2>3. CASE x = Row(w, i, FALSE)
    <3>1. issued[p] = Address(w, i)
      BY <2>1, <2>3 DEF Row
    <3>2. Row(w, i, TRUE).wallet = w /\ Row(w, i, TRUE).index = i
      BY DEF Row
    <3> QED BY <3>1, <3>2, <1>3
  <2> QED BY <2>2, <2>3
<1>8. ASSUME NEW p \in Payments, NEW x \in rows', issued[p] = Address(x.wallet, x.index)
      PROVE  x.used \/ \E l \in Workers : Marks(l, p, x)'
  <2>1. CASE x = Row(w, i, TRUE)
    BY <2>1, Addressing DEF Row
  <2>2. CASE x \in rows /\ x # Row(w, i, FALSE) /\ ~x.used
    <3>1. PICK l \in Workers : Marks(l, p, x)
      BY <2>2, <1>8 DEF IssueInv, IssuedUsed
    <3>2. x \in Rows
      BY <2>2 DEF TInv, TypeOK
    <3>3. l # k
      BY <3>1, <3>2, <2>2, <1>1, UnusedRow DEF Marks
    <3> QED BY <3>1, <3>3, <1>2 DEF Marks
  <2> QED BY <2>1, <2>2, <1>3
<1>9. IssuedUsed'
  BY <1>3, <1>8 DEF IssuedUsed
<1> QED BY <1>4, <1>5, <1>6, <1>7, <1>9 DEF IssueInv

LEMMA IssueStep ==
  ASSUME OneRequestPerWallet, Deletable = {}, ~MarkMayFail, TInv, IssueInv, [Next]_vars
  PROVE  IssueInv'
<1>1. ASSUME UNCHANGED <<rows, issued, worker>> PROVE IssueInv'
  <2>1. \A k \in Workers : Serving(k)'
    BY <1>1 DEF IssueInv, Serving
  <2>2. RowsApart' /\ PaymentsApart' /\ IssuedTaken' /\ IssuedOnce'
    BY <1>1 DEF IssueInv, RowsApart, PaymentsApart, IssuedTaken, IssuedOnce
  <2>3. IssuedUsed'
    BY <1>1 DEF IssueInv, IssuedUsed, Marks
  <2> QED BY <2>1, <2>2, <2>3 DEF IssueInv
<1>2. CASE UNCHANGED vars
  BY <1>1, <1>2 DEF vars
<1>3. ASSUME NEW w \in Wallets,
             CreateXpubWallet(w) \/ DeleteDerivedAddresses(w) \/ HardDeleteXpubWallet(w)
      PROVE  IssueInv'
  BY <1>1, <1>3 DEF CreateXpubWallet, DeleteDerivedAddresses, HardDeleteXpubWallet
<1>4. ASSUME NEW k \in Workers, WorkerNext(k) PROVE IssueInv'
  <2>1. ASSUME NEW w \in Wallets, DeriveByHand(k, w) PROVE IssueInv'
    BY <2>1, NonesAssumption, IssueStart DEF DeriveByHand, At
  <2>2. ASSUME NEW w \in Wallets, NEW p \in Payments, GetNextUnusedAddress(k, w, p)
        PROVE  IssueInv'
    <3>1. CASE Unused(w) # {}
      <4>1. PICK i \in Unused(w) : i = Min(Unused(w))
        <5>1. Unused(w) \subseteq Nat
          BY DEF Unused, TInv, TypeOK, Rows
        <5> QED BY <3>1, <5>1, MinIsMember
      <4>2. i \in Nat /\ Row(w, i, FALSE) \in rows
        BY UnusedRow DEF Unused, TInv, TypeOK, Rows
      <4>3. WorkerTakes(k, Job("store", w, p, i, 0))
        BY <3>1, <4>1, <2>2 DEF GetNextUnusedAddress
      <4> QED BY <2>2, <4>2, <4>3, IssueStart DEF GetNextUnusedAddress, At
    <3>2. CASE Unused(w) = {}
      BY <2>2, <3>2, IssueStart DEF GetNextUnusedAddress, At
    <3> QED BY <3>1, <3>2
  <2>3. CASE ReadIndex(k)
    <3>1. worker[k].pc = "read" /\ worker[k].wallet \in Wallets
      BY <2>3, BusyTyped DEF ReadIndex, At, TInv, Busy
    <3>2. NextIndex(worker[k].wallet) \in Nat
      BY <3>1, NextIndexIsFree DEF TInv
    <3> QED BY <2>3, <3>1, <3>2, IssueOwn, IssueEnds DEF ReadIndex, Steps
  <2>4. CASE CreateDerivedAddress(k)
    <3>1. PICK w \in Wallets, i \in Nat, n \in Nat :
            /\ worker[k].pc = "insert" /\ worker[k].wallet = w
            /\ worker[k].index = i /\ worker[k].tries = n
      BY <2>4, BusyTyped DEF CreateDerivedAddress, At, TInv, Busy
    <3>2. CASE ~Taken(w, i) /\ rows' = rows \cup {Row(w, i, FALSE)}
               /\ MovesTo(k, "update", i, n)
      BY <3>1, <3>2, <2>4, IssueInsert DEF CreateDerivedAddress
    <3>3. CASE MovesTo(k, "insert", i + 1, n + 1) /\ UNCHANGED rows
      <4>1. i + 1 \in Nat /\ n + 1 \in Nat /\ "insert" \in Steps \ {"mark"}
        BY DEF Steps
      <4> QED BY <3>1, <3>3, <4>1, <2>4, IssueOwn DEF CreateDerivedAddress
    <3>4. CASE WorkerTakes(k, Idle) /\ UNCHANGED rows
      BY <3>1, <3>4, <2>4, IssueEnds DEF CreateDerivedAddress
    <3> QED BY <3>1, <3>2, <3>3, <3>4, <2>4 DEF CreateDerivedAddress
  <2>5. CASE UpdateLastIndex(k)
    <3>1. worker[k].pc = "update" /\ worker[k] \in Busy
      BY <2>5, BusyTyped DEF UpdateLastIndex, At, TInv
    <3>2. Row(worker[k].wallet, worker[k].index, FALSE) \in rows
      BY <3>1 DEF IssueInv, Serving
    <3>3. UNCHANGED <<rows, issued>>
      BY <2>5 DEF UpdateLastIndex
    <3>4. CASE worker[k].payment = NoPayment
      BY <2>5, <3>1, <3>3, <3>4, IssueEnds DEF UpdateLastIndex
    <3>5. CASE worker[k].payment # NoPayment
      <4>1. worker[k].payment \in Payments /\ worker[k].index \in Nat
        BY <3>1, <3>5 DEF Busy
      <4>2. MovesTo(k, "store", worker[k].index, 0) /\ "store" \in Steps \ {"mark"}
        BY <2>5, <3>5 DEF UpdateLastIndex, Steps
      <4> QED BY <3>1, <3>2, <3>3, <4>1, <4>2, IssueOwn
    <3> QED BY <3>4, <3>5
  <2>6. CASE CreateTransaction(k)
    BY <2>6, IssueStore
  <2>7. CASE MarkAddressAsUsed(k)
    BY <2>7, IssueMark
  <2>8. CASE RequestEnds(k)
    BY <2>8, IssueEnds DEF RequestEnds, At
  <2> QED
    BY <1>4, <2>1, <2>2, <2>3, <2>4, <2>5, <2>6, <2>7, <2>8 DEF WorkerNext
<1> QED BY <1>2, <1>3, <1>4 DEF Next

(* When no wallet is deleted, each wallet is served by one request at a     *)
(* time and no request ends between storing a transaction and marking its   *)
(* address, no address goes to two payments, whatever keys wallets share.   *)
THEOREM AddressIssuedOnce ==
  ASSUME OneRequestPerWallet, Deletable = {}, ~MarkMayFail
  PROVE  Spec => []IssuedOnce
<1>1. Init => IssueInv
  BY JobTyped DEF Init, IssueInv, Serving, RowsApart, PaymentsApart, IssuedTaken,
     IssuedUsed, IssuedOnce
<1>2. TInv /\ IssueInv /\ [Next]_vars => IssueInv'
  BY IssueStep
<1>3. IssueInv => IssuedOnce
  BY DEF IssueInv
<1> QED BY <1>1, <1>2, <1>3, TInvInit, TInvStep, PTL DEF Spec

=============================================================================
