-------------------------- MODULE DerivedAddresses --------------------------
(* Bitcoin deposit addresses.  A merchant imports an extended public key as *)
(* a wallet; each new transaction takes the wallet's next unused address or *)
(* derives one at the next index, and marks it as used once it is stored.   *)
(* Wallets that hold the same key share one sequence of indexes.  Taking,   *)
(* deriving, storing and marking are separate statements, without a lock.   *)
EXTENDS Integers, FiniteSets, FiniteSetsExt

CONSTANTS
  Wallets, Keys, KeyOf,      \* wallets a merchant may import, and their keys
  Merchants, OwnerOf,        \* a merchant has one wallet per blockchain
  Payments, NoPayment,       \* payments that need an address
  Workers, Serves,           \* concurrent requests, and whom they may serve
  NoAddress,
  MaxAttempts,               \* maxDeriveAttempts
  Deletable,                 \* wallets their merchants may delete
  Frail, MarkMayFail,        \* requests that may fail; whether the last step may
  MaxRows,                   \* bound: indexes derived by hand
  MaxFaults                  \* bound: requests that die before the last step

ASSUME WalletsAssumption ==
  /\ KeyOf \in [Wallets -> Keys] /\ OwnerOf \in [Wallets -> Merchants]
  /\ Serves \in [Workers -> SUBSET Wallets]
ASSUME NonesAssumption ==
  /\ NoPayment \notin Payments
  /\ NoAddress \notin [key : Keys, index : Nat]
ASSUME AddressBoundsAssumption ==
  /\ MaxAttempts \in Nat \ {0} /\ MaxRows \in Nat /\ MaxFaults \in Nat
  /\ Deletable \in SUBSET Wallets /\ Frail \in SUBSET Workers
  /\ MarkMayFail \in BOOLEAN

VARIABLES
  wallet,    \* xpub_wallets: not imported yet, active, or deleted
  last,      \* xpub_wallets.last_derived_index
  rows,      \* derived_addresses
  issued,    \* the recipient address of each payment's transaction
  worker,    \* how far each request is
  removing,  \* wallets whose addresses DeactivateWallet has deleted
  faults

vars == <<wallet, last, rows, issued, worker, removing, faults>>

Addresses == [key : Keys, index : Nat]
Rows == [wallet : Wallets, index : Nat, used : BOOLEAN]
Address(w, i) == [key |-> KeyOf[w], index |-> i]
Row(w, i, used) == [wallet |-> w, index |-> i, used |-> used]

Steps == {"read", "insert", "update", "store", "mark"}
Idle == [pc |-> "idle"]
Job(pc, w, p, i, n) ==
  [pc |-> pc, wallet |-> w, payment |-> p, index |-> i, tries |-> n]
WorkerStates ==
  {Idle} \cup [pc : Steps, wallet : Wallets, payment : Payments \cup {NoPayment},
               index : Nat, tries : Nat]

(* The unique constraint on (blockchain, address): wallets with one key     *)
(* derive one address at an index.                                          *)
Taken(w, i) == \E x \in rows : KeyOf[x.wallet] = KeyOf[w] /\ x.index = i

Unused(w) == {x.index : x \in {y \in rows : y.wallet = w /\ ~y.used}}

(* The highest index of any wallet with the key, or -1.                     *)
SharedIndexes(w) == {x.index : x \in {y \in rows : KeyOf[y.wallet] = KeyOf[w]}}
(* Mutants of NextIndex: it forgets the wallet's own counter, or counts it  *)
(* from one past the highest index.                                         *)
NextIndexOfRows(w) == Max(SharedIndexes(w) \cup {-1}) + 1
NextIndexSkips(w) == Max(SharedIndexes(w) \cup {last[w] + 1}) + 1
NextIndex(w) == Max(SharedIndexes(w) \cup {last[w]}) + 1

Init ==
  /\ wallet = [w \in Wallets |-> "new"]
  /\ last = [w \in Wallets |-> -1]
  /\ rows = {}
  /\ issued = [p \in Payments |-> NoAddress]
  /\ worker = [k \in Workers |-> Idle]
  /\ removing = {}
  /\ faults = 0

-----------------------------------------------------------------------------
(* The merchant's dashboard                                                 *)

CreateXpubWallet(w) ==
  /\ wallet[w] = "new"
  /\ \A v \in Wallets : OwnerOf[v] = OwnerOf[w] => wallet[v] # "active"
  /\ wallet' = [wallet EXCEPT ![w] = "active"]
  /\ UNCHANGED <<last, rows, issued, worker, removing, faults>>

DeleteDerivedAddresses(w) ==
  /\ w \in Deletable /\ wallet[w] = "active" /\ w \notin removing
  /\ rows' = {x \in rows : x.wallet # w}
  /\ removing' = removing \cup {w}
  /\ UNCHANGED <<wallet, last, issued, worker, faults>>

(* The foreign key keeps a wallet for which an address was derived by now.  *)
HardDeleteXpubWallet(w) ==
  /\ w \in removing
  /\ wallet' = IF \E x \in rows : x.wallet = w THEN wallet
               ELSE [wallet EXCEPT ![w] = "deleted"]
  /\ removing' = removing \ {w}
  /\ UNCHANGED <<last, rows, issued, worker, faults>>

-----------------------------------------------------------------------------
(* Requests                                                                 *)

WorkerTakes(k, step) == worker' = [worker EXCEPT ![k] = step]
At(k, step) == worker[k].pc = step
MovesTo(k, step, i, n) ==
  WorkerTakes(k, Job(step, worker[k].wallet, worker[k].payment, i, n))

(* The payment's own lock keeps a second request off the same payment.      *)
Unserved(p) ==
  /\ issued[p] = NoAddress
  /\ \A k \in Workers : worker[k] # Idle => worker[k].payment # p

GetNextUnusedAddress(k, w, p) ==
  /\ At(k, "idle") /\ w \in Serves[k] /\ wallet[w] = "active" /\ Unserved(p)
  /\ WorkerTakes(k, IF Unused(w) # {} THEN Job("store", w, p, Min(Unused(w)), 0)
                                      ELSE Job("read", w, p, 0, 0))
  /\ UNCHANGED <<wallet, last, rows, issued, removing, faults>>

(* The dashboard derives an address that no payment asked for.              *)
DeriveByHand(k, w) ==
  /\ At(k, "idle") /\ w \in Serves[k] /\ wallet[w] = "active"
  /\ NextIndex(w) < MaxRows
  /\ WorkerTakes(k, Job("read", w, NoPayment, 0, 0))
  /\ UNCHANGED <<wallet, last, rows, issued, removing, faults>>

ReadIndex(k) ==
  /\ At(k, "read")
  /\ IF wallet[worker[k].wallet] = "active"
       THEN MovesTo(k, "insert", NextIndex(worker[k].wallet), 0)
       ELSE WorkerTakes(k, Idle)
  /\ UNCHANGED <<wallet, last, rows, issued, removing, faults>>

(* Mutant: a taken index is used as if the row were the request's own.      *)
CreateDerivedAddressAnyway(k) ==
  LET w == worker[k].wallet  i == worker[k].index IN
  /\ At(k, "insert")
  /\ rows' = IF Taken(w, i) THEN rows ELSE rows \cup {Row(w, i, FALSE)}
  /\ MovesTo(k, "update", i, 0)
  /\ UNCHANGED <<wallet, last, issued, removing, faults>>

(* An index that is taken by now is skipped, MaxAttempts times at most.     *)
CreateDerivedAddress(k) ==
  LET w == worker[k].wallet  i == worker[k].index  n == worker[k].tries IN
  /\ At(k, "insert")
  /\ \/ /\ wallet[w] = "active" /\ ~Taken(w, i)
        /\ rows' = rows \cup {Row(w, i, FALSE)}
        /\ MovesTo(k, "update", i, n)
     \/ /\ wallet[w] = "active" /\ Taken(w, i) /\ n + 1 < MaxAttempts
        /\ MovesTo(k, "insert", i + 1, n + 1)
        /\ UNCHANGED rows
     \/ /\ wallet[w] = "active" => Taken(w, i) /\ n + 1 >= MaxAttempts
        /\ WorkerTakes(k, Idle)
        /\ UNCHANGED rows
  /\ UNCHANGED <<wallet, last, issued, removing, faults>>

(* A failure to remember the index is only logged.                          *)
UpdateLastIndex(k) ==
  /\ At(k, "update")
  /\ \/ /\ last' = IF wallet[worker[k].wallet] = "active"
                    THEN [last EXCEPT ![worker[k].wallet] = worker[k].index]
                    ELSE last
        /\ UNCHANGED faults
     \/ /\ k \in Frail /\ faults < MaxFaults
        /\ faults' = faults + 1
        /\ UNCHANGED last
  /\ IF worker[k].payment = NoPayment
       THEN WorkerTakes(k, Idle)
       ELSE MovesTo(k, "store", worker[k].index, 0)
  /\ UNCHANGED <<wallet, rows, issued, removing>>

CreateTransaction(k) ==
  /\ At(k, "store")
  /\ issued' = [issued EXCEPT ![worker[k].payment] =
                  Address(worker[k].wallet, worker[k].index)]
  /\ MovesTo(k, "mark", worker[k].index, 0)
  /\ UNCHANGED <<wallet, last, rows, removing, faults>>

MarkAddressAsUsed(k) ==
  LET w == worker[k].wallet  i == worker[k].index IN
  /\ At(k, "mark")
  /\ rows' = IF Row(w, i, FALSE) \in rows
               THEN (rows \ {Row(w, i, FALSE)}) \cup {Row(w, i, TRUE)} ELSE rows
  /\ WorkerTakes(k, Idle)
  /\ UNCHANGED <<wallet, last, issued, removing, faults>>

(* A statement fails or the process dies.  Failing to mark an address is    *)
(* only logged: the transaction stays.                                      *)
RequestEnds(k) ==
  /\ ~At(k, "idle")
  /\ At(k, "mark") => MarkMayFail
  /\ k \in Frail /\ faults < MaxFaults
  /\ faults' = faults + 1
  /\ WorkerTakes(k, Idle)
  /\ UNCHANGED <<wallet, last, rows, issued, removing>>

-----------------------------------------------------------------------------

WorkerNext(k) ==
  \/ \E w \in Wallets : DeriveByHand(k, w)
  \/ \E w \in Wallets, p \in Payments : GetNextUnusedAddress(k, w, p)
  \/ ReadIndex(k) \/ CreateDerivedAddress(k) \/ UpdateLastIndex(k)
  \/ CreateTransaction(k) \/ MarkAddressAsUsed(k) \/ RequestEnds(k)

Next ==
  \/ \E w \in Wallets : \/ CreateXpubWallet(w)
                        \/ DeleteDerivedAddresses(w) \/ HardDeleteXpubWallet(w)
  \/ \E k \in Workers : WorkerNext(k)

Spec == Init /\ [][Next]_vars

-----------------------------------------------------------------------------
(* Properties                                                               *)

TypeOK ==
  /\ wallet \in [Wallets -> {"new", "active", "deleted"}]
  /\ last \in [Wallets -> Int]
  /\ rows \subseteq Rows
  /\ issued \in [Payments -> Addresses \cup {NoAddress}]
  /\ worker \in [Workers -> WorkerStates]
  /\ removing \subseteq Wallets
  /\ faults \in Nat

(* No address is issued to two payments: neither two wallets with one key   *)
(* nor an index read too early may hand out an address again.               *)
IssuedOnce ==
  \A p, q \in Payments : p # q /\ issued[p] # NoAddress => issued[p] # issued[q]

(* Wallets with a key of which no wallet is deleted.                        *)
Kept == {w \in Wallets : \A v \in Deletable : KeyOf[v] # KeyOf[w]}

(* The addresses derived from a key that is kept leave no gap: every index  *)
(* below a derived one was derived, so a wallet program that scans the key  *)
(* finds all of them.                                                       *)
NoGaps ==
  \A x \in rows : x.wallet \in Kept => \A i \in 0..x.index : Taken(x.wallet, i)

=============================================================================
