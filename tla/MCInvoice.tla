----------------------------- MODULE MCInvoice -----------------------------
(* Bounds for Invoice: two transfers, neither of which pays the invoice    *)
(* beyond doubt (one is short, one lies within the tolerance only at one   *)
(* of two rates) but which together overpay it.                            *)
EXTENDS Invoice, FiniteSetsExt, TLC

CONSTANTS t1, t2, p1, p2, c1, c2

MCAmount == [t \in Transfers |-> IF t = t1 THEN 2 ELSE 3]

SumOver(S) == MapThenSumSet(LAMBDA t : Amount[t], S)

(* The database's aggregate counts every confirmed transfer once, however  *)
(* often its fill is inserted: the unique constraint of the fills table.   *)
SumsCountTransfersOnce ==
  /\ confirmedSum = SumOver({t \in Transfers : fill[t] = "confirmed"})
  /\ bookedSum = SumOver({t \in Transfers : fill[t] # "none"})

(* Overlapping executions of one job are interchangeable.                  *)
OverlapSymmetry == Permutations({p1, p2}) \cup Permutations({c1, c2})
=============================================================================
