------------------------- MODULE MCDerivedAddresses -------------------------
(* Bounds for DerivedAddresses: two merchants hold the same key in wallets  *)
(* w1 and w2; w3 is w1's merchant's other wallet, of the same or of a key    *)
(* of its own.                                                              *)
EXTENDS DerivedAddresses, TLC

CONSTANTS w1, w2, w3, m1, m2, key, newKey, a, b, p1, p2, p3

(* One key in every wallet, or a key of its own in w3.                      *)
MCKeyOf == [w \in Wallets |-> key]
MCNewKey == [w \in Wallets |-> IF w = w3 THEN newKey ELSE key]
MCOwnerOf == [w \in Wallets |-> IF w = w2 THEN m2 ELSE m1]

(* One request per wallet at a time, and two requests for one wallet.       *)
MCApart == (a :> {w1, w3}) @@ (b :> {w2})
MCTogether == [k \in Workers |-> Wallets]

PaymentSymmetry == Permutations(Payments)
=============================================================================
