----------------------------- MODULE MCDelivery -----------------------------
(* Bounds for Delivery: two jobs or requests at a time.                     *)
EXTENDS Delivery, TLC

CONSTANTS u1, u2

UpdaterSymmetry == Permutations({u1, u2})
=============================================================================
