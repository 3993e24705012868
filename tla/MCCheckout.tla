---------------------------- MODULE MCCheckout ----------------------------
(* Bounds for Checkout: two currencies and two requests at a time.          *)
EXTENDS Checkout, TLC

CONSTANTS r1, r2, btc, eth

RequestSymmetry == Permutations({r1, r2})
=============================================================================
