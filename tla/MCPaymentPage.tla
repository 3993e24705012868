---------------------------- MODULE MCPaymentPage ----------------------------
(* Bounds for PaymentPage.                                                  *)
EXTENDS PaymentPage

CONSTANTS c1, c2
=============================================================================
