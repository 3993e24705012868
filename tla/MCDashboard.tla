----------------------------- MODULE MCDashboard -----------------------------
(* Bounds for Dashboard: two users; the second has none or one merchant.    *)
EXTENDS Dashboard, TLC

CONSTANTS u1, u2, m1, m2, m3

TwoUsers == (m1 :> u1) @@ (m2 :> u1) @@ (m3 :> u2)
Newcomer == (m1 :> u1) @@ (m2 :> u1)
=============================================================================
