--------------------------- MODULE MCSubscriptions ---------------------------
(* Bounds for Subscriptions: the free plan's limit and an unlimited plan.     *)
EXTENDS Subscriptions

CONSTANTS ma, mb, free, pro

MCLimits == [p \in Plans |-> IF p = FreePlan THEN 1 ELSE Unlimited]
=============================================================================
