--------------------------- MODULE MCFollowLimit ---------------------------
(* Plans of one and of two stores, and one without a limit.                *)
EXTENDS FollowLimit

CONSTANTS a, b, c, d, small, large, free, r1, r2, r3

MCLimit ==
  [p \in Plan |-> CASE p = small -> 1 [] p = large -> 2 [] p = free -> Unlimited]
=============================================================================
