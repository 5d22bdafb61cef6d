----------------------------- MODULE MCSessions -----------------------------
(* One account in one browser with two requests under way.                 *)
EXTENDS Sessions

CONSTANTS ann, bob, r1, r2
=============================================================================
