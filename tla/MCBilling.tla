----------------------------- MODULE MCBilling -----------------------------
(* Two checkouts, of one user or of two, and subscriptions that go through *)
(* three states.                                                           *)
EXTENDS Billing

CONSTANTS a, b, ann, bob, basic, extra, foreign, h1, h2
=============================================================================
