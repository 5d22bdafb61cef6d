---------------------------- MODULE MCStoreCrawl ----------------------------
(* Storefronts that show a technology or do not, with one of two texts, that *)
(* are challenged, or that answer with the codes either side of the limits   *)
(* of "active".                                                              *)
EXTENDS StoreCrawl

CONSTANTS s1, s2, shopify, klaviyo, w1, w2, w3

Pages(challenge, codes, detected, text) ==
  [challenge : {challenge}, code : codes, detected : detected, text : text]

\* Technologies that come and go, for runs with two stores.
ToggleResponse ==
  Pages(FALSE, {200}, SUBSET Tech, {"old"}) \cup Pages(TRUE, {200}, {{}}, {"old"})

\* Codes either side of the limits and two texts, for runs with one store.
SmallResponse ==
  Pages(FALSE, {200}, {{klaviyo}}, {"old"})
    \cup Pages(FALSE, {399}, {{}}, {"old", "new"})
    \cup Pages(TRUE, {200}, {{}}, {"old"})
    \cup Pages(FALSE, {199, 400}, {{}}, {"old"})
=============================================================================
