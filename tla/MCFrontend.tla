----------------------------- MODULE MCFrontend -----------------------------
(***************************************************************************)
(* Instances of the two components of the frontend: the discover screen    *)
(* and the pages around it.  A behaviour is one of "part"; the other part  *)
(* stays where it starts.  Fairness is that of DiscoverSpec and PagesSpec, *)
(* each where its part runs.                                               *)
(***************************************************************************)
EXTENDS Discover, Pages

VARIABLE part

frontendVars == <<part, discoverVars, pagesVars>>

MCHits == [w \in Word |-> IF w = "shoes" THEN {"a"} ELSE {"a", "b"}]

Init ==
    /\ part \in {"discover", "pages"}
    /\ DiscoverInit /\ PagesInit
    /\ part = "pages" => query = Blank /\ ~window.narrow
    /\ part = "discover" => ~plan

Next ==
    /\ UNCHANGED part
    /\ \/ part = "discover" /\ DiscoverNext /\ UNCHANGED pagesVars
       \/ part = "pages" /\ PagesNext /\ UNCHANGED discoverVars

Spec ==
    /\ Init /\ [][Next]_frontendVars
    /\ WF_frontendVars(part = "discover" /\ SearchProgress /\ UNCHANGED <<part, pagesVars>>)
    /\ WF_frontendVars(part = "pages" /\ LoadProgress /\ UNCHANGED <<part, discoverVars>>)
    /\ WF_frontendVars(part = "pages" /\ Poll /\ UNCHANGED <<part, discoverVars>>)
=============================================================================
