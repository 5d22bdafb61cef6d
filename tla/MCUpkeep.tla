------------------------------ MODULE MCUpkeep ------------------------------
(***************************************************************************)
(* Instances of the four components around the core that share no state:   *)
(* the schema and its deploys, the plan catalog, the fingerprints and what *)
(* is read of the stores.  A behaviour is one of "part"; the other parts   *)
(* stay where they start.                                                  *)
(***************************************************************************)
EXTENDS Migrations, PlanCatalog, Fingerprints, StoreReads, TLC

VARIABLE part

upkeepVars == <<part, migrationVars, planVars, fingerprintVars, readVars>>

\* Two releases of sync-plans: "growth" gets a new price, its old one goes to
\* a plan that is new, "starter" is left out.
MCPlan(slug, price, cents, limit) == [slug |-> slug, price |-> price, cents |-> cents, limit |-> limit]

MCList ==
  {<<MCPlan("starter", "p1", 49, 1), MCPlan("growth", "p2", 149, 5)>>,
   <<MCPlan("growth", "p4", 149, 6), MCPlan("team", "p2", 99, 2)>>}

\* Two pinned versions: the second lacks a file, and renumbers its categories.
MCTechnology(name, cats, html, scriptSrc) ==
  [name |-> name, cats |-> cats, html |-> html, scriptSrc |-> scriptSrc]

MCVendored ==
  1 :> (1 :> {MCTechnology("Akamai", <<1>>, {"x"}, {}), MCTechnology("Shopify", <<2, 1>>, {"shop"}, {"src"})}
        @@ 2 :> {MCTechnology("Zepto", <<>>, {}, {"zepto"})})
  @@ 2 :> (1 :> {MCTechnology("Akamai", <<3>>, {"x"}, {}), MCTechnology("Shopify", <<1>>, {"shop"}, {})})

MCCategories == 1 :> (1 :> "cdn" @@ 2 :> "shops") @@ 2 :> (1 :> "shops" @@ 3 :> "cdn")

MCOverrides == "Akamai" :> [html |-> {"mpulse"}] @@ "Zepto" :> [scriptSrc |-> {"zepto", "mpulse"}]

MCHtml ==
  {[html |-> {"mpulse", "shop"}, scriptSrc |-> {"zepto"}], [html |-> {"x"}, scriptSrc |-> {"src"}]}

MCProcessOf == "t1" :> "worker" @@ "t2" :> "worker" @@ "c1" :> "script"

\* Databases the reads may start on: technologies in use, dropped and in no catalog.
MCEvent(name, type) == [name |-> name, type |-> type]
MCUsed == <<MCEvent("shopify", "added")>>
MCDropped == <<MCEvent("shopify", "added"), MCEvent("shopify", "removed")>>
MCDatabase(stores0, log0, catalog0, follows0) ==
  [stores |-> stores0, log |-> log0, catalogNames |-> catalog0, follows |-> follows0]

MCContents ==
  {MCDatabase({}, <<<<>>, <<>>, <<>>>>, {}, {}),
   MCDatabase({1, 2, 3}, <<MCUsed, <<>>, MCDropped>>, {"shopify"}, {1, 2}),
   MCDatabase({1, 2, 3}, <<MCDropped, MCUsed, MCUsed>>, {"klaviyo", "shopify"}, {3}),
   MCDatabase({1, 2}, <<<<MCEvent("klaviyo", "added")>>, <<>>, <<>>>>, {"klaviyo", "shopify"}, {2})}

MCQuery ==
  {[text |-> {1, 3}, names |-> {"klaviyo", "shopify"}], [text |-> {}, names |-> {"shopify"}]}

MCPage ==
  {[status |-> "active", platform |-> "shopify", technologies |-> {"shopify"}],
   [status |-> "dead", platform |-> "none", technologies |-> {"klaviyo"}]}

MCIdRank == 1 :> 2 @@ 2 :> 3 @@ 3 :> 1
MCNameRank == "klaviyo" :> 1 @@ "shopify" :> 2

Init ==
  /\ part \in {"schema", "plans", "fingerprints", "reads"}
  /\ MigrationInit /\ PlanInit /\ FingerprintInit /\ ReadInit
  /\ part # "fingerprints" => categoriesFile = 1
  /\ part # "reads" => stores = {}

Next ==
  /\ UNCHANGED part
  /\ \/ part = "schema" /\ MigrationNext /\ UNCHANGED <<planVars, fingerprintVars, readVars>>
     \/ part = "plans" /\ PlanNext /\ UNCHANGED <<migrationVars, fingerprintVars, readVars>>
     \/ part = "fingerprints" /\ FingerprintNext /\ UNCHANGED <<migrationVars, planVars, readVars>>
     \/ part = "reads" /\ ReadNext /\ UNCHANGED <<migrationVars, planVars, fingerprintVars>>

Spec == Init /\ [][Next]_upkeepVars

=============================================================================
