---------------------------- MODULE PlanCatalog ----------------------------
(***************************************************************************)
(* The plans and their limits: the sync-plans script, which may die, be    *)
(* run again, from another release and beside itself, and the listing that *)
(* the billing page and the landing page's visitors get.                   *)
(***************************************************************************)
EXTENDS Naturals, Sequences, FiniteSets

CONSTANTS
  Slug,
  Price,     \* Stripe price ids
  List,      \* the PLANS of the releases whose script is run
  Script,    \* scripts that may run at once
  Reader,    \* listings that may be under way at once
  NoRow,      \* no row
  MaxRuns,   \* bound: scripts run in a behaviour
  MaxReads   \* bound: listings in a behaviour

Plan == [slug : Slug, price : Price, cents : Nat, limit : Nat]
PlanRow == [price : Price, cents : Nat, active : BOOLEAN]

ASSUME PlanCatalogAssumption ==
  /\ NoRow \notin PlanRow \cup Nat
  /\ IsFiniteSet(List)
  /\ List \subseteq Seq(Plan)
  /\ \A l \in List : \A i, j \in DOMAIN l : l[i].slug = l[j].slug => i = j
  /\ MaxRuns \in Nat
  /\ MaxReads \in Nat

VARIABLES
  plans,    \* plans, by their slug
  limits,   \* plan_limits: max_count of "tracked_stores", by the plan's slug
  script,   \* what each script is doing
  listing,  \* what each listing has read
  ran,      \* history: lists whose script was run
  synced,   \* history: the list whose script was the last to end, when it ran alone
  runs,     \* scripts so far
  reads     \* listings so far

planVars == <<plans, limits, script, listing, ran, synced, runs, reads>>

\* A script stands at an entry of its list, before the plan's upsert or before
\* the limit's; alone: no other script ran since it started.
Idle == [list |-> <<>>, at |-> 1, next |-> "plan", alone |-> FALSE]
Working == [list : List, at : Nat \ {0}, next : {"plan", "limit"}, alone : BOOLEAN]

\* A listing: the plans it will show with the limit read for each, or not yet;
\* torn: a script wrote between its queries.
Unread == [state |-> "unread", max |-> NoRow]
ReadLimit(max) == [state |-> "read", max |-> max]
Limits == {Unread} \cup {ReadLimit(max) : max \in Nat \cup {NoRow}}
NoListing == [shown |-> <<>>, torn |-> FALSE]

PlanInit ==
  /\ plans = [s \in Slug |-> NoRow]
  /\ limits = [s \in Slug |-> NoRow]
  /\ script = [c \in Script |-> Idle]
  /\ listing = [r \in Reader |-> NoListing]
  /\ ran = {}
  /\ synced = NoRow
  /\ runs = 0
  /\ reads = 0

---------------------------------------------------------------------------
(* SyncPlansCommand.run *)

Running(c) == script[c].list # <<>>
Entry(c) == script[c].list[script[c].at]

\* The other scripts are not alone any more; listings under way are torn.
Disturbed(c) == [d \in Script |-> IF d = c THEN script[d] ELSE [script[d] EXCEPT !.alone = FALSE]]
Torn == [r \in Reader |-> IF listing[r] = NoListing THEN NoListing ELSE [listing[r] EXCEPT !.torn = TRUE]]

StartSync(c, l) ==
  /\ ~Running(c) /\ l # <<>> /\ runs < MaxRuns
  /\ script' = [Disturbed(c) EXCEPT ![c] =
       [list |-> l, at |-> 1, next |-> "plan", alone |-> \A d \in Script : ~Running(d)]]
  /\ ran' = ran \cup {l}
  /\ synced' = NoRow
  /\ runs' = runs + 1
  /\ UNCHANGED <<plans, limits, listing, reads>>

\* stripe_price_id is unique: a price that another plan still has.
PriceTaken(c) ==
  \E s \in Slug \ {Entry(c).slug} : plans[s] # NoRow /\ plans[s].price = Entry(c).price

\* An insert, or an update by slug, which leaves is_active alone.
UpsertBySlug(c) ==
  /\ Running(c) /\ script[c].next = "plan" /\ ~PriceTaken(c)
  /\ plans' = [plans EXCEPT ![Entry(c).slug] =
       [price |-> Entry(c).price, cents |-> Entry(c).cents,
        active |-> IF @ = NoRow THEN TRUE ELSE @.active]]
  /\ script' = [script EXCEPT ![c].next = "limit"]
  /\ listing' = Torn
  /\ UNCHANGED <<limits, ran, synced, runs, reads>>

\* Faulty: the limit of a plan that is already there is left alone.
TimidUpsertForPlan(c) ==
  /\ Running(c) /\ script[c].next = "limit"
  /\ limits' = [limits EXCEPT ![Entry(c).slug] = IF @ = NoRow THEN Entry(c).limit ELSE @]
  /\ IF script[c].at = Len(script[c].list)
     THEN /\ script' = [script EXCEPT ![c] = Idle]
          /\ synced' = IF script[c].alone THEN script[c].list ELSE NoRow
     ELSE /\ script' = [script EXCEPT ![c].at = @ + 1, ![c].next = "plan"]
          /\ UNCHANGED synced
  /\ listing' = Torn
  /\ UNCHANGED <<plans, ran, runs, reads>>

UpsertForPlan(c) ==
  /\ Running(c) /\ script[c].next = "limit"
  /\ limits' = [limits EXCEPT ![Entry(c).slug] = Entry(c).limit]
  /\ IF script[c].at = Len(script[c].list)
     THEN /\ script' = [script EXCEPT ![c] = Idle]
          /\ synced' = IF script[c].alone THEN script[c].list ELSE NoRow
     ELSE /\ script' = [script EXCEPT ![c].at = @ + 1, ![c].next = "plan"]
          /\ UNCHANGED synced
  /\ listing' = Torn
  /\ UNCHANGED <<plans, ran, runs, reads>>

\* Faulty: a failed query skips the limit and the script goes on.
StumblingDie(c) ==
  /\ Running(c) /\ script[c].at < Len(script[c].list)
  /\ script' = [script EXCEPT ![c].at = @ + 1, ![c].next = "plan"]
  /\ UNCHANGED <<plans, limits, listing, ran, synced, runs, reads>>

\* A query throws, the taken price's among them, or the script is killed.
Die(c) ==
  /\ Running(c)
  /\ script' = [script EXCEPT ![c] = Idle]
  /\ UNCHANGED <<plans, limits, listing, ran, synced, runs, reads>>

\* A plan is taken off by hand: nothing in the code clears is_active.
Retire(s) ==
  /\ plans[s] # NoRow /\ plans[s].active
  /\ plans' = [plans EXCEPT ![s].active = FALSE]
  /\ listing' = Torn
  /\ UNCHANGED <<limits, script, ran, synced, runs, reads>>

---------------------------------------------------------------------------
(* GET /billing/plans: the plans, then the limits of each by its own query. *)

MaxCount(s) == limits[s]

GetActivePlans(r) ==
  /\ listing[r] = NoListing /\ reads < MaxReads
  /\ LET shown == {s \in Slug : plans[s] # NoRow /\ plans[s].active} IN
       /\ shown # {}
       /\ listing' = [listing EXCEPT ![r] = [shown |->
            [s \in shown |-> [cents |-> plans[s].cents, limit |-> Unread]], torn |-> FALSE]]
  /\ reads' = reads + 1
  /\ UNCHANGED <<plans, limits, script, ran, synced, runs>>

GetLimitsForPlan(r, s) ==
  /\ s \in DOMAIN listing[r].shown /\ listing[r].shown[s].limit = Unread
  /\ listing' = [listing EXCEPT ![r].shown[s].limit = ReadLimit(MaxCount(s))]
  /\ UNCHANGED <<plans, limits, script, ran, synced, runs, reads>>

Listed(r) ==
  /\ listing[r] # NoListing
  /\ \A s \in DOMAIN listing[r].shown : listing[r].shown[s].limit # Unread

\* PlansHttpResponse, and the page that shows it.
Answer(r) ==
  /\ Listed(r)
  /\ listing' = [listing EXCEPT ![r] = NoListing]
  /\ UNCHANGED <<plans, limits, script, ran, synced, runs, reads>>

PlanNext ==
  \/ \E c \in Script : UpsertBySlug(c) \/ UpsertForPlan(c) \/ Die(c) \/ \E l \in List : StartSync(c, l)
  \/ \E s \in Slug : Retire(s)
  \/ \E r \in Reader : GetActivePlans(r) \/ Answer(r) \/ \E s \in Slug : GetLimitsForPlan(r, s)

PlanSpec == PlanInit /\ [][PlanNext]_planVars

---------------------------------------------------------------------------
(* Properties. *)

\* The type invariant.
PlanTypeOK ==
  /\ plans \in [Slug -> PlanRow \cup {NoRow}]
  /\ limits \in [Slug -> Nat \cup {NoRow}]
  /\ script \in [Script -> Working \cup {Idle}]
  /\ \A c \in Script : Running(c) => script[c].at \in DOMAIN script[c].list
  /\ ran \subseteq List
  /\ synced \in List \cup {NoRow}
  /\ runs \in Nat
  /\ reads \in Nat

\* Plans that admit any number of stores: the row comes before its limit, and
\* getMaxCountForPlan takes a missing limit for none.
Holes == {s \in Slug : plans[s] # NoRow /\ MaxCount(s) = NoRow}

\* However many scripts run, at once or after each other, and wherever they
\* die, each release's list leaves at most one plan without its limit: a later
\* run of the list repairs the plan before it can leave another.
HolesAreBounded == Cardinality(Holes) <= Cardinality(ran)

\* After a script that ran alone and to its end, whatever died before it, the
\* plans of its list have exactly its prices and limits, and a listing between
\* whose queries nothing was written shows them.
CompletedSyncIsExact ==
  synced # NoRow =>
    \A i \in DOMAIN synced :
      LET p == synced[i] IN
        /\ plans[p.slug] # NoRow
        /\ plans[p.slug].price = p.price /\ plans[p.slug].cents = p.cents
        /\ limits[p.slug] = p.limit
        /\ \A r \in Reader :
             Listed(r) /\ ~listing[r].torn /\ p.slug \in DOMAIN listing[r].shown =>
               listing[r].shown[p.slug] = [cents |-> p.cents, limit |-> ReadLimit(p.limit)]

=============================================================================
