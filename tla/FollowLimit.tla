---------------------------- MODULE FollowLimit ----------------------------
(***************************************************************************)
(* Following stores: POST /subscriptions and DELETE /subscriptions/:id of  *)
(* one user, with the plan check, the tracked-stores limit and the two     *)
(* repositories behind them.                                               *)
(*                                                                         *)
(* A Slot is a place where one request of the user is being served; the    *)
(* server runs any number of them interleaved at their awaited queries,    *)
(* none of which share a transaction.  Meanwhile a webhook may change the  *)
(* user's plan.                                                            *)
(***************************************************************************)
EXTENDS Integers, FiniteSets

CONSTANTS
  Domain,        \* domains a request may name
  KnownDomain,   \* domains that already have a row in stores
  Slot,          \* requests of the user served at the same time, at most
  Plan,          \* plans the user may be on
  NoPlan,        \* no active subscription
  Limit,         \* plan_limits.max_count of tracked_stores for each plan
  Unlimited,     \* a plan without such a row, or with null in it
  MaxRequests,   \* bound: requests in a behaviour
  MaxChanges     \* bound: plan changes in a behaviour

ASSUME FollowLimitAssumption ==
  /\ IsFiniteSet(Domain)
  /\ KnownDomain \subseteq Domain
  /\ IsFiniteSet(Slot) /\ Slot # {}
  /\ NoPlan \notin Plan
  /\ Unlimited \notin Nat
  /\ Limit \in [Plan -> Nat \cup {Unlimited}]
  /\ MaxRequests \in Nat
  /\ MaxChanges \in Nat

VARIABLES
  stores,    \* domains with a row in stores
  follows,   \* the user's rows in store_subscriptions
  plan,      \* the user's active plan
  request,   \* what each slot is serving
  answer,    \* status of the last response of each slot
  served,    \* requests accepted so far
  changes    \* plan changes so far

vars == <<stores, follows, plan, request, answer, served, changes>>

Idle == [pc |-> "idle"]

Init ==
  /\ stores = KnownDomain
  /\ follows = {}
  /\ plan \in Plan \cup {NoPlan}
  /\ request = [r \in Slot |-> Idle]
  /\ answer = [r \in Slot |-> 0]
  /\ served = 0
  /\ changes = 0

At(r, pc) == request[r].pc = pc

GoTo(r, pc) ==
  /\ request' = [request EXCEPT ![r].pc = pc]
  /\ UNCHANGED answer

Respond(r, status) ==
  /\ request' = [request EXCEPT ![r] = Idle]
  /\ answer' = [answer EXCEPT ![r] = status]

-----------------------------------------------------------------------------
Accept(r, op, d) ==
  /\ At(r, "idle")
  /\ served < MaxRequests
  /\ served' = served + 1
  /\ request' = [request EXCEPT ![r] = [pc |-> "plan", op |-> op, domain |-> d, count |-> 0]]
  /\ answer' = [answer EXCEPT ![r] = 0]
  /\ UNCHANGED <<stores, follows, plan, changes>>

\* BillingMiddleware.requireActivePlan.
RequireActivePlan(r) ==
  /\ At(r, "plan")
  /\ IF plan = NoPlan THEN Respond(r, 402)
     ELSE GoTo(r, IF request[r].op = "subscribe" THEN "count" ELSE "delete")
  /\ UNCHANGED <<stores, follows, plan, served, changes>>

\* requireWithinTrackedStoresLimit reads the count of follows ...
CountFollows(r) ==
  /\ At(r, "count")
  /\ request' = [request EXCEPT ![r].pc = "limit", ![r].count = Cardinality(follows)]
  /\ UNCHANGED <<stores, follows, plan, answer, served, changes>>

\* getLimitStatus: the plan is read again, none allows nothing.
Allowed(count) ==
  /\ plan # NoPlan
  /\ Limit[plan] = Unlimited \/ count < Limit[plan]

\* Faulty: the limit is inclusive.
InclusiveCheckLimit(r) ==
  /\ At(r, "limit")
  /\ IF Allowed(request[r].count - 1) THEN GoTo(r, "lookup")
     ELSE Respond(r, 403)
  /\ UNCHANGED <<stores, follows, plan, served, changes>>

\* Faulty: a plan that is not there has no limit.
UnlimitedCheckLimit(r) ==
  /\ At(r, "limit")
  /\ IF plan = NoPlan \/ Allowed(request[r].count) THEN GoTo(r, "lookup") ELSE Respond(r, 403)
  /\ UNCHANGED <<stores, follows, plan, served, changes>>

\* ... and compares it with the plan's limit as it is by now.
CheckLimit(r) ==
  /\ At(r, "limit")
  /\ IF Allowed(request[r].count) THEN GoTo(r, "lookup") ELSE Respond(r, 403)
  /\ UNCHANGED <<stores, follows, plan, served, changes>>

\* StoreRepository.getOrCreateByDomain looks the domain up ...
LookUpStore(r) ==
  /\ At(r, "lookup")
  /\ GoTo(r, IF request[r].domain \in stores THEN "follow" ELSE "create")
  /\ UNCHANGED <<stores, follows, plan, served, changes>>

\* ... and inserts it; when another request did so first, the unique domain
\* makes the insert throw.
CreateStore(r) ==
  /\ At(r, "create")
  /\ IF request[r].domain \in stores
     THEN Respond(r, 500) /\ UNCHANGED stores
     ELSE GoTo(r, "follow") /\ stores' = stores \cup {request[r].domain}
  /\ UNCHANGED <<follows, plan, served, changes>>

\* StoreSubscriptionRepository.subscribe: insert, on conflict do nothing ...
InsertFollow(r) ==
  /\ At(r, "follow")
  /\ IF request[r].domain \in follows
     THEN GoTo(r, "existing") /\ UNCHANGED follows
     ELSE Respond(r, 201) /\ follows' = follows \cup {request[r].domain}
  /\ UNCHANGED <<stores, plan, served, changes>>

\* ... and after a conflict read the row that was in the way.
SelectExisting(r) ==
  /\ At(r, "existing")
  /\ Respond(r, IF request[r].domain \in follows THEN 201 ELSE 500)
  /\ UNCHANGED <<stores, follows, plan, served, changes>>

\* StoreSubscriptionRepository.unsubscribe.
DeleteFollow(r) ==
  /\ At(r, "delete")
  /\ Respond(r, 200)
  /\ follows' = follows \ {request[r].domain}
  /\ UNCHANGED <<stores, plan, served, changes>>

\* A webhook changes the user's plan, or ends it.
ChangePlan ==
  /\ changes < MaxChanges
  /\ changes' = changes + 1
  /\ plan' \in Plan \cup {NoPlan}
  /\ UNCHANGED <<stores, follows, request, answer, served>>

Step(r) ==
  \/ \E op \in {"subscribe", "unsubscribe"}, d \in Domain : Accept(r, op, d)
  \/ RequireActivePlan(r)
  \/ CountFollows(r)
  \/ CheckLimit(r)
  \/ LookUpStore(r)
  \/ CreateStore(r)
  \/ InsertFollow(r)
  \/ SelectExisting(r)
  \/ DeleteFollow(r)

Next == ChangePlan \/ \E r \in Slot : Step(r)

Spec == Init /\ [][Next]_vars

-----------------------------------------------------------------------------
Request ==
  [pc : {"plan", "count", "limit", "lookup", "create", "follow", "existing", "delete"},
   op : {"subscribe", "unsubscribe"}, domain : Domain, count : Nat]

\* The state has its shape, and every follow points at a store that exists.
TypeOK ==
  /\ stores \in SUBSET Domain
  /\ follows \in SUBSET stores
  /\ plan \in Plan \cup {NoPlan}
  /\ request \in [Slot -> {Idle} \cup Request]
  /\ answer \in [Slot -> {0, 200, 201, 402, 403, 500}]
  /\ served \in Nat
  /\ changes \in Nat

\* Requests the limit let pass, which may still insert a follow.
Admitted == {r \in Slot : request[r].pc \in {"lookup", "create", "follow"}}

\* Every plan has a limit, of at most this.
LimitAtMost(most) == \A p \in Plan : Limit[p] # Unlimited /\ Limit[p] <= most

\* Requests that counted before each other's insert overshoot the limit, but
\* only by the requests served at the same time as the first of them: with n
\* slots never by more than n - 1, and not at all one at a time.  (Said of
\* plans that all have a limit, as scripts/sync-plans.ts gives them.)
OvershootBounded ==
  \A most \in {Limit[p] : p \in Plan} \ {Unlimited} :
    LimitAtMost(most) => Cardinality(follows) < most + Cardinality(Slot)

\* When the plan has lapsed, nothing is followed any more except by requests
\* admitted before: a request between its two plan checks is turned away.
LapsedPlanAdmitsNothing ==
  [][plan = NoPlan =>
       /\ Admitted' \subseteq Admitted
       /\ Admitted = {} => follows' \subseteq follows]_vars

=============================================================================
