------------------------ MODULE FollowLimit_proofs ------------------------
(***************************************************************************)
(* What the tracked-stores limit promises, for any plans, any domains and  *)
(* any number of requests served at the same time.                         *)
(*                                                                         *)
(* The overshoot is bounded by counting, with the follows, the requests    *)
(* that read a count below the limit and have not inserted yet: such a     *)
(* request takes a place when it reads the count, turns it into a follow   *)
(* when it inserts, and there are no more of them than slots.              *)
(***************************************************************************)
EXTENDS FollowLimit, FiniteSetTheorems, TLAPS

\* A request past its look-up has a store to point at.
RequestsHaveStores ==
  \A r \in Slot : request[r].pc = "follow" => request[r].domain \in stores

TypeInv == TypeOK /\ RequestsHaveStores

\* A slot that serves a request holds a request record.
LEMMA BusySlots ==
  ASSUME TypeOK, NEW r \in Slot, request[r] # Idle
  PROVE  request[r] \in Request
BY DEF TypeOK

\* Every step keeps the state's shape and the stores behind the follows.
LEMMA TypeStep == TypeInv /\ [Next]_vars => TypeInv'
<1> SUFFICES ASSUME TypeInv, [Next]_vars PROVE TypeInv'
  OBVIOUS
<1> USE DEF TypeInv, TypeOK, RequestsHaveStores
<1>1. CASE UNCHANGED vars
  BY <1>1 DEF vars
<1>2. CASE ChangePlan
  BY <1>2 DEF ChangePlan
<1>3. ASSUME NEW r \in Slot, Step(r) PROVE TypeInv'
  <2>1. ASSUME NEW op \in {"subscribe", "unsubscribe"}, NEW d \in Domain, Accept(r, op, d)
        PROVE  TypeInv'
    BY <2>1 DEF Accept, At, Request
  <2>2. CASE RequireActivePlan(r)
    BY <2>2, BusySlots DEF RequireActivePlan, At, GoTo, Respond, Request, Idle
  <2>3. CASE CountFollows(r)
    <3>1. Cardinality(follows) \in Nat
      BY FS_Subset, FS_CardinalityType, FollowLimitAssumption
    <3>2. request[r] \in Request
      BY <2>3, BusySlots DEF CountFollows, At, Idle
    <3> DEFINE counted == [request[r] EXCEPT !.pc = "limit", !.count = Cardinality(follows)]
    <3>3. counted \in Request /\ counted.pc = "limit"
      BY <3>1, <3>2 DEF Request
    <3>4. request' = [request EXCEPT ![r] = counted]
      BY <2>3, <3>2 DEF CountFollows, Request
    <3> HIDE DEF counted
    <3>5. request' \in [Slot -> {Idle} \cup Request]
      BY <3>3, <3>4
    <3>6. \A s \in Slot : request'[s].pc = "follow" => s # r
      BY <3>3, <3>4
    <3>7. \A s \in Slot : s # r => request'[s] = request[s]
      BY <3>4
    <3>8. QED
      BY <2>3, <3>5, <3>6, <3>7 DEF CountFollows
  <2>4. CASE CheckLimit(r)
    BY <2>4, BusySlots DEF CheckLimit, At, GoTo, Respond, Request, Idle
  <2>5. CASE LookUpStore(r)
    BY <2>5, BusySlots DEF LookUpStore, At, GoTo, Request, Idle
  <2>6. CASE CreateStore(r)
    BY <2>6, BusySlots DEF CreateStore, At, GoTo, Respond, Request, Idle
  <2>7. CASE InsertFollow(r)
    BY <2>7, BusySlots DEF InsertFollow, At, GoTo, Respond, Request, Idle
  <2>8. CASE SelectExisting(r)
    BY <2>8 DEF SelectExisting, At, Respond, Idle
  <2>9. CASE DeleteFollow(r)
    BY <2>9 DEF DeleteFollow, At, Respond, Idle
  <2>10. QED
    BY <1>3, <2>1, <2>2, <2>3, <2>4, <2>5, <2>6, <2>7, <2>8, <2>9 DEF Step
<1>4. QED
  BY <1>1, <1>2, <1>3 DEF Next

LEMMA TypeInvariance == Spec => []TypeInv
<1>1. Init => TypeInv
  BY FollowLimitAssumption DEF Init, TypeInv, TypeOK, RequestsHaveStores, Idle
<1>2. QED
  BY <1>1, TypeStep, PTL DEF Spec

\* The state keeps its shape, and every follow points at an existing store.
THEOREM TypeCorrect == Spec => []TypeOK
BY TypeInvariance, PTL DEF TypeInv

-----------------------------------------------------------------------------
\* Requests that read a count below most and may still insert a follow.
Racing(most) ==
  {r \in Slot : /\ request[r].pc \in {"limit", "lookup", "create", "follow"}
                /\ request[r].count < most}

\* What the limit let pass had counted fewer follows than any limit allows.
AdmittedBelow(most) == \A r \in Admitted : request[r].count < most

Budget(most) ==
  Cardinality(follows) + Cardinality(Racing(most)) < most + Cardinality(Slot)

LimitInv(most) == AdmittedBelow(most) /\ Budget(most)

LEMMA RacingIsFinite ==
  ASSUME NEW most \in Nat
  PROVE  /\ IsFiniteSet(Racing(most))
         /\ Cardinality(Racing(most)) \in Nat
         /\ Cardinality(Racing(most)) <= Cardinality(Slot)
         /\ Cardinality(Slot) \in Nat
<1>1. Racing(most) \subseteq Slot
  BY DEF Racing
<1>2. QED
  BY <1>1, FS_Subset, FS_CardinalityType, FollowLimitAssumption

LEMMA FollowsAreFinite ==
  ASSUME TypeOK
  PROVE  IsFiniteSet(follows) /\ Cardinality(follows) \in Nat
BY FS_Subset, FS_CardinalityType, FollowLimitAssumption DEF TypeOK

\* A step after which no more requests race, and no more is followed, keeps
\* the budget.
LEMMA BudgetFrame ==
  ASSUME NEW most \in Nat, TypeOK, TypeOK', Budget(most),
         Racing(most)' \subseteq Racing(most), follows' \subseteq follows
  PROVE  Budget(most)'
<1>1. Cardinality(Racing(most)') <= Cardinality(Racing(most))
  BY RacingIsFinite, FS_Subset
<1>2. Cardinality(follows') <= Cardinality(follows)
  BY FollowsAreFinite, FS_Subset
<1>3. Cardinality(Racing(most)') \in Nat /\ Cardinality(follows') \in Nat
  BY RacingIsFinite, FollowsAreFinite, FS_Subset, FS_CardinalityType
<1>4. QED
  BY <1>1, <1>2, <1>3, RacingIsFinite, FollowsAreFinite DEF Budget

\* Every step keeps the budget.
LEMMA LimitStep ==
  ASSUME NEW most \in Nat, LimitAtMost(most), TypeInv, TypeInv', [Next]_vars, LimitInv(most)
  PROVE  LimitInv(most)'
<1> USE DEF LimitInv
<1> TypeOK /\ TypeOK'
  BY DEF TypeInv
<1>1. CASE UNCHANGED vars
  BY <1>1 DEF vars, AdmittedBelow, Admitted, Budget, Racing
<1>2. CASE ChangePlan
  BY <1>2 DEF ChangePlan, AdmittedBelow, Admitted, Budget, Racing
<1>3. ASSUME NEW r \in Slot, Step(r) PROVE LimitInv(most)'
  <2> request \in [Slot -> {Idle} \cup Request]
    BY DEF TypeOK
  <2>1. ASSUME NEW op \in {"subscribe", "unsubscribe"}, NEW d \in Domain, Accept(r, op, d)
        PROVE  LimitInv(most)'
    <3>1. AdmittedBelow(most)' /\ Racing(most)' \subseteq Racing(most) /\ follows' = follows
      BY <2>1 DEF Accept, At, AdmittedBelow, Admitted, Racing
    <3>2. QED
      BY <3>1, BudgetFrame
  <2>2. CASE RequireActivePlan(r)
    <3>1. AdmittedBelow(most)' /\ Racing(most)' \subseteq Racing(most) /\ follows' = follows
      BY <2>2, BusySlots DEF RequireActivePlan, At, GoTo, Respond, AdmittedBelow, Admitted, Racing, Idle, Request
    <3>2. QED
      BY <3>1, BudgetFrame
  <2>3. CASE CountFollows(r)
    <3> request[r] \in Request
      BY <2>3, BusySlots DEF CountFollows, At, Idle
    <3>1. AdmittedBelow(most)'
      BY <2>3 DEF CountFollows, At, AdmittedBelow, Admitted, Request
    <3>2. CASE Cardinality(follows) < most
      <4>1. follows' = follows
        BY <2>3 DEF CountFollows
      <4>2. Cardinality(Racing(most)') <= Cardinality(Slot) /\ Cardinality(Racing(most)') \in Nat
        <5>1. Racing(most)' \subseteq Slot
          BY DEF Racing
        <5>2. QED
          BY <5>1, FS_Subset, FS_CardinalityType, FollowLimitAssumption
      <4>3. QED
        BY <3>1, <3>2, <4>1, <4>2, RacingIsFinite, FollowsAreFinite DEF Budget
    <3>3. CASE ~(Cardinality(follows) < most)
      <4>1. Racing(most)' \subseteq Racing(most) /\ follows' = follows
        BY <2>3, <3>3 DEF CountFollows, At, Racing, Request
      <4>2. QED
        BY <3>1, <4>1, BudgetFrame
    <3>4. QED
      BY <3>2, <3>3
  <2>4. CASE CheckLimit(r)
    <3> request[r] \in Request
      BY <2>4, BusySlots DEF CheckLimit, At, Idle
    <3>1. Allowed(request[r].count) => request[r].count < most
      <4>1. Allowed(request[r].count) => plan \in Plan
        BY DEF Allowed, TypeOK
      <4>2. plan \in Plan => Limit[plan] \in Nat /\ Limit[plan] <= most /\ Limit[plan] # Unlimited
        BY FollowLimitAssumption DEF LimitAtMost
      <4>3. request[r].count \in Nat
        BY DEF Request
      <4>4. QED
        BY <4>1, <4>2, <4>3 DEF Allowed
    <3>2. AdmittedBelow(most)' /\ Racing(most)' \subseteq Racing(most) /\ follows' = follows
      BY <2>4, <3>1 DEF CheckLimit, At, GoTo, Respond, AdmittedBelow, Admitted, Racing, Idle, Request
    <3>3. QED
      BY <3>2, BudgetFrame
  <2>5. CASE LookUpStore(r)
    <3>1. AdmittedBelow(most)' /\ Racing(most)' \subseteq Racing(most) /\ follows' = follows
      BY <2>5, BusySlots DEF LookUpStore, At, GoTo, AdmittedBelow, Admitted, Racing, Idle, Request
    <3>2. QED
      BY <3>1, BudgetFrame
  <2>6. CASE CreateStore(r)
    <3>1. AdmittedBelow(most)' /\ Racing(most)' \subseteq Racing(most) /\ follows' = follows
      BY <2>6, BusySlots DEF CreateStore, At, GoTo, Respond, AdmittedBelow, Admitted, Racing, Idle, Request
    <3>2. QED
      BY <3>1, BudgetFrame
  <2>7. CASE InsertFollow(r)
    <3> request[r] \in Request
      BY <2>7, BusySlots DEF InsertFollow, At, Idle
    <3>1. CASE request[r].domain \in follows
      <4>1. AdmittedBelow(most)' /\ Racing(most)' \subseteq Racing(most) /\ follows' = follows
        BY <2>7, <3>1 DEF InsertFollow, At, GoTo, AdmittedBelow, Admitted, Racing, Request
      <4>2. QED
        BY <4>1, BudgetFrame
    <3>2. CASE request[r].domain \notin follows
      <4>1. r \in Racing(most)
        BY <2>7 DEF InsertFollow, At, AdmittedBelow, Admitted, Racing
      <4>2. /\ AdmittedBelow(most)'
            /\ Racing(most)' = Racing(most) \ {r}
            /\ follows' = follows \cup {request[r].domain}
        BY <2>7, <3>2 DEF InsertFollow, At, Respond, AdmittedBelow, Admitted, Racing, Idle
      <4>3. Cardinality(Racing(most)') = Cardinality(Racing(most)) - 1
        BY <4>1, <4>2, RacingIsFinite, FS_RemoveElement
      <4>4. Cardinality(follows') = Cardinality(follows) + 1
        BY <3>2, <4>2, FollowsAreFinite, FS_AddElement
      <4>5. QED
        BY <4>2, <4>3, <4>4, RacingIsFinite, FollowsAreFinite DEF Budget
    <3>3. QED
      BY <3>1, <3>2
  <2>8. CASE SelectExisting(r)
    <3>1. AdmittedBelow(most)' /\ Racing(most)' \subseteq Racing(most) /\ follows' = follows
      BY <2>8 DEF SelectExisting, At, Respond, AdmittedBelow, Admitted, Racing, Idle
    <3>2. QED
      BY <3>1, BudgetFrame
  <2>9. CASE DeleteFollow(r)
    <3>1. AdmittedBelow(most)' /\ Racing(most)' \subseteq Racing(most) /\ follows' \subseteq follows
      BY <2>9 DEF DeleteFollow, At, Respond, AdmittedBelow, Admitted, Racing, Idle
    <3>2. QED
      BY <3>1, BudgetFrame
  <2>10. QED
    BY <1>3, <2>1, <2>2, <2>3, <2>4, <2>5, <2>6, <2>7, <2>8, <2>9 DEF Step
<1>4. QED
  BY <1>1, <1>2, <1>3 DEF Next

LEMMA LimitInit ==
  ASSUME NEW most \in Nat, Init
  PROVE  LimitInv(most)
<1>1. Racing(most) = {} /\ Admitted = {} /\ follows = {}
  BY DEF Init, Racing, Admitted, Idle
<1>2. Cardinality(Slot) \in Nat /\ Cardinality(Slot) # 0
  BY FS_CardinalityType, FS_EmptySet, FollowLimitAssumption
<1>3. QED
  BY <1>1, <1>2, FS_EmptySet DEF LimitInv, AdmittedBelow, Budget

LEMMA BudgetBounds ==
  ASSUME TypeOK, \A most \in Nat : LimitAtMost(most) => LimitInv(most)
  PROVE  OvershootBounded
<1> SUFFICES ASSUME NEW p \in Plan, LimitAtMost(Limit[p])
             PROVE  Cardinality(follows) < Limit[p] + Cardinality(Slot)
  BY DEF OvershootBounded
<1>1. Limit[p] \in Nat
  BY FollowLimitAssumption DEF LimitAtMost
<1>2. Budget(Limit[p])
  BY <1>1 DEF LimitInv
<1>3. QED
  BY <1>1, <1>2, RacingIsFinite, FollowsAreFinite DEF Budget

EveryLimitInv == \A most \in Nat : LimitAtMost(most) => LimitInv(most)

\* However many requests run at once, a user follows fewer stores than the
\* largest limit plus the number of requests served at the same time.
THEOREM OvershootIsBounded == Spec => []OvershootBounded
<1>1. Init => EveryLimitInv
  BY LimitInit DEF EveryLimitInv
<1>2. TypeInv /\ TypeInv' /\ EveryLimitInv /\ [Next]_vars => EveryLimitInv'
  <2> SUFFICES ASSUME TypeInv, TypeInv', EveryLimitInv, [Next]_vars,
                      NEW most \in Nat, LimitAtMost(most)'
               PROVE  LimitInv(most)'
    BY DEF EveryLimitInv
  <2>1. LimitAtMost(most) /\ LimitInv(most)
    BY DEF EveryLimitInv, LimitAtMost
  <2>2. QED
    BY <2>1, LimitStep
<1>3. TypeInv /\ EveryLimitInv => OvershootBounded
  BY BudgetBounds DEF EveryLimitInv, TypeInv
<1>4. QED
  BY <1>1, <1>2, <1>3, TypeInvariance, PTL DEF Spec

-----------------------------------------------------------------------------
\* What LapsedPlanAdmitsNothing says of one step.
LapsedStep ==
  plan = NoPlan =>
    /\ Admitted' \subseteq Admitted
    /\ Admitted = {} => follows' \subseteq follows

\* A user whose plan has lapsed follows nothing more, except by requests that
\* were admitted while it was active.
THEOREM LapsedPlansAdmitNothing == Spec => LapsedPlanAdmitsNothing
<1>1. TypeInv /\ [Next]_vars => [LapsedStep]_vars
  <2> SUFFICES ASSUME TypeInv, plan = NoPlan, Next
               PROVE  /\ Admitted' \subseteq Admitted
                      /\ Admitted = {} => follows' \subseteq follows
    BY DEF LapsedStep
  <2> USE DEF Admitted
  <2>0. request \in [Slot -> {Idle} \cup Request]
    BY DEF TypeInv, TypeOK
  <2>1. CASE ChangePlan
    BY <2>1 DEF ChangePlan
  <2>2. ASSUME NEW r \in Slot, Step(r)
        PROVE  /\ Admitted' \subseteq Admitted
               /\ Admitted = {} => follows' \subseteq follows
    <3>1. ASSUME NEW op \in {"subscribe", "unsubscribe"}, NEW d \in Domain, Accept(r, op, d)
          PROVE  Admitted' \subseteq Admitted /\ follows' = follows
      BY <2>0, <3>1 DEF Accept
    <3>2. CASE RequireActivePlan(r)
      BY <2>0, <3>2 DEF RequireActivePlan, Respond, Idle
    <3>3. CASE CountFollows(r)
      BY <2>0, <3>3 DEF CountFollows
    <3>4. CASE CheckLimit(r)
      BY <2>0, <3>4 DEF CheckLimit, Allowed, Respond, Idle
    <3>5. CASE LookUpStore(r)
      BY <2>0, <3>5 DEF LookUpStore, At, GoTo
    <3>6. CASE CreateStore(r)
      BY <2>0, <3>6 DEF CreateStore, At, GoTo, Respond, Idle
    <3>7. CASE InsertFollow(r)
      BY <2>0, <3>7 DEF InsertFollow, At, GoTo, Respond, Idle
    <3>8. CASE SelectExisting(r)
      BY <2>0, <3>8 DEF SelectExisting, Respond, Idle
    <3>9. CASE DeleteFollow(r)
      BY <2>0, <3>9 DEF DeleteFollow, Respond, Idle
    <3>10. QED
      BY <2>2, <3>1, <3>2, <3>3, <3>4, <3>5, <3>6, <3>7, <3>8, <3>9 DEF Step
  <2>3. QED
    BY <2>1, <2>2 DEF Next
<1>2. QED
  BY <1>1, TypeInvariance, PTL DEF Spec, LapsedPlanAdmitsNothing, LapsedStep
=============================================================================
