--------------------------- MODULE Billing_proofs ---------------------------
(***************************************************************************)
(* What checkout and the mirror of subscriptions promise, for any users,   *)
(* plans and requests, any number of deliveries handled at once, and any   *)
(* history of subscriptions at Stripe.                                     *)
(*                                                                         *)
(* The argument goes in layers.  A customer in the table belongs to the    *)
(* request that created it, and a session is for the customer in its       *)
(* user's row.  A subscription has a session that was issued, and every    *)
(* version of it an event.  An event in a transaction is not processed     *)
(* and in no other; so what commits is new, and as long as events are      *)
(* taken up in order the row is never older than what was processed.       *)
(***************************************************************************)
EXTENDS Billing, TLAPS

-----------------------------------------------------------------------------
(* Checkout. *)

CheckoutTypes ==
  /\ request \in [Request -> {Idle} \cup Serving]
  /\ customers \in [User -> Request \cup {NoCustomer}]

\* Whose customer each one is.
CustomersBelong ==
  /\ \A r \in Request : request[r].pc = "insert" => request[r].customer = r
  /\ \A r \in Request : request[r].pc \in {"session", "issued"} =>
       request[r].customer # NoCustomer /\ customers[request[r].user] = request[r].customer
  /\ \A u \in User : customers[u] # NoCustomer =>
       request[customers[u]] \in Serving /\ request[customers[u]].user = u

CheckoutInv == CheckoutTypes /\ CustomersBelong

LEMMA ServedRequests ==
  ASSUME CheckoutTypes, NEW r \in Request, ~Checking(r, "idle")
  PROVE  /\ request[r] \in Serving /\ request[r].user \in User
         /\ request[r].customer \in Request \cup {NoCustomer}
BY DEF CheckoutTypes, Checking, Idle, Serving

LEMMA ServingMoves ==
  ASSUME NEW s \in Serving, NEW pc \in {"lookup", "create", "insert", "session", "issued", "failed"},
         NEW c \in Request \cup {NoCustomer}
  PROVE  /\ [s EXCEPT !.pc = pc] \in Serving /\ [s EXCEPT !.pc = pc].pc = pc
         /\ [s EXCEPT !.pc = pc].user = s.user /\ [s EXCEPT !.pc = pc].customer = s.customer
         /\ [s EXCEPT !.pc = pc, !.customer = c] \in Serving /\ [s EXCEPT !.pc = pc, !.customer = c].pc = pc
         /\ [s EXCEPT !.pc = pc, !.customer = c].user = s.user
         /\ [s EXCEPT !.pc = pc, !.customer = c].customer = c
BY DEF Serving

\* A request that moves on keeps its user; the customers' rows stay.
LEMMA RequestMoves ==
  ASSUME CheckoutInv, NEW r \in Request, NEW s \in Serving,
         request' = [request EXCEPT ![r] = s], customers' = customers,
         ~Checking(r, "idle") => s.user = request[r].user,
         s.pc = "insert" => s.customer = r,
         s.pc \in {"session", "issued"} => s.customer # NoCustomer /\ customers[s.user] = s.customer
  PROVE  CheckoutInv'
<1>1. CheckoutTypes'
  BY DEF CheckoutInv, CheckoutTypes
<1>2. \A q \in Request : request'[q] = IF q = r THEN s ELSE request[q]
  BY DEF CheckoutInv, CheckoutTypes
<1>3. ASSUME NEW u \in User, customers[u] # NoCustomer
      PROVE  request'[customers[u]] \in Serving /\ request'[customers[u]].user = u
  <2>1. request[customers[u]] \in Serving /\ request[customers[u]].user = u /\ customers[u] \in Request
    BY <1>3 DEF CheckoutInv, CheckoutTypes, CustomersBelong
  <2>2. request[customers[u]].pc # "idle"
    BY <2>1 DEF Serving
  <2> QED
    BY <1>2, <2>1, <2>2 DEF Checking
<1> QED
  BY <1>1, <1>2, <1>3 DEF CheckoutInv, CustomersBelong

LEMMA CheckoutInvStep ==
  ASSUME CheckoutInv, NEW r \in Request, CheckoutStep(r)
  PROVE  /\ CheckoutInv'
         /\ \A q \in Request : request[q].pc = "issued" => request'[q] = request[q]
<1>0. CheckoutTypes /\ CustomersBelong
  BY DEF CheckoutInv
<1>1. ASSUME NEW u \in User, NEW p \in Plan, Checkout(r, u, p)
      PROVE  CheckoutInv' /\ \A q \in Request : request[q].pc = "issued" => request'[q] = request[q]
  <2> DEFINE s == [pc |-> "lookup", user |-> u, plan |-> p, customer |-> NoCustomer]
  <2>1. s \in Serving /\ s.pc = "lookup"
    BY DEF Serving
  <2>2. request' = [request EXCEPT ![r] = s] /\ customers' = customers /\ request[r].pc = "idle"
    BY <1>1 DEF Checkout, Checking
  <2> HIDE DEF s
  <2>3. CheckoutInv'
    BY <2>1, <2>2, RequestMoves DEF Checking
  <2> QED
    BY <1>0, <2>2, <2>3 DEF CheckoutTypes
<1>2. ASSUME ~Checking(r, "idle"), ~Checking(r, "issued"), customers' = customers,
             NEW pc \in {"lookup", "create", "insert", "session", "issued", "failed"},
             NEW c \in Request \cup {NoCustomer},
             request' = [request EXCEPT ![r] = [request[r] EXCEPT !.pc = pc, !.customer = c]],
             pc = "insert" => c = r,
             pc \in {"session", "issued"} => c # NoCustomer /\ customers[request[r].user] = c
      PROVE  CheckoutInv' /\ \A q \in Request : request[q].pc = "issued" => request'[q] = request[q]
  <2>1. PICK s : s = [request[r] EXCEPT !.pc = pc, !.customer = c]
    OBVIOUS
  <2>2. request[r] \in Serving
    BY <1>0, <1>2, ServedRequests
  <2>3. s \in Serving /\ s.user = request[r].user /\ s.pc = pc /\ s.customer = c
    BY <1>2, <2>1, <2>2 DEF Serving
  <2>4. request' = [request EXCEPT ![r] = s]
    BY <1>2, <2>1
  <2>5. CheckoutInv'
    BY <1>2, <2>3, <2>4, RequestMoves
  <2> QED
    BY <1>0, <1>2, <2>4, <2>5 DEF CheckoutTypes, Checking
<1>3. ASSUME ~Checking(r, "idle"), ~Checking(r, "issued"), customers' = customers,
             NEW pc \in {"lookup", "create", "insert", "session", "issued", "failed"},
             request' = [request EXCEPT ![r].pc = pc],
             pc = "insert" => request[r].customer = r,
             pc \in {"session", "issued"} =>
               request[r].customer # NoCustomer /\ customers[request[r].user] = request[r].customer
      PROVE  CheckoutInv' /\ \A q \in Request : request[q].pc = "issued" => request'[q] = request[q]
  <2>1. PICK s : s = [request[r] EXCEPT !.pc = pc]
    OBVIOUS
  <2>2. request[r] \in Serving
    BY <1>0, <1>3, ServedRequests
  <2>3. s \in Serving /\ s.user = request[r].user /\ s.pc = pc /\ s.customer = request[r].customer
    BY <1>3, <2>1, <2>2 DEF Serving
  <2>4. request' = [request EXCEPT ![r] = s]
    BY <1>3, <2>1
  <2>5. CheckoutInv'
    BY <1>3, <2>3, <2>4, RequestMoves
  <2> QED
    BY <1>0, <1>3, <2>4, <2>5 DEF CheckoutTypes, Checking
<1>4. CASE LookUpCustomer(r)
  <2>1. PICK known : known = customers[request[r].user]
    OBVIOUS
  <2>2. Checking(r, "lookup") /\ ~Checking(r, "idle") /\ ~Checking(r, "issued")
    BY <1>4 DEF LookUpCustomer, Checking
  <2>3. known \in Request \cup {NoCustomer}
    BY <1>0, <2>1, <2>2, ServedRequests DEF CheckoutTypes
  <2>4. PICK pc \in {"create", "session"} : pc = IF known = NoCustomer THEN "create" ELSE "session"
    OBVIOUS
  <2>5. request' = [request EXCEPT ![r] = [request[r] EXCEPT !.pc = pc, !.customer = known]]
        /\ customers' = customers
    BY <1>4, <2>1, <2>4 DEF LookUpCustomer
  <2> QED
    BY <1>2, <2>1, <2>2, <2>3, <2>4, <2>5
<1>5. CASE CreateStripeCustomer(r)
  <2>1. ~Checking(r, "idle") /\ ~Checking(r, "issued") /\ customers' = customers
        /\ request' = [request EXCEPT ![r] = [request[r] EXCEPT !.pc = "insert", !.customer = r]]
    BY <1>5 DEF CreateStripeCustomer, Checking
  <2> QED
    BY <1>2, <2>1
<1>6. CASE InsertCustomer(r)
  <2>1. request[r].pc = "insert" /\ request[r].customer = r /\ request[r] \in Serving
        /\ request[r].user \in User
    BY <1>0, <1>6, ServedRequests DEF InsertCustomer, Checking, CustomersBelong
  <2>2. CASE customers[request[r].user] = NoCustomer
    <3>1. PICK s, u : s = [request[r] EXCEPT !.pc = "session"] /\ u = request[r].user
      OBVIOUS
    <3>2. s \in Serving /\ s.user = u /\ s.pc = "session" /\ s.customer = r /\ u \in User
      BY <2>1, <3>1, ServingMoves
    <3>3. request' = [request EXCEPT ![r] = s] /\ customers' = [customers EXCEPT ![u] = r]
      BY <1>6, <2>1, <2>2, <3>1 DEF InsertCustomer
    <3>4. CheckoutTypes'
      BY <1>0, <3>2, <3>3 DEF CheckoutTypes
    <3>5. /\ \A q \in Request : request'[q] = IF q = r THEN s ELSE request[q]
          /\ \A v \in User : customers'[v] = IF v = u THEN r ELSE customers[v]
      BY <1>0, <3>3 DEF CheckoutTypes
    <3>6. \A q \in Request : request'[q].pc = "insert" => request'[q].customer = q
      BY <1>0, <3>2, <3>5 DEF CustomersBelong
    <3>7. r # NoCustomer
      BY BillingAssumption
    <3>8. ASSUME NEW q \in Request, request'[q].pc \in {"session", "issued"}
          PROVE  request'[q].customer # NoCustomer /\ customers'[request'[q].user] = request'[q].customer
      <4>1. CASE q = r
        BY <3>2, <3>5, <3>7, <4>1
      <4>2. CASE q # r
        <5>1. request[q].customer # NoCustomer /\ customers[request[q].user] = request[q].customer
              /\ request'[q] = request[q]
          BY <1>0, <3>5, <3>8, <4>2 DEF CustomersBelong
        <5>2. request[q].user \in User
          BY <1>0, <3>8, <5>1, ServedRequests DEF Checking
        <5>3. request[q].user # u
          BY <2>2, <3>1, <5>1
        <5> QED
          BY <3>5, <5>1, <5>2, <5>3
      <4> QED
        BY <4>1, <4>2
    <3>9. ASSUME NEW v \in User, customers'[v] # NoCustomer
          PROVE  request'[customers'[v]] \in Serving /\ request'[customers'[v]].user = v
      <4>1. CASE v = u
        BY <3>2, <3>5, <4>1
      <4>2. CASE v # u
        <5>1. customers[v] \in Request /\ request[customers[v]] \in Serving /\ request[customers[v]].user = v
              /\ customers'[v] = customers[v]
          BY <1>0, <3>5, <3>9, <4>2 DEF CheckoutTypes, CustomersBelong
        <5>2. customers[v] # r
          BY <3>1, <4>2, <5>1
        <5> QED
          BY <3>5, <5>1, <5>2
      <4> QED
        BY <4>1, <4>2
    <3>10. \A q \in Request : request[q].pc = "issued" => request'[q] = request[q]
      BY <2>1, <3>5
    <3> QED
      BY <3>4, <3>6, <3>8, <3>9, <3>10 DEF CheckoutInv, CustomersBelong
  <2>3. CASE customers[request[r].user] # NoCustomer
    <3>1. request' = [request EXCEPT ![r].pc = "failed"] /\ customers' = customers
          /\ ~Checking(r, "idle") /\ ~Checking(r, "issued")
      BY <1>6, <2>1, <2>3 DEF InsertCustomer, Checking
    <3> QED
      BY <1>3, <3>1
  <2> QED
    BY <2>2, <2>3
<1>7. CASE IssueSession(r)
  <2>1. request' = [request EXCEPT ![r].pc = "issued"] /\ customers' = customers
        /\ request[r].pc = "session" /\ ~Checking(r, "idle") /\ ~Checking(r, "issued")
    BY <1>7 DEF IssueSession, Checking
  <2>2. request[r].customer # NoCustomer /\ customers[request[r].user] = request[r].customer
    BY <1>0, <2>1 DEF CustomersBelong
  <2> QED
    BY <1>3, <2>1, <2>2
<1>8. CASE AbortCheckout(r)
  <2>1. request' = [request EXCEPT ![r].pc = "failed"] /\ customers' = customers
        /\ ~Checking(r, "idle") /\ ~Checking(r, "issued")
    BY <1>8 DEF AbortCheckout, Checking
  <2> QED
    BY <1>3, <2>1
<1> QED
  BY <1>1, <1>4, <1>5, <1>6, <1>7, <1>8 DEF CheckoutStep

-----------------------------------------------------------------------------
(* Stripe's subscriptions and events. *)

\* What Stripe says of a subscription at a time.
Snapshot == [status : Status, price : Price]

\* A subscription has a session, an event a version, and a version an event.
StripeInv ==
  /\ stripe \in [Request -> Seq(Snapshot)]
  /\ events \in SUBSET Events
  /\ \A r \in Request : stripe[r] # <<>> => request[r].pc = "issued"
  /\ \A e \in events : e.version \in DOMAIN stripe[e.sub]
  /\ \A r \in Request : \A v \in DOMAIN stripe[r] :
       \E e \in events : e.sub = r /\ e.kind # "other" /\ e.version = v

\* What a step of Stripe may do: histories grow at their end, and an event that
\* changes a subscription is of a version that was not there before.
StripeGrows ==
  /\ \A r \in Request : \A v \in DOMAIN stripe[r] :
       v \in DOMAIN stripe'[r] /\ stripe'[r][v] = stripe[r][v]
  /\ events \subseteq events'
  /\ \A e \in events' \ events : e.kind # "other" => e.version \notin DOMAIN stripe[e.sub]

LEMMA EventShape ==
  ASSUME NEW kind \in {"checkout", "changed", "other"}, NEW r \in Request,
         NEW version \in Nat \ {0}
  PROVE  /\ Event(kind, r, version) \in Events
         /\ Event(kind, r, version).kind = kind
         /\ Event(kind, r, version).sub = r
         /\ Event(kind, r, version).version = version
BY DEF Event, Events

\* A history that gets one more state, with its event.
LEMMA HistoryGrows ==
  ASSUME StripeInv, NEW r \in Request, request[r].pc = "issued", request' = request,
         NEW snapshot \in Snapshot,
         stripe' = [stripe EXCEPT ![r] = Append(@, snapshot)],
         NEW kind \in {"checkout", "changed"},
         events' = events \cup {Event(kind, r, Len(stripe[r]) + 1)}
  PROVE  StripeInv' /\ StripeGrows
<1>1. stripe[r] \in Seq(Snapshot) /\ Len(stripe[r]) \in Nat
      /\ DOMAIN stripe[r] = 1..Len(stripe[r])
  BY DEF StripeInv
<1>2. PICK n \in Nat : n = Len(stripe[r])
  BY <1>1
<1>3. PICK e \in Events : /\ e = Event(kind, r, n + 1) /\ e.kind = kind /\ e.sub = r
                          /\ e.version = n + 1
  BY EventShape
<1>4. PICK s : s = Append(stripe[r], snapshot)
  OBVIOUS
<1>5. /\ s \in Seq(Snapshot) /\ s # <<>>
      /\ DOMAIN s = 1..(n + 1) /\ DOMAIN stripe[r] = 1..n
      /\ \A v \in 1..n : s[v] = stripe[r][v]
  BY <1>1, <1>2, <1>4
<1>6. stripe' = [stripe EXCEPT ![r] = s] /\ events' = events \cup {e}
  BY <1>2, <1>3, <1>4
<1>7. stripe' \in [Request -> Seq(Snapshot)]
      /\ \A q \in Request : stripe'[q] = IF q = r THEN s ELSE stripe[q]
  <2>1. PICK S : S = Seq(Snapshot)
    OBVIOUS
  <2>2. stripe \in [Request -> S] /\ s \in S
    BY <1>5, <2>1 DEF StripeInv
  <2>3. stripe' \in [Request -> S] /\ \A q \in Request : stripe'[q] = IF q = r THEN s ELSE stripe[q]
    BY <1>6, <2>2
  <2> QED
    BY <2>1, <2>3
<1>8. StripeGrows
  <2>1. \A q \in Request : \A v \in DOMAIN stripe[q] :
          v \in DOMAIN stripe'[q] /\ stripe'[q][v] = stripe[q][v]
    BY <1>5, <1>7
  <2>2. e.version \notin DOMAIN stripe[e.sub]
    BY <1>3, <1>5
  <2> QED
    BY <1>6, <2>1, <2>2 DEF StripeGrows
<1>9. \A d \in events' : d.version \in DOMAIN stripe'[d.sub]
  <2>1. \A d \in events : d.sub \in Request /\ d.version \in DOMAIN stripe[d.sub]
    BY DEF StripeInv, Events
  <2>2. e.version \in DOMAIN stripe'[e.sub]
    BY <1>3, <1>5, <1>7
  <2> QED
    BY <1>6, <1>8, <2>1, <2>2 DEF StripeGrows
<1>10. ASSUME NEW q \in Request, NEW v \in DOMAIN stripe'[q]
       PROVE  \E d \in events' : d.sub = q /\ d.kind # "other" /\ d.version = v
  <2>1. CASE q = r /\ v = n + 1
    BY <1>3, <1>6, <2>1
  <2>2. CASE ~(q = r /\ v = n + 1)
    <3>1. v \in DOMAIN stripe[q]
      BY <1>5, <1>7, <1>10, <2>2
    <3> QED
      BY <1>6, <3>1 DEF StripeInv
  <2> QED
    BY <2>1, <2>2
<1>11. \A q \in Request : stripe'[q] # <<>> => request'[q].pc = "issued"
  BY <1>7 DEF StripeInv
<1> QED
  BY <1>3, <1>6, <1>7, <1>8, <1>9, <1>10, <1>11 DEF StripeInv

LEMMA StripeInvStep ==
  ASSUME StripeInv, CheckoutInv, NEW r \in Request, StripeStep(r)
  PROVE  StripeInv' /\ StripeGrows
<1>1. CASE Pay(r)
  <2>1. stripe[r] = <<>> /\ request[r].pc = "issued" /\ request' = request
        /\ events' = events \cup {Event("checkout", r, 1)}
    BY <1>1 DEF Pay, Checking, Emit, checkoutVars
  <2>2. PICK snapshot : snapshot = [status |-> "active", price |-> request[r].plan]
    OBVIOUS
  <2>3. request[r].plan \in Plan
    BY <2>1 DEF CheckoutInv, CheckoutTypes, Idle, Serving
  <2>4. snapshot \in Snapshot
    BY <2>2, <2>3, BillingAssumption DEF Price, Snapshot
  <2>5. Append(stripe[r], snapshot) = <<snapshot>> /\ Len(stripe[r]) + 1 = 1
    BY <2>1, <2>4
  <2>6. stripe' = [stripe EXCEPT ![r] = Append(@, snapshot)]
    BY <1>1, <2>2, <2>5 DEF Pay, StripeInv
  <2> QED
    BY <2>1, <2>4, <2>5, <2>6, HistoryGrows
<1>2. CASE Notify(r)
  <2>1. stripe[r] # <<>> /\ stripe' = stripe /\ request' = request
        /\ events' = events \cup {Event("other", r, Len(stripe[r]))}
    BY <1>2 DEF Notify, Emit, checkoutVars
  <2>2. Len(stripe[r]) \in Nat \ {0} /\ Len(stripe[r]) \in DOMAIN stripe[r]
    BY <2>1 DEF StripeInv
  <2>3. PICK e \in Events : /\ e = Event("other", r, Len(stripe[r])) /\ e.kind = "other"
                            /\ e.sub = r /\ e.version = Len(stripe[r])
    BY <2>2, EventShape
  <2>4. StripeGrows
    BY <2>1, <2>3 DEF StripeGrows
  <2>5. events' \in SUBSET Events /\ \A d \in events' : d.version \in DOMAIN stripe'[d.sub]
    BY <2>1, <2>2, <2>3 DEF StripeInv
  <2>6. \A q \in Request : \A v \in DOMAIN stripe'[q] :
          \E d \in events' : d.sub = q /\ d.kind # "other" /\ d.version = v
    BY <2>1 DEF StripeInv
  <2> QED
    BY <2>1, <2>4, <2>5, <2>6 DEF StripeInv
<1>3. ASSUME NEW status \in Status, NEW price \in Price, Change(r, status, price)
      PROVE  StripeInv' /\ StripeGrows
  <2>1. PICK snapshot : snapshot = [status |-> status, price |-> price]
    OBVIOUS
  <2>2. stripe' = [stripe EXCEPT ![r] = Append(@, snapshot)] /\ stripe[r] # <<>>
        /\ events' = events \cup {Event("changed", r, Len(stripe[r]) + 1)} /\ request' = request
    BY <1>3, <2>1 DEF Change, Emit, checkoutVars
  <2>3. request[r].pc = "issued" /\ snapshot \in Snapshot
    BY <2>1, <2>2 DEF StripeInv, Snapshot
  <2> QED
    BY <2>2, <2>3, HistoryGrows
<1> QED
  BY <1>1, <1>2, <1>3 DEF StripeStep

\* An issued session stays, so what Stripe has of it does.
LEMMA StripeInvFrame ==
  ASSUME StripeInv, UNCHANGED stripeVars,
         \A q \in Request : request[q].pc = "issued" => request'[q] = request[q]
  PROVE  StripeInv'
<1>1. stripe' = stripe /\ events' = events
  BY DEF stripeVars
<1>2. \A r \in Request : stripe'[r] # <<>> => request'[r].pc = "issued"
  BY <1>1 DEF StripeInv
<1> QED
  BY <1>1, <1>2 DEF StripeInv

-----------------------------------------------------------------------------
(* The two layers together. *)

\* Every step is one of the checkout, of Stripe, or of the webhook.
WebhookStep ==
  \E h \in Handler : (\E e \in events : Receive(h, e)) \/ HandlerStep(h) \/ AbortDelivery(h)

BaseInv == CheckoutInv /\ StripeInv

LEMMA StepKinds ==
  ASSUME [Next]_vars
  PROVE  \/ \E r \in Request : CheckoutStep(r)
         \/ \E r \in Request : StripeStep(r)
         \/ WebhookStep
         \/ UNCHANGED vars
BY DEF Next, WebhookStep

LEMMA CheckoutFrame ==
  ASSUME NEW r \in Request, CheckoutStep(r)
  PROVE  UNCHANGED <<stripeVars, webhookVars>> /\ aborts' \in {aborts, aborts + 1}
BY DEF CheckoutStep, Checkout, LookUpCustomer, CreateStripeCustomer, InsertCustomer, IssueSession,
       AbortCheckout

LEMMA StripeFrame ==
  ASSUME NEW r \in Request, StripeStep(r)
  PROVE  UNCHANGED <<checkoutVars, webhookVars, aborts>>
BY DEF StripeStep, Pay, Notify, Change

LEMMA WebhookFrame ==
  ASSUME WebhookStep
  PROVE  UNCHANGED <<checkoutVars, stripeVars>> /\ aborts' \in {aborts, aborts + 1}
BY DEF WebhookStep, HandlerStep, Receive, InsertEvent, FindCustomer, Retrieve, FindPlan, Upsert,
       Commit, Reply, AbortDelivery

LEMMA CheckoutInvFrame ==
  ASSUME CheckoutInv, UNCHANGED checkoutVars
  PROVE  CheckoutInv'
BY DEF CheckoutInv, CheckoutTypes, CustomersBelong, checkoutVars

LEMMA BaseInvInit ==
  ASSUME Init
  PROVE  BaseInv
<1>1. CheckoutInv
  BY DEF Init, CheckoutInv, CheckoutTypes, CustomersBelong, Idle
<1>2. StripeInv
  BY DEF Init, StripeInv
<1> QED
  BY <1>1, <1>2 DEF BaseInv

LEMMA BaseInvNext ==
  ASSUME BaseInv, [Next]_vars
  PROVE  BaseInv'
<1>0. CheckoutInv /\ StripeInv
  BY DEF BaseInv
<1>1. ASSUME NEW r \in Request, CheckoutStep(r)
      PROVE  BaseInv'
  BY <1>0, <1>1, CheckoutInvStep, CheckoutFrame, StripeInvFrame DEF BaseInv
<1>2. ASSUME NEW r \in Request, StripeStep(r)
      PROVE  BaseInv'
  BY <1>0, <1>2, StripeInvStep, StripeFrame, CheckoutInvFrame DEF BaseInv
<1>3. CASE WebhookStep
  BY <1>0, <1>3, WebhookFrame, CheckoutInvFrame, StripeInvFrame DEF BaseInv, checkoutVars
<1>4. CASE UNCHANGED vars
  BY <1>0, <1>4, CheckoutInvFrame, StripeInvFrame DEF BaseInv, checkoutVars, stripeVars, vars
<1> QED
  BY <1>1, <1>2, <1>3, <1>4, StepKinds

\* A session is issued only for the customer in its user's row, however many
\* checkouts of the user race (billing-customers.ts with the table's key).
THEOREM SessionsAreForCustomers == Safety => []SessionsHaveCustomers
<1>1. BaseInv => SessionsHaveCustomers
  BY DEF BaseInv, CheckoutInv, CustomersBelong, SessionsHaveCustomers
<1> QED
  BY <1>1, BaseInvInit, BaseInvNext, PTL DEF Safety

-----------------------------------------------------------------------------
(* Deliveries. *)

\* What a delivery has established when it is where it is.
Known(d) ==
  /\ d.event \in events
  /\ d.version \in DOMAIN stripe[d.event.sub]
  /\ d.event.version <= d.version
  /\ d.pc \in {"customer", "retrieve", "plan", "upsert", "commit"} => d.event \notin processed
  /\ d.pc \in {"customer", "retrieve", "plan", "upsert"} => d.event.kind # "other"
  /\ d.pc \in {"upsert", "commit"} /\ d.event.kind # "other" =>
       stripe[d.event.sub][d.version].price \in Plan
  /\ d.pc = "reply" => d.event \in processed

\* No event is in two transactions.
HandlerInv ==
  /\ handler \in [Handler -> {Idle} \cup Delivery]
  /\ processed \subseteq events
  /\ \A h \in Handler : handler[h].pc # "idle" => Known(handler[h])
  /\ \A g, h \in Handler :
       InTransaction(g) /\ InTransaction(h) /\ handler[g].event = handler[h].event => g = h

\* A delivery moves on, is taken up or dropped.
LEMMA DeliveryMoves ==
  ASSUME HandlerInv, NEW h \in Handler, NEW d \in {Idle} \cup Delivery,
         handler' = [handler EXCEPT ![h] = d], UNCHANGED <<stripeVars, processed>>,
         d.pc # "idle" => Known(d),
         d.pc \in {"customer", "retrieve", "plan", "upsert", "commit"} =>
           \A g \in Handler \ {h} : ~(InTransaction(g) /\ handler[g].event = d.event)
  PROVE  HandlerInv'
<1>1. handler' \in [Handler -> {Idle} \cup Delivery]
      /\ \A g \in Handler : handler'[g] = IF g = h THEN d ELSE handler[g]
  BY DEF HandlerInv
<1>2. stripe' = stripe /\ events' = events /\ processed' = processed
  BY DEF stripeVars
<1>3. ASSUME NEW g \in Handler, handler'[g].pc # "idle"
      PROVE  Known(handler[g])'
  <2>1. Known(handler'[g])
    BY <1>1, <1>3 DEF HandlerInv
  <2> QED
    BY <1>2, <2>1 DEF Known
<1>4. ASSUME NEW f \in Handler, NEW g \in Handler, InTransaction(f)', InTransaction(g)',
             handler'[f].event = handler'[g].event
      PROVE  f = g
  BY <1>1, <1>4 DEF HandlerInv, InTransaction
<1> QED
  BY <1>1, <1>2, <1>3, <1>4 DEF HandlerInv

\* What is known stays so while histories only grow.
LEMMA DeliveriesWait ==
  ASSUME HandlerInv, StripeInv, StripeGrows, handler' = handler, processed' = processed
  PROVE  HandlerInv'
<1>1. ASSUME NEW h \in Handler, handler[h].pc # "idle"
      PROVE  Known(handler[h])'
  <2>1. Known(handler[h])
    BY <1>1 DEF HandlerInv
  <2>2. handler[h].event.sub \in Request
    BY <2>1 DEF Known, StripeInv, Events
  <2> QED
    BY <2>1, <2>2 DEF Known, StripeGrows
<1>2. processed' \subseteq events'
  BY DEF HandlerInv, StripeGrows
<1> QED
  BY <1>1, <1>2 DEF HandlerInv, InTransaction

LEMMA BusyDelivery ==
  ASSUME HandlerInv, StripeInv, NEW h \in Handler, ~Handling(h, "idle")
  PROVE  /\ handler[h] \in Delivery
         /\ Known(handler[h])
         /\ handler[h].event \in events
         /\ handler[h].event.sub \in Request
         /\ handler[h].event.version \in Nat \ {0}
         /\ handler[h].version \in Nat \ {0}
BY DEF HandlerInv, Handling, Idle, Known, StripeInv, Events, Delivery

\* A delivery in a transaction goes on in it.
LEMMA TransactionMoves ==
  ASSUME HandlerInv, StripeInv, NEW h \in Handler, InTransaction(h),
         NEW pc \in {"customer", "retrieve", "plan", "upsert", "commit"},
         handler' = [handler EXCEPT ![h].pc = pc], UNCHANGED <<stripeVars, processed>>,
         pc \in {"customer", "retrieve", "plan", "upsert"} => handler[h].event.kind # "other",
         pc \in {"upsert", "commit"} /\ handler[h].event.kind # "other" =>
           stripe[handler[h].event.sub][handler[h].version].price \in Plan
  PROVE  HandlerInv'
<1>1. ~Handling(h, "idle")
  BY DEF InTransaction, Handling
<1>2. handler[h] \in Delivery /\ Known(handler[h])
  BY <1>1, BusyDelivery
<1>3. PICK d : d = [handler[h] EXCEPT !.pc = pc]
  OBVIOUS
<1>4. d \in Delivery /\ d.pc = pc /\ d.event = handler[h].event /\ d.version = handler[h].version
  BY <1>2, <1>3 DEF Delivery
<1>5. handler' = [handler EXCEPT ![h] = d]
  BY <1>3
<1>6. Known(d)
  BY <1>2, <1>4 DEF Known, InTransaction
<1>7. \A g \in Handler \ {h} : ~(InTransaction(g) /\ handler[g].event = d.event)
  BY <1>4 DEF HandlerInv
<1> QED
  BY <1>4, <1>5, <1>6, <1>7, DeliveryMoves

LEMMA DeliveryDrops ==
  ASSUME HandlerInv, NEW h \in Handler, handler' = [handler EXCEPT ![h] = Idle],
         UNCHANGED <<stripeVars, processed>>
  PROVE  HandlerInv'
BY DeliveryMoves DEF Idle

LEMMA ReceiveKeepsHandlers ==
  ASSUME HandlerInv, StripeInv, NEW h \in Handler, NEW e \in events, Receive(h, e)
  PROVE  HandlerInv'
<1>1. PICK d : d = [pc |-> "insert", event |-> e, version |-> e.version]
  OBVIOUS
<1>2. d \in Delivery /\ d.pc = "insert" /\ d.event = e /\ d.version = e.version
  BY <1>1 DEF Delivery, StripeInv, Events
<1>3. e.version \in Nat /\ e.version \in DOMAIN stripe[e.sub]
  BY DEF StripeInv, Events
<1>4. handler' = [handler EXCEPT ![h] = d] /\ UNCHANGED <<stripeVars, processed>>
  BY <1>1 DEF Receive
<1>5. Known(d)
  BY <1>2, <1>3 DEF Known
<1> QED
  BY <1>2, <1>4, <1>5, DeliveryMoves

LEMMA InsertEventKeepsHandlers ==
  ASSUME HandlerInv, StripeInv, NEW h \in Handler, InsertEvent(h)
  PROVE  HandlerInv'
<1>1. Handling(h, "insert") /\ ~Handling(h, "idle") /\ UNCHANGED <<stripeVars, processed>>
  BY DEF InsertEvent, Handling
<1>2. handler[h] \in Delivery /\ Known(handler[h])
  BY <1>1, BusyDelivery
<1>3. PICK pc : pc = IF handler[h].event \in processed THEN "reply"
                     ELSE IF handler[h].event.kind = "other" THEN "commit" ELSE "customer"
  OBVIOUS
<1>4. PICK d : d = [handler[h] EXCEPT !.pc = pc]
  OBVIOUS
<1>5. d \in Delivery /\ d.pc = pc /\ d.event = handler[h].event /\ d.version = handler[h].version
  BY <1>2, <1>3, <1>4 DEF Delivery
<1>6. handler' = [handler EXCEPT ![h] = d]
  BY <1>3, <1>4 DEF InsertEvent, GoTo
<1>7. Known(d)
  BY <1>2, <1>3, <1>5 DEF Known
<1>8. \A g \in Handler \ {h} : ~(InTransaction(g) /\ handler[g].event = d.event)
  BY <1>5 DEF InsertEvent
<1> QED
  BY <1>1, <1>5, <1>6, <1>7, <1>8, DeliveryMoves

LEMMA FindCustomerKeepsHandlers ==
  ASSUME HandlerInv, StripeInv, NEW h \in Handler, FindCustomer(h)
  PROVE  HandlerInv'
<1>1. Handling(h, "customer") /\ ~Handling(h, "idle") /\ InTransaction(h)
      /\ UNCHANGED <<stripeVars, processed>>
  BY DEF FindCustomer, Handling, InTransaction
<1>2. handler[h].event.kind # "other"
  BY <1>1, BusyDelivery DEF Known, Handling
<1>3. \/ handler' = [handler EXCEPT ![h].pc = "retrieve"]
      \/ handler' = [handler EXCEPT ![h].pc = "plan"]
      \/ handler' = [handler EXCEPT ![h] = Idle]
  BY DEF FindCustomer, GoTo
<1>4. CASE handler' = [handler EXCEPT ![h].pc = "retrieve"]
  BY <1>1, <1>2, <1>4, TransactionMoves
<1>5. CASE handler' = [handler EXCEPT ![h].pc = "plan"]
  BY <1>1, <1>2, <1>5, TransactionMoves
<1>6. CASE handler' = [handler EXCEPT ![h] = Idle]
  BY <1>1, <1>6, DeliveryDrops
<1> QED
  BY <1>3, <1>4, <1>5, <1>6

LEMMA RetrieveKeepsHandlers ==
  ASSUME HandlerInv, StripeInv, NEW h \in Handler, Retrieve(h)
  PROVE  HandlerInv'
<1>1. Handling(h, "retrieve") /\ ~Handling(h, "idle") /\ UNCHANGED <<stripeVars, processed>>
  BY DEF Retrieve, Handling
<1>2. handler[h] \in Delivery /\ Known(handler[h]) /\ handler[h].event.sub \in Request
      /\ handler[h].event \in events /\ handler[h].event.version \in Nat
  BY <1>1, BusyDelivery
<1>3. PICK n : n = Len(stripe[handler[h].event.sub])
  OBVIOUS
<1>4. n \in Nat /\ DOMAIN stripe[handler[h].event.sub] = 1..n
  BY <1>2, <1>3 DEF StripeInv
<1>5. handler[h].event.version \in 1..n
  BY <1>2, <1>4 DEF StripeInv
<1>6. PICK d : d = [handler[h] EXCEPT !.pc = "plan", !.version = n]
  OBVIOUS
<1>7. n \in Nat \ {0} /\ n \in 1..n /\ handler[h].event.version <= n
  BY <1>2, <1>4, <1>5
<1>8. d \in Delivery /\ d.pc = "plan" /\ d.event = handler[h].event /\ d.version = n
  BY <1>2, <1>6, <1>7 DEF Delivery
<1>9. handler' = [handler EXCEPT ![h] = d]
  BY <1>3, <1>6 DEF Retrieve
<1>10. Known(d)
  BY <1>1, <1>2, <1>4, <1>7, <1>8 DEF Known, Handling
<1>11. \A g \in Handler \ {h} : ~(InTransaction(g) /\ handler[g].event = d.event)
  BY <1>1, <1>8 DEF HandlerInv, InTransaction, Handling
<1> QED
  BY <1>1, <1>8, <1>9, <1>10, <1>11, DeliveryMoves

LEMMA FindPlanKeepsHandlers ==
  ASSUME HandlerInv, StripeInv, NEW h \in Handler, FindPlan(h)
  PROVE  HandlerInv'
<1>1. Handling(h, "plan") /\ ~Handling(h, "idle") /\ InTransaction(h)
      /\ UNCHANGED <<stripeVars, processed>>
  BY DEF FindPlan, Handling, InTransaction
<1>2. handler[h].event.kind # "other"
  BY <1>1, BusyDelivery DEF Known, Handling
<1>3. CASE stripe[handler[h].event.sub][handler[h].version].price \in Plan
  <2>1. handler' = [handler EXCEPT ![h].pc = "upsert"]
    BY <1>3 DEF FindPlan, GoTo
  <2> QED
    BY <1>1, <1>2, <1>3, <2>1, TransactionMoves
<1>4. CASE stripe[handler[h].event.sub][handler[h].version].price \notin Plan
  BY <1>1, <1>4, DeliveryDrops DEF FindPlan
<1> QED
  BY <1>3, <1>4

LEMMA UpsertKeepsHandlers ==
  ASSUME HandlerInv, StripeInv, NEW h \in Handler, Upsert(h)
  PROVE  HandlerInv'
<1>1. Handling(h, "upsert") /\ ~Handling(h, "idle") /\ InTransaction(h)
      /\ UNCHANGED <<stripeVars, processed>> /\ handler' = [handler EXCEPT ![h].pc = "commit"]
  BY DEF Upsert, Handling, InTransaction, GoTo
<1>2. handler[h].event.kind # "other" =>
        stripe[handler[h].event.sub][handler[h].version].price \in Plan
  BY <1>1, BusyDelivery DEF Known, Handling
<1> QED
  BY <1>1, <1>2, TransactionMoves

\* The event that commits was in no other transaction.
LEMMA CommitKeepsHandlers ==
  ASSUME HandlerInv, StripeInv, NEW h \in Handler, Commit(h)
  PROVE  HandlerInv'
<1>1. Handling(h, "commit") /\ ~Handling(h, "idle") /\ InTransaction(h) /\ UNCHANGED stripeVars
  BY DEF Commit, Handling, InTransaction
<1>2. PICK e : e = handler[h].event
  OBVIOUS
<1>3. handler[h] \in Delivery /\ Known(handler[h]) /\ e \in events
  BY <1>1, <1>2, BusyDelivery
<1>4. PICK d : d = [handler[h] EXCEPT !.pc = "reply"]
  OBVIOUS
<1>5. d \in Delivery /\ d.pc = "reply" /\ d.event = e /\ d.version = handler[h].version
  BY <1>2, <1>3, <1>4 DEF Delivery
<1>6. handler' = [handler EXCEPT ![h] = d] /\ processed' = processed \cup {e}
  BY <1>2, <1>4 DEF Commit, GoTo
<1>7. handler' \in [Handler -> {Idle} \cup Delivery]
      /\ \A g \in Handler : handler'[g] = IF g = h THEN d ELSE handler[g]
  BY <1>5, <1>6 DEF HandlerInv
<1>8. stripe' = stripe /\ events' = events
  BY <1>1 DEF stripeVars
<1>9. ASSUME NEW g \in Handler, handler'[g].pc # "idle"
      PROVE  Known(handler[g])'
  <2>1. CASE g = h
    BY <1>2, <1>3, <1>5, <1>6, <1>7, <1>8, <2>1 DEF Known
  <2>2. CASE g # h
    <3>1. Known(handler[g]) /\ handler'[g] = handler[g]
      BY <1>7, <1>9, <2>2 DEF HandlerInv
    <3>2. InTransaction(g) => handler[g].event # e
      BY <1>1, <1>2, <2>2 DEF HandlerInv
    <3> QED
      BY <1>6, <1>8, <3>1, <3>2 DEF Known, InTransaction
  <2> QED
    BY <2>1, <2>2
<1>10. ASSUME NEW f \in Handler, NEW g \in Handler, InTransaction(f)', InTransaction(g)',
              handler'[f].event = handler'[g].event
       PROVE  f = g
  BY <1>5, <1>7, <1>10 DEF HandlerInv, InTransaction
<1>11. processed' \subseteq events'
  BY <1>3, <1>6, <1>8 DEF HandlerInv
<1> QED
  BY <1>7, <1>9, <1>10, <1>11 DEF HandlerInv

LEMMA HandlersKept ==
  ASSUME HandlerInv, StripeInv, WebhookStep
  PROVE  HandlerInv'
<1>1. ASSUME NEW h \in Handler, Reply(h)
      PROVE  HandlerInv'
  BY <1>1, DeliveryDrops DEF Reply
<1>2. ASSUME NEW h \in Handler, AbortDelivery(h)
      PROVE  HandlerInv'
  BY <1>2, DeliveryDrops DEF AbortDelivery
<1> QED
  BY <1>1, <1>2, ReceiveKeepsHandlers, InsertEventKeepsHandlers, FindCustomerKeepsHandlers,
     RetrieveKeepsHandlers, FindPlanKeepsHandlers, UpsertKeepsHandlers, CommitKeepsHandlers
     DEF WebhookStep, HandlerStep

-----------------------------------------------------------------------------
(* The mirror. *)

Row == [user : User, version : Nat \ {0}]

MirrorTypes ==
  /\ mirror \in [Request -> {NoRow} \cup Row]
  /\ acked \subseteq processed

MirrorInv ==
  /\ MirrorTypes
  /\ \A r \in Request : mirror[r] # NoRow =>
       /\ mirror[r].user = request[r].user
       /\ mirror[r].version \in DOMAIN stripe[r]
       /\ stripe[r][mirror[r].version].price \in Plan
       /\ \E e \in processed : e.sub = r /\ e.kind # "other"
  /\ \A e \in processed : e.kind # "other" => mirror[e.sub] # NoRow

\* getByStripeCustomerId finds the one user whose checkout the event is about.
LEMMA OwnerIsUser ==
  ASSUME BaseInv, NEW r \in Request, stripe[r] # <<>>
  PROVE  Owner(r) = request[r].user /\ request[r].user \in User
<1>1. CheckoutTypes /\ CustomersBelong
  BY DEF BaseInv, CheckoutInv
<1>2. request[r].pc = "issued"
  BY DEF BaseInv, StripeInv
<1>3. PICK c, w : c = request[r].customer /\ w = request[r].user
  OBVIOUS
<1>4. w \in User /\ c # NoCustomer /\ customers[w] = c
  BY <1>1, <1>2, <1>3, ServedRequests DEF CustomersBelong, Checking
<1>5. \A u \in User : customers[u] = c => u = w
  BY <1>1, <1>4 DEF CustomersBelong
<1> QED
  BY <1>3, <1>4, <1>5 DEF Owner, CustomerOf

LEMMA EventsHaveHistories ==
  ASSUME StripeInv, NEW e \in events
  PROVE  e.sub \in Request /\ stripe[e.sub] # <<>> /\ e.version \in Nat \ {0}
<1>1. e.sub \in Request /\ e.version \in DOMAIN stripe[e.sub] /\ e.version \in Nat \ {0}
  BY DEF StripeInv, Events
<1> QED
  BY <1>1

\* A commit writes a row and marks its event, and nobody else does either.
LEMMA CommitWrites ==
  ASSUME BaseInv, HandlerInv, MirrorInv, NEW h \in Handler, Commit(h)
  PROVE  \E e \in events \ processed, w \in Nat \ {0} :
           /\ processed' = processed \cup {e}
           /\ e = handler[h].event /\ w = handler[h].version
           /\ e.sub \in Request /\ e.version <= w /\ w \in DOMAIN stripe[e.sub]
           /\ e.kind # "other" => stripe[e.sub][w].price \in Plan
           /\ request[e.sub].user \in User
           /\ mirror' = IF e.kind = "other" THEN mirror
                        ELSE [mirror EXCEPT ![e.sub] = [user |-> request[e.sub].user, version |-> w]]
<1>1. StripeInv /\ CheckoutInv
  BY DEF BaseInv
<1>2. PICK e, w : e = handler[h].event /\ w = handler[h].version
  OBVIOUS
<1>3. Handling(h, "commit") /\ ~Handling(h, "idle")
  BY DEF Commit, Handling
<1>4. e \in events /\ w \in Nat \ {0} /\ Known(handler[h])
  BY <1>1, <1>2, <1>3, BusyDelivery
<1>5. e \notin processed /\ e.version <= w /\ w \in DOMAIN stripe[e.sub]
      /\ (e.kind # "other" => stripe[e.sub][w].price \in Plan)
  BY <1>2, <1>3, <1>4 DEF Known, Handling
<1>6. e.sub \in Request /\ stripe[e.sub] # <<>>
  BY <1>1, <1>4, EventsHaveHistories
<1>7. Owner(e.sub) = request[e.sub].user /\ request[e.sub].user \in User
  BY <1>6, OwnerIsUser
<1>8. mirror[e.sub] # NoRow => mirror[e.sub].user = request[e.sub].user
  BY <1>6 DEF MirrorInv
<1>9. PICK user : user = IF mirror[e.sub] = NoRow THEN Owner(e.sub) ELSE mirror[e.sub].user
  OBVIOUS
<1>10. processed' = processed \cup {e}
       /\ mirror' = IF e.kind = "other" THEN mirror
                    ELSE [mirror EXCEPT ![e.sub] = [user |-> user, version |-> w]]
  BY <1>2, <1>9 DEF Commit
<1>11. user = request[e.sub].user
  BY <1>7, <1>8, <1>9
<1> QED
  BY <1>2, <1>4, <1>5, <1>6, <1>7, <1>10, <1>11

LEMMA OnlyCommitWrites ==
  ASSUME WebhookStep, \A h \in Handler : ~Commit(h)
  PROVE  UNCHANGED <<processed, mirror>>
BY DEF WebhookStep, HandlerStep, Receive, InsertEvent, FindCustomer, Retrieve, FindPlan, Upsert,
       Reply, AbortDelivery

LEMMA CommitKeepsMirror ==
  ASSUME BaseInv, HandlerInv, MirrorInv, NEW h \in Handler, Commit(h)
  PROVE  MirrorInv'
<1>1. PICK e \in events \ processed, w \in Nat \ {0} :
        /\ processed' = processed \cup {e}
        /\ e.sub \in Request /\ e.version <= w /\ w \in DOMAIN stripe[e.sub]
        /\ e.kind # "other" => stripe[e.sub][w].price \in Plan
        /\ request[e.sub].user \in User
        /\ mirror' = IF e.kind = "other" THEN mirror
                     ELSE [mirror EXCEPT ![e.sub] = [user |-> request[e.sub].user, version |-> w]]
  BY CommitWrites
<1>2. stripe' = stripe /\ request' = request /\ acked' = acked
  BY DEF Commit, stripeVars, checkoutVars
<1>3. acked' \subseteq processed'
  BY <1>1, <1>2 DEF MirrorInv, MirrorTypes
<1>4. CASE e.kind = "other"
  BY <1>1, <1>2, <1>3, <1>4 DEF MirrorInv, MirrorTypes
<1>5. CASE e.kind # "other"
  <2>1. PICK row : row = [user |-> request[e.sub].user, version |-> w]
    OBVIOUS
  <2>2. row \in Row /\ row.user = request[e.sub].user /\ row.version = w
    BY <1>1, <2>1 DEF Row
  <2>3. row # NoRow
    BY <2>2, BillingAssumption DEF Row
  <2>4. mirror' = [mirror EXCEPT ![e.sub] = row]
    BY <1>1, <1>5, <2>1
  <2>5. mirror' \in [Request -> {NoRow} \cup Row]
        /\ \A r \in Request : mirror'[r] = IF r = e.sub THEN row ELSE mirror[r]
    BY <2>2, <2>4 DEF MirrorInv, MirrorTypes
  <2>6. \A d \in processed' : d.kind # "other" => mirror'[d.sub] # NoRow
    <3>1. \A d \in processed : d.sub \in Request
      BY EventsHaveHistories DEF HandlerInv, BaseInv
    <3> QED
      BY <1>1, <2>3, <2>5, <3>1 DEF MirrorInv
  <2>7. ASSUME NEW r \in Request, mirror'[r] # NoRow
        PROVE  /\ mirror'[r].user = request'[r].user
               /\ mirror'[r].version \in DOMAIN stripe'[r]
               /\ stripe'[r][mirror'[r].version].price \in Plan
               /\ \E d \in processed' : d.sub = r /\ d.kind # "other"
    <3>1. CASE r = e.sub
      BY <1>1, <1>2, <1>5, <2>2, <2>5, <3>1
    <3>2. CASE r # e.sub
      BY <1>1, <1>2, <2>5, <2>7, <3>2 DEF MirrorInv
    <3> QED
      BY <3>1, <3>2
  <2> QED
    BY <1>3, <2>5, <2>6, <2>7 DEF MirrorInv, MirrorTypes
<1> QED
  BY <1>4, <1>5

LEMMA WebhookKeepsMirror ==
  ASSUME BaseInv, HandlerInv, MirrorInv, WebhookStep
  PROVE  MirrorInv'
<1>1. CASE \E h \in Handler : Commit(h)
  BY <1>1, CommitKeepsMirror
<1>2. CASE \A h \in Handler : ~Commit(h)
  <2>1. UNCHANGED <<processed, mirror>> /\ UNCHANGED <<checkoutVars, stripeVars>>
    BY <1>2, OnlyCommitWrites, WebhookFrame
  <2>2. acked' \subseteq processed'
    <3>1. ASSUME NEW h \in Handler, Reply(h)
          PROVE  acked' \subseteq processed
      <4>1. Handling(h, "reply") /\ ~Handling(h, "idle") /\ acked' = acked \cup {handler[h].event}
        BY <3>1 DEF Reply, Handling
      <4>2. handler[h].event \in processed
        BY <4>1, BusyDelivery DEF BaseInv, Known, Handling
      <4> QED
        BY <4>1, <4>2 DEF MirrorInv, MirrorTypes
    <3>2. CASE \A h \in Handler : ~Reply(h)
      BY <1>2, <3>2 DEF WebhookStep, HandlerStep, Receive, InsertEvent, FindCustomer, Retrieve,
         FindPlan, Upsert, AbortDelivery, MirrorInv, MirrorTypes
    <3> QED
      BY <2>1, <3>1, <3>2 DEF MirrorInv, MirrorTypes
  <2> QED
    BY <2>1, <2>2 DEF MirrorInv, MirrorTypes, checkoutVars, stripeVars
<1> QED
  BY <1>1, <1>2

LEMMA StripeKeepsMirror ==
  ASSUME MirrorInv, StripeGrows, UNCHANGED <<checkoutVars, webhookVars>>
  PROVE  MirrorInv'
BY DEF MirrorInv, MirrorTypes, StripeGrows, checkoutVars, webhookVars

LEMMA CheckoutKeepsMirror ==
  ASSUME MirrorInv, StripeInv, UNCHANGED <<stripeVars, webhookVars>>,
         \A q \in Request : request[q].pc = "issued" => request'[q] = request[q]
  PROVE  MirrorInv'
<1>1. \A r \in Request : mirror[r] # NoRow => request'[r] = request[r]
  <2>1. ASSUME NEW r \in Request, mirror[r] # NoRow
        PROVE  stripe[r] # <<>>
    BY <2>1 DEF MirrorInv
  <2> QED
    BY <2>1 DEF StripeInv
<1> QED
  BY <1>1 DEF MirrorInv, MirrorTypes, stripeVars, webhookVars

-----------------------------------------------------------------------------
(* The theorems about the mirror. *)

BillingInv == BaseInv /\ HandlerInv /\ MirrorInv

LEMMA BillingInvInit ==
  ASSUME Init
  PROVE  BillingInv
<1>1. HandlerInv
  BY DEF Init, HandlerInv, InTransaction, Idle
<1>2. MirrorInv
  BY DEF Init, MirrorInv, MirrorTypes
<1> QED
  BY <1>1, <1>2, BaseInvInit DEF BillingInv

LEMMA BillingInvNext ==
  ASSUME BillingInv, [Next]_vars
  PROVE  BillingInv'
<1>0. BaseInv /\ CheckoutInv /\ StripeInv /\ HandlerInv /\ MirrorInv /\ BaseInv'
  BY BaseInvNext DEF BillingInv, BaseInv
<1>1. ASSUME NEW r \in Request, CheckoutStep(r)
      PROVE  HandlerInv' /\ MirrorInv'
  <2>1. UNCHANGED <<stripeVars, webhookVars>>
        /\ \A q \in Request : request[q].pc = "issued" => request'[q] = request[q]
    BY <1>0, <1>1, CheckoutInvStep, CheckoutFrame
  <2>2. StripeGrows
    BY <2>1 DEF StripeGrows, stripeVars
  <2> QED
    BY <1>0, <2>1, <2>2, DeliveriesWait, CheckoutKeepsMirror DEF webhookVars
<1>2. ASSUME NEW r \in Request, StripeStep(r)
      PROVE  HandlerInv' /\ MirrorInv'
  BY <1>0, <1>2, StripeInvStep, StripeFrame, DeliveriesWait, StripeKeepsMirror DEF webhookVars
<1>3. CASE WebhookStep
  BY <1>0, <1>3, HandlersKept, WebhookKeepsMirror DEF BillingInv
<1>4. CASE UNCHANGED vars
  <2>1. StripeGrows /\ UNCHANGED <<checkoutVars, webhookVars>>
    BY <1>4 DEF StripeGrows, vars, checkoutVars, webhookVars
  <2> QED
    BY <1>0, <2>1, DeliveriesWait, StripeKeepsMirror DEF BillingInv, webhookVars
<1> QED
  BY <1>0, <1>1, <1>2, <1>3, <1>4, StepKinds DEF BillingInv

\* The mirror has no row of a user who did not check out, none in a state that
\* Stripe never was in, none with a price of no plan (BillingWebhookProcessor).
THEOREM MirrorStaysGenuine == Safety => []MirrorIsGenuine
<1>1. BillingInv => MirrorIsGenuine
  BY DEF BillingInv, BaseInv, CheckoutInv, CustomersBelong, MirrorInv, MirrorIsGenuine
<1> QED
  BY <1>1, BillingInvInit, BillingInvNext, PTL DEF Safety

\* An event is marked as processed exactly when its effect is there, and
\* answered with success only then (one transaction for both rows).
THEOREM ProcessedMeansDone == Safety => []ProcessedMeansMirrored
<1>1. BillingInv => ProcessedMeansMirrored
  BY DEF BillingInv, MirrorInv, MirrorTypes, ProcessedMeansMirrored
<1> QED
  BY <1>1, BillingInvInit, BillingInvNext, PTL DEF Safety

\* The mirror changes only with the first processing of an event: a repeated
\* delivery, concurrent or late, has no effect (insertIfNew).
THEOREM RepeatedEventsAreIdle == Safety => EachEventActsOnce
<1>1. BillingInv /\ [Next]_vars =>
        [\A r \in Request : mirror'[r] # mirror[r] => \E e \in processed' \ processed : e.sub = r]_vars
  <2> SUFFICES ASSUME BillingInv, [Next]_vars, NEW r \in Request, mirror'[r] # mirror[r]
               PROVE  \E e \in processed' \ processed : e.sub = r
    OBVIOUS
  <2>1. \E h \in Handler : Commit(h)
    BY StepKinds, CheckoutFrame, StripeFrame, OnlyCommitWrites DEF webhookVars, vars
  <2>2. PICK h \in Handler : Commit(h)
    BY <2>1
  <2>3. PICK e \in events \ processed, w \in Nat \ {0} :
          /\ processed' = processed \cup {e}
          /\ mirror' = IF e.kind = "other" THEN mirror
                       ELSE [mirror EXCEPT ![e.sub] = [user |-> request[e.sub].user, version |-> w]]
    BY <2>2, CommitWrites DEF BillingInv
  <2>4. e.sub = r
    BY <2>3 DEF BillingInv, MirrorInv, MirrorTypes
  <2> QED
    BY <2>3, <2>4
<1> QED
  BY <1>1, BillingInvInit, BillingInvNext, PTL DEF Safety, EachEventActsOnce

\* The state has its shape, and every event is of a version Stripe has been
\* through.
THEOREM TypeCorrect == Safety => []TypeOK
<1> DEFINE Counters == overtaken \in SUBSET Request /\ aborts \in Nat
<1>1. Init => BillingInv /\ Counters
  BY BillingInvInit DEF Init
<1>2. BillingInv /\ Counters /\ [Next]_vars => BillingInv' /\ Counters'
  <2> SUFFICES ASSUME BillingInv, Counters, [Next]_vars
               PROVE  Counters'
    BY BillingInvNext
  <2>1. ASSUME NEW h \in Handler, NEW e \in events, Receive(h, e)
        PROVE  overtaken' \in SUBSET Request
    BY <2>1, EventsHaveHistories DEF BillingInv, BaseInv, Receive
  <2>2. CASE WebhookStep
    <3>1. aborts' \in Nat
      BY <2>2, WebhookFrame
    <3>2. overtaken' \in SUBSET Request
      BY <2>1, <2>2 DEF WebhookStep, HandlerStep, InsertEvent, FindCustomer, Retrieve, FindPlan, Upsert,
         Commit, Reply, AbortDelivery
    <3> QED
      BY <3>1, <3>2
  <2> QED
    BY <2>2, StepKinds, CheckoutFrame, StripeFrame DEF webhookVars, vars
<1>3. BillingInv /\ Counters => TypeOK
  BY DEF BillingInv, BaseInv, CheckoutInv, CheckoutTypes, StripeInv, Snapshot, HandlerInv, MirrorInv,
     MirrorTypes, Row, TypeOK
<1> QED
  BY <1>1, <1>2, <1>3, PTL DEF Safety

-----------------------------------------------------------------------------
(* Subscriptions whose events are handled in order. *)

\* Nothing is taken up or processed before what was emitted earlier, and the
\* row is not older than what was processed.
InOrder(r) ==
  /\ \A h \in Handler : handler[h].pc # "idle" /\ handler[h].event.sub = r =>
       EarlierThan(handler[h].event) \subseteq processed
  /\ \A e \in processed : e.sub = r /\ e.kind # "other" =>
       EarlierThan(e) \subseteq processed /\ e.version <= mirror[r].version

OrderInv == \A r \in Request \ overtaken : InOrder(r)

\* Whatever Stripe emits comes after what it has emitted.
LEMMA NothingEarlierArrives ==
  ASSUME StripeInv, StripeInv', StripeGrows, NEW e \in events
  PROVE  EarlierThan(e)' = EarlierThan(e)
<1>1. e.sub \in Request /\ e.version \in Nat \ {0} /\ e.version \in DOMAIN stripe[e.sub]
  BY DEF StripeInv, Events
<1>2. ASSUME NEW d \in events' \ events, d.sub = e.sub, d.kind # "other", d.version < e.version,
             d.version \in Nat \ {0}
      PROVE  FALSE
  <2>1. DOMAIN stripe[e.sub] = 1..Len(stripe[e.sub]) /\ Len(stripe[e.sub]) \in Nat
    BY <1>1 DEF StripeInv
  <2>2. d.version \in DOMAIN stripe[e.sub]
    BY <1>1, <1>2, <2>1
  <2> QED
    BY <1>2, <2>2 DEF StripeGrows
<1>3. \A d \in events' : d.version \in Nat \ {0}
  BY DEF StripeInv, Events
<1>4. events \subseteq events'
  BY DEF StripeGrows
<1> QED
  BY <1>2, <1>3, <1>4 DEF EarlierThan

\* In a step of the webhook that does not commit, an event is only taken up.
LEMMA UncommittedKeepOrder ==
  ASSUME BillingInv, OrderInv, WebhookStep, \A h \in Handler : ~Commit(h)
  PROVE  OrderInv'
<1>1. UNCHANGED <<processed, mirror, checkoutVars, stripeVars>>
  BY OnlyCommitWrites, WebhookFrame
<1>2. \A e : EarlierThan(e)' = EarlierThan(e)
  BY <1>1 DEF EarlierThan, stripeVars
<1>3. handler \in [Handler -> {Idle} \cup Delivery]
  BY DEF BillingInv, HandlerInv
<1>4. CASE overtaken' = overtaken /\ \E h \in Handler : HandlerStep(h) \/ AbortDelivery(h)
  <2>1. PICK h \in Handler : HandlerStep(h) \/ AbortDelivery(h)
    BY <1>4
  <2>2. ~Handling(h, "idle") /\ handler[h] \in Delivery
    BY <1>3, <2>1 DEF HandlerStep, InsertEvent, FindCustomer, Retrieve, FindPlan, Upsert, Commit, Reply,
       AbortDelivery, Handling, Idle, Delivery
  <2>3. \E d : /\ handler' = [handler EXCEPT ![h] = d]
               /\ d = Idle \/ d.event = handler[h].event
    <3>1. CASE handler' = [handler EXCEPT ![h] = Idle]
      BY <3>1
    <3>2. ASSUME NEW pc, handler' = [handler EXCEPT ![h].pc = pc]
          PROVE  \E d : handler' = [handler EXCEPT ![h] = d] /\ d.event = handler[h].event
      <4>1. PICK d : d = [handler[h] EXCEPT !.pc = pc]
        OBVIOUS
      <4>2. d.event = handler[h].event
        BY <2>2, <4>1 DEF Delivery
      <4> QED
        BY <3>2, <4>1, <4>2
    <3>3. CASE Retrieve(h)
      <4>1. PICK d : d = [handler[h] EXCEPT !.pc = "plan", !.version = Len(stripe[handler[h].event.sub])]
        OBVIOUS
      <4>2. d.event = handler[h].event
        BY <2>2, <4>1 DEF Delivery
      <4> QED
        BY <3>3, <4>1, <4>2 DEF Retrieve
    <3> QED
      BY <2>1, <3>1, <3>2, <3>3 DEF HandlerStep, InsertEvent, FindCustomer, FindPlan, Upsert, Commit,
         Reply, AbortDelivery, GoTo
  <2>4. PICK d : handler' = [handler EXCEPT ![h] = d] /\ (d = Idle \/ d.event = handler[h].event)
    BY <2>3
  <2>5. \A g \in Handler : handler'[g] = IF g = h THEN d ELSE handler[g]
    BY <1>3, <2>4
  <2>6. ASSUME NEW g \in Handler, handler'[g].pc # "idle"
        PROVE  handler[g].pc # "idle" /\ handler'[g].event = handler[g].event
    BY <2>2, <2>4, <2>5, <2>6 DEF Handling, Idle
  <2> QED
    BY <1>1, <1>2, <1>4, <2>6 DEF OrderInv, InOrder
<1>5. ASSUME NEW h \in Handler, NEW e \in events, Receive(h, e)
      PROVE  OrderInv'
  <2>1. PICK d : d = [pc |-> "insert", event |-> e, version |-> e.version]
    OBVIOUS
  <2>2. d.event = e /\ handler' = [handler EXCEPT ![h] = d]
    BY <1>5, <2>1 DEF Receive
  <2>3. \A g \in Handler : handler'[g] = IF g = h THEN d ELSE handler[g]
    BY <1>3, <2>2
  <2>4. overtaken \subseteq overtaken' /\ (EarlierThan(e) \subseteq processed \/ e.sub \in overtaken')
    BY <1>5 DEF Receive
  <2> QED
    BY <1>1, <1>2, <2>2, <2>3, <2>4 DEF OrderInv, InOrder
<1> QED
  BY <1>4, <1>5 DEF WebhookStep, HandlerStep, InsertEvent, FindCustomer, Retrieve, FindPlan, Upsert,
     Commit, Reply, AbortDelivery

\* An event that commits is the latest processed, or an earlier one would have
\* overtaken it.
LEMMA CommitKeepsOrder ==
  ASSUME BillingInv, OrderInv, NEW h \in Handler, Commit(h)
  PROVE  OrderInv'
<1>1. BaseInv /\ StripeInv /\ HandlerInv /\ MirrorInv /\ MirrorTypes
  BY DEF BillingInv, BaseInv, MirrorInv
<1>2. PICK e \in events \ processed, w \in Nat \ {0} :
        /\ processed' = processed \cup {e}
        /\ e = handler[h].event /\ e.sub \in Request /\ e.version <= w
        /\ mirror' = IF e.kind = "other" THEN mirror
                     ELSE [mirror EXCEPT ![e.sub] = [user |-> request[e.sub].user, version |-> w]]
  BY <1>1, CommitWrites
<1>3. events' = events /\ overtaken' = overtaken
  BY DEF Commit, stripeVars
<1>4. \A d : EarlierThan(d)' = EarlierThan(d)
  BY <1>3 DEF EarlierThan
<1>5. ~Handling(h, "idle") /\ Handling(h, "commit") /\ handler[h] \in Delivery
  BY <1>1, BusyDelivery DEF Commit, Handling
<1>6. PICK reply : reply = [handler[h] EXCEPT !.pc = "reply"]
  OBVIOUS
<1>7. reply.event = e /\ handler' = [handler EXCEPT ![h] = reply]
  BY <1>2, <1>5, <1>6 DEF Delivery, Commit, GoTo
<1>8. \A g \in Handler : handler'[g] = IF g = h THEN reply ELSE handler[g]
  BY <1>1, <1>7 DEF HandlerInv
<1>9. ASSUME NEW r \in Request \ overtaken, NEW g \in Handler, handler'[g].pc # "idle",
             handler'[g].event.sub = r
      PROVE  EarlierThan(handler'[g].event) \subseteq processed
  <2>1. CASE g = h
    BY <1>2, <1>5, <1>7, <1>8, <1>9, <2>1 DEF OrderInv, InOrder, Handling
  <2>2. CASE g # h
    BY <1>8, <1>9, <2>2 DEF OrderInv, InOrder
  <2> QED
    BY <2>1, <2>2
<1>10. ASSUME NEW r \in Request \ overtaken, NEW d \in processed', d.sub = r, d.kind # "other"
       PROVE  EarlierThan(d) \subseteq processed /\ d.version <= mirror'[r].version
  <2>1. EarlierThan(e) \subseteq processed \/ e.sub # r
    BY <1>2, <1>5 DEF OrderInv, InOrder, Handling
  <2>2. d # e => EarlierThan(d) \subseteq processed /\ d.version <= mirror[r].version
    BY <1>2, <1>10 DEF OrderInv, InOrder
  <2>3. EarlierThan(d) \subseteq processed
    BY <1>10, <2>1, <2>2
  <2>4. CASE e.sub # r \/ e.kind = "other"
    BY <1>1, <1>2, <1>10, <2>2, <2>4 DEF MirrorTypes
  <2>5. CASE e.sub = r /\ e.kind # "other"
    <3>1. PICK row : row = [user |-> request[e.sub].user, version |-> w]
      OBVIOUS
    <3>2. row.version = w /\ mirror' = [mirror EXCEPT ![r] = row]
      BY <1>2, <2>5, <3>1
    <3>3. mirror'[r].version = w
      BY <1>1, <3>2 DEF MirrorTypes
    <3>4. d \in events /\ d.version \in Nat /\ e.version \in Nat
      BY <1>1, <1>2, EventsHaveHistories DEF HandlerInv
    <3>5. ~(e.version < d.version)
      <4>1. e.version < d.version => e \in EarlierThan(d)
        BY <1>2, <1>10, <2>5 DEF EarlierThan
      <4> QED
        BY <1>2, <2>3, <4>1
    <3> QED
      BY <1>2, <2>3, <3>3, <3>4, <3>5
  <2> QED
    BY <2>3, <2>4, <2>5
<1> QED
  BY <1>2, <1>3, <1>4, <1>9, <1>10 DEF OrderInv, InOrder

\* Stripe and the checkout leave order as it is.
LEMMA OthersKeepOrder ==
  ASSUME BillingInv, BillingInv', OrderInv, StripeGrows, UNCHANGED webhookVars
  PROVE  OrderInv'
<1>1. StripeInv /\ StripeInv' /\ HandlerInv
  BY DEF BillingInv, BaseInv
<1>2. \A e \in events : EarlierThan(e)' = EarlierThan(e)
  BY <1>1, NothingEarlierArrives
<1>3. \A h \in Handler : handler[h].pc # "idle" => handler[h].event \in events
  BY <1>1 DEF HandlerInv, Known
<1>4. processed \subseteq events
  BY <1>1 DEF HandlerInv
<1>5. handler' = handler /\ processed' = processed /\ mirror' = mirror /\ overtaken' = overtaken
  BY DEF webhookVars
<1>6. ASSUME NEW r \in Request, InOrder(r)
      PROVE  InOrder(r)'
  BY <1>2, <1>3, <1>4, <1>5, <1>6 DEF InOrder
<1> QED
  BY <1>5, <1>6 DEF OrderInv

\* A mirror that was not overtaken and has seen everything shows the end of
\* the history.
LEMMA OrderMirrors ==
  ASSUME BillingInv, OrderInv
  PROVE  MirrorInOrder
<1> SUFFICES ASSUME NEW r \in Request, stripe[r] # <<>>, AllProcessed(r), r \notin overtaken
             PROVE  Mirrored(r)
  BY DEF MirrorInOrder
<1>1. BaseInv /\ StripeInv /\ MirrorInv /\ InOrder(r)
  BY DEF BillingInv, BaseInv, OrderInv
<1>2. stripe[r] \in Seq(Snapshot)
  BY <1>1 DEF StripeInv
<1>3. PICK n \in Nat \ {0} : n = Len(stripe[r]) /\ DOMAIN stripe[r] = 1..n
  BY <1>2
<1>4. PICK e \in events : e.sub = r /\ e.kind # "other" /\ e.version = n
  <2>1. n \in DOMAIN stripe[r]
    BY <1>3
  <2> QED
    BY <1>1, <2>1 DEF StripeInv
<1>5. e \in processed
  BY <1>4 DEF AllProcessed
<1>6. mirror[r] # NoRow /\ mirror[r].version \in 1..n /\ n <= mirror[r].version
  BY <1>1, <1>3, <1>4, <1>5 DEF MirrorInv, InOrder
<1>7. mirror[r].version = n
  BY <1>6
<1> QED
  BY <1>3, <1>6, <1>7 DEF Mirrored, StateAt

\* As long as no event of a subscription is taken up before the earlier ones
\* are processed, the mirror agrees with Stripe once nothing is left to do.
THEOREM OrderedMirrorIsCurrent == Safety => []MirrorInOrder
<1>1. Init => BillingInv /\ OrderInv
  BY BillingInvInit DEF Init, OrderInv, InOrder, Idle
<1>2. BillingInv /\ OrderInv /\ [Next]_vars => BillingInv' /\ OrderInv'
  <2> SUFFICES ASSUME BillingInv, OrderInv, [Next]_vars
               PROVE  OrderInv'
    BY BillingInvNext
  <2>1. BillingInv' /\ CheckoutInv /\ StripeInv
    BY BillingInvNext DEF BillingInv, BaseInv
  <2>2. ASSUME NEW r \in Request, CheckoutStep(r)
        PROVE  OrderInv'
    <3>1. UNCHANGED <<stripeVars, webhookVars>>
      BY <2>2, CheckoutFrame
    <3>2. StripeGrows
      BY <3>1 DEF StripeGrows, stripeVars
    <3> QED
      BY <2>1, <3>1, <3>2, OthersKeepOrder
  <2>3. ASSUME NEW r \in Request, StripeStep(r)
        PROVE  OrderInv'
    BY <2>1, <2>3, StripeInvStep, StripeFrame, OthersKeepOrder
  <2>4. CASE WebhookStep
    BY <2>4, CommitKeepsOrder, UncommittedKeepOrder
  <2>5. CASE UNCHANGED vars
    <3>1. StripeGrows /\ UNCHANGED webhookVars
      BY <2>5 DEF StripeGrows, vars, webhookVars
    <3> QED
      BY <2>1, <3>1, OthersKeepOrder
  <2> QED
    BY <2>2, <2>3, <2>4, <2>5, StepKinds
<1> QED
  BY <1>1, <1>2, OrderMirrors, PTL DEF Safety
=============================================================================
