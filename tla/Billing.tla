------------------------------ MODULE Billing ------------------------------
(***************************************************************************)
(* Checkout and the mirror of Stripe's subscriptions: createCheckoutSession *)
(* with getOrCreateStripeCustomerId, and BillingWebhookProcessor with its   *)
(* one database transaction for each delivery.                             *)
(*                                                                         *)
(* Stripe itself is outside: it creates customers, sessions and            *)
(* subscriptions, changes a subscription when it likes, and delivers the    *)
(* event of every change until it is answered with success, in any order    *)
(* and also several times at once.  A request that checks out leads to at   *)
(* most one Stripe customer, session and subscription, which go by its      *)
(* name here.  A version is a position in a subscription's history.         *)
(***************************************************************************)
EXTENDS Naturals, Sequences, FiniteSets

CONSTANTS
  Request,      \* checkout requests
  User,
  NoCustomer,   \* the user has no row in billing_customers
  Handler,      \* webhook deliveries handled at the same time, at most
  Plan,         \* plans in the table, by their Stripe price
  OtherPrice,   \* prices at Stripe that belong to no plan
  NoRow,        \* the subscription has no row in billing_subscriptions
  Status,       \* statuses Stripe gives a subscription
  MaxEvents,    \* bound: events Stripe emits
  MaxAborts     \* bound: requests and deliveries that fail or crash half-way

ASSUME BillingAssumption ==
  /\ IsFiniteSet(Request)
  /\ NoCustomer \notin Request
  /\ NoRow \notin [user : User, version : Nat \ {0}]
  /\ Plan \cap OtherPrice = {}
  /\ {"active", "canceled"} \subseteq Status
  /\ MaxEvents \in Nat
  /\ MaxAborts \in Nat

VARIABLES
  request,    \* the checkout requests being served, and their results
  customers,  \* billing_customers: the Stripe customer of each user
  stripe,     \* the history of each subscription at Stripe
  events,     \* events Stripe has emitted
  acked,      \* events answered with success
  processed,  \* billing_webhook_events, committed rows
  mirror,     \* billing_subscriptions, committed rows
  handler,    \* the deliveries being handled
  overtaken,  \* history: subscriptions whose events were handled out of order
  aborts      \* failures so far

vars == <<request, customers, stripe, events, acked, processed, mirror, handler,
          overtaken, aborts>>

checkoutVars == <<request, customers>>
stripeVars == <<stripe, events>>
webhookVars == <<acked, processed, mirror, handler, overtaken>>

Idle == [pc |-> "idle"]
Price == Plan \cup OtherPrice

Init ==
  /\ request = [r \in Request |-> Idle]
  /\ customers = [u \in User |-> NoCustomer]
  /\ stripe = [r \in Request |-> <<>>]
  /\ events = {}
  /\ acked = {}
  /\ processed = {}
  /\ mirror = [r \in Request |-> NoRow]
  /\ handler = [h \in Handler |-> Idle]
  /\ overtaken = {}
  /\ aborts = 0

-----------------------------------------------------------------------------
(* POST /billing/checkout: createCheckoutSession.                          *)

Checking(r, pc) == request[r].pc = pc

\* The plan is one in the table; a request for another is turned away.
Checkout(r, u, p) ==
  /\ Checking(r, "idle")
  /\ request' = [request EXCEPT ![r] = [pc |-> "lookup", user |-> u, plan |-> p,
                                        customer |-> NoCustomer]]
  /\ UNCHANGED <<customers, stripeVars, webhookVars, aborts>>

\* getOrCreateStripeCustomerId looks for the user's customer ...
LookUpCustomer(r) ==
  /\ Checking(r, "lookup")
  /\ LET known == customers[request[r].user]
     IN  request' = [request EXCEPT
           ![r].pc = IF known = NoCustomer THEN "create" ELSE "session",
           ![r].customer = known]
  /\ UNCHANGED <<customers, stripeVars, webhookVars, aborts>>

\* ... has Stripe create one ...
CreateStripeCustomer(r) ==
  /\ Checking(r, "create")
  /\ request' = [request EXCEPT ![r].pc = "insert", ![r].customer = r]
  /\ UNCHANGED <<customers, stripeVars, webhookVars, aborts>>

\* Faulty: a conflict is ignored and the new customer used all the same.
LenientInsertCustomer(r) ==
  /\ Checking(r, "insert")
  /\ request' = [request EXCEPT ![r].pc = "session"]
  /\ customers' = [customers EXCEPT
       ![request[r].user] = IF @ = NoCustomer THEN request[r].customer ELSE @]
  /\ UNCHANGED <<stripeVars, webhookVars, aborts>>

\* ... and inserts it; the insert throws when another request of the user was
\* first, and its Stripe customer is left over.
InsertCustomer(r) ==
  /\ Checking(r, "insert")
  /\ IF customers[request[r].user] = NoCustomer
     THEN /\ customers' = [customers EXCEPT ![request[r].user] = request[r].customer]
          /\ request' = [request EXCEPT ![r].pc = "session"]
     ELSE /\ request' = [request EXCEPT ![r].pc = "failed"]
          /\ UNCHANGED customers
  /\ UNCHANGED <<stripeVars, webhookVars, aborts>>

IssueSession(r) ==
  /\ Checking(r, "session")
  /\ request' = [request EXCEPT ![r].pc = "issued"]
  /\ UNCHANGED <<customers, stripeVars, webhookVars, aborts>>

\* Stripe or the database fails, or the process dies.
AbortCheckout(r) ==
  /\ request[r].pc \in {"lookup", "create", "insert", "session"}
  /\ aborts < MaxAborts
  /\ aborts' = aborts + 1
  /\ request' = [request EXCEPT ![r].pc = "failed"]
  /\ UNCHANGED <<customers, stripeVars, webhookVars>>

-----------------------------------------------------------------------------
(* Stripe.                                                                 *)

Event(kind, r, version) == [kind |-> kind, sub |-> r, version |-> version]

Emit(kind, r, version) ==
  /\ Cardinality(events) < MaxEvents
  /\ events' = events \cup {Event(kind, r, version)}

\* The user pays in the session: the subscription starts.
Pay(r) ==
  /\ Checking(r, "issued")
  /\ stripe[r] = <<>>
  /\ stripe' = [stripe EXCEPT ![r] = <<[status |-> "active", price |-> request[r].plan]>>]
  /\ Emit("checkout", r, 1)
  /\ UNCHANGED <<checkoutVars, webhookVars, aborts>>

\* An event the backend does not handle: invoice.paid, payment_failed, ...
Notify(r) ==
  /\ stripe[r] # <<>>
  /\ Emit("other", r, Len(stripe[r]))
  /\ UNCHANGED <<checkoutVars, stripe, webhookVars, aborts>>

\* A payment is missed or made good, the plan is changed or the subscription
\* cancelled: customer.subscription.updated or .deleted with a snapshot.
Change(r, status, price) ==
  /\ stripe[r] # <<>>
  /\ LET now == stripe[r][Len(stripe[r])]
         next == [status |-> status, price |-> price]
     IN  /\ now.status # "canceled"
         /\ next # now
         /\ stripe' = [stripe EXCEPT ![r] = Append(@, next)]
  /\ Emit("changed", r, Len(stripe[r]) + 1)
  /\ UNCHANGED <<checkoutVars, webhookVars, aborts>>

-----------------------------------------------------------------------------
(* POST /billing/webhook: BillingWebhookProcessor.process.                 *)

Handling(h, pc) == handler[h].pc = pc

\* The event's row is inserted and not yet committed.
InTransaction(h) ==
  handler[h].pc \in {"customer", "retrieve", "plan", "upsert", "commit"}

EarlierThan(e) ==
  {d \in events : /\ d.sub = e.sub
                  /\ d.kind # "other"
                  /\ d.version < e.version}

GoTo(h, pc) == handler' = [handler EXCEPT ![h].pc = pc]

\* Stripe delivers an event that was not answered with success yet.
Receive(h, e) ==
  /\ Handling(h, "idle")
  /\ e \in events \ acked
  /\ handler' = [handler EXCEPT ![h] = [pc |-> "insert", event |-> e, version |-> e.version]]
  /\ overtaken' = IF EarlierThan(e) \subseteq processed THEN overtaken
                  ELSE overtaken \cup {e.sub}
  /\ UNCHANGED <<checkoutVars, stripeVars, acked, processed, mirror, aborts>>

\* Faulty: the repeated id is not noticed.
ForgetfulInsertEvent(h) ==
  /\ Handling(h, "insert")
  /\ \A g \in Handler \ {h} : ~(InTransaction(g) /\ handler[g].event = handler[h].event)
  /\ GoTo(h, IF handler[h].event.kind = "other" THEN "commit" ELSE "customer")
  /\ UNCHANGED <<checkoutVars, stripeVars, acked, processed, mirror, overtaken, aborts>>

\* Faulty: the row is inserted outside the transaction.
UntransactedInsertEvent(h) ==
  /\ Handling(h, "insert")
  /\ \A g \in Handler \ {h} : ~(InTransaction(g) /\ handler[g].event = handler[h].event)
  /\ GoTo(h, IF handler[h].event \in processed THEN "reply"
             ELSE IF handler[h].event.kind = "other" THEN "commit" ELSE "customer")
  /\ processed' = processed \cup {handler[h].event}
  /\ UNCHANGED <<checkoutVars, stripeVars, acked, mirror, overtaken, aborts>>

\* insertIfNew waits for a transaction that has inserted the same id, and
\* skips an event whose row is committed; route() does nothing for the rest.
InsertEvent(h) ==
  /\ Handling(h, "insert")
  /\ \A g \in Handler \ {h} : ~(InTransaction(g) /\ handler[g].event = handler[h].event)
  /\ GoTo(h, IF handler[h].event \in processed THEN "reply"
             ELSE IF handler[h].event.kind = "other" THEN "commit" ELSE "customer")
  /\ UNCHANGED <<checkoutVars, stripeVars, acked, processed, mirror, overtaken, aborts>>

CustomerOf(sub) == request[sub].customer

\* route() and getByStripeCustomerId; an unknown customer rolls back.
FindCustomer(h) ==
  /\ Handling(h, "customer")
  /\ LET e == handler[h].event
     IN  IF \E u \in User : customers[u] = CustomerOf(e.sub)
         THEN GoTo(h, IF e.kind = "checkout" THEN "retrieve" ELSE "plan")
         ELSE handler' = [handler EXCEPT ![h] = Idle]
  /\ UNCHANGED <<checkoutVars, stripeVars, acked, processed, mirror, overtaken, aborts>>

\* handleCheckoutCompleted asks Stripe for the subscription as it is now.
Retrieve(h) ==
  /\ Handling(h, "retrieve")
  /\ handler' = [handler EXCEPT ![h].pc = "plan",
                                ![h].version = Len(stripe[handler[h].event.sub])]
  /\ UNCHANGED <<checkoutVars, stripeVars, acked, processed, mirror, overtaken, aborts>>

\* Faulty: the price is not looked up.
TrustingFindPlan(h) ==
  /\ Handling(h, "plan")
  /\ GoTo(h, "upsert")
  /\ UNCHANGED <<checkoutVars, stripeVars, acked, processed, mirror, overtaken, aborts>>

\* SubscriptionSync.apply; a price of no plan rolls back.
FindPlan(h) ==
  /\ Handling(h, "plan")
  /\ IF stripe[handler[h].event.sub][handler[h].version].price \in Plan
     THEN GoTo(h, "upsert")
     ELSE handler' = [handler EXCEPT ![h] = Idle]
  /\ UNCHANGED <<checkoutVars, stripeVars, acked, processed, mirror, overtaken, aborts>>

\* upsertFromStripe waits for a transaction that has written the same row.
Upsert(h) ==
  /\ Handling(h, "upsert")
  /\ \A g \in Handler \ {h} :
       ~(Handling(g, "commit") /\ handler[g].event.sub = handler[h].event.sub)
  /\ GoTo(h, "commit")
  /\ UNCHANGED <<checkoutVars, stripeVars, acked, processed, mirror, overtaken, aborts>>

Owner(sub) == CHOOSE u \in User : customers[u] = CustomerOf(sub)

\* Faulty: a row that is there already stays as it is.
StickyCommit(h) ==
  /\ Handling(h, "commit")
  /\ LET e == handler[h].event
     IN  /\ processed' = processed \cup {e}
         /\ mirror' = IF e.kind = "other" \/ mirror[e.sub] # NoRow THEN mirror
                      ELSE [mirror EXCEPT ![e.sub] = [user |-> Owner(e.sub), version |-> handler[h].version]]
  /\ GoTo(h, "reply")
  /\ UNCHANGED <<checkoutVars, stripeVars, acked, overtaken, aborts>>

\* Both rows commit together; the user of a row that existed is left as it was.
Commit(h) ==
  /\ Handling(h, "commit")
  /\ LET e == handler[h].event
         user == IF mirror[e.sub] = NoRow THEN Owner(e.sub) ELSE mirror[e.sub].user
     IN  /\ processed' = processed \cup {e}
         /\ mirror' = IF e.kind = "other" THEN mirror
                      ELSE [mirror EXCEPT ![e.sub] = [user |-> user, version |-> handler[h].version]]
  /\ GoTo(h, "reply")
  /\ UNCHANGED <<checkoutVars, stripeVars, acked, overtaken, aborts>>

Reply(h) ==
  /\ Handling(h, "reply")
  /\ acked' = acked \cup {handler[h].event}
  /\ handler' = [handler EXCEPT ![h] = Idle]
  /\ UNCHANGED <<checkoutVars, stripeVars, processed, mirror, overtaken, aborts>>

\* Faulty: the error is caught and the delivery answered with success.
SwallowingAbortDelivery(h) ==
  /\ ~Handling(h, "idle")
  /\ aborts < MaxAborts
  /\ aborts' = aborts + 1
  /\ acked' = acked \cup {handler[h].event}
  /\ handler' = [handler EXCEPT ![h] = Idle]
  /\ UNCHANGED <<checkoutVars, stripeVars, processed, mirror, overtaken>>

\* Stripe or the database fails, the process dies, or the answer is lost.  A
\* transaction that was open is rolled back.
AbortDelivery(h) ==
  /\ ~Handling(h, "idle")
  /\ aborts < MaxAborts
  /\ aborts' = aborts + 1
  /\ handler' = [handler EXCEPT ![h] = Idle]
  /\ UNCHANGED <<checkoutVars, stripeVars, acked, processed, mirror, overtaken>>

-----------------------------------------------------------------------------
CheckoutStep(r) ==
  \/ \E u \in User, p \in Plan : Checkout(r, u, p)
  \/ LookUpCustomer(r)
  \/ CreateStripeCustomer(r)
  \/ InsertCustomer(r)
  \/ IssueSession(r)
  \/ AbortCheckout(r)

StripeStep(r) ==
  \/ Pay(r)
  \/ Notify(r)
  \/ \E status \in Status, price \in Price : Change(r, status, price)

HandlerStep(h) ==
  \/ InsertEvent(h)
  \/ FindCustomer(h)
  \/ Retrieve(h)
  \/ FindPlan(h)
  \/ Upsert(h)
  \/ Commit(h)
  \/ Reply(h)

Next ==
  \/ \E r \in Request : CheckoutStep(r) \/ StripeStep(r)
  \/ \E h \in Handler : \E e \in events : Receive(h, e)
  \/ \E h \in Handler : HandlerStep(h) \/ AbortDelivery(h)

Safety == Init /\ [][Next]_vars

\* A delivery that has begun is handled to its end, and Stripe goes on to
\* deliver as long as an event was not answered with success.  Nobody has to
\* check out or to pay.
Fairness ==
  /\ \A h \in Handler : WF_vars(HandlerStep(h))
  /\ WF_vars(\E h \in Handler, e \in events : Receive(h, e))

Spec == Safety /\ Fairness

-----------------------------------------------------------------------------
Serving ==
  [pc : {"lookup", "create", "insert", "session", "issued", "failed"},
   user : User, plan : Plan, customer : Request \cup {NoCustomer}]

Events == [kind : {"checkout", "changed", "other"}, sub : Request, version : Nat \ {0}]

Delivery ==
  [pc : {"insert", "customer", "retrieve", "plan", "upsert", "commit", "reply"},
   event : Events, version : Nat \ {0}]

\* The state has its shape, and versions in it are ones Stripe has been through.
TypeOK ==
  /\ request \in [Request -> {Idle} \cup Serving]
  /\ customers \in [User -> Request \cup {NoCustomer}]
  /\ stripe \in [Request -> Seq([status : Status, price : Price])]
  /\ events \in SUBSET Events
  /\ acked \in SUBSET events
  /\ processed \in SUBSET events
  /\ mirror \in [Request -> {NoRow} \cup [user : User, version : Nat \ {0}]]
  /\ handler \in [Handler -> {Idle} \cup Delivery]
  /\ overtaken \in SUBSET Request
  /\ aborts \in Nat
  /\ \A e \in events : e.version \in DOMAIN stripe[e.sub]

\* The comment of handleCheckoutCompleted (billing-webhook-processor.ts:55-56):
\* a session is issued only for the customer in the user's row, however many
\* checkouts of the user race, so a webhook always finds its customer.
SessionsHaveCustomers ==
  \A r \in Request : request[r].pc = "issued" =>
    /\ request[r].customer # NoCustomer
    /\ customers[request[r].user] = request[r].customer

\* No row for a user who did not check out, none in a state Stripe never was
\* in, none with a price of no plan; two users never share a customer.
MirrorIsGenuine ==
  /\ \A r \in Request : mirror[r] # NoRow =>
       /\ mirror[r].user = request[r].user
       /\ mirror[r].version \in DOMAIN stripe[r]
       /\ stripe[r][mirror[r].version].price \in Plan
  /\ \A u, v \in User : customers[u] = customers[v] /\ customers[u] # NoCustomer => u = v

\* An event counts as processed exactly when its effect is there: after any
\* crash a retry is neither swallowed nor needed.
ProcessedMeansMirrored ==
  /\ \A e \in processed : e.kind # "other" => mirror[e.sub] # NoRow
  /\ \A r \in Request : mirror[r] # NoRow =>
       \E e \in processed : e.sub = r /\ e.kind # "other"
  /\ acked \subseteq processed

\* The mirror changes only together with the first processing of an event of
\* that subscription: a repeated delivery, concurrent or late, has no effect.
EachEventActsOnce ==
  [][\A r \in Request : mirror'[r] # mirror[r] =>
       \E e \in processed' \ processed : e.sub = r]_vars

StateAt(r, version) == stripe[r][version]

AllProcessed(r) == \A e \in events : e.sub = r => e \in processed

Mirrored(r) ==
  /\ mirror[r] # NoRow
  /\ StateAt(r, mirror[r].version) = StateAt(r, Len(stripe[r]))

\* Only an event overtaken by a later one can leave the mirror behind: as long
\* as no event of a subscription is taken up before the ones emitted earlier
\* are processed, the mirror agrees with Stripe once there is nothing left.
MirrorInOrder ==
  \A r \in Request :
    stripe[r] # <<>> /\ AllProcessed(r) /\ r \notin overtaken => Mirrored(r)

\* billing-webhook-processor.ts:12-13: "Stripe is the source of truth for
\* subscription state - this only ever mirrors it into our DB".
StripeIsMirrored ==
  \A r \in Request : stripe[r] # <<>> /\ AllProcessed(r) => Mirrored(r)

HasPrices(r) == \A i \in DOMAIN stripe[r] : stripe[r][i].price \in Plan

\* A user who has paid gets a row, although deliveries fail, unless the
\* subscription is moved to a price that belongs to no plan.
PaymentIsRecognised ==
  \A r \in Request : stripe[r] # <<>> ~> mirror[r] # NoRow \/ ~HasPrices(r)
=============================================================================
