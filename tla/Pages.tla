------------------------------- MODULE Pages -------------------------------
(***************************************************************************)
(* The pages of the frontend as one browser tab sees them: the guards that *)
(* decide from the backend's answers what a page shows or where it         *)
(* redirects, the forms, logging out, and paying for a plan.               *)
(*                                                                         *)
(* A page is loaded by asking the backend call by call.  The session, the  *)
(* plan and the payments on their way may change between the calls, and    *)
(* any call may fail.                                                      *)
(***************************************************************************)
EXTENDS Integers, FiniteSets

CONSTANTS NoLoad,        \* the tab loads nothing
          MaxAttempts,   \* MAX_ATTEMPTS of checkout-pending.tsx
          MaxVisits,     \* steps of the user (these four bound the model)
          MaxFaults,     \* calls that fail
          MaxEnds,       \* sessions and plans that end
          MaxPayments    \* payments the user makes

ASSUME PagesBounds == {MaxAttempts, MaxVisits, MaxFaults, MaxEnds, MaxPayments} \subseteq Nat

VARIABLES screen,      \* what the tab shows
          load,        \* the page being loaded, or NoLoad
          session,     \* the tab's cookies are a session of the backend
          plan,        \* the backend has an active subscription of the user
          due,         \* payments whose webhook has not arrived
          success,     \* the URL shown says checkout=success
          attempts,    \* of CheckoutPending
          loggingOut,  \* of NavUser
          logout,      \* a logout request is on its way
          offer,       \* what was known when plans were last shown (history)
          payments,    \* how each payment came about (history)
          used         \* how much of each bound is used

pagesVars == <<screen, load, session, plan, due, success, attempts, loggingOut, logout, offer, payments, used>>

Spend(kind, bound) == used[kind] < bound /\ used' = [used EXCEPT ![kind] = @ + 1]

Guest == {"login", "register"}
Inside == {"dashboard", "store", "discover", "billing"}
InsideScreens == {"stores", "profile", "notFound", "search", "card", "plans", "pending", "timedOut"}

\* What the page of a route asks the backend for.
PageCall == [login |-> "me", register |-> "me", dashboard |-> "subscriptions", store |-> "profile",
             discover |-> "search", billing |-> "subscription"]

\* The layout of the dashboard asks for the user as well, unless it is mounted
\* and the router keeps it.
CallSets(route) ==
    IF route \in Guest THEN {{PageCall[route]}}
    ELSE {{PageCall[route], "layout"}} \cup (IF screen \in InsideScreens THEN {{PageCall[route]}} ELSE {})

\* A page starts to load. hops counts the redirects that led to it, slack what
\* went wrong on the way (history); view is what the page will show.
Go(route, param, hops, slack) ==
    load' \in [route : {route}, success : {param}, waits : CallSets(route), view : {"none"},
               ignorant : {FALSE}, hops : {hops}, slack : {slack}]
Open(route, param) == Go(route, param, 0, 0)
Redirect(route, slack) == Go(route, FALSE, load.hops + 1, load.slack + slack)

PagesInit ==
    /\ screen = "loginForm" /\ load = NoLoad
    /\ session = FALSE /\ plan \in BOOLEAN /\ due = 0 /\ success = FALSE /\ attempts = 0
    /\ loggingOut = FALSE /\ logout = FALSE
    /\ offer = [ignorant |-> FALSE, after |-> 0] /\ payments = {}
    /\ used = [visits |-> 0, faults |-> 0, ends |-> 0]

-----------------------------------------------------------------------------
(* Loading a page. *)

\* requireAuth, then requireActivePlan where the route has it.
Status(call) ==
    IF ~session THEN "unauthorized"
    ELSE IF call \in {"subscriptions", "profile", "search"} /\ ~plan THEN "noPlan" ELSE "ok"

\* The guards of the pages: where a page redirects on an answer, or "stay".
GuestTarget(status) == IF status = "ok" THEN "dashboard" ELSE "stay"

LayoutTarget(status) == IF status = "ok" THEN "stay" ELSE "login"

\* Faulty: a user without a plan is sent where one without a session is.
LoginDashboardTarget(status) == IF status = "ok" THEN "stay" ELSE "login"

DashboardTarget(status) ==
    CASE status = "ok" -> "stay" [] status = "noPlan" -> "billing" [] OTHER -> "login"

BillingTarget(status) == IF status = "unauthorized" THEN "login" ELSE "stay"

Target(call, status) ==
    CASE call = "me" -> GuestTarget(status)
      [] call = "layout" -> LayoutTarget(status)
      [] call = "subscriptions" -> DashboardTarget(status)
      [] call = "subscription" -> BillingTarget(status)
      [] OTHER -> "stay"

\* What a page shows when it stays. No plan is no store, to the page of a store.
ProfileView(status) == IF status = "ok" THEN "profile" ELSE "notFound"

\* Faulty: the billing page looks only at its URL.
PlanlessBillingView(status) == IF load.success THEN "pending" ELSE "plans"

\* A failed answer has no data, and no data is no subscription.
BillingView(status) ==
    IF status = "ok" /\ plan THEN "card" ELSE IF load.success THEN "pending" ELSE "plans"

View(call, status) ==
    CASE call = "me" -> IF load.route = "login" THEN "loginForm" ELSE "registerForm"
      [] call = "layout" -> load.view
      [] call = "subscriptions" -> "stores"
      [] call = "profile" -> ProfileView(status)
      [] call = "search" -> "search"
      [] call = "subscription" -> BillingView(status)

\* A call is answered; slack: what this allows the redirects.
Answered(call, status, slack) ==
    IF Target(call, status) # "stay" THEN Redirect(Target(call, status), slack)
    ELSE load' = [load EXCEPT !.waits = @ \ {call}, !.view = View(call, status), !.slack = @ + slack,
                              !.ignorant = @ \/ (call = "subscription" /\ (status # "ok" \/ due > 0))]

Answer(call) ==
    /\ load # NoLoad /\ call \in load.waits
    /\ Answered(call, Status(call), 0)
    /\ UNCHANGED <<screen, session, plan, due, success, attempts, loggingOut, logout, offer, payments, used>>

\* The backend answers 500, or the call throws and the page with it.
FailCall(call) ==
    /\ load # NoLoad /\ call \in load.waits /\ Spend("faults", MaxFaults)
    /\ \/ Answered(call, "failed", 3)
       \/ load' = [load EXCEPT !.waits = {}, !.view = "error"]
    /\ UNCHANGED <<screen, session, plan, due, success, attempts, loggingOut, logout, offer, payments>>

\* The page replaces what the tab shows. CheckoutPending stays mounted from one
\* refresh to the next, NavUser as long as the layout.
ShowPage ==
    /\ load # NoLoad /\ load.waits = {}
    /\ LET remains == load.view = "pending" /\ screen \in {"pending", "timedOut"}
       IN  /\ screen' = IF remains THEN screen ELSE load.view
           /\ attempts' = IF remains THEN attempts ELSE 0
    /\ loggingOut' = (loggingOut /\ load.view \in InsideScreens)
    /\ success' = load.success
    /\ offer' = IF load.view # "plans" THEN offer
                ELSE [ignorant |-> load.ignorant, after |-> Cardinality(payments)]
    /\ load' = NoLoad
    /\ UNCHANGED <<session, plan, due, logout, payments, used>>

-----------------------------------------------------------------------------
(* The user. *)

UnchangedTab == UNCHANGED <<screen, success, attempts, loggingOut, logout, offer, payments>>

\* A link, a bookmark, the back button to a page: the user asks for a page.
Visit(route) ==
    /\ Spend("visits", MaxVisits)
    /\ Open(route, FALSE)
    /\ UnchangedTab /\ UNCHANGED <<session, plan, due>>

\* login(): a session and the dashboard, or an error for the form.
Login ==
    \/ session' = TRUE /\ Open("dashboard", FALSE)
    \/ UNCHANGED <<session, load>>

\* register() logs in as well; when only that fails, the account is there and the
\* login page asks for it.
Register == Login \/ (UNCHANGED session /\ Open("login", FALSE))

SubmitLogin ==
    /\ screen = "loginForm" /\ Spend("visits", MaxVisits)
    /\ Login
    /\ UnchangedTab /\ UNCHANGED <<plan, due>>

SubmitRegister ==
    /\ screen = "registerForm" /\ Spend("visits", MaxVisits)
    /\ Register
    /\ UnchangedTab /\ UNCHANGED <<plan, due>>

\* handleLogout: the item is disabled, and never enabled again by the code.
Logout ==
    /\ screen \in InsideScreens /\ ~loggingOut /\ Spend("visits", MaxVisits)
    /\ loggingOut' = TRUE /\ logout' = TRUE
    /\ UNCHANGED <<screen, load, session, plan, due, success, attempts, offer, payments>>

\* The answer is not looked at: /login comes next. When the call throws, nothing does.
AnswerLogout ==
    /\ logout /\ logout' = FALSE
    /\ \/ session' = FALSE /\ Open("login", FALSE) /\ UNCHANGED used
       \/ Spend("faults", MaxFaults) /\ UNCHANGED session /\ (Open("login", FALSE) \/ UNCHANGED load)
    /\ UNCHANGED <<screen, plan, due, success, attempts, loggingOut, offer, payments>>

\* redirectToCheckout and redirectToBillingPortal: Stripe's page, or back to
\* billing with an error in the URL that nothing reads.
ToStripe(page) ==
    \/ session /\ screen' = page /\ load' = NoLoad /\ loggingOut' = FALSE
    \/ UNCHANGED <<screen, loggingOut>> /\ Open("billing", FALSE)

ChoosePlan ==
    /\ screen = "plans" /\ Spend("visits", MaxVisits)
    /\ ToStripe("checkout")
    /\ UNCHANGED <<session, plan, due, success, attempts, logout, offer, payments>>

ManageBilling ==
    /\ screen = "card" /\ Spend("visits", MaxVisits)
    /\ ToStripe("portal")
    /\ UNCHANGED <<session, plan, due, success, attempts, logout, offer, payments>>

\* The user pays on Stripe's page, which sends the tab to its success_url.
Pay ==
    /\ screen = "checkout" /\ load = NoLoad /\ Cardinality(payments) < MaxPayments
    /\ payments' = payments \cup {[number |-> Cardinality(payments), held |-> plan \/ due > 0, offer |-> offer]}
    /\ due' = due + 1
    /\ Open("billing", TRUE)
    /\ UNCHANGED <<screen, session, plan, success, attempts, loggingOut, logout, offer, used>>

\* Stripe's cancel_url, the portal's return_url.
ComeBack ==
    /\ screen \in {"checkout", "portal"} /\ load = NoLoad
    /\ Open("billing", FALSE)
    /\ UnchangedTab /\ UNCHANGED <<session, plan, due, used>>

\* Faulty: the count of the attempts starts again with every refresh.
ForgetfulPoll ==
    /\ screen = "pending" /\ attempts' = 0
    /\ IF load = NoLoad THEN Open("billing", success) ELSE UNCHANGED load
    /\ UNCHANGED <<screen, session, plan, due, success, loggingOut, logout, offer, payments, used>>

\* The interval of CheckoutPending: router.refresh(), or it gives up.
Poll ==
    /\ screen = "pending"
    /\ IF attempts = MaxAttempts
       THEN screen' = "timedOut" /\ UNCHANGED <<attempts, load>>
       ELSE /\ attempts' = attempts + 1 /\ UNCHANGED screen
            /\ IF load = NoLoad THEN Open("billing", success) ELSE UNCHANGED load
    /\ UNCHANGED <<session, plan, due, success, loggingOut, logout, offer, payments, used>>

CheckAgain ==
    /\ screen = "timedOut" /\ load = NoLoad /\ Spend("visits", MaxVisits)
    /\ Open("billing", success)
    /\ UnchangedTab /\ UNCHANGED <<session, plan, due>>

\* The browser's back button shows the plans again as they were.
BackToPlans ==
    /\ screen \in {"card", "pending", "timedOut"} /\ payments # {} /\ Spend("visits", MaxVisits)
    /\ screen' = "plans" /\ success' = FALSE /\ attempts' = 0 /\ load' = NoLoad
    /\ UNCHANGED <<session, plan, due, loggingOut, logout, offer, payments>>

-----------------------------------------------------------------------------
(* The backend. *)

\* The webhook of a payment is processed.
Land ==
    /\ due > 0 /\ due' = due - 1 /\ plan' = TRUE
    /\ UnchangedTab /\ UNCHANGED <<load, session, used>>

\* The session expires or is revoked, the subscription lapses.
End ==
    /\ Spend("ends", MaxEnds)
    /\ \/ session /\ session' = FALSE /\ UNCHANGED plan
          /\ load' = IF load = NoLoad THEN load ELSE [load EXCEPT !.slack = @ + 1]
       \/ plan /\ plan' = FALSE /\ UNCHANGED <<session, load>>
    /\ UnchangedTab /\ UNCHANGED due

Calls == {"me", "layout", "subscriptions", "profile", "search", "subscription"}
PagesNext ==
    \/ \E call \in Calls : Answer(call) \/ FailCall(call)
    \/ \E route \in Guest \cup Inside : Visit(route)
    \/ ShowPage \/ SubmitLogin \/ SubmitRegister \/ Logout \/ AnswerLogout \/ ChoosePlan \/ ManageBilling \/ Pay \/ ComeBack
    \/ Poll \/ CheckAgain \/ BackToPlans \/ Land \/ End

\* Calls are answered, pages are shown, the interval ticks.
LoadProgress == ShowPage \/ \E call \in Calls : Answer(call)

PagesSpec == PagesInit /\ [][PagesNext]_pagesVars /\ WF_pagesVars(LoadProgress) /\ WF_pagesVars(Poll)

-----------------------------------------------------------------------------
(* Properties. *)

\* The pages do not send the tab in circles: a page is shown after two redirects,
\* /login to /dashboard to /dashboard/billing, and one more when the session ends
\* on the way. Each answer that fails costs up to three, since the dashboard takes it
\* for no session and /login knows better (dashboard/page.tsx:19, login/page.tsx:7):
\* as long as /subscriptions fails, the tab goes in circles.
RedirectsAreBounded == load # NoLoad => load.hops <= 2 + load.slack

\* Whoever pays with a plan active, or a payment on its way, chose from plans shown
\* before the last payment, before its webhook had arrived, or because the
\* backend did not answer (billing/page.tsx:13, handlers.ts:55 in billing).
SecondPaymentIsBlind ==
    \A p \in payments : p.held => p.offer.ignorant \/ p.offer.after < p.number

\* "Confirming your subscription…" does not stay: the plan is shown, the polls run
\* out, or the user leaves (checkout-pending.tsx:20-32).
CheckoutSettles == screen = "pending" ~> screen # "pending"
=============================================================================
