# A TLA+ model of Sorrel

Sorrel crawls Shopify storefronts and tells its users which technologies the
stores they follow add and remove. The code is a TypeScript monorepo:
`apps/backend` (an HTTP server, queue workers and scripts over PostgreSQL,
RabbitMQ and Stripe) and `apps/frontend` (Next.js). This directory holds TLA+
modules of the parts with concurrency, failures and history in them, TLC
configurations that check them on small instances, and TLAPS proofs of the
properties that matter most.

Paths below are relative to `apps/backend/src` unless they begin with `apps`,
`docs` or `test`. `PROJECT.json` lists, for every definition, the source lines it
models, and for every property a change of the code that would break it.

## The system

    orchestrate-crawl (cron) --crawl.homepage.q--> homepage worker
                                                     | StoreCrawler
                                                     v
         store_crawls, store_metadata, store_technologies (append-only)
                                                     |
                              technology.events.q <--+--> technology event worker

    browser <-> frontend <-> HTTP server --- store_subscriptions (follows)
                                |        --- plans, plan_limits
                                |        --- billing_customers, billing_subscriptions
                             Stripe webhooks -> billing_webhook_events

| Component | State it keeps | Operations | Interacts with | What is hard | What makes it correct | Module |
|---|---|---|---|---|---|---|
| Job queue (`queue/`) | the broker's queues, unsettled deliveries of each consumer | publish, consume, ack, nack | orchestrator, crawler, both workers | several workers, prefetch, a worker dying between handler and ack, a channel that reconnects | no job lost or in two places; ack only after success; every job settles; repeats are due to crashes only | `JobQueue`, `AtLeastOnce` |
| Store crawler (`crawler/store-crawler.ts`, `page-fetcher.ts`) | none; a crawl's local variables between awaits | `crawlHomepage` | tables, fingerprints, event queue | no transaction around a crawl; crawls of one store may run at once or stop anywhere | only usable pages change what is known; events alternate; events are published | `StoreCrawl`, `StoreHistory` |
| Crawl tables (`modules/store/{crawl,metadata,technology}-repository.ts`) | append-only rows, "latest row" views | `record`, `getLatestByStore`, `getActiveByStore`, `getPendingForCrawl` | crawler, orchestrator, views | read, compare, insert without a lock | rows differ from their predecessor; the view is the last usable page | `StoreCrawl` |
| Technology matcher, fingerprints (`crawler/technology-*.ts`), technology catalog (`scripts/sync-technolog*.ts`, `modules/technology/`) | the vendored files, two cached tables per process, `technologies` | download, load, `match`, upsert | crawler, search | first loads that run at once; files replaced one by one under them | a page is matched by one whole version with its overrides | `Fingerprints` |
| Orchestrator and homepage worker (`scripts/orchestrate-crawl.ts`, `workers/homepage-worker.ts`) | none | a sweep; one job | tables, queue | batches without order; sweeps overlap jobs in flight; jobs that never record a crawl | no store is crawled twice for one need; every new store is crawled in the end | `CrawlPipeline` |
| Technology event worker | none | logs the event (a stub) | queue | - | - | an instance of `JobQueue` |
| Store follow (`modules/store/handlers.ts`, `middleware.ts`, `subscription-repository.ts`, `repository.ts`) | `stores`, `store_subscriptions` | subscribe, unsubscribe, lists | entitlements | check-then-insert over five awaited queries; the plan changes meanwhile | the tracked-stores limit; idempotent subscribe | `FollowLimit` |
| Entitlements (`modules/billing/{entitlements,middleware,plan-limit-repository}.ts`) | `plan_limits` | `hasActivePlan`, `getLimitStatus` | store routes | the plan is read twice on a request | a lapsed plan admits nothing | `FollowLimit` |
| Billing (`modules/billing/`) | `billing_customers`, `billing_subscriptions`, `billing_webhook_events` | checkout, portal, webhook | Stripe | webhooks repeated, reordered, concurrent, failing half-way; two checkouts at once | each event acts once; the mirror is genuine, current and complete | `Billing` |
| Plan catalog (`scripts/sync-plans.ts`, `modules/billing/plan*.ts`) | `plans`, `plan_limits` | upserts, the listing | Stripe, entitlements | a crash between a plan and its limit; scripts of two releases at once | plans without a limit are few and repaired; a completed script leaves exactly its list | `PlanCatalog` |
| Users and sessions (`auth/`, `modules/user/`) | `users`, `user_sessions`, cookies | register, login, logout, refresh | every route | a refresh racing a logout; equal tokens in one second; two registrations at once | a token has a row that can be revoked; a session that is over issues nothing | `Sessions` |
| Store search, profile, list of follows (`modules/store/*-view.ts`) | none | `search`, `forStore`, `forUser` | tables | several queries with writes between them; a limit applied before a filter | results are those of the technologies in use; a profile shows one state | `StoreReads` |
| Database schema and migrator (`apps/backend/migrations`, `db/`, `.github/workflows`) | the schema, the executed migrations | up, down, deploy | every table | migrations beside running code; overlapping deploys; an older image pushed last; down-migrations nobody tests | the schema is the one `types.ts` believes in; running code fits it | `Migrations` |
| Discover screen, follow button, sidebar (`apps/frontend/src`) | React state, the debounce timer, requests in flight, the URL | type, search, follow, toggle | HTTP server | answers out of order; buttons that go while their request is under way; two writers of one URL | what is shown belongs to the last input; a button shows the follow | `Discover` |
| Pages, forms, checkout (`apps/frontend/src/app`) | the tab's page, the polls' count | visit, log in and out, pay, poll | HTTP server, Stripe | sessions, plans and payments that change while a page loads | redirects end; polling ends; nobody pays twice knowingly | `Pages` |
| Marketing pages, UI kit, HTTP wiring, configuration, logging | - | - | - | - | - | not modelled |

## The modules

### `JobQueue` and `AtLeastOnce`

`JobQueue` is one queue with its dead-letter queue. `published`, `ready` and
`dead` are the broker's, `task[c][j]` is what consumer `c` has of job `j`
between delivery and settlement, `acked` is where settled jobs go. The actions
are the steps of `QueuePublisher.publish` (`Publish`) and of the callback in
`QueueConsumer.consume`: `Deliver` (the prefetch is `Concurrency`; a message
`schema.parse` rejects fails before its handler), `HandlerResolves`,
`HandlerRejects`, `Ack`, `Nack` (without requeue), and `Crash` of a worker process,
which gives the broker back all that was not settled. `completions` counts
handlers that ran to their end.

`AtLeastOnce` is what a user of the queue may rely on: a job may be run any
number of times while it is pending; it is settled once, and done only after a
complete run. `JobQueue!ImplementsAtLeastOnce` instantiates it with each job's
status and its completions.

Broker-side loss is not in the model, and a worker here loses its deliveries
only by dying. A connection that is lost under running handlers, their late acks
and a publish that is repeated are in `CrawlPipeline`; `NothingLost` is about
workers and the protocol without them: a late ack can settle a job of another handler.

### `StoreCrawl` and `StoreHistory`

`crawls`, `metadata` and `log` are the three append-only tables by store (and
technology name). `created_at` is the order of insertion: the code orders rows
by that column, and the model takes no two rows to have equal times. `Attempt`
is the fetch and the insertion of the crawl row, whatever came back, with the
early return unless the status is `active` (`statusFor` translated with its bounds
200..399; the result of a failed fetch is `NoPage`). Then each awaited statement is a
step: `ReadMetadata`, `InsertMetadata`, `ReadTechnologies`, `InsertTechnologies`
(one INSERT for all events), `PublishEvent` in any order, `Finish`. `Abort` is a
statement that throws or a process that dies, at any step; any of the publishes
under way may still have been delivered. What a page shows (its detected
technologies and its text) is an input. The two history variables are `live`
(what usable pages showed) and `sent` (the rows published).

`Spec` lets any number of workers crawl one store. `SerialSpec` is `Spec`
restricted to the behaviours in which no store is crawled twice at once. Nothing
in the code ensures it; it separates what the diffing gets right from what the
missing lock breaks.

`StoreHistory` is what following a store is worth, with no tables, workers or failures in
it: pages are seen (`Visit`), the technologies in use become those of the newest page
in one step that logs each change (`Reconcile`), and changes in the log are told (`Tell`).
`StoreCrawl!ImplementsStoreHistory` instantiates it with `live` as the pages, `Active` as the
technologies in use and `sent` as what was told; under `SerialSpec` the reads and inserts of a
crawl, which may stop between any two, are one such step or none. It contains that the
events of a name alternate; under `Spec` it is false, as `crawl_run_twice` shows of that part.

### `FollowLimit`

The requests of one user, each in a `Slot`, interleaved at their awaited
queries: `RequireActivePlan` (402), `CountFollows` and `CheckLimit` (403; the plan
is read again, a plan without a limit is `Unlimited`), `LookUpStore`,
`CreateStore` (500 when the unique domain throws), `InsertFollow` (201; on
conflict do nothing), `SelectExisting` (500 when the row is gone by then),
`DeleteFollow`. `ChangePlan` is a webhook. `Limit` assigns each plan its
`max_count`.

### `Billing`

`request` holds the checkouts, `customers` the rows of `billing_customers`,
`stripe` the sequence of states each Stripe subscription has been through, `events` what
Stripe emitted, `acked` what was answered with success, `processed` the rows of
`billing_webhook_events`, `mirror` the rows of `billing_subscriptions` (as the
version they show), and `handler` the deliveries being handled. A Stripe
customer and subscription are named after the checkout that made them.

A delivery is a transaction: `InsertEvent` waits for a transaction holding the
same id and skips an event already processed, `FindCustomer` and `FindPlan` roll
back when they miss, `Retrieve` asks Stripe for the present state
(`checkout.session.completed` only; the other events carry a snapshot),
`Upsert` waits for a transaction holding the row, `Commit` makes both rows
visible, `Reply` is the 200. `AbortDelivery` is any failure in between, including
a lost answer. Stripe keeps delivering what is not `acked`, in any order and
several times at once. Stripe itself (`Pay`, `Notify`, `Change`) is external and modelled by
what the webhook code relies on. The rows of two users never meet except through
the shared `customers`. Period ends, trial dates and the portal are left
out. `overtaken` is a history variable: subscriptions one of whose events was
taken up before an earlier one had been processed.

### `CrawlPipeline`

`latest` is what `getPendingForCrawl` sees of each store: no row in `stores`, no
crawl yet, a crawl older than `CRAWL_STALE_AFTER_MS`, or a fresh one. `batch` holds
what each running `orchestrate-crawl` has read and not yet published, `queue` is
`crawl.homepage.q`, `work` the handler slots of the homepage workers, `dead` the
stores with a job in the dead-letter queue. `AddStore` is a first follow or an
import. `StartSweep` is the query: at most `BatchSize` stores and any of the
pending ones, because it has no ORDER BY. `Publish` is one turn of the loop, `Resend` a job
the broker had when the connection went and the library publishes again, `AbortSweep` a
publish that throws or a process that dies. A worker `Take`s the first job and
`Record`s the attempt (StoreCrawl's `Attempt`), which is what ends the store's
being pending, then `Complete`s; `RejectDomain` is `new URL()` throwing before
anything is recorded; `Fail` is a nack.

A worker can be cut off in two ways. `Die` is its death. `Lose` is a lost connection or a
closed channel, which a frozen event loop is enough for
(`technology-fingerprints.ts:27-28` has measured 19 seconds of it):
`amqp-connection-manager` connects again (`queue-connection.ts:20-21`), nothing cancels the
handler or waits for it (`queue-consumer.ts:31-38`), so it goes on with its
delivery no longer `open`, beside the redelivered job. Its ack or nack, when it comes, goes to
the new channel with the old tag, and `Reach` says what that settles: nothing, or any one
delivery that is open. (That an unknown tag makes the broker close the channel is a `Lose`
of its own, one for each delivery on it.)

The queue here is FIFO and has no prefetch, since `JobQueue` settles that question, and
a crawl has two steps, since `StoreCrawl` has the rest. Nothing in the code stops
a sweep while the jobs of the last one are waiting; `overlapped` remembers for which
stores that happened, `resent` which were published twice. For all others
`OneJobUnlessOverlapped` says that the broker and the sweeps have one job at most, so that
of the crawls that run at once all but one have lost their delivery. `StoreCrawl`'s
`SerialSpec` (no two crawls of a store at once) is therefore what the code does while
sweeps do not overlap and connections hold; `Spec`, with its races, is what it does otherwise.

### `Sessions`

One browser with up to `Slot` requests under way. `jar` is its two cookies;
`request` is what each slot serves: the cookies of the moment it was sent, the
position in the handler and the Set-Cookie headers so far. `users` and `sessions` are the
tables. `Send` and `Deliver` are the browser's: responses come in any order, and
their cookies may be lost, because the frontend's `ServerHttp` passes on those
of a POST only. Between them each awaited query is a step: `FindAccount`,
`CreateUser`; `FindUser`, `SignTokens`, `CreateSession`, `UpdateLastLogin`;
`Revoke`; `Authenticate`, `LookUpSession`, `Issue`, `UpdateLastUsed`. `Fail` is any
of these throwing.

`now` counts seconds, the unit of a token's `iat` and `exp`. A refresh token is
its user and its second, so two logins in one second sign the same token and the
second meets the unique constraint (`CreateSession` answers without cookies: 500).
An access token also carries, as history, the refresh token it was issued for.
`until` is when the browser drops each cookie (`MaxAge`, cookies.ts:30-38: counted from
the response, the token's own life from its signing); `Tick` drops them. An access
token issued shortly before the refresh token's end outlives the refresh cookie, and the
browser holds access without a session until it runs out: `JarIsOneSession` allows that one case.
Roles, passwords and what the protected routes do are left out.

### `Migrations`

`schema` is the database as the migrations build it: tables with the kind of
each column (required, generated, nullable), unique constraints and references,
and indexes. `M0001Up`, `M0001Down` and so on to `M0016Down` translate the files of
`apps/backend/migrations`, each an operator on schemas made of the statements it
executes; `Up` and `Down` put them in the order of the folder and `Upped` runs the
pending ones, as `migrateToLatest` does. 0010, which turns the rows of
`store_technologies` into events, also rewrites `rows`, those of one store and technology. `Database` is
`db/types.ts`, `ConflictTargets` what the repositories' ON CONFLICT clauses
need. `Push` is CI's image as `:latest`, newer or older than the one before (the runs of
`ci.yml` are in no concurrency group); `Pull`, `Migrate`, `MigrateFails`,
`MigrateRefused` and `ComposeUp` are the lines of `deploy.yml` for each deploy under way
(nothing keeps two apart, and a failed migration does not stop the script). An image older than
the schema is refused by Kysely's migrator, which misses migrations that were executed,
and is started all the same. `Rollback` is a down by hand.

### `PlanCatalog`

`plans` and `limits` by slug; `script` is where each run of `sync-plans` stands:
before an entry's plan (`UpsertBySlug`, which leaves `is_active` alone; on a price another
plan has, `PriceTaken`, it throws) or before its
limit (`UpsertForPlan`); `Die` is a failure or death at either. The lists of several
releases may be run, in any order and beside each other. `GetActivePlans`,
`GetLimitsForPlan` and `Answer` are the listing, whose limits are read plan by plan.
`ran` and `synced` are history: the lists ever run, and the list of the script
that ended last, if no other ran beside it.

### `Fingerprints`

The files of `sync-technologies` on disk (`StartDownload`, `FetchFile`,
`AbortDownload`: the categories first, then one file after another, no file
removed), and what each process caches of them. `GetTechnologies`,
`ReadCategories`, `ReadDirectory`, `ReadFile`, `EndLoad` are the awaited steps of
a load; every match that finds no technologies loads for itself, and all of them
share the two fields. `Finish` is the match, or the upsert when the task is
the catalog script. `getCategories` never loads anything itself: both its
callers have awaited `getTechnologies`. A regular expression is a model value, a page the set of expressions
that match it. `calm` says that the disk has been whole and untouched since the
process started.

### `StoreReads`

The search (`SearchText`, `SearchCatalog`, `FindActiveStores`, `HydrateStores`,
`AnnotateFollows`), the profile and the list of follows (`ReadPart`, in any order,
for they are sent together), each query a step, between writes of every other component,
each a statement. `getActiveStoresForNames` is translated with its limit where the
code has it: over the latest rows, removals included, which are filtered out
afterwards. A query without an ORDER BY may return any rows (`AnyOf`).

### `Discover`

`query`, `results`, `loading` and `timer` are the state of `DiscoverSearch`;
`searches` are the server actions under way, answered in any order because
`router.replace` takes them out of Next's queue; `buttons` is the state of each
card's `StoreFollowButton` and `requests` the follow requests, which outlive it.
`address` is the URL, which the search (`navigation`, a transition that commits
later) and the sidebar (`WriteSidebarParam`, from the parameters of the last
render) both write. A card that stays keeps its button's state, a card that comes
back gets a new one (`Render`). History: `shown` and `lost` number the searches;
`version` counts the commits of each follow and `knows` is the one a button has
heard of; `dropped` says that the sidebar discarded a navigation.

### `Pages`

One tab: the page it shows (`screen`), the page that loads and the calls it waits
for (`load`), and of the backend the session, the plan and the payments on their
way (`due`). `Target` and `View` are the guards of the layout and of every page, translated
one by one; `Answer` takes the calls in any order, `FailCall` is a 500 or an exception.
`Poll` and `CheckAgain` are `CheckoutPending`. History: `hops` and `slack` count
redirects and what excuses them; `offer` and `payments` keep what was known when plans were
shown and when money was paid.

The instances of the first four are in `MCUpkeep`, of the last two in `MCFrontend`:
they share no state, so a behaviour is one of them while the others stay where they
start (`part`), and the state space is the sum, not the product.

## What the runs check

| Run | Instance | Properties | Shows |
|---|---|---|---|
| `jobqueue` | 3 jobs (1 malformed), 2 consumers, prefetch 2, 2 crashes | `NothingLost` `RepeatedOnlyByCrashes`, `EveryJobSettles`, `ImplementsAtLeastOnce` | the protocol keeps its promise through any crash |
| `crawl_serial` | 2 stores, 2 workers, 3 crawls a store, 1 abort, the technology that decides the platform | `MetadataGrowsOnChange` `ViewIsLastPage`, `ImplementsStoreHistory` | one crawl of a store at a time: tables and events implement the history of a store, failed crawls included |
| `crawl_race` | 1 store, 1 technology, 2 workers, 4 crawls, 1 abort; pages on both sides of 200 and 399 | `EventsAreWitnessed` `OnlyRecordedEventsArePublished` `EventsAreAccountedFor` `RepeatsAreBounded` | what survives racing crawls: nothing invented, nothing published unrecorded, at most one repetition per worker |
| `crawl_run_twice` (violation) | 2 workers, 2 crawls | `EventsAlternate` | two crawls of a store append "added" twice |
| `follow` | 4 domains, 2 slots, plans of 1 and 2, 4 requests, 1 plan change | `OvershootBounded`, `LapsedPlanAdmitsNothing` | the limit is overshot by the racing requests only; a lapsed plan admits no one |
| `billing_safety` | 2 checkouts, 2 users, 2 handlers, 3 events, 1 abort, a price of no plan | `SessionsHaveCustomers` `MirrorIsGenuine` `ProcessedMeansMirrored` `MirrorInOrder`, `EachEventActsOnce` | idempotency, atomicity and the mirror under concurrent, repeated, reordered and failing deliveries |
| `billing_liveness` | 1 checkout, 2 handlers, 3 events, 2 aborts | `PaymentIsRecognised` | a payment gets its row in the end |
| `billing_mirror` (violation) | 1 checkout, 2 handlers, 3 events, no abort | `StripeIsMirrored` | events out of order leave an old state in the mirror for good |
| `pipeline` | 3 stores (2 with domains that are no host names), 2 orchestrators, 2 workers, batches of 2, sweeps that wait for an empty queue, 1 stale crawl, 1 fault | `OneJobUnlessOverlapped` `JobsAreNeeded`, `StoresAreCrawled` | jobs are in excess only after overlapping sweeps or a repeated publish, crawls also after a lost connection; every store gets its first crawl unless malformed domains fill a batch |
| `sessions` | 1 address, 2 requests at once, 4 requests, seconds 0..3, access tokens of 2 s and refresh tokens of 3 s, 1 failure | `HeldTokensHaveRows` `AnsweredOnce` `JarIsOneSession`, `OverSessionsIssueNothing` | racing logins, refreshes and logouts leave no token without a row, no session shared by two logins, no two sessions in one browser whose requests do not overlap, and no access token issued for a session that is over except by a refresh already under way |
| `upkeep` (schema) | releases of 6, 7, 9 and 14 migrations, 2 deploys at once, 2 failures or rollbacks, 3 rows | `SchemaMatchesTypes` `RunningCodeFitsSchema`, `EventLogKeepsPresence` | every down undoes its up; the last schema is that of `types.ts`; running code meets another schema only in the window of 0010 and after deploys that failed, overlapped or brought an older image |
| `upkeep` (plans) | lists of two releases that exchange a price and drop a plan, 2 scripts at once, 3 runs, 1 listing | `HolesAreBounded` `CompletedSyncIsExact` | a script that dies leaves one plan unlimited at most, and a completed one leaves its list |
| `upkeep` (fingerprints) | 2 versions (a file dropped, categories renumbered), 2 matches in one process and the catalog script in another, 2 faults | `MatchesAreWhole` | sharing a cache that is being filled never yields a partial match |
| `upkeep` (reads) | 3 stores, 2 technologies, limit 2, four databases to start on, 2 writes | `SearchFindsTheStores` `ProfilesAreCoherent` | a search within its limits is exact; a profile shows histories that existed |
| `frontend` (discover) | 2 queries and a blank one, 2 stores, 2 keystrokes, 2 clicks, 1 toggle, 1 failure | `QuietScreenIsCurrent` `IdleButtonTellsTheTruth`, `SearchSettles` | the screen agrees with its last input but for the exceptions the code leaves, which the properties name |
| `frontend` (pages) | 4 steps of the user, 2 polls, 1 fault, 1 end of session or plan, 2 payments | `RedirectsAreBounded` `SecondPaymentIsBlind`, `CheckoutSettles` | redirects and polls end; a second payment is made from an outdated page |

Each run ends within about two minutes (`sessions` has 4.7 million distinct states,
`pipeline` 1.9, `upkeep` 1.2, `frontend` 0.7). The type invariants of the modules are not in the runs:
they are proved instead (below).

**Bounds.** Every hazard here needs two actors on one object: two consumers and
a job, two crawls and a store, two requests and a follow, two deliveries and a
subscription. Two of each, with one item more than fits (a third job, a fourth
domain, a third event), are the least that show them, and the third actor of a
kind only repeats the second. What depends on the number of actors
(`RepeatedOnlyByCrashes`, `RepeatsAreBounded`, `OvershootBounded`) has that number
in its statement, and the first and the last are proved for every number. A store is crawled three times in `crawl_serial` because a technology has to be
added, removed and added again, and four times in `crawl_race` so that two pairs
of crawls can race. Deployed values differ (the homepage workers run five jobs at once);
nothing in the modules depends on them. `MaxCrashes`, `MaxAborts`, `MaxCrawls`,
`MaxRequests`, `MaxChanges`, `MaxEvents`, `MaxExpiries`, `MaxFaults`, `MaxFailures`,
`MaxQueue`, `MaxTime`, and in the newer modules `MaxMishaps`, `MaxRows`, `MaxRuns`,
`MaxReads`, `MaxWrites`, `MaxEdits`, `MaxClicks`, `MaxToggles`, `MaxVisits`, `MaxEnds` and
`MaxPayments` bound the counters that would otherwise grow for ever. `upkeep` deploys the
releases at which something changes: before and after `store_technologies`
is created, after the event log, and the last; two faults let a process restart over a
download that broke off; three stores do not fit a limit of two. `frontend` types
twice because the second search has to overtake the first, and clicks twice because a
follow has to be taken back while the first is under way. Deadlock is not checked, because every bounded model
comes to rest when its bounds are used up.

**Fairness.** Four runs assume any; the queue's refinement of `AtLeastOnce` is in the first of them. In `JobQueue`, the
broker delivers while there is room (weak fairness of `Deliver`), a handler ends
(its requests have timeouts) and a finished one is settled. In `Billing`, a
delivery that has begun goes on and Stripe keeps delivering what it has no
answer for. In
`CrawlPipeline`, the schedule starts sweeps again and again, a sweep publishes
what it read, and workers take jobs and crawl (the fetch and the queries have timeouts).
That a worker takes jobs again after its channel was closed is the library's to do, or
that of whoever restarts the process: nothing in this repository does.
In `Discover`, a timer fires and a search is served and answered (`SearchProgress`: JavaScript's timers,
and the actions' requests end); a search may still throw instead, and that is an
exception in `SearchSettles`. In `Pages`, calls are answered and loaded pages shown
(`LoadProgress`), and the interval of `CheckoutPending` ticks (`Poll`).
Nothing else has to happen: no webhook need arrive, no store need be added or grow stale, no worker crash, no user pay.
`Billing`'s liveness is checked with one subscription: with several, weak
fairness of delivery lets Stripe deliver only another one's failing events for
ever, which its backoff schedule does not do. `StoresAreCrawled` rests on
`MaxExpiries` too: with more stores than fit a batch growing stale for ever, a query
without an order may always pick those. That, and malformed domains in the same
role, is the exception in its statement: `pipeline` has two of them and batches of two,
the size at which it begins to matter.

## Where the code and its documentation part

The two violation runs are described in `PROJECT.json` under `findings`, with
the sentence each contradicts. In short: a crawl is not safe to run twice at once
(`docs/ARCHITECTURE.md:45`), and the subscription mirror can stay behind Stripe.

More of what the code does, and a reader might not expect, is plain in the models, as
a guard or as an exception that a property names, and has no run of its own:

- A crawl cut short between its insert and its publishes loses its events for
  good: later crawls find the rows and have nothing to publish
  (`EventsAreAccountedFor` holds while `aborts = 0`).
- Concurrent follows exceed the tracked-stores limit (`OvershootBounded` says by
  how much at most), and a plan without its limit row is unlimited (`Holes`).
- `docs/ARCHITECTURE.md:38` has dead-lettered jobs retried later; nothing takes them out
  of `dead` (`VerdictsAreFinal` is proved).
- Racing requests are answered 500: a repeated follow that races an unfollow
  (`FollowLimit!SelectExisting`), two registrations, two logins in one second
  (`Sessions!CreateUser`, `Sessions!CreateSession`).
- Technologies beyond the limit hide stores from the search, removals included
  (`StoreReads!getActiveStoresForNames`).
- A plan taken out of `PLANS` stays for sale: no script clears `is_active`
  (`PlanCatalog!Retire` is by hand).
- The down of 0010 marks removals deleted and leaves the additions before them
  live, so a technology that was removed is there again (the precondition of
  `EventLogKeepsPresence`).
- A search that overtakes a newer one leaves the cards of another query on
  screen, and one that throws leaves "Searching" there (`QuietScreenIsCurrent`,
  `SearchSettles`).
- As long as `/subscriptions` fails with a session, `/dashboard` and `/login` send
  the tab to each other (`RedirectsAreBounded`); a logout that throws leaves its
  menu item disabled (`Pages!AnswerLogout`); a user can pay for a second plan from a page that
  is out of date (`SecondPaymentIsBlind`).

## What is proved

Eight modules hold the proofs; `PROJECT.json` lists the theorems. All safety and
action properties of the passing runs are proved; liveness is not (see "Only
model-checked"). Each proof has an inductive invariant, because hardly any of the properties is
inductive by itself.

**`JobQueue_proofs`**, for any finite set of jobs, any consumers, prefetch and
number of crashes: `TypeCorrect`, `JobsAreNeverLost`, `JobsAreInOnePlace`,
`AckedJobsCompleted`, `RepetitionIsBounded`, `VerdictsAreFinal`, and
`QueueIsAtLeastOnce`, the safety part of the refinement. `IInv` joins the safety
properties, which need each other, and strengthens two: `MalformedNeverRuns` (a
malformed job is never running or succeeded, so nothing acked is malformed) and
`CompletionBudget` (a job held as "succeeded" or settled has used the extra
completion, any other job at most one per crash), because "one more than the
crashes" alone does not survive `HandlerResolves`.

**`StoreCrawl_proofs`**, for any stores, technologies, pages, crawls and aborts, and
any finite set of workers. Under `SerialSpec`: `SerialCrawlsAlternate`,
`SerialCrawlsAreDiffGated`, `SerialCrawlsReconcile`, and the refinement `SerialCrawlsAreAHistory`. `SerialInv` says for every
crawl what its position means (`Progress`): a crawl about to insert metadata
holds a row that differs from the latest one, a crawl about to insert events holds
precisely the diff of its page against the log, and one past the insert has made
the store's view its page. `DiffReconciles` is the lemma about the diff;
`OthersKeepProgress` is where seriality is used. The refinement adds `PagesAreNewest`: the page a
crawl has in hand is the newest of its store, because no other crawl of it may have begun; so the insert
is the abstract `Reconcile`, a publish or an abort a `Tell`. Under `Spec`, with crawls racing:
`TypeCorrect`; `PublishingFollowsRecording`; `EventsStayAccountedFor` (`Accounted`: what two
workers owe is disjoint, and none of it sent); `RepeatsStayBounded` (`RunsInv`: the
length of the run that ends a log plus the crawls that wait to add to it is at
most the number of workers); and `EventsStayWitnessed` (`WitnessInv`: the events of
a name plus the crawls that may still append one are no more than the pages that call
for one).

**`FollowLimit_proofs`**, for any plans, domains and slots: `TypeCorrect`,
`OvershootIsBounded` and `LapsedPlansAdmitNothing`. The bound is not inductive
by itself: `Budget` bounds the follows together with the requests
that counted less than the limit and may still insert (`Racing`). An insert
moves a request from the one to the other; and a request that joins has counted
less than the limit, so the sum is below the limit plus the number of slots
however many are racing by then.

**`Billing_proofs`**, for any users, plans, requests, handlers and any history of Stripe:
`TypeCorrect`, `SessionsAreForCustomers`, `MirrorStaysGenuine`, `ProcessedMeansDone`,
`RepeatedEventsAreIdle` and `OrderedMirrorIsCurrent`. The invariants come in layers:
`CheckoutInv` (a customer belongs to the user of the request that made it),
`StripeInv` (a subscription has an issued session, and each of its versions an event),
`HandlerInv` (an event in a transaction is in no other one and not processed; this is
what the primary key of `billing_webhook_events` gives), `MirrorInv` (rows and
processed events go together), and for the order `OrderInv`: for a subscription that
was not overtaken, nothing is taken up before what was emitted earlier, and the row is
not older than anything processed.

**`CrawlPipeline_proofs`**, for any stores, orchestrators and workers: `TypeCorrect`,
`OneJobAtATime` and `JobsStayNeeded`. A job is in a batch, in the queue or an open
delivery; `SingleJobs` says that one place of one of these kinds holds the jobs
of a store no sweep overlapped and no publish was repeated for, which moving a job keeps, and
a delivery that is lost or settled by another's tag can only make fewer. `JobsStayNeeded` needs besides that every
handler has its delivery as long as there was no fault (`FaultlessDeliveries`).

**`Sessions_proofs`**, for any addresses, number of requests at once and lifetimes:
`TypeCorrect`, `TokensCanBeRevoked`, `AccountsAndSessionsAreNew`,
`RevokedSessionsIssueNothing` and `UnracedJarsAreOneSession`. `SessionInv` says of every request
which session its cookies name (`Names`): it has a row, and a login between its session's insert and
its answer (`LoginsAreNew`) is the only one with that session, which was never
answered before. That is what the unique constraint on the refresh token buys;
`SessionFrame` shows that no other step can take it away. `JarInv` says, while nothing
raced, that the access token in the jar is of a session the jar keeps (`Kept`: its refresh token,
or, once that is dropped, one that has run out), that the refresh cookie is kept for at
least as long as its token lives, and what the one request under way is about to set.

**`Upkeep_proofs`** has the four components of the `upkeep` runs, a section each. For any
lists, scripts and listings: `PlanTypesHold`,
`HolesStayBounded` (`HoleInv` gives every plan without a limit a list that was run, whose earlier
entries all have theirs, so no list has two) and `CompletedSyncStaysExact` (`ExactInv`: a script
that runs alone is exact up to where it stands); and for any files, overrides, processes and
matches, `MatchesStayWhole` (`FingerprintInv`: over a disk nobody touched, whatever
a load has read and whatever is cached is what the disk says).

For any releases, any deploys under way at once and any failures and rollbacks:
`SchemasMatchTypes`, `RunningCodeFits` and `EventLogsKeepPresence`. `MigrationInv` is that the
schema is `SchemaAfter[applied]` and, while no deploy strays, that there is one deploy at a time and the code
is older than the schema only between its migration and its restart; a deploy that the migrator
refuses strays, so an older image needs no case of its own. Its first part rests on
`UppedTwice`: the migrations of two deploys one after the other build what those of one
deploy over both build. `Upped` is a recursive function, so that it has a value at
all is a lemma (`RunsExist`); both are proved by taking the least number that
would be an exception, with `WFMin` of the library. That every statement finds what it
needs and every down undoes its up is proved migration by migration: `WellFormed` says that
tables and indexes have one name each and references lead somewhere, and `Adds` that
a migration leaves all there was, adds a table or an index whose name was free, and is undone by its
down. `FirstMigrations`, `EventLogMigration` and `LaterMigrations` establish it for the fourteen
files; `EverySchema` joins them, `LastSchemaMatchesTypes` compares the end with `db/types.ts`,
and `TablesGrow` is why an older release on the same side of 0010 still fits.

For any stores, technologies, queries and limit, and any requests at once:
`SearchesFindTheStores` and `ProfilesStayCoherent`. `ReadsInv` says of each request what its
queries have brought so far: as long as nothing was written since it began, what a query
of the present tables would bring (`SearchIsCurrent`, `PartsAreCurrent`); whatever was written, that a
search keeps its limits (`SearchLimits`) and that a profile's events are a beginning of the
store's log, its technologies those in use after one (`HistoryIsKept`; logs only grow,
`HistoriesStay`). A write voids the first and keeps the second (`Writing`). That
the answer is exact then needs the queries' own lemmas: the latest event of a
technology decides whether it is in use (`LatestDecides`), a limit that all of a set fits within
cuts nothing, in an order (`WithinLimit`) or in none (`AnyOfAll`), and the text search finds no more
than the limit (`TextSearchLimits`).

**`Frontend_proofs`**, for any stores, queries, hits and bounds:
`IdleButtonsTellTheTruth` (`ScreenInv`: nothing that carries a version of a follow is ahead of
the backend or disagrees with it at the same version), `QuietScreensAreCurrent` (`QuietInv`: the
URL is behind the box only with a navigation under way, and the newest search is of
the query in the box), `RedirectsStayBounded` and `SecondPaymentsAreBlind` (`PagesInv`: the
redirects made and those a route may still cost are at most two and the slack).

Assumptions: the named ASSUMEs of the modules (finite sets of jobs, workers, stores, technologies,
requests, domains, slots and lists; stores numbered in the order of their domains, as `StoreReads`
has them; limits that are numbers or `Unlimited`; `None`, `NoRow` and the like
are no values; overrides that have patterns only), nothing else. `OvershootBounded`
speaks of plans that all have a limit, as `scripts/sync-plans.ts` gives them.

**Only model-checked.** Liveness (`EveryJobSettles`, `PaymentIsRecognised`,
`StoresAreCrawled`, `SearchSettles`, `CheckoutSettles`, the liveness part of
`ImplementsAtLeastOnce`): the prover knows neither fairness nor ENABLED. The library's
induction theorems, which take an operator as a parameter, cannot be used either; where data had to be
gone through one element at a time, the least exception does instead.

## The order of the modules, and what is left

The crawl history is what the product sells, the queue carries it, and limits and
billing decide who pays for it; so first came `JobQueue` with `AtLeastOnce`, `StoreCrawl`,
`StoreHistory`, `FollowLimit`, `Billing`, `CrawlPipeline` and `Sessions`; then what surrounds them, `PlanCatalog`,
`Fingerprints`, `StoreReads`, `Migrations`; then the frontend, `Discover` and `Pages`.

Left, in this order: the period ends and trial dates in the mirrored state of `Billing`;
the composition of `CrawlPipeline` and `StoreCrawl`, so that `StoreHistory` is what the whole
pipeline implements while each store has one crawl at a time; in `JobQueue`, the lost
connections and late acks that `CrawlPipeline` has.

## What is not modelled, and why

`amqp-connection-manager` is not in the repository: that it connects again, publishes again
what was not confirmed and acks on the channel it then has is modelled in `CrawlPipeline`
as far as the code around it can tell, with no bookkeeping of tags and channels.
The text extraction is an input of `StoreCrawl`, and a regular expression is a model
value of `Fingerprints`: what they compute is string matching. The technology event
worker's handler is a stub. Roles, password hashing and the portal session change no
state that a property could be about. Marketing pages, the generated UI kit (but for the sidebar's state, in
`Discover`), logging, configuration and server wiring have no state to get wrong.
PostgreSQL is taken at READ COMMITTED with atomic
statements; RabbitMQ, Stripe, the browser and Next's router are modelled by what the code
relies on.
