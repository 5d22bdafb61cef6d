----------------------------- MODULE StoreCrawl -----------------------------
(***************************************************************************)
(* StoreCrawler.crawlHomepage and the three append-only tables it writes:  *)
(* store_crawls, store_metadata and store_technologies.                    *)
(*                                                                         *)
(* Every awaited statement is a step of its own, because crawls run        *)
(* concurrently: a consumer runs up to HOMEPAGE_WORKER_CONCURRENCY         *)
(* handlers, several workers may consume the queue, and nothing keeps two  *)
(* jobs of one store apart.  No transaction spans a crawl.  A crawl may    *)
(* end after any step, when a statement throws or the process dies.        *)
(***************************************************************************)
EXTENDS Integers, Sequences, FiniteSets

CONSTANTS
  Store,
  Tech,        \* technology names
  Shopify,     \* the name that decides the platform
  Response,    \* pages a storefront may answer with
  NoPage,      \* the fetch failed
  Worker,      \* handler slots of all worker processes together
  MaxCrawls,   \* bound: crawl attempts of a store
  MaxAborts    \* bound: crawls that fail or crash half-way

ASSUME StoreCrawlAssumption ==
  /\ \A r \in Response :
       /\ r.challenge \in BOOLEAN
       /\ r.code \in Nat
       /\ r.detected \subseteq Tech
  /\ NoPage \notin Response
  /\ IsFiniteSet(Worker)
  /\ MaxCrawls \in Nat
  /\ MaxAborts \in Nat

VARIABLES
  crawls,    \* store_crawls: the statuses of a store's attempts
  metadata,  \* store_metadata: a store's platform and text, oldest first
  log,       \* store_technologies: the events of each name, oldest first
  sent,      \* rows of the log whose event was published
  crawl,     \* what each worker is doing
  live,      \* history: what was detected on the usable pages of a store
  aborts     \* crawls cut short so far

vars == <<crawls, metadata, log, sent, crawl, live, aborts>>

EventType == {"added", "removed"}

\* What HttpPageFetcher.fetch may come back with.
Page == Response \cup {NoPage}

statusFor(page) ==
  IF page = NoPage THEN "dead"
  ELSE IF page.challenge THEN "blocked"
  ELSE IF page.code \in 200..399 THEN "active" ELSE "error"

\* A metadata row: the platform is Shopify when that technology was detected.
MetadataOf(page) == [shopify |-> Shopify \in page.detected, text |-> page.text]

Latest(rows) == IF rows = <<>> THEN "none" ELSE rows[Len(rows)]

\* getActiveByStore: the names whose latest event is not "removed".
Active(s) == {n \in Tech : Latest(log[s][n]) = "added"}

NoEvents == [n \in Tech |-> "none"]

\* Faulty: a name once known is never added again.
FirstTimeDiff(s, detected) ==
  [n \in Tech |->
     CASE n \in detected /\ log[s][n] = <<>> -> "added"
       [] n \notin detected /\ Latest(log[s][n]) = "added" -> "removed"
       [] OTHER -> "none"]

\* The events a crawl that detected these names has to append.
Diff(s, detected) ==
  [n \in Tech |->
     CASE n \in detected /\ Latest(log[s][n]) # "added" -> "added"
       [] n \notin detected /\ Latest(log[s][n]) = "added" -> "removed"
       [] OTHER -> "none"]

Idle == [pc |-> "idle"]

Init ==
  /\ crawls = [s \in Store |-> <<>>]
  /\ metadata = [s \in Store |-> <<>>]
  /\ log = [s \in Store |-> [n \in Tech |-> <<>>]]
  /\ sent = {}
  /\ crawl = [w \in Worker |-> Idle]
  /\ live = [s \in Store |-> <<>>]
  /\ aborts = 0

-----------------------------------------------------------------------------
(* The steps of crawlHomepage.                                             *)

At(w, pc) == crawl[w].pc = pc

\* Faulty: the early return for an unusable page is missing.
UnguardedAttempt(w, s, page) ==
  /\ At(w, "idle")
  /\ Len(crawls[s]) < MaxCrawls
  /\ crawls' = [crawls EXCEPT ![s] = Append(@, statusFor(page))]
  /\ LET usable == IF page = NoPage THEN [detected |-> {}, text |-> "null"] ELSE page
     IN  crawl' = [crawl EXCEPT ![w] = [pc |-> "metadata", store |-> s, page |-> usable,
                                        events |-> NoEvents, pending |-> {}]]
  /\ live' = IF statusFor(page) = "active"
             THEN [live EXCEPT ![s] = Append(@, page.detected)] ELSE live
  /\ UNCHANGED <<metadata, log, sent, aborts>>

\* The page is fetched and the attempt recorded, whatever came back; only an
\* active page is looked at any further.
Attempt(w, s, page) ==
  /\ At(w, "idle")
  /\ Len(crawls[s]) < MaxCrawls
  /\ crawls' = [crawls EXCEPT ![s] = Append(@, statusFor(page))]
  /\ IF statusFor(page) = "active"
     THEN /\ crawl' = [crawl EXCEPT ![w] = [pc |-> "metadata", store |-> s, page |-> page,
                                            events |-> NoEvents, pending |-> {}]]
          /\ live' = [live EXCEPT ![s] = Append(@, page.detected)]
     ELSE UNCHANGED <<crawl, live>>
  /\ UNCHANGED <<metadata, log, sent, aborts>>

\* Faulty: the row is inserted without looking at the latest one.
UngatedRead(w) ==
  /\ At(w, "metadata")
  /\ crawl' = [crawl EXCEPT ![w].pc = "metadata insert"]
  /\ UNCHANGED <<crawls, metadata, log, sent, live, aborts>>

\* StoreMetadataRepository.record reads the latest row and compares.
ReadMetadata(w) ==
  /\ At(w, "metadata")
  /\ LET rows == metadata[crawl[w].store]
         same == rows # <<>> /\ rows[Len(rows)] = MetadataOf(crawl[w].page)
     IN  crawl' = [crawl EXCEPT ![w].pc = IF same THEN "technologies" ELSE "metadata insert"]
  /\ UNCHANGED <<crawls, metadata, log, sent, live, aborts>>

InsertMetadata(w) ==
  /\ At(w, "metadata insert")
  /\ metadata' = [metadata EXCEPT ![crawl[w].store] = Append(@, MetadataOf(crawl[w].page))]
  /\ crawl' = [crawl EXCEPT ![w].pc = "technologies"]
  /\ UNCHANGED <<crawls, log, sent, live, aborts>>

\* StoreTechnologyRepository.record reads the latest row of every name and
\* works out what to append; with nothing to append it has nothing to publish.
ReadTechnologies(w) ==
  /\ At(w, "technologies")
  /\ LET events == Diff(crawl[w].store, crawl[w].page.detected)
     IN  crawl' = [crawl EXCEPT
           ![w].pc = IF events = NoEvents THEN "publishing" ELSE "technologies insert",
           ![w].events = events]
  /\ UNCHANGED <<crawls, metadata, log, sent, live, aborts>>

Appended(s, events) ==
  [n \in Tech |-> IF events[n] = "none" THEN log[s][n] ELSE Append(log[s][n], events[n])]

\* The log rows an insert of these events creates.
NewRows(s, events) ==
  {<<s, n, Len(log[s][n]) + 1>> : n \in {m \in Tech : events[m] # "none"}}

\* Faulty: the events are given away before the rows are written.
PublishingInsert(w) ==
  /\ At(w, "technologies insert")
  /\ sent' = sent \cup NewRows(crawl[w].store, crawl[w].events)
  /\ crawl' = [crawl EXCEPT ![w].pc = "publishing"]
  /\ UNCHANGED <<crawls, metadata, log, live, aborts>>

\* Faulty: the inserted rows are not returned to the crawler.
SilentInsert(w) ==
  /\ At(w, "technologies insert")
  /\ LET s == crawl[w].store
     IN  log' = [log EXCEPT ![s] = Appended(s, crawl[w].events)]
  /\ crawl' = [crawl EXCEPT ![w].pc = "publishing"]
  /\ UNCHANGED <<crawls, metadata, sent, live, aborts>>

\* Faulty: after the insert the worker starts over from the diff it has.
RepeatingInsert(w) ==
  /\ At(w, "technologies insert")
  /\ LET s == crawl[w].store
     IN  log' = [log EXCEPT ![s] = Appended(s, crawl[w].events)]
  /\ \A n \in Tech : Len(log'[crawl[w].store][n]) <= MaxCrawls + 1
  /\ UNCHANGED <<crawls, metadata, sent, crawl, live, aborts>>

\* All of a crawl's events are appended by one INSERT.
InsertTechnologies(w) ==
  /\ At(w, "technologies insert")
  /\ LET s == crawl[w].store
         events == crawl[w].events
     IN  /\ log' = [log EXCEPT ![s] = Appended(s, events)]
         /\ crawl' = [crawl EXCEPT ![w].pc = "publishing", ![w].pending = NewRows(s, events)]
  /\ UNCHANGED <<crawls, metadata, sent, live, aborts>>

\* Promise.all publishes the events in no particular order ...
PublishEvent(w) ==
  /\ At(w, "publishing")
  /\ \E row \in crawl[w].pending :
       /\ sent' = sent \cup {row}
       /\ crawl' = [crawl EXCEPT ![w].pending = @ \ {row}]
  /\ UNCHANGED <<crawls, metadata, log, live, aborts>>

\* ... and the crawl is complete when all are confirmed.
Finish(w) ==
  /\ At(w, "publishing")
  /\ crawl[w].pending = {}
  /\ crawl' = [crawl EXCEPT ![w] = Idle]
  /\ UNCHANGED <<crawls, metadata, log, sent, live, aborts>>

\* A statement or a publish throws, or the process dies.  Publishes already
\* handed to the channel may still reach the broker.
Abort(w) ==
  /\ ~At(w, "idle")
  /\ aborts < MaxAborts
  /\ aborts' = aborts + 1
  /\ \E delivered \in SUBSET crawl[w].pending : sent' = sent \cup delivered
  /\ crawl' = [crawl EXCEPT ![w] = Idle]
  /\ UNCHANGED <<crawls, metadata, log, live>>

Step(w) ==
  \/ \E s \in Store, page \in Page : Attempt(w, s, page)
  \/ ReadMetadata(w)
  \/ InsertMetadata(w)
  \/ ReadTechnologies(w)
  \/ InsertTechnologies(w)
  \/ PublishEvent(w)
  \/ Finish(w)
  \/ Abort(w)

Next == \E w \in Worker : Step(w)

Spec == Init /\ [][Next]_vars

\* The behaviours in which no store is crawled by two workers at once.
Serial ==
  \A v, w \in Worker :
    ~At(v, "idle") /\ ~At(w, "idle") /\ crawl[v].store = crawl[w].store => v = w

SerialSpec == Init /\ [][Next /\ Serial']_vars

-----------------------------------------------------------------------------
Metadata == [shopify : BOOLEAN, text : {r.text : r \in Response}]
Row == Store \X Tech \X (Nat \ {0})
Status == {"dead", "blocked", "error", "active"}

Crawling ==
  [pc : {"metadata", "metadata insert", "technologies", "technologies insert", "publishing"},
   store : Store,
   page : Response,
   events : [Tech -> EventType \cup {"none"}],
   pending : SUBSET Row]

TypeOK ==
  /\ crawls \in [Store -> Seq(Status)]
  /\ metadata \in [Store -> Seq(Metadata)]
  /\ log \in [Store -> [Tech -> Seq(EventType)]]
  /\ sent \in SUBSET Row
  /\ crawl \in [Worker -> {Idle} \cup Crawling]
  /\ live \in [Store -> Seq(SUBSET Tech)]
  /\ aborts \in Nat

\* What any number of concurrent, failing crawls may not break:

\* Every event is owed to a usable page of its own: a name is added no more
\* often than pages showed it and removed no more often than pages lacked it.
\* A dead, blocked or failed page never makes a technology disappear.
EventsAreWitnessed ==
  \A s \in Store, n \in Tech :
    LET count(type) == Cardinality({i \in DOMAIN log[s][n] : log[s][n][i] = type})
        showing == {i \in DOMAIN live[s] : n \in live[s][i]}
    IN  /\ count("added") <= Cardinality(showing)
        /\ count("removed") <= Cardinality(DOMAIN live[s] \ showing)

RowExists(row) == row[3] \in DOMAIN log[row[1]][row[2]]

Unsent == UNION {crawl[w].pending : w \in {v \in Worker : ~At(v, "idle")}}

\* An event that subscribers hear of is in the log, at every moment.
OnlyRecordedEventsArePublished == \A row \in sent \cup Unsent : RowExists(row)

\* Only a crawl cut short between its insert and its publishes loses events:
\* without one, every row of the log is published or still being published,
\* and never by two crawls.
EventsAreAccountedFor ==
  /\ aborts = 0 =>
       \A s \in Store, n \in Tech : \A i \in DOMAIN log[s][n] :
         <<s, n, i>> \in sent \cup Unsent
  /\ \A v, w \in Worker : v # w /\ ~At(v, "idle") /\ ~At(w, "idle") =>
       crawl[v].pending \cap (crawl[w].pending \cup sent) = {}

\* rows has no more than k equal neighbours in a row.
RunsBounded(rows, k) ==
  \A i \in DOMAIN rows : i + k \in DOMAIN rows =>
    \E j \in i..(i + k - 1) : rows[j] # rows[j + 1]

\* The damage of crawls racing between read and insert is bounded: an event or
\* a metadata row is repeated at most once per worker.
RepeatsAreBounded ==
  \A s \in Store :
    /\ RunsBounded(metadata[s], Cardinality(Worker))
    /\ \A n \in Tech : RunsBounded(log[s][n], Cardinality(Worker))

\* What holds as long as no store is crawled twice at once (SerialSpec):

Alternates(events) ==
  /\ events # <<>> => events[1] = "added"
  /\ \A i \in 1..(Len(events) - 1) : events[i] # events[i + 1]

\* A name's events alternate and begin with "added".  Against Spec this is the
\* claim of docs/ARCHITECTURE.md:45-46, "idempotent, safe to run twice".
EventsAlternate == \A s \in Store, n \in Tech : Alternates(log[s][n])

\* A metadata row differs from the one before it.  Against Spec this is the
\* comment of modules/store/metadata-repository.ts:18-20, "the log only grows
\* when something actually changed".
MetadataGrowsOnChange ==
  \A s \in Store : \A i \in 1..(Len(metadata[s]) - 1) :
    metadata[s][i] # metadata[s][i + 1]

\* When a crawl has reconciled the log, the store's active technologies are
\* those of its page, and its latest metadata row is that page's.
ViewIsLastPage ==
  \A w \in Worker : At(w, "publishing") =>
    LET s == crawl[w].store IN
      /\ Active(s) = crawl[w].page.detected
      /\ Latest(metadata[s]) = MetadataOf(crawl[w].page)

History == INSTANCE StoreHistory WITH
  pages <- live,
  inUse <- [s \in Store |-> Active(s)],
  told <- sent

\* The tables and the published events are the history that following a store
\* promises: each crawl's reads and inserts, cut short or not, amount to one
\* change to the newest usable page, or to none.
ImplementsStoreHistory == History!Spec

=============================================================================
