--------------------------- MODULE CrawlPipeline ---------------------------
(***************************************************************************)
(* How stores come to be crawled: follows and imports add stores, sweeps   *)
(* of orchestrate-crawl publish a job for each store they find pending,    *)
(* and homepage workers take the jobs from crawl.homepage.q.               *)
(*                                                                         *)
(* A sweep is a process of its own, started by a schedule; nothing keeps   *)
(* it from starting while the jobs of the one before are still waiting.    *)
(* The queue is FIFO and otherwise JobQueue's; a crawl is its fetch and    *)
(* recorded attempt, and the rest of it, which StoreCrawl models.          *)
(*                                                                         *)
(* amqp-connection-manager connects again when a connection is lost.  The  *)
(* broker redelivers what was open on it, while the handlers go on: they   *)
(* are not cancelled, and settle with a tag the new channel never gave     *)
(* out, or gave to another delivery.                                       *)
(***************************************************************************)
EXTENDS Naturals, Sequences, FiniteSets

CONSTANTS
  Store,         \* stores there may be
  Malformed,     \* stores whose domain makes new URL() throw
  Orchestrator,  \* orchestrator processes that may run at once
  Worker,        \* handlers that may run at once in all homepage workers
                 \* together, those that have lost their delivery included
  BatchSize,     \* CRAWL_BATCH_SIZE
  MaxQueue,      \* bound: jobs waiting in the queue
  MaxExpiries,   \* bound: crawls that grow stale
  MaxFaults      \* bound: sweeps and crawls that fail, die or are cut off

ASSUME CrawlPipelineAssumption ==
  /\ IsFiniteSet(Store)
  /\ Malformed \subseteq Store
  /\ BatchSize \in Nat \ {0}
  /\ MaxQueue \in Nat
  /\ MaxExpiries \in Nat
  /\ MaxFaults \in Nat

VARIABLES
  latest,      \* age of each store's latest row in store_crawls
  batch,       \* stores each orchestrator has yet to publish
  queue,       \* crawl.homepage.q
  work,        \* what each worker is doing, and whether its delivery is open
  dead,        \* stores with a job in crawl.homepage.dlq
  overlapped,  \* history: stores a sweep found pending with a job still open
  resent,      \* history: stores with a job that was published twice
  expiries,    \* crawls grown stale so far
  faults       \* failures so far

vars == <<latest, batch, queue, work, dead, overlapped, resent, expiries, faults>>

\* "absent": the store has no row in stores; "never": it has no crawl yet.
Age == {"absent", "never", "stale", "fresh"}

Idle == [pc |-> "idle"]

Init ==
  /\ latest \in [Store -> {"absent", "never"}]
  /\ batch = [o \in Orchestrator |-> {}]
  /\ queue = <<>>
  /\ work = [w \in Worker |-> Idle]
  /\ dead = {}
  /\ overlapped = {}
  /\ resent = {}
  /\ expiries = 0
  /\ faults = 0

At(w, pc) == work[w].pc = pc

\* The broker waits for the worker to settle its delivery.
Holding(w) == ~At(w, "idle") /\ work[w].open

\* The places that hold a job of a store: sweeps, the queue, open deliveries.
OpenJobs(s) ==
  {<<"sweep", o>> : o \in {p \in Orchestrator : s \in batch[p]}}
    \cup {<<"queue", i>> : i \in {k \in DOMAIN queue : queue[k] = s}}
    \cup {<<"worker", w>> : w \in {v \in Worker : Holding(v) /\ work[v].store = s}}

-----------------------------------------------------------------------------
\* getOrCreateByDomain or upsertMany inserts a store.
AddStore(s) ==
  /\ latest[s] = "absent"
  /\ latest' = [latest EXCEPT ![s] = "never"]
  /\ UNCHANGED <<batch, queue, work, dead, overlapped, resent, expiries, faults>>

\* CRAWL_STALE_AFTER_MS has passed since the latest crawl.
Expire(s) ==
  /\ latest[s] = "fresh"
  /\ expiries < MaxExpiries
  /\ expiries' = expiries + 1
  /\ latest' = [latest EXCEPT ![s] = "stale"]
  /\ UNCHANGED <<batch, queue, work, dead, overlapped, resent, faults>>

-----------------------------------------------------------------------------
(* OrchestrateCrawlCommand.run.                                            *)

\* Faulty: the latest row of a store is not compared with its age.
AgelessPending == {s \in Store : latest[s] # "absent"}

\* Faulty: only stores that were crawled before have a row to join.
InnerJoinPending == {s \in Store : latest[s] = "stale"}

Pending == {s \in Store : latest[s] \in {"never", "stale"}}

\* getPendingForCrawl has a limit and no order: any of the pending stores.
StartSweep(o) ==
  /\ batch[o] = {}
  /\ \E found \in SUBSET Pending \ {{}} :
       /\ Cardinality(found) <= BatchSize
       /\ found = Pending \/ Cardinality(found) = BatchSize
       /\ batch' = [batch EXCEPT ![o] = found]
       /\ overlapped' = overlapped \cup {s \in found : OpenJobs(s) # {}}
  /\ UNCHANGED <<latest, queue, work, dead, resent, expiries, faults>>

\* One publish after the other, each confirmed by the broker.
Publish(o) ==
  /\ Len(queue) < MaxQueue
  /\ \E s \in batch[o] :
       /\ queue' = Append(queue, s)
       /\ batch' = [batch EXCEPT ![o] = @ \ {s}]
  /\ UNCHANGED <<latest, work, dead, overlapped, resent, expiries, faults>>

\* The connection is lost before the confirm of a job the broker already has:
\* amqp-connection-manager publishes it again on the next one.
Resend(o) ==
  /\ Len(queue) < MaxQueue
  /\ faults < MaxFaults
  /\ faults' = faults + 1
  /\ \E s \in batch[o] :
       /\ queue' = Append(queue, s)
       /\ resent' = resent \cup {s}
  /\ UNCHANGED <<latest, batch, work, dead, overlapped, expiries>>

\* The sweep dies, or a publish throws: the rest is left to the next sweep.
AbortSweep(o) ==
  /\ batch[o] # {}
  /\ faults < MaxFaults
  /\ faults' = faults + 1
  /\ batch' = [batch EXCEPT ![o] = {}]
  /\ UNCHANGED <<latest, queue, work, dead, overlapped, resent, expiries>>

-----------------------------------------------------------------------------
(* HomepageWorker.start and StoreCrawler.crawlHomepage.                    *)

Take(w) ==
  /\ At(w, "idle")
  /\ queue # <<>>
  /\ work' = [work EXCEPT ![w] = [pc |-> "fetch", store |-> Head(queue), open |-> TRUE]]
  /\ queue' = Tail(queue)
  /\ UNCHANGED <<latest, batch, dead, overlapped, resent, expiries, faults>>

\* The deliveries that an ack or a nack of the worker settles: its own.  On a
\* channel that did not deliver the job its tag is nobody's, or another's.
Reach(w) ==
  IF work[w].open THEN {{w}} ELSE {{}} \cup {{v} : v \in {u \in Worker : Holding(u)}}

End(w, settled) ==
  work' = [v \in Worker |-> CASE v = w -> Idle
                              [] v # w /\ v \in settled -> [work[v] EXCEPT !.open = FALSE]
                              [] OTHER -> work[v]]

\* The job is acked.
Ack(w) == \E settled \in Reach(w) : End(w, settled) /\ UNCHANGED dead

\* The job is nacked and goes to the dead-letter queue.
DeadLetter(w) ==
  \E settled \in Reach(w) :
    /\ End(w, settled)
    /\ dead' = dead \cup {work[v].store : v \in settled}

\* new URL() throws before an attempt is recorded.
RejectDomain(w) ==
  /\ At(w, "fetch")
  /\ work[w].store \in Malformed
  /\ DeadLetter(w)
  /\ UNCHANGED <<latest, batch, queue, overlapped, resent, expiries, faults>>

\* Whatever the fetch comes back with - a page, or null after a DNS look-up
\* that fails or takes too long, or a request that does - is recorded.
Record(w) ==
  /\ At(w, "fetch")
  /\ work[w].store \notin Malformed
  /\ latest' = [latest EXCEPT ![work[w].store] = "fresh"]
  /\ work' = [work EXCEPT ![w].pc = "diff"]
  /\ UNCHANGED <<batch, queue, dead, overlapped, resent, expiries, faults>>

Complete(w) ==
  /\ At(w, "diff")
  /\ Ack(w)
  /\ UNCHANGED <<latest, batch, queue, overlapped, resent, expiries, faults>>

\* Faulty: a failed job is published again and its delivery is left open.
RetryUnsettled(w) ==
  /\ ~At(w, "idle")
  /\ faults < MaxFaults
  /\ faults' = faults + 1
  /\ queue' = Append(queue, work[w].store)
  /\ UNCHANGED <<latest, batch, work, dead, overlapped, resent, expiries>>

\* A statement throws before or after the attempt is recorded.
Fail(w) ==
  /\ ~At(w, "idle")
  /\ faults < MaxFaults
  /\ faults' = faults + 1
  /\ DeadLetter(w)
  /\ UNCHANGED <<latest, batch, queue, overlapped, resent, expiries>>

\* The worker's connection is lost or its channel closed: the broker puts the
\* job back where it was, and the handler goes on.
Lose(w) ==
  /\ Holding(w)
  /\ faults < MaxFaults
  /\ faults' = faults + 1
  /\ queue' = <<work[w].store>> \o queue
  /\ work' = [work EXCEPT ![w].open = FALSE]
  /\ UNCHANGED <<latest, batch, dead, overlapped, resent, expiries>>

\* The worker dies, and the broker puts its job back where it was.
Die(w) ==
  /\ ~At(w, "idle")
  /\ faults < MaxFaults
  /\ faults' = faults + 1
  /\ queue' = IF Holding(w) THEN <<work[w].store>> \o queue ELSE queue
  /\ work' = [work EXCEPT ![w] = Idle]
  /\ UNCHANGED <<latest, batch, dead, overlapped, resent, expiries>>

-----------------------------------------------------------------------------
Crawl(w) == RejectDomain(w) \/ Record(w) \/ Complete(w)

Next ==
  \/ \E s \in Store : AddStore(s) \/ Expire(s)
  \/ \E o \in Orchestrator : StartSweep(o) \/ Publish(o) \/ Resend(o) \/ AbortSweep(o)
  \/ \E w \in Worker : Take(w) \/ Crawl(w) \/ Fail(w) \/ Lose(w) \/ Die(w)

Safety == Init /\ [][Next]_vars

\* The schedule starts a sweep again and again, a sweep publishes what it has
\* found, and a worker takes the next job and crawls it to the end.  A worker
\* that is cut off consumes again, by its library or because it is restarted.
Fairness ==
  /\ \A o \in Orchestrator : WF_vars(StartSweep(o)) /\ WF_vars(Publish(o))
  /\ WF_vars(\E w \in Worker : Take(w))
  /\ \A w \in Worker : WF_vars(Crawl(w))

Spec == Safety /\ Fairness

-----------------------------------------------------------------------------
TypeOK ==
  /\ latest \in [Store -> Age]
  /\ batch \in [Orchestrator -> SUBSET Store]
  /\ queue \in Seq(Store)
  /\ work \in [Worker -> {Idle} \cup [pc : {"fetch", "diff"}, store : Store, open : BOOLEAN]]
  /\ dead \in SUBSET Store
  /\ overlapped \in SUBSET Store
  /\ resent \in SUBSET Store
  /\ faults \in Nat

\* A store has two jobs only after a sweep found it pending with its last job
\* still open, or a publish was repeated.  Otherwise, whatever fails, dies or is
\* cut off, and whatever a late ack settles, the crawls of a store that run at
\* once have lost their delivery, all but one.
OneJobUnlessOverlapped ==
  \A s \in Store \ (overlapped \cup resent) : \A j, k \in OpenJobs(s) : j = k

Wanted(s) ==
  \/ \E o \in Orchestrator : s \in batch[o]
  \/ \E i \in DOMAIN queue : queue[i] = s
  \/ \E w \in Worker : At(w, "fetch") /\ work[w].store = s

\* What a sweep read is still true when its job is run: a store is not fetched
\* again within the time its last crawl is good for, except after overlapping
\* sweeps, or a job that was redelivered or published twice.
JobsAreNeeded ==
  faults = 0 => \A s \in Store \ overlapped : Wanted(s) => latest[s] # "fresh"

\* Stores whose jobs can only be dead-lettered.
Poison == {s \in Malformed : latest[s] # "absent"}

\* modules/store/repository.ts:47-49: a new store "just has no crawl history
\* until the next orchestrator sweep picks it up".  It is crawled in the end
\* although sweeps and crawls fail, unless domains that are no host names fill
\* a batch: they never get a row in store_crawls, so they stay pending, and
\* without an order every sweep may find only them.
StoresAreCrawled ==
  \A s \in Store \ Malformed :
    latest[s] = "never" ~> latest[s] = "fresh" \/ Cardinality(Poison) >= BatchSize
=============================================================================
