------------------------------ MODULE JobQueue ------------------------------
(***************************************************************************)
(* One job queue of the backend: QueuePublisher, the durable RabbitMQ      *)
(* queue with its dead-letter queue, and the QueueConsumer of each worker  *)
(* process.  crawl.homepage.q and technology.events.q are two instances.   *)
(*                                                                         *)
(* A consumer takes up to Concurrency unsettled jobs and runs their        *)
(* handlers concurrently.  A job whose handler resolves is acked; one that *)
(* does not parse or whose handler rejects is nacked without requeue and   *)
(* goes to the dead-letter queue.  A worker process that dies with         *)
(* deliveries open gives them back to the queue.                           *)
(***************************************************************************)
EXTENDS Naturals, FiniteSets

CONSTANTS
  Job,          \* messages that may be published
  Consumer,     \* worker processes consuming the queue
  Concurrency,  \* HOMEPAGE_WORKER_CONCURRENCY, the prefetch of a consumer
  Malformed,    \* messages schema.parse rejects
  MaxCrashes    \* bound: worker crashes in a behaviour

ASSUME JobQueueAssumption ==
  /\ IsFiniteSet(Job)
  /\ Concurrency \in Nat \ {0}
  /\ Malformed \subseteq Job
  /\ MaxCrashes \in Nat

VARIABLES
  published,    \* jobs whose publish() has been confirmed
  ready,        \* jobs waiting in the queue
  task,         \* what each consumer has of each job
  acked,        \* jobs settled by ack
  dead,         \* jobs in the dead-letter queue
  completions,  \* how often a job's handler has run to its end
  crashes       \* worker crashes so far

vars == <<published, ready, task, acked, dead, completions, crashes>>

Outcome == {"none", "running", "succeeded", "failed"}

Unacked(c) == {j \in Job : task[c][j] # "none"}

TypeOK ==
  /\ published \in SUBSET Job
  /\ ready \in SUBSET Job
  /\ task \in [Consumer -> [Job -> Outcome]]
  /\ acked \in SUBSET Job
  /\ dead \in SUBSET Job
  /\ completions \in [Job -> Nat]
  /\ crashes \in Nat

Init ==
  /\ published = {}
  /\ ready = {}
  /\ task = [c \in Consumer |-> [j \in Job |-> "none"]]
  /\ acked = {}
  /\ dead = {}
  /\ completions = [j \in Job |-> 0]
  /\ crashes = 0

-----------------------------------------------------------------------------
(* QueuePublisher.publish: a persistent message in a durable queue.        *)

Publish(j) ==
  /\ j \notin published
  /\ published' = published \cup {j}
  /\ ready' = ready \cup {j}
  /\ UNCHANGED <<task, acked, dead, completions, crashes>>

-----------------------------------------------------------------------------
(* QueueConsumer.consume.                                                  *)

\* The broker delivers within the prefetch; a message that does not parse has
\* failed before its handler is called.
Deliver(c, j) ==
  /\ j \in ready
  /\ Cardinality(Unacked(c)) < Concurrency
  /\ ready' = ready \ {j}
  /\ task' = [task EXCEPT ![c][j] = IF j \in Malformed THEN "failed" ELSE "running"]
  /\ UNCHANGED <<published, acked, dead, completions, crashes>>

HandlerResolves(c, j) ==
  /\ task[c][j] = "running"
  /\ task' = [task EXCEPT ![c][j] = "succeeded"]
  /\ completions' = [completions EXCEPT ![j] = @ + 1]
  /\ UNCHANGED <<published, ready, acked, dead, crashes>>

HandlerRejects(c, j) ==
  /\ task[c][j] = "running"
  /\ task' = [task EXCEPT ![c][j] = "failed"]
  /\ UNCHANGED <<published, ready, acked, dead, completions, crashes>>

\* Faulty: a finished job is given back to the queue (nack with requeue).
AckRequeues(c, j) ==
  /\ task[c][j] = "succeeded"
  /\ task' = [task EXCEPT ![c][j] = "none"]
  /\ ready' = ready \cup {j}
  /\ UNCHANGED <<published, acked, dead, completions, crashes>>

\* Faulty: the job is acked while its handler is still running.
EarlyAck(c, j) ==
  /\ task[c][j] \in {"running", "succeeded"}
  /\ acked' = acked \cup {j}
  /\ UNCHANGED <<published, ready, task, dead, completions, crashes>>

Ack(c, j) ==
  /\ task[c][j] = "succeeded"
  /\ task' = [task EXCEPT ![c][j] = "none"]
  /\ acked' = acked \cup {j}
  /\ UNCHANGED <<published, ready, dead, completions, crashes>>

\* Faulty: nack(message, false, true), the failed job is tried again for ever.
NackRequeues(c, j) ==
  /\ task[c][j] = "failed"
  /\ task' = [task EXCEPT ![c][j] = "none"]
  /\ ready' = ready \cup {j}
  /\ UNCHANGED <<published, acked, dead, completions, crashes>>

\* nack(message, false, false): the broker dead-letters the message.
Nack(c, j) ==
  /\ task[c][j] = "failed"
  /\ task' = [task EXCEPT ![c][j] = "none"]
  /\ dead' = dead \cup {j}
  /\ UNCHANGED <<published, ready, acked, completions, crashes>>

-----------------------------------------------------------------------------
(* The worker process dies; the broker requeues what it had not settled,   *)
(* handlers that had finished included, and the restarted process consumes *)
(* again.                                                                  *)

\* Faulty: deliveries were acknowledged automatically and die with the worker.
AutoAckCrash(c) ==
  /\ crashes < MaxCrashes
  /\ crashes' = crashes + 1
  /\ task' = [task EXCEPT ![c] = [j \in Job |-> "none"]]
  /\ UNCHANGED <<published, ready, acked, dead, completions>>

Crash(c) ==
  /\ crashes < MaxCrashes
  /\ crashes' = crashes + 1
  /\ ready' = ready \cup Unacked(c)
  /\ task' = [task EXCEPT ![c] = [j \in Job |-> "none"]]
  /\ UNCHANGED <<published, acked, dead, completions>>

-----------------------------------------------------------------------------
Step(c, j) ==
  \/ Deliver(c, j)
  \/ HandlerResolves(c, j)
  \/ HandlerRejects(c, j)
  \/ Ack(c, j)
  \/ Nack(c, j)

Next ==
  \/ \E j \in Job : Publish(j)
  \/ \E c \in Consumer, j \in Job : Step(c, j)
  \/ \E c \in Consumer : Crash(c)

Safety == Init /\ [][Next]_vars

\* The broker keeps delivering while a consumer has room, every handler ends
\* (its requests have timeouts) and is settled.  Nothing makes a publisher
\* publish or a worker crash.
Fairness ==
  /\ WF_vars(\E c \in Consumer, j \in Job : Deliver(c, j))
  /\ \A c \in Consumer, j \in Job :
       /\ WF_vars(HandlerResolves(c, j) \/ HandlerRejects(c, j))
       /\ WF_vars(Ack(c, j) \/ Nack(c, j))

Spec == Safety /\ Fairness

-----------------------------------------------------------------------------
Held == {j \in Job : \E c \in Consumer : task[c][j] # "none"}

\* No published job is ever lost: it waits, is held by a worker, or is settled.
\* A crash of a worker in any state of its handlers must keep this.
NothingLost == published = ready \cup Held \cup acked \cup dead

\* A job is in one place at a time: never in two workers' hands, never waiting
\* or held once it is settled, never both done and dead.
OnePlace ==
  /\ \A j \in Job : \A c, d \in Consumer :
       task[c][j] # "none" /\ task[d][j] # "none" => c = d
  /\ ready \cap Held = {}
  /\ (ready \cup Held) \cap (acked \cup dead) = {}
  /\ acked \cap dead = {}

\* An ack means that the handler has run to its end at least once, and a
\* message that does not parse never reached its handler.
AckMeansCompleted ==
  /\ \A j \in acked : completions[j] > 0
  /\ \A j \in Malformed : completions[j] = 0

\* A handler's effects are repeated only by crashes: a job's handler completes
\* at most once more often than workers have crashed.
RepeatedOnlyByCrashes == \A j \in Job : completions[j] <= crashes + 1

\* A settled job stays settled: its handler is never run again and no later
\* step puts it back in the queue or changes its verdict.
SettledIsFinal ==
  [][\A j \in acked \cup dead :
       /\ completions'[j] = completions[j]
       /\ j \notin (ready \cup Held)'
       /\ j \in acked <=> j \in acked'
       /\ j \in dead <=> j \in dead']_vars

\* Every published job is eventually acked or dead-lettered, whatever its
\* handler does and although workers crash.
EveryJobSettles ==
  \A j \in Job : j \in published ~> j \in acked \cup dead

-----------------------------------------------------------------------------
StatusOf(j) ==
  IF j \in acked THEN "done"
  ELSE IF j \in dead THEN "dead"
  ELSE IF j \in published THEN "pending" ELSE "new"

Promise == INSTANCE AtLeastOnce WITH
  status <- [j \in Job |-> StatusOf(j)],
  runs <- completions

\* The queue implements the at-least-once delivery its users rely on.
ImplementsAtLeastOnce == Promise!Spec
=============================================================================
