------------------------ MODULE CrawlPipeline_proofs ------------------------
(***************************************************************************)
(* When a store is crawled twice, for any stores, orchestrators and        *)
(* workers.                                                                *)
(*                                                                         *)
(* A job is in one of three kinds of places; the invariant says of a store *)
(* no sweep overlapped, and no publish was repeated for, that one place of *)
(* one kind holds it.  Moving a job keeps that, losing or settling a       *)
(* delivery keeps it, and a sweep adds a job only where there is none.     *)
(***************************************************************************)
EXTENDS CrawlPipeline, TLAPS

Swept(s, o) == s \in batch[o]
Queued(s, i) == queue[i] = s
Held(s, w) == Holding(w) /\ work[w].store = s

\* At most one place holds a job of the store.
Single(s) ==
  /\ \A o, p \in Orchestrator : Swept(s, o) /\ Swept(s, p) => o = p
  /\ \A i, j \in DOMAIN queue : Queued(s, i) /\ Queued(s, j) => i = j
  /\ \A v, w \in Worker : Held(s, v) /\ Held(s, w) => v = w
  /\ \A o \in Orchestrator, i \in DOMAIN queue : ~(Swept(s, o) /\ Queued(s, i))
  /\ \A o \in Orchestrator, w \in Worker : ~(Swept(s, o) /\ Held(s, w))
  /\ \A i \in DOMAIN queue, w \in Worker : ~(Queued(s, i) /\ Held(s, w))

\* No place does.
Unheld(s) ==
  /\ \A o \in Orchestrator : ~Swept(s, o)
  /\ \A i \in DOMAIN queue : ~Queued(s, i)
  /\ \A w \in Worker : ~Held(s, w)

SingleJobs == \A s \in Store \ (overlapped \cup resent) : Single(s)
PipelineInv == TypeOK /\ SingleJobs

LEMMA OpenJobsAreHeld ==
  ASSUME NEW s \in Store
  PROVE  /\ OpenJobs(s) = {} => Unheld(s)
         /\ Single(s) => \A j, k \in OpenJobs(s) : j = k
<1>1. ASSUME OpenJobs(s) = {} PROVE Unheld(s)
  <2>1. ASSUME NEW o \in Orchestrator, Swept(s, o) PROVE FALSE
    <3>1. <<"sweep", o>> \in OpenJobs(s)
      BY <2>1 DEF OpenJobs, Swept
    <3> QED
      BY <1>1, <3>1
  <2>2. ASSUME NEW i \in DOMAIN queue, Queued(s, i) PROVE FALSE
    <3>1. <<"queue", i>> \in OpenJobs(s)
      BY <2>2 DEF OpenJobs, Queued
    <3> QED
      BY <1>1, <3>1
  <2>3. ASSUME NEW w \in Worker, Held(s, w) PROVE FALSE
    <3>1. <<"worker", w>> \in OpenJobs(s)
      BY <2>3 DEF OpenJobs, Held
    <3> QED
      BY <1>1, <3>1
  <2> QED
    BY <2>1, <2>2, <2>3 DEF Unheld
<1>2. ASSUME Single(s), NEW j \in OpenJobs(s), NEW k \in OpenJobs(s) PROVE j = k
  <2>1. ASSUME NEW x \in OpenJobs(s)
        PROVE  \/ \E o \in Orchestrator : Swept(s, o) /\ x = <<"sweep", o>>
               \/ \E i \in DOMAIN queue : Queued(s, i) /\ x = <<"queue", i>>
               \/ \E w \in Worker : Held(s, w) /\ x = <<"worker", w>>
    BY DEF OpenJobs, Swept, Queued, Held
  <2>2. CASE \E o \in Orchestrator : Swept(s, o) /\ j = <<"sweep", o>>
    BY <1>2, <2>1, <2>2 DEF Single
  <2>3. CASE \E i \in DOMAIN queue : Queued(s, i) /\ j = <<"queue", i>>
    BY <1>2, <2>1, <2>3 DEF Single
  <2>4. CASE \E w \in Worker : Held(s, w) /\ j = <<"worker", w>>
    BY <1>2, <2>1, <2>4 DEF Single
  <2> QED
    BY <2>1, <2>2, <2>3, <2>4
<1> QED
  BY <1>1, <1>2

\* Putting a store in front of the queue moves the others one place back.
LEMMA Prepended ==
  ASSUME NEW q \in Seq(Store), NEW s \in Store
  PROVE  /\ <<s>> \o q \in Seq(Store) /\ DOMAIN (<<s>> \o q) = 1 .. Len(q) + 1
         /\ (<<s>> \o q)[1] = s
         /\ \A i \in 1 .. Len(q) + 1 : i # 1 => i - 1 \in DOMAIN q /\ (<<s>> \o q)[i] = q[i - 1]
OBVIOUS

LEMMA Taken ==
  ASSUME NEW q \in Seq(Store), q # <<>>
  PROVE  /\ Head(q) \in Store /\ Tail(q) \in Seq(Store) /\ 1 \in DOMAIN q /\ Head(q) = q[1]
         /\ \A i \in DOMAIN Tail(q) : i \in Nat /\ i + 1 \in DOMAIN q /\ i + 1 # 1 /\ Tail(q)[i] = q[i + 1]
OBVIOUS

-----------------------------------------------------------------------------
(* Types. *)

LEMMA BusyWorkers ==
  ASSUME TypeOK, NEW w \in Worker, ~At(w, "idle")
  PROVE  /\ work[w] \in [pc : {"fetch", "diff"}, store : Store, open : BOOLEAN]
         /\ work[w].store \in Store
BY DEF TypeOK, At, Idle

\* An ack or a nack ends the handler, and at most closes deliveries.
LEMMA Settling ==
  ASSUME TypeOK, NEW w \in Worker, ~At(w, "idle"), Ack(w) \/ DeadLetter(w)
  PROVE  /\ work' \in [Worker -> {Idle} \cup [pc : {"fetch", "diff"}, store : Store, open : BOOLEAN]]
         /\ dead' \in SUBSET Store
         /\ At(w, "idle")'
         /\ \A v \in Worker : ~At(v, "idle")' =>
              /\ ~At(v, "idle")
              /\ work'[v].pc = work[v].pc
              /\ work'[v].store = work[v].store
              /\ work'[v].open => work[v].open
<1>1. PICK settled \in Reach(w) :
        End(w, settled) /\ (dead' = dead \/ dead' = dead \cup {work[v].store : v \in settled})
  BY DEF Ack, DeadLetter
<1>2. \A v \in settled : v \in Worker /\ ~At(v, "idle")
  BY <1>1 DEF Reach, Holding
<1>3. dead' \in SUBSET Store
  BY <1>1, <1>2, BusyWorkers DEF TypeOK
<1>4. work' = [v \in Worker |-> CASE v = w -> Idle
                                 [] v # w /\ v \in settled -> [work[v] EXCEPT !.open = FALSE]
                                 [] OTHER -> work[v]]
  BY <1>1 DEF End
<1>5. ASSUME NEW v \in Worker
      PROVE  /\ work'[v] \in {Idle} \cup [pc : {"fetch", "diff"}, store : Store, open : BOOLEAN]
             /\ v = w => At(v, "idle")'
             /\ ~At(v, "idle")' =>
                  /\ ~At(v, "idle")
                  /\ work'[v].pc = work[v].pc
                  /\ work'[v].store = work[v].store
                  /\ work'[v].open => work[v].open
  <2>1. CASE v = w
    BY <1>4, <2>1 DEF At, Idle
  <2>2. CASE v # w /\ v \in settled
    <3>1. work'[v] = [work[v] EXCEPT !.open = FALSE]
      BY <1>4, <2>2
    <3>2. work[v] \in [pc : {"fetch", "diff"}, store : Store, open : BOOLEAN] /\ ~At(v, "idle")
      BY <1>2, <2>2, BusyWorkers
    <3> QED
      BY <2>2, <3>1, <3>2
  <2>3. CASE v # w /\ v \notin settled
    <3>1. work'[v] = work[v]
      BY <1>4, <2>3
    <3> QED
      BY <2>3, <3>1 DEF TypeOK, At
  <2> QED
    BY <2>1, <2>2, <2>3
<1>6. work' = [v \in Worker |-> work'[v]]
  BY <1>4
<1> QED
  BY <1>3, <1>5, <1>6

LEMMA PipelineTypes == TypeOK /\ [Next]_vars => TypeOK'
<1> SUFFICES ASSUME TypeOK, [Next]_vars PROVE TypeOK'
  OBVIOUS
<1> USE DEF TypeOK
<1>1. CASE UNCHANGED vars
  BY <1>1 DEF vars
<1>2. ASSUME NEW s \in Store, AddStore(s) \/ Expire(s) PROVE TypeOK'
  BY <1>2 DEF AddStore, Expire, Age
<1>3. ASSUME NEW o \in Orchestrator, StartSweep(o) PROVE TypeOK'
  <2>1. PICK found \in SUBSET Pending \ {{}} :
          /\ batch' = [batch EXCEPT ![o] = found]
          /\ overlapped' = overlapped \cup {s \in found : OpenJobs(s) # {}}
    BY <1>3 DEF StartSweep
  <2>2. found \subseteq Store
    BY DEF Pending
  <2> QED
    BY <1>3, <2>1, <2>2 DEF StartSweep
<1>4. ASSUME NEW o \in Orchestrator, Publish(o) PROVE TypeOK'
  BY <1>4 DEF Publish
<1>5. ASSUME NEW o \in Orchestrator, AbortSweep(o) PROVE TypeOK'
  BY <1>5 DEF AbortSweep
<1>12. ASSUME NEW o \in Orchestrator, Resend(o) PROVE TypeOK'
  BY <1>12 DEF Resend
<1>6. ASSUME NEW w \in Worker, Take(w) PROVE TypeOK'
  <2>1. Head(queue) \in Store /\ Tail(queue) \in Seq(Store)
    BY <1>6, Taken DEF Take
  <2> QED
    BY <1>6, <2>1 DEF Take
<1>7. ASSUME NEW w \in Worker, RejectDomain(w) \/ Complete(w) PROVE TypeOK'
  <2>1. ~At(w, "idle") /\ (Ack(w) \/ DeadLetter(w))
    BY <1>7 DEF RejectDomain, Complete, At
  <2> QED
    BY <1>7, <2>1, Settling DEF RejectDomain, Complete
<1>8. ASSUME NEW w \in Worker, Record(w) PROVE TypeOK'
  BY <1>8, BusyWorkers DEF Record, At, Age, Idle
<1>9. ASSUME NEW w \in Worker, Fail(w) PROVE TypeOK'
  BY <1>9, Settling DEF Fail
<1>10. ASSUME NEW w \in Worker, Lose(w) PROVE TypeOK'
  <2>1. work[w] \in [pc : {"fetch", "diff"}, store : Store, open : BOOLEAN] /\ work[w].store \in Store
    BY <1>10, BusyWorkers DEF Lose, Holding
  <2>2. work' \in [Worker -> {Idle} \cup [pc : {"fetch", "diff"}, store : Store, open : BOOLEAN]]
    BY <1>10, <2>1 DEF Lose
  <2>3. queue' \in Seq(Store)
    BY <1>10, <2>1, Prepended DEF Lose
  <2> QED
    BY <1>10, <2>2, <2>3 DEF Lose
<1>11. ASSUME NEW w \in Worker, Die(w) PROVE TypeOK'
  BY <1>11, BusyWorkers, Prepended DEF Die
<1> QED
  BY <1>1, <1>2, <1>3, <1>4, <1>5, <1>12, <1>6, <1>7, <1>8, <1>9, <1>10, <1>11 DEF Next, Crawl

\* The queue, the sweeps and the workers hold stores
\* (OrchestrateCrawlCommand, HomepageWorker).
THEOREM TypeCorrect == Spec => []TypeOK
<1>1. Init => TypeOK
  BY DEF Init, TypeOK, Age
<1> QED
  BY <1>1, PipelineTypes, PTL DEF Spec, Safety

-----------------------------------------------------------------------------
(* One job. *)

\* Jobs that stay where they are, or go, leave at most one.
LEMMA FewerJobs ==
  ASSUME NEW s, Single(s),
         \A o \in Orchestrator : Swept(s, o)' => Swept(s, o),
         queue' = queue,
         \A w \in Worker : Held(s, w)' => Held(s, w)
  PROVE  Single(s)'
BY DEF Single, Queued

LEMMA StartSweepJobs ==
  ASSUME PipelineInv, NEW o \in Orchestrator, StartSweep(o)
  PROVE  SingleJobs'
<1>1. PICK found \in SUBSET Pending \ {{}} :
        /\ batch' = [batch EXCEPT ![o] = found]
        /\ overlapped' = overlapped \cup {s \in found : OpenJobs(s) # {}}
  BY DEF StartSweep
<1>2. batch[o] = {} /\ UNCHANGED <<queue, work, resent>>
  BY DEF StartSweep
<1> SUFFICES ASSUME NEW s \in Store, s \notin overlapped' \cup resent PROVE Single(s)'
  BY <1>2 DEF SingleJobs
<1>3. Single(s)
  BY <1>1 DEF PipelineInv, SingleJobs
<1>4. \A p \in Orchestrator : Swept(s, p)' <=> IF p = o THEN s \in found ELSE Swept(s, p)
  BY <1>1 DEF PipelineInv, TypeOK, Swept
<1>5. \A w \in Worker : Held(s, w)' <=> Held(s, w)
  BY <1>2 DEF Held, Holding, At
<1>6. CASE s \in found
  <2>1. Unheld(s)
    BY <1>1, <1>6, OpenJobsAreHeld
  <2> QED
    BY <1>2, <1>4, <1>5, <1>6, <2>1 DEF Single, Unheld, Queued
<1>7. CASE s \notin found
  BY <1>2, <1>3, <1>4, <1>5, <1>7, FewerJobs
<1> QED
  BY <1>6, <1>7

LEMMA PublishJobs ==
  ASSUME PipelineInv, NEW o \in Orchestrator, Publish(o)
  PROVE  SingleJobs'
<1>1. PICK t \in batch[o] : queue' = Append(queue, t) /\ batch' = [batch EXCEPT ![o] = batch[o] \ {t}]
  BY DEF Publish
<1>2. UNCHANGED <<work, overlapped, resent>> /\ queue \in Seq(Store) /\ t \in Store
  BY DEF Publish, PipelineInv, TypeOK
<1> SUFFICES ASSUME NEW s \in Store \ (overlapped \cup resent) PROVE Single(s)'
  BY <1>2 DEF SingleJobs
<1>3. Single(s)
  BY DEF PipelineInv, SingleJobs
<1>4. \A p \in Orchestrator : Swept(s, p)' <=> Swept(s, p) /\ ~(p = o /\ s = t)
  BY <1>1 DEF PipelineInv, TypeOK, Swept
<1>5. \A w \in Worker : Held(s, w)' <=> Held(s, w)
  BY <1>2 DEF Held, Holding, At
<1>6. \A i \in DOMAIN queue' : (i = Len(queue) + 1 /\ queue'[i] = t)
                               \/ (i \in DOMAIN queue /\ queue'[i] = queue[i])
  BY <1>1, <1>2
<1>7. CASE s = t
  <2>1. Swept(s, o)
    BY <1>1, <1>7 DEF Swept
  <2>2. /\ \A p \in Orchestrator : ~Swept(s, p)'
        /\ \A i \in DOMAIN queue : ~Queued(s, i)
        /\ \A w \in Worker : ~Held(s, w)'
    BY <1>3, <1>4, <1>5, <1>7, <2>1 DEF Single
  <2>3. \A i \in DOMAIN queue' : Queued(s, i)' => i = Len(queue) + 1
    BY <1>6, <2>2 DEF Queued
  <2> QED
    BY <2>2, <2>3 DEF Single
<1>8. CASE s # t
  <2>1. \A i \in DOMAIN queue' : Queued(s, i)' => i \in DOMAIN queue /\ Queued(s, i)
    BY <1>6, <1>8 DEF Queued
  <2> QED
    BY <1>3, <1>4, <1>5, <2>1 DEF Single
<1> QED
  BY <1>7, <1>8

LEMMA TakeJobs ==
  ASSUME PipelineInv, NEW w \in Worker, Take(w)
  PROVE  SingleJobs'
<1>1. /\ At(w, "idle") /\ queue # <<>> /\ queue \in Seq(Store) /\ queue' = Tail(queue)
      /\ work' = [work EXCEPT ![w] = [pc |-> "fetch", store |-> Head(queue), open |-> TRUE]]
      /\ UNCHANGED <<batch, overlapped, resent>>
  BY DEF Take, PipelineInv, TypeOK
<1>2. /\ 1 \in DOMAIN queue /\ Head(queue) = queue[1]
      /\ \A i \in DOMAIN queue' : i \in Nat /\ i + 1 \in DOMAIN queue /\ i + 1 # 1 /\ queue'[i] = queue[i + 1]
  BY <1>1, Taken
<1> SUFFICES ASSUME NEW s \in Store \ (overlapped \cup resent) PROVE Single(s)'
  BY <1>1 DEF SingleJobs
<1>3. Single(s)
  BY DEF PipelineInv, SingleJobs
<1>4. \A o \in Orchestrator : Swept(s, o)' <=> Swept(s, o)
  BY <1>1 DEF Swept
<1>5. ASSUME NEW v \in Worker PROVE Held(s, v)' <=> IF v = w THEN s = queue[1] ELSE Held(s, v)
  <2>1. work'[v] = IF v = w THEN [pc |-> "fetch", store |-> queue[1], open |-> TRUE] ELSE work[v]
    BY <1>1, <1>2 DEF PipelineInv, TypeOK
  <2> QED
    BY <2>1 DEF Held, Holding, At
<1>6. \A i \in DOMAIN queue' : Queued(s, i)' => Queued(s, i + 1)
  BY <1>2 DEF Queued
<1>7. CASE s = queue[1]
  <2>1. Queued(s, 1)
    BY <1>7 DEF Queued
  <2>2. /\ \A i \in DOMAIN queue' : ~Queued(s, i)'
        /\ \A o \in Orchestrator : ~Swept(s, o)'
        /\ \A v \in Worker : Held(s, v)' => v = w
    BY <1>2, <1>3, <1>4, <1>5, <1>6, <2>1 DEF Single
  <2> QED
    BY <2>2 DEF Single
<1>8. CASE s # queue[1]
  <2>1. ~Held(s, w)'
    BY <1>5, <1>8
  <2>2. \A v \in Worker : Held(s, v)' => Held(s, v)
    BY <1>5, <2>1
  <2>3. ASSUME NEW i \in DOMAIN queue', NEW j \in DOMAIN queue', Queued(s, i)', Queued(s, j)' PROVE i = j
    <3>1. i + 1 = j + 1
      BY <1>2, <1>3, <1>6, <2>3 DEF Single
    <3> QED
      BY <1>2, <3>1
  <2> QED
    BY <1>2, <1>3, <1>4, <1>6, <2>2, <2>3 DEF Single
<1> QED
  BY <1>7, <1>8

\* A job published again exempts its store.
LEMMA ResendJobs ==
  ASSUME PipelineInv, NEW o \in Orchestrator, Resend(o)
  PROVE  SingleJobs'
<1>1. PICK t \in batch[o] : queue' = Append(queue, t) /\ resent' = resent \cup {t}
  BY DEF Resend
<1>2. UNCHANGED <<batch, work, overlapped>> /\ queue \in Seq(Store) /\ t \in Store
  BY DEF Resend, PipelineInv, TypeOK
<1> SUFFICES ASSUME NEW s \in Store \ (overlapped \cup resent), s # t PROVE Single(s)'
  BY <1>1, <1>2 DEF SingleJobs
<1>3. Single(s)
  BY DEF PipelineInv, SingleJobs
<1>4. \A i \in DOMAIN queue' : Queued(s, i)' => i \in DOMAIN queue /\ Queued(s, i)
  BY <1>1, <1>2 DEF Queued
<1>5. /\ \A p \in Orchestrator : Swept(s, p)' <=> Swept(s, p)
      /\ \A w \in Worker : Held(s, w)' <=> Held(s, w)
  BY <1>2 DEF Swept, Held, Holding, At
<1> QED
  BY <1>3, <1>4, <1>5 DEF Single

\* A job given back to the queue by the only worker the broker waits for.
LEMMA GivenBack ==
  ASSUME PipelineInv, NEW w \in Worker, Lose(w) \/ (Die(w) /\ Holding(w))
  PROVE  SingleJobs'
<1>1. PICK t \in Store : t = work[w].store
  BY BusyWorkers DEF Lose, Holding, PipelineInv
<1>2. /\ Holding(w) /\ queue \in Seq(Store) /\ queue' = <<t>> \o queue
      /\ work' = [work EXCEPT ![w] = Idle] \/ work' = [work EXCEPT ![w].open = FALSE]
      /\ UNCHANGED <<batch, overlapped, resent>>
  BY <1>1 DEF Lose, Die, PipelineInv, TypeOK
<1>3. /\ DOMAIN queue' = 1 .. Len(queue) + 1 /\ queue'[1] = t /\ Len(queue) \in Nat
      /\ \A i \in DOMAIN queue' : i # 1 => i - 1 \in DOMAIN queue /\ queue'[i] = queue[i - 1]
  BY <1>2, Prepended
<1> SUFFICES ASSUME NEW s \in Store \ (overlapped \cup resent) PROVE Single(s)'
  BY <1>2 DEF SingleJobs
<1>4. Single(s)
  BY DEF PipelineInv, SingleJobs
<1>5. \A o \in Orchestrator : Swept(s, o)' <=> Swept(s, o)
  BY <1>2 DEF Swept
<1>6. \A v \in Worker : Held(s, v)' => v # w /\ Held(s, v)
  <2>1. ~Holding(w)'
    <3>1. work[w] \in [pc : {"fetch", "diff"}, store : Store, open : BOOLEAN]
      BY <1>2, BusyWorkers DEF Holding, PipelineInv
    <3> QED
      BY <1>2, <3>1 DEF PipelineInv, TypeOK, Holding, At, Idle
  <2>2. \A v \in Worker : v # w => work'[v] = work[v]
    BY <1>2 DEF PipelineInv, TypeOK
  <2> QED
    BY <2>1, <2>2 DEF Held, Holding, At
<1>7. CASE s = t
  <2>1. Held(s, w)
    BY <1>1, <1>2, <1>7 DEF Held
  <2>2. /\ \A o \in Orchestrator : ~Swept(s, o)'
        /\ \A v \in Worker : ~Held(s, v)'
        /\ \A i \in DOMAIN queue : ~Queued(s, i)
    BY <1>4, <1>5, <1>6, <2>1 DEF Single
  <2>3. \A i \in DOMAIN queue' : Queued(s, i)' => i = 1
    BY <1>3, <2>2 DEF Queued
  <2> QED
    BY <2>2, <2>3 DEF Single
<1>8. CASE s # t
  <2>1. \A i \in DOMAIN queue' : Queued(s, i)' => i - 1 \in DOMAIN queue /\ Queued(s, i - 1)
    BY <1>3, <1>8 DEF Queued
  <2>2. ASSUME NEW i \in DOMAIN queue', NEW j \in DOMAIN queue', Queued(s, i)', Queued(s, j)' PROVE i = j
    <3>1. i - 1 = j - 1
      BY <1>4, <2>1, <2>2 DEF Single
    <3>2. i \in Nat /\ j \in Nat
      BY <1>3
    <3> QED
      BY <3>1, <3>2
  <2> QED
    BY <1>4, <1>5, <1>6, <2>1, <2>2 DEF Single
<1> QED
  BY <1>7, <1>8

LEMMA SingleStep == PipelineInv /\ [Next]_vars => PipelineInv'
<1> SUFFICES ASSUME PipelineInv, [Next]_vars PROVE PipelineInv'
  OBVIOUS
<1>0. TypeOK /\ TypeOK'
  BY PipelineTypes DEF PipelineInv
<1>1. ASSUME queue' = queue, overlapped' = overlapped, resent' = resent,
             \A s \in Store, o \in Orchestrator : Swept(s, o)' => Swept(s, o),
             \A s \in Store, w \in Worker : Held(s, w)' => Held(s, w)
      PROVE  SingleJobs'
  BY <1>1, FewerJobs DEF PipelineInv, SingleJobs
<1>2. ASSUME UNCHANGED vars PROVE SingleJobs'
  <2>1. UNCHANGED <<queue, overlapped, resent, batch, work>>
    BY <1>2 DEF vars
  <2>2. /\ \A s \in Store, o \in Orchestrator : Swept(s, o)' => Swept(s, o)
        /\ \A s \in Store, w \in Worker : Held(s, w)' => Held(s, w)
    BY <2>1 DEF Swept, Held, Holding, At
  <2> QED
    BY <1>1, <2>1, <2>2 DEF Swept, Held, Holding, At
<1>3. ASSUME NEW s \in Store, AddStore(s) \/ Expire(s) PROVE SingleJobs'
  BY <1>1, <1>3 DEF AddStore, Expire, Swept, Held, Holding, At
<1>4. ASSUME NEW o \in Orchestrator, AbortSweep(o) PROVE SingleJobs'
  BY <1>0, <1>1, <1>4 DEF AbortSweep, Swept, Held, Holding, At, TypeOK
<1>5. ASSUME NEW w \in Worker, RejectDomain(w) \/ Complete(w) \/ Fail(w) PROVE SingleJobs'
  <2>1. ~At(w, "idle") /\ (Ack(w) \/ DeadLetter(w)) /\ UNCHANGED <<queue, overlapped, resent, batch>>
    BY <1>5 DEF RejectDomain, Complete, Fail, At
  <2>2. \A s \in Store, v \in Worker : Held(s, v)' => Held(s, v)
    BY <1>0, <2>1, Settling DEF Held, Holding
  <2> QED
    BY <1>1, <2>1, <2>2 DEF Swept
<1>6. ASSUME NEW w \in Worker, Die(w), ~Holding(w) PROVE SingleJobs'
  <2>1. \A s \in Store, v \in Worker : Held(s, v)' => Held(s, v)
    BY <1>0, <1>6 DEF Die, Held, Holding, At, Idle, TypeOK
  <2> QED
    BY <1>1, <1>6, <2>1 DEF Die, Swept
<1>7. ASSUME NEW w \in Worker, Record(w) PROVE SingleJobs'
  <2>1. ~At(w, "idle")
    BY <1>7 DEF Record, At
  <2>2. work[w] \in [pc : {"fetch", "diff"}, store : Store, open : BOOLEAN]
    BY <1>0, <2>1, BusyWorkers
  <2>3. \A s \in Store, v \in Worker : Held(s, v)' => Held(s, v)
    BY <1>0, <1>7, <2>1, <2>2 DEF Record, Held, Holding, At, TypeOK
  <2> QED
    BY <1>1, <1>7, <2>3 DEF Record, Swept
<1>8. ASSUME NEW o \in Orchestrator, StartSweep(o) \/ Publish(o) \/ Resend(o) \/ AbortSweep(o)
      PROVE  SingleJobs'
  BY <1>4, <1>8, StartSweepJobs, PublishJobs, ResendJobs
<1>9. ASSUME NEW w \in Worker, Take(w) \/ Crawl(w) \/ Fail(w) \/ Lose(w) \/ Die(w) PROVE SingleJobs'
  BY <1>5, <1>6, <1>7, <1>9, TakeJobs, GivenBack DEF Crawl
<1>10. SingleJobs'
  BY <1>2, <1>3, <1>8, <1>9 DEF Next
<1> QED
  BY <1>0, <1>10 DEF PipelineInv

LEMMA SingleInvariance == Spec => []PipelineInv
<1>1. Init => PipelineInv
  <2> SUFFICES ASSUME Init PROVE PipelineInv
    OBVIOUS
  <2>1. TypeOK
    BY DEF Init, TypeOK, Age
  <2>2. \A s \in Store : Single(s)
    BY DEF Init, Single, Swept, Queued, Held, Holding, At, Idle
  <2> QED
    BY <2>1, <2>2 DEF PipelineInv, SingleJobs
<1> QED
  BY <1>1, SingleStep, PTL DEF Spec, Safety

\* However sweeps, crawls, failures, deaths, lost connections and late acks fall
\* together, a store has two jobs only after a sweep found it pending with its
\* last job still open, or a publish was repeated: of the crawls of any other
\* store that run at once, all but one have lost their delivery
\* (orchestrate-crawl.ts, getPendingForCrawl, QueueConsumer.consume).
THEOREM OneJobAtATime == Spec => []OneJobUnlessOverlapped
<1>1. PipelineInv => OneJobUnlessOverlapped
  BY OpenJobsAreHeld DEF PipelineInv, SingleJobs, OneJobUnlessOverlapped
<1> QED
  BY <1>1, SingleInvariance, PTL

-----------------------------------------------------------------------------
(* Jobs that are needed. *)

\* Without a fault every handler has its delivery, and nothing was resent.
FaultlessDeliveries ==
  faults = 0 => resent = {} /\ \A w \in Worker : ~At(w, "idle") => Holding(w)

\* A store of a job that is to be fetched, with its crawl not fresh.
NeededInv == PipelineInv /\ JobsAreNeeded /\ FaultlessDeliveries

\* A step without a fault that wants no more stores, and makes none fresh.
LEMMA WantedKept ==
  ASSUME JobsAreNeeded, faults' = 0 => faults = 0, overlapped \subseteq overlapped',
         \A s \in Store \ overlapped' :
           Wanted(s)' => Wanted(s) /\ (latest'[s] = "fresh" => latest[s] = "fresh")
  PROVE  JobsAreNeeded'
BY DEF JobsAreNeeded

LEMMA FaultlessStep == TypeOK /\ FaultlessDeliveries /\ [Next]_vars => FaultlessDeliveries'
<1> SUFFICES ASSUME TypeOK, FaultlessDeliveries, [Next]_vars PROVE FaultlessDeliveries'
  OBVIOUS
<1>1. CASE UNCHANGED vars
  BY <1>1 DEF vars, FaultlessDeliveries, Holding, At
<1>2. ASSUME NEW s \in Store, AddStore(s) \/ Expire(s) PROVE FaultlessDeliveries'
  BY <1>2 DEF AddStore, Expire, FaultlessDeliveries, Holding, At
<1>3. ASSUME faults' = faults + 1 PROVE FaultlessDeliveries'
  BY <1>3 DEF TypeOK, FaultlessDeliveries
<1>4. ASSUME NEW o \in Orchestrator, StartSweep(o) \/ Publish(o) \/ Resend(o) \/ AbortSweep(o)
      PROVE  FaultlessDeliveries'
  BY <1>3, <1>4 DEF StartSweep, Publish, Resend, AbortSweep, FaultlessDeliveries, Holding, At
<1>5. ASSUME NEW w \in Worker, Take(w) PROVE FaultlessDeliveries'
  BY <1>5 DEF Take, TypeOK, FaultlessDeliveries, Holding, At
<1>6. ASSUME NEW w \in Worker, RejectDomain(w) \/ Complete(w) PROVE FaultlessDeliveries'
  <2> SUFFICES ASSUME faults = 0 PROVE resent' = {} /\ \A v \in Worker : ~At(v, "idle")' => Holding(v)'
    BY <1>6 DEF RejectDomain, Complete, FaultlessDeliveries
  <2>1. Holding(w) /\ UNCHANGED resent /\ (Ack(w) \/ DeadLetter(w))
    BY <1>6 DEF RejectDomain, Complete, FaultlessDeliveries, At
  <2>2. Reach(w) = {{w}} /\ End(w, {w})
    BY <2>1 DEF Reach, Holding, Ack, DeadLetter
  <2>3. \A v \in Worker : work'[v] = IF v = w THEN Idle ELSE work[v]
    BY <2>2 DEF End
  <2> QED
    BY <2>1, <2>3 DEF FaultlessDeliveries, Holding, At, Idle
<1>7. ASSUME NEW w \in Worker, Record(w) PROVE FaultlessDeliveries'
  <2>1. work[w] \in [pc : {"fetch", "diff"}, store : Store, open : BOOLEAN] /\ ~At(w, "idle")
    <3>1. ~At(w, "idle")
      BY <1>7 DEF Record, At
    <3> QED
      BY <3>1, BusyWorkers
  <2>2. \A v \in Worker : work'[v].open = work[v].open /\ (At(v, "idle")' <=> At(v, "idle"))
    BY <1>7, <2>1 DEF Record, TypeOK, At
  <2> QED
    BY <1>7, <2>2 DEF Record, FaultlessDeliveries, Holding
<1>8. ASSUME NEW w \in Worker, Take(w) \/ Crawl(w) \/ Fail(w) \/ Lose(w) \/ Die(w) PROVE FaultlessDeliveries'
  BY <1>3, <1>5, <1>6, <1>7, <1>8 DEF Crawl, Fail, Lose, Die
<1> QED
  BY <1>1, <1>2, <1>4, <1>8 DEF Next

LEMMA NeededStep == NeededInv /\ [Next]_vars => JobsAreNeeded'
<1> SUFFICES ASSUME NeededInv, [Next]_vars PROVE JobsAreNeeded'
  OBVIOUS
<1>0. TypeOK /\ SingleJobs /\ JobsAreNeeded /\ FaultlessDeliveries
  BY DEF NeededInv, PipelineInv
<1>1. CASE UNCHANGED vars
  BY <1>0, <1>1 DEF vars, JobsAreNeeded, Wanted, At
<1>2. ASSUME NEW t \in Store, AddStore(t) \/ Expire(t) PROVE JobsAreNeeded'
  <2>1. UNCHANGED <<batch, queue, work, overlapped, faults>>
        /\ \A s \in Store : latest'[s] = "fresh" => latest[s] = "fresh"
    BY <1>0, <1>2 DEF AddStore, Expire, TypeOK
  <2> QED
    BY <1>0, <2>1, WantedKept DEF Wanted, At
<1>3. ASSUME NEW o \in Orchestrator, StartSweep(o) PROVE JobsAreNeeded'
  <2>1. PICK found \in SUBSET Pending \ {{}} :
          /\ batch' = [batch EXCEPT ![o] = found]
          /\ overlapped' = overlapped \cup {s \in found : OpenJobs(s) # {}}
    BY <1>3 DEF StartSweep
  <2>2. UNCHANGED <<latest, queue, work, faults>>
    BY <1>3 DEF StartSweep
  <2> SUFFICES ASSUME faults = 0, NEW s \in Store \ overlapped', Wanted(s)'
               PROVE  latest[s] # "fresh"
    BY <2>2 DEF JobsAreNeeded
  <2>3. CASE s \in found
    BY <2>3 DEF Pending
  <2>4. CASE s \notin found
    <3>1. Wanted(s)
      BY <1>0, <2>1, <2>2, <2>4 DEF Wanted, TypeOK, At
    <3> QED
      BY <1>0, <2>1, <3>1 DEF JobsAreNeeded
  <2> QED
    BY <2>3, <2>4
<1>4. ASSUME NEW o \in Orchestrator, Publish(o) PROVE JobsAreNeeded'
  <2>1. PICK t \in batch[o] : queue' = Append(queue, t) /\ batch' = [batch EXCEPT ![o] = batch[o] \ {t}]
    BY <1>4 DEF Publish
  <2>2. UNCHANGED <<latest, work, overlapped, faults>>
    BY <1>4 DEF Publish
  <2>3. \A i \in DOMAIN queue' : queue'[i] = t \/ (i \in DOMAIN queue /\ queue'[i] = queue[i])
    BY <1>0, <2>1 DEF TypeOK
  <2>4. \A p \in Orchestrator : batch'[p] \subseteq batch[p]
    BY <1>0, <2>1 DEF TypeOK
  <2>5. ASSUME NEW s \in Store, Wanted(s)' PROVE Wanted(s)
    BY <2>1, <2>2, <2>3, <2>4, <2>5 DEF Wanted, At
  <2> QED
    BY <1>0, <2>2, <2>5, WantedKept
<1>5. ASSUME NEW w \in Worker, Take(w) PROVE JobsAreNeeded'
  <2>1. /\ queue # <<>> /\ queue \in Seq(Store) /\ queue' = Tail(queue)
        /\ work' = [work EXCEPT ![w] = [pc |-> "fetch", store |-> Head(queue), open |-> TRUE]]
        /\ UNCHANGED <<latest, batch, overlapped, faults>>
    BY <1>0, <1>5 DEF Take, TypeOK
  <2>2. /\ 1 \in DOMAIN queue /\ Head(queue) = queue[1]
        /\ \A i \in DOMAIN queue' : i + 1 \in DOMAIN queue /\ queue'[i] = queue[i + 1]
    BY <2>1, Taken
  <2>3. \A v \in Worker : work'[v] = IF v = w THEN [pc |-> "fetch", store |-> queue[1], open |-> TRUE] ELSE work[v]
    BY <1>0, <2>1, <2>2 DEF TypeOK
  <2>4. ASSUME NEW s \in Store, Wanted(s)' PROVE Wanted(s)
    BY <2>1, <2>2, <2>3, <2>4 DEF Wanted, At
  <2> QED
    BY <1>0, <2>1, <2>4, WantedKept
<1>6. ASSUME NEW w \in Worker, RejectDomain(w) \/ Complete(w) PROVE JobsAreNeeded'
  <2>1. /\ ~At(w, "idle") /\ (Ack(w) \/ DeadLetter(w))
        /\ UNCHANGED <<latest, batch, queue, overlapped, faults>>
    BY <1>6 DEF RejectDomain, Complete, At
  <2>2. \A v \in Worker : At(v, "fetch")' => At(v, "fetch") /\ work'[v].store = work[v].store
    BY <1>0, <2>1, Settling DEF At
  <2>3. ASSUME NEW s \in Store, Wanted(s)' PROVE Wanted(s)
    BY <2>1, <2>2, <2>3 DEF Wanted
  <2> QED
    BY <1>0, <2>1, <2>3, WantedKept
<1>8. ASSUME NEW w \in Worker, Record(w) PROVE JobsAreNeeded'
  <2>1. /\ At(w, "fetch") /\ latest' = [latest EXCEPT ![work[w].store] = "fresh"]
        /\ work' = [work EXCEPT ![w].pc = "diff"] /\ UNCHANGED <<batch, queue, overlapped, faults>>
    BY <1>8 DEF Record
  <2> SUFFICES ASSUME faults = 0 PROVE JobsAreNeeded'
    BY <2>1 DEF JobsAreNeeded
  <2>6. resent = {} /\ \A v \in Worker : ~At(v, "idle") => Holding(v)
    BY <1>0 DEF FaultlessDeliveries
  <2>2. ~At(w, "idle") /\ work[w] \in [pc : {"fetch", "diff"}, store : Store, open : BOOLEAN]
    <3>1. ~At(w, "idle")
      BY <2>1 DEF At
    <3> QED
      BY <1>0, <3>1, BusyWorkers
  <2>3. \A v \in Worker : At(v, "fetch")' => v # w /\ work'[v] = work[v]
    BY <1>0, <2>1, <2>2 DEF TypeOK, At
  <2>4. ASSUME NEW s \in Store \ overlapped, Wanted(s)'
        PROVE  Wanted(s) /\ s # work[w].store
    <3>1. Wanted(s)
      BY <2>1, <2>3, <2>4 DEF Wanted, At
    <3>2. ASSUME s = work[w].store PROVE FALSE
      <4>1. Held(s, w) /\ Single(s)
        BY <1>0, <2>2, <2>6, <3>2 DEF Held, SingleJobs
      <4>2. \A v \in Worker : At(v, "fetch")' => ~Held(s, v)
        BY <2>3, <4>1 DEF Single
      <4>3. \A v \in Worker : At(v, "fetch")' /\ work'[v].store = s => Held(s, v)
        BY <2>3, <2>6 DEF Held, At
      <4> QED
        BY <2>1, <2>4, <4>1, <4>2, <4>3 DEF Single, Wanted, Swept, Queued
    <3> QED
      BY <3>1, <3>2
  <2>5. \A s \in Store : s # work[w].store => latest'[s] = latest[s]
    BY <1>0, <2>1 DEF TypeOK
  <2> QED
    BY <1>0, <2>1, <2>4, <2>5, WantedKept
<1>9. ASSUME faults' = faults + 1 PROVE JobsAreNeeded'
  BY <1>0, <1>9 DEF TypeOK, JobsAreNeeded
<1>10. ASSUME NEW o \in Orchestrator, StartSweep(o) \/ Publish(o) \/ Resend(o) \/ AbortSweep(o)
       PROVE  JobsAreNeeded'
  BY <1>3, <1>4, <1>9, <1>10 DEF Resend, AbortSweep
<1>11. ASSUME NEW w \in Worker, Take(w) \/ Crawl(w) \/ Fail(w) \/ Lose(w) \/ Die(w) PROVE JobsAreNeeded'
  BY <1>5, <1>6, <1>8, <1>9, <1>11 DEF Crawl, Fail, Lose, Die
<1> QED
  BY <1>1, <1>2, <1>10, <1>11 DEF Next

\* As long as nothing fails, dies or is cut off, a store is not fetched again
\* within the time its last crawl is good for, except after overlapping sweeps
\* (CRAWL_STALE_AFTER_MS, HomepageWorker).
THEOREM JobsStayNeeded == Spec => []JobsAreNeeded
<1>1. Init => JobsAreNeeded /\ FaultlessDeliveries
  BY DEF Init, JobsAreNeeded, FaultlessDeliveries, Wanted, At, Idle
<1>2. NeededInv /\ [Next]_vars => JobsAreNeeded' /\ FaultlessDeliveries'
  BY NeededStep, FaultlessStep DEF NeededInv, PipelineInv
<1> QED
  BY <1>1, <1>2, SingleInvariance, PTL DEF Spec, Safety, NeededInv
=============================================================================
