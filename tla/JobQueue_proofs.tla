-------------------------- MODULE JobQueue_proofs --------------------------
(***************************************************************************)
(* Proofs about JobQueue for any jobs, consumers, prefetch and number of   *)
(* crashes.                                                                *)
(***************************************************************************)
EXTENDS JobQueue, TLAPS

LEMMA NextTypeOK == TypeOK /\ [Next]_vars => TypeOK'
<1> SUFFICES ASSUME TypeOK, [Next]_vars PROVE TypeOK'
  OBVIOUS
<1> USE DEF TypeOK, Outcome
<1>1. ASSUME NEW j \in Job, Publish(j) PROVE TypeOK'
  BY <1>1 DEF Publish
<1>2. ASSUME NEW c \in Consumer, NEW j \in Job, Deliver(c, j) PROVE TypeOK'
  BY <1>2 DEF Deliver
<1>3. ASSUME NEW c \in Consumer, NEW j \in Job, HandlerResolves(c, j) PROVE TypeOK'
  BY <1>3 DEF HandlerResolves
<1>4. ASSUME NEW c \in Consumer, NEW j \in Job, HandlerRejects(c, j) PROVE TypeOK'
  BY <1>4 DEF HandlerRejects
<1>5. ASSUME NEW c \in Consumer, NEW j \in Job, Ack(c, j) PROVE TypeOK'
  BY <1>5 DEF Ack
<1>6. ASSUME NEW c \in Consumer, NEW j \in Job, Nack(c, j) PROVE TypeOK'
  BY <1>6 DEF Nack
<1>7. ASSUME NEW c \in Consumer, Crash(c) PROVE TypeOK'
  BY <1>7 DEF Crash, Unacked
<1>8. CASE UNCHANGED vars
  BY <1>8 DEF vars
<1>9. QED
  BY <1>1, <1>2, <1>3, <1>4, <1>5, <1>6, <1>7, <1>8 DEF Next, Step

(* The state is always of its type. *)
THEOREM TypeCorrect == Safety => []TypeOK
<1>1. Init => TypeOK
  BY JobQueueAssumption DEF Init, TypeOK, Outcome
<1>2. QED
  BY <1>1, NextTypeOK, PTL DEF Safety

-----------------------------------------------------------------------------
(* The inductive invariant.  Conservation needs OnePlace (a held job is held *)
(* by one consumer, so settling it there leaves no copy), and the bound on   *)
(* completions needs to know that the one extra completion belongs to a job  *)
(* that is acked or about to be.                                             *)
Succeeded(j) == \E c \in Consumer : task[c][j] = "succeeded"

CompletionBudget ==
  \A j \in Job :
    /\ completions[j] <= crashes + 1
    /\ j \notin acked /\ ~Succeeded(j) => completions[j] <= crashes
    /\ Succeeded(j) => completions[j] > 0

MalformedNeverRuns ==
  \A c \in Consumer, j \in Malformed : task[c][j] \in {"none", "failed"}

IInv ==
  /\ TypeOK
  /\ NothingLost
  /\ OnePlace
  /\ AckMeansCompleted
  /\ CompletionBudget
  /\ MalformedNeverRuns

LEMMA InitIInv == Init => IInv
<1> SUFFICES ASSUME Init PROVE IInv
  OBVIOUS
<1> USE DEF Init
<1>1. TypeOK
  BY JobQueueAssumption DEF TypeOK, Outcome
<1>2. NothingLost
  BY DEF NothingLost, Held
<1>3. OnePlace
  BY DEF OnePlace, Held
<1>4. AckMeansCompleted /\ CompletionBudget /\ MalformedNeverRuns
  BY JobQueueAssumption DEF AckMeansCompleted, CompletionBudget, MalformedNeverRuns, Succeeded
<1>5. QED
  BY <1>1, <1>2, <1>3, <1>4 DEF IInv

LEMMA NextIInv == IInv /\ [Next]_vars => IInv'
<1> SUFFICES ASSUME IInv, [Next]_vars PROVE IInv'
  OBVIOUS
<1>t. TypeOK'
  <2>1. TypeOK /\ [Next]_vars => TypeOK'
    BY NextTypeOK
  <2>2. QED
    BY <2>1 DEF IInv
<1> USE JobQueueAssumption DEF IInv, TypeOK, Outcome
<1>1. ASSUME NEW j \in Job, Publish(j) PROVE IInv'
  <2> USE <1>1 DEF Publish
  <2>1. Held' = Held
    BY DEF Held
  <2>2. NothingLost'
    BY <2>1 DEF NothingLost
  <2>3. OnePlace'
    BY <2>1 DEF OnePlace, NothingLost
  <2>4. (AckMeansCompleted /\ CompletionBudget /\ MalformedNeverRuns)'
    BY DEF AckMeansCompleted, CompletionBudget, MalformedNeverRuns, Succeeded
  <2>5. QED
    BY <1>t, <2>2, <2>3, <2>4
<1>2. ASSUME NEW c \in Consumer, NEW j \in Job, Deliver(c, j) PROVE IInv'
  <2> USE <1>2 DEF Deliver
  <2>1. Held' = Held \cup {j}
    BY DEF Held
  <2>2. NothingLost'
    BY <2>1 DEF NothingLost
  <2>3. OnePlace'
    BY <2>1 DEF OnePlace, Held
  <2>4. \A k \in Job : Succeeded(k)' <=> Succeeded(k)
    <3>1. task[c][j] # "succeeded"
      BY DEF OnePlace, Held
    <3>2. QED
      BY <3>1 DEF Succeeded
  <2>5. (AckMeansCompleted /\ CompletionBudget /\ MalformedNeverRuns)'
    BY <2>4 DEF AckMeansCompleted, CompletionBudget, MalformedNeverRuns
  <2>6. QED
    BY <1>t, <2>2, <2>3, <2>5
<1>3. ASSUME NEW c \in Consumer, NEW j \in Job, HandlerResolves(c, j) PROVE IInv'
  <2> USE <1>3 DEF HandlerResolves
  <2>1. Held' = Held
    BY DEF Held
  <2>2. NothingLost'
    BY <2>1 DEF NothingLost
  <2>3. OnePlace'
    BY <2>1 DEF OnePlace
  <2>4. j \notin Malformed
    BY DEF MalformedNeverRuns
  <2>5. (AckMeansCompleted /\ MalformedNeverRuns)'
    BY <2>4 DEF AckMeansCompleted, MalformedNeverRuns
  <2>6. j \notin acked /\ ~Succeeded(j)
    BY DEF OnePlace, Held, Succeeded
  <2>7. CompletionBudget'
    BY <2>6 DEF CompletionBudget, Succeeded
  <2>8. QED
    BY <1>t, <2>2, <2>3, <2>5, <2>7
<1>4. ASSUME NEW c \in Consumer, NEW j \in Job, HandlerRejects(c, j) PROVE IInv'
  <2> USE <1>4 DEF HandlerRejects
  <2>1. Held' = Held
    BY DEF Held
  <2>2. NothingLost'
    BY <2>1 DEF NothingLost
  <2>3. OnePlace'
    BY <2>1 DEF OnePlace
  <2>4. \A k \in Job : Succeeded(k)' <=> Succeeded(k)
    BY DEF Succeeded
  <2>5. (AckMeansCompleted /\ CompletionBudget /\ MalformedNeverRuns)'
    BY <2>4 DEF AckMeansCompleted, CompletionBudget, MalformedNeverRuns
  <2>6. QED
    BY <1>t, <2>2, <2>3, <2>5
<1>5. ASSUME NEW c \in Consumer, NEW j \in Job, Ack(c, j) PROVE IInv'
  <2> USE <1>5 DEF Ack
  <2>1. j \in Held /\ Held' = Held \ {j}
    BY DEF Held, OnePlace
  <2>2. NothingLost'
    BY <2>1 DEF NothingLost
  <2>3. OnePlace'
    BY <2>1 DEF OnePlace
  <2>4. Succeeded(j) /\ completions[j] > 0
    BY DEF Succeeded, CompletionBudget
  <2>5. \A k \in Job \ {j} : Succeeded(k)' <=> Succeeded(k)
    BY DEF Succeeded
  <2>6. ~Succeeded(j)'
    BY DEF Succeeded, OnePlace
  <2>7. (AckMeansCompleted /\ MalformedNeverRuns)'
    BY <2>4 DEF AckMeansCompleted, MalformedNeverRuns
  <2>8. CompletionBudget'
    BY <2>4, <2>5, <2>6 DEF CompletionBudget
  <2>9. QED
    BY <1>t, <2>2, <2>3, <2>7, <2>8
<1>6. ASSUME NEW c \in Consumer, NEW j \in Job, Nack(c, j) PROVE IInv'
  <2> USE <1>6 DEF Nack
  <2>1. j \in Held /\ Held' = Held \ {j}
    BY DEF Held, OnePlace
  <2>2. NothingLost'
    BY <2>1 DEF NothingLost
  <2>3. OnePlace'
    BY <2>1 DEF OnePlace
  <2>4. \A k \in Job : Succeeded(k)' <=> Succeeded(k)
    BY DEF Succeeded
  <2>5. (AckMeansCompleted /\ CompletionBudget /\ MalformedNeverRuns)'
    BY <2>4 DEF AckMeansCompleted, CompletionBudget, MalformedNeverRuns
  <2>6. QED
    BY <1>t, <2>2, <2>3, <2>5
<1>7. ASSUME NEW c \in Consumer, Crash(c) PROVE IInv'
  <2> USE <1>7 DEF Crash
  <2>1. Held' = Held \ Unacked(c)
    BY DEF Held, Unacked, OnePlace
  <2>2. Unacked(c) \subseteq Held
    BY DEF Held, Unacked
  <2>3. NothingLost'
    BY <2>1, <2>2 DEF NothingLost
  <2>4. OnePlace'
    BY <2>1, <2>2 DEF OnePlace
  <2>5. \A k \in Job : Succeeded(k)' => Succeeded(k)
    BY DEF Succeeded
  <2>6. (AckMeansCompleted /\ CompletionBudget /\ MalformedNeverRuns)'
    BY <2>5 DEF AckMeansCompleted, CompletionBudget, MalformedNeverRuns
  <2>7. QED
    BY <1>t, <2>3, <2>4, <2>6
<1>8. CASE UNCHANGED vars
  BY <1>8, <1>t DEF vars, NothingLost, OnePlace, Held, AckMeansCompleted, CompletionBudget,
                    MalformedNeverRuns, Succeeded
<1>9. QED
  BY <1>1, <1>2, <1>3, <1>4, <1>5, <1>6, <1>7, <1>8 DEF Next, Step

LEMMA Invariance == Safety => []IInv
  BY InitIInv, NextIInv, PTL DEF Safety

(* No published job is lost, in any state of any worker's crash. *)
THEOREM JobsAreNeverLost == Safety => []NothingLost
<1>1. IInv => NothingLost
  BY DEF IInv
<1>2. QED
  BY Invariance, <1>1, PTL

(* A job waits, is held by one worker, or is settled with one verdict. *)
THEOREM JobsAreInOnePlace == Safety => []OnePlace
<1>1. IInv => OnePlace
  BY DEF IInv
<1>2. QED
  BY Invariance, <1>1, PTL

(* An acked job's handler has completed. *)
THEOREM AckedJobsCompleted == Safety => []AckMeansCompleted
<1>1. IInv => AckMeansCompleted
  BY DEF IInv
<1>2. QED
  BY Invariance, <1>1, PTL

(* Without crashes the delivery is exactly once; every crash costs at most *)
(* one more run of a job's handler.                                        *)
THEOREM RepetitionIsBounded == Safety => []RepeatedOnlyByCrashes
<1>1. IInv => RepeatedOnlyByCrashes
  BY DEF IInv, CompletionBudget, RepeatedOnlyByCrashes
<1>2. QED
  BY Invariance, <1>1, PTL

(* A settled job is never run, delivered or requeued again, and its verdict *)
(* does not change.                                                         *)
THEOREM VerdictsAreFinal == Safety => SettledIsFinal
<1> DEFINE Final ==
      \A j \in acked \cup dead :
        /\ completions'[j] = completions[j]
        /\ j \notin (ready \cup Held)'
        /\ j \in acked <=> j \in acked'
        /\ j \in dead <=> j \in dead'
<1>1. IInv /\ IInv' /\ [Next]_vars => [Final]_vars
  <2> DEFINE Kept(k) == /\ completions'[k] = completions[k]
                        /\ k \in acked <=> k \in acked'
                        /\ k \in dead <=> k \in dead'
  <2> SUFFICES ASSUME IInv, IInv', Next, NEW k \in acked \cup dead PROVE Kept(k)
    BY DEF IInv, OnePlace
  <2>0. k \in Job /\ \A c \in Consumer : task[c][k] = "none"
    BY DEF IInv, TypeOK, OnePlace, Held
  <2> USE DEF IInv, TypeOK
  <2>1. ASSUME NEW j \in Job, Publish(j) PROVE Kept(k)
    BY <2>1 DEF Publish
  <2>2. ASSUME NEW c \in Consumer, NEW j \in Job, Step(c, j) PROVE Kept(k)
    BY <2>0, <2>2 DEF Step, Deliver, HandlerResolves, HandlerRejects, Ack, Nack
  <2>3. ASSUME NEW c \in Consumer, Crash(c) PROVE Kept(k)
    BY <2>3 DEF Crash
  <2>4. QED
    BY <2>1, <2>2, <2>3 DEF Next
<1>2. QED
  BY Invariance, <1>1, PTL DEF Safety, SettledIsFinal

-----------------------------------------------------------------------------
(* The queue implements at-least-once delivery: every step of the broker or *)
(* of a consumer is a step of the promise, or changes nothing it speaks of.  *)
LEMMA InitRefines == Init => Promise!Init
  BY DEF Init, Promise!Init, StatusOf

LEMMA StepRefines == IInv /\ [Next]_vars => [Promise!Next]_(Promise!vars)
<1> SUFFICES ASSUME IInv, [Next]_vars PROVE [Promise!Next]_(Promise!vars)
  OBVIOUS
<1> DEFINE status == [j \in Job |-> StatusOf(j)]
<1> USE DEF IInv, TypeOK, StatusOf
<1>1. ASSUME NEW j \in Job, Publish(j) PROVE Promise!Submit(j)
  <2>1. status[j] = "new"
    BY <1>1 DEF Publish, NothingLost
  <2>2. status' = [status EXCEPT ![j] = "pending"]
    BY <1>1, <2>1 DEF Publish
  <2>3. QED
    BY <1>1, <2>1, <2>2 DEF Publish, Promise!Submit
<1>2. ASSUME NEW c \in Consumer, NEW j \in Job, HandlerResolves(c, j) PROVE Promise!Run(j)
  <2>1. status[j] = "pending"
    BY <1>2 DEF HandlerResolves, NothingLost, OnePlace, Held
  <2>2. status' = status
    BY <1>2 DEF HandlerResolves
  <2>3. QED
    BY <1>2, <2>1, <2>2 DEF HandlerResolves, Promise!Run
<1>3. ASSUME NEW c \in Consumer, NEW j \in Job, Ack(c, j) PROVE Promise!Complete(j)
  <2>1. status[j] = "pending" /\ completions[j] > 0
    BY <1>3 DEF Ack, NothingLost, OnePlace, Held, CompletionBudget, Succeeded
  <2>2. status' = [status EXCEPT ![j] = "done"]
    BY <1>3, <2>1 DEF Ack
  <2>3. QED
    BY <1>3, <2>1, <2>2 DEF Ack, Promise!Complete
<1>4. ASSUME NEW c \in Consumer, NEW j \in Job, Nack(c, j) PROVE Promise!Reject(j)
  <2>1. status[j] = "pending"
    BY <1>4 DEF Nack, NothingLost, OnePlace, Held
  <2>2. status' = [status EXCEPT ![j] = "dead"]
    BY <1>4, <2>1 DEF Nack
  <2>3. QED
    BY <1>4, <2>1, <2>2 DEF Nack, Promise!Reject
<1>5. ASSUME \/ UNCHANGED vars
             \/ \E c \in Consumer, j \in Job : Deliver(c, j) \/ HandlerRejects(c, j)
             \/ \E c \in Consumer : Crash(c)
      PROVE  UNCHANGED Promise!vars
  <2>1. UNCHANGED <<published, acked, dead, completions>>
    BY <1>5 DEF vars, Deliver, HandlerRejects, Crash
  <2>2. QED
    BY <2>1 DEF Promise!vars
<1>6. QED
  BY <1>1, <1>2, <1>3, <1>4, <1>5 DEF Next, Step, Promise!Next

THEOREM QueueIsAtLeastOnce == Safety => Promise!Safety
<1>1. QED
  BY InitRefines, StepRefines, Invariance, PTL DEF Safety, Promise!Safety
=============================================================================
