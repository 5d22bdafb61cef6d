---------------------------- MODULE AtLeastOnce ----------------------------
(***************************************************************************)
(* What the job queue promises its users, without broker, consumers or     *)
(* crashes: a submitted job may be run any number of times while it is     *)
(* pending, and it is settled exactly once - done, which takes at least    *)
(* one complete run, or dead.                                              *)
(***************************************************************************)
EXTENDS Naturals

CONSTANT Job

VARIABLES status, runs

vars == <<status, runs>>

TypeOK ==
  /\ status \in [Job -> {"new", "pending", "done", "dead"}]
  /\ runs \in [Job -> Nat]

Init ==
  /\ status = [j \in Job |-> "new"]
  /\ runs = [j \in Job |-> 0]

Submit(j) ==
  /\ status[j] = "new"
  /\ status' = [status EXCEPT ![j] = "pending"]
  /\ UNCHANGED runs

Run(j) ==
  /\ status[j] = "pending"
  /\ runs' = [runs EXCEPT ![j] = @ + 1]
  /\ UNCHANGED status

Complete(j) ==
  /\ status[j] = "pending"
  /\ runs[j] > 0
  /\ status' = [status EXCEPT ![j] = "done"]
  /\ UNCHANGED runs

Reject(j) ==
  /\ status[j] = "pending"
  /\ status' = [status EXCEPT ![j] = "dead"]
  /\ UNCHANGED runs

Next == \E j \in Job : Submit(j) \/ Run(j) \/ Complete(j) \/ Reject(j)

Safety == Init /\ [][Next]_vars

\* A pending job does not stay pending.
Spec == Safety /\ \A j \in Job : WF_vars(Complete(j) \/ Reject(j))
=============================================================================
