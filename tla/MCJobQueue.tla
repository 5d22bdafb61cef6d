----------------------------- MODULE MCJobQueue -----------------------------
(* Two worker processes with room for one or two of three jobs, one of     *)
(* which does not parse; a worker may crash twice.                         *)
EXTENDS JobQueue, TLC

CONSTANTS j1, j2, j3, w1, w2

MCJob == {j1, j2, j3}
MCMalformed == {j3}
MCConsumer == {w1, w2}
=============================================================================
