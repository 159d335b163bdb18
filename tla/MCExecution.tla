---------------------------- MODULE MCExecution ----------------------------
(* Execution with schedulers that TLC may exchange for one another: their  *)
(* watchdogs are identical and no definition names one of them.            *)
EXTENDS Execution, TLC

Schedulers == Permutations(Scheduler)

=============================================================================
