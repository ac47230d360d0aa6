--------------------------- MODULE MCSchedulerLock ---------------------------
(* Small instances of SchedulerLock for TLC.                                 *)
EXTENDS SchedulerLock, TLC

SchedulerSymmetry == Permutations(Schedulers)

=============================================================================
