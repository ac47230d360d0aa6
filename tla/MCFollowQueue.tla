---------------------------- MODULE MCFollowQueue ----------------------------
(* Small instances of FollowQueue for TLC.                                   *)
EXTENDS FollowQueue, TLC

\* Processes are interchangeable, and so are accounts when no policy names one.
FullSymmetry == Permutations(Procs) \cup Permutations(Users)

=============================================================================
