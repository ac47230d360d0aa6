-------------------------------- MODULE Lease --------------------------------
(***************************************************************************)
(* What a lock with a time to live promises: a lease is granted only while *)
(* no other is live, it is never taken away before its end, and it may be  *)
(* dropped at any time.  Whoever stays at work after the end of its lease  *)
(* has no promise left.                                                    *)
(***************************************************************************)
EXTENDS Integers

CONSTANTS Schedulers,
          MaxClock      \* bound: the last second of a behaviour

VARIABLES clock,        \* seconds
          lease         \* the end of the lease each scheduler acts under, 0 if none

vars == <<clock, lease>>

Live(s) == clock < lease[s]

Init == /\ clock = 0
        /\ lease = [s \in Schedulers |-> 0]

Grant(s) == /\ \A t \in Schedulers : ~Live(t)
            /\ \E end \in 1..MaxClock : lease' = [lease EXCEPT ![s] = end]
            /\ UNCHANGED clock

Drop(s) == /\ lease' = [lease EXCEPT ![s] = 0]
           /\ UNCHANGED clock

Tick == /\ clock < MaxClock
        /\ clock' = clock + 1
        /\ UNCHANGED lease

Next == Tick \/ \E s \in Schedulers : Grant(s) \/ Drop(s)

Spec == Init /\ [][Next]_vars

=============================================================================
