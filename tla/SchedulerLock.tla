---------------------------- MODULE SchedulerLock ----------------------------
(***************************************************************************)
(* The `scheduler` command: a loop of ticks, each of which is a `run`,     *)
(* under a lock kept in one row of the settings table.  The row holds the  *)
(* second at which the lease ends, which is also the token its holder      *)
(* releases it with; 0 is a released lock.  The lease is never renewed.    *)
(*                                                                         *)
(* The clock is read once, before the lock is asked for: what the database *)
(* compares and stores is the time of that reading.                        *)
(***************************************************************************)
EXTENDS Integers

CONSTANTS
    Schedulers,   \* processes that run the command with the same --lock-key
    NoRow,        \* the settings row does not exist
    Engine,       \* "sqlite" or "postgres"
    TTLs,         \* values of --lock-ttl-seconds in use
    MaxTicks,     \* bound: the largest --max-ticks
    MaxLag,       \* most seconds between the clock reading and the statement
    MaxHold,      \* most seconds from the acquisition to the release
    MaxClock      \* bound: the last second of a behaviour

ASSUME RowAssumption == NoRow \notin Nat
ASSUME LockEngineAssumption == Engine \in {"sqlite", "postgres"}
ASSUME TTLAssumption == TTLs \subseteq Nat \ {0}
ASSUME LimitAssumption == /\ MaxTicks \in Nat \ {0}
                          /\ MaxLag \in Nat
                          /\ MaxHold \in Nat
                          /\ MaxClock \in Nat

VARIABLES
    clock,        \* time.time(), in whole seconds
    row,          \* settings.value of scheduler_lock:<lock_key>
    sched

vars == <<clock, row, sched>>

PC == {"idle", "update", "insert", "running", "sleeping", "release"}

Scheduler == [pc : PC,
              now : Nat,          \* now_epoch
              until : Nat,        \* lock_until, the token
              since : Nat,        \* when the lock was acquired
              left : Nat]         \* ticks still to run

Idle == [pc |-> "idle", now |-> 0, until |-> 0, since |-> 0, left |-> 0]

TypeOK == /\ clock \in Nat
          /\ row \in Nat \cup {NoRow}
          /\ sched \in [Schedulers -> Scheduler]

Init == /\ clock = 0
        /\ row = NoRow
        /\ sched = [s \in Schedulers |-> Idle]

Acquiring(s) == sched[s].pc \in {"update", "insert"}
Holding(s) == sched[s].pc \in {"running", "sleeping", "release"}

-----------------------------------------------------------------------------
(* The lock.                                                               *)

\* Mutant of LeaseEnd: the time to live is taken for minutes.
LeaseEndMinutes(ttl) == clock + 60 * ttl

\* Mutant of LeaseEnd: the time to live is subtracted.
LeaseEndBefore(ttl) == clock - ttl

LeaseEnd(ttl) == clock + ttl

\* Valid arguments, then _try_acquire_scheduler_lock reads the clock.
Start(s) ==
    /\ sched[s].pc = "idle"
    /\ \E ttl \in TTLs, ticks \in 1..MaxTicks :
         /\ clock + ttl <= MaxClock
         /\ sched' = [sched EXCEPT ![s] = [Idle EXCEPT
                        !.pc = "update", !.now = clock, !.until = LeaseEnd(ttl), !.left = ticks]]
    /\ UNCHANGED <<clock, row>>

\* Mutant of Expired: the row is compared with the end of the new lease.
ExpiredByThen(s) == row # NoRow /\ row <= sched[s].until

\* UPDATE ... WHERE CAST(value AS INTEGER) <= now_epoch finds its row.
Expired(s) == row # NoRow /\ row <= sched[s].now

Acquired(s) ==
    /\ row' = sched[s].until
    /\ sched' = [sched EXCEPT ![s].pc = "running", ![s].since = clock]

TakeExpired(s) ==
    /\ sched[s].pc = "update"
    /\ Expired(s)
    /\ Acquired(s)
    /\ UNCHANGED clock

\* Mutant of InsertRow: INSERT OR REPLACE.
InsertOrReplace(s) == Acquired(s)

\* INSERT that does nothing when the row is there: the command exits with
\* lock_not_acquired.
InsertRow(s) ==
    IF row = NoRow THEN Acquired(s)
                   ELSE sched' = [sched EXCEPT ![s] = Idle] /\ UNCHANGED row

\* The UPDATE found no row.  Under SQLite it has opened the write transaction
\* the INSERT runs in; under PostgreSQL anything may happen in between.
TakeOrFail(s) ==
    /\ sched[s].pc = "update"
    /\ ~Expired(s)
    /\ IF Engine = "sqlite"
       THEN InsertRow(s)
       ELSE sched' = [sched EXCEPT ![s].pc = "insert"] /\ UNCHANGED row
    /\ UNCHANGED clock

Insert(s) ==
    /\ sched[s].pc = "insert"
    /\ InsertRow(s)
    /\ UNCHANGED clock

\* Mutant of MayFree: the row is cleared whoever holds the lock.
FreeAlways(s) == row # NoRow

\* release_distributed_lock: UPDATE ... WHERE value = expected_lock_until.
MayFree(s) == row = sched[s].until

Release(s) ==
    /\ sched[s].pc = "release"
    /\ row' = IF MayFree(s) THEN 0 ELSE row
    /\ sched' = [sched EXCEPT ![s] = Idle]
    /\ UNCHANGED clock

-----------------------------------------------------------------------------
(* The loop.                                                               *)

\* One call of run_executor ends, well or with an exception the loop keeps.
RunTick(s) ==
    /\ sched[s].pc = "running"
    /\ sched' = [sched EXCEPT ![s].left = @ - 1,
                              ![s].pc = IF sched[s].left > 1 THEN "sleeping" ELSE "release"]
    /\ UNCHANGED <<clock, row>>

Wake(s) ==
    /\ sched[s].pc = "sleeping"
    /\ sched' = [sched EXCEPT ![s].pc = "running"]
    /\ UNCHANGED <<clock, row>>

\* KeyboardInterrupt is no Exception: the loop ends, `finally` releases the lock.
Interrupt(s) ==
    /\ sched[s].pc \in {"running", "sleeping"}
    /\ sched' = [sched EXCEPT ![s].pc = "release"]
    /\ UNCHANGED <<clock, row>>

\* The process dies, or a statement of the lock raises: no release.
Crash(s) ==
    /\ sched[s].pc # "idle"
    /\ sched' = [sched EXCEPT ![s] = Idle]
    /\ UNCHANGED <<clock, row>>

\* A second passes.  MaxLag and MaxHold say how long the processes may take.
Tick ==
    /\ clock < MaxClock
    /\ \A s \in Schedulers : /\ Acquiring(s) => clock < sched[s].now + MaxLag
                             /\ Holding(s) => clock < sched[s].since + MaxHold
    /\ clock' = clock + 1
    /\ UNCHANGED <<row, sched>>

\* What the process itself does next.
Step(s) ==
    \/ TakeExpired(s)
    \/ TakeOrFail(s)
    \/ Insert(s)
    \/ RunTick(s)
    \/ Wake(s)
    \/ Release(s)

Next == Tick \/ \E s \in Schedulers : Start(s) \/ Step(s) \/ Interrupt(s) \/ Crash(s)

Spec == Init /\ [][Next]_vars

\* Time goes on and every process is scheduled.
LiveSpec == Spec /\ WF_vars(Tick) /\ \A s \in Schedulers : WF_vars(Step(s))

-----------------------------------------------------------------------------
(* Properties.                                                             *)

Live(s) == Holding(s) /\ clock < sched[s].until

\* At most one scheduler is at work: `scheduler` "avoids concurrent runs".
OneRunAtATime ==
    \A s, t \in Schedulers :
        (sched[s].pc = "running" /\ sched[t].pc = "running") => s = t

\* A lease that has not run out is not lost: whatever another scheduler takes,
\* inserts or releases, the row stays its holder's until it lets go.
LeaseIsKept ==
    [][\A s \in Schedulers : (Live(s) /\ Holding(s)') => row' = sched[s].until]_vars

\* A lock left behind by a scheduler that died comes free: its lease runs out.
Taken == row # NoRow /\ row > clock
LockComesFree == Taken ~> ~Taken

\* The lease a scheduler acts under, as the abstract lock sees it.
leases == [s \in Schedulers |-> IF Holding(s) THEN sched[s].until ELSE 0]

L == INSTANCE Lease WITH clock <- clock, lease <- leases

\* The row, the token and the stale clock readings implement a lock with a time
\* to live: no lease is granted while another is live.
ImplementsLease == L!Spec

=============================================================================
