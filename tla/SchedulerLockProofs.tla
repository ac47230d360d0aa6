------------------------- MODULE SchedulerLockProofs -------------------------
(***************************************************************************)
(* Theorems about SchedulerLock, for every number of schedulers, every     *)
(* time to live and both engines.                                          *)
(***************************************************************************)
EXTENDS SchedulerLock, TLAPS

Working == {"update", "insert", "running", "sleeping"}

(* A live lease is the one in the row, which a stale clock reading cannot  *)
(* take for expired, and so no two leases are live.                        *)
Inv == /\ TypeOK
       /\ \A s \in Schedulers : Acquiring(s) => sched[s].now <= clock
       /\ \A s \in Schedulers : sched[s].pc # "idle" => sched[s].until \in 1..MaxClock
       /\ \A s \in Schedulers : sched[s].pc \in Working => sched[s].left > 0
       /\ \A s \in Schedulers : Live(s) => row = sched[s].until
       /\ \A s, t \in Schedulers : (Live(s) /\ Live(t)) => s = t

(* How much of its lease a scheduler may have used up.                     *)
Timing == \A s \in Schedulers :
    /\ sched[s].pc # "idle" => \E ttl \in TTLs : sched[s].until = sched[s].now + ttl
    /\ Acquiring(s) => clock <= sched[s].now + MaxLag
    /\ Holding(s) => /\ clock <= sched[s].since + MaxHold
                     /\ sched[s].since <= sched[s].now + MaxLag

LEMMA IdleTyped == Idle \in Scheduler /\ Idle.pc = "idle"
BY DEF Idle, Scheduler, PC

LEMMA InitInv == Init => Inv
BY IdleTyped DEF Init, Inv, TypeOK, Acquiring, Live, Holding, Working

LEMMA StartInv ==
    ASSUME Inv, NEW s \in Schedulers, Start(s)
    PROVE  Inv'
<1>1. PICK ttl \in TTLs, ticks \in 1..MaxTicks :
        /\ clock + ttl <= MaxClock
        /\ sched' = [sched EXCEPT ![s] = [Idle EXCEPT
                        !.pc = "update", !.now = clock, !.until = clock + ttl, !.left = ticks]]
  BY DEF Start, LeaseEnd
<1>2. clock \in Nat /\ ttl \in Nat /\ ttl > 0 /\ ticks \in Nat
  BY TTLAssumption, LimitAssumption DEF Inv, TypeOK
<1>3. sched[s] \in Scheduler /\ sched \in [Schedulers -> Scheduler]
  BY DEF Inv, TypeOK
<1>4. /\ sched' \in [Schedulers -> Scheduler] /\ \A t \in Schedulers \ {s} : sched'[t] = sched[t]
      /\ sched'[s].pc = "update" /\ sched'[s].now = clock /\ sched'[s].until = clock + ttl
      /\ sched'[s].left > 0
  <2> DEFINE new == [Idle EXCEPT !.pc = "update", !.now = clock, !.until = clock + ttl,
                                 !.left = ticks]
  <2>1. new \in Scheduler
    BY <1>2, clock + ttl \in Nat DEF Idle, Scheduler, PC
  <2>2. new.pc = "update" /\ new.now = clock /\ new.until = clock + ttl /\ new.left = ticks
    BY DEF Idle
  <2>3. sched' = [sched EXCEPT ![s] = new]
    BY <1>1
  <2> HIDE DEF new
  <2> QED BY <1>2, <1>3, <2>1, <2>2, <2>3
<1>5. clock' = clock /\ row' = row
  BY DEF Start
<1>6. clock + ttl \in 1..MaxClock
  BY <1>1, <1>2, LimitAssumption
<1> QED BY <1>2, <1>4, <1>5, <1>6 DEF Inv, TypeOK, Acquiring, Holding, Live, Working

\* A scheduler acquires the row only when no lease is live.
LEMMA AcquiredInv ==
    ASSUME Inv, NEW s \in Schedulers, Acquiring(s), Acquired(s), UNCHANGED clock,
           row = NoRow \/ row <= sched[s].now
    PROVE  /\ Inv'
           /\ \A t \in Schedulers : ~Live(t)
<1>1. sched[s] \in Scheduler /\ sched \in [Schedulers -> Scheduler] /\ clock \in Nat
  BY DEF Inv, TypeOK
<1>2. /\ sched' \in [Schedulers -> Scheduler] /\ \A t \in Schedulers \ {s} : sched'[t] = sched[t]
      /\ sched'[s].pc = "running" /\ sched'[s].until = sched[s].until
      /\ sched'[s].left > 0
  BY <1>1 DEF Acquired, Scheduler, PC, Inv, Acquiring, Working
<1>3. sched[s].until \in 1..MaxClock /\ sched[s].now <= clock /\ sched[s].now \in Nat
  BY <1>1 DEF Inv, Acquiring, Scheduler
<1>4. ASSUME NEW t \in Schedulers, Live(t) PROVE FALSE
  <2>1. row = sched[t].until /\ sched[t].until > clock /\ sched[t].until \in Nat
    BY <1>1, <1>4 DEF Inv, TypeOK, Live, Scheduler
  <2> QED BY <1>1, <1>3, <2>1, RowAssumption
<1>5. row' = sched[s].until /\ row' \in Nat /\ clock' = clock
  BY <1>3 DEF Acquired
<1>6. \A t \in Schedulers \ {s} : ~Live(t)'
  BY <1>2, <1>4, <1>5 DEF Live, Holding
<1> QED BY <1>1, <1>2, <1>3, <1>4, <1>5, <1>6 DEF Inv, TypeOK, Acquiring, Holding, Live

\* A step of one scheduler that leaves the row alone and takes no lease.
LEMMA OwnStepInv ==
    ASSUME Inv, NEW s \in Schedulers, UNCHANGED <<clock, row>>,
           NEW new \in Scheduler, sched' = [sched EXCEPT ![s] = new],
           (new.now = sched[s].now /\ new.until = sched[s].until) \/ new.pc = "idle",
           new.pc # "idle" => sched[s].pc # "idle",
           new.pc \in Working => new.left > 0,
           new.pc \in {"update", "insert"} => Acquiring(s),
           new.pc \in {"running", "sleeping", "release"} => Holding(s)
    PROVE  Inv'
<1>1. /\ \A t \in Schedulers : sched'[t] = IF t = s THEN new ELSE sched[t]
      /\ sched' \in [Schedulers -> Scheduler]
  BY DEF Inv, TypeOK
<1>2. \A t \in Schedulers : Live(t)' => Live(t) /\ sched'[t].until = sched[t].until
  BY <1>1 DEF Live, Holding
<1>3. \A t \in Schedulers : Acquiring(t)' => Acquiring(t) /\ sched'[t].now = sched[t].now
  BY <1>1 DEF Acquiring
<1> QED BY <1>1, <1>2, <1>3 DEF Inv, TypeOK

LEMMA ReleaseInv ==
    ASSUME Inv, NEW s \in Schedulers, Release(s)
    PROVE  Inv'
<1>1. /\ \A t \in Schedulers : sched'[t] = IF t = s THEN Idle ELSE sched[t]
      /\ sched' \in [Schedulers -> Scheduler] /\ clock' = clock
      /\ row' \in Nat \cup {NoRow}
  BY IdleTyped DEF Inv, TypeOK, Release
<1>2. ASSUME NEW t \in Schedulers, Live(t)' PROVE Live(t) /\ t # s /\ row' = row
  <2>1. t # s /\ Live(t)
    BY <1>1, <1>2, IdleTyped DEF Live, Holding
  <2>2. ASSUME row' # row PROVE FALSE
    <3>1. row = sched[s].until /\ row = sched[t].until /\ Holding(s)
      BY <2>1, <2>2 DEF Inv, Release, MayFree, Holding
    <3>2. Live(s)
      BY <2>1, <3>1 DEF Live
    <3> QED BY <2>1, <3>2 DEF Inv
  <2> QED BY <2>1, <2>2
<1>3. \A t \in Schedulers : t # s => sched'[t] = sched[t]
  BY <1>1
<1>4. ~Acquiring(s)' /\ sched'[s].pc = "idle"
  BY <1>1, IdleTyped DEF Acquiring
<1> QED BY <1>1, <1>2, <1>3, <1>4 DEF Inv, TypeOK, Acquiring, Working

LEMMA TickInv ==
    ASSUME Inv, Tick
    PROVE  Inv'
<1>1. clock \in Nat /\ clock' = clock + 1 /\ row' = row /\ sched' = sched
  BY DEF Inv, TypeOK, Tick
<1>2. \A s \in Schedulers : sched[s].until \in Nat /\ sched[s].now \in Nat
  BY DEF Inv, TypeOK, Scheduler
<1>3. \A s \in Schedulers : Live(s)' => Live(s)
  BY <1>1, <1>2 DEF Live, Holding
<1>4. \A s \in Schedulers : Acquiring(s)' => sched'[s].now <= clock'
  BY <1>1, <1>2 DEF Inv, Acquiring
<1> QED BY <1>1, <1>3, <1>4 DEF Inv, TypeOK

\* The steps that take the row, and those that do not.
LEMMA TakesOrNot ==
    ASSUME Inv, NEW s \in Schedulers, TakeExpired(s) \/ TakeOrFail(s) \/ Insert(s)
    PROVE  \/ /\ Acquiring(s) /\ Acquired(s) /\ UNCHANGED clock
              /\ row = NoRow \/ row <= sched[s].now
           \/ /\ UNCHANGED <<clock, row>> /\ Acquiring(s)
              /\ \/ sched' = [sched EXCEPT ![s] = Idle]
                 \/ sched' = [sched EXCEPT ![s].pc = "insert"]
BY DEF TakeExpired, TakeOrFail, Insert, InsertRow, Expired, Acquiring

LEMMA QuietInv ==
    ASSUME Inv, NEW s \in Schedulers, UNCHANGED <<clock, row>>,
           \/ sched' = [sched EXCEPT ![s] = Idle]
           \/ sched' = [sched EXCEPT ![s].pc = "insert"] /\ Acquiring(s)
           \/ Wake(s) \/ Interrupt(s) \/ RunTick(s)
    PROVE  Inv'
<1>1. sched[s] \in Scheduler /\ sched \in [Schedulers -> Scheduler]
  BY DEF Inv, TypeOK
<1>2. CASE sched' = [sched EXCEPT ![s] = Idle]
  BY <1>2, IdleTyped, OwnStepInv DEF Working
<1>3. CASE sched' = [sched EXCEPT ![s].pc = "insert"] /\ Acquiring(s)
  <2> DEFINE new == [sched[s] EXCEPT !.pc = "insert"]
  <2>1. new \in Scheduler /\ sched' = [sched EXCEPT ![s] = new] /\ new.pc = "insert"
        /\ new.left = sched[s].left /\ new.now = sched[s].now /\ new.until = sched[s].until
    BY <1>1, <1>3 DEF Scheduler, PC
  <2> HIDE DEF new
  <2> QED BY <1>3, <2>1, OwnStepInv DEF Acquiring, Inv, Working
<1>4. CASE Wake(s)
  <2> DEFINE new == [sched[s] EXCEPT !.pc = "running"]
  <2>1. new \in Scheduler /\ sched' = [sched EXCEPT ![s] = new] /\ new.pc = "running"
        /\ new.left = sched[s].left /\ new.now = sched[s].now /\ new.until = sched[s].until
    BY <1>1, <1>4 DEF Scheduler, PC, Wake
  <2> HIDE DEF new
  <2> QED BY <1>4, <2>1, OwnStepInv DEF Wake, Holding, Inv, Working
<1>5. CASE Interrupt(s)
  <2> DEFINE new == [sched[s] EXCEPT !.pc = "release"]
  <2>1. new \in Scheduler /\ sched' = [sched EXCEPT ![s] = new] /\ new.pc = "release"
        /\ new.left = sched[s].left /\ new.now = sched[s].now /\ new.until = sched[s].until
    BY <1>1, <1>5 DEF Scheduler, PC, Interrupt
  <2> HIDE DEF new
  <2> QED BY <1>5, <2>1, OwnStepInv DEF Interrupt, Holding, Working
<1>6. CASE RunTick(s)
  <2> DEFINE new == [sched[s] EXCEPT !.left = @ - 1,
                       !.pc = IF sched[s].left > 1 THEN "sleeping" ELSE "release"]
  <2>1. new \in Scheduler /\ sched' = [sched EXCEPT ![s] = new]
        /\ new.pc \in {"sleeping", "release"} /\ (new.pc = "sleeping" => new.left > 0)
        /\ new.now = sched[s].now /\ new.until = sched[s].until
    BY <1>1, <1>6 DEF Scheduler, PC, RunTick, Inv, Working
  <2> HIDE DEF new
  <2> QED BY <1>6, <2>1, OwnStepInv DEF RunTick, Holding, Working
<1> QED BY <1>2, <1>3, <1>4, <1>5, <1>6

LEMMA NextInv == Inv /\ [Next]_vars => Inv'
<1> SUFFICES ASSUME Inv, [Next]_vars PROVE Inv'
  OBVIOUS
<1>1. ASSUME NEW s \in Schedulers, Start(s) PROVE Inv'
  BY <1>1, StartInv
<1>2. ASSUME NEW s \in Schedulers, Step(s) PROVE Inv'
  <2>1. CASE TakeExpired(s) \/ TakeOrFail(s) \/ Insert(s)
    BY <2>1, TakesOrNot, AcquiredInv, QuietInv
  <2>2. CASE RunTick(s) \/ Wake(s)
    BY <2>2, QuietInv DEF RunTick, Wake
  <2>3. CASE Release(s)
    BY <2>3, ReleaseInv
  <2> QED BY <1>2, <2>1, <2>2, <2>3 DEF Step
<1>3. ASSUME NEW s \in Schedulers, Interrupt(s) \/ Crash(s) PROVE Inv'
  BY <1>3, QuietInv DEF Interrupt, Crash
<1>4. CASE Tick
  BY <1>4, TickInv
<1>5. CASE UNCHANGED vars
  BY <1>5 DEF Inv, TypeOK, Acquiring, Live, Holding, vars
<1> QED BY <1>1, <1>2, <1>3, <1>4, <1>5 DEF Next

THEOREM LockTypes == Spec => []TypeOK
<1>1. Inv => TypeOK
  BY DEF Inv
<1> QED BY <1>1, InitInv, NextInv, PTL DEF Spec

\* No other scheduler can take, insert or clear the row under a live lease: what
\* takes it compares it with a time that has passed, what clears it compares it
\* with a token no live lease shares.
THEOREM LeaseKept == Spec => LeaseIsKept
<1>1. ASSUME Inv, [Next]_vars, NEW s \in Schedulers, Live(s), Holding(s)'
      PROVE  row' = sched[s].until
  <2>1. row = sched[s].until
    BY <1>1 DEF Inv
  <2>2. ASSUME NEW t \in Schedulers, TakeExpired(t) \/ TakeOrFail(t) \/ Insert(t)
        PROVE  row' = row
    BY <1>1, <2>2, TakesOrNot, AcquiredInv
  <2>3. ASSUME NEW t \in Schedulers, Release(t), row' # row
        PROVE  FALSE
    <3>1. Live(t)
      BY <1>1, <2>1, <2>3 DEF Release, MayFree, Live, Holding
    <3>2. t = s
      BY <1>1, <3>1 DEF Inv
    <3>3. sched'[s].pc = "idle"
      BY <1>1, <2>3, <3>2, IdleTyped DEF Release, Inv, TypeOK
    <3> QED BY <1>1, <3>3 DEF Holding
  <2>4. row' = row
    BY <1>1, <2>2, <2>3 DEF Next, Step, Start, RunTick, Wake, Interrupt, Crash, Tick, vars
  <2> QED BY <2>1, <2>4
<1>2. Inv /\ [Next]_vars =>
        [\A s \in Schedulers : (Live(s) /\ Holding(s)') => row' = sched[s].until]_vars
  BY <1>1
<1> QED BY <1>2, InitInv, NextInv, PTL DEF Spec, LeaseIsKept

-----------------------------------------------------------------------------
(* The lock implements the abstract lease.                                 *)

LEMMA AbstractLive ==
    ASSUME Inv, NEW s \in Schedulers
    PROVE  L!Live(s) <=> Live(s)
BY DEF L!Live, leases, Live, Inv, TypeOK

\* What a new record of one scheduler does to the leases.
LEMMA LeaseAfter ==
    ASSUME Inv, NEW s \in Schedulers, NEW new, sched' = [sched EXCEPT ![s] = new]
    PROVE  /\ new.pc \notin {"running", "sleeping", "release"} =>
                leases' = [leases EXCEPT ![s] = 0]
           /\ new.pc \in {"running", "sleeping", "release"} =>
                leases' = [leases EXCEPT ![s] = new.until]
<1>1. \A t \in Schedulers : sched'[t] = IF t = s THEN new ELSE sched[t]
  BY DEF Inv, TypeOK
<1>2. leases' = [t \in Schedulers |-> IF Holding(t)' THEN sched'[t].until ELSE 0]
  BY DEF leases
<1>3. \A t \in Schedulers \ {s} : (IF Holding(t)' THEN sched'[t].until ELSE 0) = leases[t]
  BY <1>1 DEF leases, Holding
<1>4. Holding(s)' <=> new.pc \in {"running", "sleeping", "release"}
  BY <1>1 DEF Holding
<1>5. sched'[s].until = new.until
  BY <1>1
<1>6. leases = [t \in Schedulers |-> leases[t]]
  BY DEF leases
<1> QED BY <1>2, <1>3, <1>4, <1>5, <1>6

LEMMA RefinesNext == Inv /\ [Next]_vars => [L!Next]_(L!vars)
<1> SUFFICES ASSUME Inv, [Next]_vars PROVE [L!Next]_(L!vars)
  OBVIOUS
<1>1. sched \in [Schedulers -> Scheduler] /\ \A s \in Schedulers : sched[s] \in Scheduler
  BY DEF Inv, TypeOK
<1>2. ASSUME NEW s \in Schedulers, Acquired(s), Acquiring(s), UNCHANGED clock,
             row = NoRow \/ row <= sched[s].now
      PROVE  L!Grant(s)
  <2>1. \A t \in Schedulers : ~L!Live(t)
    BY <1>2, AcquiredInv, AbstractLive
  <2>2. sched[s].until \in 1..MaxClock
    BY <1>2 DEF Inv, Acquiring
  <2> DEFINE new == [sched[s] EXCEPT !.pc = "running", !.since = clock]
  <2>3. sched' = [sched EXCEPT ![s] = new] /\ new.pc = "running" /\ new.until = sched[s].until
    BY <1>1, <1>2 DEF Acquired, Scheduler
  <2> HIDE DEF new
  <2>4. leases' = [leases EXCEPT ![s] = sched[s].until]
    BY <2>3, LeaseAfter
  <2> QED BY <1>2, <2>1, <2>2, <2>4 DEF L!Grant
<1>3. ASSUME NEW s \in Schedulers, sched' = [sched EXCEPT ![s] = Idle], UNCHANGED clock
      PROVE  L!Drop(s)
  BY <1>3, IdleTyped, LeaseAfter DEF L!Drop
<1>4. ASSUME NEW s \in Schedulers, NEW new, sched' = [sched EXCEPT ![s] = new],
             new.until = sched[s].until, UNCHANGED clock,
             new.pc \in {"running", "sleeping", "release"} <=> Holding(s)
      PROVE  UNCHANGED (L!vars)
  <2>1. \A t \in Schedulers : /\ Holding(t)' <=> Holding(t)
                              /\ sched'[t].until = sched[t].until
    BY <1>1, <1>4 DEF Holding
  <2>2. leases' = leases
    BY <2>1 DEF leases
  <2> QED BY <1>4, <2>2 DEF L!vars
<1>5. ASSUME NEW s \in Schedulers, Start(s)
      PROVE  UNCHANGED (L!vars)
  <2>1. PICK new : sched' = [sched EXCEPT ![s] = new] /\ new.pc = "update"
    <3>1. PICK ttl \in TTLs, ticks \in 1..MaxTicks :
            sched' = [sched EXCEPT ![s] = [Idle EXCEPT
                !.pc = "update", !.now = clock, !.until = LeaseEnd(ttl), !.left = ticks]]
      BY <1>5 DEF Start
    <3>2. [Idle EXCEPT !.pc = "update", !.now = clock, !.until = LeaseEnd(ttl),
                       !.left = ticks].pc = "update"
      BY DEF Idle
    <3> QED BY <3>1, <3>2
  <2>2. leases' = leases /\ clock' = clock
    BY <1>5, <2>1, LeaseAfter DEF Start, leases, Holding
  <2> QED BY <2>2 DEF L!vars
<1>6. ASSUME NEW s \in Schedulers, Step(s) \/ Interrupt(s) \/ Crash(s)
      PROVE  [L!Next]_(L!vars)
  <2>1. CASE TakeExpired(s) \/ TakeOrFail(s) \/ Insert(s)
    <3>1. CASE /\ UNCHANGED <<clock, row>> /\ Acquiring(s)
               /\ sched' = [sched EXCEPT ![s].pc = "insert"]
      <4> DEFINE new == [sched[s] EXCEPT !.pc = "insert"]
      <4>1. /\ sched' = [sched EXCEPT ![s] = new] /\ new.pc = "insert"
            /\ new.until = sched[s].until
        BY <1>1, <3>1 DEF Scheduler
      <4> HIDE DEF new
      <4> QED BY <1>4, <3>1, <4>1 DEF Acquiring, Holding
    <3> QED BY <1>2, <1>3, <2>1, <3>1, TakesOrNot DEF L!Next
  <2>2. CASE RunTick(s)
    <3> DEFINE new == [sched[s] EXCEPT !.left = @ - 1,
                         !.pc = IF sched[s].left > 1 THEN "sleeping" ELSE "release"]
    <3>1. /\ sched' = [sched EXCEPT ![s] = new] /\ new.pc \in {"sleeping", "release"}
          /\ new.until = sched[s].until
      BY <1>1, <2>2 DEF Scheduler, RunTick
    <3> HIDE DEF new
    <3> QED BY <1>4, <2>2, <3>1 DEF RunTick, Holding
  <2>3. CASE Wake(s)
    <3> DEFINE new == [sched[s] EXCEPT !.pc = "running"]
    <3>1. /\ sched' = [sched EXCEPT ![s] = new] /\ new.pc = "running"
          /\ new.until = sched[s].until
      BY <1>1, <2>3 DEF Scheduler, Wake
    <3> HIDE DEF new
    <3> QED BY <1>4, <2>3, <3>1 DEF Wake, Holding
  <2>4. CASE Interrupt(s)
    <3> DEFINE new == [sched[s] EXCEPT !.pc = "release"]
    <3>1. /\ sched' = [sched EXCEPT ![s] = new] /\ new.pc = "release"
          /\ new.until = sched[s].until
      BY <1>1, <2>4 DEF Scheduler, Interrupt
    <3> HIDE DEF new
    <3> QED BY <1>4, <2>4, <3>1 DEF Interrupt, Holding
  <2>5. CASE Release(s) \/ Crash(s)
    BY <1>3, <2>5 DEF Release, Crash, L!Next
  <2> QED BY <1>6, <2>1, <2>2, <2>3, <2>4, <2>5 DEF Step
<1>7. CASE Tick
  <2>1. leases' = leases
    BY <1>7 DEF Tick, leases, Holding
  <2> QED BY <1>7, <2>1 DEF Tick, L!Next, L!Tick
<1>8. CASE UNCHANGED vars
  BY <1>8 DEF vars, L!vars, leases, Holding
<1> QED BY <1>5, <1>6, <1>7, <1>8 DEF Next

\* The row, its token and the clock readings implement a lock with a time to live.
THEOREM LockImplementsLease == Spec => ImplementsLease
<1>1. Init => L!Init
  BY IdleTyped DEF Init, L!Init, leases, Holding
<1> QED BY <1>1, InitInv, NextInv, RefinesNext, PTL DEF Spec, ImplementsLease, L!Spec

-----------------------------------------------------------------------------
(* One run at a time, when the lease outlives the work done under it.      *)

LEMMA InitTiming == Init => Timing
BY IdleTyped DEF Init, Timing, Acquiring, Holding

\* A step of one scheduler at a standing clock keeps the time it has used.
LEMMA OwnStepTiming ==
    ASSUME Inv, Timing, NEW s \in Schedulers, UNCHANGED clock,
           NEW new, sched' = [sched EXCEPT ![s] = new],
           \/ new.pc = "idle"
           \/ /\ sched[s].pc # "idle"
              /\ new.now = sched[s].now /\ new.until = sched[s].until
              /\ new.pc \in {"update", "insert"} => Acquiring(s)
              /\ new.pc \in {"running", "sleeping", "release"} =>
                   \/ Holding(s) /\ new.since = sched[s].since
                   \/ Acquiring(s) /\ new.since = clock
    PROVE  Timing'
<1>1. \A t \in Schedulers : sched'[t] = IF t = s THEN new ELSE sched[t]
  BY DEF Inv, TypeOK
<1>2. clock \in Nat /\ clock <= clock + MaxHold
  BY LimitAssumption DEF Inv, TypeOK
<1>3. \A t \in Schedulers : t # s =>
        /\ sched'[t].pc # "idle" => \E ttl \in TTLs : sched'[t].until = sched'[t].now + ttl
        /\ Acquiring(t)' => clock' <= sched'[t].now + MaxLag
        /\ Holding(t)' => /\ clock' <= sched'[t].since + MaxHold
                          /\ sched'[t].since <= sched'[t].now + MaxLag
  BY <1>1 DEF Timing, Acquiring, Holding
<1>4. /\ sched'[s].pc # "idle" => \E ttl \in TTLs : sched'[s].until = sched'[s].now + ttl
      /\ Acquiring(s)' => clock' <= sched'[s].now + MaxLag
      /\ Holding(s)' => /\ clock' <= sched'[s].since + MaxHold
                        /\ sched'[s].since <= sched'[s].now + MaxLag
  BY <1>1, <1>2 DEF Timing, Acquiring, Holding
<1> QED BY <1>3, <1>4 DEF Timing

LEMMA NextTiming == Inv /\ Timing /\ [Next]_vars => Timing'
<1> SUFFICES ASSUME Inv, Timing, [Next]_vars PROVE Timing'
  OBVIOUS
<1>1. sched \in [Schedulers -> Scheduler] /\ \A s \in Schedulers : sched[s] \in Scheduler
  BY DEF Inv, TypeOK
<1>2. ASSUME NEW s \in Schedulers, Start(s) PROVE Timing'
  <2>1. PICK ttl \in TTLs, ticks \in 1..MaxTicks :
          sched' = [sched EXCEPT ![s] = [Idle EXCEPT
              !.pc = "update", !.now = clock, !.until = clock + ttl, !.left = ticks]]
    BY <1>2 DEF Start, LeaseEnd
  <2>2. /\ \A t \in Schedulers \ {s} : sched'[t] = sched[t]
        /\ sched'[s].pc = "update" /\ sched'[s].now = clock /\ sched'[s].until = clock + ttl
    BY <1>1, <2>1 DEF Idle
  <2>3. clock' = clock /\ clock \in Nat /\ clock <= clock + MaxLag
    BY <1>2, LimitAssumption DEF Start, Inv, TypeOK
  <2>4. ASSUME NEW t \in Schedulers, t # s
        PROVE  /\ sched'[t].pc # "idle" => \E tt \in TTLs : sched'[t].until = sched'[t].now + tt
               /\ Acquiring(t)' => clock' <= sched'[t].now + MaxLag
               /\ Holding(t)' => /\ clock' <= sched'[t].since + MaxHold
                                 /\ sched'[t].since <= sched'[t].now + MaxLag
    BY <2>2, <2>3, <2>4 DEF Timing, Acquiring, Holding
  <2>5. /\ sched'[s].pc # "idle" => \E tt \in TTLs : sched'[s].until = sched'[s].now + tt
        /\ Acquiring(s)' => clock' <= sched'[s].now + MaxLag
        /\ ~Holding(s)'
    BY <2>2, <2>3 DEF Acquiring, Holding
  <2> QED BY <2>4, <2>5 DEF Timing
<1>3. ASSUME NEW s \in Schedulers, sched' = [sched EXCEPT ![s] = Idle], UNCHANGED clock
      PROVE  Timing'
  BY <1>3, IdleTyped, OwnStepTiming
<1>4. ASSUME NEW s \in Schedulers, NEW pc \in {"insert", "running", "sleeping", "release"},
             sched' = [sched EXCEPT ![s].pc = pc], UNCHANGED clock,
             pc = "insert" => Acquiring(s), pc # "insert" => Holding(s)
      PROVE  Timing'
  <2> DEFINE new == [sched[s] EXCEPT !.pc = pc]
  <2>1. /\ sched' = [sched EXCEPT ![s] = new] /\ new.pc = pc /\ new.now = sched[s].now
        /\ new.until = sched[s].until /\ new.since = sched[s].since
    BY <1>1, <1>4 DEF Scheduler
  <2> HIDE DEF new
  <2> QED BY <1>4, <2>1, OwnStepTiming DEF Acquiring, Holding
<1>5. ASSUME NEW s \in Schedulers, Acquiring(s), Acquired(s), UNCHANGED clock
      PROVE  Timing'
  <2> DEFINE new == [sched[s] EXCEPT !.pc = "running", !.since = clock]
  <2>1. /\ sched' = [sched EXCEPT ![s] = new] /\ new.pc = "running" /\ new.now = sched[s].now
        /\ new.until = sched[s].until /\ new.since = clock
    BY <1>1, <1>5 DEF Acquired, Scheduler
  <2> HIDE DEF new
  <2> QED BY <1>5, <2>1, OwnStepTiming DEF Acquiring
<1>6. ASSUME NEW s \in Schedulers, RunTick(s)
      PROVE  Timing'
  <2> DEFINE new == [sched[s] EXCEPT !.left = @ - 1,
                       !.pc = IF sched[s].left > 1 THEN "sleeping" ELSE "release"]
  <2>1. /\ sched' = [sched EXCEPT ![s] = new] /\ new.pc \in {"sleeping", "release"}
        /\ new.now = sched[s].now
        /\ new.until = sched[s].until /\ new.since = sched[s].since
    BY <1>1, <1>6 DEF Scheduler, RunTick
  <2> HIDE DEF new
  <2> QED BY <1>6, <2>1, OwnStepTiming DEF RunTick, Holding
<1>7. ASSUME NEW s \in Schedulers, Step(s) \/ Interrupt(s) \/ Crash(s) PROVE Timing'
  <2>1. CASE TakeExpired(s) \/ TakeOrFail(s) \/ Insert(s)
    BY <1>3, <1>4, <1>5, <2>1, TakesOrNot
  <2>2. CASE Wake(s) \/ Interrupt(s)
    BY <1>4, <2>2 DEF Wake, Interrupt, Holding
  <2>3. CASE Release(s) \/ Crash(s)
    BY <1>3, <2>3 DEF Release, Crash
  <2> QED BY <1>6, <1>7, <2>1, <2>2, <2>3 DEF Step
<1>8. CASE Tick
  <2>1. clock \in Nat /\ clock' = clock + 1 /\ sched' = sched
    BY <1>8 DEF Tick, Inv, TypeOK
  <2>2. \A s \in Schedulers : sched[s].now \in Nat /\ sched[s].since \in Nat
    BY <1>1 DEF Scheduler
  <2>3. ASSUME NEW s \in Schedulers
        PROVE  /\ Acquiring(s) => clock < sched[s].now + MaxLag
               /\ Holding(s) => clock < sched[s].since + MaxHold
    BY <1>8 DEF Tick
  <2>4. ASSUME NEW s \in Schedulers
        PROVE  /\ Acquiring(s)' => clock' <= sched'[s].now + MaxLag
               /\ Holding(s)' => clock' <= sched'[s].since + MaxHold
    BY <2>1, <2>2, <2>3, LimitAssumption DEF Acquiring, Holding
  <2> QED BY <2>1, <2>4 DEF Timing, Holding
<1>9. CASE UNCHANGED vars
  BY <1>9 DEF Timing, Acquiring, Holding, vars
<1> QED BY <1>2, <1>7, <1>8, <1>9 DEF Next

\* Two schedulers are never at work together, provided every time to live exceeds
\* the delay of the acquisition and the time the loop holds the lock, together.
THEOREM OneRun ==
    ASSUME \A ttl \in TTLs : MaxLag + MaxHold < ttl
    PROVE  Spec => []OneRunAtATime
<1>1. ASSUME Inv, Timing, NEW s \in Schedulers, sched[s].pc = "running"
      PROVE  Live(s)
  <2>1. PICK ttl \in TTLs : sched[s].until = sched[s].now + ttl
    BY <1>1 DEF Timing
  <2>2. clock <= sched[s].since + MaxHold /\ sched[s].since <= sched[s].now + MaxLag
    BY <1>1 DEF Timing, Holding
  <2>3. /\ clock \in Nat /\ ttl \in Nat /\ sched[s].now \in Nat /\ sched[s].since \in Nat
        /\ MaxLag + MaxHold < ttl
    BY <1>1, TTLAssumption DEF Inv, TypeOK, Scheduler
  <2>4. clock < sched[s].until
    BY <2>1, <2>2, <2>3, LimitAssumption
  <2> QED BY <1>1, <2>4 DEF Live, Holding
<1>2. Inv /\ Timing => OneRunAtATime
  BY <1>1 DEF OneRunAtATime, Inv
<1> QED BY <1>2, InitInv, NextInv, InitTiming, NextTiming, PTL DEF Spec
=============================================================================
