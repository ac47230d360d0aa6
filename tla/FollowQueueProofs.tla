-------------------------- MODULE FollowQueueProofs --------------------------
(***************************************************************************)
(* Theorems about FollowQueue, for every set of accounts, processes and    *)
(* runs, both engines and every value of the limits.                       *)
(***************************************************************************)
EXTENDS FollowQueue, FiniteSetTheorems, TLAPS

(* Steps that have an account in hand, and steps that belong to a run.     *)
InHandPC == {"candidate", "enqueue", "put", "record", "mark", "done", "fail", "dead"}

Shape ==
    \A p \in Procs : /\ proc[p].pc # "idle" => proc[p].run \in Runs
                     /\ proc[p].pc \in InHandPC => proc[p].cur \in Users

TypeInv == TypeOK /\ Shape

LEMMA JobSeenTyped ==
    ASSUME TypeOK, NEW p \in Procs, proc[p].run \in Runs, NEW u \in Users
    PROVE  JobSeen(p, u) \in Job
BY DEF TypeOK, JobSeen, Process

LEMMA IdleTyped == Idle \in Process /\ Idle.pc = "idle"
BY IdAssumption DEF Idle, Process, PC, NoJob, Job, JobStatus

\* The next id of a row is a natural number: there are finitely many accounts.
LEMMA UpsertedTyped ==
    ASSUME TypeOK, NEW p \in Procs, proc[p].run \in Runs, NEW u \in Users,
           NEW status \in JobStatus, NEW increment \in BOOLEAN
    PROVE  Upserted(p, u, status, increment) \in Job
<1> DEFINE present == {v \in Users : JobSeen(p, v).status # "absent"}
<1>1. JobSeen(p, u) \in Job
  BY JobSeenTyped
<1>2. Cardinality(present) \in Nat
  <2>1. IsFiniteSet(present)
    BY FiniteAssumption, FS_Subset, present \subseteq Users
  <2> QED BY <2>1, FS_CardinalityType
<1>3. Cardinality(present) + 1 \in Nat
  BY <1>2
<1> QED BY <1>1, <1>3 DEF Upserted, Job

LEMMA FailedRowTyped ==
    ASSUME TypeOK, NEW p \in Procs, proc[p].run \in Runs, NEW u \in Users
    PROVE  FailedRow(p, u) \in Job
BY UpsertedTyped DEF FailedRow, Job, JobStatus

LEMMA CommitTyped ==
    ASSUME TypeOK, NEW p \in Procs, proc[p].run \in Runs, Commit(p)
    PROVE  /\ jobs' \in [Runs -> [Users -> Job]]
           /\ followed' \subseteq Users
           /\ acts' \subseteq Users
<1>1. \A u \in Users : JobSeen(p, u) \in Job
  BY JobSeenTyped
<1> QED BY <1>1 DEF Commit, TypeOK, Process

\* The step of one process keeps the types when its new record is one and the
\* tables keep theirs.
LEMMA OneProcess ==
    ASSUME TypeInv, NEW p \in Procs, NEW new \in Process,
           proc' = [proc EXCEPT ![p] = new],
           new.pc # "idle" => new.run \in Runs,
           new.pc \in InHandPC => new.cur \in Users,
           runStatus' \in [Runs -> RunStatus],
           jobs' \in [Runs -> [Users -> Job]],
           followed' \subseteq Users, acts' \subseteq Users,
           github' \subseteq Users, puts' \in [Users -> Nat], faults' \in Nat
    PROVE  TypeInv'
BY DEF TypeInv, TypeOK, Shape

LEMMA CheckRateLimitTyped ==
    ASSUME TypeInv, NEW p \in Procs, CheckRateLimit(p)
    PROVE  TypeInv'
<1>1. proc \in [Procs -> Process] /\ proc[p] \in Process
  BY DEF TypeInv, TypeOK
<1> DEFINE new == [proc[p] EXCEPT !.pc = "page", !.txn = TRUE]
<1>2. new \in Process /\ new.run = proc[p].run /\ new.pc = "page"
  BY <1>1 DEF Process, PC, CheckRateLimit
<1>3. proc' = [proc EXCEPT ![p] = new]
  BY <1>1 DEF CheckRateLimit, Process
<1> HIDE DEF new
<1> QED BY <1>1, <1>2, <1>3, OneProcess DEF CheckRateLimit, TypeInv, TypeOK, Shape, InHandPC, db

LEMMA SeeCandidateTyped ==
    ASSUME TypeInv, NEW p \in Procs, NEW u \in Users, SeeCandidate(p, u)
    PROVE  TypeInv'
<1>1. proc \in [Procs -> Process] /\ proc[p] \in Process
  BY DEF TypeInv, TypeOK
<1> DEFINE new == [proc[p] EXCEPT !.pc = "candidate", !.cur = u, !.txn = TRUE,
                                 !.work = @ \ {u}, !.rows = @ \cup {u}]
<1>2. new \in Process /\ new.run = proc[p].run /\ new.cur = u /\ new.pc = "candidate"
  BY <1>1 DEF Process, PC, SeeCandidate
<1>3. proc' = [proc EXCEPT ![p] = new]
  BY <1>1 DEF SeeCandidate, Process
<1> HIDE DEF new
<1> QED BY <1>1, <1>2, <1>3, OneProcess DEF SeeCandidate, TypeInv, TypeOK, Shape, InHandPC, db

LEMMA CheckCandidateTyped ==
    ASSUME TypeInv, NEW p \in Procs, CheckCandidate(p)
    PROVE  TypeInv'
<1>1. proc \in [Procs -> Process] /\ proc[p] \in Process
  BY DEF TypeInv, TypeOK
<1> DEFINE new == [proc[p] EXCEPT !.pc = IF Skip(p, proc[p].cur) THEN NextEntry(p) ELSE "enqueue"]
<1>2. new \in Process /\ new.run = proc[p].run /\ new.cur = proc[p].cur
      /\ new.pc \in {"see", "endpage", "enqueue"}
  BY <1>1 DEF Process, PC, CheckCandidate, NextEntry
<1>3. proc' = [proc EXCEPT ![p] = new]
  BY <1>1 DEF CheckCandidate, Process
<1> HIDE DEF new
<1> QED BY <1>1, <1>2, <1>3, OneProcess DEF CheckCandidate, TypeInv, TypeOK, Shape, InHandPC, db

LEMMA EnqueueCandidateTyped ==
    ASSUME TypeInv, NEW p \in Procs, EnqueueCandidate(p)
    PROVE  TypeInv'
<1>1. proc \in [Procs -> Process] /\ proc[p] \in Process
  BY DEF TypeInv, TypeOK
<1>2. Upserted(p, proc[p].cur, "pending", FALSE) \in Job
  BY UpsertedTyped DEF EnqueueCandidate, TypeInv, Shape, InHandPC, JobStatus
<1> DEFINE new == [proc[p] EXCEPT !.pc = NextEntry(p), !.txn = TRUE,
                    !.job[proc[p].cur] = Upserted(p, proc[p].cur, "pending", FALSE)]
<1>3. new \in Process /\ new.run = proc[p].run /\ new.pc \in {"see", "endpage"}
  BY <1>1, <1>2 DEF Process, PC, NextEntry
<1>4. proc' = [proc EXCEPT ![p] = new]
  BY <1>1 DEF EnqueueCandidate, Process
<1> HIDE DEF new
<1> QED BY <1>1, <1>3, <1>4, OneProcess DEF EnqueueCandidate, TypeInv, TypeOK, Shape, InHandPC, db

LEMMA CommitPageTyped ==
    ASSUME TypeInv, NEW p \in Procs, CommitPage(p)
    PROVE  TypeInv'
<1>1. proc \in [Procs -> Process] /\ proc[p] \in Process
  BY DEF TypeInv, TypeOK
<1>2. proc[p].run \in Runs
  BY DEF CommitPage, TypeInv, Shape
<1> DEFINE new == [NoTxn(proc[p]) EXCEPT !.pc = "page"]
<1>3. new \in Process /\ new.run = proc[p].run /\ new.pc = "page"
  BY <1>1 DEF Process, PC, NoTxn, NoJob, Job, JobStatus
<1>4. proc' = [proc EXCEPT ![p] = new]
  BY <1>1 DEF CommitPage, Process
<1> HIDE DEF new
<1> QED BY <1>1, <1>2, <1>3, <1>4, CommitTyped, OneProcess DEF CommitPage, TypeInv, TypeOK, InHandPC

LEMMA CommitBatchTyped ==
    ASSUME TypeInv, NEW p \in Procs, CommitBatch(p)
    PROVE  TypeInv'
<1>1. proc \in [Procs -> Process] /\ proc[p] \in Process
  BY DEF TypeInv, TypeOK
<1>2. proc[p].run \in Runs
  BY DEF CommitBatch, TypeInv, Shape
<1> DEFINE new == [NoTxn(proc[p]) EXCEPT !.pc = "fetch"]
<1>3. new \in Process /\ new.run = proc[p].run /\ new.pc = "fetch"
  BY <1>1 DEF Process, PC, NoTxn, NoJob, Job, JobStatus
<1>4. proc' = [proc EXCEPT ![p] = new]
  BY <1>1 DEF CommitBatch, Process
<1> HIDE DEF new
<1> QED BY <1>1, <1>2, <1>3, <1>4, CommitTyped, OneProcess DEF CommitBatch, TypeInv, TypeOK, InHandPC

LEMMA FetchPageTyped ==
    ASSUME TypeInv, NEW p \in Procs, FetchPage(p)
    PROVE  TypeInv'
<1>1. proc \in [Procs -> Process] /\ proc[p] \in Process
  BY DEF TypeInv, TypeOK
<1>2. \E new \in Process : /\ new.run = proc[p].run /\ new.pc \in {"see", "fetch"}
                           /\ proc' = [proc EXCEPT ![p] = new]
  <2> DEFINE opened == proc[p].txn \/ Expand
  <2> HIDE DEF opened
  <2>1. CASE \E page \in SUBSET Users :
               /\ proc[p].pages > 0
               /\ proc' = [proc EXCEPT ![p].pc = "see", ![p].work = page,
                                       ![p].pages = @ - 1, ![p].txn = opened]
    <3>1. PICK page \in SUBSET Users :
               /\ proc[p].pages > 0
               /\ proc' = [proc EXCEPT ![p].pc = "see", ![p].work = page,
                                       ![p].pages = @ - 1, ![p].txn = opened]
      BY <2>1
    <3> DEFINE new == [proc[p] EXCEPT !.pc = "see", !.work = page, !.pages = @ - 1,
                                      !.txn = opened]
    <3>2. opened \in BOOLEAN
      BY <1>1, ModeAssumption DEF opened, Process
    <3>3. new \in Process /\ new.run = proc[p].run /\ new.pc = "see"
      BY <1>1, <3>1, <3>2 DEF Process, PC
    <3>4. proc' = [proc EXCEPT ![p] = new]
      BY <1>1, <3>1 DEF Process
    <3> QED BY <3>3, <3>4
  <2>2. CASE proc' = [proc EXCEPT ![p].pc = "fetch"]
    <3> DEFINE new == [proc[p] EXCEPT !.pc = "fetch"]
    <3>1. new \in Process /\ new.run = proc[p].run /\ new.pc = "fetch"
      BY <1>1 DEF Process, PC
    <3>2. proc' = [proc EXCEPT ![p] = new]
      BY <1>1, <2>2 DEF Process
    <3> QED BY <3>1, <3>2
  <2> QED BY <2>1, <2>2 DEF FetchPage, opened
<1> QED BY <1>1, <1>2, OneProcess DEF FetchPage, TypeInv, TypeOK, Shape, InHandPC, db

LEMMA FetchBatchTyped ==
    ASSUME TypeInv, NEW p \in Procs, FetchBatch(p)
    PROVE  TypeInv'
<1>1. proc \in [Procs -> Process] /\ proc[p] \in Process /\ proc[p].run \in Runs
  BY DEF TypeInv, TypeOK, Shape, FetchBatch
<1>2. \E new \in Process : /\ new.run = proc[p].run /\ new.pc \in {"leave", "job"}
                           /\ proc' = [proc EXCEPT ![p] = new]
  <2>1. CASE Remaining(p) = 0
    <3> DEFINE new == [proc[p] EXCEPT !.pc = "leave"]
    <3>1. new \in Process /\ new.run = proc[p].run /\ new.pc = "leave"
      BY <1>1 DEF Process, PC
    <3>2. proc' = [proc EXCEPT ![p] = new]
      BY <1>1, <2>1 DEF FetchBatch, Process
    <3> QED BY <3>1, <3>2
  <2>2. CASE Remaining(p) > 0
    <3> DEFINE reads(batch) == [u \in Users |-> IF u \in batch \ proc[p].seen
                                                THEN JobSeen(p, u).attempts ELSE 0]
               next(batch) == [proc[p] EXCEPT !.pc = AfterFetch(p, batch),
                                 !.work = batch \ proc[p].seen, !.read = reads(batch)]
    <3>0. Remaining(p) # 0
      BY <2>2
    <3>1. PICK batch \in fetch_follow_jobs(p, Remaining(p)) :
            proc' = [proc EXCEPT ![p].pc = AfterFetch(p, batch),
                       ![p].work = batch \ proc[p].seen, ![p].read = reads(batch)]
      BY <3>0, Zenon DEF FetchBatch
    <3>2. \A u \in Users : JobSeen(p, u).attempts \in Nat
      BY <1>1, JobSeenTyped DEF TypeInv, Job
    <3>3. reads(batch) \in [Users -> Nat] /\ batch \subseteq Users
      BY <3>2 DEF fetch_follow_jobs
    <3>4. AfterFetch(p, batch) \in {"leave", "job"}
      BY DEF AfterFetch
    <3> HIDE DEF reads
    <3>5. next(batch) \in Process /\ next(batch).run = proc[p].run
          /\ next(batch).pc \in {"leave", "job"}
      BY <1>1, <3>3, <3>4 DEF Process, PC
    <3>6. proc' = [proc EXCEPT ![p] = next(batch)]
      BY <1>1, <3>1 DEF Process
    <3> QED BY <3>5, <3>6
  <2> QED BY <2>1, <2>2 DEF FetchBatch
<1> QED BY <1>1, <1>2, OneProcess DEF FetchBatch, TypeInv, TypeOK, Shape, InHandPC, db

\* A process with the next job of its batch in hand.
WithJob(r, pc, result, u) ==
    [r EXCEPT !.pc = pc, !.result = result, !.cur = u,
              !.work = @ \ {u}, !.seen = @ \cup {u}]

LEMMA WithJobTyped ==
    ASSUME NEW r \in Process, NEW pc \in PC, NEW result \in {"none", "dry"}, NEW u \in Users
    PROVE  /\ WithJob(r, pc, result, u) \in Process
           /\ WithJob(r, pc, result, u).run = r.run
           /\ WithJob(r, pc, result, u).cur = u
BY DEF Process, WithJob

LEMMA TakeJobTyped ==
    ASSUME TypeInv, NEW p \in Procs, TakeJob(p)
    PROVE  TypeInv'
<1>1. proc \in [Procs -> Process] /\ proc[p] \in Process /\ proc[p].run \in Runs
  BY DEF TypeInv, TypeOK, Shape, TakeJob
<1> DEFINE result(u) == IF Plan(p, u) = "record" THEN "dry" ELSE "none"
           next(u) == WithJob(proc[p], Plan(p, u), result(u), u)
<1>2. PICK u \in proc[p].work :
        proc' = [proc EXCEPT ![p].pc = Plan(p, u), ![p].result = result(u),
                   ![p].cur = u, ![p].work = @ \ {u}, ![p].seen = @ \cup {u}]
  BY DEF TakeJob
<1>3. u \in Users /\ Plan(p, u) \in PC /\ result(u) \in {"none", "dry"}
  <2>1. u \in Users
    BY <1>1 DEF Process
  <2>2. Plan(p, u) \in PC
    BY DEF Plan, PC
  <2> QED BY <2>1, <2>2
<1> HIDE DEF result
<1>4. next(u) \in Process /\ next(u).run = proc[p].run /\ next(u).cur = u
  BY <1>1, <1>3, WithJobTyped
<1>5. proc' = [proc EXCEPT ![p] = next(u)]
  BY <1>1, <1>2 DEF Process, WithJob
<1>6. UNCHANGED <<db, github, puts, faults>>
  BY DEF TakeJob
<1> HIDE DEF next
<1> QED BY <1>1, <1>3, <1>4, <1>5, <1>6, OneProcess DEF TypeInv, TypeOK, db

LEMMA FollowUserTyped ==
    ASSUME TypeInv, NEW p \in Procs, FollowUser(p)
    PROVE  TypeInv'
<1>1. /\ proc \in [Procs -> Process] /\ proc[p] \in Process /\ proc[p].run \in Runs
      /\ proc[p].cur \in Users
  BY DEF TypeInv, TypeOK, Shape, InHandPC, FollowUser
<1>2. PICK result \in {"ok", "restricted", "error"} :
        proc' = [proc EXCEPT ![p].pc = "record", ![p].result = result]
  BY DEF FollowUser
<1> DEFINE new == [proc[p] EXCEPT !.pc = "record", !.result = result]
<1>3. new \in Process /\ new.run = proc[p].run /\ new.cur = proc[p].cur
  BY <1>1 DEF Process, PC
<1>4. proc' = [proc EXCEPT ![p] = new]
  BY <1>1, <1>2 DEF Process
<1>5. puts' \in [Users -> Nat]
  <2>1. puts \in [Users -> Nat] /\ puts[proc[p].cur] + 1 \in Nat
    BY <1>1 DEF TypeInv, TypeOK
  <2> QED BY <2>1 DEF FollowUser
<1>6. github' \subseteq Users
  BY <1>1 DEF FollowUser, TypeInv, TypeOK
<1> QED BY <1>1, <1>3, <1>4, <1>5, <1>6, OneProcess DEF FollowUser, TypeInv, TypeOK, db

LEMMA AddFollowActionTyped ==
    ASSUME TypeInv, NEW p \in Procs, AddFollowAction(p)
    PROVE  TypeInv'
<1>1. proc \in [Procs -> Process] /\ proc[p] \in Process
  BY DEF TypeInv, TypeOK
<1>2. proc[p].run \in Runs /\ proc[p].cur \in Users
  BY DEF TypeInv, Shape, InHandPC, AddFollowAction
<1> DEFINE new == [proc[p] EXCEPT
      !.pc = AfterAction(proc[p].result), !.txn = TRUE,
      !.act = IF proc[p].result \in {"ok", "dry"} THEN @ \cup {proc[p].cur} ELSE @]
<1>3. new \in Process /\ new.run = proc[p].run /\ new.cur = proc[p].cur
  BY <1>1, <1>2 DEF Process, PC, AfterAction
<1>4. proc' = [proc EXCEPT ![p] = new]
  BY <1>1 DEF AddFollowAction, Process
<1> HIDE DEF new
<1> QED BY <1>1, <1>2, <1>3, <1>4, OneProcess DEF AddFollowAction, TypeInv, TypeOK, db

LEMMA MarkFollowedTyped ==
    ASSUME TypeInv, NEW p \in Procs, MarkFollowed(p)
    PROVE  TypeInv'
<1>1. proc \in [Procs -> Process] /\ proc[p] \in Process
  BY DEF TypeInv, TypeOK
<1>2. proc[p].run \in Runs /\ proc[p].cur \in Users
  BY DEF TypeInv, Shape, InHandPC, MarkFollowed
<1> DEFINE new == [proc[p] EXCEPT !.pc = "done", !.txn = TRUE,
                    !.rows = @ \cup {proc[p].cur}, !.marked = @ \cup {proc[p].cur}]
<1>3. new \in Process /\ new.run = proc[p].run /\ new.cur = proc[p].cur
  BY <1>1, <1>2 DEF Process, PC, MarkFollowed
<1>4. proc' = [proc EXCEPT ![p] = new]
  BY <1>1 DEF MarkFollowed, Process
<1> HIDE DEF new
<1> QED BY <1>1, <1>2, <1>3, <1>4, OneProcess DEF MarkFollowed, TypeInv, TypeOK, db

LEMMA MarkDoneTyped ==
    ASSUME TypeInv, NEW p \in Procs, MarkDone(p)
    PROVE  TypeInv'
<1>1. proc \in [Procs -> Process] /\ proc[p] \in Process
  BY DEF TypeInv, TypeOK
<1>2. proc[p].run \in Runs /\ proc[p].cur \in Users
  BY DEF TypeInv, Shape, InHandPC, MarkDone
<1>3. Upserted(p, proc[p].cur, "done", FALSE) \in Job
  BY <1>2, UpsertedTyped DEF TypeInv, JobStatus
<1>4. [proc[p].job EXCEPT ![proc[p].cur] = Upserted(p, proc[p].cur, "done", FALSE)] \in [Users -> Job]
  BY <1>1, <1>2, <1>3 DEF Process
<1>5. proc[p].count + 1 \in Nat
  BY <1>1 DEF Process
<1> DEFINE new == [proc[p] EXCEPT !.pc = NextJob(p), !.txn = TRUE, !.result = "none",
                    !.job = [@ EXCEPT ![proc[p].cur] = Upserted(p, proc[p].cur, "done", FALSE)],
                    !.count = IF proc[p].result \in {"ok", "dry"} THEN @ + 1 ELSE @]
<1>6. new \in Process /\ new.run = proc[p].run /\ new.pc \in {"job", "commit"}
  BY <1>1, <1>2, <1>4, <1>5 DEF Process, PC, NextJob
<1>7. proc' = [proc EXCEPT ![p] = new]
  BY <1>1 DEF MarkDone, Process
<1> HIDE DEF new
<1> QED BY <1>1, <1>2, <1>6, <1>7, OneProcess DEF MarkDone, TypeInv, TypeOK, InHandPC, db

LEMMA DeadLetterTyped ==
    ASSUME TypeInv, NEW p \in Procs, DeadLetter(p)
    PROVE  TypeInv'
<1>1. proc \in [Procs -> Process] /\ proc[p] \in Process
  BY DEF TypeInv, TypeOK
<1>2. proc[p].run \in Runs /\ proc[p].cur \in Users
  BY DEF TypeInv, Shape, InHandPC, DeadLetter
<1>3. Upserted(p, proc[p].cur, "dead_letter", proc[p].result = "restricted") \in Job
  BY <1>2, UpsertedTyped DEF TypeInv, JobStatus
<1>4. [proc[p].job EXCEPT ![proc[p].cur] = Upserted(p, proc[p].cur, "dead_letter", proc[p].result = "restricted")] \in [Users -> Job]
  BY <1>1, <1>2, <1>3 DEF Process
<1>5. proc[p].count + 1 \in Nat
  BY <1>1 DEF Process
<1> DEFINE new == [proc[p] EXCEPT !.pc = NextJob(p), !.txn = TRUE, !.result = "none",
                    !.job = [@ EXCEPT ![proc[p].cur] = Upserted(p, proc[p].cur, "dead_letter", proc[p].result = "restricted")]]
<1>6. new \in Process /\ new.run = proc[p].run /\ new.pc \in {"job", "commit"}
  BY <1>1, <1>2, <1>4, <1>5 DEF Process, PC, NextJob
<1>7. proc' = [proc EXCEPT ![p] = new]
  BY <1>1 DEF DeadLetter, Process
<1> HIDE DEF new
<1> QED BY <1>1, <1>2, <1>6, <1>7, OneProcess DEF DeadLetter, TypeInv, TypeOK, InHandPC, db

LEMMA RecordFailureTyped ==
    ASSUME TypeInv, NEW p \in Procs, RecordFailure(p)
    PROVE  TypeInv'
<1>1. proc \in [Procs -> Process] /\ proc[p] \in Process
  BY DEF TypeInv, TypeOK
<1>2. proc[p].run \in Runs /\ proc[p].cur \in Users
  BY DEF TypeInv, Shape, InHandPC, RecordFailure
<1>3. FailedRow(p, proc[p].cur) \in Job
  BY <1>2, FailedRowTyped DEF TypeInv
<1>4. [proc[p].job EXCEPT ![proc[p].cur] = FailedRow(p, proc[p].cur)] \in [Users -> Job]
  BY <1>1, <1>2, <1>3 DEF Process
<1>5. proc[p].count + 1 \in Nat
  BY <1>1 DEF Process
<1> DEFINE new == [proc[p] EXCEPT !.pc = NextJob(p), !.txn = TRUE, !.result = "none",
                    !.job = [@ EXCEPT ![proc[p].cur] = FailedRow(p, proc[p].cur)]]
<1>6. new \in Process /\ new.run = proc[p].run /\ new.pc \in {"job", "commit"}
  BY <1>1, <1>2, <1>4, <1>5 DEF Process, PC, NextJob
<1>7. proc' = [proc EXCEPT ![p] = new]
  BY <1>1 DEF RecordFailure, Process
<1> HIDE DEF new
<1> QED BY <1>1, <1>2, <1>6, <1>7, OneProcess DEF RecordFailure, TypeInv, TypeOK, InHandPC, db

LEMMA StartTyped ==
    ASSUME TypeInv, NEW p \in Procs, Start(p)
    PROVE  TypeInv'
<1>1. PICK r \in Runs : StartRun(p, r) \/ StartQueue(p, r)
  BY DEF Start, StartWorker, StartResume
<1>2. CASE StartRun(p, r)
  <2>1. PICK dry \in DryModes :
          proc' = [proc EXCEPT ![p] = [Idle EXCEPT !.pc = "rate", !.kind = "run",
                                         !.run = r, !.dry = dry, !.pages = MaxPages]]
    BY <1>2 DEF StartRun
  <2> DEFINE new == [Idle EXCEPT !.pc = "rate", !.kind = "run",
                       !.run = r, !.dry = dry, !.pages = MaxPages]
  <2>2. new \in Process /\ new.run = r /\ new.pc = "rate"
    BY IdleTyped, ModeAssumption, BoundAssumption DEF Process, PC
  <2> HIDE DEF new
  <2>3. proc' = [proc EXCEPT ![p] = new]
    BY <2>1 DEF new
  <2>4. runStatus' \in [Runs -> RunStatus]
    BY <1>2 DEF StartRun, TypeInv, TypeOK, RunStatus
  <2> QED BY <1>2, <2>2, <2>3, <2>4, OneProcess DEF StartRun, TypeInv, TypeOK, InHandPC
<1>3. CASE StartQueue(p, r)
  <2>1. PICK dry \in DryModes :
          proc' = [proc EXCEPT ![p] = [Idle EXCEPT !.pc = "fetch", !.run = r, !.dry = dry]]
    BY <1>3 DEF StartQueue
  <2> DEFINE new == [Idle EXCEPT !.pc = "fetch", !.run = r, !.dry = dry]
  <2>2. new \in Process /\ new.run = r /\ new.pc = "fetch"
    BY IdleTyped, ModeAssumption DEF Process, PC
  <2> HIDE DEF new
  <2>3. proc' = [proc EXCEPT ![p] = new]
    BY <2>1 DEF new
  <2> QED BY <1>3, <2>2, <2>3, OneProcess DEF StartQueue, TypeInv, TypeOK, InHandPC, db
<1> QED BY <1>1, <1>2, <1>3

LEMMA AbortTyped ==
    ASSUME TypeInv, NEW r \in Runs, Abort(r)
    PROVE  TypeInv'
BY DEF Abort, TypeInv, TypeOK, Shape, RunStatus

\* The record of a run that goes on to finish_run after an error.
LEMMA FinishingTyped ==
    ASSUME NEW pr \in Process
    PROVE  /\ [NoTxn(pr) EXCEPT !.pc = "finish"] \in Process
           /\ [NoTxn(pr) EXCEPT !.pc = "finish"].run = pr.run
           /\ [NoTxn(pr) EXCEPT !.pc = "finish"].pc = "finish"
           /\ [NoTxn(pr) EXCEPT !.pc = "finish", !.error = TRUE] \in Process
           /\ [NoTxn(pr) EXCEPT !.pc = "finish", !.error = TRUE].run = pr.run
           /\ [NoTxn(pr) EXCEPT !.pc = "finish", !.error = TRUE].pc = "finish"
BY DEF NoTxn, Process, PC, NoJob, Job, JobStatus

LEMMA LeaveTyped ==
    ASSUME TypeInv, NEW p \in Procs, Leave(p)
    PROVE  TypeInv'
<1>1. proc \in [Procs -> Process] /\ proc[p] \in Process /\ proc[p].run \in Runs
  BY DEF Leave, TypeInv, TypeOK, Shape
<1>2. CASE proc[p].kind = "run"
  BY <1>1, <1>2, FinishingTyped, CommitTyped, OneProcess
  DEF Leave, TypeInv, TypeOK, InHandPC
<1>3. CASE proc[p].kind # "run"
  BY <1>1, <1>3, IdleTyped, OneProcess DEF Leave, TypeInv, TypeOK, InHandPC
<1> QED BY <1>2, <1>3

LEMMA FinishRunTyped ==
    ASSUME TypeInv, NEW p \in Procs, FinishRun(p)
    PROVE  TypeInv'
<1>1. runStatus' \in [Runs -> RunStatus]
  BY DEF FinishRun, Outcome, TypeInv, TypeOK, RunStatus
<1> QED BY <1>1, IdleTyped, OneProcess DEF FinishRun, TypeInv, TypeOK, InHandPC

LEMMA AfterGithubErrorTyped ==
    ASSUME TypeInv, NEW p \in Procs, proc[p].run \in Runs, AfterGithubError(p),
           github' \subseteq Users, puts' \in [Users -> Nat], faults' \in Nat,
           UNCHANGED runStatus
    PROVE  TypeInv'
<1>1. proc[p] \in Process
  BY DEF TypeInv, TypeOK
<1>2. CASE proc[p].kind = "run"
  BY <1>1, <1>2, FinishingTyped, CommitTyped, OneProcess
  DEF AfterGithubError, TypeInv, TypeOK, InHandPC
<1>3. CASE proc[p].kind # "run"
  BY <1>1, <1>3, IdleTyped, OneProcess DEF AfterGithubError, Exit, TypeInv, TypeOK, InHandPC
<1> QED BY <1>2, <1>3

LEMMA FaultTyped ==
    ASSUME TypeInv, NEW p \in Procs, Fault(p)
    PROVE  TypeInv'
<1>1. faults + 1 \in Nat /\ proc[p].run \in Runs
  BY DEF TypeInv, TypeOK, Shape, Fault, FollowUserRaises, DiscoveryRaises, Crash
<1>2. CASE FollowUserRaises(p)
  <2>1. proc[p].cur \in Users
    BY <1>2 DEF FollowUserRaises, TypeInv, Shape, InHandPC
  <2>2. puts \in [Users -> Nat] /\ puts[proc[p].cur] + 1 \in Nat
    BY <2>1 DEF TypeInv, TypeOK
  <2>3. puts' \in [Users -> Nat]
    BY <1>2, <2>2 DEF FollowUserRaises
  <2>4. github' \subseteq Users
    BY <1>2, <2>1 DEF FollowUserRaises, TypeInv, TypeOK
  <2> QED BY <1>1, <1>2, <2>3, <2>4, AfterGithubErrorTyped DEF FollowUserRaises
<1>3. CASE DiscoveryRaises(p)
  BY <1>1, <1>3, AfterGithubErrorTyped DEF DiscoveryRaises, TypeInv, TypeOK
<1>4. CASE Crash(p)
  BY <1>1, <1>4, IdleTyped, OneProcess DEF Crash, Exit, TypeInv, TypeOK, InHandPC
<1> QED BY <1>2, <1>3, <1>4 DEF Fault

LEMMA GiveUpTyped ==
    ASSUME TypeInv, NEW p \in Procs, GiveUp(p)
    PROVE  TypeInv'
<1>1. AfterStorageError(p)
  BY DEF GiveUp, LockTimeout, DeadlockVictim
<1>2. proc[p] \in Process
  BY DEF TypeInv, TypeOK
<1>3. CASE proc[p].kind = "run" /\ proc[p].pc # "finish"
  <2>1. proc[p].pc # "idle"
    <3>1. ASSUME proc[p].pc = "idle" PROVE Blockers(p) = {}
      BY <3>1 DEF Blockers
    <3> QED BY <3>1 DEF GiveUp, LockTimeout, DeadlockVictim
  <2>2. proc[p].run \in Runs
    BY <2>1 DEF TypeInv, Shape
  <2> QED BY <1>1, <1>2, <1>3, <2>2, FinishingTyped, OneProcess
      DEF AfterStorageError, TypeInv, TypeOK, InHandPC, db
<1>4. CASE ~(proc[p].kind = "run" /\ proc[p].pc # "finish")
  BY <1>1, <1>2, <1>4, IdleTyped, OneProcess
  DEF AfterStorageError, TypeInv, TypeOK, InHandPC, db
<1> QED BY <1>3, <1>4

LEMMA TypeInit == Init => TypeInv
<1> SUFFICES ASSUME Init PROVE TypeInv
  OBVIOUS
<1>1. proc \in [Procs -> Process] /\ Shape
  BY IdleTyped DEF Init, Shape, InHandPC
<1> QED BY <1>1 DEF Init, TypeInv, TypeOK, RunStatus, NoJob, Job, JobStatus

LEMMA TypeNext == TypeInv /\ [Next]_vars => TypeInv'
<1> SUFFICES ASSUME TypeInv, [Next]_vars PROVE TypeInv'
  OBVIOUS
<1>1. ASSUME NEW p \in Procs, Start(p) PROVE TypeInv'
  BY <1>1, StartTyped
<1>2. ASSUME NEW p \in Procs, Discover(p) PROVE TypeInv'
  BY <1>2, CheckRateLimitTyped, FetchPageTyped, SeeCandidateTyped, CheckCandidateTyped,
     EnqueueCandidateTyped, CommitPageTyped DEF Discover
<1>3. ASSUME NEW p \in Procs, process_follow_queue(p) PROVE TypeInv'
  BY <1>3, FetchBatchTyped, TakeJobTyped, FollowUserTyped, AddFollowActionTyped,
     MarkFollowedTyped, MarkDoneTyped, DeadLetterTyped, RecordFailureTyped, CommitBatchTyped
  DEF process_follow_queue
<1>4. ASSUME NEW p \in Procs, Leave(p) \/ FinishRun(p) PROVE TypeInv'
  BY <1>4, LeaveTyped, FinishRunTyped
<1>5. ASSUME NEW p \in Procs, GiveUp(p) \/ Fault(p) PROVE TypeInv'
  BY <1>5, GiveUpTyped, FaultTyped
<1>6. ASSUME NEW r \in Runs, Abort(r) PROVE TypeInv'
  BY <1>6, AbortTyped
<1>7. CASE UNCHANGED vars
  BY <1>7 DEF TypeInv, TypeOK, Shape, vars, db
<1> QED BY <1>1, <1>2, <1>3, <1>4, <1>5, <1>6, <1>7 DEF Next, Advance

\* Every variable keeps its type, and a process past its start belongs to a run.
THEOREM TypeSafety == Spec => []TypeOK
<1>1. TypeInv => TypeOK
  BY DEF TypeInv
<1> QED BY <1>1, TypeInit, TypeNext, PTL DEF Spec

-----------------------------------------------------------------------------
(***************************************************************************)
(* The tables of the follow queue tell the truth, and the follow budget    *)
(* holds.  The inductive invariant says of each open transaction what the  *)
(* invariants say of the tables, so that a commit preserves them, and of   *)
(* each step of a handler what the earlier steps have established.         *)
(***************************************************************************)

(* What a follow_jobs row promises, given the accounts G followed on       *)
(* GitHub and the accounts A with a successful row in the ledger.          *)
JobOK(j, u, G, A) ==
    /\ j.status = "done" => u \in A /\ (u \in G \/ TRUE \in DryModes)
    /\ j.status = "failed" => j.attempts < MaxAttempts

DiscoveryPC == {"rate", "page", "see", "candidate", "enqueue", "endpage"}

(* The same of a process: the rows of its open transaction and the answer  *)
(* it is about to record.                                                  *)
ProcOK(pr, G, A) ==
    /\ pr.marked \subseteq G /\ pr.marked \subseteq A \cup pr.act
    /\ \A u \in Users : JobOK(pr.job[u], u, G, A \cup pr.act)
    /\ pr.dry => TRUE \in DryModes
    /\ pr.act \subseteq G \/ TRUE \in DryModes
    /\ pr.result = "dry" => pr.dry
    /\ pr.result = "ok" => pr.cur \in G
    /\ pr.pc = "mark" => pr.result = "ok" /\ pr.cur \in pr.act
    /\ pr.pc = "done" => /\ pr.cur \in A \cup pr.act
                         /\ pr.cur \in G \/ TRUE \in DryModes
    /\ pr.pc \in DiscoveryPC \cup {"put"} => pr.result = "none"

(* The follow budget: what was followed, the batch and the job in hand.    *)
BatchPC == {"job", "put", "record", "mark", "done", "dead", "fail", "commit"}

BudgetOK(pr) ==
    /\ pr.count <= MaxJobs
    /\ pr.pc \in BatchPC =>
         pr.count + Cardinality(pr.work) + (IF pr.pc \in InHandPC THEN 1 ELSE 0) <= MaxJobs

TablesOK ==
    /\ followed \subseteq github /\ followed \subseteq acts
    /\ acts \subseteq github \/ TRUE \in DryModes
    /\ \A r \in Runs, u \in Users : JobOK(jobs[r][u], u, github, acts)

Truthful ==
    /\ TypeInv
    /\ TablesOK
    /\ \A p \in Procs : ProcOK(proc[p], github, acts) /\ BudgetOK(proc[p])

\* More follows and a longer ledger take nothing away.
LEMMA ProcOKMonotone ==
    ASSUME NEW pr \in Process, NEW G, NEW A, NEW G1, NEW A1,
           G \subseteq G1, A \subseteq A1, ProcOK(pr, G, A)
    PROVE  ProcOK(pr, G1, A1)
BY DEF ProcOK, JobOK

LEMMA IdleOK ==
    ASSUME NEW G, NEW A
    PROVE  ProcOK(Idle, G, A) /\ BudgetOK(Idle)
<1>1. /\ Idle.pc = "idle" /\ Idle.result = "none" /\ Idle.dry = FALSE /\ Idle.marked = {}
      /\ Idle.act = {} /\ Idle.count = 0 /\ \A u \in Users : Idle.job[u].status = "absent"
  BY DEF Idle, NoJob
<1>2. ProcOK(Idle, G, A)
  BY <1>1 DEF ProcOK, JobOK, DiscoveryPC
<1>3. BudgetOK(Idle)
  BY <1>1, BoundAssumption DEF BudgetOK, BatchPC
<1> QED BY <1>2, <1>3

\* Between jobs, a process whose transaction has ended has nothing to answer for.
LEMMA NoTxnOK ==
    ASSUME NEW pr, NEW new, NEW G, NEW A, ProcOK(pr, G, A), BudgetOK(pr),
           new.pc \in {"page", "fetch", "finish"}, new.pc = "page" => pr.result = "none",
           new.marked = {}, new.act = {}, \A u \in Users : new.job[u].status = "absent",
           new.dry = pr.dry, new.result = pr.result, new.cur = pr.cur, new.count = pr.count
    PROVE  ProcOK(new, G, A) /\ BudgetOK(new)
BY DEF ProcOK, BudgetOK, JobOK, BatchPC, DiscoveryPC

\* A step of one process keeps the invariant when its record is as it should be
\* afterwards and the tables are.
LEMMA OneProcessOK ==
    ASSUME Truthful, TypeInv', NEW p \in Procs,
           \A q \in Procs \ {p} : proc'[q] = proc[q],
           ProcOK(proc'[p], github', acts'), BudgetOK(proc'[p]),
           TablesOK', github \subseteq github', acts \subseteq acts'
    PROVE  Truthful'
<1>1. ASSUME NEW q \in Procs PROVE ProcOK(proc'[q], github', acts') /\ BudgetOK(proc'[q])
  <2>1. proc[q] \in Process /\ ProcOK(proc[q], github, acts) /\ BudgetOK(proc[q])
    BY DEF Truthful, TypeInv, TypeOK
  <2> QED BY <2>1, ProcOKMonotone
<1> QED BY <1>1 DEF Truthful

\* The same for a step that changes nothing but the record of its process.
LEMMA OwnStepOK ==
    ASSUME Truthful, TypeInv', NEW p \in Procs,
           \A q \in Procs \ {p} : proc'[q] = proc[q],
           ProcOK(proc'[p], github, acts), BudgetOK(proc'[p]),
           UNCHANGED <<jobs, followed, acts, github>>
    PROVE  Truthful'
BY OneProcessOK DEF Truthful, TablesOK

\* A commit makes the tables say what the transaction said.
LEMMA CommitOK ==
    ASSUME Truthful, NEW p \in Procs, Commit(p), github \subseteq github'
    PROVE  TablesOK' /\ acts \subseteq acts' /\ ProcOK(proc[p], github', acts')
<1>1. /\ proc[p] \in Process /\ ProcOK(proc[p], github, acts)
      /\ acts' = acts \cup proc[p].act
  BY DEF Truthful, TypeInv, TypeOK, Commit
<1>2. ASSUME NEW r \in Runs, NEW u \in Users
      PROVE  JobOK(jobs'[r][u], u, github', acts')
  <2>1. jobs'[r][u] = proc[p].job[u] \/ jobs'[r][u] = jobs[r][u]
    BY DEF Commit, JobSeen
  <2>2. JobOK(proc[p].job[u], u, github, acts') /\ JobOK(jobs[r][u], u, github, acts)
    BY <1>1 DEF Truthful, TablesOK, ProcOK
  <2> QED BY <1>1, <2>1, <2>2 DEF JobOK
<1>3. ProcOK(proc[p], github', acts')
  BY <1>1, ProcOKMonotone
<1>4. followed' \subseteq github' /\ followed' \subseteq acts'
  BY <1>1 DEF Commit, Truthful, TablesOK, ProcOK
<1>5. acts' \subseteq github' \/ TRUE \in DryModes
  BY <1>1 DEF Truthful, TablesOK, ProcOK
<1> QED BY <1>1, <1>2, <1>3, <1>4, <1>5 DEF TablesOK

\* An account the process sees as followed is, in the tables or in its transaction.
LEMMA SeenFollowed ==
    ASSUME Truthful, NEW p \in Procs, NEW u, is_followed(p, u)
    PROVE  u \in github /\ u \in acts \cup proc[p].act
BY DEF is_followed, Truthful, TablesOK, ProcOK

LEMMA CheckRateLimitOK ==
    ASSUME Truthful, TypeInv', NEW p \in Procs, CheckRateLimit(p)
    PROVE  Truthful'
<1>1. /\ proc[p] \in Process /\ proc[p].run \in Runs
      /\ ProcOK(proc[p], github, acts) /\ BudgetOK(proc[p])
  BY DEF CheckRateLimit, Truthful, TypeInv, TypeOK, Shape
<1>2. \A q \in Procs \ {p} : proc'[q] = proc[q]
  BY DEF CheckRateLimit, Truthful, TypeInv, TypeOK
<1>3. /\ proc'[p].pc = "page"
      /\ proc'[p].marked = proc[p].marked /\ proc'[p].act = proc[p].act
      /\ proc'[p].job = proc[p].job /\ proc'[p].dry = proc[p].dry
      /\ proc'[p].result = proc[p].result /\ proc'[p].cur = proc[p].cur
      /\ proc'[p].count = proc[p].count
  BY <1>1 DEF CheckRateLimit, Process, Truthful, TypeInv, TypeOK
<1>4. ProcOK(proc'[p], github, acts)
  BY <1>1, <1>3 DEF ProcOK, DiscoveryPC, CheckRateLimit
<1>5. BudgetOK(proc'[p])
  BY <1>1, <1>3 DEF BudgetOK, BatchPC, InHandPC, CheckRateLimit
<1> QED BY <1>2, <1>4, <1>5, OwnStepOK DEF CheckRateLimit, db

LEMMA FetchPageOK ==
    ASSUME Truthful, TypeInv', NEW p \in Procs, FetchPage(p)
    PROVE  Truthful'
<1>1. /\ proc[p] \in Process /\ proc[p].run \in Runs
      /\ ProcOK(proc[p], github, acts) /\ BudgetOK(proc[p])
  BY DEF FetchPage, Truthful, TypeInv, TypeOK, Shape
<1>2. \A q \in Procs \ {p} : proc'[q] = proc[q]
  BY DEF FetchPage, Truthful, TypeInv, TypeOK
<1>3. /\ proc'[p].pc \in {"see", "fetch"}
      /\ proc'[p].marked = proc[p].marked /\ proc'[p].act = proc[p].act
      /\ proc'[p].job = proc[p].job /\ proc'[p].dry = proc[p].dry
      /\ proc'[p].result = proc[p].result /\ proc'[p].cur = proc[p].cur
      /\ proc'[p].count = proc[p].count
  <2>1. CASE \E page \in SUBSET Users :
               proc' = [proc EXCEPT ![p].pc = "see", ![p].work = page,
                                    ![p].pages = @ - 1, ![p].txn = @ \/ Expand]
    BY <1>1, <2>1 DEF Process, Truthful, TypeInv, TypeOK
  <2>2. CASE proc' = [proc EXCEPT ![p].pc = "fetch"]
    BY <1>1, <2>2 DEF Process, Truthful, TypeInv, TypeOK
  <2> QED BY <2>1, <2>2 DEF FetchPage
<1>4. ProcOK(proc'[p], github, acts)
  BY <1>1, <1>3 DEF ProcOK, DiscoveryPC, FetchPage
<1>5. BudgetOK(proc'[p])
  BY <1>1, <1>3 DEF BudgetOK, BatchPC, InHandPC, FetchPage
<1> QED BY <1>2, <1>4, <1>5, OwnStepOK DEF FetchPage, db

LEMMA SeeCandidateOK ==
    ASSUME Truthful, TypeInv', NEW p \in Procs, NEW u \in Users, SeeCandidate(p, u)
    PROVE  Truthful'
<1>1. /\ proc[p] \in Process /\ proc[p].run \in Runs
      /\ ProcOK(proc[p], github, acts) /\ BudgetOK(proc[p])
  BY DEF SeeCandidate, Truthful, TypeInv, TypeOK, Shape
<1>2. \A q \in Procs \ {p} : proc'[q] = proc[q]
  BY DEF SeeCandidate, Truthful, TypeInv, TypeOK
<1>3. /\ proc'[p].pc = "candidate"
      /\ proc'[p].marked = proc[p].marked /\ proc'[p].act = proc[p].act
      /\ proc'[p].job = proc[p].job /\ proc'[p].dry = proc[p].dry
      /\ proc'[p].result = proc[p].result /\ proc'[p].count = proc[p].count
  BY <1>1 DEF SeeCandidate, Process, Truthful, TypeInv, TypeOK
<1>4. ProcOK(proc'[p], github, acts)
  BY <1>1, <1>3 DEF ProcOK, DiscoveryPC, SeeCandidate
<1>5. BudgetOK(proc'[p])
  BY <1>1, <1>3 DEF BudgetOK, BatchPC, InHandPC, SeeCandidate
<1> QED BY <1>2, <1>4, <1>5, OwnStepOK DEF SeeCandidate, db

LEMMA CheckCandidateOK ==
    ASSUME Truthful, TypeInv', NEW p \in Procs, CheckCandidate(p)
    PROVE  Truthful'
<1>1. /\ proc[p] \in Process /\ proc[p].run \in Runs
      /\ ProcOK(proc[p], github, acts) /\ BudgetOK(proc[p])
  BY DEF CheckCandidate, Truthful, TypeInv, TypeOK, Shape
<1>2. \A q \in Procs \ {p} : proc'[q] = proc[q]
  BY DEF CheckCandidate, Truthful, TypeInv, TypeOK
<1>3. /\ proc'[p].pc \in {"see", "endpage", "enqueue"}
      /\ proc'[p].marked = proc[p].marked /\ proc'[p].act = proc[p].act
      /\ proc'[p].job = proc[p].job /\ proc'[p].dry = proc[p].dry
      /\ proc'[p].result = proc[p].result /\ proc'[p].cur = proc[p].cur
      /\ proc'[p].count = proc[p].count
  BY <1>1 DEF CheckCandidate, NextEntry, Process, Truthful, TypeInv, TypeOK
<1>4. ProcOK(proc'[p], github, acts)
  BY <1>1, <1>3 DEF ProcOK, DiscoveryPC, CheckCandidate
<1>5. BudgetOK(proc'[p])
  BY <1>1, <1>3 DEF BudgetOK, BatchPC, InHandPC, CheckCandidate
<1> QED BY <1>2, <1>4, <1>5, OwnStepOK DEF CheckCandidate, db

LEMMA EnqueueCandidateOK ==
    ASSUME Truthful, TypeInv', NEW p \in Procs, EnqueueCandidate(p)
    PROVE  Truthful'
<1>1. /\ proc[p] \in Process /\ proc[p].run \in Runs
      /\ ProcOK(proc[p], github, acts) /\ BudgetOK(proc[p])
  BY DEF EnqueueCandidate, Truthful, TypeInv, TypeOK, Shape
<1>2. JobOK(Upserted(p, proc[p].cur, "pending", FALSE), proc[p].cur, github, acts \cup proc[p].act)
  BY DEF Upserted, JobOK
<1>3. \A q \in Procs \ {p} : proc'[q] = proc[q]
  BY DEF EnqueueCandidate, Truthful, TypeInv, TypeOK
<1>4. /\ proc'[p].pc \in {"see", "endpage"}
      /\ proc'[p].job = [proc[p].job EXCEPT ![proc[p].cur] = Upserted(p, proc[p].cur, "pending", FALSE)]
      /\ proc'[p].marked = proc[p].marked /\ proc'[p].act = proc[p].act
      /\ proc'[p].dry = proc[p].dry /\ proc'[p].result = proc[p].result
      /\ proc'[p].cur = proc[p].cur /\ proc'[p].count = proc[p].count
  BY <1>1 DEF EnqueueCandidate, NextEntry, Process, Truthful, TypeInv, TypeOK
<1>5. \A u \in Users : JobOK(proc'[p].job[u], u, github, acts \cup proc'[p].act)
  BY <1>1, <1>2, <1>4 DEF Process, ProcOK
<1>6. ProcOK(proc'[p], github, acts)
  BY <1>1, <1>4, <1>5 DEF ProcOK, DiscoveryPC, EnqueueCandidate
<1>7. BudgetOK(proc'[p])
  BY <1>1, <1>4 DEF BudgetOK, BatchPC, InHandPC, EnqueueCandidate
<1> QED BY <1>3, <1>6, <1>7, OwnStepOK DEF EnqueueCandidate, db

LEMMA CommitPageOK ==
    ASSUME Truthful, TypeInv', NEW p \in Procs, CommitPage(p)
    PROVE  Truthful'
<1>1. /\ proc[p] \in Process /\ proc[p].run \in Runs
      /\ ProcOK(proc[p], github, acts) /\ BudgetOK(proc[p])
  BY DEF CommitPage, Truthful, TypeInv, TypeOK, Shape
<1>2. \A q \in Procs \ {p} : proc'[q] = proc[q]
  BY DEF CommitPage, Truthful, TypeInv, TypeOK
<1>3. /\ proc'[p].pc = "page" /\ proc'[p].marked = {} /\ proc'[p].act = {}
      /\ \A u \in Users : proc'[p].job[u].status = "absent"
      /\ proc'[p].dry = proc[p].dry /\ proc'[p].result = proc[p].result
      /\ proc'[p].cur = proc[p].cur /\ proc'[p].count = proc[p].count
  BY <1>1 DEF CommitPage, NoTxn, NoJob, Process, Truthful, TypeInv, TypeOK
<1>4. TablesOK' /\ acts \subseteq acts' /\ ProcOK(proc[p], github', acts')
  BY CommitOK DEF CommitPage
<1>5. proc'[p].pc = "page" => proc[p].result = "none"
  BY <1>1, <1>3 DEF CommitPage, ProcOK, DiscoveryPC
<1>6. ProcOK(proc'[p], github', acts') /\ BudgetOK(proc'[p])
  BY <1>1, <1>3, <1>4, <1>5, NoTxnOK
<1> QED BY <1>2, <1>4, <1>6, OneProcessOK DEF CommitPage

LEMMA CommitBatchOK ==
    ASSUME Truthful, TypeInv', NEW p \in Procs, CommitBatch(p)
    PROVE  Truthful'
<1>1. /\ proc[p] \in Process /\ proc[p].run \in Runs
      /\ ProcOK(proc[p], github, acts) /\ BudgetOK(proc[p])
  BY DEF CommitBatch, Truthful, TypeInv, TypeOK, Shape
<1>2. \A q \in Procs \ {p} : proc'[q] = proc[q]
  BY DEF CommitBatch, Truthful, TypeInv, TypeOK
<1>3. /\ proc'[p].pc = "fetch" /\ proc'[p].marked = {} /\ proc'[p].act = {}
      /\ \A u \in Users : proc'[p].job[u].status = "absent"
      /\ proc'[p].dry = proc[p].dry /\ proc'[p].result = proc[p].result
      /\ proc'[p].cur = proc[p].cur /\ proc'[p].count = proc[p].count
  BY <1>1 DEF CommitBatch, NoTxn, NoJob, Process, Truthful, TypeInv, TypeOK
<1>4. TablesOK' /\ acts \subseteq acts' /\ ProcOK(proc[p], github', acts')
  BY CommitOK DEF CommitBatch
<1>5. proc'[p].pc = "page" => proc[p].result = "none"
  BY <1>1, <1>3 DEF CommitBatch, ProcOK, DiscoveryPC
<1>6. ProcOK(proc'[p], github', acts') /\ BudgetOK(proc'[p])
  BY <1>1, <1>3, <1>4, <1>5, NoTxnOK
<1> QED BY <1>2, <1>4, <1>6, OneProcessOK DEF CommitBatch

LEMMA FetchBatchOK ==
    ASSUME Truthful, TypeInv', NEW p \in Procs, FetchBatch(p)
    PROVE  Truthful'
<1>1. /\ proc[p] \in Process /\ proc[p].run \in Runs
      /\ ProcOK(proc[p], github, acts) /\ BudgetOK(proc[p])
  BY DEF FetchBatch, Truthful, TypeInv, TypeOK, Shape
<1>2. \A q \in Procs \ {p} : proc'[q] = proc[q]
  BY DEF FetchBatch, Truthful, TypeInv, TypeOK
<1>3. /\ proc'[p].marked = proc[p].marked /\ proc'[p].act = proc[p].act
      /\ proc'[p].job = proc[p].job /\ proc'[p].dry = proc[p].dry
      /\ proc'[p].result = proc[p].result /\ proc'[p].cur = proc[p].cur
      /\ proc'[p].count = proc[p].count
      /\ \/ proc'[p].pc = "leave"
         \/ /\ proc'[p].pc = "job" /\ proc'[p].work \subseteq Users
            /\ proc[p].count + Cardinality(proc'[p].work) <= MaxJobs
  <2>1. CASE proc' = [proc EXCEPT ![p].pc = "leave"]
    BY <1>1, <2>1 DEF Process, Truthful, TypeInv, TypeOK
  <2>2. CASE Remaining(p) > 0
    <3>0. Remaining(p) # 0
      BY <2>2
    <3> DEFINE reads(batch) == [u \in Users |-> IF u \in batch \ proc[p].seen
                                                THEN JobSeen(p, u).attempts ELSE 0]
    <3>1. PICK batch \in fetch_follow_jobs(p, Remaining(p)) :
            proc' = [proc EXCEPT ![p].pc = AfterFetch(p, batch),
                       ![p].work = batch \ proc[p].seen, ![p].read = reads(batch)]
      BY <3>0, Zenon DEF FetchBatch
    <3> HIDE DEF reads
    <3>2. batch \subseteq Users /\ Cardinality(batch) <= Remaining(p)
      BY DEF fetch_follow_jobs
    <3>3. /\ Cardinality(batch \ proc[p].seen) <= Cardinality(batch)
          /\ Cardinality(batch) \in Nat /\ Cardinality(batch \ proc[p].seen) \in Nat
      <4>1. IsFiniteSet(batch) /\ IsFiniteSet(batch \ proc[p].seen)
        BY <3>2, FiniteAssumption, FS_Subset, batch \ proc[p].seen \subseteq Users
      <4> QED BY <4>1, FS_Subset, FS_CardinalityType, batch \ proc[p].seen \subseteq batch
    <3>4. proc[p].count + Cardinality(batch \ proc[p].seen) <= MaxJobs
      BY <1>1, <2>2, <3>2, <3>3, BoundAssumption DEF Remaining, BudgetOK, Process
    <3>5. AfterFetch(p, batch) \in {"leave", "job"}
      BY DEF AfterFetch
    <3> QED BY <1>1, <3>1, <3>2, <3>4, <3>5 DEF Process, Truthful, TypeInv, TypeOK
  <2> QED BY <2>1, <2>2 DEF FetchBatch
<1>4. ProcOK(proc'[p], github, acts)
  BY <1>1, <1>3 DEF ProcOK, DiscoveryPC
<1>5. BudgetOK(proc'[p])
  <2>1. proc'[p].pc = "job" => Cardinality(proc'[p].work) \in Nat
    BY <1>3, FiniteAssumption, FS_Subset, FS_CardinalityType
  <2> QED BY <1>1, <1>3, <2>1 DEF BudgetOK, BatchPC, InHandPC, Process
<1> QED BY <1>2, <1>4, <1>5, OwnStepOK DEF FetchBatch, db

LEMMA TakeJobOK ==
    ASSUME Truthful, TypeInv', NEW p \in Procs, TakeJob(p)
    PROVE  Truthful'
<1>1. /\ proc[p] \in Process /\ proc[p].run \in Runs
      /\ ProcOK(proc[p], github, acts) /\ BudgetOK(proc[p])
  BY DEF TakeJob, Truthful, TypeInv, TypeOK, Shape
<1>2. \A q \in Procs \ {p} : proc'[q] = proc[q]
  BY DEF TakeJob, Truthful, TypeInv, TypeOK
<1>3. PICK u \in proc[p].work :
        proc' = [proc EXCEPT ![p].pc = Plan(p, u),
                   ![p].result = IF Plan(p, u) = "record" THEN "dry" ELSE "none",
                   ![p].cur = u, ![p].work = @ \ {u}, ![p].seen = @ \cup {u}]
  BY DEF TakeJob
<1>4. /\ proc'[p].pc = Plan(p, u) /\ proc'[p].cur = u /\ proc'[p].work = proc[p].work \ {u}
      /\ proc'[p].result = IF Plan(p, u) = "record" THEN "dry" ELSE "none"
      /\ proc'[p].marked = proc[p].marked /\ proc'[p].act = proc[p].act
      /\ proc'[p].job = proc[p].job /\ proc'[p].dry = proc[p].dry
      /\ proc'[p].count = proc[p].count
  BY <1>1, <1>3 DEF Process, Truthful, TypeInv, TypeOK
<1>5. \/ Plan(p, u) = "done" /\ is_followed(p, u)
      \/ Plan(p, u) = "dead" \/ Plan(p, u) = "put"
      \/ Plan(p, u) = "record" /\ proc[p].dry
  BY DEF Plan
<1>6. ProcOK(proc'[p], github, acts)
  BY <1>1, <1>4, <1>5, SeenFollowed DEF ProcOK, DiscoveryPC
<1>7. BudgetOK(proc'[p])
  <2>1. /\ Cardinality(proc[p].work \ {u}) = Cardinality(proc[p].work) - 1
        /\ Cardinality(proc[p].work) \in Nat
    <3>1. IsFiniteSet(proc[p].work)
      BY <1>1, FiniteAssumption, FS_Subset DEF Process
    <3> QED BY <1>3, <3>1, FS_RemoveElement, FS_CardinalityType
  <2>2. proc[p].count + Cardinality(proc[p].work) <= MaxJobs /\ proc[p].count \in Nat
    BY <1>1, <2>1, BoundAssumption DEF TakeJob, BudgetOK, BatchPC, InHandPC, Process
  <2>3. proc'[p].count + Cardinality(proc'[p].work) + 1 <= MaxJobs /\ proc'[p].count <= MaxJobs
    BY <1>4, <2>1, <2>2, BoundAssumption
  <2>4. Plan(p, u) \in InHandPC
    BY <1>5 DEF InHandPC
  <2> QED BY <1>4, <2>3, <2>4 DEF BudgetOK
<1> QED BY <1>2, <1>6, <1>7, OwnStepOK DEF TakeJob, db

LEMMA FollowUserOK ==
    ASSUME Truthful, TypeInv', NEW p \in Procs, FollowUser(p)
    PROVE  Truthful'
<1>1. /\ proc[p] \in Process /\ proc[p].run \in Runs
      /\ ProcOK(proc[p], github, acts) /\ BudgetOK(proc[p])
  BY DEF FollowUser, Truthful, TypeInv, TypeOK, Shape
<1>2. \A q \in Procs \ {p} : proc'[q] = proc[q]
  BY DEF FollowUser, Truthful, TypeInv, TypeOK
<1>3. /\ proc'[p].pc = "record" /\ proc'[p].cur = proc[p].cur
      /\ proc'[p].marked = proc[p].marked /\ proc'[p].act = proc[p].act
      /\ proc'[p].job = proc[p].job /\ proc'[p].dry = proc[p].dry
      /\ proc'[p].count = proc[p].count /\ proc'[p].work = proc[p].work
      /\ proc'[p].result \in {"ok", "restricted", "error"}
      /\ proc'[p].result = "ok" => proc[p].cur \in github'
  <2>1. PICK result \in {"ok", "restricted", "error"}, applied \in BOOLEAN :
             /\ result = "ok" => applied
             /\ github' = IF applied THEN github \cup {proc[p].cur} ELSE github
             /\ proc' = [proc EXCEPT ![p].pc = "record", ![p].result = result]
    BY DEF FollowUser
  <2> QED BY <1>1, <2>1 DEF Process, Truthful, TypeInv, TypeOK
<1>4. github \subseteq github' /\ acts' = acts
  BY DEF FollowUser, db
<1>5. ProcOK(proc[p], github', acts)
  BY <1>1, <1>4, ProcOKMonotone
<1>6. ProcOK(proc'[p], github', acts')
  BY <1>3, <1>4, <1>5 DEF ProcOK, DiscoveryPC
<1>7. BudgetOK(proc'[p])
  BY <1>1, <1>3 DEF BudgetOK, BatchPC, InHandPC, FollowUser
<1>8. TablesOK'
  BY <1>4 DEF FollowUser, db, Truthful, TablesOK, JobOK
<1> QED BY <1>2, <1>4, <1>6, <1>7, <1>8, OneProcessOK

LEMMA AddFollowActionOK ==
    ASSUME Truthful, TypeInv', NEW p \in Procs, AddFollowAction(p)
    PROVE  Truthful'
<1>1. /\ proc[p] \in Process /\ proc[p].run \in Runs
      /\ ProcOK(proc[p], github, acts) /\ BudgetOK(proc[p])
  BY DEF AddFollowAction, Truthful, TypeInv, TypeOK, Shape
<1>2. proc[p].cur \in Users
  BY DEF AddFollowAction, Truthful, TypeInv, Shape, InHandPC
<1>3. \A q \in Procs \ {p} : proc'[q] = proc[q]
  BY DEF AddFollowAction, Truthful, TypeInv, TypeOK
<1>4. /\ proc'[p].pc = AfterAction(proc[p].result)
      /\ proc'[p].act = IF proc[p].result \in {"ok", "dry"} THEN proc[p].act \cup {proc[p].cur}
                                                      ELSE proc[p].act
      /\ proc'[p].marked = proc[p].marked /\ proc'[p].job = proc[p].job
      /\ proc'[p].dry = proc[p].dry /\ proc'[p].result = proc[p].result
      /\ proc'[p].cur = proc[p].cur /\ proc'[p].count = proc[p].count
      /\ proc'[p].work = proc[p].work
  BY <1>1 DEF AddFollowAction, Process, Truthful, TypeInv, TypeOK
<1>5. \/ proc'[p].pc = "mark" /\ proc[p].result = "ok"
      \/ proc'[p].pc = "done" /\ proc[p].result = "dry"
      \/ proc'[p].pc \in {"dead", "fail"}
  BY <1>4 DEF AfterAction
<1>6. \A u \in Users : JobOK(proc'[p].job[u], u, github, acts \cup proc'[p].act)
  BY <1>1, <1>4 DEF ProcOK, JobOK
<1>7. ProcOK(proc'[p], github, acts)
  BY <1>1, <1>4, <1>5, <1>6 DEF ProcOK, DiscoveryPC
<1>8. BudgetOK(proc'[p])
  BY <1>1, <1>4, <1>5 DEF BudgetOK, BatchPC, InHandPC, AddFollowAction
<1> QED BY <1>3, <1>7, <1>8, OwnStepOK DEF AddFollowAction, db

LEMMA MarkFollowedOK ==
    ASSUME Truthful, TypeInv', NEW p \in Procs, MarkFollowed(p)
    PROVE  Truthful'
<1>1. /\ proc[p] \in Process /\ proc[p].run \in Runs
      /\ ProcOK(proc[p], github, acts) /\ BudgetOK(proc[p])
  BY DEF MarkFollowed, Truthful, TypeInv, TypeOK, Shape
<1>2. \A q \in Procs \ {p} : proc'[q] = proc[q]
  BY DEF MarkFollowed, Truthful, TypeInv, TypeOK
<1>3. /\ proc'[p].pc = "done"
      /\ proc'[p].marked = proc[p].marked \cup {proc[p].cur}
      /\ proc'[p].act = proc[p].act /\ proc'[p].job = proc[p].job
      /\ proc'[p].dry = proc[p].dry /\ proc'[p].result = proc[p].result
      /\ proc'[p].cur = proc[p].cur /\ proc'[p].count = proc[p].count
      /\ proc'[p].work = proc[p].work
  BY <1>1 DEF MarkFollowed, Process, Truthful, TypeInv, TypeOK
<1>4. ProcOK(proc'[p], github, acts)
  BY <1>1, <1>3 DEF ProcOK, DiscoveryPC, MarkFollowed
<1>5. BudgetOK(proc'[p])
  BY <1>1, <1>3 DEF BudgetOK, BatchPC, InHandPC, MarkFollowed
<1> QED BY <1>2, <1>4, <1>5, OwnStepOK DEF MarkFollowed, db

LEMMA MarkDoneOK ==
    ASSUME Truthful, TypeInv', NEW p \in Procs, MarkDone(p)
    PROVE  Truthful'
<1>1. /\ proc[p] \in Process /\ proc[p].run \in Runs
      /\ ProcOK(proc[p], github, acts) /\ BudgetOK(proc[p])
  BY DEF MarkDone, Truthful, TypeInv, TypeOK, Shape
<1>2. proc[p].cur \in Users
  BY DEF MarkDone, Truthful, TypeInv, Shape, InHandPC
<1>3. \A q \in Procs \ {p} : proc'[q] = proc[q]
  BY DEF MarkDone, Truthful, TypeInv, TypeOK
<1>4. /\ proc'[p].pc = NextJob(p) /\ proc'[p].result = "none"
      /\ proc'[p].job = [proc[p].job EXCEPT ![proc[p].cur] = Upserted(p, proc[p].cur, "done", FALSE)]
      /\ proc'[p].count = IF proc[p].result \in {"ok", "dry"} THEN proc[p].count + 1 ELSE proc[p].count
      /\ proc'[p].marked = proc[p].marked /\ proc'[p].act = proc[p].act
      /\ proc'[p].dry = proc[p].dry /\ proc'[p].cur = proc[p].cur
      /\ proc'[p].work = proc[p].work
  BY <1>1 DEF MarkDone, Process, Truthful, TypeInv, TypeOK
<1>5. JobOK(Upserted(p, proc[p].cur, "done", FALSE), proc[p].cur, github, acts \cup proc[p].act)
  BY <1>1 DEF MarkDone, Upserted, JobOK, ProcOK
<1>6. \A u \in Users : JobOK(proc'[p].job[u], u, github, acts \cup proc'[p].act)
  BY <1>1, <1>4, <1>5 DEF Process, ProcOK
<1>7. proc'[p].pc \in {"job", "commit"}
  BY <1>4 DEF NextJob
<1>8. ProcOK(proc'[p], github, acts)
  BY <1>1, <1>4, <1>6, <1>7 DEF ProcOK, DiscoveryPC
<1>9. BudgetOK(proc'[p])
  <2>1. Cardinality(proc[p].work) \in Nat /\ proc[p].count \in Nat
    BY <1>1, FiniteAssumption, FS_Subset, FS_CardinalityType DEF Process
  <2>2. proc[p].count + Cardinality(proc[p].work) + 1 <= MaxJobs
    BY <1>1 DEF MarkDone, BudgetOK, BatchPC, InHandPC
  <2>3. proc'[p].count + Cardinality(proc'[p].work) <= MaxJobs /\ proc'[p].count <= MaxJobs
    BY <1>4, <2>1, <2>2, BoundAssumption
  <2>4. proc'[p].count \in Nat /\ Cardinality(proc'[p].work) \in Nat
    BY <1>4, <2>1
  <2> QED BY <1>7, <2>3, <2>4 DEF BudgetOK, InHandPC
<1> QED BY <1>3, <1>8, <1>9, OwnStepOK DEF MarkDone, db

LEMMA DeadLetterOK ==
    ASSUME Truthful, TypeInv', NEW p \in Procs, DeadLetter(p)
    PROVE  Truthful'
<1>1. /\ proc[p] \in Process /\ proc[p].run \in Runs
      /\ ProcOK(proc[p], github, acts) /\ BudgetOK(proc[p])
  BY DEF DeadLetter, Truthful, TypeInv, TypeOK, Shape
<1>2. proc[p].cur \in Users
  BY DEF DeadLetter, Truthful, TypeInv, Shape, InHandPC
<1>3. \A q \in Procs \ {p} : proc'[q] = proc[q]
  BY DEF DeadLetter, Truthful, TypeInv, TypeOK
<1>4. /\ proc'[p].pc = NextJob(p) /\ proc'[p].result = "none"
      /\ proc'[p].job = [proc[p].job EXCEPT ![proc[p].cur] = Upserted(p, proc[p].cur, "dead_letter", proc[p].result = "restricted")]
      /\ proc'[p].marked = proc[p].marked /\ proc'[p].act = proc[p].act
      /\ proc'[p].dry = proc[p].dry /\ proc'[p].cur = proc[p].cur
      /\ proc'[p].work = proc[p].work /\ proc'[p].count = proc[p].count
  BY <1>1 DEF DeadLetter, Process, Truthful, TypeInv, TypeOK
<1>5. JobOK(Upserted(p, proc[p].cur, "dead_letter", proc[p].result = "restricted"), proc[p].cur, github, acts \cup proc[p].act)
  BY DEF Upserted, JobOK
<1>6. \A u \in Users : JobOK(proc'[p].job[u], u, github, acts \cup proc'[p].act)
  BY <1>1, <1>4, <1>5 DEF Process, ProcOK
<1>7. proc'[p].pc \in {"job", "commit"}
  BY <1>4 DEF NextJob
<1>8. ProcOK(proc'[p], github, acts)
  BY <1>1, <1>4, <1>6, <1>7 DEF ProcOK, DiscoveryPC
<1>9. BudgetOK(proc'[p])
  <2>1. Cardinality(proc[p].work) \in Nat /\ proc[p].count \in Nat
    BY <1>1, FiniteAssumption, FS_Subset, FS_CardinalityType DEF Process
  <2>2. proc[p].count + Cardinality(proc[p].work) + 1 <= MaxJobs
    BY <1>1 DEF DeadLetter, BudgetOK, BatchPC, InHandPC
  <2>3. proc'[p].count + Cardinality(proc'[p].work) <= MaxJobs /\ proc'[p].count <= MaxJobs
    BY <1>4, <2>1, <2>2, BoundAssumption
  <2>4. proc'[p].count \in Nat /\ Cardinality(proc'[p].work) \in Nat
    BY <1>4, <2>1
  <2> QED BY <1>7, <2>3, <2>4 DEF BudgetOK, InHandPC
<1> QED BY <1>3, <1>8, <1>9, OwnStepOK DEF DeadLetter, db

LEMMA RecordFailureOK ==
    ASSUME Truthful, TypeInv', NEW p \in Procs, RecordFailure(p)
    PROVE  Truthful'
<1>1. /\ proc[p] \in Process /\ proc[p].run \in Runs
      /\ ProcOK(proc[p], github, acts) /\ BudgetOK(proc[p])
  BY DEF RecordFailure, Truthful, TypeInv, TypeOK, Shape
<1>2. proc[p].cur \in Users
  BY DEF RecordFailure, Truthful, TypeInv, Shape, InHandPC
<1>3. \A q \in Procs \ {p} : proc'[q] = proc[q]
  BY DEF RecordFailure, Truthful, TypeInv, TypeOK
<1>4. /\ proc'[p].pc = NextJob(p) /\ proc'[p].result = "none"
      /\ proc'[p].job = [proc[p].job EXCEPT ![proc[p].cur] = FailedRow(p, proc[p].cur)]
      /\ proc'[p].marked = proc[p].marked /\ proc'[p].act = proc[p].act
      /\ proc'[p].dry = proc[p].dry /\ proc'[p].cur = proc[p].cur
      /\ proc'[p].work = proc[p].work /\ proc'[p].count = proc[p].count
  BY <1>1 DEF RecordFailure, Process, Truthful, TypeInv, TypeOK
<1>5. JobOK(FailedRow(p, proc[p].cur), proc[p].cur, github, acts \cup proc[p].act)
  <2>1. Upserted(p, proc[p].cur, "failed", TRUE) \in Job
    BY <1>1, <1>2, UpsertedTyped DEF Truthful, TypeInv, JobStatus
  <2>2. Upserted(p, proc[p].cur, "failed", TRUE).status = "failed"
    BY DEF Upserted
  <2> DEFINE row == Upserted(p, proc[p].cur, "failed", TRUE)
  <2>3. FailedRow(p, proc[p].cur) = IF row.attempts >= MaxAttempts
                                   THEN [row EXCEPT !.status = "dead_letter"] ELSE row
    BY DEF FailedRow
  <2>4. row \in Job /\ row.status = "failed"
    BY <2>1, <2>2
  <2> HIDE DEF row
  <2>5. CASE row.attempts >= MaxAttempts
    <3>1. FailedRow(p, proc[p].cur).status = "dead_letter"
      BY <2>3, <2>4, <2>5 DEF Job
    <3> QED BY <3>1 DEF JobOK
  <2>6. CASE row.attempts < MaxAttempts
    <3>1. FailedRow(p, proc[p].cur) = row /\ row.status = "failed" /\ row.attempts \in Nat
      BY <2>3, <2>4, <2>6, BoundAssumption DEF Job
    <3> QED BY <2>6, <3>1 DEF JobOK
  <2> QED BY <2>4, <2>5, <2>6, BoundAssumption DEF Job
<1>6. \A u \in Users : JobOK(proc'[p].job[u], u, github, acts \cup proc'[p].act)
  BY <1>1, <1>4, <1>5 DEF Process, ProcOK
<1>7. proc'[p].pc \in {"job", "commit"}
  BY <1>4 DEF NextJob
<1>8. ProcOK(proc'[p], github, acts)
  BY <1>1, <1>4, <1>6, <1>7 DEF ProcOK, DiscoveryPC
<1>9. BudgetOK(proc'[p])
  <2>1. Cardinality(proc[p].work) \in Nat /\ proc[p].count \in Nat
    BY <1>1, FiniteAssumption, FS_Subset, FS_CardinalityType DEF Process
  <2>2. proc[p].count + Cardinality(proc[p].work) + 1 <= MaxJobs
    BY <1>1 DEF RecordFailure, BudgetOK, BatchPC, InHandPC
  <2>3. proc'[p].count + Cardinality(proc'[p].work) <= MaxJobs /\ proc'[p].count <= MaxJobs
    BY <1>4, <2>1, <2>2, BoundAssumption
  <2>4. proc'[p].count \in Nat /\ Cardinality(proc'[p].work) \in Nat
    BY <1>4, <2>1
  <2> QED BY <1>7, <2>3, <2>4 DEF BudgetOK, InHandPC
<1> QED BY <1>3, <1>8, <1>9, OwnStepOK DEF RecordFailure, db

\* A process that is idle again, for whatever reason.
LEMMA IdleAgainOK ==
    ASSUME Truthful, TypeInv', NEW p \in Procs, proc' = [proc EXCEPT ![p] = Idle],
           TablesOK', github \subseteq github', acts \subseteq acts'
    PROVE  Truthful'
<1>1. proc'[p] = Idle /\ \A q \in Procs \ {p} : proc'[q] = proc[q]
  BY DEF Truthful, TypeInv, TypeOK
<1> QED BY <1>1, IdleOK, OneProcessOK

\* A run on its way to finish_run, its transaction committed or rolled back.
LEMMA FinishingOK ==
    ASSUME Truthful, TypeInv', NEW p \in Procs,
           \/ proc' = [proc EXCEPT ![p] = [NoTxn(@) EXCEPT !.pc = "finish"]]
           \/ proc' = [proc EXCEPT ![p] = [NoTxn(@) EXCEPT !.pc = "finish", !.error = TRUE]],
           TablesOK', github \subseteq github', acts \subseteq acts'
    PROVE  Truthful'
<1>1. proc[p] \in Process /\ BudgetOK(proc[p]) /\ ProcOK(proc[p], github', acts')
  BY ProcOKMonotone DEF Truthful, TypeInv, TypeOK
<1>2. \A q \in Procs \ {p} : proc'[q] = proc[q]
  BY DEF Truthful, TypeInv, TypeOK
<1>3. /\ proc'[p].pc = "finish" /\ proc'[p].marked = {} /\ proc'[p].act = {}
      /\ \A u \in Users : proc'[p].job[u].status = "absent"
      /\ proc'[p].dry = proc[p].dry /\ proc'[p].result = proc[p].result
      /\ proc'[p].cur = proc[p].cur /\ proc'[p].count = proc[p].count
  <2>1. CASE proc' = [proc EXCEPT ![p] = [NoTxn(@) EXCEPT !.pc = "finish"]]
    BY <1>1, <2>1 DEF NoTxn, NoJob, Process, Truthful, TypeInv, TypeOK
  <2>2. CASE proc' = [proc EXCEPT ![p] = [NoTxn(@) EXCEPT !.pc = "finish", !.error = TRUE]]
    BY <1>1, <2>2 DEF NoTxn, NoJob, Process, Truthful, TypeInv, TypeOK
  <2> QED BY <2>1, <2>2
<1>4. ProcOK(proc'[p], github', acts') /\ BudgetOK(proc'[p])
  BY <1>1, <1>3, NoTxnOK
<1> QED BY <1>2, <1>4, OneProcessOK

LEMMA LeaveOK ==
    ASSUME Truthful, TypeInv', NEW p \in Procs, Leave(p)
    PROVE  Truthful'
<1>1. CASE proc[p].kind = "run"
  BY <1>1, CommitOK, FinishingOK DEF Leave
<1>2. CASE proc[p].kind # "run"
  <2>1. UNCHANGED <<jobs, followed, acts, github>>
    BY <1>2 DEF Leave
  <2> QED BY <1>2, <2>1, IdleAgainOK DEF Leave, Truthful, TablesOK
<1> QED BY <1>1, <1>2

LEMMA FinishRunOK ==
    ASSUME Truthful, TypeInv', NEW p \in Procs, FinishRun(p)
    PROVE  Truthful'
<1>1. TablesOK' /\ github' = github /\ acts' = acts
  BY DEF FinishRun, Truthful, TablesOK
<1> QED BY <1>1, IdleAgainOK DEF FinishRun

LEMMA StartOK ==
    ASSUME Truthful, TypeInv', NEW p \in Procs, Start(p)
    PROVE  Truthful'
<1>1. PICK r \in Runs : StartRun(p, r) \/ StartQueue(p, r)
  BY DEF Start, StartWorker, StartResume
<1>2. \A q \in Procs \ {p} : proc'[q] = proc[q]
  BY <1>1 DEF StartRun, StartQueue, Truthful, TypeInv, TypeOK
<1>3. /\ proc'[p].pc \in {"rate", "fetch"} /\ proc'[p].result = "none"
      /\ proc'[p].dry \in DryModes /\ proc'[p].marked = {} /\ proc'[p].act = {} /\ proc'[p].count = 0
      /\ \A u \in Users : proc'[p].job[u].status = "absent"
  <2>1. CASE StartRun(p, r)
    BY <2>1 DEF StartRun, Idle, NoJob, Truthful, TypeInv, TypeOK
  <2>2. CASE StartQueue(p, r)
    BY <2>2 DEF StartQueue, Idle, NoJob, Truthful, TypeInv, TypeOK
  <2> QED BY <1>1, <2>1, <2>2
<1>4. ProcOK(proc'[p], github, acts) /\ BudgetOK(proc'[p])
  <2>1. ProcOK(proc'[p], github, acts)
    <3>1. proc'[p].dry => TRUE \in DryModes
      BY <1>3, ModeAssumption
    <3> QED BY <1>3, <3>1 DEF ProcOK, JobOK, DiscoveryPC
  <2>2. BudgetOK(proc'[p])
    BY <1>3, BoundAssumption DEF BudgetOK, BatchPC
  <2> QED BY <2>1, <2>2
<1>5. UNCHANGED <<jobs, followed, acts, github>>
  BY <1>1 DEF StartRun, StartQueue, db
<1> QED BY <1>2, <1>4, <1>5, OwnStepOK

LEMMA AfterGithubErrorOK ==
    ASSUME Truthful, TypeInv', NEW p \in Procs, AfterGithubError(p), github \subseteq github'
    PROVE  Truthful'
<1>1. CASE proc[p].kind = "run"
  BY <1>1, CommitOK, FinishingOK DEF AfterGithubError
<1>2. CASE proc[p].kind # "run"
  <2>1. UNCHANGED <<jobs, followed, acts>> /\ proc' = [proc EXCEPT ![p] = Idle]
    BY <1>2 DEF AfterGithubError, Exit
  <2> QED BY <2>1, IdleAgainOK DEF Truthful, TablesOK, JobOK
<1> QED BY <1>1, <1>2

LEMMA FaultOK ==
    ASSUME Truthful, TypeInv', NEW p \in Procs, Fault(p)
    PROVE  Truthful'
<1>1. CASE FollowUserRaises(p)
  BY <1>1, AfterGithubErrorOK DEF FollowUserRaises
<1>2. CASE DiscoveryRaises(p)
  BY <1>2, AfterGithubErrorOK DEF DiscoveryRaises
<1>3. CASE Crash(p)
  BY <1>3, IdleAgainOK DEF Crash, Exit, Truthful, TablesOK
<1> QED BY <1>1, <1>2, <1>3 DEF Fault

LEMMA GiveUpOK ==
    ASSUME Truthful, TypeInv', NEW p \in Procs, GiveUp(p)
    PROVE  Truthful'
<1>1. AfterStorageError(p)
  BY DEF GiveUp, LockTimeout, DeadlockVictim
<1>2. TablesOK' /\ github' = github /\ acts' = acts
  BY <1>1 DEF AfterStorageError, db, Truthful, TablesOK
<1> QED BY <1>1, <1>2, IdleAgainOK, FinishingOK DEF AfterStorageError

LEMMA TruthfulInit == Init => Truthful
<1> SUFFICES ASSUME Init PROVE Truthful
  OBVIOUS
<1>1. TypeInv
  BY TypeInit
<1>2. \A p \in Procs : ProcOK(proc[p], github, acts) /\ BudgetOK(proc[p])
  BY IdleOK DEF Init
<1> QED BY <1>1, <1>2 DEF Init, Truthful, TablesOK, JobOK, NoJob

LEMMA TruthfulNext == Truthful /\ [Next]_vars => Truthful'
<1> SUFFICES ASSUME Truthful, [Next]_vars PROVE Truthful'
  OBVIOUS
<1>1. TypeInv'
  BY TypeNext DEF Truthful
<1>2. ASSUME NEW p \in Procs, Start(p) PROVE Truthful'
  BY <1>1, <1>2, StartOK
<1>3. ASSUME NEW p \in Procs, Discover(p) PROVE Truthful'
  BY <1>1, <1>3, CheckRateLimitOK, FetchPageOK, SeeCandidateOK, CheckCandidateOK,
     EnqueueCandidateOK, CommitPageOK DEF Discover
<1>4. ASSUME NEW p \in Procs, process_follow_queue(p) PROVE Truthful'
  BY <1>1, <1>4, FetchBatchOK, TakeJobOK, FollowUserOK, AddFollowActionOK,
     MarkFollowedOK, MarkDoneOK, DeadLetterOK, RecordFailureOK, CommitBatchOK
  DEF process_follow_queue
<1>5. ASSUME NEW p \in Procs, Leave(p) \/ FinishRun(p) PROVE Truthful'
  BY <1>1, <1>5, LeaveOK, FinishRunOK
<1>6. ASSUME NEW p \in Procs, GiveUp(p) \/ Fault(p) PROVE Truthful'
  BY <1>1, <1>6, GiveUpOK, FaultOK
<1>7. ASSUME NEW r \in Runs, Abort(r) PROVE Truthful'
  BY <1>1, <1>7 DEF Abort, Truthful, TablesOK
<1>8. CASE UNCHANGED vars
  BY <1>1, <1>8 DEF Truthful, TablesOK, vars, db
<1> QED BY <1>2, <1>3, <1>4, <1>5, <1>6, <1>7, <1>8 DEF Next, Advance

LEMMA AlwaysTruthful == Spec => []Truthful
BY TruthfulInit, TruthfulNext, PTL DEF Spec

\* What the tables call followed is followed on GitHub, whatever crashes, raises,
\* times out or runs beside it.
THEOREM RecordedFollows == Spec => []RecordedFollowsAreReal
<1>1. Truthful => RecordedFollowsAreReal
  BY DEF Truthful, TablesOK, JobOK, RecordedFollowsAreReal
<1> QED BY <1>1, AlwaysTruthful, PTL

\* Every followed account and every job done has its row in the ledger: the two
\* are committed together or not at all.
THEOREM Ledger == Spec => []LedgerBacksState
<1>1. Truthful => LedgerBacksState
  BY DEF Truthful, TablesOK, JobOK, LedgerBacksState
<1> QED BY <1>1, AlwaysTruthful, PTL

\* A failed job that has spent its attempts is dead-lettered in the same step.
THEOREM RetryableFailures == Spec => []FailedIsRetryable
<1>1. Truthful => FailedIsRetryable
  BY DEF Truthful, TablesOK, JobOK, FailedIsRetryable
<1> QED BY <1>1, AlwaysTruthful, PTL

\* No invocation follows more accounts than its budget: a batch is never larger
\* than what is left of it.
THEOREM Budget == Spec => []BudgetRespected
<1>1. Truthful => BudgetRespected
  BY DEF Truthful, BudgetOK, BudgetRespected
<1> QED BY <1>1, AlwaysTruthful, PTL
=============================================================================
