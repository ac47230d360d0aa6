------------------------ MODULE FollowQueueConcurrency ------------------------
(***************************************************************************)
(* What the processes of the follow queue may do to each other, for any    *)
(* number of them: how often they charge a job they share, that a job and  *)
(* a run that are finished are left alone, that the calls they make for    *)
(* the same account do not mix, and what a fault costs when there is one.  *)
(***************************************************************************)
EXTENDS FollowQueueProofs

(* Job (r, u) is still to be handled by the process, or in its hands.      *)
Turn(pr, r, u) ==
    /\ pr.run = r
    /\ \/ u \in pr.work /\ pr.pc \in {"job"} \cup Handling
       \/ u = pr.cur /\ pr.pc \in Handling

(* The row (r, u) is written in the open transaction of the process.       *)
Holds(pr, r, u) == pr.run = r /\ pr.job[u].status # "absent"

(* A process handles a job once in a transaction, and sends a request only *)
(* for one that had attempts to spare when it was fetched.                 *)
Diligent(pr) ==
    /\ \A u \in Users : Turn(pr, pr.run, u) => pr.job[u].status = "absent"
    /\ pr.pc \in {"rate", "page", "fetch"} => \A u \in Users : pr.job[u].status = "absent"
    /\ \/ pr.pc \in {"put", "record", "mark", "fail"}
       \/ pr.pc = "dead" /\ pr.result = "restricted"
       => pr.read[pr.cur] < MaxAttempts
    /\ pr.pc \in Handling => pr.cur \notin pr.work
    /\ pr.pc = "finish" => pr.kind = "run"

(* The processes that may still charge job (r, u).                         *)
Armed(r, u) == {q \in Procs : Turn(proc[q], r, u) /\ proc[q].read[u] < MaxAttempts}

Limit == MaxAttempts + Cardinality(Procs) - 1

(* The charges of a row, committed or not, and those still to come.  One   *)
(* transaction at a time writes it, and charges it once.                   *)
RowOK(r, u) ==
    /\ jobs[r][u].attempts + Cardinality(Armed(r, u)) <= Limit
    /\ \A q \in Procs : Holds(proc[q], r, u) =>
         /\ proc[q].job[u].attempts \in jobs[r][u].attempts .. jobs[r][u].attempts + 1
         /\ proc[q].job[u].attempts + Cardinality(Armed(r, u)) <= Limit
    /\ \A q1, q2 \in Procs : Holds(proc[q1], r, u) /\ Holds(proc[q2], r, u) => q1 = q2

(* A run belongs to the one process that began it, until it finishes it.   *)
Owned ==
    /\ \A p \in Procs : proc[p].kind = "run" =>
         proc[p].run \in Runs /\ runStatus[proc[p].run] \in {"running", "aborted"}
    /\ \A p, q \in Procs :
         proc[p].kind = "run" /\ proc[q].kind = "run" /\ proc[p].run = proc[q].run => p = q

Orderly ==
    /\ Truthful
    /\ Owned
    /\ \A p \in Procs : Diligent(proc[p])
    /\ \A r \in Runs, u \in Users : RowOK(r, u)

-----------------------------------------------------------------------------
(* A row and a step of one process.                                        *)

LEMMA ArmedFinite ==
    ASSUME NEW r, NEW u
    PROVE  /\ IsFiniteSet(Armed(r, u)) /\ Cardinality(Armed(r, u)) \in Nat
           /\ IsFiniteSet(Armed(r, u)') /\ Cardinality(Armed(r, u)') \in Nat
           /\ Cardinality(Armed(r, u)') <= Cardinality(Procs)
           /\ Cardinality(Procs) \in Nat
<1>1. Armed(r, u) \subseteq Procs /\ Armed(r, u)' \subseteq Procs
  BY DEF Armed
<1> QED BY <1>1, FiniteAssumption, FS_Subset, FS_CardinalityType

\* All that the lemmas below assume of a step of p and a row (r, u).
OneRow(p, r, u) ==
    /\ Truthful /\ RowOK(r, u) /\ TypeInv'
    /\ \A q \in Procs \ {p} : proc'[q] = proc[q]

LEMMA RowTypes ==
    ASSUME NEW p \in Procs, NEW r \in Runs, NEW u \in Users, OneRow(p, r, u)
    PROVE  /\ jobs[r][u].attempts \in Nat /\ jobs'[r][u].attempts \in Nat
           /\ \A q \in Procs : /\ proc[q].job[u].attempts \in Nat /\ proc'[q].job[u].attempts \in Nat
                               /\ proc[q].read[u] \in Nat
           /\ Limit \in Int /\ MaxAttempts \in Nat
<1>1. jobs[r][u] \in Job /\ jobs'[r][u] \in Job
  BY DEF OneRow, Truthful, TypeInv, TypeOK
<1>2. \A q \in Procs : proc[q] \in Process /\ proc'[q] \in Process
  BY DEF OneRow, Truthful, TypeInv, TypeOK
<1>3. \A q \in Procs : /\ proc[q].job[u] \in Job /\ proc'[q].job[u] \in Job
                       /\ proc[q].read[u] \in Nat
  BY <1>2 DEF Process
<1>4. Limit \in Int /\ MaxAttempts \in Nat
  BY ArmedFinite, BoundAssumption DEF Limit
<1> QED BY <1>1, <1>3, <1>4 DEF Job

\* Nobody new may charge the row, nor is it written.
LEMMA QuietRow ==
    ASSUME NEW p \in Procs, NEW r \in Runs, NEW u \in Users, OneRow(p, r, u),
           jobs'[r][u] = jobs[r][u],
           Turn(proc'[p], r, u) => Turn(proc[p], r, u) /\ proc'[p].read[u] = proc[p].read[u],
           Holds(proc'[p], r, u) => Holds(proc[p], r, u) /\ proc'[p].job[u] = proc[p].job[u]
    PROVE  RowOK(r, u)'
<1>1. Armed(r, u)' \subseteq Armed(r, u)
  BY DEF Armed, OneRow
<1>2. Cardinality(Armed(r, u)') <= Cardinality(Armed(r, u))
  BY <1>1, ArmedFinite, FS_Subset
<1>3. \A q \in Procs : Holds(proc'[q], r, u) =>
        Holds(proc[q], r, u) /\ proc'[q].job[u] = proc[q].job[u]
  BY DEF OneRow
<1>4. jobs'[r][u].attempts + Cardinality(Armed(r, u)') <= Limit
  BY <1>2, RowTypes, ArmedFinite DEF OneRow, RowOK
<1>5. ASSUME NEW q \in Procs, Holds(proc'[q], r, u)
      PROVE  /\ proc'[q].job[u].attempts \in jobs'[r][u].attempts .. jobs'[r][u].attempts + 1
             /\ proc'[q].job[u].attempts + Cardinality(Armed(r, u)') <= Limit
  BY <1>2, <1>3, <1>5, RowTypes, ArmedFinite DEF OneRow, RowOK
<1>6. \A q1, q2 \in Procs : Holds(proc'[q1], r, u) /\ Holds(proc'[q2], r, u) => q1 = q2
  BY <1>3 DEF OneRow, RowOK
<1> QED BY <1>4, <1>5, <1>6 DEF RowOK, Limit

\* p fetches the job.  If it may charge it, the row has attempts to spare but for
\* what another, who has had his turn, may have written and not committed.
LEMMA FetchedRow ==
    ASSUME NEW p \in Procs, NEW r \in Runs, NEW u \in Users, OneRow(p, r, u),
           \A q \in Procs : Diligent(proc[q]),
           jobs'[r][u] = jobs[r][u],
           ~Holds(proc[p], r, u), ~Holds(proc'[p], r, u),
           proc'[p].read[u] = jobs[r][u].attempts
    PROVE  RowOK(r, u)'
<1>1. \A q \in Procs : Holds(proc'[q], r, u) =>
        q # p /\ Holds(proc[q], r, u) /\ proc'[q] = proc[q]
  BY DEF OneRow
<1>2. CASE jobs[r][u].attempts >= MaxAttempts
  <2>1. p \notin Armed(r, u)'
    BY <1>2, RowTypes DEF Armed
  <2>2. Armed(r, u)' \subseteq Armed(r, u)
    BY <2>1 DEF Armed, OneRow
  <2>3. Cardinality(Armed(r, u)') <= Cardinality(Armed(r, u))
    BY <2>2, ArmedFinite, FS_Subset
  <2>4. jobs'[r][u].attempts + Cardinality(Armed(r, u)') <= Limit
    BY <2>3, RowTypes, ArmedFinite DEF OneRow, RowOK
  <2>5. ASSUME NEW q \in Procs, Holds(proc'[q], r, u)
        PROVE  /\ proc'[q].job[u].attempts \in jobs'[r][u].attempts .. jobs'[r][u].attempts + 1
               /\ proc'[q].job[u].attempts + Cardinality(Armed(r, u)') <= Limit
    BY <1>1, <2>3, <2>5, RowTypes, ArmedFinite DEF OneRow, RowOK
  <2>6. \A q1, q2 \in Procs : Holds(proc'[q1], r, u) /\ Holds(proc'[q2], r, u) => q1 = q2
    BY <1>1 DEF OneRow, RowOK
  <2> QED BY <2>4, <2>5, <2>6 DEF RowOK, Limit
<1>3. CASE jobs[r][u].attempts < MaxAttempts
  <2>1. jobs'[r][u].attempts + Cardinality(Armed(r, u)') <= Limit
    BY <1>3, RowTypes, ArmedFinite DEF Limit
  <2>2. ASSUME NEW q \in Procs, Holds(proc'[q], r, u)
        PROVE  /\ proc'[q].job[u].attempts \in jobs'[r][u].attempts .. jobs'[r][u].attempts + 1
               /\ proc'[q].job[u].attempts + Cardinality(Armed(r, u)') <= Limit
    <3>1. q # p /\ Holds(proc[q], r, u) /\ proc'[q] = proc[q]
      BY <1>1, <2>2
    <3>2. proc[q].job[u].attempts \in jobs[r][u].attempts .. jobs[r][u].attempts + 1
      BY <3>1 DEF OneRow, RowOK
    <3>3. ~Turn(proc'[q], r, u)
      BY <3>1 DEF Diligent, Holds, Turn
    <3>4. Armed(r, u)' \subseteq Procs \ {q}
      BY <3>3 DEF Armed
    <3>5. Cardinality(Armed(r, u)') <= Cardinality(Procs) - 1
      <4>1. Cardinality(Procs \ {q}) = Cardinality(Procs) - 1 /\ IsFiniteSet(Procs \ {q})
        BY FiniteAssumption, FS_RemoveElement
      <4> QED BY <3>4, <4>1, FS_Subset
    <3> QED BY <1>3, <3>1, <3>2, <3>5, RowTypes, ArmedFinite DEF Limit
  <2>3. \A q1, q2 \in Procs : Holds(proc'[q1], r, u) /\ Holds(proc'[q2], r, u) => q1 = q2
    BY <1>1 DEF OneRow, RowOK
  <2> QED BY <2>1, <2>2, <2>3 DEF RowOK, Limit
<1> QED BY <1>2, <1>3, RowTypes

\* p writes the row, which it may charge only if it was armed; it no longer is.
LEMMA WrittenRow ==
    ASSUME NEW p \in Procs, NEW r \in Runs, NEW u \in Users, OneRow(p, r, u),
           Diligent(proc[p]), jobs'[r][u] = jobs[r][u],
           proc[p].run = r, JobRowHolders(p, r, u) = {}, ~Turn(proc'[p], r, u),
           \/ proc'[p].job[u].attempts = JobSeen(p, u).attempts
           \/ /\ proc'[p].job[u].attempts = JobSeen(p, u).attempts + 1
              /\ Turn(proc[p], r, u) /\ proc[p].read[u] < MaxAttempts
    PROVE  RowOK(r, u)'
<1>1. \A q \in Procs : Holds(proc'[q], r, u) => q = p
  BY DEF JobRowHolders, Holds, OneRow
<1>2. Armed(r, u)' \subseteq Armed(r, u) /\ p \notin Armed(r, u)'
  BY DEF Armed, OneRow
<1>3. Cardinality(Armed(r, u)') <= Cardinality(Armed(r, u))
  BY <1>2, ArmedFinite, FS_Subset
<1>4. jobs'[r][u].attempts + Cardinality(Armed(r, u)') <= Limit
  BY <1>3, RowTypes, ArmedFinite DEF OneRow, RowOK
<1>5. /\ proc'[p].job[u].attempts \in jobs'[r][u].attempts .. jobs'[r][u].attempts + 1
      /\ proc'[p].job[u].attempts + Cardinality(Armed(r, u)') <= Limit
  <2>1. CASE proc'[p].job[u].attempts = JobSeen(p, u).attempts
    <3>1. CASE Holds(proc[p], r, u)
      <4>1. JobSeen(p, u) = proc[p].job[u]
        BY <3>1 DEF JobSeen, Holds
      <4> QED BY <1>3, <2>1, <3>1, <4>1, RowTypes, ArmedFinite DEF OneRow, RowOK
    <3>2. CASE ~Holds(proc[p], r, u)
      <4>1. JobSeen(p, u) = jobs[r][u]
        BY <3>2 DEF JobSeen, Holds
      <4> QED BY <1>4, <2>1, <4>1, RowTypes, ArmedFinite
    <3> QED BY <3>1, <3>2
  <2>2. CASE /\ proc'[p].job[u].attempts = JobSeen(p, u).attempts + 1
             /\ Turn(proc[p], r, u) /\ proc[p].read[u] < MaxAttempts
    <3>1. JobSeen(p, u) = jobs[r][u]
      BY <2>2 DEF JobSeen, Diligent
    <3>2. p \in Armed(r, u)
      BY <2>2 DEF Armed
    <3>3. Cardinality(Armed(r, u)') <= Cardinality(Armed(r, u)) - 1
      <4>1. /\ Cardinality(Armed(r, u) \ {p}) = Cardinality(Armed(r, u)) - 1
            /\ IsFiniteSet(Armed(r, u) \ {p})
        BY <3>2, ArmedFinite, FS_RemoveElement
      <4>2. Armed(r, u)' \subseteq Armed(r, u) \ {p}
        BY <1>2
      <4> QED BY <4>1, <4>2, FS_Subset
    <3>4. jobs[r][u].attempts + Cardinality(Armed(r, u)) <= Limit
      BY DEF OneRow, RowOK
    <3> QED BY <2>2, <3>1, <3>3, <3>4, RowTypes, ArmedFinite
  <2> QED BY <2>1, <2>2
<1> QED BY <1>1, <1>4, <1>5 DEF RowOK, Limit

\* p commits.  If it holds the row nobody else does.
LEMMA CommittedRow ==
    ASSUME NEW p \in Procs, NEW r \in Runs, NEW u \in Users, OneRow(p, r, u),
           jobs'[r][u] = IF Holds(proc[p], r, u) THEN proc[p].job[u] ELSE jobs[r][u],
           ~Holds(proc'[p], r, u), ~Turn(proc'[p], r, u)
    PROVE  RowOK(r, u)'
<1>1. Armed(r, u)' \subseteq Armed(r, u)
  BY DEF Armed, OneRow
<1>2. Cardinality(Armed(r, u)') <= Cardinality(Armed(r, u))
  BY <1>1, ArmedFinite, FS_Subset
<1>3. jobs'[r][u].attempts + Cardinality(Armed(r, u)') <= Limit
  BY <1>2, RowTypes, ArmedFinite DEF OneRow, RowOK
<1>4. \A q \in Procs : Holds(proc'[q], r, u) =>
        q # p /\ Holds(proc[q], r, u) /\ proc'[q] = proc[q]
  BY DEF OneRow
<1>5. ASSUME NEW q \in Procs, Holds(proc'[q], r, u)
      PROVE  /\ proc'[q].job[u].attempts \in jobs'[r][u].attempts .. jobs'[r][u].attempts + 1
             /\ proc'[q].job[u].attempts + Cardinality(Armed(r, u)') <= Limit
  <2>1. q # p /\ Holds(proc[q], r, u) /\ proc'[q] = proc[q]
    BY <1>4, <1>5
  <2>2. jobs'[r][u] = jobs[r][u]
    BY <2>1 DEF OneRow, RowOK
  <2> QED BY <1>2, <2>1, <2>2, RowTypes, ArmedFinite DEF OneRow, RowOK
<1>6. \A q1, q2 \in Procs : Holds(proc'[q1], r, u) /\ Holds(proc'[q2], r, u) => q1 = q2
  BY <1>4 DEF OneRow, RowOK
<1> QED BY <1>3, <1>5, <1>6 DEF RowOK, Limit

-----------------------------------------------------------------------------
(* Steps that write no follow_jobs row and fetch none.                     *)

(* What such a step of p leaves alone.                                     *)
Quiet(p) ==
    /\ \A r \in Runs, u \in Users :
         /\ Turn(proc'[p], r, u) => Turn(proc[p], r, u) /\ proc'[p].read[u] = proc[p].read[u]
         /\ Holds(proc'[p], r, u) => Holds(proc[p], r, u) /\ proc'[p].job[u] = proc[p].job[u]
    /\ proc'[p].pc = "enqueue" => /\ proc'[p].run = proc[p].run
                                  /\ JobSeen(p, proc'[p].cur).status \notin {"pending", "done"}
    /\ jobs' = jobs

KeepsRun(p) ==
    /\ proc'[p].kind = "run" => proc[p].kind = "run" /\ proc'[p].run = proc[p].run
    /\ runStatus' = runStatus

LEMMA CheckRateLimitQuiet ==
    ASSUME Orderly, NEW p \in Procs, CheckRateLimit(p)
    PROVE  Quiet(p) /\ KeepsRun(p) /\ Diligent(proc'[p])
<1>1. proc[p] \in Process /\ Diligent(proc[p]) /\ proc[p].run \in Runs
  BY DEF Orderly, CheckRateLimit, Truthful, TypeInv, TypeOK, Shape
<1>2. /\ proc'[p].kind = proc[p].kind /\ proc'[p].run = proc[p].run
      /\ proc'[p].job = proc[p].job
      /\ proc'[p].pc = "page"
  BY <1>1 DEF CheckRateLimit, Process, Orderly, Truthful, TypeInv, TypeOK
<1>3. jobs' = jobs /\ runStatus' = runStatus
  BY DEF CheckRateLimit, db
<1>4. Quiet(p) /\ KeepsRun(p)
  BY <1>1, <1>2, <1>3 DEF CheckRateLimit, Quiet, KeepsRun, Turn, Holds, Handling
<1>5. Diligent(proc'[p])
  BY <1>1, <1>2 DEF CheckRateLimit, Diligent, Turn, Handling
<1> QED BY <1>4, <1>5

LEMMA FetchPageQuiet ==
    ASSUME Orderly, NEW p \in Procs, FetchPage(p)
    PROVE  Quiet(p) /\ KeepsRun(p) /\ Diligent(proc'[p])
<1>1. proc[p] \in Process /\ Diligent(proc[p]) /\ proc[p].run \in Runs
  BY DEF Orderly, FetchPage, Truthful, TypeInv, TypeOK, Shape
<1>2. /\ proc'[p].kind = proc[p].kind /\ proc'[p].run = proc[p].run
      /\ proc'[p].job = proc[p].job
      /\ proc'[p].pc \in {"see", "fetch"}
  <2>1. CASE \E page \in SUBSET Users :
               proc' = [proc EXCEPT ![p].pc = "see", ![p].work = page,
                                    ![p].pages = @ - 1, ![p].txn = @ \/ Expand]
    BY <1>1, <2>1 DEF Process, Orderly, Truthful, TypeInv, TypeOK
  <2>2. CASE proc' = [proc EXCEPT ![p].pc = "fetch"]
    BY <1>1, <2>2 DEF Process, Orderly, Truthful, TypeInv, TypeOK
  <2> QED BY <2>1, <2>2 DEF FetchPage
<1>3. jobs' = jobs /\ runStatus' = runStatus
  BY DEF FetchPage, db
<1>4. Quiet(p) /\ KeepsRun(p)
  BY <1>1, <1>2, <1>3 DEF FetchPage, Quiet, KeepsRun, Turn, Holds, Handling
<1>5. Diligent(proc'[p])
  BY <1>1, <1>2 DEF FetchPage, Diligent, Turn, Handling
<1> QED BY <1>4, <1>5

LEMMA SeeCandidateQuiet ==
    ASSUME Orderly, NEW p \in Procs, NEW u \in Users, SeeCandidate(p, u)
    PROVE  Quiet(p) /\ KeepsRun(p) /\ Diligent(proc'[p])
<1>1. proc[p] \in Process /\ Diligent(proc[p]) /\ proc[p].run \in Runs
  BY DEF Orderly, SeeCandidate, Truthful, TypeInv, TypeOK, Shape
<1>2. /\ proc'[p].kind = proc[p].kind /\ proc'[p].run = proc[p].run
      /\ proc'[p].job = proc[p].job
      /\ proc'[p].pc = "candidate"
  BY <1>1 DEF SeeCandidate, Process, Orderly, Truthful, TypeInv, TypeOK
<1>3. jobs' = jobs /\ runStatus' = runStatus
  BY DEF SeeCandidate, db
<1>4. Quiet(p) /\ KeepsRun(p)
  BY <1>1, <1>2, <1>3 DEF SeeCandidate, Quiet, KeepsRun, Turn, Holds, Handling
<1>5. Diligent(proc'[p])
  BY <1>1, <1>2 DEF SeeCandidate, Diligent, Turn, Handling
<1> QED BY <1>4, <1>5

LEMMA CheckCandidateQuiet ==
    ASSUME Orderly, NEW p \in Procs, CheckCandidate(p)
    PROVE  Quiet(p) /\ KeepsRun(p) /\ Diligent(proc'[p])
<1>1. proc[p] \in Process /\ Diligent(proc[p]) /\ proc[p].run \in Runs
  BY DEF Orderly, CheckCandidate, Truthful, TypeInv, TypeOK, Shape
<1>2. /\ proc'[p].kind = proc[p].kind /\ proc'[p].run = proc[p].run
      /\ proc'[p].job = proc[p].job
      /\ proc'[p].cur = proc[p].cur
      /\ proc'[p].pc = IF Skip(p, proc[p].cur) THEN NextEntry(p) ELSE "enqueue"
  BY <1>1 DEF CheckCandidate, Process, Orderly, Truthful, TypeInv, TypeOK
<1>3. jobs' = jobs /\ runStatus' = runStatus
  BY DEF CheckCandidate, db
<1>4. Quiet(p) /\ KeepsRun(p)
  BY <1>1, <1>2, <1>3 DEF CheckCandidate, Quiet, KeepsRun, Turn, Holds, Handling, Skip, NextEntry
<1>5. Diligent(proc'[p])
  BY <1>1, <1>2 DEF CheckCandidate, Diligent, Turn, Handling, NextEntry
<1> QED BY <1>4, <1>5

LEMMA TakeJobQuiet ==
    ASSUME Orderly, NEW p \in Procs, TakeJob(p)
    PROVE  Quiet(p) /\ KeepsRun(p) /\ Diligent(proc'[p])
<1>1. proc[p] \in Process /\ Diligent(proc[p]) /\ proc[p].run \in Runs /\ proc[p].pc = "job"
  BY DEF Orderly, TakeJob, Truthful, TypeInv, TypeOK, Shape
<1>2. PICK u \in proc[p].work :
        proc' = [proc EXCEPT ![p].pc = Plan(p, u),
                   ![p].result = IF Plan(p, u) = "record" THEN "dry" ELSE "none",
                   ![p].cur = u, ![p].work = @ \ {u}, ![p].seen = @ \cup {u}]
  BY DEF TakeJob
<1>3. /\ proc'[p].kind = proc[p].kind /\ proc'[p].run = proc[p].run
      /\ proc'[p].job = proc[p].job
      /\ proc'[p].read = proc[p].read /\ proc'[p].cur = u
      /\ proc'[p].work = proc[p].work \ {u} /\ proc'[p].pc = Plan(p, u)
      /\ proc'[p].result \in {"dry", "none"}
  BY <1>1, <1>2 DEF Process, Orderly, Truthful, TypeInv, TypeOK
<1>4. /\ Plan(p, u) \in {"done", "dead", "record", "put"}
      /\ Plan(p, u) \in {"record", "put"} => ~(proc[p].read[u] >= MaxAttempts)
  BY DEF Plan
<1>5. jobs' = jobs /\ runStatus' = runStatus
  BY DEF TakeJob, db
<1>6. Quiet(p) /\ KeepsRun(p)
  BY <1>1, <1>3, <1>4, <1>5 DEF Quiet, KeepsRun, Turn, Holds, Handling
<1>7. Diligent(proc'[p])
  <2>1. proc[p].read[u] \in Nat /\ MaxAttempts \in Nat
    BY <1>1, <1>2, BoundAssumption DEF Process
  <2> QED BY <1>1, <1>3, <1>4, <2>1 DEF Diligent, Turn, Handling
<1> QED BY <1>6, <1>7

LEMMA FollowUserQuiet ==
    ASSUME Orderly, NEW p \in Procs, FollowUser(p)
    PROVE  Quiet(p) /\ KeepsRun(p) /\ Diligent(proc'[p])
<1>1. proc[p] \in Process /\ Diligent(proc[p]) /\ proc[p].pc = "put"
  BY DEF Orderly, FollowUser, Truthful, TypeInv, TypeOK
<1>2. PICK result \in {"ok", "restricted", "error"} :
        proc' = [proc EXCEPT ![p].pc = "record", ![p].result = result]
  BY DEF FollowUser
<1>3. /\ proc'[p].kind = proc[p].kind /\ proc'[p].run = proc[p].run
      /\ proc'[p].job = proc[p].job
      /\ proc'[p].read = proc[p].read /\ proc'[p].cur = proc[p].cur
      /\ proc'[p].work = proc[p].work /\ proc'[p].pc = "record"
  BY <1>1, <1>2 DEF Process, Orderly, Truthful, TypeInv, TypeOK
<1>4. jobs' = jobs /\ runStatus' = runStatus
  BY DEF FollowUser, db
<1>5. Quiet(p) /\ KeepsRun(p)
  BY <1>1, <1>3, <1>4 DEF Quiet, KeepsRun, Turn, Holds, Handling
<1>6. Diligent(proc'[p])
  BY <1>1, <1>3 DEF Diligent, Turn, Handling
<1> QED BY <1>5, <1>6

LEMMA AddFollowActionQuiet ==
    ASSUME Orderly, NEW p \in Procs, AddFollowAction(p)
    PROVE  Quiet(p) /\ KeepsRun(p) /\ Diligent(proc'[p])
<1>1. proc[p] \in Process /\ Diligent(proc[p]) /\ proc[p].pc = "record"
  BY DEF Orderly, AddFollowAction, Truthful, TypeInv, TypeOK
<1>2. /\ proc'[p].kind = proc[p].kind /\ proc'[p].run = proc[p].run
      /\ proc'[p].job = proc[p].job
      /\ proc'[p].read = proc[p].read /\ proc'[p].cur = proc[p].cur
      /\ proc'[p].work = proc[p].work /\ proc'[p].pc = AfterAction(proc[p].result)
  BY <1>1 DEF AddFollowAction, Process, Orderly, Truthful, TypeInv, TypeOK
<1>3. proc'[p].pc \in {"mark", "done", "dead", "fail"}
  BY <1>2 DEF AfterAction
<1>4. jobs' = jobs /\ runStatus' = runStatus
  BY DEF AddFollowAction, db
<1>5. Quiet(p) /\ KeepsRun(p)
  BY <1>1, <1>2, <1>3, <1>4 DEF Quiet, KeepsRun, Turn, Holds, Handling
<1>6. Diligent(proc'[p])
  BY <1>1, <1>2, <1>3 DEF Diligent, Turn, Handling
<1> QED BY <1>5, <1>6

LEMMA MarkFollowedQuiet ==
    ASSUME Orderly, NEW p \in Procs, MarkFollowed(p)
    PROVE  Quiet(p) /\ KeepsRun(p) /\ Diligent(proc'[p])
<1>1. proc[p] \in Process /\ Diligent(proc[p]) /\ proc[p].pc = "mark"
  BY DEF Orderly, MarkFollowed, Truthful, TypeInv, TypeOK
<1>2. /\ proc'[p].kind = proc[p].kind /\ proc'[p].run = proc[p].run
      /\ proc'[p].job = proc[p].job
      /\ proc'[p].read = proc[p].read /\ proc'[p].cur = proc[p].cur
      /\ proc'[p].work = proc[p].work /\ proc'[p].pc = "done"
  BY <1>1 DEF MarkFollowed, Process, Orderly, Truthful, TypeInv, TypeOK
<1>3. jobs' = jobs /\ runStatus' = runStatus
  BY DEF MarkFollowed, db
<1>4. Quiet(p) /\ KeepsRun(p)
  BY <1>1, <1>2, <1>3 DEF Quiet, KeepsRun, Turn, Holds, Handling
<1>5. Diligent(proc'[p])
  BY <1>1, <1>2 DEF Diligent, Turn, Handling
<1> QED BY <1>4, <1>5

\* A process that ends, in whatever way, has no turn and holds nothing.
LEMMA IdleQuiet ==
    ASSUME Orderly, NEW p \in Procs, proc' = [proc EXCEPT ![p] = Idle],
           UNCHANGED <<jobs, runStatus>>
    PROVE  Quiet(p) /\ KeepsRun(p) /\ Diligent(proc'[p])
<1>1. proc'[p] = Idle
  BY DEF Orderly, Truthful, TypeInv, TypeOK
<1>2. /\ Idle.pc = "idle" /\ Idle.kind = "queue" /\ Idle.work = {}
      /\ \A u \in Users : Idle.job[u].status = "absent"
  BY DEF Idle, NoJob
<1>3. Quiet(p) /\ KeepsRun(p)
  BY <1>1, <1>2 DEF Quiet, KeepsRun, Turn, Holds, Handling
<1>4. Diligent(proc'[p])
  BY <1>1, <1>2 DEF Diligent, Turn, Handling
<1> QED BY <1>3, <1>4

\* A run on its way to finish_run whose transaction was rolled back.
LEMMA RolledBackQuiet ==
    ASSUME Orderly, NEW p \in Procs, proc[p].kind = "run",
           proc' = [proc EXCEPT ![p] = [NoTxn(@) EXCEPT !.pc = "finish", !.error = TRUE]],
           UNCHANGED <<jobs, runStatus>>
    PROVE  Quiet(p) /\ KeepsRun(p) /\ Diligent(proc'[p])
<1>1. proc[p] \in Process
  BY DEF Orderly, Truthful, TypeInv, TypeOK
<1>2. /\ proc'[p].kind = proc[p].kind /\ proc'[p].run = proc[p].run /\ proc'[p].pc = "finish"
      /\ \A u \in Users : proc'[p].job[u].status = "absent"
  BY <1>1 DEF NoTxn, NoJob, Process, Orderly, Truthful, TypeInv, TypeOK
<1>3. Quiet(p) /\ KeepsRun(p)
  BY <1>2 DEF Quiet, KeepsRun, Turn, Holds, Handling
<1>4. Diligent(proc'[p])
  BY <1>2 DEF Diligent, Turn, Handling
<1> QED BY <1>3, <1>4

LEMMA GiveUpQuiet ==
    ASSUME Orderly, NEW p \in Procs, GiveUp(p)
    PROVE  Quiet(p) /\ KeepsRun(p) /\ Diligent(proc'[p])
<1>1. AfterStorageError(p)
  BY DEF GiveUp, LockTimeout, DeadlockVictim
<1> QED BY <1>1, IdleQuiet, RolledBackQuiet DEF AfterStorageError, db

-----------------------------------------------------------------------------
(* Every kind of step keeps the invariant, and a job that is done alone.   *)

(* Job (r, u) is in the hands of the process, as InHand says.              *)
Keeps(pr, r, u) ==
    Turn(pr, r, u) \/ Holds(pr, r, u) \/ (pr.run = r /\ u = pr.cur /\ pr.pc = "enqueue")

LeavesDone(p) ==
    \A r \in Runs, u \in Users :
        jobs[r][u].status = "done" /\ ~Keeps(proc[p], r, u) =>
            jobs'[r][u].status = "done" /\ ~Keeps(proc'[p], r, u)

(* A step of p, as seen by everybody else.                                 *)
StepOf(p) == Orderly /\ Truthful' /\ \A q \in Procs \ {p} : proc'[q] = proc[q]

LEMMA OwnedKept ==
    ASSUME Owned, NEW p \in Procs, StepOf(p), KeepsRun(p)
    PROVE  Owned'
BY DEF Owned, StepOf, KeepsRun

LEMMA QuietOK ==
    ASSUME NEW p \in Procs, StepOf(p), Quiet(p), KeepsRun(p), Diligent(proc'[p])
    PROVE  Orderly' /\ LeavesDone(p)
<1>1. ASSUME NEW r \in Runs, NEW u \in Users
      PROVE  RowOK(r, u)'
  <2>1. OneRow(p, r, u)
    BY DEF StepOf, Orderly, OneRow, Truthful
  <2> QED BY <2>1, QuietRow DEF Quiet
<1>2. Owned'
  BY OwnedKept DEF StepOf, Orderly
<1>3. LeavesDone(p)
  BY DEF Quiet, LeavesDone, Keeps, JobSeen, Holds
<1> QED BY <1>1, <1>2, <1>3 DEF Orderly, StepOf

LEMMA CommittedOK ==
    ASSUME NEW p \in Procs, StepOf(p), Commit(p), proc[p].run \in Runs, KeepsRun(p),
           proc'[p].run = proc[p].run, proc'[p].pc \in {"page", "fetch", "finish"},
           proc'[p].pc = "finish" => proc'[p].kind = "run",
           \A u \in Users : proc'[p].job[u].status = "absent"
    PROVE  Orderly' /\ LeavesDone(p)
<1>1. \A r \in Runs, u \in Users :
        jobs'[r][u] = IF Holds(proc[p], r, u) THEN proc[p].job[u] ELSE jobs[r][u]
  BY DEF Commit, JobSeen, Holds
<1>2. \A r \in Runs, u \in Users :
        ~Turn(proc'[p], r, u) /\ ~Holds(proc'[p], r, u) /\ ~Keeps(proc'[p], r, u)
  BY DEF Turn, Holds, Keeps, Handling
<1>3. ASSUME NEW r \in Runs, NEW u \in Users
      PROVE  RowOK(r, u)'
  <2>1. OneRow(p, r, u)
    BY DEF StepOf, Orderly, OneRow, Truthful
  <2> QED BY <1>1, <1>2, <2>1, CommittedRow
<1>4. Diligent(proc'[p])
  BY DEF Diligent, Turn, Handling
<1>5. Owned'
  BY OwnedKept DEF StepOf, Orderly
<1>6. LeavesDone(p)
  BY <1>1, <1>2 DEF LeavesDone, Keeps
<1> QED BY <1>3, <1>4, <1>5, <1>6 DEF Orderly, StepOf

\* The row of the account in hand is written, and charged if that is its turn.
LEMMA WrittenOK ==
    ASSUME NEW p \in Procs, StepOf(p), KeepsRun(p), jobs' = jobs,
           NEW row, proc[p].run \in Runs, proc[p].cur \in Users,
           proc[p].pc \in {"enqueue"} \cup Handling, CanWriteJob(p, proc[p].cur),
           proc'[p].run = proc[p].run, proc'[p].cur = proc[p].cur,
           proc'[p].work = proc[p].work, proc'[p].read = proc[p].read,
           proc'[p].job = [proc[p].job EXCEPT ![proc[p].cur] = row],
           proc[p].pc = "enqueue" => proc'[p].pc \in {"see", "endpage"},
           proc[p].pc \in Handling => proc'[p].pc \in {"job", "commit"},
           \/ row.attempts = JobSeen(p, proc[p].cur).attempts
           \/ /\ row.attempts = JobSeen(p, proc[p].cur).attempts + 1
              /\ proc[p].pc \in Handling /\ proc[p].read[proc[p].cur] < MaxAttempts
    PROVE  Orderly' /\ LeavesDone(p)
<1>1. proc[p] \in Process /\ Diligent(proc[p]) /\ proc[p].job \in [Users -> Job]
  BY DEF StepOf, Orderly, Truthful, TypeInv, TypeOK, Process
<1>2. /\ proc'[p].job[proc[p].cur] = row
      /\ \A u \in Users \ {proc[p].cur} : proc'[p].job[u] = proc[p].job[u]
  BY <1>1
<1>3. \A r \in Runs, u \in Users : Turn(proc'[p], r, u) =>
        Turn(proc[p], r, u) /\ u # proc[p].cur
  BY <1>1 DEF Turn, Diligent, Handling
<1>4. ASSUME NEW r \in Runs, NEW u \in Users
      PROVE  RowOK(r, u)'
  <2>1. OneRow(p, r, u)
    BY DEF StepOf, Orderly, OneRow, Truthful
  <2>2. CASE r = proc[p].run /\ u = proc[p].cur
    <3>1. JobRowHolders(p, r, u) = {} /\ ~Turn(proc'[p], r, u)
      BY <1>3, <2>2 DEF CanWriteJob
    <3>2. proc[p].pc \in Handling => Turn(proc[p], r, u)
      BY <2>2 DEF Turn
    <3> QED BY <1>1, <1>2, <2>1, <2>2, <3>1, <3>2, WrittenRow
  <2>3. CASE ~(r = proc[p].run /\ u = proc[p].cur)
    <3>1. Holds(proc'[p], r, u) => Holds(proc[p], r, u) /\ proc'[p].job[u] = proc[p].job[u]
      BY <1>2, <2>3 DEF Holds
    <3> QED BY <1>3, <2>1, <3>1, QuietRow
  <2> QED BY <2>2, <2>3
<1>5. Diligent(proc'[p])
  <2>1. ASSUME NEW u \in Users, Turn(proc'[p], proc'[p].run, u)
        PROVE  proc'[p].job[u].status = "absent"
    BY <1>1, <1>2, <1>3, <2>1 DEF Diligent
  <2> QED BY <2>1 DEF Diligent, Handling
<1>6. Owned'
  BY OwnedKept DEF StepOf, Orderly
<1>7. LeavesDone(p)
  <2>1. ASSUME NEW r \in Runs, NEW u \in Users, ~Keeps(proc[p], r, u)
        PROVE  ~Keeps(proc'[p], r, u)
    <3>1. ~(r = proc[p].run /\ u = proc[p].cur)
      BY <2>1 DEF Keeps, Turn
    <3> QED BY <1>2, <1>3, <2>1, <3>1 DEF Keeps, Holds, Handling
  <2> QED BY <2>1 DEF LeavesDone
<1> QED BY <1>4, <1>5, <1>6, <1>7 DEF Orderly, StepOf

-----------------------------------------------------------------------------
(* The steps that write, commit or fetch follow_jobs rows.                 *)

LEMMA UpsertedAttempts ==
    ASSUME NEW p \in Procs, NEW u \in Users, NEW status, JobSeen(p, u).attempts \in Nat
    PROVE  /\ Upserted(p, u, status, FALSE).attempts = JobSeen(p, u).attempts
           /\ Upserted(p, u, status, TRUE).attempts = JobSeen(p, u).attempts + 1
BY DEF Upserted

LEMMA EnqueueCandidateStep ==
    ASSUME NEW p \in Procs, StepOf(p), EnqueueCandidate(p)
    PROVE  Orderly' /\ LeavesDone(p) /\ KeepsRun(p)
<1>1. /\ proc[p] \in Process /\ Diligent(proc[p]) /\ proc[p].run \in Runs /\ proc[p].cur \in Users
      /\ JobSeen(p, proc[p].cur).attempts \in Nat
  <2>1. /\ proc[p] \in Process /\ Diligent(proc[p]) /\ proc[p].run \in Runs
        /\ proc[p].cur \in Users /\ TypeOK
    BY DEF EnqueueCandidate, StepOf, Orderly, Truthful, TypeInv, TypeOK, Shape, InHandPC
  <2> QED BY <2>1, JobSeenTyped DEF Job
<1> DEFINE row == Upserted(p, proc[p].cur, "pending", FALSE)
<1>2. /\ proc'[p].job = [proc[p].job EXCEPT ![proc[p].cur] = row]
      /\ proc'[p].kind = proc[p].kind /\ proc'[p].run = proc[p].run
      /\ proc'[p].cur = proc[p].cur /\ proc'[p].work = proc[p].work
      /\ proc'[p].read = proc[p].read /\ proc'[p].pc = NextEntry(p)
  BY <1>1 DEF EnqueueCandidate, Process, StepOf, Orderly, Truthful, TypeInv, TypeOK
<1>3. jobs' = jobs /\ KeepsRun(p)
  BY <1>2 DEF EnqueueCandidate, db, KeepsRun
<1>4. row.attempts = JobSeen(p, proc[p].cur).attempts
  BY <1>1, UpsertedAttempts
<1> HIDE DEF row
<1>5. Orderly' /\ LeavesDone(p)
  BY <1>1, <1>2, <1>3, <1>4, WrittenOK DEF EnqueueCandidate, NextEntry, Handling
<1> QED BY <1>3, <1>5

LEMMA MarkDoneStep ==
    ASSUME NEW p \in Procs, StepOf(p), MarkDone(p)
    PROVE  Orderly' /\ LeavesDone(p) /\ KeepsRun(p)
<1>1. /\ proc[p] \in Process /\ Diligent(proc[p]) /\ proc[p].run \in Runs /\ proc[p].cur \in Users
      /\ JobSeen(p, proc[p].cur).attempts \in Nat
  <2>1. /\ proc[p] \in Process /\ Diligent(proc[p]) /\ proc[p].run \in Runs
        /\ proc[p].cur \in Users /\ TypeOK
    BY DEF MarkDone, StepOf, Orderly, Truthful, TypeInv, TypeOK, Shape, InHandPC
  <2> QED BY <2>1, JobSeenTyped DEF Job
<1> DEFINE row == Upserted(p, proc[p].cur, "done", FALSE)
<1>2. /\ proc'[p].job = [proc[p].job EXCEPT ![proc[p].cur] = row]
      /\ proc'[p].kind = proc[p].kind /\ proc'[p].run = proc[p].run
      /\ proc'[p].cur = proc[p].cur /\ proc'[p].work = proc[p].work
      /\ proc'[p].read = proc[p].read /\ proc'[p].pc = NextJob(p)
  BY <1>1 DEF MarkDone, Process, StepOf, Orderly, Truthful, TypeInv, TypeOK
<1>3. jobs' = jobs /\ KeepsRun(p)
  BY <1>2 DEF MarkDone, db, KeepsRun
<1>4. row.attempts = JobSeen(p, proc[p].cur).attempts
  BY <1>1, UpsertedAttempts
<1> HIDE DEF row
<1>5. Orderly' /\ LeavesDone(p)
  BY <1>1, <1>2, <1>3, <1>4, WrittenOK DEF MarkDone, NextJob, Handling
<1> QED BY <1>3, <1>5

LEMMA DeadLetterStep ==
    ASSUME NEW p \in Procs, StepOf(p), DeadLetter(p)
    PROVE  Orderly' /\ LeavesDone(p) /\ KeepsRun(p)
<1>1. /\ proc[p] \in Process /\ Diligent(proc[p]) /\ proc[p].run \in Runs /\ proc[p].cur \in Users
      /\ JobSeen(p, proc[p].cur).attempts \in Nat
  <2>1. /\ proc[p] \in Process /\ Diligent(proc[p]) /\ proc[p].run \in Runs
        /\ proc[p].cur \in Users /\ TypeOK
    BY DEF DeadLetter, StepOf, Orderly, Truthful, TypeInv, TypeOK, Shape, InHandPC
  <2> QED BY <2>1, JobSeenTyped DEF Job
<1> DEFINE row == Upserted(p, proc[p].cur, "dead_letter", proc[p].result = "restricted")
<1>2. /\ proc'[p].job = [proc[p].job EXCEPT ![proc[p].cur] = row]
      /\ proc'[p].kind = proc[p].kind /\ proc'[p].run = proc[p].run
      /\ proc'[p].cur = proc[p].cur /\ proc'[p].work = proc[p].work
      /\ proc'[p].read = proc[p].read /\ proc'[p].pc = NextJob(p)
  BY <1>1 DEF DeadLetter, Process, StepOf, Orderly, Truthful, TypeInv, TypeOK
<1>3. jobs' = jobs /\ KeepsRun(p)
  BY <1>2 DEF DeadLetter, db, KeepsRun
<1>4. \/ row.attempts = JobSeen(p, proc[p].cur).attempts
      \/ /\ row.attempts = JobSeen(p, proc[p].cur).attempts + 1
         /\ proc[p].read[proc[p].cur] < MaxAttempts
  <2>1. CASE proc[p].result = "restricted"
    <3>1. proc[p].read[proc[p].cur] < MaxAttempts
      BY <1>1, <2>1 DEF Diligent, DeadLetter
    <3> QED BY <1>1, <2>1, <3>1, UpsertedAttempts
  <2>2. CASE proc[p].result # "restricted"
    BY <1>1, <2>2, UpsertedAttempts
  <2> QED BY <2>1, <2>2
<1> HIDE DEF row
<1>5. Orderly' /\ LeavesDone(p)
  BY <1>1, <1>2, <1>3, <1>4, WrittenOK DEF DeadLetter, NextJob, Handling
<1> QED BY <1>3, <1>5

LEMMA RecordFailureStep ==
    ASSUME NEW p \in Procs, StepOf(p), RecordFailure(p)
    PROVE  Orderly' /\ LeavesDone(p) /\ KeepsRun(p)
<1>1. /\ proc[p] \in Process /\ Diligent(proc[p]) /\ proc[p].run \in Runs /\ proc[p].cur \in Users
      /\ JobSeen(p, proc[p].cur).attempts \in Nat
  <2>1. /\ proc[p] \in Process /\ Diligent(proc[p]) /\ proc[p].run \in Runs
        /\ proc[p].cur \in Users /\ TypeOK
    BY DEF RecordFailure, StepOf, Orderly, Truthful, TypeInv, TypeOK, Shape, InHandPC
  <2> QED BY <2>1, JobSeenTyped DEF Job
<1> DEFINE row == FailedRow(p, proc[p].cur)
<1>2. /\ proc'[p].job = [proc[p].job EXCEPT ![proc[p].cur] = row]
      /\ proc'[p].kind = proc[p].kind /\ proc'[p].run = proc[p].run
      /\ proc'[p].cur = proc[p].cur /\ proc'[p].work = proc[p].work
      /\ proc'[p].read = proc[p].read /\ proc'[p].pc = NextJob(p)
  BY <1>1 DEF RecordFailure, Process, StepOf, Orderly, Truthful, TypeInv, TypeOK
<1>3. jobs' = jobs /\ KeepsRun(p)
  BY <1>2 DEF RecordFailure, db, KeepsRun
<1>4. /\ row.attempts = JobSeen(p, proc[p].cur).attempts + 1
      /\ proc[p].read[proc[p].cur] < MaxAttempts
  <2>1. row.attempts = Upserted(p, proc[p].cur, "failed", TRUE).attempts
    BY DEF FailedRow, Upserted
  <2>2. proc[p].read[proc[p].cur] < MaxAttempts
    BY <1>1 DEF Diligent, RecordFailure
  <2> QED BY <1>1, <2>1, <2>2, UpsertedAttempts
<1> HIDE DEF row
<1>5. Orderly' /\ LeavesDone(p)
  BY <1>1, <1>2, <1>3, <1>4, WrittenOK DEF RecordFailure, NextJob, Handling
<1> QED BY <1>3, <1>5

LEMMA CommitPageStep ==
    ASSUME NEW p \in Procs, StepOf(p), CommitPage(p)
    PROVE  Orderly' /\ LeavesDone(p) /\ KeepsRun(p)
<1>1. proc[p] \in Process /\ proc[p].run \in Runs
  BY DEF CommitPage, StepOf, Orderly, Truthful, TypeInv, TypeOK, Shape
<1>2. /\ proc'[p].kind = proc[p].kind /\ proc'[p].run = proc[p].run /\ proc'[p].pc = "page"
      /\ \A u \in Users : proc'[p].job[u].status = "absent"
  BY <1>1 DEF CommitPage, NoTxn, NoJob, Process, StepOf, Orderly, Truthful, TypeInv, TypeOK
<1>3. KeepsRun(p)
  BY <1>2 DEF CommitPage, KeepsRun
<1> QED BY <1>1, <1>2, <1>3, CommittedOK DEF CommitPage

LEMMA CommitBatchStep ==
    ASSUME NEW p \in Procs, StepOf(p), CommitBatch(p)
    PROVE  Orderly' /\ LeavesDone(p) /\ KeepsRun(p)
<1>1. proc[p] \in Process /\ proc[p].run \in Runs
  BY DEF CommitBatch, StepOf, Orderly, Truthful, TypeInv, TypeOK, Shape
<1>2. /\ proc'[p].kind = proc[p].kind /\ proc'[p].run = proc[p].run /\ proc'[p].pc = "fetch"
      /\ \A u \in Users : proc'[p].job[u].status = "absent"
  BY <1>1 DEF CommitBatch, NoTxn, NoJob, Process, StepOf, Orderly, Truthful, TypeInv, TypeOK
<1>3. KeepsRun(p)
  BY <1>2 DEF CommitBatch, KeepsRun
<1> QED BY <1>1, <1>2, <1>3, CommittedOK DEF CommitBatch

\* A run that commits what it has, on its way to finish_run.
LEMMA FinishingStep ==
    ASSUME NEW p \in Procs, StepOf(p), Commit(p), proc[p].run \in Runs,
           proc[p].kind = "run", runStatus' = runStatus,
           \/ proc' = [proc EXCEPT ![p] = [NoTxn(@) EXCEPT !.pc = "finish"]]
           \/ proc' = [proc EXCEPT ![p] = [NoTxn(@) EXCEPT !.pc = "finish", !.error = TRUE]]
    PROVE  Orderly' /\ LeavesDone(p) /\ KeepsRun(p)
<1>1. proc[p] \in Process
  BY DEF StepOf, Orderly, Truthful, TypeInv, TypeOK
<1>2. /\ proc'[p].kind = proc[p].kind /\ proc'[p].run = proc[p].run /\ proc'[p].pc = "finish"
      /\ \A u \in Users : proc'[p].job[u].status = "absent"
  <2>1. CASE proc' = [proc EXCEPT ![p] = [NoTxn(@) EXCEPT !.pc = "finish"]]
    BY <1>1, <2>1 DEF NoTxn, NoJob, Process, StepOf, Orderly, Truthful, TypeInv, TypeOK
  <2>2. CASE proc' = [proc EXCEPT ![p] = [NoTxn(@) EXCEPT !.pc = "finish", !.error = TRUE]]
    BY <1>1, <2>2 DEF NoTxn, NoJob, Process, StepOf, Orderly, Truthful, TypeInv, TypeOK
  <2> QED BY <2>1, <2>2
<1>3. KeepsRun(p)
  BY <1>2 DEF KeepsRun
<1> QED BY <1>2, <1>3, CommittedOK

LEMMA IdleStep ==
    ASSUME NEW p \in Procs, StepOf(p), proc' = [proc EXCEPT ![p] = Idle],
           UNCHANGED <<jobs, runStatus>>
    PROVE  Orderly' /\ LeavesDone(p) /\ KeepsRun(p)
BY IdleQuiet, QuietOK DEF StepOf

LEMMA LeaveStep ==
    ASSUME NEW p \in Procs, StepOf(p), Leave(p)
    PROVE  Orderly' /\ LeavesDone(p) /\ KeepsRun(p)
<1>1. proc[p].run \in Runs
  BY DEF Leave, StepOf, Orderly, Truthful, TypeInv, Shape
<1>2. CASE proc[p].kind = "run"
  BY <1>1, <1>2, FinishingStep DEF Leave
<1>3. CASE proc[p].kind # "run"
  BY <1>3, IdleStep DEF Leave
<1> QED BY <1>2, <1>3

LEMMA FaultStep ==
    ASSUME NEW p \in Procs, StepOf(p), Fault(p)
    PROVE  Orderly' /\ LeavesDone(p) /\ KeepsRun(p)
<1>1. proc[p].run \in Runs /\ runStatus' = runStatus
  BY DEF Fault, FollowUserRaises, DiscoveryRaises, Crash, StepOf, Orderly, Truthful, TypeInv, Shape
<1>2. AfterGithubError(p) \/ Exit(p)
  BY DEF Fault, FollowUserRaises, DiscoveryRaises, Crash
<1>3. CASE Exit(p)
  BY <1>1, <1>3, IdleStep DEF Exit
<1>4. CASE AfterGithubError(p)
  BY <1>1, <1>3, <1>4, FinishingStep DEF AfterGithubError
<1> QED BY <1>2, <1>3, <1>4

\* Only jobs not done are fetched, with the attempts committed for them: a process
\* about to fetch holds no row.
LEMMA FetchBatchStep ==
    ASSUME NEW p \in Procs, StepOf(p), FetchBatch(p)
    PROVE  Orderly' /\ LeavesDone(p) /\ KeepsRun(p)
<1> DEFINE fresh(batch) == batch \ proc[p].seen
           reads(batch) == [u \in Users |-> IF u \in fresh(batch) THEN JobSeen(p, u).attempts ELSE 0]
<1>1. /\ proc[p] \in Process /\ Diligent(proc[p]) /\ proc[p].run \in Runs /\ proc[p].pc = "fetch"
      /\ jobs' = jobs /\ runStatus' = runStatus
  BY DEF FetchBatch, db, StepOf, Orderly, Truthful, TypeInv, TypeOK, Shape
<1>2. \A u \in Users : proc[p].job[u].status = "absent" /\ JobSeen(p, u) = jobs[proc[p].run][u]
  BY <1>1 DEF Diligent, JobSeen
<1>3. CASE proc' = [proc EXCEPT ![p].pc = "leave"]
  <2>1. /\ proc'[p].kind = proc[p].kind /\ proc'[p].run = proc[p].run /\ proc'[p].pc = "leave"
        /\ proc'[p].job = proc[p].job
    BY <1>1, <1>3 DEF Process, StepOf, Orderly, Truthful, TypeInv, TypeOK
  <2>2. Quiet(p) /\ KeepsRun(p)
    BY <1>1, <2>1 DEF Quiet, KeepsRun, Turn, Holds, Handling
  <2>3. Diligent(proc'[p])
    BY <1>1, <2>1 DEF Diligent, Turn, Handling
  <2> QED BY <2>2, <2>3, QuietOK
<1>4. CASE proc' # [proc EXCEPT ![p].pc = "leave"]
  <2>1. PICK batch \in fetch_follow_jobs(p, Remaining(p)) :
          proc' = [proc EXCEPT ![p].pc = AfterFetch(p, batch), ![p].work = fresh(batch),
                               ![p].read = reads(batch)]
    BY <1>4, Zenon DEF FetchBatch
  <2>2. /\ \A u \in fresh(batch) : u \in Users /\ JobSeen(p, u).status # "done"
        /\ \A u \in fresh(batch) : reads(batch)[u] = JobSeen(p, u).attempts
    BY DEF fetch_follow_jobs
  <2> HIDE DEF reads, fresh
  <2>3. /\ proc'[p].kind = proc[p].kind /\ proc'[p].run = proc[p].run
        /\ proc'[p].pc \in {"leave", "job"} /\ proc'[p].job = proc[p].job
        /\ proc'[p].work = fresh(batch) /\ proc'[p].read = reads(batch)
    BY <1>1, <2>1 DEF AfterFetch, Process, StepOf, Orderly, Truthful, TypeInv, TypeOK
  <2>4. \A r \in Runs, u \in Users : /\ ~Holds(proc[p], r, u) /\ ~Holds(proc'[p], r, u)
                                     /\ Turn(proc'[p], r, u) => r = proc[p].run /\ u \in fresh(batch)
    BY <1>2, <2>3 DEF Holds, Turn, Handling
  <2>5. ASSUME NEW r \in Runs, NEW u \in Users
        PROVE  RowOK(r, u)'
    <3>1. OneRow(p, r, u) /\ \A q \in Procs : Diligent(proc[q])
      BY DEF StepOf, Orderly, OneRow, Truthful
    <3>2. CASE Turn(proc'[p], r, u)
      <4>1. proc'[p].read[u] = jobs[r][u].attempts
        BY <1>2, <2>2, <2>3, <2>4, <3>2
      <4> QED BY <1>1, <2>4, <3>1, <4>1, FetchedRow
    <3>3. CASE ~Turn(proc'[p], r, u)
      BY <1>1, <2>4, <3>1, <3>3, QuietRow
    <3> QED BY <3>2, <3>3
  <2>6. KeepsRun(p)
    BY <1>1, <2>3 DEF KeepsRun
  <2>7. Owned' /\ Diligent(proc'[p])
    BY <1>2, <2>3, <2>6, OwnedKept DEF StepOf, Orderly, Diligent, Handling
  <2>8. LeavesDone(p)
    BY <1>1, <1>2, <2>2, <2>3, <2>4 DEF LeavesDone, Keeps
  <2> QED BY <2>5, <2>6, <2>7, <2>8 DEF Orderly, StepOf
<1> QED BY <1>3, <1>4

LEMMA DiscoverStep ==
    ASSUME NEW p \in Procs, StepOf(p), Discover(p)
    PROVE  Orderly' /\ LeavesDone(p) /\ KeepsRun(p)
<1>1. CASE CheckRateLimit(p) \/ FetchPage(p) \/ CheckCandidate(p)
  BY <1>1, CheckRateLimitQuiet, FetchPageQuiet, CheckCandidateQuiet, QuietOK DEF StepOf
<1>2. CASE \E u \in Users : SeeCandidate(p, u)
  BY <1>2, SeeCandidateQuiet, QuietOK DEF StepOf
<1> QED BY <1>1, <1>2, EnqueueCandidateStep, CommitPageStep DEF Discover

LEMMA QueueStep ==
    ASSUME NEW p \in Procs, StepOf(p), process_follow_queue(p)
    PROVE  Orderly' /\ LeavesDone(p) /\ KeepsRun(p)
<1>1. CASE TakeJob(p) \/ FollowUser(p) \/ AddFollowAction(p) \/ MarkFollowed(p)
  BY <1>1, TakeJobQuiet, FollowUserQuiet, AddFollowActionQuiet, MarkFollowedQuiet, QuietOK
  DEF StepOf
<1> QED BY <1>1, FetchBatchStep, MarkDoneStep, DeadLetterStep, RecordFailureStep, CommitBatchStep
  DEF process_follow_queue

\* A process that starts: one that begins a run is alone in that.
LEMMA StartStep ==
    ASSUME NEW p \in Procs, StepOf(p), Start(p)
    PROVE  /\ Orderly' /\ LeavesDone(p)
           /\ \A r \in Runs : Ended(r) => runStatus'[r] = runStatus[r]
<1>1. PICK r \in Runs : StartRun(p, r) \/ StartQueue(p, r)
  BY DEF Start, StartWorker, StartResume
<1>2. /\ proc'[p].pc \in {"rate", "fetch"} /\ proc'[p].work = {}
      /\ proc'[p].run = r /\ jobs' = jobs
      /\ \A u \in Users : proc'[p].job[u].status = "absent"
  <2>1. CASE StartRun(p, r)
    BY <2>1 DEF StartRun, Idle, NoJob, StepOf, Orderly, Truthful, TypeInv, TypeOK
  <2>2. CASE StartQueue(p, r)
    BY <2>2 DEF StartQueue, db, Idle, NoJob, StepOf, Orderly, Truthful, TypeInv, TypeOK
  <2> QED BY <1>1, <2>1, <2>2
<1>3. \A s \in Runs, u \in Users :
        ~Turn(proc'[p], s, u) /\ ~Holds(proc'[p], s, u) /\ ~Keeps(proc'[p], s, u)
  BY <1>2 DEF Turn, Holds, Keeps, Handling
<1>4. ASSUME NEW s \in Runs, NEW u \in Users
      PROVE  RowOK(s, u)'
  <2>1. OneRow(p, s, u)
    BY DEF StepOf, Orderly, OneRow, Truthful
  <2> QED BY <1>2, <1>3, <2>1, QuietRow
<1>5. Diligent(proc'[p])
  BY <1>2 DEF Diligent, Turn, Handling
<1>6. Owned' /\ \A s \in Runs : Ended(s) => runStatus'[s] = runStatus[s]
  <2>1. CASE StartRun(p, r)
    <3>1. /\ runStatus[r] = "none" /\ runStatus'[r] = "running"
          /\ \A s \in Runs \ {r} : runStatus'[s] = runStatus[s]
      BY <2>1 DEF StartRun, StepOf, Orderly, Truthful, TypeInv, TypeOK
    <3>2. \A q \in Procs \ {p} : proc'[q] = proc[q] /\ (proc[q].kind = "run" => proc[q].run # r)
      BY <3>1 DEF StepOf, Orderly, Owned
    <3> QED BY <1>2, <3>1, <3>2 DEF StepOf, Orderly, Owned, Ended
  <2>2. CASE StartQueue(p, r)
    <3>1. proc'[p].kind = "queue" /\ runStatus' = runStatus
      BY <2>2 DEF StartQueue, db, Idle, StepOf, Orderly, Truthful, TypeInv, TypeOK
    <3>2. Owned'
      BY <3>1, OwnedKept DEF KeepsRun, StepOf, Orderly
    <3> QED BY <3>1, <3>2
  <2> QED BY <1>1, <2>1, <2>2
<1>7. LeavesDone(p)
  BY <1>2, <1>3 DEF LeavesDone
<1> QED BY <1>4, <1>5, <1>6, <1>7 DEF Orderly, StepOf

\* finish_run: the run was this process's own, so it had not finished.
LEMMA FinishRunStep ==
    ASSUME NEW p \in Procs, StepOf(p), FinishRun(p)
    PROVE  /\ Orderly' /\ LeavesDone(p)
           /\ \A r \in Runs : Ended(r) => runStatus'[r] = runStatus[r]
<1>1. /\ proc[p].kind = "run" /\ proc[p].run \in Runs
      /\ runStatus[proc[p].run] \in {"running", "aborted"}
  BY DEF FinishRun, StepOf, Orderly, Diligent, Owned
<1>2. \A r \in Runs \ {proc[p].run} : runStatus'[r] = runStatus[r]
  BY DEF FinishRun, StepOf, Orderly, Truthful, TypeInv, TypeOK
<1>3. proc'[p] = Idle /\ jobs' = jobs
  BY DEF FinishRun, StepOf, Orderly, Truthful, TypeInv, TypeOK
<1>4. /\ Idle.pc = "idle" /\ Idle.kind = "queue" /\ Idle.work = {}
      /\ \A u \in Users : Idle.job[u].status = "absent"
  BY DEF Idle, NoJob
<1>5. \A r \in Runs, u \in Users :
        ~Turn(proc'[p], r, u) /\ ~Holds(proc'[p], r, u) /\ ~Keeps(proc'[p], r, u)
  BY <1>3, <1>4 DEF Turn, Holds, Keeps, Handling
<1>6. ASSUME NEW r \in Runs, NEW u \in Users
      PROVE  RowOK(r, u)'
  <2>1. OneRow(p, r, u)
    BY DEF StepOf, Orderly, OneRow, Truthful
  <2> QED BY <1>3, <1>5, <2>1, QuietRow
<1>7. Diligent(proc'[p])
  BY <1>3, <1>4 DEF Diligent, Turn, Handling
<1>8. Owned'
  <2>1. \A q \in Procs \ {p} : proc'[q] = proc[q] /\ (proc[q].kind = "run" => proc[q].run # proc[p].run)
    BY <1>1 DEF StepOf, Orderly, Owned
  <2> QED BY <1>2, <1>3, <1>4, <2>1 DEF StepOf, Orderly, Owned
<1>9. LeavesDone(p)
  BY <1>3, <1>5 DEF LeavesDone
<1>10. ~Ended(proc[p].run)
  BY <1>1 DEF Ended
<1> QED BY <1>2, <1>6, <1>7, <1>8, <1>9, <1>10 DEF Orderly, StepOf

-----------------------------------------------------------------------------
(* The theorems.                                                           *)

\* A process touches its own record only.
LEMMA OneAtATime ==
    ASSUME TypeInv, NEW p \in Procs, Start(p) \/ Advance(p) \/ GiveUp(p) \/ Fault(p)
    PROVE  \A q \in Procs \ {p} : proc'[q] = proc[q]
<1>1. proc \in [Procs -> Process]
  BY DEF TypeInv, TypeOK
<1>2. CASE Start(p)
  BY <1>1, <1>2 DEF Start, StartRun, StartWorker, StartResume, StartQueue
<1>3. CASE Discover(p)
  BY <1>1, <1>3 DEF Discover, CheckRateLimit, FetchPage, SeeCandidate, CheckCandidate,
     EnqueueCandidate, CommitPage
<1>4. CASE process_follow_queue(p)
  <2>1. CASE FetchBatch(p)
    BY <1>1, <2>1, Zenon DEF FetchBatch
  <2>2. CASE TakeJob(p) \/ FollowUser(p) \/ AddFollowAction(p) \/ MarkFollowed(p)
    BY <1>1, <2>2 DEF TakeJob, FollowUser, AddFollowAction, MarkFollowed
  <2>3. CASE MarkDone(p) \/ DeadLetter(p) \/ RecordFailure(p) \/ CommitBatch(p)
    BY <1>1, <2>3 DEF MarkDone, DeadLetter, RecordFailure, CommitBatch
  <2> QED BY <1>4, <2>1, <2>2, <2>3 DEF process_follow_queue
<1>5. CASE Leave(p) \/ FinishRun(p)
  BY <1>1, <1>5 DEF Leave, FinishRun
<1>6. CASE GiveUp(p)
  BY <1>1, <1>6 DEF GiveUp, LockTimeout, DeadlockVictim, AfterStorageError
<1>7. CASE Fault(p)
  BY <1>1, <1>7 DEF Fault, FollowUserRaises, DiscoveryRaises, Crash, AfterGithubError, Exit
<1> QED BY <1>2, <1>3, <1>4, <1>5, <1>6, <1>7 DEF Advance

(* No step changes the status of a run that has ended.                     *)
KeepsFinished ==
    \A r \in Runs : Ended(r) => runStatus'[r] = runStatus[r]

LEMMA ProcessStep ==
    ASSUME Orderly, Truthful', NEW p \in Procs, Start(p) \/ Advance(p) \/ GiveUp(p) \/ Fault(p)
    PROVE  StepOf(p) /\ Orderly' /\ LeavesDone(p) /\ KeepsFinished
<1>1. StepOf(p)
  BY OneAtATime DEF StepOf, Orderly, Truthful
<1>2. CASE Start(p)
  BY <1>1, <1>2, StartStep DEF KeepsFinished
<1>3. CASE Discover(p) \/ process_follow_queue(p) \/ Leave(p)
  BY <1>1, <1>3, DiscoverStep, QueueStep, LeaveStep DEF KeepsFinished, KeepsRun
<1>4. CASE FinishRun(p)
  BY <1>1, <1>4, FinishRunStep DEF KeepsFinished
<1>5. CASE GiveUp(p)
  BY <1>1, <1>5, GiveUpQuiet, QuietOK DEF StepOf, KeepsFinished, KeepsRun
<1>6. CASE Fault(p)
  BY <1>1, <1>6, FaultStep DEF KeepsFinished, KeepsRun
<1> QED BY <1>1, <1>2, <1>3, <1>4, <1>5, <1>6 DEF Advance

LEMMA OtherStep ==
    ASSUME Orderly, Truthful', (\E r \in Runs : Abort(r)) \/ UNCHANGED vars
    PROVE  Orderly' /\ proc' = proc /\ jobs' = jobs /\ KeepsFinished
<1>1. proc' = proc /\ jobs' = jobs
  BY DEF Abort, vars, db
<1>2. /\ KeepsFinished
      /\ \A r \in Runs : runStatus[r] \in {"running", "aborted"} => runStatus'[r] \in {"running", "aborted"}
  <2>1. CASE UNCHANGED vars
    BY <2>1 DEF vars, db, KeepsFinished
  <2>2. ASSUME NEW r \in Runs, Abort(r)
        PROVE  /\ KeepsFinished
               /\ \A s \in Runs : runStatus[s] \in {"running", "aborted"} => runStatus'[s] \in {"running", "aborted"}
    BY <2>2 DEF Abort, Abortable, KeepsFinished, Ended, Orderly, Truthful, TypeInv, TypeOK
  <2> QED BY <2>1, <2>2
<1>3. Owned'
  BY <1>1, <1>2 DEF Orderly, Owned
<1>4. ASSUME NEW r \in Runs, NEW u \in Users
      PROVE  RowOK(r, u)'
  <2>1. RowOK(r, u) /\ Armed(r, u)' = Armed(r, u)
    BY <1>1 DEF Orderly, Armed
  <2> QED BY <1>1, <2>1 DEF RowOK, Limit
<1> QED BY <1>1, <1>2, <1>3, <1>4 DEF Orderly

LEMMA OrderlyInit == Init => Orderly
<1> SUFFICES ASSUME Init PROVE Orderly
  OBVIOUS
<1>1. Truthful
  BY TruthfulInit
<1>2. /\ Idle.pc = "idle" /\ Idle.kind = "queue" /\ Idle.work = {}
      /\ \A u \in Users : Idle.job[u].status = "absent"
  BY DEF Idle, NoJob
<1>3. \A p \in Procs : proc[p] = Idle
  BY DEF Init
<1>4. Owned /\ \A p \in Procs : Diligent(proc[p])
  BY <1>2, <1>3 DEF Owned, Diligent, Turn, Handling
<1>5. ASSUME NEW r \in Runs, NEW u \in Users
      PROVE  RowOK(r, u)
  <2>1. Armed(r, u) = {} /\ \A q \in Procs : ~Holds(proc[q], r, u)
    BY <1>2, <1>3 DEF Armed, Turn, Holds, Handling
  <2>2. jobs[r][u].attempts = 0 /\ Cardinality(Armed(r, u)) = 0
    BY <2>1, FS_EmptySet DEF Init, NoJob
  <2>3. Limit >= 0 /\ Limit \in Int
    BY ArmedFinite, BoundAssumption DEF Limit
  <2> QED BY <2>1, <2>2, <2>3 DEF RowOK
<1> QED BY <1>1, <1>4, <1>5 DEF Orderly

LEMMA OrderlyNext == Orderly /\ [Next]_vars => Orderly'
<1> SUFFICES ASSUME Orderly, [Next]_vars PROVE Orderly'
  OBVIOUS
<1>1. Truthful'
  BY TruthfulNext DEF Orderly
<1> QED BY <1>1, ProcessStep, OtherStep DEF Next

LEMMA AlwaysOrderly == Spec => []Orderly
BY OrderlyInit, OrderlyNext, PTL DEF Spec

\* A job is charged at most one attempt beyond its budget for every further
\* process, however many fetched it before it was charged, crashed or rolled back.
THEOREM Attempts == Spec => []AttemptsBounded
<1>1. Orderly => AttemptsBounded
  <2> SUFFICES ASSUME Orderly, NEW r \in Runs, NEW u \in Users
               PROVE  jobs[r][u].attempts <= MaxAttempts + Cardinality(Procs) - 1
    BY DEF AttemptsBounded
  <2>1. jobs[r][u] \in Job
    BY DEF Orderly, Truthful, TypeInv, TypeOK
  <2>2. Cardinality(Armed(r, u)) \in Nat /\ Cardinality(Procs) \in Nat
    BY ArmedFinite
  <2>3. jobs[r][u].attempts + Cardinality(Armed(r, u)) <= MaxAttempts + Cardinality(Procs) - 1
    BY DEF Orderly, RowOK, Limit
  <2> QED BY <2>1, <2>2, <2>3, BoundAssumption DEF Job
<1> QED BY <1>1, AlwaysOrderly, PTL

\* A run that has ended keeps its status: only the process that began a run
\* finishes it, an abort wants a run that is running, and no run begins twice.
THEOREM FinishedRuns == Spec => FinishedRunIsFinal
<1>1. Orderly /\ Truthful' /\ [Next]_vars =>
        [\A r \in Runs : Ended(r) => runStatus'[r] = runStatus[r]]_vars
  BY ProcessStep, OtherStep DEF Next, KeepsFinished
<1>2. Orderly => Truthful
  BY DEF Orderly
<1> QED BY <1>1, <1>2, AlwaysOrderly, PTL DEF Spec, FinishedRunIsFinal

\* A job that is done and in nobody's hands stays so: no discovery, worker or
\* resume takes it up again.
THEOREM DoneJobs == Spec => DoneIsFinal
<1>1. \A r \in Runs, u \in Users :
        /\ InHand(r, u) = {p \in Procs : Keeps(proc[p], r, u)}
        /\ InHand(r, u)' = {p \in Procs : Keeps(proc'[p], r, u)}
  BY DEF InHand, Keeps, Turn, Holds, Handling
<1>2. ASSUME Orderly, Truthful', [Next]_vars
      PROVE  [\A r \in Runs, u \in Users :
                (jobs[r][u].status = "done" /\ InHand(r, u) = {}) =>
                   (jobs'[r][u].status = "done" /\ InHand(r, u)' = {})]_vars
  <2>1. ASSUME NEW r \in Runs, NEW u \in Users, jobs[r][u].status = "done", InHand(r, u) = {}
        PROVE  jobs'[r][u].status = "done" /\ InHand(r, u)' = {}
    <3>1. \A q \in Procs : ~Keeps(proc[q], r, u)
      BY <1>1, <2>1
    <3>2. ASSUME NEW p \in Procs, Start(p) \/ Advance(p) \/ GiveUp(p) \/ Fault(p)
          PROVE  jobs'[r][u].status = "done" /\ \A q \in Procs : ~Keeps(proc'[q], r, u)
      <4>1. StepOf(p) /\ LeavesDone(p)
        BY <1>2, <3>2, ProcessStep
      <4> QED BY <2>1, <3>1, <4>1 DEF StepOf, LeavesDone
    <3>3. CASE (\E s \in Runs : Abort(s)) \/ UNCHANGED vars
      <4>1. proc' = proc /\ jobs' = jobs
        BY <1>2, <3>3, OtherStep
      <4> QED BY <1>1, <2>1, <3>1, <4>1
    <3> QED BY <1>1, <1>2, <3>2, <3>3 DEF Next
  <2> QED BY <2>1
<1>3. Orderly => Truthful
  BY DEF Orderly
<1> QED BY <1>2, <1>3, AlwaysOrderly, PTL DEF Spec, DoneIsFinal

\* The tables change only by a commit.
LEMMA CommitOrNot ==
    ASSUME NEW p \in Procs, Start(p) \/ Advance(p) \/ GiveUp(p) \/ Fault(p)
    PROVE  jobs' = jobs \/ Commit(p)
<1>1. Start(p) \/ Fault(p) => jobs' = jobs \/ Commit(p)
  BY DEF Start, StartRun, StartResume, StartWorker, StartQueue, Fault, FollowUserRaises,
     DiscoveryRaises, Crash, AfterGithubError, Exit, db
<1>2. Discover(p) => jobs' = jobs \/ Commit(p)
  BY DEF Discover, CheckRateLimit, FetchPage, SeeCandidate, CheckCandidate, EnqueueCandidate,
     CommitPage, db
<1>3. process_follow_queue(p) => jobs' = jobs \/ Commit(p)
  BY DEF process_follow_queue, FetchBatch, TakeJob, FollowUser, AddFollowAction,
     MarkFollowed, MarkDone, DeadLetter, RecordFailure, CommitBatch, db
<1>4. Leave(p) \/ FinishRun(p) \/ GiveUp(p) => jobs' = jobs \/ Commit(p)
  BY DEF Leave, FinishRun, GiveUp, LockTimeout, DeadlockVictim, AfterStorageError, db
<1> QED BY <1>1, <1>2, <1>3, <1>4 DEF Advance

\* The attempts a job has been charged are never given back: what an open
\* transaction holds of a row is no older than the row, since the row is locked.
THEOREM ChargesKept == Spec => ChargesAreKept
<1>1. ASSUME Orderly, Truthful', [Next]_vars
      PROVE  [\A r \in Runs, u \in Users : jobs'[r][u].attempts >= jobs[r][u].attempts]_vars
  <2>1. ASSUME NEW r \in Runs, NEW u \in Users
        PROVE  jobs'[r][u].attempts >= jobs[r][u].attempts
    <3>1. jobs[r][u].attempts \in Nat
      BY <1>1 DEF Orderly, Truthful, TypeInv, TypeOK, Job
    <3>2. CASE jobs' = jobs
      BY <3>1, <3>2
    <3>3. ASSUME NEW p \in Procs, Commit(p) PROVE jobs'[r][u].attempts >= jobs[r][u].attempts
      <4>1. jobs'[r][u] = IF Holds(proc[p], r, u) THEN proc[p].job[u] ELSE jobs[r][u]
        BY <3>3 DEF Commit, JobSeen, Holds
      <4>2. Holds(proc[p], r, u) => proc[p].job[u].attempts \in jobs[r][u].attempts .. jobs[r][u].attempts + 1
        BY <1>1 DEF Orderly, RowOK
      <4> QED BY <3>1, <4>1, <4>2
    <3>4. CASE (\E s \in Runs : Abort(s)) \/ UNCHANGED vars
      BY <3>2, <3>4 DEF Abort, vars, db
    <3> QED BY <1>1, <3>2, <3>3, <3>4, CommitOrNot DEF Next
  <2> QED BY <2>1
<1>2. Orderly => Truthful
  BY DEF Orderly
<1> QED BY <1>1, <1>2, AlwaysOrderly, PTL DEF Spec, ChargesAreKept

-----------------------------------------------------------------------------
(* The calls of a process.                                                 *)

\* An answer changes by the return of the call for that account, or by being put
\* away; GitHub changes by nothing but calls.
LEMMA CallSteps ==
    ASSUME Truthful, TypeInv', NEW p \in Procs, NEW u \in Users,
           Start(p) \/ Advance(p) \/ GiveUp(p) \/ Fault(p)
    PROVE  /\ u \in github => u \in github'
           /\ \/ AnswerFor(p, u)' = AnswerFor(p, u)
              \/ AnswerFor(p, u)' = "none" /\ github' = github
              \/ /\ AnswerFor(p, u) = "none" /\ AnswerFor(p, u)' \in {"ok", "restricted", "error"}
                 /\ AnswerFor(p, u)' = "ok" => u \in github'
<1>1. /\ proc \in [Procs -> Process] /\ proc[p] \in Process
      /\ ProcOK(proc[p], github, acts)
  BY DEF Truthful, TypeInv, TypeOK
<1>2. CASE Start(p)
  <2>1. PICK r \in Runs : StartRun(p, r) \/ StartQueue(p, r)
    BY <1>2 DEF Start, StartWorker, StartResume
  <2>2. github' = github
    BY <2>1 DEF StartRun, StartQueue
  <2>3. proc'[p].result = "none"
    <3>1. CASE StartRun(p, r)
      BY <1>1, <3>1 DEF StartRun, Idle
    <3>2. CASE StartQueue(p, r)
      BY <1>1, <3>2 DEF StartQueue, Idle
    <3> QED BY <2>1, <3>1, <3>2
  <2> QED BY <2>2, <2>3 DEF AnswerFor
<1>3. CASE Discover(p)
  <2>1. /\ github' = github /\ proc[p].result = "none" /\ proc'[p].result = proc[p].result
    <3>1. CASE CheckRateLimit(p)
      BY <1>1, <3>1 DEF CheckRateLimit, ProcOK, DiscoveryPC, Process
    <3>2. CASE FetchPage(p)
      <4>1. github' = github /\ proc[p].result = "none"
        BY <1>1, <3>2 DEF FetchPage, ProcOK, DiscoveryPC
      <4>2. CASE \E page \in SUBSET Users :
                   proc' = [proc EXCEPT ![p].pc = "see", ![p].work = page,
                                        ![p].pages = @ - 1, ![p].txn = @ \/ Expand]
        BY <1>1, <4>1, <4>2 DEF Process
      <4>3. CASE proc' = [proc EXCEPT ![p].pc = "fetch"]
        BY <1>1, <4>1, <4>3 DEF Process
      <4> QED BY <3>2, <4>2, <4>3 DEF FetchPage
    <3>3. CASE \E v \in Users : SeeCandidate(p, v)
      BY <1>1, <3>3 DEF SeeCandidate, ProcOK, DiscoveryPC, Process
    <3>4. CASE CheckCandidate(p)
      BY <1>1, <3>4 DEF CheckCandidate, ProcOK, DiscoveryPC, Process
    <3>5. CASE EnqueueCandidate(p)
      BY <1>1, <3>5 DEF EnqueueCandidate, ProcOK, DiscoveryPC, Process
    <3>6. CASE CommitPage(p)
      BY <1>1, <3>6 DEF CommitPage, NoTxn, ProcOK, DiscoveryPC, Process
    <3> QED BY <1>3, <3>1, <3>2, <3>3, <3>4, <3>5, <3>6 DEF Discover
  <2> QED BY <2>1 DEF AnswerFor
<1>4. CASE FollowUser(p)
  <2>1. PICK result \in {"ok", "restricted", "error"}, applied \in BOOLEAN :
             /\ result = "ok" => applied
             /\ github' = IF applied THEN github \cup {proc[p].cur} ELSE github
             /\ proc' = [proc EXCEPT ![p].pc = "record", ![p].result = result]
    BY <1>4 DEF FollowUser
  <2>2. proc'[p].cur = proc[p].cur /\ proc'[p].result = result /\ proc[p].result = "none"
    BY <1>1, <1>4, <2>1 DEF Process, ProcOK, FollowUser
  <2> QED BY <2>1, <2>2 DEF AnswerFor
<1>5. CASE FetchBatch(p)
  <2>1. github' = github
    BY <1>5 DEF FetchBatch
  <2>2. proc'[p].cur = proc[p].cur /\ proc'[p].result = proc[p].result
    <3>1. CASE proc' = [proc EXCEPT ![p].pc = "leave"]
      BY <1>1, <3>1 DEF Process
    <3>2. CASE proc' # [proc EXCEPT ![p].pc = "leave"]
      <4> DEFINE reads(batch) == [v \in Users |-> IF v \in batch \ proc[p].seen
                                                  THEN JobSeen(p, v).attempts ELSE 0]
      <4>1. PICK batch \in fetch_follow_jobs(p, Remaining(p)) :
              proc' = [proc EXCEPT ![p].pc = AfterFetch(p, batch),
                         ![p].work = batch \ proc[p].seen, ![p].read = reads(batch)]
        BY <1>5, <3>2, Zenon DEF FetchBatch
      <4> HIDE DEF reads
      <4> QED BY <1>1, <4>1 DEF Process
    <3> QED BY <3>1, <3>2
  <2> QED BY <2>1, <2>2 DEF AnswerFor
<1>6. CASE TakeJob(p)
  <2>1. github' = github /\ proc'[p].result \in {"dry", "none"}
    BY <1>1, <1>6 DEF TakeJob, Process
  <2> QED BY <2>1 DEF AnswerFor
<1>7. CASE AddFollowAction(p) \/ MarkFollowed(p)
  <2>1. github' = github /\ proc'[p].cur = proc[p].cur /\ proc'[p].result = proc[p].result
    <3>1. CASE AddFollowAction(p)
      BY <1>1, <3>1 DEF AddFollowAction, Process
    <3>2. CASE MarkFollowed(p)
      BY <1>1, <3>2 DEF MarkFollowed, Process
    <3> QED BY <1>7, <3>1, <3>2
  <2> QED BY <2>1 DEF AnswerFor
<1>8. CASE MarkDone(p) \/ DeadLetter(p) \/ RecordFailure(p)
  <2>1. github' = github /\ proc'[p].result = "none"
    <3>1. CASE MarkDone(p)
      BY <1>1, <3>1 DEF MarkDone, Process
    <3>2. CASE DeadLetter(p)
      BY <1>1, <3>2 DEF DeadLetter, Process
    <3>3. CASE RecordFailure(p)
      BY <1>1, <3>3 DEF RecordFailure, Process
    <3> QED BY <1>8, <3>1, <3>2, <3>3
  <2> QED BY <2>1 DEF AnswerFor
<1>9. CASE CommitBatch(p)
  <2>1. github' = github /\ proc'[p].cur = proc[p].cur /\ proc'[p].result = proc[p].result
    BY <1>1, <1>9 DEF CommitBatch, NoTxn, Process
  <2> QED BY <2>1 DEF AnswerFor
<1>10. ASSUME \/ proc' = [proc EXCEPT ![p] = Idle]
              \/ proc' = [proc EXCEPT ![p] = [NoTxn(@) EXCEPT !.pc = "finish"]]
              \/ proc' = [proc EXCEPT ![p] = [NoTxn(@) EXCEPT !.pc = "finish", !.error = TRUE]]
       PROVE  \/ AnswerFor(p, u)' = "none"
              \/ AnswerFor(p, u)' = AnswerFor(p, u)
  <2>1. \/ proc'[p].result = "none"
        \/ proc'[p].result = proc[p].result /\ proc'[p].cur = proc[p].cur
    <3>1. CASE proc' = [proc EXCEPT ![p] = Idle]
      BY <1>1, <3>1 DEF Idle
    <3>2. CASE proc' = [proc EXCEPT ![p] = [NoTxn(@) EXCEPT !.pc = "finish"]]
      BY <1>1, <3>2 DEF NoTxn, Process
    <3>3. CASE proc' = [proc EXCEPT ![p] = [NoTxn(@) EXCEPT !.pc = "finish", !.error = TRUE]]
      BY <1>1, <3>3 DEF NoTxn, Process
    <3> QED BY <1>10, <3>1, <3>2, <3>3
  <2> QED BY <2>1 DEF AnswerFor
<1>11. CASE Leave(p) \/ FinishRun(p) \/ GiveUp(p) \/ DiscoveryRaises(p) \/ Crash(p)
  <2>1. github' = github
    BY <1>11 DEF Leave, FinishRun, GiveUp, LockTimeout, DeadlockVictim, AfterStorageError,
       DiscoveryRaises, Crash
  <2> QED BY <1>10, <1>11, <2>1 DEF Leave, FinishRun, GiveUp, LockTimeout, DeadlockVictim,
             AfterStorageError, DiscoveryRaises, Crash, AfterGithubError, Exit
<1>12. CASE FollowUserRaises(p)
  <2>1. github \subseteq github' /\ AnswerFor(p, u) = "none"
    BY <1>1, <1>12 DEF FollowUserRaises, ProcOK, AnswerFor
  <2> QED BY <1>10, <1>12, <2>1 DEF FollowUserRaises, AfterGithubError, Exit
<1> QED BY <1>2, <1>3, <1>4, <1>5, <1>6, <1>7, <1>8, <1>9, <1>11, <1>12
        DEF Advance, process_follow_queue, Fault

\* For every process and account, the calls the queue makes are those FollowCall
\* allows: the client's promise is all that the queue was modelled on.
THEOREM CallsPromised == Spec => CallsKeepPromise
<1>1. Init => \A p \in Procs, u \in Users : FC(p, u)!Init
  <2> SUFFICES ASSUME Init, NEW p \in Procs, NEW u \in Users PROVE FC(p, u)!Init
    OBVIOUS
  <2>1. AnswerFor(p, u) = "none"
    BY DEF Init, Idle, AnswerFor
  <2> QED BY <2>1 DEF FC!Init
<1>2. ASSUME Truthful, TypeInv', [Next]_vars
      PROVE  [\A p \in Procs, u \in Users : FC(p, u)!Next]_vars
  <2>1. ASSUME NEW p \in Procs, NEW u \in Users, Next
        PROVE  FC(p, u)!Next
    <3>1. \/ AnswerFor(p, u)' = AnswerFor(p, u) /\ (u \in github => u \in github')
          \/ AnswerFor(p, u)' = "none" /\ github' = github
          \/ /\ AnswerFor(p, u) = "none" /\ AnswerFor(p, u)' \in {"ok", "restricted", "error"}
             /\ AnswerFor(p, u)' = "ok" => u \in github'
             /\ u \in github => u \in github'
      <4>1. ASSUME NEW q \in Procs, Start(q) \/ Advance(q) \/ GiveUp(q) \/ Fault(q)
            PROVE  \/ AnswerFor(p, u)' = AnswerFor(p, u) /\ (u \in github => u \in github')
                   \/ AnswerFor(p, u)' = "none" /\ github' = github
                   \/ /\ AnswerFor(p, u) = "none" /\ AnswerFor(p, u)' \in {"ok", "restricted", "error"}
                      /\ AnswerFor(p, u)' = "ok" => u \in github'
                      /\ u \in github => u \in github'
        <5>1. CASE q = p
          BY <1>2, <4>1, <5>1, CallSteps
        <5>2. CASE q # p
          <6>1. proc'[p] = proc[p]
            BY <1>2, <4>1, <5>2, OneAtATime DEF Truthful
          <6>2. u \in github => u \in github'
            BY <1>2, <4>1, CallSteps
          <6> QED BY <6>1, <6>2 DEF AnswerFor
        <5> QED BY <5>1, <5>2
      <4>2. ASSUME NEW r \in Runs, Abort(r)
            PROVE  AnswerFor(p, u)' = AnswerFor(p, u) /\ github' = github
        BY <4>2 DEF Abort, AnswerFor
      <4> QED BY <2>1, <4>1, <4>2 DEF Next
    <3>2. ASSUME u \in github => u \in github'
          PROVE  FC(p, u)!Applied
      <4>1. (u \in github') = TRUE \/ (u \in github') = (u \in github)
        BY <3>2
      <4> QED BY <4>1 DEF FC!Applied
    <3>3. CASE AnswerFor(p, u)' = AnswerFor(p, u) /\ (u \in github => u \in github')
      BY <3>2, <3>3 DEF FC!Next, FC!Work
    <3>4. CASE AnswerFor(p, u)' = "none" /\ github' = github
      BY <3>4 DEF FC!Next, FC!Again
    <3>5. CASE /\ AnswerFor(p, u) = "none" /\ AnswerFor(p, u)' \in {"ok", "restricted", "error"}
               /\ AnswerFor(p, u)' = "ok" => u \in github'
               /\ u \in github => u \in github'
      <4>1. FC(p, u)!Applied
        BY <3>2, <3>5
      <4>2. AnswerFor(p, u)' \in FC(p, u)!Answers
        BY <3>5 DEF FC!Answers
      <4> QED BY <3>5, <4>1, <4>2 DEF FC!Next, FC!Answer
    <3> QED BY <3>1, <3>3, <3>4, <3>5
  <2> QED BY <1>2, <2>1
<1>3. Orderly => Truthful /\ TypeInv
  BY DEF Orderly, Truthful
<1> QED BY <1>1, <1>2, <1>3, AlwaysOrderly, PTL DEF Spec, CallsKeepPromise

-----------------------------------------------------------------------------
(***************************************************************************)
(* One process and one run: what a fault costs.  The requests sent for an  *)
(* account are accounted for by its row and the followers table, as the    *)
(* process sees them, and by the answer it has in hand; a transaction that *)
(* is rolled back takes at most one of them with it.                       *)
(***************************************************************************)

One(b) == IF b THEN 1 ELSE 0

(* The request for u was answered, and its outcome is not written yet.     *)
Answered(pr, u) ==
    /\ u = pr.cur
    /\ pr.pc \in {"record", "mark", "dead", "fail"}
    /\ pr.result \in {"ok", "restricted", "error"}

(* The requests accounted for, by what the process sees (its rows before   *)
(* the committed rows j, its marks beside the accounts F followed) and by  *)
(* the tables alone.                                                       *)
Row(pr, j, u) == IF pr.job[u].status # "absent" THEN pr.job[u] ELSE j[u]

Sent(pr, j, F, u) ==
    Row(pr, j, u).attempts + One(u \in F \cup pr.marked) + One(Answered(pr, u))

Kept(j, F, u) == j[u].attempts + One(u \in F)

(* Of n requests and f faults, when s requests are accounted for, and k    *)
(* would be after a rollback.                                              *)
Within(s, k, n, f) ==
    /\ n <= s + f
    /\ s <= MaxAttempts /\ k <= MaxAttempts
    /\ s <= k + 1

(* What the steps of a handler rely on: who leaves has nothing open, what  *)
(* is marked is done or about to be, a request is for an account not       *)
(* followed yet, and the batch was read as the tables still are.           *)
Careful(pr, j, F) ==
    /\ pr.pc \in {"idle", "leave", "finish"} => \A u \in Users : pr.job[u].status = "absent"
    /\ \A u \in pr.marked : pr.job[u].status # "absent" \/ (pr.pc = "done" /\ u = pr.cur)
    /\ pr.pc \in {"put", "record", "mark"} => pr.cur \notin F \cup pr.marked
    /\ \A u \in Users : Turn(pr, pr.run, u) => pr.read[u] = j[u].attempts
    /\ pr.pc = "record" => pr.result # "none"
    /\ pr.pc = "fail" => pr.result = "error"
    /\ pr.pc = "dead" => pr.result \in {"none", "restricted"}

Frugal(p, r) ==
    /\ Careful(proc[p], jobs[r], followed)
    /\ \A u \in Users : Within(Sent(proc[p], jobs[r], followed, u), Kept(jobs[r], followed, u),
                               puts[u], faults)

LEMMA SentNat ==
    ASSUME NEW pr \in Process, NEW j \in [Users -> Job], NEW F, NEW u \in Users
    PROVE  Sent(pr, j, F, u) \in Nat /\ Kept(j, F, u) \in Nat
<1>1. pr.job[u].attempts \in Nat /\ j[u].attempts \in Nat
  BY DEF Process, Job
<1> QED BY <1>1 DEF Sent, Kept, Row, One

\* The state of the one process there is.
LEMMA Alone ==
    ASSUME NEW p, Procs = {p}, NEW r, Runs = {r}, Orderly
    PROVE  /\ p \in Procs /\ r \in Runs
           /\ proc \in [Procs -> Process] /\ proc[p] \in Process /\ Diligent(proc[p])
           /\ jobs \in [Runs -> [Users -> Job]] /\ jobs[r] \in [Users -> Job]
           /\ puts \in [Users -> Nat] /\ faults \in Nat
           /\ proc[p].pc # "idle" =>
                /\ proc[p].run = r
                /\ \A u \in Users : JobSeen(p, u) = Row(proc[p], jobs[r], u)
           /\ proc[p].pc \in Handling \cup {"enqueue"} => proc[p].cur \in Users
<1>1. /\ p \in Procs /\ r \in Runs /\ TypeOK /\ Shape
  BY DEF Orderly, Truthful, TypeInv
<1>2. proc[p].pc # "idle" => proc[p].run = r
  BY <1>1 DEF Shape
<1>3. proc[p].pc # "idle" => \A u \in Users : JobSeen(p, u) = Row(proc[p], jobs[r], u)
  BY <1>2 DEF JobSeen, Row
<1> QED BY <1>1, <1>2, <1>3 DEF TypeOK, Shape, Orderly, Handling, InHandPC

\* A step that sends nothing and forgets nothing it has accounted for.
LEMMA Balanced ==
    ASSUME NEW p, Procs = {p}, NEW r, Runs = {r}, Orderly, Orderly', Frugal(p, r),
           Careful(proc'[p], jobs'[r], followed'),
           \A u \in Users :
              /\ Sent(proc'[p], jobs'[r], followed', u) = Sent(proc[p], jobs[r], followed, u)
              /\ Kept(jobs'[r], followed', u) \in
                   {Kept(jobs[r], followed, u), Sent(proc[p], jobs[r], followed, u)},
           puts' = puts, faults' \in {faults, faults + 1}
    PROVE  Frugal(p, r)'
<1>1. ASSUME NEW u \in Users
      PROVE  Within(Sent(proc'[p], jobs'[r], followed', u), Kept(jobs'[r], followed', u),
                    puts'[u], faults')
  <2>1. /\ Sent(proc[p], jobs[r], followed, u) \in Nat /\ Kept(jobs[r], followed, u) \in Nat
        /\ puts[u] \in Nat /\ faults \in Nat /\ MaxAttempts \in Nat
    BY Alone, SentNat, BoundAssumption
  <2>2. Within(Sent(proc[p], jobs[r], followed, u), Kept(jobs[r], followed, u), puts[u], faults)
    BY DEF Frugal
  <2> QED BY <2>1, <2>2 DEF Within
<1> QED BY <1>1 DEF Frugal

\* The same for a step that leaves the tables and the rows of its process alone.
LEMMA Untouched ==
    ASSUME NEW p, Procs = {p}, NEW r, Runs = {r}, Orderly, Orderly', Frugal(p, r),
           Careful(proc'[p], jobs[r], followed),
           proc'[p].job = proc[p].job, proc'[p].marked = proc[p].marked,
           \A u \in Users : Answered(proc'[p], u) <=> Answered(proc[p], u),
           UNCHANGED <<jobs, followed, puts, faults>>
    PROVE  Frugal(p, r)'
<1>1. ASSUME NEW u \in Users
      PROVE  Sent(proc'[p], jobs'[r], followed', u) = Sent(proc[p], jobs[r], followed, u)
  BY DEF Sent, Row, One
<1> QED BY <1>1, Balanced

-----------------------------------------------------------------------------
(* Discovery, and the steps of a batch that write no follow_jobs row.      *)

LEMMA DiscoveryFrugal ==
    ASSUME NEW p, Procs = {p}, NEW r, Runs = {r}, Orderly, Orderly', Frugal(p, r),
           \/ CheckRateLimit(p) \/ FetchPage(p) \/ CheckCandidate(p)
           \/ \E u \in Users : SeeCandidate(p, u)
    PROVE  Frugal(p, r)'
<1>1. /\ p \in Procs /\ proc \in [Procs -> Process] /\ proc[p] \in Process
  BY Alone
<1>2. UNCHANGED <<jobs, followed, puts, faults>>
  BY DEF CheckRateLimit, FetchPage, CheckCandidate, SeeCandidate, db
<1>3. /\ proc[p].pc \in {"rate", "page", "see", "candidate"}
      /\ proc'[p].pc \in {"page", "see", "fetch", "candidate", "enqueue", "endpage"}
      /\ proc'[p].job = proc[p].job /\ proc'[p].marked = proc[p].marked
  <2>1. CASE CheckRateLimit(p)
    BY <1>1, <2>1 DEF CheckRateLimit, Process
  <2>2. CASE FetchPage(p)
    <3> proc[p].pc = "page"
      BY <2>2 DEF FetchPage
    <3>1. CASE \E page \in SUBSET Users :
                 proc' = [proc EXCEPT ![p].pc = "see", ![p].work = page,
                                      ![p].pages = @ - 1, ![p].txn = @ \/ Expand]
      BY <1>1, <3>1 DEF Process
    <3>2. CASE proc' = [proc EXCEPT ![p].pc = "fetch"]
      BY <1>1, <3>2 DEF Process
    <3> QED BY <2>2, <3>1, <3>2 DEF FetchPage
  <2>3. CASE CheckCandidate(p)
    <3>1. proc' = [proc EXCEPT ![p].pc = IF Skip(p, proc[p].cur) THEN NextEntry(p) ELSE "enqueue"]
      BY <2>3 DEF CheckCandidate
    <3>2. proc[p].pc = "candidate" /\ NextEntry(p) \in {"endpage", "see"}
      BY <2>3 DEF CheckCandidate, NextEntry
    <3> QED BY <1>1, <3>1, <3>2 DEF Process
  <2>4. CASE \E u \in Users : SeeCandidate(p, u)
    <3>1. PICK u \in Users : SeeCandidate(p, u)
      BY <2>4
    <3>2. /\ proc[p].pc = "see"
          /\ proc' = [proc EXCEPT ![p].pc = "candidate", ![p].cur = u, ![p].txn = TRUE,
                                  ![p].work = @ \ {u}, ![p].rows = @ \cup {u}]
      BY <3>1 DEF SeeCandidate
    <3> QED BY <1>1, <3>2 DEF Process
  <2> QED BY <2>1, <2>2, <2>3, <2>4
<1>4. Careful(proc'[p], jobs[r], followed)
  BY <1>3 DEF Frugal, Careful, Turn, Handling
<1>5. \A u \in Users : ~Answered(proc'[p], u) /\ ~Answered(proc[p], u)
  BY <1>3 DEF Answered
<1> QED BY <1>2, <1>3, <1>4, <1>5, Untouched

LEMMA FetchBatchFrugal ==
    ASSUME NEW p, Procs = {p}, NEW r, Runs = {r}, Orderly, Orderly', Frugal(p, r), FetchBatch(p)
    PROVE  Frugal(p, r)'
<1> DEFINE fresh(batch) == batch \ proc[p].seen
           reads(batch) == [u \in Users |-> IF u \in fresh(batch) THEN JobSeen(p, u).attempts ELSE 0]
<1>1. /\ p \in Procs /\ proc \in [Procs -> Process] /\ proc[p] \in Process /\ proc[p].pc = "fetch"
      /\ proc[p].run = r /\ Diligent(proc[p])
  BY Alone DEF FetchBatch
<1>2. UNCHANGED <<jobs, followed, puts, faults>>
  BY DEF FetchBatch, db
<1>3. \A u \in Users : proc[p].job[u].status = "absent" /\ JobSeen(p, u) = jobs[r][u]
  BY <1>1 DEF Diligent, JobSeen
<1>4. /\ proc'[p].job = proc[p].job /\ proc'[p].marked = proc[p].marked
      /\ proc'[p].run = r
      /\ \/ proc'[p].pc = "leave"
         \/ /\ proc'[p].pc = "job"
            /\ \A u \in proc'[p].work : u \in Users /\ proc'[p].read[u] = jobs[r][u].attempts
  <2>1. CASE proc' = [proc EXCEPT ![p].pc = "leave"]
    BY <1>1, <2>1 DEF Process
  <2>2. CASE proc' # [proc EXCEPT ![p].pc = "leave"]
    <3>1. PICK batch \in fetch_follow_jobs(p, Remaining(p)) :
            proc' = [proc EXCEPT ![p].pc = AfterFetch(p, batch), ![p].work = fresh(batch),
                                 ![p].read = reads(batch)]
      BY <2>2, Zenon DEF FetchBatch
    <3>2. \A u \in fresh(batch) : u \in Users /\ reads(batch)[u] = jobs[r][u].attempts
      BY <1>3 DEF fetch_follow_jobs
    <3> HIDE DEF reads, fresh
    <3>3. /\ proc'[p].job = proc[p].job /\ proc'[p].marked = proc[p].marked
          /\ proc'[p].run = r /\ proc'[p].pc \in {"leave", "job"}
          /\ proc'[p].work = fresh(batch) /\ proc'[p].read = reads(batch)
      BY <1>1, <3>1 DEF AfterFetch, Process
    <3> QED BY <3>2, <3>3
  <2> QED BY <2>1, <2>2
<1>5. Careful(proc'[p], jobs[r], followed)
  BY <1>1, <1>3, <1>4 DEF Frugal, Careful, Turn, Handling
<1>6. \A u \in Users : ~Answered(proc'[p], u) /\ ~Answered(proc[p], u)
  BY <1>1, <1>4 DEF Answered
<1> QED BY <1>2, <1>4, <1>5, <1>6, Untouched

LEMMA TakeJobFrugal ==
    ASSUME NEW p, Procs = {p}, NEW r, Runs = {r}, Orderly, Orderly', Frugal(p, r), TakeJob(p)
    PROVE  Frugal(p, r)'
<1>1. /\ p \in Procs /\ proc \in [Procs -> Process] /\ proc[p] \in Process /\ proc[p].pc = "job"
  BY Alone DEF TakeJob
<1>2. UNCHANGED <<jobs, followed, puts, faults>>
  BY DEF TakeJob, db
<1>3. PICK u \in proc[p].work :
        proc' = [proc EXCEPT ![p].pc = Plan(p, u),
                   ![p].result = IF Plan(p, u) = "record" THEN "dry" ELSE "none",
                   ![p].cur = u, ![p].work = @ \ {u}, ![p].seen = @ \cup {u}]
  BY DEF TakeJob
<1>4. /\ proc'[p].run = proc[p].run /\ proc'[p].job = proc[p].job
      /\ proc'[p].marked = proc[p].marked
      /\ proc'[p].read = proc[p].read /\ proc'[p].cur = u
      /\ proc'[p].work = proc[p].work \ {u} /\ proc'[p].pc = Plan(p, u)
      /\ proc'[p].result = IF Plan(p, u) = "record" THEN "dry" ELSE "none"
  BY <1>1, <1>3 DEF Process
<1>5. /\ Plan(p, u) \in {"done", "dead", "record", "put"}
      /\ Plan(p, u) \in {"record", "put"} => u \notin followed \cup proc[p].marked
  BY DEF Plan, is_followed
<1>6. Careful(proc'[p], jobs[r], followed)
  BY <1>1, <1>4, <1>5 DEF Frugal, Careful, Turn, Handling
<1>7. \A v \in Users : ~Answered(proc'[p], v) /\ ~Answered(proc[p], v)
  BY <1>1, <1>4, <1>5 DEF Answered
<1> QED BY <1>2, <1>4, <1>6, <1>7, Untouched

LEMMA AddFollowActionFrugal ==
    ASSUME NEW p, Procs = {p}, NEW r, Runs = {r}, Orderly, Orderly', Frugal(p, r),
           AddFollowAction(p)
    PROVE  Frugal(p, r)'
<1>1. /\ p \in Procs /\ proc \in [Procs -> Process] /\ proc[p] \in Process /\ proc[p].pc = "record"
  BY Alone DEF AddFollowAction
<1>2. UNCHANGED <<jobs, followed, puts, faults>>
  BY DEF AddFollowAction, db
<1>3. /\ proc'[p].run = proc[p].run /\ proc'[p].job = proc[p].job
      /\ proc'[p].marked = proc[p].marked
      /\ proc'[p].read = proc[p].read /\ proc'[p].cur = proc[p].cur
      /\ proc'[p].work = proc[p].work /\ proc'[p].pc = AfterAction(proc[p].result)
      /\ proc'[p].result = proc[p].result
  BY <1>1 DEF AddFollowAction, Process
<1>4. proc[p].result \in {"ok", "dry", "restricted", "error"}
  BY <1>1 DEF Frugal, Careful, Process
<1>5. /\ AfterAction(proc[p].result) \in {"mark", "done", "dead", "fail"}
      /\ AfterAction(proc[p].result) = "done" <=> proc[p].result = "dry"
      /\ AfterAction(proc[p].result) = "fail" <=> proc[p].result = "error"
      /\ AfterAction(proc[p].result) = "dead" <=> proc[p].result = "restricted"
  BY <1>4 DEF AfterAction
<1>6. Careful(proc'[p], jobs[r], followed)
  BY <1>1, <1>3, <1>5 DEF Frugal, Careful, Turn, Handling
<1>7. \A v \in Users : Answered(proc'[p], v) <=> Answered(proc[p], v)
  BY <1>1, <1>3, <1>4, <1>5 DEF Answered
<1> QED BY <1>2, <1>3, <1>6, <1>7, Untouched

-----------------------------------------------------------------------------
(* The request, and the steps that write down what came of it.             *)

\* A request is about to be sent: nothing about the account is open, and its row
\* has an attempt to spare.
LEMMA Unsent ==
    ASSUME NEW p, Procs = {p}, NEW r, Runs = {r}, Orderly, Frugal(p, r), proc[p].pc = "put"
    PROVE  /\ Sent(proc[p], jobs[r], followed, proc[p].cur) = Kept(jobs[r], followed, proc[p].cur)
           /\ Kept(jobs[r], followed, proc[p].cur) < MaxAttempts
           /\ Kept(jobs[r], followed, proc[p].cur) \in Nat
<1> DEFINE u == proc[p].cur
<1>1. /\ proc[p] \in Process /\ proc[p].run = r /\ u \in Users /\ Diligent(proc[p])
      /\ jobs[r] \in [Users -> Job]
  BY Alone DEF Handling
<1>2. /\ proc[p].job[u].status = "absent" /\ u \notin followed \cup proc[p].marked
      /\ jobs[r][u].attempts < MaxAttempts
  BY <1>1 DEF Diligent, Turn, Handling, Frugal, Careful
<1>3. jobs[r][u].attempts \in Nat
  BY <1>1 DEF Job
<1>4. ~Answered(proc[p], u)
  BY DEF Answered
<1> HIDE DEF u
<1>5. /\ Sent(proc[p], jobs[r], followed, u) = jobs[r][u].attempts
      /\ Kept(jobs[r], followed, u) = jobs[r][u].attempts
  BY <1>2, <1>3, <1>4 DEF Sent, Kept, Row, One
<1> QED BY <1>2, <1>3, <1>5 DEF u

\* The one step that sends a request for an account and gets an answer.
LEMMA FollowUserFrugal ==
    ASSUME NEW p, Procs = {p}, NEW r, Runs = {r}, Orderly, Orderly', Frugal(p, r), FollowUser(p)
    PROVE  Frugal(p, r)'
<1> DEFINE u == proc[p].cur
<1>1. /\ p \in Procs /\ proc \in [Procs -> Process] /\ proc[p] \in Process /\ proc[p].pc = "put"
      /\ proc[p].run = r /\ u \in Users /\ Diligent(proc[p])
      /\ puts \in [Users -> Nat] /\ jobs[r] \in [Users -> Job]
  BY Alone DEF FollowUser, Handling
<1>2. UNCHANGED <<jobs, followed, faults>>
  BY DEF FollowUser, db
<1>3. PICK result \in {"ok", "restricted", "error"} :
        proc' = [proc EXCEPT ![p].pc = "record", ![p].result = result]
  BY DEF FollowUser
<1>4. /\ proc'[p].run = proc[p].run /\ proc'[p].job = proc[p].job
      /\ proc'[p].marked = proc[p].marked
      /\ proc'[p].read = proc[p].read /\ proc'[p].cur = u
      /\ proc'[p].work = proc[p].work /\ proc'[p].pc = "record"
      /\ proc'[p].result = result
  BY <1>1, <1>3 DEF Process
<1>5. /\ \A v \in Users \ {u} : puts'[v] = puts[v]
      /\ puts'[u] \in Nat /\ puts'[u] <= puts[u] + 1
  <2>1. puts' = [puts EXCEPT ![u] = IF @ < MaxPuts THEN @ + 1 ELSE @]
    BY DEF FollowUser
  <2> QED BY <1>1, <2>1
<1>6. Careful(proc'[p], jobs[r], followed)
  BY <1>1, <1>4 DEF Frugal, Careful, Turn, Handling
<1>7. ASSUME NEW v \in Users, v # u
      PROVE  Within(Sent(proc'[p], jobs[r], followed, v), Kept(jobs[r], followed, v),
                    puts'[v], faults)
  <2>1. ~Answered(proc[p], v) /\ ~Answered(proc'[p], v)
    BY <1>4, <1>7 DEF Answered
  <2>2. Sent(proc'[p], jobs[r], followed, v) = Sent(proc[p], jobs[r], followed, v)
    BY <1>4, <2>1 DEF Sent, Row, One
  <2> QED BY <1>5, <1>7, <2>2 DEF Frugal
<1>8. Within(Sent(proc'[p], jobs[r], followed, u), Kept(jobs[r], followed, u), puts'[u], faults)
  <2>1. Sent(proc'[p], jobs[r], followed, u) = Sent(proc[p], jobs[r], followed, u) + 1
    <3>1. Row(proc'[p], jobs[r], u) = Row(proc[p], jobs[r], u)
      BY <1>4 DEF Row
    <3>2. ~Answered(proc[p], u) /\ Answered(proc'[p], u)
      BY <1>1, <1>4 DEF Answered
    <3>3. Row(proc[p], jobs[r], u).attempts \in Nat
      BY <1>1 DEF Row, Process, Job
    <3> HIDE DEF u
    <3> QED BY <1>4, <3>1, <3>2, <3>3 DEF Sent, One
  <2>2. /\ Sent(proc[p], jobs[r], followed, u) = Kept(jobs[r], followed, u)
        /\ Kept(jobs[r], followed, u) < MaxAttempts /\ Kept(jobs[r], followed, u) \in Nat
    BY <1>1, Unsent
  <2>3. Within(Sent(proc[p], jobs[r], followed, u), Kept(jobs[r], followed, u), puts[u], faults)
    BY <1>1 DEF Frugal
  <2>4. puts[u] \in Nat /\ faults \in Nat /\ MaxAttempts \in Nat
    BY <1>1, Alone, BoundAssumption
  <2> HIDE DEF u
  <2> QED BY <1>5, <2>1, <2>2, <2>3, <2>4 DEF Within
<1> HIDE DEF u
<1> QED BY <1>2, <1>6, <1>7, <1>8 DEF Frugal

LEMMA MarkFollowedFrugal ==
    ASSUME NEW p, Procs = {p}, NEW r, Runs = {r}, Orderly, Orderly', Frugal(p, r),
           MarkFollowed(p)
    PROVE  Frugal(p, r)'
<1> DEFINE u == proc[p].cur
<1>1. /\ p \in Procs /\ proc \in [Procs -> Process] /\ proc[p] \in Process /\ proc[p].pc = "mark"
      /\ u \in Users /\ jobs[r] \in [Users -> Job]
  BY Alone DEF MarkFollowed, Handling
<1>2. UNCHANGED <<jobs, followed, puts, faults>>
  BY DEF MarkFollowed, db
<1>3. /\ proc'[p].run = proc[p].run /\ proc'[p].job = proc[p].job
      /\ proc'[p].marked = proc[p].marked \cup {u}
      /\ proc'[p].read = proc[p].read /\ proc'[p].cur = u
      /\ proc'[p].work = proc[p].work /\ proc'[p].pc = "done"
      /\ proc'[p].result = proc[p].result
  BY <1>1 DEF MarkFollowed, Process
<1>4. proc[p].result = "ok" /\ u \notin followed \cup proc[p].marked
  BY <1>1 DEF Frugal, Careful, Orderly, Truthful, ProcOK
<1>5. Careful(proc'[p], jobs[r], followed)
  BY <1>1, <1>3 DEF Frugal, Careful, Turn, Handling
<1>6. ASSUME NEW v \in Users
      PROVE  Sent(proc'[p], jobs[r], followed, v) = Sent(proc[p], jobs[r], followed, v)
  <2>1. Row(proc'[p], jobs[r], v) = Row(proc[p], jobs[r], v)
    BY <1>3 DEF Row
  <2>2. CASE v = u
    <3>1. ~Answered(proc'[p], v) /\ Answered(proc[p], v)
      BY <1>1, <1>3, <1>4, <2>2 DEF Answered
    <3>2. v \in followed \cup proc'[p].marked /\ v \notin followed \cup proc[p].marked
      BY <1>3, <1>4, <2>2
    <3>3. Row(proc[p], jobs[r], v).attempts \in Nat
      BY <1>1 DEF Row, Process, Job
    <3> QED BY <2>1, <3>1, <3>2, <3>3 DEF Sent, One
  <2>3. CASE v # u
    <3>1. ~Answered(proc'[p], v) /\ ~Answered(proc[p], v)
      BY <1>3, <2>3 DEF Answered
    <3>2. v \in followed \cup proc'[p].marked <=> v \in followed \cup proc[p].marked
      BY <1>3, <2>3
    <3> QED BY <2>1, <3>1, <3>2 DEF Sent, One
  <2> QED BY <2>2, <2>3
<1> HIDE DEF u
<1> QED BY <1>2, <1>5, <1>6, Balanced

\* A follow_jobs row that is written is charged with the request it answers for.
LEMMA WrittenFrugal ==
    ASSUME NEW p, Procs = {p}, NEW r, Runs = {r}, Orderly, Orderly', Frugal(p, r),
           NEW row, row \in Job, row.status # "absent",
           proc[p].pc \in {"enqueue", "done", "dead", "fail"},
           proc'[p].job = [proc[p].job EXCEPT ![proc[p].cur] = row],
           proc'[p].marked = proc[p].marked, proc'[p].run = proc[p].run,
           proc'[p].cur = proc[p].cur, proc'[p].work = proc[p].work, proc'[p].read = proc[p].read,
           proc[p].pc = "enqueue" => proc'[p].pc \in {"see", "endpage"},
           proc[p].pc # "enqueue" => proc'[p].pc \in {"job", "commit"},
           row.attempts = JobSeen(p, proc[p].cur).attempts + One(Answered(proc[p], proc[p].cur)),
           UNCHANGED <<jobs, followed, puts, faults>>
    PROVE  Frugal(p, r)'
<1>1. /\ p \in Procs /\ proc[p] \in Process /\ proc[p].cur \in Users
      /\ jobs[r] \in [Users -> Job] /\ Diligent(proc[p])
      /\ JobSeen(p, proc[p].cur) = Row(proc[p], jobs[r], proc[p].cur)
      /\ Careful(proc[p], jobs[r], followed)
  BY Alone DEF Handling, Frugal
<1>2. /\ proc'[p].job[proc[p].cur] = row
      /\ \A v \in Users \ {proc[p].cur} : proc'[p].job[v] = proc[p].job[v]
  BY <1>1 DEF Process
<1>3. Careful(proc'[p], jobs[r], followed)
  <2>1. \A v \in proc'[p].marked : proc'[p].job[v].status # "absent"
    BY <1>1, <1>2 DEF Careful, Process
  <2>2. \A v \in Users : Turn(proc'[p], proc'[p].run, v) => proc'[p].read[v] = jobs[r][v].attempts
    BY <1>1 DEF Careful, Turn, Handling
  <2> QED BY <2>1, <2>2 DEF Careful
<1>4. ASSUME NEW v \in Users
      PROVE  Sent(proc'[p], jobs[r], followed, v) = Sent(proc[p], jobs[r], followed, v)
  <2>1. ~Answered(proc'[p], v)
    BY DEF Answered
  <2>2. CASE v = proc[p].cur
    <3>1. Row(proc'[p], jobs[r], v) = row
      BY <1>2, <2>2 DEF Row
    <3>2. row.attempts = Row(proc[p], jobs[r], v).attempts + One(Answered(proc[p], v))
      BY <1>1, <2>2
    <3>3. Row(proc[p], jobs[r], v).attempts \in Nat
      BY <1>1 DEF Row, Process, Job
    <3> QED BY <2>1, <3>1, <3>2, <3>3 DEF Sent, One
  <2>3. CASE v # proc[p].cur
    <3>1. Row(proc'[p], jobs[r], v) = Row(proc[p], jobs[r], v) /\ ~Answered(proc[p], v)
      BY <1>2, <2>3 DEF Row, Answered
    <3> QED BY <2>1, <3>1 DEF Sent, One
  <2> QED BY <2>2, <2>3
<1> QED BY <1>3, <1>4, Balanced

LEMMA RowsFrugal ==
    ASSUME NEW p, Procs = {p}, NEW r, Runs = {r}, Orderly, Orderly', Frugal(p, r),
           EnqueueCandidate(p) \/ MarkDone(p) \/ DeadLetter(p) \/ RecordFailure(p)
    PROVE  Frugal(p, r)'
<1> DEFINE u == proc[p].cur
<1>1. /\ p \in Procs /\ proc \in [Procs -> Process] /\ proc[p] \in Process
      /\ proc[p].pc \in {"enqueue", "done", "dead", "fail"}
      /\ u \in Users /\ proc[p].run \in Runs /\ TypeOK
      /\ Careful(proc[p], jobs[r], followed) /\ ProcOK(proc[p], github, acts)
  <2>1. proc[p].pc \in {"enqueue", "done", "dead", "fail"}
    BY DEF EnqueueCandidate, MarkDone, DeadLetter, RecordFailure
  <2> QED BY <2>1, Alone DEF Frugal, Handling, Orderly, Truthful, TypeInv
<1>2. JobSeen(p, u) \in Job /\ JobSeen(p, u).attempts \in Nat
  BY <1>1, JobSeenTyped DEF Job
<1>3. PICK row \in Job :
        /\ proc'[p].job = [proc[p].job EXCEPT ![u] = row]
        /\ proc'[p].marked = proc[p].marked /\ proc'[p].run = proc[p].run
        /\ proc'[p].cur = u /\ proc'[p].work = proc[p].work /\ proc'[p].read = proc[p].read
        /\ proc[p].pc = "enqueue" => proc'[p].pc \in {"see", "endpage"}
        /\ proc[p].pc # "enqueue" => proc'[p].pc \in {"job", "commit"}
        /\ row.status # "absent"
        /\ row.attempts = JobSeen(p, u).attempts + One(Answered(proc[p], u))
  <2>1. CASE EnqueueCandidate(p)
    <3> DEFINE row == Upserted(p, u, "pending", FALSE)
    <3>1. row \in Job /\ row.status = "pending" /\ row.attempts = JobSeen(p, u).attempts
      BY <1>1, <1>2, UpsertedTyped, UpsertedAttempts DEF Upserted, JobStatus
    <3>2. ~Answered(proc[p], u)
      BY <2>1 DEF EnqueueCandidate, Answered
    <3>3. /\ proc[p].pc = "enqueue" /\ NextEntry(p) \in {"see", "endpage"}
          /\ proc' = [proc EXCEPT ![p].pc = NextEntry(p), ![p].txn = TRUE, ![p].job[u] = row]
      BY <2>1 DEF EnqueueCandidate, NextEntry
    <3> HIDE DEF row
    <3>4. /\ proc'[p].job = [proc[p].job EXCEPT ![u] = row]
          /\ proc'[p].marked = proc[p].marked /\ proc'[p].run = proc[p].run
          /\ proc'[p].cur = u /\ proc'[p].work = proc[p].work /\ proc'[p].read = proc[p].read
          /\ proc'[p].pc = NextEntry(p)
      BY <1>1, <3>3 DEF Process
    <3> HIDE DEF u
    <3>5. row.attempts = JobSeen(p, u).attempts + One(Answered(proc[p], u))
      BY <1>2, <3>1, <3>2 DEF One
    <3> QED BY <3>1, <3>3, <3>4, <3>5
  <2>2. CASE MarkDone(p)
    <3> DEFINE row == Upserted(p, u, "done", FALSE)
    <3>1. row \in Job /\ row.status = "done" /\ row.attempts = JobSeen(p, u).attempts
      BY <1>1, <1>2, UpsertedTyped, UpsertedAttempts DEF Upserted, JobStatus
    <3>2. ~Answered(proc[p], u)
      BY <2>2 DEF MarkDone, Answered
    <3>3. /\ proc[p].pc = "done" /\ NextJob(p) \in {"job", "commit"}
          /\ proc' = [proc EXCEPT ![p].pc = NextJob(p), ![p].txn = TRUE, ![p].result = "none",
                ![p].job[u] = row,
                ![p].count = IF proc[p].result \in {"ok", "dry"} THEN @ + 1 ELSE @]
      BY <2>2 DEF MarkDone, NextJob
    <3> HIDE DEF row
    <3>4. /\ proc'[p].job = [proc[p].job EXCEPT ![u] = row]
          /\ proc'[p].marked = proc[p].marked /\ proc'[p].run = proc[p].run
          /\ proc'[p].cur = u /\ proc'[p].work = proc[p].work /\ proc'[p].read = proc[p].read
          /\ proc'[p].pc = NextJob(p)
      BY <1>1, <3>3 DEF Process
    <3> HIDE DEF u
    <3>5. row.attempts = JobSeen(p, u).attempts + One(Answered(proc[p], u))
      BY <1>2, <3>1, <3>2 DEF One
    <3> QED BY <3>1, <3>3, <3>4, <3>5
  <2>3. CASE DeadLetter(p)
    <3> DEFINE row == Upserted(p, u, "dead_letter", proc[p].result = "restricted")
    <3>1. row \in Job /\ row.status = "dead_letter"
      BY <1>1, <1>2, UpsertedTyped DEF Upserted, JobStatus
    <3>2. row.attempts = JobSeen(p, u).attempts + One(Answered(proc[p], u))
      <4>1. proc[p].pc = "dead"
        BY <2>3 DEF DeadLetter
      <4>2. CASE proc[p].result = "restricted"
        <5>1. Answered(proc[p], u)
          BY <4>1, <4>2 DEF Answered
        <5> QED BY <1>1, <1>2, <4>2, <5>1, UpsertedAttempts DEF One
      <4>3. CASE proc[p].result # "restricted"
        <5>1. ~Answered(proc[p], u)
          BY <1>1, <4>1, <4>3 DEF Answered, Careful
        <5>2. row = Upserted(p, u, "dead_letter", FALSE)
          BY <4>3
        <5>3. Upserted(p, u, "dead_letter", FALSE).attempts = JobSeen(p, u).attempts
          BY <1>1, <1>2, UpsertedAttempts
        <5>4. row.attempts = JobSeen(p, u).attempts
          <6> HIDE DEF row, u
          <6> QED BY <5>2, <5>3
        <5> HIDE DEF row, u
        <5> QED BY <1>2, <5>1, <5>4 DEF One
      <4> QED BY <4>2, <4>3
    <3>3. /\ proc[p].pc = "dead" /\ NextJob(p) \in {"job", "commit"}
          /\ proc' = [proc EXCEPT ![p].pc = NextJob(p), ![p].txn = TRUE, ![p].result = "none",
                                  ![p].job[u] = row]
      BY <2>3 DEF DeadLetter, NextJob
    <3> HIDE DEF row
    <3>4. /\ proc'[p].job = [proc[p].job EXCEPT ![u] = row]
          /\ proc'[p].marked = proc[p].marked /\ proc'[p].run = proc[p].run
          /\ proc'[p].cur = u /\ proc'[p].work = proc[p].work /\ proc'[p].read = proc[p].read
          /\ proc'[p].pc = NextJob(p)
      BY <1>1, <3>3 DEF Process
    <3> HIDE DEF u
    <3> QED BY <3>1, <3>2, <3>3, <3>4
  <2>4. CASE RecordFailure(p)
    <3> DEFINE row == FailedRow(p, u)
    <3>1. /\ row \in Job /\ row.status # "absent"
          /\ row.attempts = JobSeen(p, u).attempts + 1
      <4>1. /\ Upserted(p, u, "failed", TRUE) \in Job
            /\ Upserted(p, u, "failed", TRUE).status = "failed"
            /\ Upserted(p, u, "failed", TRUE).attempts = JobSeen(p, u).attempts + 1
        BY <1>1, <1>2, UpsertedTyped, UpsertedAttempts DEF Upserted, JobStatus
      <4> QED BY <4>1 DEF FailedRow, Job, JobStatus
    <3>2. Answered(proc[p], u)
      BY <1>1, <2>4 DEF RecordFailure, Answered, Careful
    <3>3. /\ proc[p].pc = "fail" /\ NextJob(p) \in {"job", "commit"}
          /\ proc' = [proc EXCEPT ![p].pc = NextJob(p), ![p].txn = TRUE, ![p].result = "none",
                                  ![p].job[u] = row]
      BY <2>4 DEF RecordFailure, NextJob
    <3> HIDE DEF row
    <3>4. /\ proc'[p].job = [proc[p].job EXCEPT ![u] = row]
          /\ proc'[p].marked = proc[p].marked /\ proc'[p].run = proc[p].run
          /\ proc'[p].cur = u /\ proc'[p].work = proc[p].work /\ proc'[p].read = proc[p].read
          /\ proc'[p].pc = NextJob(p)
      BY <1>1, <3>3 DEF Process
    <3> HIDE DEF u
    <3>5. row.attempts = JobSeen(p, u).attempts + One(Answered(proc[p], u))
      BY <3>1, <3>2 DEF One
    <3> QED BY <3>1, <3>3, <3>4, <3>5
  <2> QED BY <2>1, <2>2, <2>3, <2>4
<1>4. UNCHANGED <<jobs, followed, puts, faults>>
  BY DEF EnqueueCandidate, MarkDone, DeadLetter, RecordFailure, db
<1> QED BY <1>1, <1>3, <1>4, WrittenFrugal

-----------------------------------------------------------------------------
(* The ends of a transaction.                                              *)

\* After a commit the tables account for what the process did.
LEMMA CommittedAccounts ==
    ASSUME NEW p, Procs = {p}, NEW r, Runs = {r}, Orderly, Orderly', Frugal(p, r), Commit(p),
           proc[p].pc \notin {"idle", "record", "mark", "dead", "fail"},
           proc'[p].pc \in {"page", "fetch", "finish"}, proc'[p].marked = {},
           \A u \in Users : proc'[p].job[u].status = "absent"
    PROVE  /\ Careful(proc'[p], jobs'[r], followed')
           /\ \A u \in Users :
                /\ Sent(proc'[p], jobs'[r], followed', u) = Sent(proc[p], jobs[r], followed, u)
                /\ Kept(jobs'[r], followed', u) = Sent(proc[p], jobs[r], followed, u)
<1>1. Careful(proc'[p], jobs'[r], followed')
  BY DEF Careful, Turn, Handling
<1>2. ASSUME NEW u \in Users
      PROVE  /\ Sent(proc'[p], jobs'[r], followed', u) = Sent(proc[p], jobs[r], followed, u)
             /\ Kept(jobs'[r], followed', u) = Sent(proc[p], jobs[r], followed, u)
  <2>1. /\ r \in Runs /\ proc[p].run = r /\ JobSeen(p, u) = Row(proc[p], jobs[r], u)
        /\ proc[p] \in Process /\ jobs[r] \in [Users -> Job]
    BY Alone
  <2>2. jobs'[r][u] = Row(proc[p], jobs[r], u) /\ followed' = followed \cup proc[p].marked
    BY <2>1 DEF Commit
  <2>3. Row(proc'[p], jobs'[r], u) = Row(proc[p], jobs[r], u)
    BY <2>2 DEF Row
  <2>4. ~Answered(proc[p], u) /\ ~Answered(proc'[p], u)
    BY DEF Answered
  <2>5. Row(proc[p], jobs[r], u).attempts \in Nat
    BY <2>1 DEF Row, Process, Job
  <2> QED BY <2>2, <2>3, <2>4, <2>5 DEF Sent, Kept, One
<1> QED BY <1>1, <1>2

\* A process that is gone has left what the tables account for.
LEMMA IdleAccounts ==
    ASSUME NEW j \in [Users -> Job], NEW F
    PROVE  Careful(Idle, j, F) /\ \A u \in Users : Sent(Idle, j, F, u) = Kept(j, F, u)
<1>1. /\ Idle.pc = "idle" /\ Idle.marked = {}
      /\ \A u \in Users : Idle.job[u].status = "absent"
  BY DEF Idle, NoJob
<1>2. ASSUME NEW u \in Users PROVE Sent(Idle, j, F, u) = Kept(j, F, u)
  <2>1. Row(Idle, j, u) = j[u] /\ ~Answered(Idle, u) /\ j[u].attempts \in Nat
    BY <1>1 DEF Row, Answered, Job
  <2> QED BY <1>1, <2>1 DEF Sent, Kept, One
<1> QED BY <1>1, <1>2 DEF Careful, Turn, Handling

\* Nothing is open between invocations, nor when one leaves.
LEMMA NothingOpen ==
    ASSUME NEW p, Procs = {p}, NEW r, Runs = {r}, Orderly, Frugal(p, r),
           proc[p].pc \in {"idle", "leave", "finish"}, NEW u \in Users
    PROVE  Sent(proc[p], jobs[r], followed, u) = Kept(jobs[r], followed, u)
<1>1. proc[p] \in Process /\ jobs[r] \in [Users -> Job]
  BY Alone
<1>2. proc[p].marked = {} /\ proc[p].job[u].status = "absent"
  BY <1>1 DEF Frugal, Careful, Process
<1>3. Row(proc[p], jobs[r], u) = jobs[r][u] /\ ~Answered(proc[p], u) /\ jobs[r][u].attempts \in Nat
  BY <1>1, <1>2 DEF Row, Answered, Job
<1> QED BY <1>2, <1>3 DEF Sent, Kept, One

LEMMA CommitFrugal ==
    ASSUME NEW p, Procs = {p}, NEW r, Runs = {r}, Orderly, Orderly', Frugal(p, r),
           CommitPage(p) \/ CommitBatch(p)
    PROVE  Frugal(p, r)'
<1>1. /\ proc \in [Procs -> Process] /\ proc[p] \in Process /\ p \in Procs
  BY Alone
<1>2. /\ proc[p].pc \in {"endpage", "commit"} /\ proc'[p].pc \in {"page", "fetch"}
      /\ proc'[p].marked = {} /\ \A u \in Users : proc'[p].job[u].status = "absent"
  <2>1. CASE CommitPage(p)
    BY <1>1, <2>1 DEF CommitPage, NoTxn, NoJob, Process
  <2>2. CASE CommitBatch(p)
    BY <1>1, <2>2 DEF CommitBatch, NoTxn, NoJob, Process
  <2> QED BY <2>1, <2>2
<1>3. Commit(p) /\ UNCHANGED <<puts, faults>>
  BY DEF CommitPage, CommitBatch
<1> QED BY <1>2, <1>3, CommittedAccounts, Balanced

LEMMA FinishingRecord ==
    ASSUME NEW p \in Procs, proc \in [Procs -> Process],
           \/ proc' = [proc EXCEPT ![p] = [NoTxn(@) EXCEPT !.pc = "finish"]]
           \/ proc' = [proc EXCEPT ![p] = [NoTxn(@) EXCEPT !.pc = "finish", !.error = TRUE]]
    PROVE  /\ proc'[p].pc = "finish" /\ proc'[p].marked = {}
           /\ \A u \in Users : proc'[p].job[u].status = "absent"
<1>1. CASE proc' = [proc EXCEPT ![p] = [NoTxn(@) EXCEPT !.pc = "finish"]]
  BY <1>1 DEF NoTxn, NoJob, Process
<1>2. CASE proc' = [proc EXCEPT ![p] = [NoTxn(@) EXCEPT !.pc = "finish", !.error = TRUE]]
  BY <1>2 DEF NoTxn, NoJob, Process
<1> QED BY <1>1, <1>2

LEMMA LeaveFrugal ==
    ASSUME NEW p, Procs = {p}, NEW r, Runs = {r}, Orderly, Orderly', Frugal(p, r),
           Leave(p) \/ FinishRun(p)
    PROVE  Frugal(p, r)'
<1>1. /\ proc \in [Procs -> Process] /\ p \in Procs /\ jobs[r] \in [Users -> Job]
  BY Alone
<1>2. proc[p].pc \in {"leave", "finish"} /\ UNCHANGED <<puts, faults>>
  BY DEF Leave, FinishRun
<1>3. CASE Commit(p) /\ proc' = [proc EXCEPT ![p] = [NoTxn(@) EXCEPT !.pc = "finish"]]
  BY <1>1, <1>2, <1>3, FinishingRecord, CommittedAccounts, Balanced
<1>4. CASE proc' = [proc EXCEPT ![p] = Idle] /\ UNCHANGED <<jobs, followed>>
  <2>1. proc'[p] = Idle /\ jobs'[r] = jobs[r] /\ followed' = followed
    BY <1>1, <1>4
  <2>2. /\ Careful(proc'[p], jobs'[r], followed')
        /\ \A u \in Users : Sent(proc'[p], jobs'[r], followed', u) = Kept(jobs[r], followed, u)
    BY <1>1, <2>1, IdleAccounts
  <2>3. \A u \in Users : Sent(proc[p], jobs[r], followed, u) = Kept(jobs[r], followed, u)
    BY <1>2, NothingOpen
  <2> QED BY <1>2, <2>1, <2>2, <2>3, Balanced
<1> QED BY <1>3, <1>4 DEF Leave, FinishRun

LEMMA StartFrugal ==
    ASSUME NEW p, Procs = {p}, NEW r, Runs = {r}, Orderly, Orderly', Frugal(p, r), Start(p)
    PROVE  Frugal(p, r)'
<1>1. /\ proc \in [Procs -> Process] /\ p \in Procs /\ jobs[r] \in [Users -> Job]
  BY Alone
<1>2. PICK s \in Runs : StartRun(p, s) \/ StartQueue(p, s)
  BY DEF Start, StartWorker, StartResume
<1>3. proc[p].pc = "idle" /\ UNCHANGED <<jobs, followed, puts, faults>>
  BY <1>2 DEF StartRun, StartQueue, db
<1>4. /\ proc'[p].pc \in {"rate", "fetch"} /\ proc'[p].marked = {}
      /\ \A u \in Users : proc'[p].job[u].status = "absent"
  <2>1. CASE StartRun(p, s)
    BY <1>1, <2>1 DEF StartRun, Idle, NoJob
  <2>2. CASE StartQueue(p, s)
    BY <1>1, <2>2 DEF StartQueue, Idle, NoJob
  <2> QED BY <1>2, <2>1, <2>2
<1>5. Careful(proc'[p], jobs[r], followed)
  BY <1>4 DEF Careful, Turn, Handling
<1>6. ASSUME NEW u \in Users
      PROVE  Sent(proc'[p], jobs[r], followed, u) = Sent(proc[p], jobs[r], followed, u)
  <2>1. Sent(proc[p], jobs[r], followed, u) = Kept(jobs[r], followed, u)
    BY <1>3, NothingOpen
  <2>2. /\ Row(proc'[p], jobs[r], u) = jobs[r][u] /\ ~Answered(proc'[p], u)
        /\ jobs[r][u].attempts \in Nat
    BY <1>1, <1>4 DEF Row, Answered, Job
  <2> QED BY <1>4, <2>1, <2>2 DEF Sent, Kept, One
<1> QED BY <1>3, <1>5, <1>6, Balanced

\* A request whose answer never came is the request the fault costs.
LEMMA FaultFrugal ==
    ASSUME NEW p, Procs = {p}, NEW r, Runs = {r}, Orderly, Orderly', Frugal(p, r), Fault(p)
    PROVE  Frugal(p, r)'
<1>1. /\ proc \in [Procs -> Process] /\ p \in Procs /\ jobs[r] \in [Users -> Job]
      /\ proc[p] \in Process /\ puts \in [Users -> Nat] /\ faults \in Nat /\ MaxAttempts \in Nat
  BY Alone, BoundAssumption
<1>2. /\ faults' = faults + 1
      /\ \A u \in Users : \/ puts'[u] = puts[u]
                          \/ /\ u = proc[p].cur /\ proc[p].pc = "put"
                             /\ puts'[u] \in Nat /\ puts'[u] <= puts[u] + 1
  <2>1. CASE FollowUserRaises(p)
    <3>1. /\ puts' = [puts EXCEPT ![proc[p].cur] = IF @ < MaxPuts THEN @ + 1 ELSE @]
          /\ faults' = faults + 1 /\ proc[p].pc = "put"
      BY <2>1 DEF FollowUserRaises
    <3> QED BY <1>1, <3>1
  <2>2. CASE DiscoveryRaises(p) \/ Crash(p)
    BY <2>2 DEF DiscoveryRaises, Crash
  <2> QED BY <2>1, <2>2 DEF Fault
<1>3. ASSUME NEW u \in Users
      PROVE  /\ Within(Sent(proc[p], jobs[r], followed, u), Kept(jobs[r], followed, u), puts[u], faults)
             /\ Sent(proc[p], jobs[r], followed, u) \in Nat /\ Kept(jobs[r], followed, u) \in Nat
             /\ puts[u] \in Nat
  BY <1>1, SentNat DEF Frugal
<1>4. CASE Exit(p)
  <2>1. proc'[p] = Idle /\ jobs'[r] = jobs[r] /\ followed' = followed
    BY <1>1, <1>4 DEF Exit
  <2>2. /\ Careful(proc'[p], jobs'[r], followed')
        /\ \A u \in Users : Sent(proc'[p], jobs'[r], followed', u) = Kept(jobs[r], followed, u)
    BY <1>1, <2>1, IdleAccounts
  <2>3. ASSUME NEW u \in Users
        PROVE  Within(Kept(jobs[r], followed, u), Kept(jobs[r], followed, u), puts'[u], faults')
    <3>1. CASE puts'[u] = puts[u]
      BY <1>1, <1>2, <1>3, <3>1 DEF Within
    <3>2. CASE u = proc[p].cur /\ proc[p].pc = "put" /\ puts'[u] \in Nat /\ puts'[u] <= puts[u] + 1
      <4>1. Sent(proc[p], jobs[r], followed, u) = Kept(jobs[r], followed, u)
        BY <3>2, Unsent
      <4> QED BY <1>1, <1>2, <1>3, <3>2, <4>1 DEF Within
    <3> QED BY <1>2, <3>1, <3>2
  <2> QED BY <2>1, <2>2, <2>3 DEF Frugal
<1>5. CASE /\ Commit(p) /\ proc[p].pc \in {"put", "rate", "page"}
           /\ proc' = [proc EXCEPT ![p] = [NoTxn(@) EXCEPT !.pc = "finish", !.error = TRUE]]
  <2>1. /\ Careful(proc'[p], jobs'[r], followed')
        /\ \A u \in Users :
             /\ Sent(proc'[p], jobs'[r], followed', u) = Sent(proc[p], jobs[r], followed, u)
             /\ Kept(jobs'[r], followed', u) = Sent(proc[p], jobs[r], followed, u)
    BY <1>1, <1>5, FinishingRecord, CommittedAccounts
  <2>2. ASSUME NEW u \in Users
        PROVE  Within(Sent(proc[p], jobs[r], followed, u), Sent(proc[p], jobs[r], followed, u),
                      puts'[u], faults')
    BY <1>1, <1>2, <1>3 DEF Within
  <2> QED BY <2>1, <2>2 DEF Frugal
<1> QED BY <1>4, <1>5 DEF Fault, FollowUserRaises, DiscoveryRaises, Crash, AfterGithubError

\* Nobody else is there to wait for.
LEMMA NeverBlocked ==
    ASSUME NEW p, Procs = {p}
    PROVE  ~GiveUp(p)
<1>1. Blockers(p) = {}
  BY DEF Blockers, FollowerRowHolders, JobRowHolders
<1>2. ~DeadlockVictim(p)
  BY <1>1 DEF DeadlockVictim
<1> QED BY <1>1, <1>2 DEF GiveUp, LockTimeout

LEMMA FrugalInit ==
    ASSUME NEW p, Procs = {p}, NEW r, Runs = {r}, Init
    PROVE  Frugal(p, r)
<1>1. /\ proc[p] = Idle /\ followed = {} /\ jobs[r] \in [Users -> Job]
      /\ jobs[r] = [u \in Users |-> NoJob] /\ faults = 0 /\ \A u \in Users : puts[u] = 0
  BY DEF Init, NoJob, Job, JobStatus
<1>2. ASSUME NEW u \in Users
      PROVE  Within(Sent(Idle, jobs[r], followed, u), Kept(jobs[r], followed, u), puts[u], faults)
  <2>1. Kept(jobs[r], followed, u) = 0
    BY <1>1 DEF Kept, One, NoJob
  <2>2. Sent(Idle, jobs[r], followed, u) = 0
    BY <1>1, <2>1, IdleAccounts
  <2> QED BY <1>1, <2>1, <2>2, BoundAssumption DEF Within
<1> QED BY <1>1, <1>2, IdleAccounts DEF Frugal

LEMMA FrugalNext ==
    ASSUME NEW p, Procs = {p}, NEW r, Runs = {r}, Orderly, Orderly', Frugal(p, r), [Next]_vars
    PROVE  Frugal(p, r)'
<1>1. CASE Start(p) \/ Advance(p) \/ GiveUp(p) \/ Fault(p)
  BY <1>1, StartFrugal, DiscoveryFrugal, FetchBatchFrugal, TakeJobFrugal, FollowUserFrugal,
     AddFollowActionFrugal, MarkFollowedFrugal, RowsFrugal, CommitFrugal, LeaveFrugal,
     FaultFrugal, NeverBlocked
  DEF Advance, Discover, process_follow_queue
<1>2. CASE (\E s \in Runs : Abort(s)) \/ UNCHANGED vars
  <2>1. UNCHANGED <<proc, jobs, followed, puts, faults>>
    BY <1>2 DEF Abort, vars, db
  <2> QED BY <2>1 DEF Frugal
<1> QED BY <1>1, <1>2 DEF Next

\* With one process and one run an account is sent at most one request more than
\* its attempts for every crash and every exception of the client: what is rolled
\* back with a batch are the attempts of that batch, in which an account occurs once.
THEOREM FaultsAreCheap ==
    ASSUME NEW p, Procs = {p}, NEW r, Runs = {r}
    PROVE  Spec => []FaultCostsOneRequest
<1>1. Init => Frugal(p, r)
  BY FrugalInit
<1>2. Orderly /\ Orderly' /\ Frugal(p, r) /\ [Next]_vars => Frugal(p, r)'
  BY FrugalNext
<1>3. Orderly /\ Frugal(p, r) => FaultCostsOneRequest
  <2> SUFFICES ASSUME Orderly, Frugal(p, r), NEW u \in Users
               PROVE  puts[u] <= MaxAttempts + faults
    BY DEF FaultCostsOneRequest
  <2>1. /\ proc[p] \in Process /\ jobs[r] \in [Users -> Job]
        /\ puts[u] \in Nat /\ faults \in Nat /\ MaxAttempts \in Nat
    BY Alone, BoundAssumption
  <2>2. Sent(proc[p], jobs[r], followed, u) \in Nat
    BY <2>1, SentNat
  <2> QED BY <2>1, <2>2 DEF Frugal, Within
<1> QED BY <1>1, <1>2, <1>3, AlwaysOrderly, PTL DEF Spec

=============================================================================
