----------------------------- MODULE FollowQueue -----------------------------
(***************************************************************************)
(* The durable follow queue of the bot: one process per invocation of      *)
(* `run`, `worker` or `resume`, the tables they share (bot_runs,           *)
(* followers, follow_jobs, follow_actions) with the transaction each       *)
(* process has open on them, and GitHub as the outside world.              *)
(*                                                                         *)
(* A process reads committed rows and its own uncommitted writes.  What it *)
(* has written and not committed is kept in its record: under SQLite one   *)
(* open write transaction keeps every other writer out, under PostgreSQL   *)
(* each written row is locked until the commit or the rollback.            *)
(***************************************************************************)
EXTENDS Integers, FiniteSets

CONSTANTS
    Users,        \* GitHub accounts other than the bot's own
    Procs,        \* operating-system processes that may run a command
    Runs,         \* run ids (bot_runs.id)
    NoUser, NoRun,
    Denied,       \* accounts the policy engine refuses
    Engine,       \* "sqlite" or "postgres"
    Expand,       \* TRUE when BOT_DISCOVERY_MODE=expand
    DryModes,     \* values BOT_DRY_RUN may take, process by process
    MaxAttempts,  \* BOT_FOLLOW_JOB_MAX_ATTEMPTS
    MaxJobs,      \* follow budget of one invocation
    MaxPages,     \* bound: pages one discovery reads
    MaxFaults,    \* bound: crashes and GitHub exceptions in a behaviour
    MaxPuts       \* bound: requests counted per account (the count saturates)

ASSUME IdAssumption == /\ NoUser \notin Users
                       /\ NoRun \notin Runs
ASSUME FiniteAssumption == /\ IsFiniteSet(Procs)
                           /\ IsFiniteSet(Users)
ASSUME EngineAssumption == Engine \in {"sqlite", "postgres"}
ASSUME ModeAssumption == /\ Expand \in BOOLEAN
                         /\ DryModes \subseteq BOOLEAN
                         /\ Denied \subseteq Users
ASSUME BoundAssumption == /\ MaxAttempts \in Nat \ {0}
                          /\ MaxJobs \in Nat
                          /\ MaxPages \in Nat
                          /\ MaxFaults \in Nat
                          /\ MaxPuts \in Nat

VARIABLES
    runStatus,    \* bot_runs.status, "none" before the row exists
    jobs,         \* committed follow_jobs rows
    followed,     \* accounts whose committed followers row has followed=1
    acts,         \* accounts with a committed follow_actions row, success=1
    proc,         \* the processes and their open transactions
    github,       \* accounts the bot follows on GitHub
    puts,         \* follow requests sent to GitHub per account
    faults

db == <<runStatus, jobs, followed, acts>>
vars == <<db, proc, github, puts, faults>>

JobStatus == {"absent", "pending", "done", "failed", "dead_letter"}
Job == [status : JobStatus, attempts : Nat, id : Nat]
NoJob == [status |-> "absent", attempts |-> 0, id |-> 0]

RunStatus == {"none", "running", "completed", "failed", "aborted"}

PC == {"idle", "rate", "page", "see", "candidate", "enqueue", "endpage",
       "fetch", "job", "put", "record", "mark", "done", "fail", "dead",
       "commit", "leave", "finish"}

Process ==
    [pc : PC, kind : {"run", "queue"}, run : Runs \cup {NoRun}, dry : BOOLEAN,
     pages : Nat,                  \* pages discovery may still read
     work : SUBSET Users,          \* entries of the page, jobs of the batch
     read : [Users -> Nat],        \* attempts as fetched with the batch
     seen : SUBSET Users,          \* processed_in_invocation
     count : Nat,                  \* followed, the value the call returns
     cur : Users \cup {NoUser},    \* the candidate or the job in hand
     result : {"none", "ok", "dry", "restricted", "error"},
     error : BOOLEAN,              \* error_message is set
     txn : BOOLEAN,                \* a write transaction is open
     rows : SUBSET Users,          \* followers rows written in it
     marked : SUBSET Users,        \* ... and those set to followed=1
     job : [Users -> Job],         \* follow_jobs rows written in it
     act : SUBSET Users]           \* successful follow_actions added in it

Idle ==
    [pc |-> "idle", kind |-> "queue", run |-> NoRun, dry |-> FALSE, pages |-> 0,
     work |-> {}, read |-> [u \in Users |-> 0], seen |-> {}, count |-> 0,
     cur |-> NoUser, result |-> "none", error |-> FALSE, txn |-> FALSE,
     rows |-> {}, marked |-> {}, job |-> [u \in Users |-> NoJob], act |-> {}]

TypeOK ==
    /\ runStatus \in [Runs -> RunStatus]
    /\ jobs \in [Runs -> [Users -> Job]]
    /\ followed \subseteq Users
    /\ acts \subseteq Users
    /\ proc \in [Procs -> Process]
    /\ github \subseteq Users
    /\ puts \in [Users -> Nat]
    /\ faults \in Nat

Init ==
    /\ runStatus = [r \in Runs |-> "none"]
    /\ jobs = [r \in Runs |-> [u \in Users |-> NoJob]]
    /\ followed = {}
    /\ acts = {}
    /\ proc = [p \in Procs |-> Idle]
    /\ github = {}
    /\ puts = [u \in Users |-> 0]
    /\ faults = 0

-----------------------------------------------------------------------------
(* Storage: visibility, locks, commit and rollback.                        *)

\* SQLite lets one connection write at a time; PostgreSQL does not mind.
MayWrite(p) ==
    Engine = "sqlite" => \A q \in Procs \ {p} : ~proc[q].txn

\* Processes whose uncommitted write locks the followers row of u.
FollowerRowHolders(p, u) == {q \in Procs \ {p} : u \in proc[q].rows}

\* Processes whose uncommitted write locks the follow_jobs row (r, u).
JobRowHolders(p, r, u) ==
    {q \in Procs \ {p} : proc[q].run = r /\ proc[q].job[u].status # "absent"}

CanWriteFollower(p, u) == MayWrite(p) /\ FollowerRowHolders(p, u) = {}
CanWriteJob(p, u) == MayWrite(p) /\ JobRowHolders(p, proc[p].run, u) = {}

\* The follow_jobs row a process sees: its own write, or the committed row.
JobSeen(p, u) ==
    IF proc[p].job[u].status # "absent" THEN proc[p].job[u]
                                        ELSE jobs[proc[p].run][u]

is_followed(p, u) == u \in followed \cup proc[p].marked

has_successful_follow_action(p, u) == u \in acts \cup proc[p].act

\* Mutant of Upserted: a job queued again starts afresh, as INSERT OR REPLACE would.
UpsertedAnew(p, u, status, increment) ==
    LET old == JobSeen(p, u)
        kept == IF status = "pending" THEN 0 ELSE old.attempts
        present == {v \in Users : JobSeen(p, v).status # "absent"}
    IN  [status |-> status,
         attempts |-> kept + (IF increment THEN 1 ELSE 0),
         id |-> IF old.status = "absent" THEN Cardinality(present) + 1 ELSE old.id]

\* The row upsert_follow_job leaves: attempts and id survive an update.
Upserted(p, u, status, increment) ==
    LET old == JobSeen(p, u)
        inc == IF increment THEN 1 ELSE 0
        present == {v \in Users : JobSeen(p, v).status # "absent"}
    IN  [status |-> status,
         attempts |-> old.attempts + inc,
         id |-> IF old.status = "absent" THEN Cardinality(present) + 1 ELSE old.id]

\* Mutant of Commit: the ledger rows are left to a later commit.
CommitWithoutLedger(p) ==
    /\ jobs' = [r \in Runs |-> IF r = proc[p].run
                               THEN [u \in Users |-> JobSeen(p, u)] ELSE jobs[r]]
    /\ followed' = followed \cup proc[p].marked
    /\ acts' = acts

\* The tables after the open transaction of p is committed.
Commit(p) ==
    /\ jobs' = [r \in Runs |-> IF r = proc[p].run
                               THEN [u \in Users |-> JobSeen(p, u)] ELSE jobs[r]]
    /\ followed' = followed \cup proc[p].marked
    /\ acts' = acts \cup proc[p].act

\* The record of a process whose transaction has ended.
NoTxn(pr) == [pr EXCEPT !.txn = FALSE, !.rows = {}, !.marked = {}, !.act = {},
                        !.job = [u \in Users |-> NoJob]]

-----------------------------------------------------------------------------
(* The start of an invocation.                                             *)

\* FollowBackService.run: begin_run inserts the bot_runs row and commits.
StartRun(p, r) ==
    /\ proc[p].pc = "idle"
    /\ runStatus[r] = "none"
    /\ MayWrite(p)
    /\ runStatus' = [runStatus EXCEPT ![r] = "running"]
    /\ \E dry \in DryModes :
         proc' = [proc EXCEPT ![p] = [Idle EXCEPT !.pc = "rate", !.kind = "run",
                                        !.run = r, !.dry = dry, !.pages = MaxPages]]
    /\ UNCHANGED <<jobs, followed, acts, github, puts, faults>>

StartQueue(p, r) ==
    /\ proc[p].pc = "idle"
    /\ \E dry \in DryModes :
         proc' = [proc EXCEPT ![p] = [Idle EXCEPT !.pc = "fetch", !.run = r, !.dry = dry]]
    /\ UNCHANGED <<db, github, puts, faults>>

\* `worker --run-id r`: the status of the run is not looked at.
StartWorker(p, r) == runStatus[r] # "none" /\ StartQueue(p, r)

\* `resume --run-id r`: only a run that has not completed; bot_runs is not updated.
StartResume(p, r) ==
    /\ runStatus[r] \in {"running", "failed", "aborted"}
    /\ StartQueue(p, r)

\* Mutant of Abortable: without AND status='running'.
AnyRun(r) == runStatus[r] # "none"

Abortable(r) == runStatus[r] = "running"

\* `abort --run-id r`, by a process of its own: one UPDATE and its commit.
Abort(r) ==
    /\ Abortable(r)
    /\ Engine = "sqlite" => \A q \in Procs : ~proc[q].txn
    /\ runStatus' = [runStatus EXCEPT ![r] = "aborted"]
    /\ UNCHANGED <<jobs, followed, acts, proc, github, puts, faults>>

-----------------------------------------------------------------------------
(* Discovery.                                                              *)

\* check_rate_limit answered; the snapshot row opens a transaction.
CheckRateLimit(p) ==
    /\ proc[p].pc = "rate"
    /\ MayWrite(p)
    /\ proc' = [proc EXCEPT ![p].pc = "page", ![p].txn = TRUE]
    /\ UNCHANGED <<db, github, puts, faults>>

\* fetch_followers returns a page of entries, or an empty one: discovery ends.
\* In expand mode (ExpandDiscovery) a page stands for all that a seed yields,
\* which is what one commit covers there; the cursor is written first.
FetchPage(p) ==
    /\ proc[p].pc = "page"
    /\ \/ \E page \in SUBSET Users :
            /\ page # {}
            /\ proc[p].pages > 0
            /\ Expand => MayWrite(p)
            /\ proc' = [proc EXCEPT ![p].pc = "see", ![p].work = page,
                                    ![p].pages = @ - 1, ![p].txn = @ \/ Expand]
       \/ proc' = [proc EXCEPT ![p].pc = "fetch"]
    /\ UNCHANGED <<db, github, puts, faults>>

\* upsert_follower_seen of the next entry.
SeeCandidate(p, u) ==
    /\ proc[p].pc = "see"
    /\ u \in proc[p].work
    /\ CanWriteFollower(p, u)
    /\ proc' = [proc EXCEPT ![p].pc = "candidate", ![p].cur = u, ![p].txn = TRUE,
                            ![p].work = @ \ {u}, ![p].rows = @ \cup {u}]
    /\ UNCHANGED <<db, github, puts, faults>>

NextEntry(p) == IF proc[p].work = {} THEN "endpage" ELSE "see"

\* The checks of _enqueue_discovered_candidate that turn a candidate down.
Skip(p, u) ==
    \/ is_followed(p, u)
    \/ Expand /\ has_successful_follow_action(p, u)
    \/ JobSeen(p, u).status \in {"pending", "done"}

CheckCandidate(p) ==
    /\ proc[p].pc = "candidate"
    /\ proc' = [proc EXCEPT ![p].pc = IF Skip(p, proc[p].cur) THEN NextEntry(p) ELSE "enqueue"]
    /\ UNCHANGED <<db, github, puts, faults>>

\* upsert_follow_job(..., "pending"): attempts made before are kept.
EnqueueCandidate(p) ==
    LET u == proc[p].cur
    IN  /\ proc[p].pc = "enqueue"
        /\ CanWriteJob(p, u)
        /\ proc' = [proc EXCEPT ![p].pc = NextEntry(p), ![p].txn = TRUE,
                                ![p].job[u] = Upserted(p, u, "pending", FALSE)]
        /\ UNCHANGED <<db, github, puts, faults>>


CommitPage(p) ==
    /\ proc[p].pc = "endpage"
    /\ Commit(p)
    /\ proc' = [proc EXCEPT ![p] = [NoTxn(@) EXCEPT !.pc = "page"]]
    /\ UNCHANGED <<runStatus, github, puts, faults>>

-----------------------------------------------------------------------------
(* process_follow_queue.                                                   *)

\* Mutant of Remaining: the accounts already followed are not deducted.
WholeBudget(p) == MaxJobs

Remaining(p) == IF proc[p].count < MaxJobs THEN MaxJobs - proc[p].count ELSE 0

\* Mutant of fetch_follow_jobs: everything that is not dead-lettered.
FetchUnlessDead(p, limit) ==
    LET eligible == {u \in Users : JobSeen(p, u).status \in {"pending", "failed", "done"}}
    IN  {batch \in SUBSET eligible :
           /\ Cardinality(batch) <= limit
           /\ Cardinality(batch) < limit => batch = eligible
           /\ \A u \in batch, v \in eligible \ batch : JobSeen(p, u).id < JobSeen(p, v).id}

\* fetch_follow_jobs: the first `limit` pending or failed rows by id.
fetch_follow_jobs(p, limit) ==
    LET eligible == {u \in Users : JobSeen(p, u).status \in {"pending", "failed"}}
    IN  {batch \in SUBSET eligible :
           /\ Cardinality(batch) <= limit
           /\ Cardinality(batch) < limit => batch = eligible
           /\ \A u \in batch, v \in eligible \ batch : JobSeen(p, u).id < JobSeen(p, v).id}

\* An iteration that finds nothing new to this invocation is the last.
AfterFetch(p, batch) == IF batch \subseteq proc[p].seen THEN "leave" ELSE "job"

\* The head of the loop: the budget is spent, or a batch is fetched, of which
\* the jobs this invocation has handled are passed over.
FetchBatch(p) ==
    /\ proc[p].pc = "fetch"
    /\ \/ /\ Remaining(p) = 0
          /\ proc' = [proc EXCEPT ![p].pc = "leave"]
       \/ /\ Remaining(p) > 0
          /\ \E batch \in fetch_follow_jobs(p, Remaining(p)) :
               LET fresh == batch \ proc[p].seen
               IN  proc' = [proc EXCEPT
                     ![p].pc = AfterFetch(p, batch),
                     ![p].work = fresh,
                     ![p].read = [u \in Users |-> IF u \in fresh THEN JobSeen(p, u).attempts
                                                                 ELSE 0]]
    /\ UNCHANGED <<db, github, puts, faults>>

NextJob(p) == IF proc[p].work = {} THEN "commit" ELSE "job"

\* PolicyEngine.evaluate_follow: the caller always passes consent as given, so it
\* is the denylist that decides.
evaluate_follow(u) == u \notin Denied

\* Mutant of Plan: no look at the attempts fetched with the job.
PlanWithoutBudget(p, u) ==
    CASE is_followed(p, u) -> "done"
      [] ~is_followed(p, u) /\ ~evaluate_follow(u) -> "dead"
      [] OTHER -> IF proc[p].dry THEN "record" ELSE "put"

\* What the handler of job u will do: skip an account already followed, give
\* the job up, pretend (dry run), or send the request.
Plan(p, u) ==
    CASE is_followed(p, u) -> "done"
      [] ~is_followed(p, u) /\ (proc[p].read[u] >= MaxAttempts \/ ~evaluate_follow(u)) -> "dead"
      [] OTHER -> IF proc[p].dry THEN "record" ELSE "put"

\* The next job of the batch, in id order.
TakeJob(p) ==
    /\ proc[p].pc = "job"
    /\ \E u \in proc[p].work :
         /\ \A v \in proc[p].work : JobSeen(p, u).id <= JobSeen(p, v).id
         /\ proc' = [proc EXCEPT
              ![p].pc = Plan(p, u),
              ![p].result = IF Plan(p, u) = "record" THEN "dry" ELSE "none",
              ![p].cur = u, ![p].work = @ \ {u}, ![p].seen = @ \cup {u}]
    /\ UNCHANGED <<db, github, puts, faults>>

\* Mutant of FollowUser: success is reported before GitHub has applied the follow.
FollowUserEarly(p) ==
    /\ proc[p].pc = "put"
    /\ \E result \in {"ok", "restricted", "error"}, G \in {github, github \cup {proc[p].cur}} :
         /\ github' = G
         /\ proc' = [proc EXCEPT ![p].pc = "record", ![p].result = result]
    /\ puts' = [puts EXCEPT ![proc[p].cur] = IF @ < MaxPuts THEN @ + 1 ELSE @]
    /\ UNCHANGED <<db, faults>>

\* follow_user returned.  An answer other than success may come after GitHub
\* applied the follow: the verification probe can fail or see it too late.
FollowUser(p) ==
    LET u == proc[p].cur
    IN  /\ proc[p].pc = "put"
        /\ \E result \in {"ok", "restricted", "error"}, applied \in BOOLEAN :
             /\ result = "ok" => applied
             /\ github' = IF applied THEN github \cup {u} ELSE github
             /\ proc' = [proc EXCEPT ![p].pc = "record", ![p].result = result]
        /\ puts' = [puts EXCEPT ![u] = IF @ < MaxPuts THEN @ + 1 ELSE @]
        /\ UNCHANGED <<db, faults>>

\* Mutant of AfterAction: a restricted profile is taken for a dry run.
RestrictedIsDone(result) ==
    CASE result = "ok" -> "mark" [] result = "error" -> "fail" [] OTHER -> "done"

\* What the handler does with the answer.
AfterAction(result) ==
    CASE result = "ok" -> "mark"
      [] result = "dry" -> "done"
      [] result = "restricted" -> "dead"
      [] OTHER -> "fail"

\* add_follow_action: the row of the ledger, in the open transaction.
AddFollowAction(p) ==
    LET success == proc[p].result \in {"ok", "dry"}
    IN  /\ proc[p].pc = "record"
        /\ MayWrite(p)
        /\ proc' = [proc EXCEPT
             ![p].pc = AfterAction(proc[p].result), ![p].txn = TRUE,
             ![p].act = IF success THEN @ \cup {proc[p].cur} ELSE @]
        /\ UNCHANGED <<db, github, puts, faults>>

MarkFollowed(p) ==
    LET u == proc[p].cur
    IN  /\ proc[p].pc = "mark"
        /\ CanWriteFollower(p, u)
        /\ proc' = [proc EXCEPT ![p].pc = "done", ![p].txn = TRUE,
                                ![p].rows = @ \cup {u}, ![p].marked = @ \cup {u}]
        /\ UNCHANGED <<db, github, puts, faults>>

\* upsert_follow_job(..., "done"); a follow or a dry run counts, a skip does not.
MarkDone(p) ==
    LET u == proc[p].cur
    IN  /\ proc[p].pc = "done"
        /\ CanWriteJob(p, u)
        /\ proc' = [proc EXCEPT ![p].pc = NextJob(p), ![p].txn = TRUE, ![p].result = "none",
             ![p].job[u] = Upserted(p, u, "done", FALSE),
             ![p].count = IF proc[p].result \in {"ok", "dry"} THEN @ + 1 ELSE @]
        /\ UNCHANGED <<db, github, puts, faults>>

\* upsert_follow_job(..., "dead_letter"); only a restricted profile, which did
\* get a request, counts as an attempt here.
DeadLetter(p) ==
    LET u == proc[p].cur
        attempted == proc[p].result = "restricted"
    IN  /\ proc[p].pc = "dead"
        /\ CanWriteJob(p, u)
        /\ proc' = [proc EXCEPT ![p].pc = NextJob(p), ![p].txn = TRUE, ![p].result = "none",
                      ![p].job[u] = Upserted(p, u, "dead_letter", attempted)]
        /\ UNCHANGED <<db, github, puts, faults>>

\* Mutant of FailedRow: increment_attempt is forgotten.
FailedRowUncharged(p, u) == Upserted(p, u, "failed", FALSE)

\* Mutant of FailedRow: one attempt too many before the job is given up.
FailedRowOneMore(p, u) ==
    LET row == Upserted(p, u, "failed", TRUE)
    IN  IF row.attempts > MaxAttempts THEN [row EXCEPT !.status = "dead_letter"] ELSE row

\* upsert "failed" with one more attempt; the row read back decides whether the
\* retry budget is spent and the job is dead-lettered on the spot.
FailedRow(p, u) ==
    LET row == Upserted(p, u, "failed", TRUE)
    IN  IF row.attempts >= MaxAttempts THEN [row EXCEPT !.status = "dead_letter"] ELSE row

RecordFailure(p) ==
    /\ proc[p].pc = "fail"
    /\ CanWriteJob(p, proc[p].cur)
    /\ proc' = [proc EXCEPT ![p].pc = NextJob(p), ![p].txn = TRUE, ![p].result = "none",
                            ![p].job[proc[p].cur] = FailedRow(p, proc[p].cur)]
    /\ UNCHANGED <<db, github, puts, faults>>

\* The only commit of process_follow_queue: after the whole batch.
CommitBatch(p) ==
    /\ proc[p].pc = "commit"
    /\ Commit(p)
    /\ proc' = [proc EXCEPT ![p] = [NoTxn(@) EXCEPT !.pc = "fetch"]]
    /\ UNCHANGED <<runStatus, github, puts, faults>>

\* The queue call returns.  A worker exits; a run commits and goes on to finish_run.
Leave(p) ==
    /\ proc[p].pc = "leave"
    /\ IF proc[p].kind = "run"
       THEN /\ Commit(p)
            /\ proc' = [proc EXCEPT ![p] = [NoTxn(@) EXCEPT !.pc = "finish"]]
       ELSE /\ proc' = [proc EXCEPT ![p] = Idle]
            /\ UNCHANGED <<jobs, followed, acts>>
    /\ UNCHANGED <<runStatus, github, puts, faults>>

\* Mutant of Outcome: a status no reader knows.
OutcomeUnknown(p) == "finished"

Outcome(p) == IF proc[p].error THEN "failed" ELSE "completed"

\* finish_run overwrites the status, whatever it has become.
FinishRun(p) ==
    /\ proc[p].pc = "finish"
    /\ MayWrite(p)
    /\ runStatus' = [runStatus EXCEPT ![proc[p].run] = Outcome(p)]
    /\ proc' = [proc EXCEPT ![p] = Idle]
    /\ UNCHANGED <<jobs, followed, acts, github, puts, faults>>

-----------------------------------------------------------------------------
(* Failures.                                                               *)

\* The process is gone and the engine rolls its transaction back.
Exit(p) ==
    /\ proc' = [proc EXCEPT ![p] = Idle]
    /\ UNCHANGED <<jobs, followed, acts>>

\* A RequestException out of the GitHub client.  `run` catches it, commits what
\* it has and finishes as failed; `worker` and `resume` let it end the process.
AfterGithubError(p) ==
    IF proc[p].kind = "run"
    THEN /\ Commit(p)
         /\ proc' = [proc EXCEPT ![p] = [NoTxn(@) EXCEPT !.pc = "finish", !.error = TRUE]]
    ELSE Exit(p)

\* The retries of _request are exhausted: the request may have been applied.
FollowUserRaises(p) ==
    LET u == proc[p].cur
    IN  /\ proc[p].pc = "put"
        /\ faults < MaxFaults
        /\ faults' = faults + 1
        /\ github' \in {github, github \cup {u}}
        /\ puts' = [puts EXCEPT ![u] = IF @ < MaxPuts THEN @ + 1 ELSE @]
        /\ AfterGithubError(p)
        /\ UNCHANGED runStatus

\* The rate-limit call or a page fetch raises (in expand mode only a token that
\* cannot be renewed, and the pages of the fallback, raise as far as `run`).
DiscoveryRaises(p) ==
    /\ proc[p].pc \in {"rate", "page"}
    /\ faults < MaxFaults
    /\ faults' = faults + 1
    /\ AfterGithubError(p)
    /\ UNCHANGED <<runStatus, github, puts>>

\* Processes whose transaction the next write of p has to wait for.
Blockers(p) ==
    LET u == proc[p].cur
        writers == IF Engine = "sqlite" THEN {q \in Procs \ {p} : proc[q].txn} ELSE {}
    IN  CASE proc[p].pc \in {"rate", "record", "finish"} -> writers
          [] proc[p].pc = "page" -> IF Expand THEN writers ELSE {}
          [] proc[p].pc = "mark" -> writers \cup FollowerRowHolders(p, u)
          [] proc[p].pc = "see" -> writers \cup UNION {FollowerRowHolders(p, v) : v \in proc[p].work}
          [] proc[p].pc \in {"enqueue", "done", "dead", "fail"} ->
                writers \cup JobRowHolders(p, proc[p].run, u)
          [] OTHER -> {}

\* Mutant of AfterStorageError: the write is tried again in the same transaction.
RetryInPlace(p) == UNCHANGED vars

\* A storage error aborts the transaction; run() still gets to finish_run,
\* unless it is finish_run that failed.
AfterStorageError(p) ==
    /\ IF proc[p].kind = "run" /\ proc[p].pc # "finish"
       THEN proc' = [proc EXCEPT ![p] = [NoTxn(@) EXCEPT !.pc = "finish", !.error = TRUE]]
       ELSE proc' = [proc EXCEPT ![p] = Idle]
    /\ UNCHANGED <<db, github, puts, faults>>

\* SQLite: "database is locked" after five seconds behind another writer.
LockTimeout(p) ==
    /\ Engine = "sqlite"
    /\ Blockers(p) # {}
    /\ AfterStorageError(p)

\* PostgreSQL aborts one process of a cycle of row waits.
DeadlockVictim(p) ==
    /\ Engine = "postgres"
    /\ \E S \in SUBSET Procs :
         /\ p \in S
         /\ \A q \in S : Blockers(q) \cap S # {} /\ \E w \in S : q \in Blockers(w)
    /\ AfterStorageError(p)

Crash(p) ==
    /\ proc[p].pc # "idle"
    /\ faults < MaxFaults
    /\ faults' = faults + 1
    /\ Exit(p)
    /\ UNCHANGED <<runStatus, github, puts>>

-----------------------------------------------------------------------------

Discover(p) ==
    \/ CheckRateLimit(p)
    \/ FetchPage(p)
    \/ \E u \in Users : SeeCandidate(p, u)
    \/ CheckCandidate(p)
    \/ EnqueueCandidate(p)
    \/ CommitPage(p)

process_follow_queue(p) ==
    \/ FetchBatch(p)
    \/ TakeJob(p)
    \/ FollowUser(p)
    \/ AddFollowAction(p)
    \/ MarkFollowed(p)
    \/ MarkDone(p)
    \/ DeadLetter(p)
    \/ RecordFailure(p)
    \/ CommitBatch(p)

\* The steps of a started invocation that goes well, and those that end it.
Advance(p) == Discover(p) \/ process_follow_queue(p) \/ Leave(p) \/ FinishRun(p)
GiveUp(p) == LockTimeout(p) \/ DeadlockVictim(p)
Fault(p) == FollowUserRaises(p) \/ DiscoveryRaises(p) \/ Crash(p)

Start(p) ==
    \E r \in Runs : StartRun(p, r) \/ StartResume(p, r) \/ StartWorker(p, r)

Next ==
    \/ \E p \in Procs : Start(p) \/ Advance(p) \/ GiveUp(p) \/ Fault(p)
    \/ \E r \in Runs : Abort(r)

Spec == Init /\ [][Next]_vars

\* A started process is scheduled.  A SQLite writer gets the lock or times out;
\* PostgreSQL queues the waiters of a row, so a wait that ends is granted.
Progress ==
    \A p \in Procs : /\ WF_vars(Advance(p) \/ GiveUp(p))
                     /\ Engine = "postgres" => SF_vars(Advance(p))

\* The operator (cron, a scheduler) keeps invoking the worker of every run.
WorkerReinvoked ==
    \A r \in Runs : SF_vars(\E p \in Procs : StartWorker(p, r))

LiveSpec == Spec /\ Progress
ReinvokedSpec == LiveSpec /\ WorkerReinvoked

-----------------------------------------------------------------------------
(* Safety.                                                                 *)

\* What the tables say was followed is followed on GitHub: a followers row set to
\* followed=1 and, when no process runs dry, a job that ended `done` and an account
\* in the history that expand mode skips, whatever crashed, raised or ran beside it.
RecordedFollowsAreReal ==
    /\ followed \subseteq github
    /\ TRUE \notin DryModes =>
         /\ acts \subseteq github
         /\ \A r \in Runs, u \in Users : jobs[r][u].status = "done" => u \in github

\* The ledger is never behind the state it explains: every followed account and
\* every job that ended `done` has a committed successful follow_actions row.
LedgerBacksState ==
    /\ followed \subseteq acts
    /\ \A r \in Runs, u \in Users : jobs[r][u].status = "done" => u \in acts

\* A job is charged at most one attempt beyond the budget per additional process:
\* with one process BOT_FOLLOW_JOB_MAX_ATTEMPTS is exact, and processes that
\* fetched the same job before it was charged cost no more than one each.
AttemptsBounded ==
    \A r \in Runs, u \in Users :
        jobs[r][u].attempts <= MaxAttempts + Cardinality(Procs) - 1

\* A job left `failed` has attempts to spare: a spent job never waits for an
\* invocation that would have nothing to try.
FailedIsRetryable ==
    \A r \in Runs, u \in Users :
        jobs[r][u].status = "failed" => jobs[r][u].attempts < MaxAttempts

\* One invocation never follows more accounts than its budget, although the
\* budget is only looked at between batches.
BudgetRespected == \A p \in Procs : proc[p].count <= MaxJobs

\* An account is sent at most BOT_FOLLOW_JOB_MAX_ATTEMPTS requests for the job
\* of one run (checked with one run).
RequestsWithinRetryBudget == \A u \in Users : puts[u] <= MaxAttempts

\* With one process and one run a fault costs an account one request at most: the
\* attempts rolled back with a batch are those of the batch in progress, in which
\* an account occurs once.
FaultCostsOneRequest == \A u \in Users : puts[u] <= MaxAttempts + faults

\* An account with a successful row in the history is followed on GitHub: the
\* expand mode skips it as already_followed_historically.
HistoryIsTrue == acts \subseteq github

-----------------------------------------------------------------------------
(* Composition with the client.                                            *)

\* The answer process p holds of a call for u.  A call that raises answers nothing.
AnswerFor(p, u) ==
    IF proc[p].cur = u /\ proc[p].result \in {"ok", "restricted", "error"}
    THEN proc[p].result ELSE "none"

FC(p, u) == INSTANCE FollowCall WITH follows <- u \in github, answer <- AnswerFor(p, u)

\* Of every process and account, the calls the queue makes behave as FollowCall
\* says, which is what GitHubClient implements: no answer is used for another
\* account, none is kept from one call to the next, and `ok` means followed.  (It is
\* FC(p, u)!Spec for all p and u, in the form that TLC takes.)
CallsKeepPromise ==
    /\ \A p \in Procs, u \in Users : FC(p, u)!Init
    /\ [][\A p \in Procs, u \in Users : FC(p, u)!Next]_vars

-----------------------------------------------------------------------------
(* Steps.                                                                  *)

Handling == {"put", "record", "mark", "done", "fail", "dead"}

\* Processes that may still write job (r, u): it is in their batch or in their
\* hands, or their open transaction has written it.
InHand(r, u) ==
    {p \in Procs : /\ proc[p].run = r
                   /\ \/ u \in proc[p].work /\ proc[p].pc \in {"job"} \cup Handling
                      \/ u = proc[p].cur /\ proc[p].pc \in {"enqueue"} \cup Handling
                      \/ proc[p].job[u].status # "absent"}

\* A job whose `done` is committed and that no process has in hand is final: no
\* later discovery, worker or resume takes it up again.
DoneIsFinal ==
    [][\A r \in Runs, u \in Users :
          (jobs[r][u].status = "done" /\ InHand(r, u) = {}) =>
              (jobs'[r][u].status = "done" /\ InHand(r, u)' = {})]_vars

\* The attempts a job has been charged are never given back: not by a discovery that
\* finds the account again and queues its failed or dead job anew, nor by a worker
\* that fetched the job before another charged it.
ChargesAreKept ==
    [][\A r \in Runs, u \in Users : jobs'[r][u].attempts >= jobs[r][u].attempts]_vars

\* A run has ended: it completed or failed, or it is aborted and the process that
\* began it is gone.
Ended(r) ==
    \/ runStatus[r] \in {"completed", "failed"}
    \/ runStatus[r] = "aborted" /\ \A p \in Procs : ~(proc[p].kind = "run" /\ proc[p].run = r)

\* A run that has ended keeps its status: whatever resumes, aborts or works on it,
\* only the process that began it ever finishes it, and nothing begins it again.
FinishedRunIsFinal ==
    [][\A r \in Runs : Ended(r) => runStatus'[r] = runStatus[r]]_vars

\* An aborted run stays aborted.
AbortIsFinal ==
    [][\A r \in Runs : runStatus[r] = "aborted" => runStatus'[r] = "aborted"]_vars

\* A follow GitHub acknowledged and the process marked ends up in the tables.
AcknowledgedFollowIsKept ==
    [][\A p \in Procs, u \in Users :
          (u \in proc[p].marked /\ u \notin proc'[p].marked) => u \in followed']_vars

-----------------------------------------------------------------------------
(* Liveness.                                                               *)

\* Every invocation ends, however the locks, the retries and the budget fall.
InvocationEnds == \A p \in Procs : proc[p].pc # "idle" ~> proc[p].pc = "idle"

\* With workers invoked again and again and finitely many faults, every queued
\* job is settled: a batch that keeps failing does not starve the jobs behind it.
JobsSettle ==
    \A r \in Runs, u \in Users :
        jobs[r][u].status \in {"pending", "failed"} ~>
            jobs[r][u].status \in {"done", "dead_letter"}

=============================================================================
