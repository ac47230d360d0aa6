# TLA+ models of the GitHub follow bot

This directory holds TLA+ models of the bot in `src/`, the TLC configurations
that check them on small instances, and theorems about them whose proofs TLAPS
checks for every value of the constants. Source references are of the form
`file:line`; `frs` stands for
`src/core/application/capabilities/follow_back_service.py`, `bot` for
`src/bot.py`.

- [1 The system](#1-the-system)
- [2 The modules](#2-the-modules)
- [3 The runs](#3-the-runs)
- [4 The proofs](#4-the-proofs)
- [5 Where code and documents disagree](#5-where-code-and-documents-disagree)
- [6 What is not modelled](#6-what-is-not-modelled)
- [7 Plan](#7-plan)

How to repeat everything, from this directory:

    tlc -workers 2 -config fq_sqlite.cfg MCFollowQueue    # a run
    tlapm FollowQueueProofs.tla                           # a proof module

## 1 The system

The bot follows on GitHub the accounts that follow its owner (or, in *expand*
mode, accounts around those the owner follows). Every command is a process of
its own, and all they share is the database (SQLite, or PostgreSQL through an
adapter of the same interface) and GitHub. Commands are started by hand, by
cron, by the GUI or by the bot's own `scheduler`, so several may be at work at
a time on the same tables.

| component | state it keeps | operations | talks to | what is hard about it |
|---|---|---|---|---|
| follow queue (`frs`, storage in `bot`) | `bot_runs`, `followers`, `follow_jobs`, `follow_actions`, an open transaction per process | `run`, `worker`, `resume`, `abort` | GitHub client, policy engine, database | writes of several processes in transactions that span GitHub requests; crashes and exceptions that roll back what GitHub has already done; retry budgets read before they are charged |
| expand discovery (`frs`) | cursor in `settings` (seed index, phase, page), budgets, breaker window | one discovery per `run` | GitHub client, follow queue | resuming, three budgets at once, failures of every request, fallback |
| GitHub client (`bot`) | the token and its expiry | `follow_user`, `fetch_*`, fork and repository calls | GitHub, token provider | retries inside probes inside a call; a token that dies between two requests; GitHub that answers late or falsely |
| GitHub App token issuance (`bot`, `frs`) | none | resolve the key, sign, issue a token with an expiry | GitHub | fails in several ways in the middle of a request |
| policy engine (`infra/policy`) | denylist, retention window | `evaluate_follow` | follow queue | nothing: a pure function |
| scheduler and its lock (`control_plane`, `bot`) | one `settings` row: the end of the lease | acquire, tick, release | database, follow queue | stale clock readings, leases that run out under their holder, two statements per acquisition |
| queue adapters and diagnostics (`adapters/queue`, `queue_backend`) | messages at a broker | publish, consume, ack, retry, smoke test | RabbitMQ, Redis Streams, SQS | delivery, loss and duplication that differ per broker |
| fork discovery and catalog (`fork_discovery*`, `bot`) | `repository_catalog` rows, counters | `fork-repos` | GitHub client, database | partial failures, commits that differ per engine, a budget with three exits |
| legacy file import (`frs`) | text files beside the database, `settings.legacy_migration_done` | import after `begin_run` | file system, database | a rename is not rolled back with the transaction; two runs share the files |
| configuration (`bot`) | none after start | parse the environment | everything | nothing that changes |
| control-plane status, HTTP server | none | read-only reports | database | nothing that changes state |
| reports, manifests, exports | files | write them | database | nothing the bot acts on |
| telemetry, GUI, scripts, deployment files | none | — | — | outside the core |

The properties that make the modelled components correct are listed with the
modules and the runs below; the hazards they answer are listed at their lines
in `PROJECT.json`.

## 2 The modules

| module | what it is |
|---|---|
| `FollowQueue` | the queue: processes, tables, transactions, crashes |
| `FollowQueueProofs` | its type invariant and its safety invariants |
| `FollowQueueConcurrency` | what its processes may do to each other; the composition with `FollowCall`; what a fault costs |
| `ExpandDiscovery`, `ExpandDiscoveryProofs` | expand mode; types, budgets, breaker and fallback, no wasted call |
| `GitHubClient`, `GitHubClientProofs` | the client and the issuance of tokens; all its safety properties and its refinement |
| `FollowCall` | abstract: what `follow_user` promises the queue |
| `SchedulerLock`, `SchedulerLockProofs` | the scheduler and its lock; types, lease, refinement |
| `Lease` | abstract: a lock with a time to live |
| `LegacyMigration`, `LegacyMigrationProofs` | the import of the legacy files; types, no file forgotten |
| `QueueAdapters`, `QueueAdaptersProofs` | the three queue backends and the smoke test; types, dead-lettering, refinement and what follows from it |
| `Delivery` | abstract: what the backends promise for a job |
| `ForkDiscovery`, `ForkDiscoveryProofs` | `fork-repos` and the repository catalog; all its safety properties |
| `MC*` | instances for TLC: sample data and symmetry |

Three abstract specifications are implemented by a detailed one, each through an
`INSTANCE ... WITH` that names the mapping:

| abstract | detailed | mapping |
|---|---|---|
| `FollowCall` | `GitHubClient` (`F`) | `follows` is GitHub's truth, `answer` the result of a `follow_user` that is over |
| `FollowCall` | `FollowQueue` (`FC(p, u)`, one for each process and account) | `follows` is whether `u` is in `github`, `answer` the answer `p` holds for `u` |
| `Lease` | `SchedulerLock` (`L`) | `lease` is, for each scheduler, the end of the lease it acts under, or 0 |
| `Delivery` | `QueueAdapters` (`D`) | `copies` counts the messages of a job in the queue, in a client's hands and hidden for a client that is gone; `fate` says how copies ended |

So `FollowQueue` and `GitHubClient` are composed through `FollowCall`: the client
implements it (`ImplementsFollowCall`), and what the queue does with the client,
of every process and account, is a behaviour of it (`CallsKeepPromise`): no
answer is used for another account, none is kept from one call to the next, and
`ok` is taken only where the account is followed.

`FollowQueue` and `ExpandDiscovery` split expand mode: how pages and seeds are
visited is in `ExpandDiscovery`, what becomes of an entry in `FollowQueue`,
where one *page* stands for all the entries of a seed, because one commit
covers them (`frs:787`). `SchedulerLock` leaves a tick (a whole `run`) open: it
is an invocation of `FollowQueue`.

### 2.1 FollowQueue

State: the four tables (`runStatus`, `jobs` with status, attempts and id,
`followed`, `acts` for the accounts with a successful `follow_actions` row),
`github` for GitHub's side, and `proc`: a record per operating-system process
with its program counter, the local variables of `run` and
`process_follow_queue`, and its open transaction (`txn`, and the rows written
in it: `rows`, `marked`, `job`, `act`). A process reads committed rows and its
own writes (`JobSeen`, `is_followed`, `has_successful_follow_action`).

Storage differs by engine. Under SQLite one open write transaction keeps every
other writer out (`MayWrite`) until it commits or the other gives up after the
five seconds of `sqlite3` (`LockTimeout`: "database is locked"). Under
PostgreSQL two processes write at once, wait for each other's rows
(`CanWriteFollower`, `CanWriteJob`) and may deadlock, whereupon one is aborted
(`DeadlockVictim`). Reads never wait.

| actions | code |
|---|---|
| `StartRun`, `StartWorker`, `StartResume`, `Abort` | `begin_run`, `handle_worker_command`, `handle_resume_command`, `abort_run` |
| `CheckRateLimit`, `FetchPage`, `SeeCandidate`, `CheckCandidate`, `EnqueueCandidate`, `CommitPage` | `_discover_candidates_followers`, `_enqueue_discovered_candidate` |
| `FetchBatch`, `TakeJob`, `FollowUser`, `AddFollowAction`, `MarkFollowed`, `MarkDone`, `DeadLetter`, `RecordFailure`, `CommitBatch`, `Leave` | `process_follow_queue`, one action per statement another process can interleave with |
| `FinishRun` | `finish_run` |
| `FollowUserRaises`, `DiscoveryRaises` | a `RequestException`: `run` catches it, commits what it has and finishes as `failed` (`frs:868`); `worker` and `resume` end |
| `Crash` | the process dies, or anything ends it that `run` does not catch |

Points where the model says more than the code seems to at first sight:

- The attempts a job is judged by are those fetched with its batch (`read`),
  not those in the table when its turn comes (`frs:256`).
- Jobs of the batch that this invocation has already handled are passed over,
  and a batch without a fresh job ends the loop (`AfterFetch`).
- `max_jobs=None` is `MaxJobs` larger than the number of jobs.
- `evaluate_follow` of the policy engine is the denylist (`Denied`): the only
  caller passes consent as given, and the retention window is read by nothing.
- The legacy import sits before the `try` of `run`: an exception there leaves
  the run `running`, as `Crash` does. The import itself is `LegacyMigration`.

### 2.2 ExpandDiscovery

State: the cursor as committed (`saved`) and as the run sees it (`cursor`), and
`d`, the run in progress: seeds listed, the index it started from, how many
seeds it has dealt with, phase and page, candidates, calls, and the breaker
with its window. `asked` and `explored` are history variables, of this run and
of all runs. Actions: `ListSeeds`, `ListCut`, `ListFails` (the list of seeds);
`Begin`, `LeaveSeeds`, `OpenSeed`, `EndSeed` (the loop over seeds);
`ReadPage`, `LeavePage`, `NoCallLeft`, `PageFails` (the loop over pages);
`ReadOwnPage` (fallback); `Finish`, `Raise`, `Crash` (the end). How many
entries of a page are new candidates is open. The list of seeds is what the bot
follows: between two runs an account may join at its head or leave it
(`Refollow`, at most `MaxChanges` times), so that the saved index names another
seed; within a run it stays the same, and no account is on it twice. The budget of calls is one of
`CallLimits` for a behaviour, so that one run checks a budget that ends in the
list of seeds and one that does not. The initial cursor is whatever
the settings table holds, absent and out-of-range values included.

### 2.3 GitHubClient and FollowCall

State: `call` (kind, the request at hand, attempt, probe, result), `token`
(`soon`: the clock says it expires; `good`: GitHub accepts it) and `follows`.
The kinds of a call are `follow_user`, a `fetch_*` (they differ only in the list
they ask for), `check_rate_limit`, `get_repository` and `fork_repository`; what
each makes of a failed request is `Failure`. `CheckToken` is `_ensure_token`,
`Send` one request and what `_request`, and then the call, make of the reply,
`RenewToken` the renewal on a 401; `Age` and `Die` let the token expire or stop
working at any moment, in agreement with the clock or not. A renewal resolves
the private key, signs a JWT and asks GitHub for a token, and fails in any of
the ways `KeyErrors` and `Issuance` list; each ends the call in the way it ends
in the code. `Reply` says what GitHub may answer to each request; with `Silent`
it may answer 204 to a follow that it never applies. A 200 may come with a body
that is no JSON (`garbled`): who reads the body gets an exception, who only looks
at the status (the two lookups of `follow_user`) does not notice. A rate limit may
come with a header that is no number (`Waited`): `int()` raises, nothing in the
client catches it, and the call is `fatal`.

`FollowCall` is what the queue needs of this: at most one answer per call, and
`ok` only for an account that is followed.

### 2.4 SchedulerLock and Lease

State: the clock, the `settings` row and, per scheduler, its program counter,
the reading of the clock it acquires with, its token (the end of its lease) and
the ticks left. The clock is read before the lock is asked for
(`control_plane.py:44`): `Start` takes the reading, `TakeExpired`, `TakeOrFail`
and `Insert` use it up to `MaxLag` seconds later. Under PostgreSQL the `UPDATE`
and the `INSERT` are two steps. Nothing renews the lease while `RunTick` and
`Wake` go on, up to `MaxHold` seconds. `Release` clears the row only if it
still holds the scheduler's own token.

`Lease` is the abstract lock: a lease is granted only while no other is live, it
ends by itself or is dropped, and whoever works on after that has no promise
left.

### 2.5 LegacyMigration

State: the engine, the contents of the files (nobody writes them any more),
where each file is (`files`: present, absent, archived), the committed
`followers` rows and the setting (`done`), and for each process that executes
`run` its place in the import and its open transaction (`rows`, `flag`, and
`moved`, the files it renamed since the transaction began). `cutoff` is a history
variable: files renamed by a process that never committed.

| actions | code |
|---|---|
| `Start` | `begin_run`; the setting is read |
| `Look`, `Read`, `Upsert`, `Archive` | the loop of `migrate_legacy_files` (`frs:139-186`): `path.exists()`, `read_text()`, `upsert_follower_seen` for each name, `path.rename()` if the files are to be cleaned up |
| `SetDone`, `Commit` | the setting, the security event and the one commit |
| `Work` | the rest of the run, which writes `followers` rows too and may keep its transaction open |
| `GiveUp`, `Crash` | a lock timeout or deadlock; a process that dies, a file system that raises |

An exception of the import is caught by nobody. The rows are rolled back, the
renames are not, and the next run does not find the files. Two runs may also
race for a file: under SQLite the first name written locks other imports out,
but an empty file writes nothing, so it may be renamed under a run that has just
looked at it, which then fails with what it has renamed itself.

### 2.6 QueueAdapters and Delivery

State: the queue (a sequence), the dead-letter queue, what SQS hides from other
consumers (`inflight`), the clients and what they hold. `Receive` has the three
meanings of `consume_once`: RabbitMQ acknowledges on delivery, a Redis group
never delivers an entry twice, SQS hides it until a deletion or a timeout. The
pending list of the Redis group grows with every delivery, but nothing reads
it, so it is not state. `SmokePublish`, `SmokeConsume`, `SmokeRetry`,
`SmokeReconsume` are the four calls of the smoke test, each of which other
clients may come between.

`Delivery` is what the three have in common: a job that is published has one
copy until it is completed or dead-lettered (`Publish`, `Settle`); a visibility
timeout that is overrun may make another (`Overrun`), and only after an overrun
may copies go without an end (`Withdraw`); a job is lost only by an accident, a
client that dies or a smoke test on the queue in use, and an accident costs at
most one job (`Accident`, `Lose`).

### 2.7 ForkDiscovery

State: the call in progress (page, entry, the chain of sources being resolved,
counters, `seen_follow_users`), catalog rows written and committed, and the
forks on GitHub. GitHub's repositories are constants (`Listing`; `Forked`, the
`fork` flag; `Up`, the source or parent that `get_repository` names; `Told`, those
whose entry in the listing names it as well; `Owner`; `Account` for the spellings
of a login; `Ancestry` is a repository with all the sources it comes from).
`_resolve_repository_root` starts at the entry of the listing and does not load
it again (`fork_discovery_service.py:46`), so `Source` of the entry is only known
if it is in `Told`. The flag and the source are independent in the code: what
becomes of a flagged entry without a source is `fd_v_root` of section 5. `Service` is the method, `Command` the
handler of the command. Two things about commits: the SQLite storage migrates
its schema and commits within `upsert_repository_catalog_entry`
(`bot:881-898`), so there every entry is committed by itself and an old
database is only migrated when a catalog entry is written; PostgreSQL commits
at the end of a page. Leaving on the budget returns before that commit; the
dispatcher would commit (`command_dispatcher.py:159-160`) if the call got there.

## 3 The runs

All bounds are CONSTANTS in the cfg files. A run with a bound on faults
(`MaxFaults`, `MaxCrashes`, `MaxLate`) lets them happen at any step.

| run | instance | properties | what it shows |
|---|---|---|---|
| `fq_sqlite` | 2 processes, 2 accounts, 1 run, 1 page, 2 attempts, expand mode, 1 fault; SQLite | `TypeOK`, `RecordedFollowsAreReal`, `LedgerBacksState`, `FailedIsRetryable`, `FinishedRunIsFinal`, `CallsKeepPromise` | No crash, exception or lock timeout makes the tables or, without dry runs, the history claim a follow that is none, separates a follow from its ledger row, leaves a job `failed` with no attempt left, or changes the status of a run that ended or was aborted when its process was gone; and the queue uses the client only as `FollowCall` allows |
| `fq_postgres` | 2 processes, 2 accounts, 2 pages, 1 attempt; PostgreSQL | `AttemptsBounded`, `ChargesAreKept`, `DoneIsFinal`, `InvocationEnds` | What two workers that fetched the same job can do to it: charge it once too often, but not reopen it when done. A job that failed and is discovered again keeps its charges. Every deadlock is resolved |
| `fq_settle` | 1 process invoked again and again, dry or not, 3 accounts of which one is denied, budget 1, 1 fault | `FaultCostsOneRequest`, `BudgetRespected`, `JobsSettle` | A fault costs an account one request beyond its budget; a budget that is looked at between batches holds; a job that keeps failing at the head of the queue does not starve the others |
| `sl_lease` | 2 schedulers, leases of 2 or 3 s, up to 3 s of lag and 5 s of work, 6 s of time; PostgreSQL | `TypeOK`, `LeaseIsKept`, `ImplementsLease`, `LockComesFree` | Whatever the lag, and although leases are overrun, no live lease is taken, overwritten or released by another |
| `xd_repeated` | repeated runs, 3 seeds of which 2 are listed at first, 1 change of the list, 2 seeds per run, breaker at 2 of 3, 3 faults, any old cursor | `TypeOK`, `BreakerCutsOff`, `FallbackHappens`, `EveryPageExplored` | The breaker and its fallback work together, and the cursor comes round to every page of every seed that is listed in the end, although the list changes under the saved index |
| `xd_budgets` | repeated starts with all three budgets set (4 seeds, 2 or 12 calls, 3 candidates), 3 seeds, 1 fault | `WithinBudgets`, `NoCallIsWasted`, `DiscoveryEnds` | Three budgets that are looked at in different places hold together |
| `gh_follow` | one call of any kind: 5 attempts per request, 2 probes, verification, GitHub App tokens and every failure of their issuance, a GitHub that may lie | `TypeOK`, `OkIsReal`, `UnauthorizedIsFinal`, `SendsBounded`, `ImplementsFollowCall` | The nesting of retries, renewals, probes and lookups keeps the promise of `FollowCall` within a bounded number of requests |
| `lm_import` | 2 processes, 3 files (full, empty or absent), 2 accounts, renaming or not, 1 crash; both engines | `NothingForgotten`, `RaceLosesNothing`, `ImportHappens` | The setting is never committed over a file whose accounts are not in the table, unless the process that renamed it failed; under SQLite that takes a crash, for files that are not empty; and the import finishes although imports make each other fail |
| `qa_delivery` | 2 clients, 2 jobs, 2 attempts, 2 crashes, a late worker, a smoke test; all three backends | `DeadLetterAfterAllTries`, `JobsSettle`, `ImplementsDelivery` | The backends, with what each of them can lose or double, keep the one promise of `Delivery`; no copy is dead-lettered before its job was tried often enough (where a retry of the smoke test on the queue in use counts as a try) |
| `fd_calls` | 9 repositories, 5 of them on 2 pages, chains of up to 3, listed forks with and without a source, every combination of options, budget 2, a fault; both engines | `WithinForkBudget`, `TallyAddsUp`, `OwnersAskedOnce`, `CatalogIsReal`, `LineageIsAsked` | Budget, counters, catalog and owners stay in step through every exit of the loop, and no owner between an entry and what was forked for it is left out |
| `sl_v_overrun` | 2 schedulers, lease 2 s, work 3 s; SQLite | `OneRunAtATime` (violated) | see section 5 |
| `xd_v_429` | 3 seeds, breaker at 2 of 3, 3 faults | `Repeated429Opens` (violated) | see section 5 |

Two further configurations of `MCFollowQueue`, not among the runs of
`PROJECT.json`, check `InvocationEnds` on SQLite, where a write fails with
"database is locked" behind another's transaction: `fq_locked` (2 processes of 1
run, 1 account, 2 attempts, expand mode, 1 fault), where an invocation keeps
fetching the job that failed, and `fq_two_runs` (2 processes of 2 runs, 1
account, expand mode), where processes of different runs wait for each other.
Both pass. The types of
`QueueAdapters`, `LegacyMigration` and `ForkDiscovery` are invariants too, which
their cfg files leave out; they are proved.

Why the bounds are enough. Two processes are the least that interleave, and a
job, row or lock is contended by two at a time; two accounts give a batch with
an order and a deadlock with a cycle; two attempts tell the first charge from
the last; one fault is a fault at every place, and what a fault leaves is all in
the tables, which the next process reads. The three accounts and the budget of
one of `fq_settle` put a failing job ahead of others. Three seeds have more,
fewer and no pages in one phase than in the other, and with a limit of two per
run the cursor wraps; three faults trip a breaker whose threshold is two and
leave one for another place; one change of the list of seeds moves the saved
index up or down by one. Three files are one before and one after the file two
imports race for. `MaxRetries` is 5 in the code (`bot`, constant).
The lease runs let a stale reading, an expiry and an overrun happen within one
behaviour. For the theorems of section 4 the bounds do not matter.

`CHECK_DEADLOCK FALSE` stands only where the system really may stop: when time
is up in `SchedulerLock`, and when all jobs are done in `QueueAdapters`.

### Fairness

- `FollowQueue`, `Progress`: a process that was started is scheduled (weak
  fairness of "go on or give up"); a SQLite writer gets the lock or times out.
  Under PostgreSQL, strong fairness of going on: the waiters of a row are
  queued, so a wait that ends again and again is granted. Faults, aborts and the
  start of processes are not fair. `WorkerReinvoked` (only in `fq_settle`): the
  operator or cron keeps starting the worker. The number of faults is finite in
  a behaviour; without that no job need ever be settled.
- `ExpandDiscovery`: a run that was started goes on; for `EveryPageExplored`
  runs are also started again and again.
  The list of seeds changes finitely often: one that changes before every run could
  keep the index from some seed for ever, so nothing is claimed of that.
- `LegacyMigration`: a process that was started goes on or gives up; under
  PostgreSQL a wait that ends again and again is granted; runs are started again
  and again (`cron` or the scheduler). Crashes are finite.
- `SchedulerLock`: time goes on and a living process is scheduled. A crashed
  one need never start again, which is why the lock coming free is not its work.
- `QueueAdapters`: clients go on and poll; a visibility timeout comes.

## 4 The proofs

TLAPS checks the theorems below for every value of the constants that satisfies
the named ASSUMEs of the modules. Those assumptions are what `BotConfig`
enforces (`MaxAttempts`, `Window`, `Threshold` and the like at least 1, a mode
that is one of two), that ids are distinct from the "none" values, and that the
sets of processes, accounts and seeds are finite.

| theorem | says |
|---|---|
| `FollowQueueProofs!TypeSafety` | `Spec => []TypeOK` |
| `FollowQueueProofs!RecordedFollows`, `Ledger`, `RetryableFailures`, `Budget` | `RecordedFollowsAreReal`, `LedgerBacksState`, `FailedIsRetryable`, `BudgetRespected` are invariants, for any number of processes, accounts and runs, on both engines |
| `FollowQueueConcurrency!Attempts`, `ChargesKept`, `FinishedRuns`, `DoneJobs` | `AttemptsBounded`: one charge beyond the budget for every further process; `ChargesAreKept`, `FinishedRunIsFinal`, `DoneIsFinal` |
| `FollowQueueConcurrency!CallsPromised` | the composition: the queue is a client of `FollowCall`, for every process and account |
| `FollowQueueConcurrency!FaultsAreCheap` | `FaultCostsOneRequest`, *if* there is one process and one run, which is what the property is about: `MaxAttempts` requests for an account, and one more for every fault |
| `SchedulerLockProofs!LockTypes`, `LeaseKept`, `LockImplementsLease`, `OneRun` | types; a live lease is never lost; the refinement of `Lease`; one run at a time *if* lag and work together take less than every time to live |
| `ExpandDiscoveryProofs!DiscoveryTypes`, `DiscoveryWithinBudgets` | types, whatever the cursor held; the budgets |
| `ExpandDiscoveryProofs!BreakerHolds`, `FallbackFollows`, `CallsWellSpent` | `BreakerCutsOff`; `FallbackHappens` *if* one error is not enough to open the breaker (section 5 has the other case); `NoCallIsWasted` |
| `GitHubClientProofs!ClientTypes`, `FollowIsReal`, `SendsLimited`, `UnauthorizedAfterRenewal`, `ClientImplementsFollowCall` | all safety properties that `gh_follow` checks, and the refinement, the latter if the client verifies or a 204 can be believed |
| `LegacyMigrationProofs!ImportTypes`, `ImportForgetsNothing`, `RaceIsSafe` | types; `NothingForgotten` and `RaceLosesNothing`, for any number of processes and files |
| `QueueAdaptersProofs!AdapterTypes`, `DeadLettersEarned` | types; `DeadLetterAfterAllTries`, for any number of clients, jobs, crashes, overruns and smoke tests, with each broker |
| `QueueAdaptersProofs!AdaptersImplementDelivery` | the refinement of `Delivery` |
| `QueueAdaptersProofs!DeliveryKept`, `AdaptersDeliver` | what `Delivery` means, of itself and of the adapters: no job vanishes, without an overrun a job is in one place and ends once, an accident costs one job at most |
| `ForkDiscoveryProofs!ForkTypes`, `ForkBudget`, `ForkTally`, `OwnersOnce`, `CatalogTells`, `LineageAsked` | all safety properties that `fd_calls` checks, for any repositories, chains and options |

The arguments.

*Follow queue.* The properties speak of committed tables, but a commit
publishes whatever a process has written before, so none of them is inductive.
`Truthful` strengthens them: besides the types and what the properties say of
the tables (`TablesOK`), it says of every process (`ProcOK`) that its open
transaction satisfies what the tables must (an account marked followed is
followed on GitHub, and its ledger row is committed or in the same transaction;
the same of a job written `done`; a job written `failed` has attempts to spare),
and that the program counter and the answer in hand warrant the next write (at
`mark` the answer was `ok` and its ledger row is written, at `done` there is a
ledger row). Accounts followed and ledger rows only grow, so all of this is
stable under the steps of other processes (`ProcOKMonotone`). `BudgetOK` adds to
the count the jobs of the batch still to come and the one in hand: that sum,
and not the count, is what the fetch of a batch bounds.

*Processes of the queue.* `Orderly` adds to `Truthful` what one process may rely
on of the others. `Owned`: a run belongs to one process, which began it, until
that process finishes it. `Diligent`: a process handles a job once in a
transaction, and sends a request only for a job that had attempts to spare when
it was fetched. `RowOK`: the charges of a row, written or committed, and the
processes still *armed* to charge it (those that fetched it with attempts to
spare and have not handled it) together stay within `MaxAttempts` plus the
number of the other processes. Fetching arms a process only while the row has
attempts to spare, and charging disarms it, so the sum is inductive while the
count of charges is not. `RowOK` also says that what an open transaction holds of
a row is what was committed, or one charge more, because the row stays locked
until its end: that is `ChargesKept`, since only a commit changes the tables
(`CommitOrNot`). `CallsPromised` needs nothing of the others: it follows
from `Truthful` step by step.

*What a fault costs.* The number of requests is bounded neither by the attempts
committed nor by those written, since one has been sent and not yet charged, or
charged and then rolled back. `Frugal` keeps the books of an account: `Sent` is
what the process sees of it (attempts, one more if it is followed, one more while
an answer is in hand), `Kept` what a rollback would leave. Requests exceed `Sent`
by no more than the faults; both are within `MaxAttempts`; and `Sent` is at most
one above `Kept`, because a batch handles an account once. A commit makes `Kept`
equal to `Sent`, a crash the other way round, at the price of one fault. `Careful`
is what makes the books balance: the attempts a batch was fetched with are still
those of the tables when the request is sent, the account is not followed by
then, what is marked followed has its job written before it is committed, and
who leaves without a commit has nothing open. The lock
timeouts and deadlocks that would roll back at no price need a second process
(`NeverBlocked`); that is why the property is about one.

*Scheduler.* `Inv` says that a live lease is the one in the row and that clock
readings lie in the past: a reading is never ahead of the clock, hence what
looks expired with a stale reading is expired. It follows that no two leases are
live, which is what the guard of `Lease!Grant` asks for. `OneRun` adds `Timing`:
how much of its lease a scheduler may have used up.

*Discovery.* `Sound` adds to the types that the loop over the seeds is entered
only when there are seeds (`Listed`: otherwise the remainder the index is
computed with is undefined), and the budgets of calls and candidates, which are
inductive with it: each is looked at before it is charged. `Guarded` says that
the window holds fewer errors of a kind than the threshold unless the breaker is
open, that the list of seeds alone cannot open it unless one error is enough, and
that the fallback has read its page when it is left. `Frugal` is behind
`NoCallIsWasted`: calls are charged one for one with pages asked for; the seeds
still to come (`Unasked`) have not been asked for anything, because the indices
`start + offset` of a run are different modulo the number of seeds and no
account is listed twice; and of the seed at hand only what comes before the page
at hand has been asked for (`InSeed`).

*Client.* `Inv` describes a call by phase (`Sound`): in progress (`Busy`: no
result yet, a renewal noted for the request at hand), or over (`Ended`: what the
properties say of results). `Spent` counts the requests: those of the stages
before the one at hand, each at its worst, and its own attempts. Between a
reply and the decision what to do next a call satisfies `Decide`, which is what
each branch of `Send` starts from.

*Import.* `ProcOK` says of a process that every file before the one at hand is
gone from its place or written, and of the file at hand every name before the
next. `ArchivedOK`: a renamed file is committed, or written in the open
transaction of the process that renamed it, or was cut off. `DoneOK`: after the
commit, a file that is still in its place has been written. A rename by one
process only removes obligations of the others, which is why they may share the
files. For `RaceIsSafe`, `Locked` adds what the one writer of SQLite gives while
nothing fails and no file is empty: a process that has renamed a file holds the
lock, hence it is not the one that waits and gives up, and the next file it has
seen stays in its place; so no rename is ever cut off.

*Queue adapters.* `Inv` adds to the types where a message may be. `StoreOK`: in
one place of the broker, once, and with tries to spare (`Sound`: fewer attempts
than `MaxAttempts`, and no more than `retry` was called for the job, which is
what makes dead-lettering earned however the copies multiplied). `ClientOK`: what
a client holds is as sound, and until a timeout is overrun SQS hides it for the
client. `LossOK`: a smoke test in progress is an accident that has not cost its
job yet, so that losses never outnumber accidents. `Anchored`: under SQS a job
without an end has a copy other than those that workers hold without a lease,
which is why the death of such a worker drops a copy that was one too many.
`DeadLettersEarned` reads off `Inv`.

For the refinement, each step of the adapters is mapped to the step of `Delivery`
it is, or to a stutter: `Publish` to `Publish`; taking a message, sending it
again and a timeout after a crash move a copy and change no count; `Ack` and a
dead-lettering retry settle; a timeout that is overrun makes a copy; the receipt
of one consumer that deletes the message of another withdraws one; a crash and
the second `consume_once` of the smoke test lose or withdraw one. The counts are
of messages, not of positions (`Counts`: no message is queued twice), and split
as `Waiting`, `Taken` and `Hidden`. `DeliveryKept` is then proved of `Delivery`
alone: `Promise` adds to the three facts that a job not yet published has neither
copy nor end. `AdaptersDeliver` carries it back.

*Forks.* `Inv` places the call in the pages (`Located`), and says that the target
of an entry is the entry or one of its sources (`Lineal`), that the rows not yet
committed are as true as the catalog (`RowsReal`), that the entry in hand is
scanned and not yet counted (`Counted`), that the budget leaves room for its
request (`Affordable`), that `seen_follow_users` holds those who were asked
(`Remembered`), and that the chain holds all that lies between the entry and the
cursor (`Climbed`), so that the owners of all of it come to be looked at, and those
no longer to do have been asked. The sources of a repository are the least set
that contains it and is closed under `Up`, a form that needs no induction over
chains; that this is a partial order (`AncestryTransitive`,
`AncestryAntisymmetric`) follows from its being least and from chains having an
end.

Model-checked only: the liveness properties (`InvocationEnds`, `JobsSettle` of
both modules, `LockComesFree`, `EveryPageExplored`, `DiscoveryEnds`,
`ImportHappens`), since TLAPS does not reason about fairness and ENABLED. Every
invariant, action property and refinement that a passing run checks is stated by
a theorem above, some under the hypotheses given there.

## 5 Where code and documents disagree

Two disagreements are runs of the project:

- **`sl_v_overrun`.** `docs/reference/cli.md:211` promises a lock "para evitar
  corridas concurrentes". The lease is taken once and never renewed
  (`control_plane.py:77`): ticks that outlast it let a second scheduler in.
  `OneRun` states what is true: enough time to live means one run at a time.
- **`xd_v_429`.** `docs/user-guide/troubleshooting.en.md:62`: repeated 429 opens
  the breaker. `_request` waits a 429 out, and when its retries are spent it
  raises an exception that names no status (`bot:2169`), which the breaker does
  not count (`frs:405`). `BreakerCutsOff` is about the errors that it does count.

Five more weigh as much. Each has a configuration whose property TLC violates
(the module in parentheses), but none is listed in `PROJECT.json`:

- **`fd_v_root`** (`MCForkDiscovery`), `RootIsForked`. The help of
  `--fork-source` (`bot:2489`): "When repo is a fork, fork the source root
  repository". The root is looked for from the entry of the listing, and if that
  names no source the fork itself is taken for its root
  (`fork_discovery_service.py:52-56`) and forked, without any fault. GitHub
  names `source` and `parent` in `GET /repos/{owner}/{repo}`, not in the listing
  of `GET /users/{username}/repos`, so this is the usual case and not a rare
  one: chains are only climbed from entries that do name their source, which
  `fd_calls` has beside one that does not. The service's tests pass
  `fork_sources_for_forks=False`.
- **`fd_v_command`** (`MCForkDiscovery`), `CommandWorks`. `fork-repos` with any
  filter ends in a `TypeError`: the handler passes `trace_id` to a method that
  takes none. Its test uses a stub that takes any keyword.
- **`fq_v_abort`** (`MCFollowQueue`), `AbortIsFinal`.
  `docs/reference/cli.md:65`: `abort` marks a running run as `aborted`. The run
  is not told, and its `finish_run` overwrites the status, whatever it has
  become (`bot:906`). `FinishedRunIsFinal` is what holds: an abort lasts if the
  process that began the run is gone.
- **`xd_v_api`** (`MCExpandDiscovery`), `EveryPageExplored`.
  `docs/getting-started/quickstart.md:40`: expand mode resumes "donde quedó". A
  spent call budget is answered with an empty page (`frs:430`), which looks like
  the end of a phase (`frs:655`): the cursor goes on behind pages that were
  never asked for, and runs repeated with the same budget never get to some of
  them. Without the budget (`xd_repeated`) they do.
- **`gh_v_abuse`** (`GitHubClient`), `AbuseIsReported`.
  `pytests/test_bot.py:691-694` wants a 422 for abuse reported as throttled.
  `_request` waits it out before `follow_user` sees it, so that the branch at
  `bot:2320` is dead code; the test replaces `_request`.

More configurations reproduce disagreements of less weight; TLC violates the
property of each.

| cfg (module) | property | the document | the code |
|---|---|---|---|
| `fq_v_retry` (`MCFollowQueue`) | `RequestsWithinRetryBudget` | `docs/reference/env-vars.en.md:34`: "max retry attempts before `dead_letter`" | a batch that is rolled back forgets its charges: the account is asked again. `FaultCostsOneRequest` is the bound that holds |
| `fq_v_durable` (`MCFollowQueue`) | `AcknowledgedFollowIsKept` | `README.md:24`: durable execution | one commit per batch (`frs:360`): a crash loses the record of follows GitHub has made |
| `fq_v_history` (`MCFollowQueue`) | `HistoryIsTrue` | `env-vars.en.md:9`: a dry run does no real follow actions | a dry run writes successful ledger rows (`frs:284`), which expand mode takes for follows |
| `xd_v_skip` (`MCExpandDiscovery`) | `NoPageSkipped` | `docs/getting-started/quickstart.en.md:42`: resumes by the cursor | phase and page are applied to whatever seed the index has moved on to (`frs:617`) |
| `xd_v_fallback` (`MCExpandDiscovery`) | `FallbackHappens` | `env-vars.en.md:33`: "fallback to `followers` if breaker opens" | a breaker opened by the list of seeds, at threshold 1, returns before the fallback (`frs:732`) |
| `lm_v_archived` (`MCLegacyMigration`) | `ArchivedIsMigrated` | `docs/reference/env-vars.md:33`: "Archiva archivos TXT migrados a `*.migrated`" | files are renamed before the commit (`frs:168`): a crash leaves a renamed file that was not migrated, and so, without any crash, does another run that renames an empty file first |
| `gh_v_401` (`GitHubClient`) | `RenewedTokenIsTried` | `pytests/test_bot.py:334-335`: the new token is used after a 401 | not if the 401 came in the last attempt (`bot:2155`) |

## 6 What is not modelled

- Configuration: `BotConfig.from_env` parses the environment once, at start, and
  changes nothing later. What it enforces are the assumptions on the constants.
- The control plane: the adapter calls the handlers of `run`, `resume` and
  `abort`, with a storage opened for the call, and the HTTP server starts the
  command as a process and waits for it; neither keeps state of its own. Each
  such call is one more process of `FollowQueue` or `SchedulerLock`, whatever
  thread or process it is executed in. `export_audit` would fail: it calls
  `storage.export_audit_payload()`, which no storage defines.
- The GUI calls the adapter, one action at a time for each open page.
- Reports, manifests and exports, telemetry and logging: files and text computed
  from tables they only read. Scripts and deployment files are not part of the
  running bot.
- Text, log records, audit fields, timestamps other than the scheduler's, HTTP
  headers (but for the two that are parsed as numbers), and how long a rate limit is
  waited for.
- The content of keys and tokens (whether they can be had is modelled).
- Changes of GitHub from outside while the bot runs, but for the list of seeds
  between runs: accounts are not unfollowed by the owner, and the repositories
  stay the same. The first would make "followed" a statement about the past.

Abstractions a reader should know of: entries of a page come in any order; the
first page of discovery and the entries in it are any set; the answer of GitHub
is any that the code tells apart; a `settings` value is a number, a phase or
unusable.

## 7 Plan

Done, in this order: `FollowQueue` with its proofs; `SchedulerLock` with
`Lease`; `ExpandDiscovery`; `GitHubClient` with `FollowCall`; `QueueAdapters`;
`ForkDiscovery`; `LegacyMigration`; `Delivery` as the abstract queue; the
composition of queue and client through `FollowCall`; proofs of what the
processes of the queue may do to each other, of breaker, fallback and calls of
`ExpandDiscovery`, of all safety properties of `ForkDiscovery`, of
`QueueAdapters` with its refinement of `Delivery`, and of what a fault costs.

To come:

1. A composition of `LegacyMigration` with `FollowQueue`, so that the rows of the
   import and those of the run that follows share one model of the database.
2. Of the follow queue, the cost of faults for several processes: a bound on
   the requests for an account in terms of faults, processes and lock failures
   together, checked by TLC before it is proved.
