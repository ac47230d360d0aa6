----------------------------- MODULE ForkDiscovery -----------------------------
(***************************************************************************)
(* `fork-repos`: the repositories of a user, page by page; those that pass *)
(* the filters are forked, or the root of their chain of sources is; each  *)
(* gets a row in repository_catalog; and the owners along the chain may be *)
(* followed.                                                               *)
(*                                                                         *)
(* The service can be called with any filters.  The handler of the command *)
(* passes it one keyword more than FollowBackService takes.                *)
(***************************************************************************)
EXTENDS Integers, Sequences, FiniteSets

CONSTANTS
    Repos,
    Listing,       \* GitHub: the pages of the user's repositories
    Forked,        \* GitHub: those whose `fork` flag is set
    Up,            \* GitHub: repository -> the source or parent GET /repos names, or NoRepo
    Told,          \* GitHub: those whose entry in a listing names it, too
    Owner,         \* GitHub: repository -> its owner, as it spells the login
    Account,       \* spelled login -> account (GitHub ignores case)
    Readme,        \* the profile repositories of the user
    User, Me,      \* the account asked about, and the bot's own
    NoRepo,
    NoLimit,
    MaxForks,      \* BOT_MAX_FORKS_PER_RUN
    Requests,      \* options the calls are made with
    Engines,       \* storage engines in question
    MaxFaults      \* bound: failing requests and writes, crashes

\* --owned, --forked, --profile-readme, --fork-source and --follow-fork-owners.
Options == [owned : BOOLEAN, forked : BOOLEAN, readme : BOOLEAN,
            sources : BOOLEAN, owners : BOOLEAN]

Names == DOMAIN Account
Accounts == {Account[n] : n \in Names}

ASSUME RepoAssumption == /\ NoRepo \notin Repos
                         /\ Listing \in Seq(Seq(Repos))
                         /\ {Forked, Told} \subseteq SUBSET Repos
                         /\ Up \in [Repos -> Repos \cup {NoRepo}]
                         /\ Owner \in [Repos -> Names]
                         /\ Readme \subseteq Repos
                         /\ {User, Me} \subseteq Accounts
ASSUME ForkLimitAssumption == /\ NoLimit \notin Nat
                              /\ MaxForks \in (Nat \ {0}) \cup {NoLimit}
                              /\ MaxFaults \in Nat
ASSUME RequestAssumption == Requests \subseteq Options
ASSUME ForkEngineAssumption == Engines \subseteq {"sqlite", "postgres"}

\* Nothing in S comes from outside of it.
Closed(S) == \A r \in S : Up[r] # NoRepo => Up[r] \in S

\* A repository and the sources it comes from.
Ancestry == [r \in Repos |-> {s \in Repos : \A S \in SUBSET Repos : r \in S /\ Closed(S) => s \in S}]

\* Chains of sources have an end.
ASSUME RootAssumption == \A r \in Repos : \E s \in Ancestry[r] : Up[s] = NoRepo

VARIABLES
    engine,
    call,          \* the call in progress, or the last one
    rows,          \* catalog rows written and not committed
    catalog,       \* committed: repository -> last_fork_status
    forks,         \* GitHub: repositories the bot has a fork of
    asked,         \* history: owners this call asked to follow, with repetitions
    requested,     \* history: forks this call asked for
    faults

vars == <<engine, call, rows, catalog, forks, asked, requested, faults>>

Status == {"none", "success", "http", "exception"}

Call == [pc : {"idle", "fetch", "entry", "resolve", "fork", "record", "owners"},
         options : Options,
         page : Nat,
         index : Nat,                   \* entry of the page
         cursor : Repos \cup {NoRepo},  \* _resolve_repository_root
         chain : SUBSET Repos,
         target : Repos \cup {NoRepo},  \* target_full_name
         outcome : Status,
         todo : SUBSET Names,           \* owners still to look at
         scanned : Nat, queued : Nat, forked : Nat, failed : Nat, skipped : Nat,
         followed : Nat,                \* followed_owners
         seen : SUBSET Accounts,        \* seen_follow_users
         result : {"none", "returned", "raised", "TypeError"}]

TypeOK == /\ engine \in Engines
          /\ call \in Call
          /\ {rows, catalog} \subseteq [Repos -> Status]
          /\ forks \subseteq Repos
          /\ asked \in [Accounts -> Nat]
          /\ requested \in Nat
          /\ faults \in Nat

NoRows == [r \in Repos |-> "none"]

NoCall == [pc |-> "idle", options |-> [owned |-> FALSE, forked |-> FALSE, readme |-> FALSE,
                                       sources |-> FALSE, owners |-> FALSE],
           page |-> 0, index |-> 0, cursor |-> NoRepo, chain |-> {}, target |-> NoRepo,
           outcome |-> "none", todo |-> {}, scanned |-> 0, queued |-> 0, forked |-> 0,
           failed |-> 0, skipped |-> 0, followed |-> 0, seen |-> {}, result |-> "none"]

Init == /\ engine \in Engines
        /\ call = NoCall
        /\ rows = NoRows
        /\ catalog = NoRows
        /\ forks = {}
        /\ asked = [a \in Accounts |-> 0]
        /\ requested = 0
        /\ faults = 0

github == <<forks, asked, requested>>

Fault == faults < MaxFaults /\ faults' = faults + 1

-----------------------------------------------------------------------------
(* Storage.                                                                *)

\* The catalog after a commit.
Committed(written) == [r \in Repos |-> IF written[r] = "none" THEN catalog[r] ELSE written[r]]

\* The statement of upsert_repository_catalog_entry, which is all that the
\* PostgreSQL adapter does.
Written(r, status) == [rows EXCEPT ![r] = status]

\* The SQLite adapter goes on to migrate other tables, and commits.
Upsert(r, status) ==
    IF engine = "sqlite"
    THEN catalog' = Committed(Written(r, status)) /\ rows' = NoRows
    ELSE rows' = Written(r, status) /\ UNCHANGED catalog

-----------------------------------------------------------------------------
(* The call.                                                               *)

Selective(options) == options.owned \/ options.forked \/ options.readme

Begun(options) == [NoCall EXCEPT !.pc = "fetch", !.options = options, !.page = 1]

\* The keywords handle_fork_repos_command passes, and those that
\* FollowBackService.fork_repositories_for_user takes.
Taken == {"target_username", "include_owned", "include_forked", "include_profile_readme",
          "fork_sources_for_forks", "follow_fork_owners"}
Passed == Taken \cup {"trace_id"}

NewCall(begun) ==
    /\ call' = begun
    /\ asked' = [a \in Accounts |-> 0]
    /\ requested' = 0
    /\ UNCHANGED <<engine, rows, catalog, forks, faults>>

\* `fork-repos` with at least one filter.
Command(options) ==
    /\ call.pc = "idle"
    /\ Selective(options)
    /\ NewCall(IF Passed \subseteq Taken THEN Begun(options)
               ELSE [NoCall EXCEPT !.options = options, !.result = "TypeError"])

\* The service is called without the handler.
Service(options) ==
    /\ call.pc = "idle"
    /\ NewCall(Begun(options))

Return(result) == call' = [call EXCEPT !.pc = "idle", !.result = result]

\* fetch_user_repositories: past the last page the list is empty.
Fetch ==
    /\ call.pc = "fetch"
    /\ IF call.page > Len(Listing)
       THEN Return("returned")
       ELSE call' = [call EXCEPT !.pc = "entry", !.index = 1]
    /\ UNCHANGED <<engine, rows, catalog, github, faults>>

FetchRaises ==
    /\ call.pc = "fetch"
    /\ Return("raised")
    /\ Fault
    /\ UNCHANGED <<engine, rows, catalog, github>>

Entries == Listing[call.page]
Repo == Entries[call.index]

\* After the last entry: the commit of the page.
EndPage ==
    /\ call.pc = "entry"
    /\ call.index > Len(Entries)
    /\ catalog' = Committed(rows)
    /\ rows' = NoRows
    /\ call' = [call EXCEPT !.pc = "fetch", !.page = @ + 1]
    /\ UNCHANGED <<engine, github, faults>>

\* Mutant of BudgetSpent: only the forks that succeeded count.
BudgetSpentBySuccess == MaxForks # NoLimit /\ call.forked >= MaxForks

BudgetSpent == MaxForks # NoLimit /\ call.queued >= MaxForks

\* The call returns from inside the page, before its commit.
LeaveOnBudget ==
    /\ call.pc = "entry"
    /\ call.index <= Len(Entries)
    /\ BudgetSpent
    /\ Return("returned")
    /\ UNCHANGED <<engine, rows, catalog, github, faults>>

\* The flag of the entry, whatever it says of a source.
IsFork(r) == r \in Forked

Included(r) ==
    /\ r \in Readme => call.options.readme
    /\ \/ call.options.owned /\ Account[Owner[r]] = User /\ ~IsFork(r)
       \/ call.options.forked /\ IsFork(r)

NextEntry(c) == [c EXCEPT !.pc = "entry", !.index = @ + 1]

\* Mutant of Skipped: the entry is passed over uncounted.
SkippedUncounted(c) == NextEntry(c)

Skipped(c) == NextEntry([c EXCEPT !.skipped = @ + 1])

TakeEntry ==
    /\ call.pc = "entry"
    /\ call.index <= Len(Entries)
    /\ ~BudgetSpent
    /\ LET c == [call EXCEPT !.scanned = @ + 1]
       IN  call' = IF Included(Repo)
                   THEN [c EXCEPT !.pc = IF IsFork(Repo) /\ c.options.sources THEN "resolve"
                                                                              ELSE "fork",
                                  !.cursor = Repo, !.chain = {Repo}, !.target = Repo,
                                  !.outcome = "none"]
                   ELSE Skipped(c)
    /\ UNCHANGED <<engine, rows, catalog, github, faults>>

\* The source or parent the cursor names.  The first cursor is the entry of the
\* listing, which is not loaded again; the others come from get_repository.
Source(r) == IF r = Repo /\ r \notin Told THEN NoRepo ELSE Up[r]

\* Mutant of Resolve: only the two ends of the chain are kept.
ResolveEnds ==
    /\ call.pc = "resolve"
    /\ LET source == Source(call.cursor)
       IN  call' = IF source = NoRepo
                   THEN [call EXCEPT !.pc = "fork", !.target = call.cursor]
                   ELSE [call EXCEPT !.cursor = source]
    /\ UNCHANGED <<engine, rows, catalog, github, faults>>

\* _resolve_repository_root, one lookup: up the chain, until no source is named.
Resolve ==
    /\ call.pc = "resolve"
    /\ LET source == Source(call.cursor)
       IN  call' = IF source = NoRepo
                   THEN [call EXCEPT !.pc = "fork", !.target = call.cursor]
                   ELSE [call EXCEPT !.cursor = source, !.chain = @ \cup {source}]
    /\ UNCHANGED <<engine, rows, catalog, github, faults>>

\* The source has gone (404).
ResolveLost ==
    /\ call.pc = "resolve"
    /\ Source(call.cursor) # NoRepo
    /\ call' = [call EXCEPT !.pc = "fork", !.target = call.cursor]
    /\ Fault
    /\ UNCHANGED <<engine, rows, catalog, github>>

\* The lookup raises: chain and target are still those of the entry, and nothing
\* was queued.
ResolveRaises ==
    /\ call.pc = "resolve"
    /\ Source(call.cursor) # NoRepo
    /\ call' = [call EXCEPT !.pc = "record", !.failed = @ + 1, !.outcome = "exception",
                            !.chain = {Repo}]
    /\ Fault
    /\ UNCHANGED <<engine, rows, catalog, github>>

\* Mutant of Queued: an exception takes the charge back.
QueuedUnlessRaised(c, outcome) == IF outcome = "exception" THEN c ELSE [c EXCEPT !.queued = @ + 1]

\* The budget is charged before the request.
Queued(c, outcome) == [c EXCEPT !.queued = @ + 1]

\* Mutant of Outcome: a reply that is no success is not looked at.
OutcomeHopeful(outcome) == "success"

\* What is recorded of the answer.
Outcome(outcome) == outcome

\* fork_repository.  An exception may come after GitHub has forked.
Fork ==
    /\ call.pc = "fork"
    /\ requested' = requested + 1
    /\ \E outcome \in {"success", "http", "exception"} :
         /\ IF outcome = "success" THEN UNCHANGED faults ELSE Fault
         /\ \/ outcome # "http" /\ forks' = forks \cup {call.target}
            \/ outcome # "success" /\ UNCHANGED forks
         /\ LET c == [call EXCEPT !.pc = "record", !.outcome = Outcome(outcome)]
            IN  call' = Queued(IF outcome = "success" THEN [c EXCEPT !.forked = @ + 1]
                                                      ELSE [c EXCEPT !.failed = @ + 1],
                               outcome)
    /\ UNCHANGED <<engine, rows, catalog, asked>>

\* The owners of the target and of the chain, whatever became of the fork.
Record ==
    /\ call.pc = "record"
    /\ Upsert(Repo, call.outcome)
    /\ call' = [call EXCEPT !.pc = "owners",
                            !.todo = IF call.options.owners
                                     THEN {Owner[r] : r \in call.chain \cup {call.target}} ELSE {}]
    /\ UNCHANGED <<engine, github, faults>>

\* "database is locked", or a connection that is gone.
RecordRaises ==
    /\ call.pc = "record"
    /\ Return("raised")
    /\ Fault
    /\ rows' \in {rows, NoRows}
    /\ UNCHANGED <<engine, catalog, github>>

\* Mutant of Known: the owners asked before are not remembered.
KnownSelf(name) == Account[name] = Me

Known(name) == Account[name] = Me \/ Account[name] \in call.seen

\* follow_user, at most once an account, whatever it answers or raises.
FollowOwner(name) ==
    /\ call.pc = "owners"
    /\ name \in call.todo
    /\ IF Known(name)
       THEN call' = [call EXCEPT !.todo = @ \ {name}] /\ UNCHANGED asked
       ELSE /\ \E ok \in {0, 1} :
                 call' = [call EXCEPT !.todo = @ \ {name}, !.followed = @ + ok,
                                      !.seen = @ \cup {Account[name]}]
            /\ asked' = [asked EXCEPT ![Account[name]] = @ + 1]
    /\ UNCHANGED <<engine, rows, catalog, forks, requested, faults>>

EndEntry ==
    /\ call.pc = "owners"
    /\ call.todo = {}
    /\ call' = NextEntry(call)
    /\ UNCHANGED <<engine, rows, catalog, github, faults>>

\* The process dies, or ends after a call: what is not committed is gone.
Exit ==
    /\ \/ call.pc # "idle" /\ Fault
       \/ call.pc = "idle" /\ call.result # "none" /\ UNCHANGED faults
    /\ call' = NoCall
    /\ rows' = NoRows
    /\ asked' = [a \in Accounts |-> 0]
    /\ requested' = 0
    /\ UNCHANGED <<engine, catalog, forks>>

Step == \/ Fetch \/ FetchRaises \/ EndPage \/ LeaveOnBudget \/ TakeEntry
        \/ Resolve \/ ResolveLost \/ ResolveRaises \/ Fork \/ Record \/ RecordRaises
        \/ (\E name \in Names : FollowOwner(name)) \/ EndEntry

Next == \/ \E options \in Requests : Command(options) \/ Service(options)
        \/ Step
        \/ Exit

Spec == Init /\ [][Next]_vars

-----------------------------------------------------------------------------
(* Properties.                                                             *)

\* A call asks for no more forks than BOT_MAX_FORKS_PER_RUN, failed ones and
\* those that ended in an exception included.
WithinForkBudget == MaxForks # NoLimit => requested <= MaxForks

\* The counters a call reports account for every repository it scanned and every
\* fork it asked for, whichever of the three exits of the loop each one took; a
\* lookup that raised is a failure that was never queued.
TallyAddsUp ==
    call.pc \notin {"resolve", "fork"} =>
        /\ call.scanned = call.skipped + call.forked + call.failed
        /\ call.queued = requested
        /\ call.followed <= Cardinality(call.seen)

\* No account is asked to be followed twice in a call, however its login is
\* spelled and in however many chains it occurs; nor is the bot's own.
OwnersAskedOnce == asked[Me] = 0 /\ \A a \in Accounts : asked[a] <= 1

\* A row that says `success` is backed by a fork of the repository or of one of
\* its sources, through crashes, exceptions and rollbacks.
CatalogIsReal ==
    \A r \in Repos : catalog[r] = "success" => Ancestry[r] \cap forks # {}

\* The repositories from the entry up to what was forked for it.
Lineage == {r \in Ancestry[Repo] : call.target \in Ancestry[r]}

\* With --follow-fork-owners an entry is left only when the owner of every
\* repository from the entry up to what was forked was asked: the ends and all
\* in between, also if the climb was cut short, the fork failed, or the owner
\* came up in another chain.
LineageIsAsked ==
    (call.pc = "owners" /\ call.todo = {} /\ call.options.owners) =>
        \A r \in Lineage : Account[Owner[r]] = Me \/ asked[Account[Owner[r]]] = 1

\* With --fork-source, and when nothing fails, it is the root of the chain of a
\* fork that is forked (the help of the option).
RootIsForked ==
    (faults = 0 /\ call.pc \in {"record", "owners"} /\ call.options.sources /\ IsFork(Repo)) =>
        Up[call.target] = NoRepo

\* `fork-repos` with a filter gets to work.
CommandWorks == call.result # "TypeError"

=============================================================================
