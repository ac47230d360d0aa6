--------------------------- MODULE ExpandDiscovery ---------------------------
(***************************************************************************)
(* Discovery of a `run` in expand mode: the accounts one follows are the   *)
(* seeds, each is read page by page, its followers and then the accounts   *)
(* it follows, under three budgets and a circuit breaker.  A cursor in the *)
(* settings table says where to go on; it is committed after each seed and *)
(* at the end of the run, so a crash goes back to the last commit.  The    *)
(* list of seeds is fetched anew by every run and may have changed.        *)
(*                                                                         *)
(* What becomes of the entry of a page (FollowQueue models that) is left   *)
(* open: any number of the entries of a page may be new candidates.        *)
(***************************************************************************)
EXTENDS Integers, Sequences, FiniteSets

CONSTANTS
    Pages,          \* account -> phase -> pages that hold entries
    Following,      \* the accounts one follows before the first run, as GitHub lists them
    OwnPages,       \* pages of one's own followers, read on fallback
    PerPage,        \* BOT_PER_PAGE: entries of a full page
    NoLimit,        \* a budget left unset
    MaxCandidates,  \* BOT_MAX_CANDIDATES_PER_RUN
    CallLimits,     \* values of BOT_MAX_API_CALLS_PER_RUN in question
    MaxSeeds,       \* BOT_MAX_EXPAND_SEEDS_PER_RUN
    Window,         \* BOT_EXPAND_HTTP_ERROR_WINDOW
    Threshold,      \* BOT_EXPAND_HTTP_ERROR_THRESHOLD
    Fallback,       \* BOT_EXPAND_FALLBACK_TO_FOLLOWERS
    NoValue,        \* a setting that is absent, or that cannot be used
    OldIndices,     \* expand_seed_index before the first run
    OldPages,       \* expand_seed_page before the first run
    MaxChanges,     \* bound: changes of that list in a behaviour
    MaxFaults       \* bound: failed requests and crashes in a behaviour

Phases == {"followers", "following"}

Limits == (Nat \ {0}) \cup {NoLimit}

ASSUME SeedsAssumption == /\ DOMAIN Pages = 1..Cardinality(DOMAIN Pages)
                          /\ IsFiniteSet(DOMAIN Pages)
                          /\ \A s \in DOMAIN Pages : Pages[s] \in [Phases -> Nat]
                          /\ OwnPages \in Nat
                          /\ Following \in Seq(DOMAIN Pages)
                          /\ \A i, j \in DOMAIN Following : Following[i] = Following[j] => i = j
ASSUME BudgetAssumption == /\ PerPage \in Nat \ {0}
                           /\ NoLimit \notin Int
                           /\ {MaxCandidates, MaxSeeds} \cup CallLimits \subseteq Limits
ASSUME BreakerAssumption == /\ {Window, Threshold} \subseteq Nat \ {0}
                            /\ Fallback \in BOOLEAN
ASSUME CursorAssumption == /\ NoValue \notin Int \cup Phases
                           /\ OldIndices \cup OldPages \subseteq Int \cup {NoValue}
                           /\ {MaxChanges, MaxFaults} \subseteq Nat

VARIABLES
    following,  \* GitHub: the accounts one follows, in the order of the list
    maxCalls,   \* BOT_MAX_API_CALLS_PER_RUN
    saved,      \* the cursor as committed
    cursor,     \* the cursor as the run's connection sees it
    d,          \* the discovery in progress
    asked,      \* history: pages this run has asked GitHub for
    explored,   \* history: pages of the seeds read by all the runs
    changes,    \* of the list so far
    faults

vars == <<following, maxCalls, saved, cursor, d, asked, explored, changes, faults>>

NSeeds == Len(following)

PC == {"idle", "list", "begin", "seed", "page", "endseed", "fallback", "finish"}

\* How a request of the client ends when it does not yield a page.  GitHub's
\* 403 and 429 are slept on and retried; the exception raised when the retries
\* are used up names no status, so the service is told "none".
Answers == {"429", "5xx", "4xx", "broken"}

Status(answer) == IF answer \in {"429", "broken"} THEN "none" ELSE answer

Cursor == [index : Int \cup {NoValue},
           phase : Phases \cup {NoValue},
           page : Int \cup {NoValue}]

\* A page of a seed, of the list of seeds (seed 0), or of one's own followers.
Page == Nat \X (Phases \cup {"seeds", "own"}) \X Int

Discovery == [pc : PC,
              seeds : Nat,         \* how many seeds were listed
              start : Nat,         \* start_index
              offset : Nat,        \* seeds dealt with in this run
              phase : Phases,
              page : Nat \ {0},
              found : Nat,         \* candidates of the seed at hand
              total : Nat,         \* candidates of the seeds before it
              calls : Nat,         \* _expand_api_calls
              window : Seq({"429", "5xx", "4xx"}),   \* _expand_error_status_window
              open : BOOLEAN,      \* _expand_breaker_open
              limited : Nat]       \* history: requests that GitHub refused with 429

Fresh == [pc |-> "idle", seeds |-> 0, start |-> 0, offset |-> 0, phase |-> "followers",
          page |-> 1, found |-> 0, total |-> 0, calls |-> 0, window |-> <<>>,
          open |-> FALSE, limited |-> 0]

TypeOK == /\ following \in Seq(DOMAIN Pages)
          /\ maxCalls \in CallLimits
          /\ {saved, cursor} \subseteq Cursor
          /\ d \in Discovery
          /\ asked \subseteq Page
          /\ explored \subseteq Page
          /\ {changes, faults} \subseteq Nat

Init == /\ following = Following
        /\ maxCalls \in CallLimits
        /\ saved \in [index : OldIndices, phase : {NoValue}, page : OldPages]
        /\ cursor = saved
        /\ d = Fresh
        /\ asked = {}
        /\ explored = {}
        /\ changes = 0
        /\ faults = 0

-----------------------------------------------------------------------------
(* Budgets, the breaker, the cursor.                                       *)

Reached(n, limit) == limit # NoLimit /\ n >= limit

\* Mutant of Room: every seed has the whole budget.
WholeRoom == MaxCandidates

\* max_candidates_remaining, for the seed at hand
Room == IF MaxCandidates = NoLimit THEN NoLimit ELSE MaxCandidates - d.total

NoMoreCalls == Reached(d.calls, maxCalls)

\* Mutant of Iterations: the seeds are gone round as often as it takes.
RoundAndRound == IF MaxSeeds = NoLimit THEN d.seeds ELSE MaxSeeds

Iterations == IF Reached(d.seeds, MaxSeeds) THEN MaxSeeds ELSE d.seeds

Index == (d.start + d.offset) % d.seeds
Seed == following[Index + 1]

Times(kind, window) == Cardinality({i \in DOMAIN window : window[i] = kind})

\* Mutant of Trips: one error more is let through.
TripsLate(window) == \E kind \in {"429", "5xx"} : Times(kind, window) > Threshold

Trips(window) == \E kind \in {"429", "5xx"} : Times(kind, window) >= Threshold

\* A deque of bounded length drops its oldest element.
Slide(window, status) ==
    IF Len(window) < Window THEN Append(window, status)
                            ELSE Append(Tail(window), status)

\* _record_expand_error: an error of unknown status is not recorded.
WithError(disc, answer) ==
    LET status == Status(answer)
        window == IF status = "none" THEN disc.window ELSE Slide(disc.window, status)
    IN [disc EXCEPT !.window = window,
                    !.open = @ \/ (status # "none" /\ Trips(window)),
                    !.limited = @ + (IF answer = "429" THEN 1 ELSE 0)]

Fault == faults < MaxFaults /\ faults' = faults + 1

\* The run asks for a page, and is charged for it.
Ask(page) == asked' = asked \cup {page}
Charged(disc) == [disc EXCEPT !.calls = @ + 1]

-----------------------------------------------------------------------------
(* GitHub.                                                                 *)

\* Between two runs the list changes: an account one has come to follow, like
\* those that the bot follows itself, heads it, or one is gone from it.
Refollow ==
    /\ d.pc = "idle"
    /\ changes < MaxChanges
    /\ \/ \E s \in DOMAIN Pages \ {following[i] : i \in DOMAIN following} :
            following' = <<s>> \o following
       \/ \E i \in DOMAIN following :
            following' = SubSeq(following, 1, i - 1) \o SubSeq(following, i + 1, Len(following))
    /\ changes' = changes + 1
    /\ UNCHANGED <<maxCalls, saved, cursor, d, asked, explored, faults>>

-----------------------------------------------------------------------------
(* One run.                                                                *)

\* _discover_candidates resets the budget and the breaker.
Start ==
    /\ d.pc = "idle"
    /\ d' = [Fresh EXCEPT !.pc = "list"]
    /\ asked' = {}
    /\ UNCHANGED <<following, changes, maxCalls, saved, cursor, explored, faults>>

(* _fetch_all_following_seeds.                                             *)

ListPage == <<0, "seeds", d.seeds + 1>>

\* A page of seeds, or the empty page that ends the list.
ListSeeds ==
    /\ d.pc = "list"
    /\ ~NoMoreCalls
    /\ Ask(ListPage)
    /\ d' = IF d.seeds < NSeeds
            THEN [Charged(d) EXCEPT !.seeds = IF d.seeds + PerPage < NSeeds
                                              THEN d.seeds + PerPage ELSE NSeeds]
            ELSE [Charged(d) EXCEPT !.pc = "begin"]
    /\ UNCHANGED <<following, changes, maxCalls, saved, cursor, explored, faults>>

\* The budget is used up: the seeds listed so far will do.
ListCut ==
    /\ d.pc = "list"
    /\ NoMoreCalls
    /\ d' = [d EXCEPT !.pc = "begin"]
    /\ UNCHANGED <<following, changes, maxCalls, saved, cursor, asked, explored, faults>>

\* So they do when a page of the list fails.
ListFails ==
    /\ d.pc = "list"
    /\ ~NoMoreCalls
    /\ Ask(ListPage)
    /\ \E answer \in Answers : d' = [WithError(Charged(d), answer) EXCEPT !.pc = "begin"]
    /\ Fault
    /\ UNCHANGED <<following, changes, maxCalls, saved, cursor, explored>>

\* The index is checked against the seeds listed; the seed's login, which the
\* cursor also records, is not looked at.
Begin ==
    /\ d.pc = "begin"
    /\ d' = IF d.seeds = 0
            THEN [d EXCEPT !.pc = "finish"]
            ELSE [d EXCEPT !.pc = "seed",
                           !.start = IF cursor.index \in 0..(d.seeds - 1) THEN cursor.index ELSE 0]
    /\ UNCHANGED <<following, changes, maxCalls, saved, cursor, asked, explored, faults>>

\* The conditions under which the loop over the seeds is left.
SeedsDone == \/ d.offset = Iterations
             \/ d.open
             \/ Reached(d.total, MaxCandidates)

\* Mutant of FallbackDue: only when the seeds yielded nothing.
FallbackIfNothing == d.open /\ Fallback /\ d.total = 0

FallbackDue == d.open /\ Fallback

LeaveSeeds ==
    /\ d.pc = "seed"
    /\ SeedsDone
    /\ d' = IF FallbackDue
            THEN [d EXCEPT !.pc = "fallback", !.page = 1]
            ELSE [d EXCEPT !.pc = "finish"]
    /\ UNCHANGED <<following, changes, maxCalls, saved, cursor, asked, explored, faults>>

(* _discover_candidates_from_expand_seed.                                  *)

\* Mutant of FirstPage: the setting is used as it is.
PageAsStored == IF cursor.page = NoValue THEN 1 ELSE cursor.page

FirstPage == IF cursor.page \in Nat \ {0} THEN cursor.page ELSE 1

\* Phase and page are those of the cursor, whichever seed they were saved for.
OpenSeed ==
    /\ d.pc = "seed"
    /\ ~SeedsDone
    /\ d' = [d EXCEPT !.pc = "page", !.found = 0,
                      !.phase = IF cursor.phase \in Phases THEN cursor.phase ELSE "followers",
                      !.page = FirstPage]
    /\ UNCHANGED <<following, changes, maxCalls, saved, cursor, asked, explored, faults>>

\* The checks at the head of the loop over the pages.
LeavePage ==
    /\ d.pc = "page"
    /\ d.open \/ Reached(d.found, Room)
    /\ d' = [d EXCEPT !.pc = "endseed"]
    /\ UNCHANGED <<following, changes, maxCalls, saved, cursor, asked, explored, faults>>

ReadsPage == d.pc = "page" /\ ~d.open /\ ~Reached(d.found, Room)

Here == [index |-> Index, phase |-> d.phase, page |-> d.page]
ThisPage == <<Seed, d.phase, d.page>>

\* Mutant of EmptyPage: the second phase is entered over and over.
EmptyPageAgain(disc) ==
    /\ cursor' = Here
    /\ d' = [disc EXCEPT !.phase = "following", !.page = 1]

\* An empty page ends a phase; the cursor of a finished seed goes back.
EmptyPage(disc) ==
    IF d.phase = "followers"
    THEN /\ cursor' = Here
         /\ d' = [disc EXCEPT !.phase = "following", !.page = 1]
    ELSE /\ cursor' = [Here EXCEPT !.phase = "followers", !.page = 1]
         /\ d' = [disc EXCEPT !.pc = "endseed"]

\* A page of the seed: any number of its entries are new, and the loop over
\* them ends where the budget does; then there is nothing left to do but leave.
ReadPage ==
    /\ ReadsPage
    /\ ~NoMoreCalls
    /\ Ask(ThisPage)
    /\ explored' = explored \cup {ThisPage}
    /\ IF d.page > Pages[Seed][d.phase]
       THEN EmptyPage(Charged(d))
       ELSE /\ cursor' = Here
            /\ \E new \in 0..PerPage :
                 d' = [Charged(d) EXCEPT !.page = @ + 1,
                         !.found = IF Reached(@ + new, Room) THEN Room ELSE @ + new]
    /\ UNCHANGED <<following, changes, maxCalls, saved, faults>>

\* No calls are left: _fetch_expand_page returns an empty list.
NoCallLeft ==
    /\ ReadsPage
    /\ NoMoreCalls
    /\ EmptyPage(d)
    /\ UNCHANGED <<following, changes, maxCalls, saved, asked, explored, faults>>

PageFails ==
    /\ ReadsPage
    /\ ~NoMoreCalls
    /\ Ask(ThisPage)
    /\ \E answer \in Answers : d' = [WithError(Charged(d), answer) EXCEPT !.pc = "endseed"]
    /\ cursor' = Here
    /\ Fault
    /\ UNCHANGED <<following, changes, maxCalls, saved, explored>>

\* Mutant of NextIndex: the seeds taken in this run are not counted.
SameIndex == d.start

NextIndex == (Index + 1) % d.seeds

\* However the seed was left, the index goes on to the next one; phase and page
\* stay where they were.  Then the commit.
EndSeed ==
    /\ d.pc = "endseed"
    /\ cursor' = [cursor EXCEPT !.index = NextIndex]
    /\ saved' = cursor'
    /\ d' = [d EXCEPT !.pc = "seed", !.offset = @ + 1, !.total = @ + d.found, !.found = 0]
    /\ UNCHANGED <<following, changes, maxCalls, asked, explored, faults>>

(* _discover_candidates_followers: no budget, no breaker, a commit per page. *)

OwnPage == <<0, "own", d.page>>

ReadOwnPage ==
    /\ d.pc = "fallback"
    /\ Ask(OwnPage)
    /\ IF d.page <= OwnPages
       THEN saved' = cursor /\ d' = [d EXCEPT !.page = @ + 1]
       ELSE d' = [d EXCEPT !.pc = "finish"] /\ UNCHANGED saved
    /\ UNCHANGED <<following, changes, maxCalls, cursor, explored, faults>>

(* The end of the run.                                                     *)

Over(last) == cursor' = last /\ saved' = last /\ d' = Fresh

\* The queue is worked on, which commits.
Finish ==
    /\ d.pc = "finish"
    /\ Over(cursor)
    /\ UNCHANGED <<following, changes, maxCalls, asked, explored, faults>>

\* An error nothing in the discovery handles (the token cannot be refreshed, or
\* a page of one's own followers fails): the run fails, and commits.
Raise ==
    /\ \/ d.pc = "list" /\ ~NoMoreCalls /\ Over(cursor)
       \/ ReadsPage /\ ~NoMoreCalls /\ Over(Here)
       \/ d.pc = "fallback" /\ Over(cursor)
    /\ Fault
    /\ UNCHANGED <<following, changes, maxCalls, asked, explored>>

\* The process dies; what it did not commit is gone.
Crash ==
    /\ d.pc # "idle"
    /\ cursor' = saved
    /\ d' = Fresh
    /\ Fault
    /\ UNCHANGED <<following, changes, maxCalls, saved, asked, explored>>

List == ListSeeds \/ ListCut \/ ListFails
ReadSeed == LeavePage \/ ReadPage \/ NoCallLeft \/ PageFails
Seeds == Begin \/ LeaveSeeds \/ OpenSeed \/ ReadSeed \/ EndSeed
Step == List \/ Seeds \/ ReadOwnPage \/ Finish \/ Raise

Next == Start \/ Step \/ Crash \/ Refollow

Spec == Init /\ [][Next]_vars

\* A run that was started goes on until it ends or the process dies.
LiveSpec == Spec /\ WF_vars(Step)

\* And runs are started again and again (cron, or the scheduler).
RepeatedSpec == LiveSpec /\ WF_vars(Start)

-----------------------------------------------------------------------------
(* Properties.                                                             *)

\* What the seeds contribute to a run never exceeds the two budgets of
\* discovery, whatever pages the seeds have and however they fail: the room of
\* a seed is what the seeds before it left (_discover_candidates), and every
\* request is charged before it is made (_fetch_expand_page).
WithinBudgets ==
    /\ maxCalls # NoLimit => d.calls <= maxCalls
    /\ MaxCandidates # NoLimit => d.total + d.found <= MaxCandidates

\* No call of the budget is spent on a page the run has already asked for: the
\* pages asked for are as many as the calls charged.  A run takes each seed
\* once, wherever the cursor makes it start.
NoCallIsWasted ==
    d.pc \notin {"idle", "fallback", "finish"} => d.calls = Cardinality(asked)

\* The breaker cuts expand off: no kind of error that counts is ever seen more
\* than Threshold times in the window (_record_expand_error and the two places
\* that look at the breaker).
BreakerCutsOff == \A kind \in {"429", "5xx"} : Times(kind, d.window) <= Threshold

\* A run whose breaker opened goes on to one's own followers if it is so
\* configured (the end of _discover_candidates).  It does unless there was not
\* a single seed to begin with.
FallbackHappens ==
    d.pc = "finish" /\ d.open /\ Fallback => <<0, "own", 1>> \in asked

\* A page of a seed is asked for only after the one before it was read, by this
\* run or an earlier one: discovery goes on where it stopped.
NoPageSkipped ==
    \A s \in DOMAIN Pages : \A p \in asked : p[1] = s =>
        /\ p[3] > 1 => <<s, p[2], p[3] - 1>> \in explored
        /\ p[2] = "following" /\ p[3] = 1 =>
             <<s, "followers", Pages[s]["followers"] + 1>> \in explored

\* More requests of a run refused with 429 than the threshold says, and no more
\* than the window holds, open the breaker (the troubleshooting guide).
Repeated429Opens == d.limited \in Threshold + 1 .. Window => d.open

\* A discovery ends.
DiscoveryEnds == d.pc # "idle" ~> d.pc = "idle"

SeedPages(s) == UNION {{<<s, phase, page>> : page \in 1..Pages[s][phase]} : phase \in Phases}

\* Runs that are repeated come to have read every page of every account one
\* follows, once requests stop failing and the list stops changing: whatever seed,
\* phase and page the cursor of the old list points to in the new one, it visits
\* all seeds in turn, and a page that was skipped is read the next time round.
EveryPageExplored == <>[](\A i \in DOMAIN following : SeedPages(following[i]) \subseteq explored)

=============================================================================
