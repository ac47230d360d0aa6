-------------------------- MODULE ForkDiscoveryProofs --------------------------
(***************************************************************************)
(* The budget, the tally, the owners and the catalog of `fork-repos`, for  *)
(* any repositories, chains of sources, options and number of faults, on   *)
(* both engines.                                                           *)
(***************************************************************************)
EXTENDS ForkDiscovery, FiniteSetTheorems, TLAPS

\* Steps that have an entry of the page in hand, and those before its request.
Asking == {"resolve", "fork"}
InHand == Asking \cup {"record"}

\* Where the call is in the pages.
Located == /\ call.pc = "fetch" => call.page > 0
           /\ call.pc \in InHand \cup {"entry", "owners"} =>
                call.page \in 1..Len(Listing) /\ call.index > 0
           /\ call.pc \in InHand => call.index <= Len(Entries)

\* The target of an entry is the entry or one of its sources, and a fork that
\* succeeded is a fork of the target.
Lineal == /\ call.pc = "resolve" => call.cursor \in Ancestry[Repo]
          /\ call.pc \in InHand => call.target \in Ancestry[Repo]
          /\ call.pc = "record" /\ call.outcome = "success" => call.target \in forks

\* Rows that are not committed must be true as well: a commit publishes them.
RowsReal == \A r \in Repos : rows[r] = "success" => Ancestry[r] \cap forks # {}

\* The entry in hand is scanned and not yet counted.
Counted == /\ call.scanned = call.skipped + call.forked + call.failed
                             + (IF call.pc \in Asking THEN 1 ELSE 0)
           /\ call.queued = requested
           /\ IsFiniteSet(call.seen)
           /\ call.followed <= Cardinality(call.seen)

\* The budget leaves room for the request of the entry in hand.
Affordable == MaxForks # NoLimit => /\ requested <= MaxForks
                                    /\ call.pc \in Asking => requested < MaxForks

\* seen_follow_users holds those that were asked.
Remembered == /\ Me \notin call.seen
              /\ \A a \in Accounts : asked[a] = (IF a \in call.seen THEN 1 ELSE 0)

\* The chain holds what has been climbed; then it holds the lineage of the entry;
\* then whoever owns a part of that is still to be looked at, asked, or the bot.
Climbed == /\ call.pc = "resolve" =>
                /\ call.target = Repo
                /\ call.cursor \in call.chain
                /\ Ancestry[Repo] \subseteq call.chain \cup Ancestry[call.cursor]
           /\ call.pc \in {"fork", "record"} => Lineage \subseteq call.chain
           /\ call.pc = "owners" /\ call.options.owners =>
                \A r \in Lineage : \/ Owner[r] \in call.todo
                                   \/ Account[Owner[r]] \in call.seen \cup {Me}

Parts == Located /\ Lineal /\ RowsReal /\ CatalogIsReal /\ Counted /\ Affordable
         /\ Remembered /\ Climbed

Inv == TypeOK /\ Parts

LEMMA AncestryGrows ==
    ASSUME NEW r \in Repos
    PROVE  /\ Ancestry[r] \subseteq Repos /\ r \in Ancestry[r]
           /\ \A s \in Ancestry[r] : Up[s] # NoRepo => Up[s] \in Ancestry[r]
BY RepoAssumption DEF Ancestry, Closed

\* Ancestry is least: the sources of a repository are itself and those of the one
\* it was forked from, and it is no source of a source.
LEMMA AncestryLeast ==
    ASSUME NEW r \in Repos, NEW S \in SUBSET Repos, r \in S, Closed(S)
    PROVE  Ancestry[r] \subseteq S
BY DEF Ancestry

LEMMA AncestryUnfolds ==
    ASSUME NEW r \in Repos
    PROVE  /\ Up[r] = NoRepo => Ancestry[r] = {r}
           /\ Up[r] # NoRepo => Up[r] \in Repos /\ Ancestry[r] \subseteq {r} \cup Ancestry[Up[r]]
<1>1. CASE Up[r] = NoRepo
  <2>1. Closed({r})
    BY <1>1 DEF Closed
  <2> QED  BY <1>1, <2>1, AncestryLeast, AncestryGrows
<1>2. CASE Up[r] # NoRepo
  <2>1. Up[r] \in Repos
    BY <1>2, RepoAssumption
  <2>2. {r} \cup Ancestry[Up[r]] \subseteq Repos /\ Closed({r} \cup Ancestry[Up[r]])
    BY <2>1, AncestryGrows DEF Closed
  <2>3. Ancestry[r] \subseteq {r} \cup Ancestry[Up[r]]
    BY <2>2, AncestryLeast
  <2> QED  BY <1>2, <2>1, <2>3
<1> QED  BY <1>1, <1>2

LEMMA AncestryTransitive ==
    ASSUME NEW r \in Repos, NEW s \in Ancestry[r]
    PROVE  s \in Repos /\ Ancestry[s] \subseteq Ancestry[r]
<1>1. s \in Repos /\ Ancestry[r] \subseteq Repos /\ Closed(Ancestry[r])
  BY AncestryGrows DEF Closed
<1> QED  BY <1>1, AncestryLeast

LEMMA AncestryAntisymmetric ==
    ASSUME NEW r \in Repos, NEW s \in Ancestry[r], r \in Ancestry[s]
    PROVE  s = r
<1> SUFFICES ASSUME s # r PROVE FALSE
  OBVIOUS
<1> DEFINE C == {x \in Ancestry[r] : r \in Ancestry[x]}
<1>1. Up[r] # NoRepo /\ Up[r] \in Repos /\ s \in Ancestry[Up[r]]
  BY AncestryUnfolds
<1>2. r \in Ancestry[Up[r]]
  BY <1>1, AncestryTransitive
<1>3. C \subseteq Repos /\ r \in C
  BY AncestryGrows
<1>4. Closed(C)
  <2> SUFFICES ASSUME NEW x \in C, Up[x] # NoRepo PROVE Up[x] \in C
    BY DEF Closed
  <2>1. x \in Repos /\ Up[x] \in Ancestry[r]
    BY <1>3, AncestryGrows
  <2>2. r \in {x} \cup Ancestry[Up[x]]
    BY <2>1, AncestryUnfolds
  <2> QED  BY <1>2, <2>1, <2>2
<1>5. Ancestry[r] \subseteq C
  BY <1>3, <1>4, AncestryLeast
<1>6. PICK q \in Ancestry[r] : Up[q] = NoRepo
  BY RootAssumption
<1>7. q \in Repos /\ r \in Ancestry[q]
  BY <1>3, <1>5, <1>6
<1>8. q = r
  BY <1>6, <1>7, AncestryUnfolds
<1> QED  BY <1>1, <1>6, <1>8

LEMMA RepoInHand ==
    ASSUME TypeOK, Located, call.pc \in InHand \cup {"entry"}, call.index <= Len(Entries)
    PROVE  Entries \in Seq(Repos) /\ Repo \in Repos
<1>1. call.page \in 1..Len(Listing) /\ call.index \in Nat /\ call.index > 0
  BY DEF Located, TypeOK, Call
<1>2. Entries \in Seq(Repos)
  BY <1>1, RepoAssumption DEF Entries
<1>3. call.index \in 1..Len(Entries)
  BY <1>1, <1>2
<1> QED  BY <1>2, <1>3 DEF Repo

LEMMA CommittedReal ==
    ASSUME TypeOK, CatalogIsReal, forks \subseteq forks',
           NEW W \in [Repos -> Status],
           \A r \in Repos : W[r] = "success" => Ancestry[r] \cap forks # {}
    PROVE  /\ Committed(W) \in [Repos -> Status]
           /\ \A r \in Repos : Committed(W)[r] = "success" => Ancestry[r] \cap forks # {}
BY DEF Committed, TypeOK, CatalogIsReal

LEMMA NoCallTyped == NoCall \in Call /\ NoRows \in [Repos -> Status]
BY DEF NoCall, Call, Options, Status, NoRows

\* No call is in progress, or one that has not done anything.
Blank == /\ call.pc \in {"idle", "fetch"} /\ (call.pc = "fetch" => call.page > 0)
         /\ call.queued = 0 /\ call.scanned = 0 /\ call.skipped = 0 /\ call.forked = 0
         /\ call.failed = 0 /\ call.followed = 0 /\ call.seen = {}

LEMMA BlankOK ==
    ASSUME Blank', asked' = [a \in Accounts |-> 0], requested' = 0
    PROVE  /\ asked' \in [Accounts -> Nat] /\ requested' \in Nat
           /\ Located' /\ Lineal' /\ Counted' /\ Affordable' /\ Remembered' /\ Climbed'
<1>1. Counted'
  BY FS_EmptySet DEF Blank, Counted, Asking
<1>2. Affordable'
  BY ForkLimitAssumption DEF Blank, Affordable, Asking
<1>3. Located' /\ Lineal' /\ Remembered' /\ Climbed'
  BY DEF Blank, Located, Lineal, Remembered, Climbed, InHand, Asking
<1> QED  BY <1>1, <1>2, <1>3

LEMMA BlankKeeps ==
    ASSUME Inv, Blank', call' \in Call, asked' = [a \in Accounts |-> 0], requested' = 0,
           UNCHANGED <<engine, catalog, forks>>, rows' \in {rows, NoRows}, faults' \in Nat
    PROVE  Inv'
<1>1. /\ asked' \in [Accounts -> Nat] /\ requested' \in Nat
      /\ Located' /\ Lineal' /\ Counted' /\ Affordable' /\ Remembered' /\ Climbed'
  BY BlankOK
<1>2. TypeOK'
  BY <1>1, NoCallTyped DEF Inv, TypeOK
<1>3. RowsReal' /\ CatalogIsReal'
  BY DEF Inv, Parts, RowsReal, CatalogIsReal, NoRows
<1> QED  BY <1>1, <1>2, <1>3 DEF Inv, Parts

LEMMA InitInv == Init => Inv
<1> SUFFICES ASSUME Init PROVE Inv
  OBVIOUS
<1>1. TypeOK
  BY NoCallTyped DEF Init, TypeOK
<1>2. RowsReal /\ CatalogIsReal
  BY DEF Init, RowsReal, CatalogIsReal, NoRows
<1>3. Located /\ Lineal /\ Remembered /\ Climbed
  BY DEF Init, NoCall, Located, Lineal, Remembered, Climbed, InHand, Asking
<1>4. Counted /\ Affordable
  BY FS_EmptySet, ForkLimitAssumption DEF Init, NoCall, Counted, Affordable, Asking
<1> QED  BY <1>1, <1>2, <1>3, <1>4 DEF Inv, Parts

LEMMA NewCallKeeps ==
    ASSUME Inv, NEW options \in Requests, Command(options) \/ Service(options)
    PROVE  Inv'
<1>1. options \in Options
  BY RequestAssumption
<1>2. UNCHANGED <<engine, rows, catalog, forks, faults>>
      /\ asked' = [a \in Accounts |-> 0] /\ requested' = 0 /\ faults' \in Nat
  BY DEF Command, Service, NewCall, Inv, TypeOK
<1>3. \/ call' = [NoCall EXCEPT !.pc = "fetch", !.options = options, !.page = 1]
      \/ call' = [NoCall EXCEPT !.options = options, !.result = "TypeError"]
  BY DEF Command, Service, NewCall, Begun
<1>4. CASE call' = [NoCall EXCEPT !.pc = "fetch", !.options = options, !.page = 1]
  <2>1. Blank'
    BY <1>4 DEF NoCall, Blank
  <2>2. call' \in Call
    BY <1>1, <1>4, NoCallTyped DEF Call
  <2> QED  BY <1>2, <2>1, <2>2, BlankKeeps
<1>5. CASE call' = [NoCall EXCEPT !.options = options, !.result = "TypeError"]
  <2>1. Blank'
    BY <1>5 DEF NoCall, Blank
  <2>2. call' \in Call
    BY <1>1, <1>5, NoCallTyped DEF Call
  <2> QED  BY <1>2, <2>1, <2>2, BlankKeeps
<1> QED  BY <1>3, <1>4, <1>5

LEMMA ExitKeeps == ASSUME Inv, Exit PROVE Inv'
<1>1. /\ call' = NoCall
      /\ asked' = [a \in Accounts |-> 0] /\ requested' = 0 /\ rows' = NoRows
      /\ UNCHANGED <<engine, catalog, forks>> /\ faults' \in Nat
  BY DEF Exit, Fault, Inv, TypeOK
<1>2. Blank'
  BY <1>1 DEF NoCall, Blank
<1> QED  BY <1>1, <1>2, NoCallTyped, BlankKeeps

\* The call ends, returns to the next page, or begins with the entries of one:
\* whatever becomes of the rows, nothing is counted or asked.
SameTally ==
    /\ call'.queued = call.queued /\ call'.scanned = call.scanned
    /\ call'.skipped = call.skipped /\ call'.forked = call.forked
    /\ call'.failed = call.failed /\ call'.followed = call.followed
    /\ call'.seen = call.seen

LEMMA ControlKeeps ==
    ASSUME Inv, call' \in Call, SameTally, call.pc \notin Asking,
           call'.pc \in {"idle", "fetch", "entry"},
           call'.pc = "fetch" => call'.page > 0,
           call'.pc = "entry" => call'.page \in 1..Len(Listing) /\ call'.index > 0,
           {rows', catalog'} \subseteq [Repos -> Status], RowsReal', CatalogIsReal',
           faults' \in Nat, UNCHANGED <<engine, github>>
    PROVE  Inv'
<1>1. TypeOK'
  BY DEF Inv, TypeOK, github
<1>2. Counted'
  BY DEF Inv, Parts, Counted, SameTally, Asking, github
<1>3. Affordable' /\ Remembered'
  BY DEF Inv, Parts, Affordable, Remembered, SameTally, Asking, github
<1>4. Located' /\ Lineal' /\ Climbed'
  BY DEF Located, Lineal, Climbed, InHand, Asking
<1> QED  BY <1>1, <1>2, <1>3, <1>4 DEF Inv, Parts

LEMMA FetchKeeps == ASSUME Inv, Fetch \/ FetchRaises PROVE Inv'
<1>1. call.pc = "fetch" /\ call.page \in Nat /\ call.page > 0 /\ call.index \in Nat
  BY DEF Fetch, FetchRaises, Inv, Parts, Located, TypeOK, Call
<1>2. /\ {rows', catalog'} \subseteq [Repos -> Status] /\ RowsReal' /\ CatalogIsReal'
      /\ faults' \in Nat /\ UNCHANGED <<engine, github>>
  BY DEF Fetch, FetchRaises, Fault, Inv, Parts, TypeOK, RowsReal, CatalogIsReal, github
<1>3. Len(Listing) \in Nat
  BY RepoAssumption
<1>4. CASE Return("returned") \/ Return("raised")
  <2>1. call' \in Call /\ call'.pc = "idle" /\ SameTally
    BY <1>4 DEF Return, SameTally, Inv, TypeOK, Call
  <2> QED  BY <1>1, <1>2, <2>1, ControlKeeps DEF Asking
<1>5. CASE call' = [call EXCEPT !.pc = "entry", !.index = 1] /\ call.page <= Len(Listing)
  <2>1. /\ call' \in Call /\ call'.pc = "entry" /\ SameTally
        /\ call'.page = call.page /\ call'.index = 1
    BY <1>5 DEF SameTally, Inv, TypeOK, Call
  <2>2. call.page \in 1..Len(Listing)
    BY <1>1, <1>3, <1>5
  <2> QED  BY <1>1, <1>2, <2>1, <2>2, ControlKeeps DEF Asking
<1> QED  BY <1>1, <1>3, <1>4, <1>5 DEF Fetch, FetchRaises

LEMMA EndPageKeeps == ASSUME Inv, EndPage PROVE Inv'
<1>1. call.pc = "entry" /\ call.page \in Nat
  BY DEF EndPage, Inv, TypeOK, Call
<1>2. /\ call' \in Call /\ call'.pc = "fetch" /\ SameTally
      /\ call'.page > 0
  <2> DEFINE next == call.page + 1
  <2>1. call' = [call EXCEPT !.pc = "fetch", !.page = next]
    BY DEF EndPage
  <2>2. next \in Nat /\ next > 0
    BY <1>1
  <2> HIDE DEF next
  <2> QED  BY <2>1, <2>2 DEF SameTally, Inv, TypeOK, Call
<1>3. /\ rows' = NoRows /\ catalog' = Committed(rows) /\ UNCHANGED <<engine, github, faults>>
      /\ forks' = forks
  BY DEF EndPage, github
<1>4. {rows', catalog'} \subseteq [Repos -> Status] /\ RowsReal' /\ CatalogIsReal'
  <2>1. /\ Committed(rows) \in [Repos -> Status]
        /\ \A r \in Repos : Committed(rows)[r] = "success" => Ancestry[r] \cap forks # {}
    <3>1. rows \in [Repos -> Status] /\ TypeOK /\ CatalogIsReal
      BY DEF Inv, Parts, TypeOK
    <3>2. \A r \in Repos : rows[r] = "success" => Ancestry[r] \cap forks # {}
      BY DEF Inv, Parts, RowsReal
    <3> QED  BY <1>3, <3>1, <3>2, CommittedReal
  <2>2. RowsReal'
    BY <1>3 DEF RowsReal, NoRows
  <2> QED  BY <1>3, <2>1, <2>2, NoCallTyped DEF CatalogIsReal
<1> QED  BY <1>1, <1>2, <1>3, <1>4, ControlKeeps DEF Asking, Inv, TypeOK

LEMMA ReturnKeeps == ASSUME Inv, LeaveOnBudget \/ RecordRaises PROVE Inv'
<1>1. call.pc \in {"entry", "record"}
  BY DEF LeaveOnBudget, RecordRaises
<1>2. Return("returned") \/ Return("raised")
  BY DEF LeaveOnBudget, RecordRaises
<1>3. call' \in Call /\ call'.pc = "idle" /\ SameTally
  BY <1>2 DEF Return, SameTally, Inv, TypeOK, Call
<1>4. /\ rows' \in {rows, NoRows} /\ faults' \in Nat /\ UNCHANGED <<engine, catalog, github>>
  BY DEF LeaveOnBudget, RecordRaises, Fault, Inv, TypeOK
<1>5. {rows', catalog'} \subseteq [Repos -> Status] /\ RowsReal' /\ CatalogIsReal'
  BY <1>4, NoCallTyped DEF Inv, Parts, TypeOK, RowsReal, CatalogIsReal, NoRows, github
<1> QED  BY <1>1, <1>3, <1>4, <1>5, ControlKeeps DEF Asking

LEMMA EndEntryKeeps == ASSUME Inv, EndEntry PROVE Inv'
<1>1. call.pc = "owners" /\ call.page \in 1..Len(Listing) /\ call.index \in Nat
  BY DEF EndEntry, Inv, Parts, Located, TypeOK, Call
<1>2. /\ call' \in Call /\ call'.pc = "entry" /\ SameTally
      /\ call'.page = call.page /\ call'.index > 0
  <2> DEFINE next == call.index + 1
  <2>1. call' = [call EXCEPT !.pc = "entry", !.index = next]
    BY DEF EndEntry, NextEntry
  <2>2. next \in Nat /\ next > 0
    BY <1>1
  <2> HIDE DEF next
  <2> QED  BY <2>1, <2>2 DEF SameTally, Inv, TypeOK, Call
<1>3. UNCHANGED <<engine, rows, catalog, forks, github, faults>>
  BY DEF EndEntry, github
<1>4. {rows', catalog'} \subseteq [Repos -> Status] /\ RowsReal' /\ CatalogIsReal'
      /\ faults' \in Nat
  BY <1>3 DEF Inv, Parts, TypeOK, RowsReal, CatalogIsReal, github
<1> QED  BY <1>1, <1>2, <1>3, <1>4, ControlKeeps DEF Asking

\* What a step within a page shares: it stays on the page, the rows stay true.
LEMMA StaysOnPage ==
    ASSUME Inv, call' \in Call, call'.page = call.page, call'.index = call.index,
           call.pc \in Asking \cup {"entry"}, call.index <= Len(Entries),
           call'.pc \in InHand
    PROVE  Located' /\ Repo' = Repo /\ Entries' = Entries /\ Repo \in Repos
BY RepoInHand DEF Inv, Parts, Located, InHand, Asking, Repo, Entries

LEMMA SkipKeeps ==
    ASSUME Inv, TakeEntry, ~Included(Repo)
    PROVE  Inv'
<1> DEFINE scanned == call.scanned + 1
           skipped == call.skipped + 1
           next == call.index + 1
<1>1. call' = [call EXCEPT !.pc = "entry", !.index = next, !.scanned = scanned, !.skipped = skipped]
  BY DEF TakeEntry, Skipped, NextEntry, Inv, TypeOK, Call
<1>2. /\ call.pc = "entry" /\ call.page \in 1..Len(Listing)
      /\ call \in Call /\ next \in Nat /\ next > 0 /\ scanned \in Nat /\ skipped \in Nat
      /\ call.scanned = call.skipped + call.forked + call.failed
      /\ {call.scanned, call.skipped, call.forked, call.failed} \subseteq Nat
  BY DEF TakeEntry, Inv, Parts, Located, Counted, TypeOK, Call, Asking
<1>3. scanned = skipped + call.forked + call.failed
  BY <1>2
<1> HIDE DEF next, scanned, skipped
<1>4. /\ call' \in Call /\ call'.pc = "entry" /\ call'.index = next /\ call'.page = call.page
      /\ call'.scanned = scanned /\ call'.skipped = skipped /\ call'.forked = call.forked
      /\ call'.failed = call.failed /\ call'.queued = call.queued
      /\ call'.followed = call.followed /\ call'.seen = call.seen
  BY <1>1, <1>2 DEF Call
<1>5. UNCHANGED <<engine, rows, catalog, forks, asked, requested, faults>>
  BY DEF TakeEntry, github
<1>6. TypeOK' /\ RowsReal' /\ CatalogIsReal'
  BY <1>4, <1>5 DEF Inv, Parts, TypeOK, RowsReal, CatalogIsReal
<1>7. Counted'
  BY <1>3, <1>4, <1>5 DEF Inv, Parts, Counted, Asking
<1>8. Located' /\ Lineal' /\ Affordable' /\ Remembered' /\ Climbed'
  BY <1>2, <1>4, <1>5
     DEF Inv, Parts, Located, Lineal, Affordable, Remembered, Climbed, InHand, Asking
<1> QED  BY <1>6, <1>7, <1>8 DEF Inv, Parts

LEMMA TakeKeeps ==
    ASSUME Inv, TakeEntry, Included(Repo)
    PROVE  Inv'
<1> DEFINE scanned == call.scanned + 1
           pc == IF IsFork(Repo) /\ call.options.sources THEN "resolve" ELSE "fork"
<1>1. call' = [call EXCEPT !.scanned = scanned, !.pc = pc, !.cursor = Repo, !.chain = {Repo},
                           !.target = Repo, !.outcome = "none"]
  BY DEF TakeEntry, Inv, TypeOK, Call
<1>2. /\ call.pc = "entry" /\ call \in Call /\ scanned \in Nat /\ call.index <= Len(Entries)
      /\ call.scanned = call.skipped + call.forked + call.failed
      /\ {call.scanned, call.skipped, call.forked, call.failed, call.queued} \subseteq Nat
      /\ ~BudgetSpent
  BY DEF TakeEntry, Inv, Parts, Counted, TypeOK, Call, Asking
<1>3. scanned = call.skipped + call.forked + call.failed + 1
  BY <1>2
<1>4. Repo \in Repos
  BY <1>2, RepoInHand DEF Inv, Parts
<1>5. pc \in Asking
  BY DEF Asking
<1> HIDE DEF scanned, pc
<1>6. /\ call' \in Call /\ call'.pc = pc /\ call'.index = call.index /\ call'.page = call.page
      /\ call'.scanned = scanned /\ call'.skipped = call.skipped /\ call'.forked = call.forked
      /\ call'.failed = call.failed /\ call'.queued = call.queued
      /\ call'.followed = call.followed /\ call'.seen = call.seen
      /\ call'.cursor = Repo /\ call'.target = Repo /\ call'.chain = {Repo}
  BY <1>1, <1>2, <1>4, <1>5 DEF Call, Asking, Status
<1>7. UNCHANGED <<engine, rows, catalog, forks, asked, requested, faults>>
  BY DEF TakeEntry, github
<1>8. TypeOK' /\ RowsReal' /\ CatalogIsReal'
  BY <1>6, <1>7 DEF Inv, Parts, TypeOK, RowsReal, CatalogIsReal
<1>9. Counted'
  BY <1>3, <1>5, <1>6, <1>7 DEF Inv, Parts, Counted
<1>10. Affordable'
  BY <1>2, <1>6, <1>7, ForkLimitAssumption DEF Inv, Parts, Counted, Affordable, BudgetSpent
<1>11. Located' /\ Repo' = Repo
  BY <1>2, <1>5, <1>6, StaysOnPage DEF InHand
<1>12. Lineal'
  BY <1>4, <1>5, <1>6, <1>11, AncestryGrows DEF Lineal, Asking
<1>13. Remembered'
  BY <1>6, <1>7 DEF Inv, Parts, Remembered
<1>14. Climbed'
  <2>1. Lineage' \subseteq {Repo}
    BY <1>4, <1>6, <1>11, AncestryAntisymmetric DEF Lineage
  <2> QED  BY <1>5, <1>6, <1>11, <2>1 DEF Climbed, Asking
<1> QED  BY <1>8, <1>9, <1>10, <1>11, <1>12, <1>13, <1>14 DEF Inv, Parts

\* One lookup, whether it finds a source, the end or nothing.
LEMMA ResolveKeeps == ASSUME Inv, Resolve \/ ResolveLost PROVE Inv'
<1>1. /\ call.pc = "resolve" /\ call \in Call /\ call.cursor \in Ancestry[Repo]
      /\ call.index <= Len(Entries) /\ call.cursor \in call.chain /\ call.target = Repo
      /\ Ancestry[Repo] \subseteq call.chain \cup Ancestry[call.cursor]
  BY DEF Resolve, ResolveLost, Inv, Parts, TypeOK, Located, Lineal, Climbed, InHand, Asking
<1>2. /\ Repo \in Repos /\ call.cursor \in Repos
      /\ Up[call.cursor] \in Repos \cup {NoRepo}
      /\ Up[call.cursor] # NoRepo => Up[call.cursor] \in Ancestry[Repo]
  BY <1>1, RepoInHand, AncestryGrows, RepoAssumption DEF Inv, Parts, InHand, Asking
<1>3. \/ call' = [call EXCEPT !.pc = "fork", !.target = call.cursor]
      \/ call' = [call EXCEPT !.cursor = Up[call.cursor], !.chain = @ \cup {Up[call.cursor]}]
         /\ Up[call.cursor] # NoRepo
  BY DEF Resolve, ResolveLost, Source
<1>4. /\ call' \in Call /\ call'.pc \in Asking /\ call'.index = call.index
      /\ call'.page = call.page
      /\ call'.scanned = call.scanned /\ call'.skipped = call.skipped
      /\ call'.forked = call.forked /\ call'.failed = call.failed /\ call'.queued = call.queued
      /\ call'.followed = call.followed /\ call'.seen = call.seen
      /\ call'.pc = "fork" => call'.target = call.cursor /\ call'.chain = call.chain
      /\ call'.pc = "resolve" => /\ call'.target = call.target
                                 /\ call'.cursor = Up[call.cursor] /\ Up[call.cursor] # NoRepo
                                 /\ call'.chain = call.chain \cup {Up[call.cursor]}
  <2>1. CASE call' = [call EXCEPT !.pc = "fork", !.target = call.cursor]
    BY <1>1, <1>2, <2>1 DEF Call, Asking
  <2>2. CASE /\ call' = [call EXCEPT !.cursor = Up[call.cursor], !.chain = @ \cup {Up[call.cursor]}]
             /\ Up[call.cursor] # NoRepo
    BY <1>1, <1>2, <2>2 DEF Call, Asking
  <2> QED  BY <1>3, <2>1, <2>2
<1>5. UNCHANGED <<engine, rows, catalog, forks, asked, requested>> /\ faults' \in Nat
  BY DEF Resolve, ResolveLost, Fault, github, Inv, TypeOK
<1>6. TypeOK' /\ RowsReal' /\ CatalogIsReal'
  BY <1>4, <1>5 DEF Inv, Parts, TypeOK, RowsReal, CatalogIsReal
<1>7. Counted' /\ Affordable' /\ Remembered'
  BY <1>1, <1>4, <1>5 DEF Inv, Parts, Counted, Affordable, Remembered, Asking
<1>8. Located' /\ Repo' = Repo
  BY <1>1, <1>4, StaysOnPage DEF InHand, Asking
<1>9. Lineal'
  BY <1>1, <1>2, <1>4, <1>8 DEF Inv, Parts, Lineal, InHand, Asking
<1>10. Climbed'
  <2>1. CASE call'.pc = "resolve"
    <3>1. Ancestry[call.cursor] \subseteq {call.cursor} \cup Ancestry[Up[call.cursor]]
      BY <1>2, <1>4, <2>1, AncestryUnfolds
    <3> QED  BY <1>1, <1>4, <1>8, <2>1, <3>1 DEF Climbed
  <2>2. CASE call'.pc = "fork"
    <3>1. Lineage' = {r \in Ancestry[Repo] : call.cursor \in Ancestry[r]}
      BY <1>4, <1>8, <2>2 DEF Lineage
    <3>2. ASSUME NEW r \in Ancestry[call.cursor], call.cursor \in Ancestry[r] PROVE r \in call.chain
      BY <1>1, <1>2, <3>2, AncestryAntisymmetric
    <3>3. Lineage' \subseteq call.chain
      BY <1>1, <3>1, <3>2
    <3> QED  BY <1>4, <2>2, <3>3 DEF Climbed
  <2> QED  BY <1>4, <2>1, <2>2 DEF Asking
<1> QED  BY <1>6, <1>7, <1>8, <1>9, <1>10 DEF Inv, Parts

LEMMA ResolveRaisesKeeps == ASSUME Inv, ResolveRaises PROVE Inv'
<1> DEFINE failed == call.failed + 1
<1>1. call' = [call EXCEPT !.pc = "record", !.failed = failed, !.outcome = "exception", !.chain = {Repo}]
  BY DEF ResolveRaises, Inv, TypeOK, Call
<1>2. /\ call.pc = "resolve" /\ call \in Call /\ call.index <= Len(Entries)
      /\ call.scanned = call.skipped + call.forked + call.failed + 1
      /\ {call.scanned, call.skipped, call.forked, call.failed} \subseteq Nat
      /\ call.target = Repo
  BY DEF ResolveRaises, Inv, Parts, TypeOK, Call, Located, Counted, Climbed, InHand, Asking
<1>3. failed \in Nat /\ call.scanned = call.skipped + call.forked + failed
  BY <1>2
<1> HIDE DEF failed
<1>4. Repo \in Repos
  BY <1>2, RepoInHand DEF Inv, Parts, InHand, Asking
<1>5. /\ call' \in Call /\ call'.pc = "record" /\ call'.index = call.index
      /\ call'.page = call.page /\ call'.scanned = call.scanned /\ call'.skipped = call.skipped
      /\ call'.forked = call.forked /\ call'.failed = failed /\ call'.queued = call.queued
      /\ call'.followed = call.followed /\ call'.seen = call.seen
      /\ call'.target = call.target /\ call'.outcome = "exception" /\ call'.chain = {Repo}
  BY <1>1, <1>2, <1>3, <1>4 DEF Call, Status
<1>6. UNCHANGED <<engine, rows, catalog, forks, asked, requested>> /\ faults' \in Nat
  BY DEF ResolveRaises, Fault, github, Inv, TypeOK
<1>7. TypeOK' /\ RowsReal' /\ CatalogIsReal'
  BY <1>5, <1>6 DEF Inv, Parts, TypeOK, RowsReal, CatalogIsReal
<1>8. Counted' /\ Affordable' /\ Remembered'
  <2>1. Counted'
    BY <1>2, <1>3, <1>5, <1>6 DEF Inv, Parts, Counted, Asking
  <2>2. Affordable' /\ Remembered'
    BY <1>5, <1>6 DEF Inv, Parts, Affordable, Remembered, Asking
  <2> QED  BY <2>1, <2>2
<1>9. Located' /\ Repo' = Repo
  BY <1>2, <1>5, StaysOnPage DEF InHand, Asking
<1>10. Lineal'
  BY <1>2, <1>5, <1>9 DEF Inv, Parts, Lineal, InHand, Asking
<1>11. Climbed'
  <2>1. Lineage' \subseteq {Repo}
    BY <1>2, <1>4, <1>5, <1>9, AncestryAntisymmetric DEF Lineage
  <2> QED  BY <1>5, <2>1 DEF Climbed
<1> QED  BY <1>7, <1>8, <1>9, <1>10, <1>11 DEF Inv, Parts

\* The request is charged, counted as a success or a failure, and GitHub may
\* have the fork.
LEMMA ForkKeeps == ASSUME Inv, Fork PROVE Inv'
<1> DEFINE failed(outcome) == IF outcome = "success" THEN call.failed ELSE call.failed + 1
           forked(outcome) == IF outcome = "success" THEN call.forked + 1 ELSE call.forked
           queued == call.queued + 1
<1>1. PICK outcome \in {"success", "http", "exception"} :
        /\ faults' \in {faults, faults + 1}
        /\ forks' = forks \cup {call.target} \/ (outcome # "success" /\ forks' = forks)
        /\ call' = [call EXCEPT !.pc = "record", !.outcome = outcome, !.queued = queued,
                                !.failed = failed(outcome), !.forked = forked(outcome)]
  <2>1. PICK outcome \in {"success", "http", "exception"} :
          /\ IF outcome = "success" THEN UNCHANGED faults ELSE Fault
          /\ \/ outcome # "http" /\ forks' = forks \cup {call.target}
             \/ outcome # "success" /\ UNCHANGED forks
          /\ LET c == [call EXCEPT !.pc = "record", !.outcome = Outcome(outcome)]
             IN  call' = Queued(IF outcome = "success" THEN [c EXCEPT !.forked = @ + 1]
                                                       ELSE [c EXCEPT !.failed = @ + 1],
                                outcome)
    BY DEF Fork
  <2>2. call \in Call
    BY DEF Inv, TypeOK
  <2>3. call' = [call EXCEPT !.pc = "record", !.outcome = outcome, !.queued = queued,
                             !.failed = failed(outcome), !.forked = forked(outcome)]
    BY <2>1, <2>2 DEF Queued, Outcome, Call
  <2> QED  BY <2>1, <2>3 DEF Fault
<1>2. /\ call.pc = "fork" /\ call \in Call /\ call.index <= Len(Entries)
      /\ call.scanned = call.skipped + call.forked + call.failed + 1
      /\ call.queued = requested /\ requested \in Nat /\ faults \in Nat
      /\ {call.scanned, call.skipped, call.forked, call.failed} \subseteq Nat
      /\ call.target \in Ancestry[Repo]
      /\ MaxForks # NoLimit => requested < MaxForks
  BY DEF Fork, Inv, Parts, TypeOK, Call, Located, Counted, Lineal, Affordable, InHand, Asking
<1>3. /\ failed(outcome) \in Nat /\ forked(outcome) \in Nat /\ queued \in Nat
      /\ call.scanned = call.skipped + forked(outcome) + failed(outcome)
      /\ queued = requested + 1
  BY <1>2
<1> HIDE DEF failed, forked, queued
<1>4. Repo \in Repos /\ call.target \in Repos
  BY <1>2, RepoInHand, AncestryGrows DEF Inv, Parts, InHand, Asking
<1>5. /\ call' \in Call /\ call'.pc = "record" /\ call'.index = call.index
      /\ call'.page = call.page /\ call'.scanned = call.scanned /\ call'.skipped = call.skipped
      /\ call'.forked = forked(outcome) /\ call'.failed = failed(outcome)
      /\ call'.queued = queued /\ call'.followed = call.followed /\ call'.seen = call.seen
      /\ call'.target = call.target /\ call'.outcome = outcome /\ call'.chain = call.chain
  BY <1>1, <1>2, <1>3 DEF Call, Status
<1>6. /\ UNCHANGED <<engine, rows, catalog, asked>> /\ requested' = requested + 1
      /\ faults' \in Nat
      /\ forks' \subseteq Repos /\ forks \subseteq forks'
      /\ outcome = "success" => call.target \in forks'
  BY <1>1, <1>2, <1>4 DEF Fork, Inv, TypeOK
<1>7. TypeOK' /\ RowsReal' /\ CatalogIsReal'
  <2>1. TypeOK'
    BY <1>2, <1>5, <1>6 DEF Inv, TypeOK
  <2>2. RowsReal' /\ CatalogIsReal'
    BY <1>6 DEF Inv, Parts, RowsReal, CatalogIsReal
  <2> QED  BY <2>1, <2>2
<1>8. Counted' /\ Remembered'
  <2>1. Counted'
    BY <1>2, <1>3, <1>5, <1>6 DEF Inv, Parts, Counted, Asking
  <2>2. Remembered'
    BY <1>5, <1>6 DEF Inv, Parts, Remembered
  <2> QED  BY <2>1, <2>2
<1>9. Affordable'
  BY <1>2, <1>5, <1>6, ForkLimitAssumption DEF Affordable, Asking
<1>10. Located' /\ Repo' = Repo
  BY <1>2, <1>5, StaysOnPage DEF InHand, Asking
<1>11. Lineal'
  BY <1>2, <1>5, <1>6, <1>10 DEF Lineal
<1>12. Climbed'
  BY <1>2, <1>5, <1>10 DEF Inv, Parts, Climbed, Lineage
<1> QED  BY <1>7, <1>8, <1>9, <1>10, <1>11, <1>12 DEF Inv, Parts

\* The row of the entry is written, and under SQLite committed.
LEMMA RecordKeeps == ASSUME Inv, Record PROVE Inv'
<1> DEFINE todo == IF call.options.owners
                   THEN {Owner[r] : r \in call.chain \cup {call.target}} ELSE {}
           W == Written(Repo, call.outcome)
<1>1. call' = [call EXCEPT !.pc = "owners", !.todo = todo]
  BY DEF Record
<1>2. /\ call.pc = "record" /\ call \in Call /\ call.index <= Len(Entries)
      /\ call.target \in Ancestry[Repo]
      /\ call.outcome = "success" => call.target \in forks
      /\ call.page \in 1..Len(Listing) /\ call.index > 0
  BY DEF Record, Inv, Parts, TypeOK, Located, Lineal, InHand
<1>3. Repo \in Repos /\ call.target \in Repos
  BY <1>2, RepoInHand, AncestryGrows DEF Inv, Parts, InHand
<1>4. todo \subseteq Names
  BY <1>2, <1>3, RepoAssumption DEF Call
<1>14. call.options.owners => \A r \in Lineage : Owner[r] \in todo
  BY <1>2 DEF Inv, Parts, Climbed
<1> HIDE DEF todo
<1>5. /\ call' \in Call /\ call'.pc = "owners" /\ call'.index = call.index
      /\ call'.page = call.page /\ call'.target = call.target /\ call'.options = call.options
      /\ call'.todo = todo /\ SameTally
  BY <1>1, <1>2, <1>4 DEF Call, SameTally
<1>6. /\ UNCHANGED <<engine, forks, asked, requested, faults>> /\ Upsert(Repo, call.outcome)
  BY DEF Record, github
<1>7. /\ W \in [Repos -> Status]
      /\ \A r \in Repos : W[r] = "success" => Ancestry[r] \cap forks # {}
  BY <1>2, <1>3 DEF Written, Inv, Parts, TypeOK, RowsReal, Call
<1> HIDE DEF W
<1>8. /\ Committed(W) \in [Repos -> Status]
      /\ \A r \in Repos : Committed(W)[r] = "success" => Ancestry[r] \cap forks # {}
  <2>1. TypeOK /\ CatalogIsReal /\ forks \subseteq forks'
    BY <1>6 DEF Inv, Parts
  <2> QED  BY <1>7, <2>1, CommittedReal
<1>9. \/ catalog' = Committed(W) /\ rows' = NoRows
      \/ catalog' = catalog /\ rows' = W
  BY <1>6 DEF Upsert, W
<1>10. TypeOK'
  BY <1>5, <1>6, <1>7, <1>8, <1>9, NoCallTyped DEF Inv, TypeOK
<1>11. RowsReal' /\ CatalogIsReal'
  BY <1>6, <1>7, <1>8, <1>9 DEF Inv, Parts, RowsReal, CatalogIsReal, NoRows
<1>12. Counted' /\ Affordable' /\ Remembered'
  BY <1>2, <1>5, <1>6 DEF Inv, Parts, Counted, Affordable, Remembered, SameTally, Asking
<1>13. Located' /\ Lineal'
  BY <1>2, <1>5, <1>6 DEF Inv, Parts, Located, Lineal, InHand, Asking
<1>15. Climbed'
  <2>1. Lineage' = Lineage
    BY <1>5 DEF Lineage, Repo, Entries
  <2> QED  BY <1>5, <1>14, <2>1 DEF Climbed
<1> QED  BY <1>10, <1>11, <1>12, <1>13, <1>15 DEF Inv, Parts

LEMMA FollowOwnerKeeps == ASSUME Inv, NEW name \in Names, FollowOwner(name) PROVE Inv'
<1> DEFINE a == Account[name]
           todo == call.todo \ {name}
<1>1. /\ call.pc = "owners" /\ call \in Call /\ a \in Accounts /\ todo \subseteq Names
      /\ {call.followed, call.scanned, call.skipped, call.forked, call.failed} \subseteq Nat
      /\ asked \in [Accounts -> Nat]
  BY DEF FollowOwner, Inv, TypeOK, Call, Accounts
<1>2. UNCHANGED <<engine, rows, catalog, forks, requested, faults>>
  BY DEF FollowOwner
<1> HIDE DEF a, todo
<1>3. PICK seen, followed :
        /\ call' = [call EXCEPT !.todo = todo, !.followed = followed, !.seen = seen]
        /\ seen \subseteq Accounts /\ followed \in Nat
        /\ IsFiniteSet(seen) /\ followed <= Cardinality(seen) /\ Me \notin seen
        /\ asked' \in [Accounts -> Nat]
        /\ \A b \in Accounts : asked'[b] = (IF b \in seen THEN 1 ELSE 0)
        /\ call.seen \subseteq seen /\ a \in seen \cup {Me}
  <2>1. CASE Known(name)
    <3>1. call' = [call EXCEPT !.todo = todo] /\ asked' = asked
      BY <2>1 DEF FollowOwner, todo
    <3>2. call' = [call EXCEPT !.todo = todo, !.followed = call.followed, !.seen = call.seen]
      BY <1>1, <3>1 DEF Call
    <3> WITNESS call.seen, call.followed
    <3>3. a \in call.seen \cup {Me}
      BY <2>1 DEF Known, a
    <3> QED  BY <1>1, <3>1, <3>2, <3>3 DEF Inv, Parts, Counted, Remembered, Call
  <2>2. CASE ~Known(name)
    <3>1. PICK ok \in {0, 1} :
            /\ call' = [call EXCEPT !.todo = todo, !.followed = @ + ok, !.seen = @ \cup {a}]
            /\ asked' = [asked EXCEPT ![a] = @ + 1]
      BY <2>2 DEF FollowOwner, todo, a
    <3>2. a # Me /\ a \notin call.seen
      BY <2>2 DEF Known, a
    <3>3. /\ IsFiniteSet(call.seen \cup {a})
          /\ Cardinality(call.seen \cup {a}) = Cardinality(call.seen) + 1
          /\ Cardinality(call.seen) \in Nat /\ call.followed <= Cardinality(call.seen)
      BY <3>2, FS_AddElement, FS_CardinalityType DEF Inv, Parts, Counted
    <3>4. /\ call.followed + ok <= Cardinality(call.seen \cup {a}) /\ call.followed + ok \in Nat
      BY <1>1, <3>3
    <3>5. call' = [call EXCEPT !.todo = todo, !.followed = call.followed + ok,
                               !.seen = call.seen \cup {a}]
      BY <1>1, <3>1 DEF Call
    <3>6. /\ asked' \in [Accounts -> Nat]
          /\ \A b \in Accounts : asked'[b] = (IF b \in call.seen \cup {a} THEN 1 ELSE 0)
      BY <1>1, <3>1, <3>2 DEF Inv, Parts, Remembered
    <3>7. call.seen \cup {a} \subseteq Accounts /\ Me \notin call.seen \cup {a}
      BY <1>1, <3>2 DEF Inv, Parts, Remembered, Call
    <3> WITNESS call.seen \cup {a}, call.followed + ok
    <3> QED  BY <3>3, <3>4, <3>5, <3>6, <3>7
  <2> QED  BY <2>1, <2>2
<1>4. /\ call' \in Call /\ call'.pc = "owners" /\ call'.index = call.index
      /\ call'.page = call.page /\ call'.scanned = call.scanned /\ call'.skipped = call.skipped
      /\ call'.forked = call.forked /\ call'.failed = call.failed /\ call'.queued = call.queued
      /\ call'.followed = followed /\ call'.seen = seen
      /\ call'.target = call.target /\ call'.options = call.options /\ call'.todo = todo
  BY <1>1, <1>3 DEF Call
<1>5. TypeOK' /\ RowsReal' /\ CatalogIsReal'
  BY <1>2, <1>3, <1>4 DEF Inv, Parts, TypeOK, RowsReal, CatalogIsReal
<1>6. Counted' /\ Affordable' /\ Remembered'
  BY <1>1, <1>2, <1>3, <1>4 DEF Inv, Parts, Counted, Affordable, Remembered, Asking
<1>7. Located' /\ Lineal'
  BY <1>1, <1>2, <1>4 DEF Inv, Parts, Located, Lineal, InHand, Asking
<1>8. Climbed'
  <2>1. Lineage' = Lineage
    BY <1>4 DEF Lineage, Repo, Entries
  <2>2. ASSUME call.options.owners, NEW r \in Lineage
        PROVE  Owner[r] \in todo \/ Account[Owner[r]] \in seen \cup {Me}
    BY <1>1, <1>3, <2>2 DEF Inv, Parts, Climbed, todo, a
  <2> QED  BY <1>4, <2>1, <2>2 DEF Climbed
<1> QED  BY <1>5, <1>6, <1>7, <1>8 DEF Inv, Parts

LEMMA NextKeeps == Inv /\ [Next]_vars => Inv'
<1> SUFFICES ASSUME Inv, [Next]_vars PROVE Inv'
  OBVIOUS
<1>1. ASSUME NEW options \in Requests, Command(options) \/ Service(options) PROVE Inv'
  BY <1>1, NewCallKeeps
<1>2. CASE Step
  <2>1. CASE TakeEntry
    BY <2>1, SkipKeeps, TakeKeeps
  <2>2. ASSUME NEW name \in Names, FollowOwner(name) PROVE Inv'
    BY <2>2, FollowOwnerKeeps
  <2> QED  BY <1>2, <2>1, <2>2, FetchKeeps, EndPageKeeps, ReturnKeeps, ResolveKeeps,
              ResolveRaisesKeeps, ForkKeeps, RecordKeeps, EndEntryKeeps DEF Step
<1>3. CASE UNCHANGED vars
  BY <1>3 DEF vars, Inv, Parts, TypeOK, Located, Lineal, RowsReal, CatalogIsReal, Counted,
              Affordable, Remembered, Climbed, Lineage, Repo, Entries
<1> QED  BY <1>1, <1>2, <1>3, ExitKeeps DEF Next

\* Inv is inductive.
THEOREM ForkInvariant == Spec => []Inv
BY InitInv, NextKeeps, PTL DEF Spec

\* Every state of `fork-repos` is of the type its variables declare.
THEOREM ForkTypes == Spec => []TypeOK
<1>1. Inv => TypeOK
  BY DEF Inv
<1> QED  BY <1>1, ForkInvariant, PTL

\* A call never asks for more forks than BOT_MAX_FORKS_PER_RUN, whatever becomes
\* of each (fork_repositories_for_user).
THEOREM ForkBudget == Spec => []WithinForkBudget
<1>1. Inv => WithinForkBudget
  BY DEF Inv, Parts, Affordable, WithinForkBudget
<1> QED  BY <1>1, ForkInvariant, PTL

\* The counters account for every repository scanned and every fork asked for.
THEOREM ForkTally == Spec => []TallyAddsUp
<1>1. Inv => TallyAddsUp
  BY DEF Inv, Parts, Counted, TallyAddsUp, TypeOK, Call, Asking
<1> QED  BY <1>1, ForkInvariant, PTL

\* No owner is asked to be followed twice in a call, nor is the bot.
THEOREM OwnersOnce == Spec => []OwnersAskedOnce
<1>1. Inv => OwnersAskedOnce
  BY RepoAssumption DEF Inv, Parts, Remembered, OwnersAskedOnce
<1> QED  BY <1>1, ForkInvariant, PTL

\* The catalog never claims a fork that is none, through crashes, failures and
\* both ways of committing (upsert_repository_catalog_entry).
THEOREM CatalogTells == Spec => []CatalogIsReal
<1>1. Inv => CatalogIsReal
  BY DEF Inv, Parts
<1> QED  BY <1>1, ForkInvariant, PTL

\* With --follow-fork-owners the owners of the whole lineage of an entry are
\* asked, from the entry up to what was forked for it (_resolve_repository_root
\* and the loop over the owners).
THEOREM LineageAsked == Spec => []LineageIsAsked
<1>1. Inv => LineageIsAsked
  <2> SUFFICES ASSUME Inv, call.pc = "owners", call.todo = {}, call.options.owners,
                      NEW r \in Lineage
               PROVE  Account[Owner[r]] = Me \/ asked[Account[Owner[r]]] = 1
    BY DEF LineageIsAsked
  <2>1. Account[Owner[r]] \in call.seen \cup {Me} /\ call.seen \subseteq Accounts
    BY DEF Inv, Parts, Climbed, TypeOK, Call
  <2> QED  BY <2>1 DEF Inv, Parts, Remembered
<1> QED  BY <1>1, ForkInvariant, PTL

===============================================================================
