------------------------ MODULE ExpandDiscoveryProofs ------------------------
(***************************************************************************)
(* Proofs about ExpandDiscovery, for all pages, budgets, windows and old   *)
(* cursors.                                                                *)
(***************************************************************************)
EXTENDS ExpandDiscovery, TLAPS, FiniteSetTheorems

\* The loop over the seeds is entered only when there are seeds, so that the
\* remainder that the index is computed with is defined.
Listed == d.pc \in {"seed", "page", "endseed"} => d.seeds > 0

\* A run never counts more seeds than the list has.
Bounded == d.seeds <= NSeeds

\* Between two runs nothing is counted.
Reset == d.pc = "idle" => d.seeds = 0

Core == TypeOK /\ Listed /\ WithinBudgets

\* The inductive invariant.
Sound == Core /\ Bounded /\ Reset

LEMMA NSeedsType == TypeOK => NSeeds \in Nat
BY DEF NSeeds, TypeOK

\* Accounts are numbered.
LEMMA AccountType == DOMAIN Pages \subseteq Nat
BY SeedsAssumption, FS_CardinalityType

LEMMA LimitsType == /\ MaxCandidates \in Nat \ {0} \/ MaxCandidates = NoLimit
                    /\ \A limit \in CallLimits : limit \in Nat \ {0} \/ limit = NoLimit
                    /\ MaxSeeds \in Nat \ {0} \/ MaxSeeds = NoLimit
                    /\ NoLimit \notin Int
                    /\ PerPage \in Nat \ {0}
BY BudgetAssumption DEF Limits

\* The remainder is an index of the list of seeds.
LEMMA Remainder ==
    ASSUME NEW a \in Nat, NEW n \in Nat \ {0} PROVE a % n \in 0..(n - 1)
OBVIOUS

LEMMA IndexType == 
    ASSUME TypeOK, Bounded, d.seeds > 0
    PROVE  Index \in Nat /\ Seed \in Nat /\ NextIndex \in Nat
<1>1. d.seeds \in Nat \ {0} /\ d.start + d.offset \in Nat
  BY DEF TypeOK, Discovery
<1>2. Index \in 0..(d.seeds - 1)
  BY <1>1, Remainder DEF Index
<1>3. Index + 1 \in Nat
  BY <1>1, <1>2
<1>4. (Index + 1) % d.seeds \in 0..(d.seeds - 1)
  BY <1>1, <1>3, Remainder
<1>5. Index + 1 \in 1..Len(following)
  BY <1>1, <1>2 DEF Bounded, NSeeds, TypeOK
<1>6. following[Index + 1] \in DOMAIN Pages
  BY <1>5 DEF TypeOK
<1> QED  BY <1>1, <1>2, <1>3, <1>4, <1>6, AccountType DEF Seed, NextIndex

LEMMA SlideType ==
    ASSUME NEW w \in Seq({"429", "5xx", "4xx"}), NEW x \in {"429", "5xx", "4xx"}
    PROVE  Slide(w, x) \in Seq({"429", "5xx", "4xx"})
<1>1. CASE Len(w) < Window
  BY <1>1 DEF Slide
<1>2. CASE ~(Len(w) < Window)
  <2>1. Len(w) > 0
    BY <1>2, BreakerAssumption
  <2>2. Tail(w) \in Seq({"429", "5xx", "4xx"})
    BY <2>1
  <2> QED  BY <1>2, <2>2 DEF Slide
<1> QED  BY <1>1, <1>2

\* An error is recorded in the window, the breaker and the history, and
\* nowhere else.
LEMMA ErrorType ==
    ASSUME NEW disc \in Discovery, NEW answer \in Answers
    PROVE  /\ WithError(disc, answer) \in Discovery
           /\ WithError(disc, answer).calls = disc.calls
           /\ WithError(disc, answer).found = disc.found
           /\ WithError(disc, answer).total = disc.total
           /\ WithError(disc, answer).seeds = disc.seeds
<1> DEFINE status == Status(answer)
           window == IF status = "none" THEN disc.window ELSE Slide(disc.window, status)
<1>1. status \in {"429", "5xx", "4xx", "none"}
  BY DEF Status, Answers
<1>2. window \in Seq({"429", "5xx", "4xx"})
  BY <1>1, SlideType DEF Discovery
<1>3. (disc.open \/ (status # "none" /\ Trips(window))) \in BOOLEAN
  BY DEF Discovery
<1>4. disc.limited + (IF answer = "429" THEN 1 ELSE 0) \in Nat
  BY DEF Discovery
<1>5. WithError(disc, answer) =
        [disc EXCEPT !.window = window,
                     !.open = disc.open \/ (status # "none" /\ Trips(window)),
                     !.limited = disc.limited + (IF answer = "429" THEN 1 ELSE 0)]
  BY DEF WithError
<1> HIDE DEF status, window
<1> QED  BY <1>2, <1>3, <1>4, <1>5 DEF Discovery

-----------------------------------------------------------------------------
\* The records two of the actions make of a discovery.
LEMMA FirstPageType ==
    ASSUME NEW disc \in Discovery, NEW n \in Nat \ {0}, NEW phase \in Phases
    PROVE  LET new == [disc EXCEPT !.phase = phase, !.page = n]
           IN  /\ new \in Discovery
               /\ new.seeds = disc.seeds /\ new.calls = disc.calls
               /\ new.found = disc.found /\ new.total = disc.total
BY DEF Discovery

LEMMA FallbackType ==
    ASSUME NEW disc \in Discovery, NEW n \in Nat \ {0}, NEW pc \in PC
    PROVE  LET new == [disc EXCEPT !.pc = pc, !.page = n]
           IN  /\ new \in Discovery
               /\ new.calls = disc.calls /\ new.pc = pc
               /\ new.found = disc.found /\ new.total = disc.total
BY DEF Discovery

\* What an empty page does: nothing to the budgets or the seeds.
LEMMA EmptyPageKeeps ==
    ASSUME TypeOK, Bounded, d.seeds > 0,
           NEW disc \in Discovery, disc.seeds = d.seeds, EmptyPage(disc)
    PROVE  /\ cursor' \in Cursor
           /\ d' \in Discovery
           /\ d'.seeds = disc.seeds
           /\ d'.calls = disc.calls
           /\ d'.found = disc.found
           /\ d'.total = disc.total
<1>1. Index \in Nat
  BY IndexType
<1>2. d.phase \in Phases /\ d.page \in Nat \ {0}
  BY DEF TypeOK, Discovery
<1>3. Here \in Cursor
  BY <1>1, <1>2 DEF Here, Cursor
<1>4. CASE d.phase = "followers"
  <2>1. cursor' = Here /\ d' = [disc EXCEPT !.phase = "following", !.page = 1]
    BY <1>4 DEF EmptyPage
  <2>2. "following" \in Phases
    BY DEF Phases
  <2>3. 1 \in Nat \ {0}
    OBVIOUS
  <2>4. d' \in Discovery /\ d'.seeds = disc.seeds /\ d'.calls = disc.calls
        /\ d'.found = disc.found /\ d'.total = disc.total
    BY <2>1, <2>2, <2>3, FirstPageType, Zenon
  <2> QED  BY <2>1, <2>4, <1>3
<1>5. CASE d.phase # "followers"
  <2>1. cursor' = [Here EXCEPT !.phase = "followers", !.page = 1]
        /\ d' = [disc EXCEPT !.pc = "endseed"]
    BY <1>5 DEF EmptyPage
  <2>2. cursor' = [index |-> Index, phase |-> "followers", page |-> 1]
    BY <2>1 DEF Here
  <2> QED  BY <2>1, <2>2, <1>1 DEF Discovery, Phases, PC, Cursor
<1> QED  BY <1>4, <1>5

LEMMA ChargedType ==
    ASSUME NEW disc \in Discovery
    PROVE  /\ Charged(disc) \in Discovery
           /\ Charged(disc).calls = disc.calls + 1
           /\ Charged(disc).found = disc.found
           /\ Charged(disc).total = disc.total
           /\ Charged(disc).seeds = disc.seeds
           /\ Charged(disc).pc = disc.pc
           /\ Charged(disc).phase = disc.phase
           /\ Charged(disc).page = disc.page
BY DEF Charged, Discovery

\* A request that is not refused by the budget leaves the calls within it.
LEMMA CallFits ==
    ASSUME TypeOK, WithinBudgets, ~NoMoreCalls
    PROVE  maxCalls # NoLimit => d.calls + 1 <= maxCalls
BY LimitsType DEF NoMoreCalls, Reached, TypeOK, Discovery

LEMMA FreshType == Fresh \in Discovery
BY DEF Fresh, Discovery, PC, Phases

\* A run that has not begun, or is over, has spent nothing.
LEMMA FreshSound ==
    ASSUME TypeOK, d' = Fresh, maxCalls' = maxCalls
    PROVE  d' \in Discovery /\ Listed' /\ WithinBudgets'
BY FreshType, LimitsType DEF Fresh, Listed, WithinBudgets, TypeOK

LEMMA InitSound == Init => Core
<1> SUFFICES ASSUME Init PROVE Core
  OBVIOUS
<1>1. saved \in Cursor
  BY CursorAssumption DEF Init, Cursor
<1>2. TypeOK
  BY <1>1, FreshType, SeedsAssumption DEF Init, TypeOK
<1>3. Listed /\ WithinBudgets
  BY LimitsType DEF Init, Fresh, Listed, WithinBudgets
<1> QED  BY <1>2, <1>3 DEF Core

-----------------------------------------------------------------------------
\* Every step keeps the invariant.

LEMMA ListSound ==
    ASSUME Sound, UNCHANGED <<following, changes, maxCalls>>, List
    PROVE  Core'
<1> USE DEF Sound, Core
<1>1. d \in Discovery /\ faults \in Nat
  BY DEF TypeOK
<1>2. Charged(d) \in Discovery /\ Charged(d).calls = d.calls + 1
      /\ Charged(d).found = d.found /\ Charged(d).total = d.total
      /\ Charged(d).seeds = d.seeds /\ Charged(d).pc = d.pc
  BY <1>1, ChargedType
<1>3. d.pc = "list"
  BY DEF List, ListSeeds, ListCut, ListFails
<1>4. ListPage \in Page
  BY <1>1 DEF ListPage, Page, Discovery
<1>5. CASE ListSeeds
  <2>1. /\ d' \in Discovery
        /\ d'.pc \in {"list", "begin"}
        /\ d'.calls = d.calls + 1
        /\ d'.total = d.total
        /\ d'.found = d.found
    <3> DEFINE more == IF d.seeds + PerPage < NSeeds THEN d.seeds + PerPage ELSE NSeeds
    <3>1. more \in Nat
      BY <1>1, NSeedsType, LimitsType DEF Discovery
    <3>2. \/ d' = [Charged(d) EXCEPT !.seeds = more]
          \/ d' = [Charged(d) EXCEPT !.pc = "begin"]
      BY <1>5 DEF ListSeeds
    <3> HIDE DEF more
    <3>3. "begin" \in PC
      BY DEF PC
    <3>4. CASE d' = [Charged(d) EXCEPT !.seeds = more]
      BY <1>2, <1>3, <3>1, <3>4 DEF Discovery
    <3>5. CASE d' = [Charged(d) EXCEPT !.pc = "begin"]
      BY <1>2, <3>3, <3>5 DEF Discovery
    <3> QED  BY <3>2, <3>4, <3>5
  <2>2. asked' \subseteq Page
    BY <1>4, <1>5 DEF ListSeeds, Ask, TypeOK
  <2>3. TypeOK'
    BY <1>5, <2>1, <2>2 DEF ListSeeds, TypeOK
  <2>4. WithinBudgets'
    BY <1>5, <2>1, CallFits DEF ListSeeds, WithinBudgets
  <2> QED  BY <2>1, <2>3, <2>4 DEF Listed
<1>6. CASE ListCut
  <2>1. d' = [d EXCEPT !.pc = "begin"]
    BY <1>6 DEF ListCut
  <2>2. d' \in Discovery /\ d'.pc = "begin" /\ d'.calls = d.calls
        /\ d'.total = d.total /\ d'.found = d.found
    BY <1>1, <2>1 DEF Discovery, PC
  <2> QED  BY <1>6, <2>2 DEF ListCut, TypeOK, Listed, WithinBudgets
<1>7. CASE ListFails
  <2>1. PICK answer \in Answers : d' = [WithError(Charged(d), answer) EXCEPT !.pc = "begin"]
    BY <1>7 DEF ListFails
  <2> DEFINE e == WithError(Charged(d), answer)
  <2>2. e \in Discovery /\ e.calls = d.calls + 1 /\ e.total = d.total /\ e.found = d.found
    BY <1>2, ErrorType
  <2> HIDE DEF e
  <2>3. d' \in Discovery /\ d'.pc = "begin" /\ d'.calls = d.calls + 1
        /\ d'.total = d.total /\ d'.found = d.found
    <3>1. d' = [e EXCEPT !.pc = "begin"]
      BY <2>1 DEF e
    <3> QED  BY <3>1, <2>2 DEF Discovery, PC
  <2>4. asked' \subseteq Page
    BY <1>4, <1>7 DEF ListFails, Ask, TypeOK
  <2>5. TypeOK'
    BY <1>1, <1>7, <2>3, <2>4 DEF ListFails, Fault, TypeOK
  <2>6. WithinBudgets'
    BY <1>7, <2>3, CallFits DEF ListFails, WithinBudgets
  <2> QED  BY <2>3, <2>5, <2>6 DEF Listed
<1> QED  BY <1>5, <1>6, <1>7 DEF List

\* The steps that spend nothing.
LEMMA SeedsSound ==
    ASSUME Sound, UNCHANGED <<following, changes, maxCalls>>, Begin \/ LeaveSeeds \/ OpenSeed \/ LeavePage
    PROVE  Core'
<1> USE DEF Sound, Core
<1>1. d \in Discovery /\ cursor \in Cursor
  BY DEF TypeOK
<1> DEFINE Kept == d'.calls = d.calls /\ d'.total = d.total
<1>2. CASE Begin
  <2>1. d' \in Discovery /\ Kept /\ d'.found = d.found /\ Listed'
    <3>1. CASE d.seeds = 0
      <4>1. d' = [d EXCEPT !.pc = "finish"]
        BY <1>2, <3>1 DEF Begin
      <4> QED  BY <1>1, <4>1 DEF Discovery, PC, Listed
    <3>2. CASE d.seeds # 0
      <4> DEFINE first == IF cursor.index \in 0..(d.seeds - 1) THEN cursor.index ELSE 0
      <4>1. first \in Nat
        BY <1>1 DEF Discovery
      <4>2. d' = [d EXCEPT !.pc = "seed", !.start = first]
        BY <1>2, <3>2 DEF Begin
      <4> HIDE DEF first
      <4>3. d' \in Discovery /\ Kept /\ d'.found = d.found /\ d'.seeds = d.seeds
        BY <1>1, <4>1, <4>2 DEF Discovery, PC
      <4>4. d.seeds > 0
        BY <1>1, <3>2 DEF Discovery
      <4> QED  BY <4>3, <4>4 DEF Listed
    <3> QED  BY <3>1, <3>2
  <2>2. UNCHANGED <<saved, cursor, asked, explored, faults>>
    BY <1>2 DEF Begin
  <2> HIDE DEF Kept
  <2>3. TypeOK'
    BY <2>1, <2>2 DEF TypeOK
  <2>4. WithinBudgets'
    BY <2>1 DEF WithinBudgets, Kept
  <2> QED  BY <2>1, <2>3, <2>4
<1>3. CASE LeaveSeeds
  <2>1. \/ d' = [d EXCEPT !.pc = "fallback", !.page = 1]
        \/ d' = [d EXCEPT !.pc = "finish"]
    BY <1>3 DEF LeaveSeeds
  <2>2. CASE d' = [d EXCEPT !.pc = "fallback", !.page = 1]
    <3>1. 1 \in Nat \ {0} /\ "fallback" \in PC
      BY DEF PC
    <3>2. d' \in Discovery /\ Kept /\ d'.found = d.found /\ d'.pc = "fallback"
      BY <1>1, <2>2, <3>1, FallbackType, Zenon
    <3>3. UNCHANGED <<saved, cursor, asked, explored, faults>>
      BY <1>3 DEF LeaveSeeds
    <3> QED  BY <3>2, <3>3 DEF TypeOK, Listed, WithinBudgets
  <2>3. CASE d' = [d EXCEPT !.pc = "finish"]
    <3>1. d' \in Discovery /\ Kept /\ d'.found = d.found /\ d'.pc = "finish"
      BY <1>1, <2>3 DEF Discovery, PC
    <3> QED  BY <1>3, <3>1 DEF LeaveSeeds, TypeOK, Listed, WithinBudgets
  <2> QED  BY <2>1, <2>2, <2>3
<1>4. CASE OpenSeed
  <2> DEFINE phase == IF cursor.phase \in Phases THEN cursor.phase ELSE "followers"
  <2>1. phase \in Phases /\ FirstPage \in Nat \ {0}
    BY DEF Phases, FirstPage
  <2>2. d' = [d EXCEPT !.pc = "page", !.found = 0, !.phase = phase, !.page = FirstPage]
    BY <1>4 DEF OpenSeed
  <2> HIDE DEF phase
  <2>3. d' \in Discovery /\ Kept /\ d'.found = 0 /\ d'.seeds = d.seeds
    BY <1>1, <2>1, <2>2 DEF Discovery, PC
  <2>4. d.pc = "seed" /\ d.seeds > 0
    BY <1>4 DEF OpenSeed, Listed
  <2>5. MaxCandidates # NoLimit => d'.total + d'.found <= MaxCandidates
    BY <1>1, <2>3, LimitsType DEF WithinBudgets, Discovery
  <2> QED  BY <1>4, <2>3, <2>4, <2>5 DEF OpenSeed, TypeOK, Listed, WithinBudgets
<1>5. CASE LeavePage
  <2>1. d' = [d EXCEPT !.pc = "endseed"] /\ d.pc = "page"
    BY <1>5 DEF LeavePage
  <2>2. d' \in Discovery /\ Kept /\ d'.found = d.found /\ d'.seeds = d.seeds
    BY <1>1, <2>1 DEF Discovery, PC
  <2> QED  BY <1>5, <2>1, <2>2 DEF LeavePage, TypeOK, Listed, WithinBudgets
<1> QED  BY <1>2, <1>3, <1>4, <1>5

LEMMA ReadPageSound ==
    ASSUME Sound, UNCHANGED <<following, changes, maxCalls>>, ReadPage
    PROVE  Core'
<1> USE DEF Sound, Core
<1>1. d \in Discovery /\ d.seeds > 0 /\ d.pc = "page"
  BY DEF TypeOK, ReadPage, ReadsPage, Listed
<1>2. Charged(d) \in Discovery /\ Charged(d).calls = d.calls + 1
      /\ Charged(d).found = d.found /\ Charged(d).total = d.total
      /\ Charged(d).seeds = d.seeds /\ Charged(d).pc = d.pc /\ Charged(d).page = d.page
  BY <1>1, ChargedType
<1>3. Index \in Nat /\ Seed \in Nat
  BY <1>1, IndexType
<1>4. ThisPage \in Page /\ Here \in Cursor
  BY <1>1, <1>3 DEF ThisPage, Page, Here, Cursor, Discovery
<1>5. asked' \subseteq Page /\ explored' \subseteq Page /\ saved' = saved /\ faults' = faults
  BY <1>4 DEF ReadPage, Ask, TypeOK
<1>6. ~NoMoreCalls /\ ~Reached(d.found, Room)
  BY DEF ReadPage, ReadsPage
<1>7. CASE EmptyPage(Charged(d))
  <2>1. cursor' \in Cursor /\ d' \in Discovery /\ d'.seeds = d.seeds
        /\ d'.calls = d.calls + 1 /\ d'.found = d.found /\ d'.total = d.total
    BY <1>1, <1>2, <1>7, EmptyPageKeeps
  <2>2. TypeOK'
    BY <1>5, <2>1 DEF TypeOK
  <2>3. WithinBudgets'
    BY <1>6, <2>1, CallFits DEF WithinBudgets
  <2> QED  BY <1>1, <2>1, <2>2, <2>3 DEF Listed
<1>8. CASE cursor' = Here /\ ~EmptyPage(Charged(d))
  <2>1. PICK new \in 0..PerPage :
          d' = [Charged(d) EXCEPT !.page = Charged(d).page + 1,
                  !.found = IF Reached(Charged(d).found + new, Room)
                            THEN Room ELSE Charged(d).found + new]
    BY <1>8 DEF ReadPage
  <2> DEFINE found == IF Reached(d.found + new, Room) THEN Room ELSE d.found + new
             page == d.page + 1
  <2>2. new \in Nat
    BY LimitsType
  <2>3. found \in Nat /\ (MaxCandidates # NoLimit => d.total + found <= MaxCandidates)
    BY <1>1, <1>6, <2>2, LimitsType DEF Room, Reached, WithinBudgets, Discovery
  <2>4. page \in Nat \ {0}
    BY <1>1 DEF Discovery
  <2>5. d' = [Charged(d) EXCEPT !.page = page, !.found = found]
    BY <1>2, <2>1, Zenon
  <2> HIDE DEF found, page
  <2>6. d' \in Discovery /\ d'.seeds = d.seeds /\ d'.calls = d.calls + 1
        /\ d'.found = found /\ d'.total = d.total
    BY <1>2, <2>3, <2>4, <2>5 DEF Discovery
  <2>7. TypeOK'
    BY <1>4, <1>5, <1>8, <2>6 DEF TypeOK
  <2>8. WithinBudgets'
    BY <1>6, <2>3, <2>6, CallFits DEF WithinBudgets
  <2> QED  BY <1>1, <2>6, <2>7, <2>8 DEF Listed
<1> QED  BY <1>7, <1>8 DEF ReadPage

LEMMA PageEndsSound ==
    ASSUME Sound, UNCHANGED <<following, changes, maxCalls>>, NoCallLeft \/ PageFails
    PROVE  Core'
<1> USE DEF Sound, Core
<1>1. d \in Discovery /\ d.seeds > 0 /\ d.pc = "page" /\ faults \in Nat
  BY DEF TypeOK, NoCallLeft, PageFails, ReadsPage, Listed
<1>2. Index \in Nat /\ Seed \in Nat
  BY <1>1, IndexType
<1>3. ThisPage \in Page /\ Here \in Cursor
  BY <1>1, <1>2 DEF ThisPage, Page, Here, Cursor, Discovery
<1>4. CASE NoCallLeft
  <2>1. cursor' \in Cursor /\ d' \in Discovery /\ d'.seeds = d.seeds
        /\ d'.calls = d.calls /\ d'.found = d.found /\ d'.total = d.total
    BY <1>1, <1>4, EmptyPageKeeps DEF NoCallLeft
  <2>2. UNCHANGED <<saved, asked, explored, faults>>
    BY <1>4 DEF NoCallLeft
  <2> QED  BY <1>1, <2>1, <2>2 DEF TypeOK, Listed, WithinBudgets
<1>5. CASE PageFails
  <2>1. PICK answer \in Answers :
          d' = [WithError(Charged(d), answer) EXCEPT !.pc = "endseed"]
    BY <1>5 DEF PageFails
  <2> DEFINE e == WithError(Charged(d), answer)
  <2>2. e \in Discovery /\ e.calls = d.calls + 1 /\ e.total = d.total
        /\ e.found = d.found /\ e.seeds = d.seeds
    BY <1>1, ChargedType, ErrorType
  <2>3. d' = [e EXCEPT !.pc = "endseed"]
    BY <2>1
  <2> HIDE DEF e
  <2>4. d' \in Discovery /\ d'.calls = d.calls + 1 /\ d'.total = d.total
        /\ d'.found = d.found /\ d'.seeds = d.seeds
    BY <2>2, <2>3 DEF Discovery, PC
  <2>5. asked' \subseteq Page /\ cursor' = Here /\ faults' = faults + 1 /\ ~NoMoreCalls
        /\ UNCHANGED <<saved, explored>>
    BY <1>3, <1>5 DEF PageFails, Ask, Fault, TypeOK
  <2>6. TypeOK'
    BY <1>1, <1>3, <2>4, <2>5 DEF TypeOK
  <2>7. WithinBudgets'
    BY <2>4, <2>5, CallFits DEF WithinBudgets
  <2> QED  BY <1>1, <2>4, <2>6, <2>7 DEF Listed
<1> QED  BY <1>4, <1>5

LEMMA EndSeedSound ==
    ASSUME Sound, UNCHANGED <<following, changes, maxCalls>>, EndSeed
    PROVE  Core'
<1> USE DEF Sound, Core
<1>1. d \in Discovery /\ d.seeds > 0 /\ cursor \in Cursor
  BY DEF TypeOK, EndSeed, Listed
<1>2. cursor' \in Cursor
  BY <1>1, IndexType DEF EndSeed, Cursor
<1> DEFINE offset == d.offset + 1
           total == d.total + d.found
<1>3. offset \in Nat /\ total \in Nat
  BY <1>1 DEF Discovery
<1>4. d' = [d EXCEPT !.pc = "seed", !.offset = offset, !.total = total, !.found = 0]
  BY DEF EndSeed
<1>5. MaxCandidates # NoLimit => total + 0 <= MaxCandidates
  BY <1>1, LimitsType DEF WithinBudgets, Discovery
<1> HIDE DEF offset, total
<1>6. d' \in Discovery /\ d'.calls = d.calls /\ d'.total = total /\ d'.found = 0
      /\ d'.seeds = d.seeds
  BY <1>1, <1>3, <1>4 DEF Discovery, PC
<1>7. TypeOK'
  BY <1>2, <1>6 DEF EndSeed, TypeOK
<1> QED  BY <1>1, <1>5, <1>6, <1>7 DEF Listed, WithinBudgets

LEMMA FallbackSound ==
    ASSUME Sound, UNCHANGED <<following, changes, maxCalls>>, ReadOwnPage
    PROVE  Core'
<1> USE DEF Sound, Core
<1>1. d \in Discovery /\ cursor \in Cursor
  BY DEF TypeOK
<1> DEFINE page == d.page + 1
<1>2. page \in Nat \ {0} /\ OwnPage \in Page
  BY <1>1 DEF OwnPage, Page, Discovery
<1>3. asked' \subseteq Page
  BY <1>2 DEF ReadOwnPage, Ask, TypeOK
<1>4. \/ d' = [d EXCEPT !.page = page] /\ saved' = cursor
      \/ d' = [d EXCEPT !.pc = "finish"] /\ saved' = saved
  BY DEF ReadOwnPage
<1> HIDE DEF page
<1>5. d' \in Discovery /\ d'.pc \in {"fallback", "finish"} /\ d'.calls = d.calls
      /\ d'.total = d.total /\ d'.found = d.found
  BY <1>1, <1>2, <1>4 DEF ReadOwnPage, Discovery, PC
<1>6. TypeOK'
  BY <1>1, <1>3, <1>4, <1>5 DEF ReadOwnPage, TypeOK
<1> QED  BY <1>5, <1>6 DEF Listed, WithinBudgets

\* The steps after which no run is in progress, or one has just begun.
LEMMA OverSound ==
    ASSUME Sound, UNCHANGED <<following, changes, maxCalls>>, Start \/ Finish \/ Raise \/ Crash
    PROVE  Core'
<1> USE DEF Sound, Core
<1>1. d \in Discovery /\ {cursor, saved} \subseteq Cursor /\ faults \in Nat
  BY DEF TypeOK
<1>2. CASE Start
  <2>1. d' = [Fresh EXCEPT !.pc = "list"]
    BY <1>2 DEF Start
  <2>2. d' \in Discovery /\ d'.pc = "list" /\ d'.calls = 0 /\ d'.total = 0 /\ d'.found = 0
    <3>1. Fresh \in Discovery /\ Fresh.calls = 0 /\ Fresh.total = 0 /\ Fresh.found = 0
      BY FreshType DEF Fresh
    <3> QED  BY <2>1, <3>1 DEF Discovery, PC
  <2>3. TypeOK'
    BY <1>2, <2>2 DEF Start, TypeOK
  <2>4. WithinBudgets'
    BY <2>2, LimitsType DEF TypeOK, WithinBudgets
  <2> QED  BY <2>2, <2>3, <2>4 DEF Listed
<1>3. CASE Finish
  <2> QED  BY <1>1, <1>3, FreshSound DEF Finish, Over, TypeOK
<1>4. CASE Raise
  <2>1. ReadsPage => Here \in Cursor
    <3> SUFFICES ASSUME ReadsPage PROVE Here \in Cursor
      OBVIOUS
    <3>1. d.seeds > 0
      BY DEF ReadsPage, Listed
    <3> QED  BY <1>1, <3>1, IndexType DEF Here, Cursor, Discovery
  <2>2. cursor' \in Cursor /\ saved' = cursor' /\ d' = Fresh
    BY <1>1, <1>4, <2>1 DEF Raise, Over
  <2> QED  BY <1>1, <1>4, <2>2, FreshSound DEF Raise, Fault, TypeOK
<1>5. CASE Crash
  <2> QED  BY <1>1, <1>5, FreshSound DEF Crash, Fault, TypeOK
<1> QED  BY <1>2, <1>3, <1>4, <1>5

\* A list that is read page by page is never counted beyond its end.
LEMMA BoundedKept ==
    ASSUME Sound, UNCHANGED following, Start \/ Step \/ Crash
    PROVE  Bounded'
<1>1. d \in Discovery /\ d.seeds <= NSeeds /\ NSeeds \in Nat /\ NSeeds' = NSeeds
  BY NSeedsType DEF Sound, Core, TypeOK, Bounded, NSeeds
<1>2. Fresh.seeds = 0 /\ [Fresh EXCEPT !.pc = "list"].seeds = 0
  BY DEF Fresh
<1>3. CASE Start \/ Crash \/ Finish \/ Raise
  <2>1. d'.seeds = 0
    BY <1>2, <1>3 DEF Start, Crash, Finish, Raise, Over
  <2> QED  BY <1>1, <2>1 DEF Bounded
<1>4. Charged(d) \in Discovery /\ Charged(d).seeds = d.seeds
  BY <1>1, ChargedType
<1>5. CASE List
  <2>1. CASE ListSeeds
    <3> DEFINE more == IF d.seeds + PerPage < NSeeds THEN d.seeds + PerPage ELSE NSeeds
    <3>1. \/ d' = [Charged(d) EXCEPT !.seeds = more]
          \/ d' = [Charged(d) EXCEPT !.pc = "begin"]
      BY <1>4, <2>1 DEF ListSeeds
    <3>2. more <= NSeeds
      BY <1>1, LimitsType DEF Discovery
    <3> HIDE DEF more
    <3> QED  BY <1>1, <1>4, <3>1, <3>2 DEF Discovery, Bounded
  <2>2. CASE ListCut
    BY <1>1, <2>2 DEF ListCut, Discovery, Bounded
  <2>3. CASE ListFails
    <3>1. PICK answer \in Answers : d' = [WithError(Charged(d), answer) EXCEPT !.pc = "begin"]
      BY <2>3 DEF ListFails
    <3>2. WithError(Charged(d), answer) \in Discovery
          /\ WithError(Charged(d), answer).seeds = d.seeds
      BY <1>4, ErrorType
    <3> QED  BY <1>1, <3>1, <3>2 DEF Discovery, Bounded
  <2> QED  BY <1>5, <2>1, <2>2, <2>3 DEF List
<1>6. CASE Begin \/ LeaveSeeds \/ OpenSeed \/ LeavePage
  BY <1>1, <1>6 DEF Begin, LeaveSeeds, OpenSeed, LeavePage, Discovery, Bounded
<1>7. CASE ReadPage \/ NoCallLeft
  <2>1. TypeOK /\ Bounded /\ d.seeds > 0
    BY <1>7 DEF Sound, Core, Listed, ReadPage, NoCallLeft, ReadsPage
  <2>2. CASE EmptyPage(Charged(d)) \/ EmptyPage(d)
    <3>1. d'.seeds = d.seeds
      BY <1>1, <1>4, <2>1, <2>2, EmptyPageKeeps
    <3> QED  BY <1>1, <3>1 DEF Bounded
  <2>3. CASE ~EmptyPage(Charged(d)) /\ ~EmptyPage(d)
    <3>1. PICK new \in 0..PerPage :
            d' = [Charged(d) EXCEPT !.page = Charged(d).page + 1,
                    !.found = IF Reached(Charged(d).found + new, Room)
                              THEN Room ELSE Charged(d).found + new]
      BY <1>7, <2>3 DEF ReadPage, NoCallLeft
    <3>2. d'.seeds = Charged(d).seeds
      BY <1>4, <3>1 DEF Discovery
    <3> QED  BY <1>1, <1>4, <3>2 DEF Bounded
  <2> QED  BY <2>2, <2>3
<1>8. CASE PageFails
  <2>1. PICK answer \in Answers :
          d' = [WithError(Charged(d), answer) EXCEPT !.pc = "endseed"]
    BY <1>8 DEF PageFails
  <2>2. WithError(Charged(d), answer) \in Discovery
        /\ WithError(Charged(d), answer).seeds = d.seeds
    BY <1>4, ErrorType
  <2> QED  BY <1>1, <2>1, <2>2 DEF Discovery, Bounded
<1>9. CASE EndSeed \/ ReadOwnPage
  <2>1. d'.seeds = d.seeds
    BY <1>1, <1>9 DEF EndSeed, ReadOwnPage, Discovery
  <2> QED  BY <1>1, <2>1 DEF Bounded
<1> QED  BY <1>3, <1>5, <1>6, <1>7, <1>8, <1>9 DEF Step, Seeds, ReadSeed

\* A run that ends leaves nothing behind, and no other step ends a run.
LEMMA ResetKept ==
    ASSUME Sound, Start \/ Step \/ Crash
    PROVE  Reset'
<1>1. d \in Discovery /\ Charged(d) \in Discovery /\ Charged(d).pc = d.pc
  BY ChargedType DEF Sound, Core, TypeOK
<1>2. Fresh.seeds = 0 /\ [Fresh EXCEPT !.pc = "list"].seeds = 0
  BY DEF Fresh
<1>3. CASE Start \/ Crash \/ Finish \/ Raise
  BY <1>2, <1>3 DEF Start, Crash, Finish, Raise, Over, Reset
<1>4. CASE List
  <2>1. d.pc = "list"
    BY <1>4 DEF List, ListSeeds, ListCut, ListFails
  <2>2. ASSUME NEW answer \in Answers
        PROVE  [WithError(Charged(d), answer) EXCEPT !.pc = "begin"].pc = "begin"
    BY <1>1, ErrorType DEF Discovery
  <2>3. d'.pc \in {"list", "begin"}
    BY <1>1, <1>4, <2>1, <2>2 DEF List, ListSeeds, ListCut, ListFails, Discovery
  <2> QED  BY <2>3 DEF Reset
<1>5. CASE Begin \/ LeaveSeeds \/ OpenSeed \/ LeavePage \/ EndSeed \/ ReadOwnPage
  <2>1. d'.pc \in {"finish", "seed", "fallback", "page", "endseed"}
    BY <1>1, <1>5 DEF Begin, LeaveSeeds, OpenSeed, LeavePage, EndSeed, ReadOwnPage, Discovery
  <2> QED  BY <2>1 DEF Reset
<1>6. CASE ReadPage \/ NoCallLeft
  <2>1. d.pc = "page"
    BY <1>6 DEF ReadPage, NoCallLeft, ReadsPage
  <2>2. d'.pc \in {"page", "endseed"}
    BY <1>1, <1>6, <2>1 DEF ReadPage, NoCallLeft, EmptyPage, Discovery
  <2> QED  BY <2>2 DEF Reset
<1>7. CASE PageFails
  <2>1. ASSUME NEW answer \in Answers
        PROVE  [WithError(Charged(d), answer) EXCEPT !.pc = "endseed"].pc = "endseed"
    BY <1>1, ErrorType DEF Discovery
  <2>2. d'.pc = "endseed"
    BY <1>7, <2>1 DEF PageFails
  <2> QED  BY <2>2 DEF Reset
<1> QED  BY <1>3, <1>4, <1>5, <1>6, <1>7 DEF Step, Seeds, ReadSeed

\* The list changes between two runs, when nothing has been counted.
LEMMA RefollowSound ==
    ASSUME Sound, Refollow
    PROVE  Sound'
<1>1. /\ following \in Seq(DOMAIN Pages) /\ changes \in Nat /\ d.pc = "idle"
      /\ UNCHANGED <<maxCalls, saved, cursor, d, asked, explored, faults>>
      /\ changes' = changes + 1
  BY DEF Refollow, Sound, Core, TypeOK
<1>2. following' \in Seq(DOMAIN Pages)
  <2>1. ASSUME NEW s \in DOMAIN Pages, following' = <<s>> \o following
        PROVE  following' \in Seq(DOMAIN Pages)
    BY <1>1, <2>1
  <2>2. ASSUME NEW i \in DOMAIN following,
               following' = SubSeq(following, 1, i - 1) \o SubSeq(following, i + 1, Len(following))
        PROVE  following' \in Seq(DOMAIN Pages)
    <3>1. i \in 1..Len(following)
      BY <1>1
    <3>2. SubSeq(following, 1, i - 1) \in Seq(DOMAIN Pages)
      BY <1>1, <3>1
    <3>3. SubSeq(following, i + 1, Len(following)) \in Seq(DOMAIN Pages)
      BY <1>1, <3>1
    <3> QED  BY <2>2, <3>2, <3>3
  <2> QED  BY <2>1, <2>2 DEF Refollow
<1>3. Core'
  BY <1>1, <1>2 DEF Sound, Core, TypeOK, Listed, WithinBudgets
<1>4. d.seeds = 0
  BY <1>1 DEF Sound, Reset
<1>5. Bounded' /\ Reset'
  BY <1>1, <1>2, <1>4 DEF Bounded, NSeeds, Reset
<1> QED  BY <1>3, <1>5 DEF Sound

\* Only the list changes when the list does.
LEMMA LimitKept == Start \/ Step \/ Crash => UNCHANGED <<following, changes, maxCalls>>
BY DEF Start, Step, Crash, List, ListSeeds, ListCut, ListFails, Seeds, Begin,
       LeaveSeeds, OpenSeed, ReadSeed, LeavePage, ReadPage, NoCallLeft, PageFails,
       EndSeed, ReadOwnPage, Finish, Raise

\* Sound is the inductive strengthening of the types and the budgets.
THEOREM DiscoverySound == Spec => []Sound
<1>1. Init => Sound
  <2>1. Init => Bounded /\ Reset
    BY SeedsAssumption DEF Init, Fresh, Bounded, Reset, NSeeds
  <2> QED  BY <2>1, InitSound DEF Sound
<1>2. Sound /\ [Next]_vars => Sound'
  <2> SUFFICES ASSUME Sound, [Next]_vars PROVE Sound'
    OBVIOUS
  <2>1. ASSUME Start \/ Step \/ Crash PROVE Sound'
    <3>0. UNCHANGED <<following, changes, maxCalls>>
      BY <2>1, LimitKept
    <3>1. ASSUME List PROVE Core'
      BY <3>0, <3>1, ListSound
    <3>2. ASSUME Begin \/ LeaveSeeds \/ OpenSeed \/ LeavePage PROVE Core'
      BY <3>0, <3>2, SeedsSound
    <3>3. ASSUME ReadPage PROVE Core'
      BY <3>0, <3>3, ReadPageSound
    <3>4. ASSUME NoCallLeft \/ PageFails PROVE Core'
      BY <3>0, <3>4, PageEndsSound
    <3>5. ASSUME EndSeed PROVE Core'
      BY <3>0, <3>5, EndSeedSound
    <3>6. ASSUME ReadOwnPage PROVE Core'
      BY <3>0, <3>6, FallbackSound
    <3>7. ASSUME Start \/ Finish \/ Raise \/ Crash PROVE Core'
      BY <3>0, <3>7, OverSound
    <3>8. Core'
      BY <2>1, <3>1, <3>2, <3>3, <3>4, <3>5, <3>6, <3>7 DEF Step, Seeds, ReadSeed
    <3>9. UNCHANGED following
      BY <3>0
    <3>10. Bounded' /\ Reset'
      BY <2>1, <3>9, BoundedKept, ResetKept
    <3> QED  BY <3>8, <3>10 DEF Sound
  <2>2. CASE Refollow
    BY <2>2, RefollowSound
  <2>3. CASE UNCHANGED vars
    BY <2>3 DEF vars, Sound, Core, TypeOK, Listed, Bounded, Reset, NSeeds, WithinBudgets
  <2> QED  BY <2>1, <2>2, <2>3 DEF Next
<1> QED  BY <1>1, <1>2, PTL DEF Spec

\* Every state of a discovery is of the type its variables declare, and the
\* cursor always has a form that the code reads back.
THEOREM DiscoveryTypes == Spec => []TypeOK
<1>1. Sound => TypeOK
  BY DEF Sound, Core
<1> QED  BY <1>1, DiscoverySound, PTL

\* The calls charged to a run and the candidates the seeds contribute stay
\* within the budgets, for all seeds, pages, budgets, errors and old cursors
\* (_discover_candidates and _fetch_expand_page).
THEOREM DiscoveryWithinBudgets == Spec => []WithinBudgets
<1>1. Sound => WithinBudgets
  BY DEF Sound, Core
<1> QED  BY <1>1, DiscoverySound, PTL

-----------------------------------------------------------------------------
(* The breaker.                                                            *)

Kinds == {"429", "5xx"}

\* The breaker is open as soon as a kind of error has come Threshold times, and
\* no request is made while it is.
BreakerOK == /\ d.open => d.pc \in {"begin", "seed", "endseed", "fallback", "finish"}
             /\ ~d.open => \A kind \in Kinds : Times(kind, d.window) < Threshold

\* The list of seeds alone cannot open it, unless one error is enough.
FallbackOK == /\ d.pc \in {"idle", "list"} => d.window = <<>>
              /\ Threshold > 1 /\ d.pc = "begin" => ~d.open
              /\ d.pc = "fallback" => d.page = 1 \/ <<0, "own", 1>> \in asked

Guarded == /\ BreakerOK /\ BreakerCutsOff /\ FallbackOK
           /\ Threshold > 1 => FallbackHappens

LEMMA TimesGrows ==
    ASSUME NEW w \in Seq({"429", "5xx", "4xx"}), NEW x \in {"429", "5xx", "4xx"}, NEW kind
    PROVE  /\ Times(kind, w) \in Nat /\ Times(kind, Slide(w, x)) \in Nat
           /\ Times(kind, Slide(w, x)) <= Times(kind, w) + 1
<1> DEFINE n == Len(w)
           v == Slide(w, x)
           S == {i \in DOMAIN w : w[i] = kind}
           T == {i \in DOMAIN v : v[i] = kind}
<1>1. n \in Nat /\ DOMAIN w = 1..n
  OBVIOUS
<1>2. IsFiniteSet(S) /\ Cardinality(S) \in Nat
  <2>1. IsFiniteSet(1..n)
    BY <1>1, FS_Interval
  <2>2. S \in SUBSET (1..n)
    BY <1>1
  <2> QED  BY <2>1, <2>2, FS_Subset, FS_CardinalityType
<1>3. v \in Seq({"429", "5xx", "4xx"})
  BY SlideType
<1>4. IsFiniteSet(T) /\ Cardinality(T) \in Nat
  <2>1. IsFiniteSet(1..Len(v)) /\ DOMAIN v = 1..Len(v)
    BY <1>3, FS_Interval
  <2>2. T \in SUBSET (1..Len(v))
    BY <2>1
  <2> QED  BY <2>1, <2>2, FS_Subset, FS_CardinalityType
<1>5. CASE Len(w) < Window
  <2>1. v = Append(w, x)
    BY <1>5 DEF Slide
  <2>2. T \in SUBSET (S \cup {n + 1})
    <3>1. DOMAIN v = 1..(n + 1) /\ \A i \in 1..n : v[i] = w[i]
      BY <2>1
    <3>2. ASSUME NEW i \in T PROVE i \in S \cup {n + 1}
      <4>1. i \in 1..n \/ i = n + 1
        BY <1>1, <3>1
      <4> QED  BY <1>1, <3>1, <4>1
    <3> QED  BY <3>2
  <2>3. IsFiniteSet(S \cup {n + 1}) /\ Cardinality(S \cup {n + 1}) <= Cardinality(S) + 1
    <3>1. IsFiniteSet(S \cup {n + 1})
          /\ Cardinality(S \cup {n + 1}) = IF n + 1 \in S THEN Cardinality(S) ELSE Cardinality(S) + 1
      BY <1>2, FS_AddElement
    <3> HIDE DEF S, n
    <3> QED  BY <1>2, <3>1
  <2>4. Cardinality(T) <= Cardinality(S \cup {n + 1})
    BY <2>2, <2>3, FS_Subset
  <2>5. Cardinality(S \cup {n + 1}) \in Nat
    BY <2>3, FS_CardinalityType
  <2> HIDE DEF S, T, n, v
  <2>6. Cardinality(T) <= Cardinality(S) + 1
    BY <1>2, <1>4, <2>3, <2>4, <2>5
  <2> QED  BY <1>2, <1>4, <2>6 DEF Times, S, T, v
<1>6. CASE ~(Len(w) < Window)
  <2>1. v = Append(Tail(w), x) /\ n > 0
    BY <1>1, <1>6, BreakerAssumption DEF Slide
  <2>2. Tail(w) \in Seq({"429", "5xx", "4xx"}) /\ Len(Tail(w)) = n - 1
        /\ \A i \in 1..(n - 1) : Tail(w)[i] = w[i + 1]
    BY <2>1
  <2>3. DOMAIN v = 1..n /\ \A i \in 1..(n - 1) : v[i] = w[i + 1]
    BY <1>1, <2>1, <2>2
  <2> DEFINE f == [i \in T \ {n} |-> i + 1]
  <2>4. f \in Injection(T \ {n}, S)
    <3>1. \A i \in T \ {n} : i \in 1..(n - 1) /\ i + 1 \in S
      BY <1>1, <2>3
    <3> QED  BY <3>1 DEF Injection, IsInjective
  <2>5. Cardinality(T \ {n}) <= Cardinality(S)
    BY <1>2, <2>4, FS_Injection
  <2>6. IsFiniteSet(T \ {n}) /\ Cardinality(T) <= Cardinality(T \ {n}) + 1
        /\ Cardinality(T \ {n}) \in Nat
    <3> HIDE DEF T, n
    <3>1. IsFiniteSet(T \ {n}) /\ Cardinality(T \ {n}) \in Nat
      BY <1>4, FS_RemoveElement, FS_CardinalityType
    <3>2. Cardinality(T \ {n}) = IF n \in T THEN Cardinality(T) - 1 ELSE Cardinality(T)
      BY <1>4, FS_RemoveElement
    <3> QED  BY <1>4, <3>1, <3>2
  <2> HIDE DEF S, T, n, v
  <2>7. Cardinality(T) <= Cardinality(S) + 1
    BY <1>2, <1>4, <2>5, <2>6
  <2> QED  BY <1>2, <1>4, <2>7 DEF Times, S, T, v
<1> QED  BY <1>5, <1>6

LEMMA TimesNone == \A kind : Times(kind, <<>>) = 0
<1> SUFFICES ASSUME NEW kind PROVE Times(kind, <<>>) = 0
  OBVIOUS
<1>1. {i \in DOMAIN <<>> : <<>>[i] = kind} = {}
  OBVIOUS
<1> QED  BY <1>1, FS_EmptySet DEF Times

\* The first error of a kind to come Threshold times opens the breaker; a single
\* one does not, unless the threshold is 1.
LEMMA ErrorTrips ==
    ASSUME NEW disc \in Discovery, NEW answer \in Answers, ~disc.open,
           \A kind \in Kinds : Times(kind, disc.window) < Threshold
    PROVE  LET e == WithError(disc, answer)
           IN  /\ ~e.open => \A kind \in Kinds : Times(kind, e.window) < Threshold
               /\ \A kind \in Kinds : Times(kind, e.window) <= Threshold
               /\ Threshold > 1 /\ disc.window = <<>> => ~e.open
<1> DEFINE status == Status(answer)
           window == IF status = "none" THEN disc.window ELSE Slide(disc.window, status)
           e == WithError(disc, answer)
<1>1. status \in {"429", "5xx", "4xx", "none"}
  BY DEF Status, Answers
<1>2. Threshold \in Nat \ {0} /\ disc.window \in Seq({"429", "5xx", "4xx"})
  BY BreakerAssumption DEF Discovery
<1>3. e.window = window /\ e.open = (disc.open \/ (status # "none" /\ Trips(window)))
  BY DEF WithError, Discovery
<1>4. ASSUME NEW kind \in Kinds
      PROVE  /\ Times(kind, window) \in Nat
             /\ Times(kind, window) <= Times(kind, disc.window) + 1
             /\ Times(kind, disc.window) \in Nat
             /\ status = "none" => Times(kind, window) < Threshold
  <2>1. Times(kind, disc.window) \in Nat
    BY <1>2, TimesGrows
  <2>2. CASE status = "none"
    BY <2>1, <2>2
  <2>3. CASE status # "none"
    BY <1>1, <1>2, <2>1, <2>3, TimesGrows
  <2> QED  BY <2>2, <2>3
<1> HIDE DEF status, window, e
<1>5. \A kind \in Kinds : Times(kind, window) <= Threshold
  BY <1>2, <1>4
<1>6. ~e.open => \A kind \in Kinds : Times(kind, window) < Threshold
  <2>1. ~e.open => status = "none" \/ ~Trips(window)
    BY <1>3
  <2> QED  BY <1>2, <1>4, <2>1 DEF Trips, Kinds
<1>7. Threshold > 1 /\ disc.window = <<>> => ~e.open
  <2> SUFFICES ASSUME Threshold > 1, disc.window = <<>>
               PROVE  ~e.open
    OBVIOUS
  <2>1. \A kind \in Kinds : Times(kind, window) < Threshold
    BY <1>2, <1>4, TimesNone
  <2>2. ~Trips(window)
    BY <1>2, <1>4, <2>1 DEF Trips, Kinds
  <2> QED  BY <1>3, <2>2
<1> QED  BY <1>3, <1>5, <1>6, <1>7 DEF e

-----------------------------------------------------------------------------
(* What a step makes of the fields of the discovery.                       *)

\* The place of a run in its list of seeds.
Place == <<d.start, d.offset, d.seeds>>

LEMMA ChargedRest ==
    ASSUME NEW disc \in Discovery
    PROVE  /\ Charged(disc).start = disc.start /\ Charged(disc).offset = disc.offset
           /\ Charged(disc).window = disc.window /\ Charged(disc).open = disc.open
BY DEF Charged, Discovery

LEMMA ErrorRest ==
    ASSUME NEW disc \in Discovery, NEW answer \in Answers
    PROVE  /\ WithError(disc, answer).start = disc.start
           /\ WithError(disc, answer).offset = disc.offset
BY DEF WithError, Discovery

LEMMA ListMoves ==
    ASSUME TypeOK, List
    PROVE  /\ d.pc = "list" /\ d'.start = d.start /\ d'.offset = d.offset
           /\ \/ /\ ListCut /\ d'.pc = "begin" /\ d'.calls = d.calls /\ asked' = asked
                 /\ d'.window = d.window /\ d'.open = d.open
              \/ /\ ListSeeds /\ d'.calls = d.calls + 1 /\ asked' = asked \cup {ListPage}
                 /\ d'.window = d.window /\ d'.open = d.open
                 /\ d'.pc = "begin" \/ (d'.pc = "list" /\ d.seeds < d'.seeds)
              \/ /\ ListFails /\ d'.pc = "begin"
                 /\ d'.calls = d.calls + 1 /\ asked' = asked \cup {ListPage}
                 /\ \E answer \in Answers : /\ d'.window = WithError(Charged(d), answer).window
                                            /\ d'.open = WithError(Charged(d), answer).open
<1>1. d \in Discovery /\ d.seeds \in Nat
  BY DEF TypeOK, Discovery
<1>2. Charged(d) \in Discovery /\ Charged(d).calls = d.calls + 1 /\ Charged(d).seeds = d.seeds
      /\ Charged(d).pc = d.pc /\ Charged(d).start = d.start /\ Charged(d).offset = d.offset
      /\ Charged(d).window = d.window /\ Charged(d).open = d.open
  BY <1>1, ChargedType, ChargedRest
<1>3. d.pc = "list"
  BY DEF List, ListSeeds, ListCut, ListFails
<1>4. CASE ListSeeds
  <2> DEFINE more == IF d.seeds + PerPage < NSeeds THEN d.seeds + PerPage ELSE NSeeds
  <2>1. d.seeds < NSeeds => d.seeds < more
    BY <1>1, NSeedsType, LimitsType
  <2>2. \/ d' = [Charged(d) EXCEPT !.seeds = more] /\ d.seeds < NSeeds
        \/ d' = [Charged(d) EXCEPT !.pc = "begin"]
    BY <1>4 DEF ListSeeds
  <2> HIDE DEF more
  <2>3. asked' = asked \cup {ListPage}
    BY <1>4 DEF ListSeeds, Ask
  <2> QED  BY <1>2, <1>3, <1>4, <2>1, <2>2, <2>3 DEF Discovery
<1>5. CASE ListCut
  BY <1>1, <1>3, <1>5 DEF ListCut, Discovery
<1>6. CASE ListFails
  <2>1. PICK answer \in Answers : d' = [WithError(Charged(d), answer) EXCEPT !.pc = "begin"]
    BY <1>6 DEF ListFails
  <2> DEFINE e == WithError(Charged(d), answer)
  <2>2. e \in Discovery /\ e.calls = d.calls + 1 /\ e.start = d.start /\ e.offset = d.offset
    BY <1>2, ErrorType, ErrorRest
  <2>3. asked' = asked \cup {ListPage}
    BY <1>6 DEF ListFails, Ask
  <2>4. d' = [e EXCEPT !.pc = "begin"]
    BY <2>1
  <2> HIDE DEF e
  <2>5. d'.pc = "begin" /\ d'.calls = d.calls + 1 /\ d'.start = d.start /\ d'.offset = d.offset
        /\ d'.window = e.window /\ d'.open = e.open
    BY <2>2, <2>4 DEF Discovery
  <2> QED  BY <1>3, <1>6, <2>3, <2>5 DEF e
<1> QED  BY <1>4, <1>5, <1>6 DEF List

\* The steps that read a page, and those that skip it.
LEMMA PageMoves ==
    ASSUME TypeOK, ReadPage \/ NoCallLeft
    PROVE  /\ d.pc = "page" /\ ~d.open /\ Place' = Place
           /\ d'.window = d.window /\ d'.open = d.open
           /\ \/ d'.pc = "endseed"
              \/ d'.pc = "page" /\ d'.phase = "following" /\ d'.page = 1 /\ d.phase = "followers"
              \/ d'.pc = "page" /\ d'.phase = d.phase /\ d'.page = d.page + 1
           /\ \/ asked' = asked \cup {ThisPage} /\ d'.calls = d.calls + 1
              \/ /\ asked' = asked /\ d'.calls = d.calls
                 /\ d'.pc = "endseed" \/ d'.phase # d.phase
<1>1. d \in Discovery
  BY DEF TypeOK
<1>2. Charged(d) \in Discovery /\ Charged(d).calls = d.calls + 1 /\ Charged(d).seeds = d.seeds
      /\ Charged(d).pc = d.pc /\ Charged(d).start = d.start /\ Charged(d).offset = d.offset
      /\ Charged(d).window = d.window /\ Charged(d).open = d.open
      /\ Charged(d).phase = d.phase /\ Charged(d).page = d.page
  BY <1>1, ChargedType, ChargedRest
<1>3. d.pc = "page" /\ ~d.open
  BY DEF ReadPage, NoCallLeft, ReadsPage
<1>4. ASSUME NEW disc \in Discovery, EmptyPage(disc), disc.pc = "page"
      PROVE  /\ <<d'.start, d'.offset, d'.seeds>> = <<disc.start, disc.offset, disc.seeds>>
             /\ d'.window = disc.window /\ d'.open = disc.open /\ d'.calls = disc.calls
             /\ \/ d'.pc = "endseed"
                \/ d'.pc = "page" /\ d'.phase = "following" /\ d'.page = 1 /\ d.phase = "followers"
  BY <1>4 DEF EmptyPage, Discovery
<1>5. CASE NoCallLeft
  <2>1. EmptyPage(d) /\ asked' = asked
    BY <1>5 DEF NoCallLeft
  <2> QED  BY <1>1, <1>3, <1>4, <2>1 DEF Place
<1>6. CASE ReadPage
  <2>1. asked' = asked \cup {ThisPage}
    BY <1>6 DEF ReadPage, Ask
  <2>2. CASE EmptyPage(Charged(d))
    BY <1>2, <1>3, <1>4, <2>1, <2>2 DEF Place
  <2>3. CASE ~EmptyPage(Charged(d))
    <3>1. PICK new \in 0..PerPage :
            d' = [Charged(d) EXCEPT !.page = Charged(d).page + 1,
                    !.found = IF Reached(Charged(d).found + new, Room)
                              THEN Room ELSE Charged(d).found + new]
      BY <1>6, <2>3 DEF ReadPage
    <3> DEFINE found == IF Reached(Charged(d).found + new, Room)
                        THEN Room ELSE Charged(d).found + new
               page == Charged(d).page + 1
    <3>2. d' = [Charged(d) EXCEPT !.page = page, !.found = found]
      BY <3>1
    <3>3. page = d.page + 1
      BY <1>2
    <3> HIDE DEF found, page
    <3>4. /\ <<d'.start, d'.offset, d'.seeds>> = <<d.start, d.offset, d.seeds>>
          /\ d'.window = d.window /\ d'.open = d.open /\ d'.calls = d.calls + 1
          /\ d'.pc = "page" /\ d'.phase = d.phase /\ d'.page = d.page + 1
      BY <1>2, <1>3, <3>2, <3>3 DEF Discovery
    <3> QED  BY <1>3, <2>1, <3>4 DEF Place
  <2> QED  BY <2>2, <2>3
<1> QED  BY <1>5, <1>6

LEMMA FailMoves ==
    ASSUME TypeOK, PageFails
    PROVE  /\ d.pc = "page" /\ ~d.open /\ Place' = Place /\ d'.pc = "endseed"
           /\ asked' = asked \cup {ThisPage} /\ d'.calls = d.calls + 1
           /\ \E answer \in Answers : /\ d'.window = WithError(Charged(d), answer).window
                                      /\ d'.open = WithError(Charged(d), answer).open
<1>1. d \in Discovery /\ Charged(d) \in Discovery
  BY ChargedType DEF TypeOK
<1>2. PICK answer \in Answers : d' = [WithError(Charged(d), answer) EXCEPT !.pc = "endseed"]
  BY DEF PageFails
<1> DEFINE e == WithError(Charged(d), answer)
<1>3. e \in Discovery /\ e.calls = d.calls + 1 /\ e.start = d.start /\ e.offset = d.offset
      /\ e.seeds = d.seeds
  BY <1>1, ChargedType, ChargedRest, ErrorType, ErrorRest
<1>4. d' = [e EXCEPT !.pc = "endseed"]
  BY <1>2
<1> HIDE DEF e
<1>5. d'.pc = "endseed" /\ d'.calls = d.calls + 1 /\ d'.start = d.start /\ d'.offset = d.offset
      /\ d'.seeds = d.seeds /\ d'.window = e.window /\ d'.open = e.open
  BY <1>3, <1>4 DEF Discovery
<1> QED  BY <1>5 DEF e, Place, PageFails, ReadsPage, Ask

\* The steps from seed to seed, and to the end of the run.
LEMMA SeedMoves ==
    ASSUME TypeOK, Begin \/ LeaveSeeds \/ OpenSeed \/ LeavePage \/ EndSeed \/ ReadOwnPage
    PROVE  /\ d'.window = d.window /\ d'.open = d.open /\ d'.seeds = d.seeds
           /\ ReadOwnPage \/ (asked' = asked /\ d'.calls = d.calls)
           /\ \/ Begin /\ d.pc = "begin" /\ d'.pc = "finish"
              \/ /\ Begin /\ d.pc = "begin" /\ d'.pc = "seed" /\ d'.offset = d.offset
                 /\ d'.start \in 0..(d.seeds - 1) /\ d.seeds > 0
              \/ LeaveSeeds /\ d.pc = "seed" /\ d'.pc = "fallback" /\ d'.page = 1
              \/ LeaveSeeds /\ d.pc = "seed" /\ d'.pc = "finish" /\ ~FallbackDue
              \/ /\ OpenSeed /\ d.pc = "seed" /\ d'.pc = "page" /\ Place' = Place
                 /\ ~d.open /\ d.offset # Iterations
              \/ LeavePage /\ d.pc = "page" /\ d'.pc = "endseed" /\ Place' = Place
              \/ /\ EndSeed /\ d.pc = "endseed" /\ d'.pc = "seed"
                 /\ d'.offset = d.offset + 1 /\ d'.start = d.start
              \/ /\ ReadOwnPage /\ d.pc = "fallback" /\ d'.pc \in {"fallback", "finish"}
                 /\ asked' = asked \cup {<<0, "own", d.page>>}
<1>1. d \in Discovery /\ d.seeds \in Nat
  BY DEF TypeOK, Discovery
<1>2. CASE Begin
  <2>1. CASE d.seeds = 0
    BY <1>1, <1>2, <2>1 DEF Begin, Discovery
  <2>2. CASE d.seeds # 0
    <3> DEFINE first == IF cursor.index \in 0..(d.seeds - 1) THEN cursor.index ELSE 0
    <3>1. first \in 0..(d.seeds - 1) /\ d.seeds > 0
      BY <1>1, <2>2
    <3>2. d' = [d EXCEPT !.pc = "seed", !.start = first] /\ asked' = asked /\ d.pc = "begin"
      BY <1>2, <2>2 DEF Begin
    <3> HIDE DEF first
    <3>3. d'.window = d.window /\ d'.open = d.open /\ d'.seeds = d.seeds /\ d'.calls = d.calls
          /\ d'.pc = "seed" /\ d'.start = first /\ d'.offset = d.offset
      BY <1>1, <3>2 DEF Discovery
    <3> QED  BY <1>2, <3>1, <3>2, <3>3
  <2> QED  BY <2>1, <2>2
<1>3. CASE LeaveSeeds
  BY <1>1, <1>3 DEF LeaveSeeds, Discovery
<1>4. CASE OpenSeed
  <2> DEFINE phase == IF cursor.phase \in Phases THEN cursor.phase ELSE "followers"
  <2>1. d' = [d EXCEPT !.pc = "page", !.found = 0, !.phase = phase, !.page = FirstPage]
        /\ asked' = asked /\ d.pc = "seed" /\ ~d.open /\ d.offset # Iterations
    BY <1>4 DEF OpenSeed, SeedsDone
  <2> HIDE DEF phase
  <2>2. d'.window = d.window /\ d'.open = d.open /\ d'.seeds = d.seeds /\ d'.calls = d.calls
        /\ d'.pc = "page" /\ d'.start = d.start /\ d'.offset = d.offset
    BY <1>1, <2>1 DEF Discovery
  <2> QED  BY <1>4, <2>1, <2>2 DEF Place
<1>5. CASE LeavePage
  BY <1>1, <1>5 DEF LeavePage, Discovery, Place
<1>6. CASE EndSeed
  BY <1>1, <1>6 DEF EndSeed, Discovery
<1>7. CASE ReadOwnPage
  BY <1>1, <1>7 DEF ReadOwnPage, OwnPage, Ask, Discovery
<1> QED  BY <1>2, <1>3, <1>4, <1>5, <1>6, <1>7

\* The steps that leave no run in progress.
LEMMA OverMoves ==
    ASSUME Finish \/ Raise \/ Crash
    PROVE  d' = Fresh
BY DEF Finish, Raise, Crash, Over

-----------------------------------------------------------------------------

\* A step that records no error and keeps the breaker where it is.
LEMMA Unrecorded ==
    ASSUME Guarded, d'.window = d.window, d'.open = d.open,
           d.open => d'.pc \in {"begin", "seed", "endseed", "fallback", "finish"}
    PROVE  BreakerOK' /\ BreakerCutsOff'
BY DEF Guarded, BreakerOK, BreakerCutsOff, Times

LEMMA Recorded ==
    ASSUME Guarded, TypeOK, ~d.open, d'.pc \in {"begin", "endseed"}, NEW answer \in Answers,
           d'.window = WithError(Charged(d), answer).window,
           d'.open = WithError(Charged(d), answer).open
    PROVE  /\ BreakerOK' /\ BreakerCutsOff'
           /\ Threshold > 1 /\ d.window = <<>> => ~d'.open
<1>1. Charged(d) \in Discovery /\ Charged(d).window = d.window /\ Charged(d).open = d.open
  BY ChargedType, ChargedRest DEF TypeOK
<1>2. \A kind \in Kinds : Times(kind, d.window) < Threshold
  BY DEF Guarded, BreakerOK
<1> DEFINE e == WithError(Charged(d), answer)
<1>3. /\ ~e.open => \A kind \in Kinds : Times(kind, e.window) < Threshold
      /\ \A kind \in Kinds : Times(kind, e.window) <= Threshold
      /\ Threshold > 1 /\ d.window = <<>> => ~e.open
  BY <1>1, <1>2, ErrorTrips
<1> HIDE DEF e
<1>4. d'.window = e.window /\ d'.open = e.open
  BY DEF e
<1> QED  BY <1>3, <1>4 DEF BreakerOK, BreakerCutsOff, Kinds, Times

LEMMA FreshGuarded ==
    ASSUME d'.pc \in {"idle", "list"}, d'.window = <<>>, ~d'.open
    PROVE  Guarded'
<1>1. \A kind \in Kinds : Times(kind, d'.window) < Threshold /\ Times(kind, d'.window) <= Threshold
  BY TimesNone, BreakerAssumption
<1> QED  BY <1>1 DEF Guarded, BreakerOK, BreakerCutsOff, FallbackOK, FallbackHappens, Kinds, Times

LEMMA GuardedKept ==
    ASSUME TypeOK, Guarded, [Next]_vars
    PROVE  Guarded'
<1>1. CASE Start
  <2>1. d'.pc = "list" /\ d'.window = <<>> /\ ~d'.open
    BY <1>1 DEF Start, Fresh
  <2> QED  BY <2>1, FreshGuarded
<1>2. CASE List
  <2>1. d.pc = "list" /\ ~d.open /\ d.window = <<>>
    BY <1>2, ListMoves DEF Guarded, BreakerOK, FallbackOK
  <2>2. ASSUME d'.window = d.window, d'.open = d.open, d'.pc \in {"list", "begin"}
        PROVE  Guarded'
    <3>1. BreakerOK' /\ BreakerCutsOff'
      BY <2>1, <2>2, Unrecorded
    <3> QED  BY <2>1, <2>2, <3>1 DEF Guarded, FallbackOK, FallbackHappens
  <2>3. ASSUME NEW answer \in Answers, d'.pc = "begin",
               d'.window = WithError(Charged(d), answer).window,
               d'.open = WithError(Charged(d), answer).open
        PROVE  Guarded'
    <3>1. BreakerOK' /\ BreakerCutsOff' /\ (Threshold > 1 => ~d'.open)
      BY <2>1, <2>3, Recorded
    <3> QED  BY <2>3, <3>1 DEF Guarded, FallbackOK, FallbackHappens
  <2> QED  BY <1>2, <2>2, <2>3, ListMoves
<1>3. CASE ReadPage \/ NoCallLeft
  <2>1. d'.window = d.window /\ d'.open = d.open /\ d'.pc \in {"page", "endseed"} /\ ~d.open
    BY <1>3, PageMoves
  <2>2. BreakerOK' /\ BreakerCutsOff'
    BY <2>1, Unrecorded
  <2> QED  BY <2>1, <2>2 DEF Guarded, FallbackOK, FallbackHappens
<1>4. CASE PageFails
  <2>1. d'.pc = "endseed" /\ ~d.open
    BY <1>4, FailMoves
  <2>2. BreakerOK' /\ BreakerCutsOff'
    BY <1>4, <2>1, FailMoves, Recorded
  <2> QED  BY <2>1, <2>2 DEF Guarded, FallbackOK, FallbackHappens
<1>5. CASE Begin \/ LeaveSeeds \/ OpenSeed \/ LeavePage \/ EndSeed \/ ReadOwnPage
  <2>1. d'.window = d.window /\ d'.open = d.open
        /\ (d.open => d'.pc \in {"begin", "seed", "endseed", "fallback", "finish"})
        /\ d'.pc \notin {"idle", "list", "begin"}
    BY <1>5, SeedMoves
  <2>2. BreakerOK' /\ BreakerCutsOff'
    BY <2>1, Unrecorded
  <2>3. d'.pc = "fallback" => d'.page = 1 \/ <<0, "own", 1>> \in asked'
    <3>1. CASE ReadOwnPage
      BY <1>5, <3>1, SeedMoves DEF Guarded, FallbackOK
    <3>2. CASE ~ReadOwnPage
      BY <1>5, <3>2, SeedMoves
    <3> QED  BY <3>1, <3>2
  <2>4. Threshold > 1 => FallbackHappens'
    <3> SUFFICES ASSUME Threshold > 1, d'.pc = "finish", d'.open, Fallback
                 PROVE  <<0, "own", 1>> \in asked'
      BY DEF FallbackHappens
    <3>1. d.open /\ ~Begin
      BY <2>1 DEF Begin, Guarded, FallbackOK
    <3>2. ReadOwnPage /\ d.pc = "fallback" /\ asked' = asked \cup {<<0, "own", d.page>>}
      BY <1>5, <3>1, SeedMoves DEF FallbackDue
    <3> QED  BY <3>2 DEF Guarded, FallbackOK
  <2> QED  BY <2>1, <2>2, <2>3, <2>4 DEF Guarded, FallbackOK
<1>6. CASE Finish \/ Raise \/ Crash
  <2>1. d'.pc = "idle" /\ d'.window = <<>> /\ ~d'.open
    BY <1>6, OverMoves DEF Fresh
  <2> QED  BY <2>1, FreshGuarded
<1>7. CASE Refollow \/ UNCHANGED vars
  <2>1. d' = d /\ asked' = asked
    BY <1>7 DEF Refollow, vars
  <2> QED  BY <2>1 DEF Guarded, BreakerOK, BreakerCutsOff, FallbackOK, FallbackHappens, Times
<1> QED  BY <1>1, <1>2, <1>3, <1>4, <1>5, <1>6, <1>7 DEF Next, Step, Seeds, ReadSeed

\* Guarded says what the breaker and the fallback rely on, step by step.
THEOREM DiscoveryGuarded == Spec => []Guarded
<1>1. Init => Guarded
  <2> SUFFICES ASSUME Init PROVE Guarded
    OBVIOUS
  <2>1. d.pc = "idle" /\ d.window = <<>> /\ ~d.open
    BY DEF Init, Fresh
  <2>2. \A kind \in Kinds : Times(kind, d.window) < Threshold /\ Times(kind, d.window) <= Threshold
    BY <2>1, TimesNone, BreakerAssumption
  <2> QED  BY <2>1, <2>2 DEF Guarded, BreakerOK, BreakerCutsOff, FallbackOK, FallbackHappens, Kinds
<1>2. Sound => TypeOK
  BY DEF Sound, Core
<1> QED  BY <1>1, <1>2, GuardedKept, DiscoverySound, PTL DEF Spec

\* No kind of error is ever counted beyond the threshold: what opens the breaker
\* is the error that reaches it, and no request follows (_record_expand_error).
THEOREM BreakerHolds == Spec => []BreakerCutsOff
<1>1. Guarded => BreakerCutsOff
  BY DEF Guarded
<1> QED  BY <1>1, DiscoveryGuarded, PTL

\* A run whose breaker opened has read one's own followers when it ends, unless
\* one error is enough to open it (the end of _discover_candidates).
THEOREM FallbackFollows == ASSUME Threshold > 1 PROVE Spec => []FallbackHappens
<1>1. Guarded => FallbackHappens
  BY DEF Guarded
<1> QED  BY <1>1, DiscoveryGuarded, PTL

-----------------------------------------------------------------------------
(* Every page is asked for once.                                           *)

\* The seed that a run comes to after k others.
SeedAt(k) == following[((d.start + k) % d.seeds) + 1]

\* No account is listed twice.
Distinct == \A i, j \in DOMAIN following : following[i] = following[j] => i = j

Charging == d.pc \notin {"idle", "fallback", "finish"} =>
               IsFiniteSet(asked) /\ d.calls = Cardinality(asked)

Listing == /\ d.pc \in {"idle", "list", "begin"} => d.offset = 0
           /\ d.pc \in {"list", "begin"} => \A p \in asked : p[1] = 0
           /\ d.pc = "list" => \A p \in asked : p[3] <= d.seeds

Around == d.pc \in {"seed", "page", "endseed"} =>
             /\ d.start < d.seeds
             /\ d.offset <= Iterations
             /\ d.pc # "seed" => d.offset < Iterations

\* The seeds still to come have not been asked for anything.
Ahead(k) == IF d.pc = "seed" THEN k >= d.offset ELSE k > d.offset
Unasked == d.pc \in {"seed", "page", "endseed"} =>
             \A p \in asked, k \in 0..(d.seeds - 1) : Ahead(k) => p[1] # SeedAt(k)

\* Of the seed at hand, only what comes before the page at hand has been asked for.
InSeed == d.pc = "page" => \A p \in asked : p[1] = Seed =>
             \/ p[2] = d.phase /\ p[3] < d.page
             \/ p[2] = "followers" /\ d.phase = "following"

Frugal == Distinct /\ Charging /\ Listing /\ Around /\ Unasked /\ InSeed

LEMMA RemaindersDiffer ==
    ASSUME NEW n \in Nat \ {0}, NEW a \in Nat, NEW b \in Nat, a < b, b < a + n
    PROVE  a % n # b % n
<1> SUFFICES ASSUME a % n = b % n PROVE FALSE
  OBVIOUS
<1> DEFINE q == a \div n
           r == b \div n
<1>1. q \in Int /\ r \in Int /\ a = n * q + (a % n) /\ b = n * r + (b % n)
  OBVIOUS
<1>2. a % n \in Nat
  OBVIOUS
<1> HIDE DEF q, r
<1>3. b - a = n * r - n * q
  BY <1>1, <1>2
<1>4. CASE r <= q
  <2>1. n * r <= n * q
    BY <1>1, <1>4
  <2> QED  BY <1>1, <1>3, <2>1
<1>5. CASE r >= q + 1
  <2>1. n * r >= n * (q + 1)
    BY <1>1, <1>5
  <2>2. n * (q + 1) = n * q + n
    BY <1>1
  <2> QED  BY <1>1, <1>3, <2>1, <2>2
<1> QED  BY <1>1, <1>4, <1>5

\* A run comes to every seed once.
LEMMA SeedsApart ==
    ASSUME TypeOK, Bounded, Distinct, d.seeds > 0,
           NEW k \in 0..(d.seeds - 1), NEW l \in 0..(d.seeds - 1), k < l
    PROVE  SeedAt(k) # SeedAt(l)
<1>1. d.seeds \in Nat \ {0} /\ d.start + k \in Nat /\ d.start + l \in Nat
      /\ d.start + k < d.start + l /\ d.start + l < d.start + k + d.seeds
  BY DEF TypeOK, Discovery
<1> DEFINE i == (d.start + k) % d.seeds
           j == (d.start + l) % d.seeds
<1>2. i # j
  BY <1>1, RemaindersDiffer
<1>3. i \in 0..(d.seeds - 1) /\ j \in 0..(d.seeds - 1)
  BY <1>1, Remainder
<1> HIDE DEF i, j
<1>4. i + 1 \in 1..Len(following) /\ j + 1 \in 1..Len(following) /\ i + 1 # j + 1
  BY <1>1, <1>2, <1>3 DEF Bounded, NSeeds, TypeOK
<1>5. DOMAIN following = 1..Len(following)
  BY DEF TypeOK
<1> QED  BY <1>4, <1>5 DEF Distinct, SeedAt, i, j

LEMMA IterationsType ==
    ASSUME TypeOK
    PROVE  /\ Iterations \in Nat /\ Iterations <= d.seeds
           /\ d'.seeds = d.seeds => Iterations' = Iterations
BY LimitsType DEF Iterations, Reached, TypeOK, Discovery

LEMMA PlaceKept ==
    ASSUME TypeOK, Place' = Place, UNCHANGED following
    PROVE  /\ \A k : SeedAt(k)' = SeedAt(k)
           /\ Seed' = Seed /\ Iterations' = Iterations
           /\ d'.seeds = d.seeds /\ d'.offset = d.offset /\ d'.start = d.start
BY DEF Place, SeedAt, Seed, Index, Iterations

LEMMA OneMore ==
    ASSUME IsFiniteSet(asked), d.calls = Cardinality(asked), NEW page, page \notin asked,
           asked' = asked \cup {page}, d'.calls = d.calls + 1
    PROVE  Charging'
<1>1. IsFiniteSet(asked') /\ Cardinality(asked') = Cardinality(asked) + 1
  BY FS_AddElement
<1> QED  BY <1>1 DEF Charging

LEMMA FrugalList ==
    ASSUME TypeOK, TypeOK', Frugal, UNCHANGED following, List
    PROVE  Frugal'
<1>1. d.pc = "list" /\ d'.offset = 0 /\ d.seeds \in Nat /\ d'.pc \in {"list", "begin"}
  BY ListMoves DEF Frugal, Listing, TypeOK, Discovery
<1>2. /\ \A p \in asked : p[1] = 0 /\ p[3] <= d.seeds
      /\ IsFiniteSet(asked) /\ d.calls = Cardinality(asked)
  BY <1>1 DEF Frugal, Listing, Charging
<1>3. Distinct' /\ Around' /\ Unasked' /\ InSeed'
  BY <1>1 DEF Frugal, Distinct, Around, Unasked, InSeed
<1>4. CASE ListCut
  BY <1>1, <1>2, <1>3, <1>4, ListMoves DEF Frugal, Charging, Listing, ListCut
<1>5. CASE ~ListCut
  <2>1. asked' = asked \cup {ListPage} /\ d'.calls = d.calls + 1
        /\ (d'.pc = "list" => d.seeds < d'.seeds)
    BY <1>5, ListMoves
  <2>2. ListPage[1] = 0 /\ ListPage[3] = d.seeds + 1
    BY DEF ListPage
  <2>3. ListPage \notin asked
    BY <1>1, <1>2, <2>2
  <2>4. Charging'
    BY <1>2, <2>1, <2>3, OneMore
  <2>5. ASSUME d'.pc = "list", NEW p \in asked' PROVE p[3] <= d'.seeds
    <3>1. d'.seeds \in Nat /\ d.seeds + 1 <= d'.seeds
      <4>1. d' \in Discovery
        BY DEF TypeOK
      <4> QED  BY <1>1, <2>1, <2>5, <4>1 DEF Discovery
    <3>2. CASE p = ListPage
      BY <2>2, <3>1, <3>2
    <3>3. CASE p \in asked
      <4>1. p \in Page /\ p[3] \in Int
        BY <3>3 DEF TypeOK, Page
      <4> QED  BY <1>1, <1>2, <3>1, <3>3, <4>1
    <3> QED  BY <2>1, <3>2, <3>3
  <2>6. Listing'
    BY <1>1, <1>2, <2>1, <2>2, <2>5 DEF Listing
  <2> QED  BY <1>3, <2>4, <2>6 DEF Frugal
<1> QED  BY <1>4, <1>5

\* Of a seed that is read or left, nothing is asked for twice.
LEMMA FrugalPage ==
    ASSUME TypeOK, Bounded, Listed, Frugal, UNCHANGED following,
           ReadPage \/ NoCallLeft \/ PageFails
    PROVE  Frugal'
<1>1. /\ d.pc = "page" /\ Place' = Place
      /\ \/ d'.pc = "endseed"
         \/ d'.pc = "page" /\ d'.phase = "following" /\ d'.page = 1 /\ d.phase = "followers"
         \/ d'.pc = "page" /\ d'.phase = d.phase /\ d'.page = d.page + 1
      /\ \/ asked' = asked \cup {ThisPage} /\ d'.calls = d.calls + 1
         \/ /\ asked' = asked /\ d'.calls = d.calls
            /\ d'.pc = "endseed" \/ d'.phase # d.phase
  <2>1. CASE ReadPage \/ NoCallLeft
    BY <2>1, PageMoves
  <2>2. CASE PageFails
    BY <2>2, FailMoves
  <2> QED  BY <2>1, <2>2
<1>2. /\ \A k : SeedAt(k)' = SeedAt(k)
      /\ Seed' = Seed /\ Iterations' = Iterations
      /\ d'.seeds = d.seeds /\ d'.offset = d.offset /\ d'.start = d.start
  BY <1>1, PlaceKept
<1>3. /\ d.seeds > 0 /\ d.seeds \in Nat /\ d.offset \in Nat /\ d.page \in Nat
      /\ d.phase \in {"followers", "following"}
      /\ IsFiniteSet(asked) /\ d.calls = Cardinality(asked)
      /\ d.start < d.seeds /\ d.offset < Iterations /\ Iterations \in Nat /\ Iterations <= d.seeds
  BY <1>1, IterationsType DEF Frugal, Charging, Around, Listed, TypeOK, Discovery, Phases
<1>4. Seed = SeedAt(d.offset)
  BY DEF Seed, Index, SeedAt
<1>5. ThisPage[1] = Seed /\ ThisPage[2] = d.phase /\ ThisPage[3] = d.page
  BY DEF ThisPage
<1>6. \A p \in asked : p[1] = Seed =>
             \/ p[2] = d.phase /\ p[3] < d.page
             \/ p[2] = "followers" /\ d.phase = "following"
  BY <1>1 DEF Frugal, InSeed
<1>7. \A p \in asked, k \in 0..(d.seeds - 1) : k > d.offset => p[1] # SeedAt(k)
  BY <1>1 DEF Frugal, Unasked, Ahead
<1>8. \A k \in 0..(d.seeds - 1) : k > d.offset => SeedAt(k) # Seed
  <2> SUFFICES ASSUME NEW k \in 0..(d.seeds - 1), k > d.offset PROVE SeedAt(k) # Seed
    OBVIOUS
  <2>1. d.offset \in 0..(d.seeds - 1)
    BY <1>3
  <2> QED  BY <1>3, <1>4, <2>1, SeedsApart DEF Frugal
<1>9. ThisPage \notin asked
  BY <1>3, <1>5, <1>6
<1>10. Charging'
  BY <1>3, <1>1, <1>9, OneMore DEF Charging
<1>11. Unasked'
  <2>1. ASSUME NEW p \in asked', NEW k \in 0..(d.seeds - 1), k > d.offset
        PROVE  p[1] # SeedAt(k)
    BY <1>1, <1>5, <1>7, <1>8, <2>1
  <2> QED  BY <1>1, <1>2, <2>1 DEF Unasked, Ahead
<1>12. InSeed'
  <2> SUFFICES ASSUME d'.pc = "page", NEW p \in asked', p[1] = Seed
               PROVE  \/ p[2] = d'.phase /\ p[3] < d'.page
                      \/ p[2] = "followers" /\ d'.phase = "following"
    BY <1>2 DEF InSeed
  <2>1. CASE d'.phase = "following" /\ d'.page = 1 /\ d.phase = "followers"
    BY <1>1, <1>5, <1>6, <2>1
  <2>2. CASE d'.phase = d.phase /\ d'.page = d.page + 1
    <3>1. p[3] < d.page => p[3] < d.page + 1
      <4>1. p \in asked => p[3] \in Int
        BY DEF TypeOK, Page
      <4>2. p = ThisPage => p[3] \in Int
        BY <1>3, <1>5
      <4> QED  BY <1>1, <1>3, <4>1, <4>2
    <3>2. d.page < d.page + 1
      BY <1>3
    <3> QED  BY <1>1, <1>5, <1>6, <2>2, <3>1, <3>2
  <2> QED  BY <1>1, <2>1, <2>2
<1>13. Distinct' /\ Listing' /\ Around'
  BY <1>1, <1>2, <1>3 DEF Frugal, Distinct, Listing, Around
<1> QED  BY <1>10, <1>11, <1>12, <1>13 DEF Frugal

LEMMA SeedAtPrimed ==
    ASSUME TypeOK', Bounded', d'.seeds > 0, NEW k \in Nat
    PROVE  SeedAt(k)' # 0
<1>1. d' \in Discovery /\ following' \in Seq(DOMAIN Pages)
  BY DEF TypeOK
<1>2. d'.seeds \in Nat \ {0} /\ d'.start + k \in Nat
  BY <1>1 DEF Discovery
<1>3. (d'.start + k) % d'.seeds \in 0..(d'.seeds - 1)
  BY <1>2, Remainder
<1>4. ((d'.start + k) % d'.seeds) + 1 \in 1..Len(following')
  BY <1>1, <1>2, <1>3 DEF Bounded, NSeeds
<1>5. SeedAt(k)' \in DOMAIN Pages
  BY <1>1, <1>4 DEF SeedAt
<1>6. 0 \notin DOMAIN Pages
  BY SeedsAssumption, FS_CardinalityType
<1> QED  BY <1>5, <1>6

LEMMA FrugalSeeds ==
    ASSUME TypeOK, Bounded, Listed, Frugal, TypeOK', Bounded', UNCHANGED following,
           Begin \/ LeaveSeeds \/ OpenSeed \/ LeavePage \/ EndSeed \/ ReadOwnPage
    PROVE  Frugal'
<1>1. Distinct'
  BY DEF Frugal, Distinct
<1>2. d.offset \in Nat /\ d.start \in Nat /\ d.seeds \in Nat /\ d'.seeds = d.seeds
      /\ Iterations \in Nat /\ Iterations <= d.seeds /\ Iterations' = Iterations
  BY IterationsType, SeedMoves DEF TypeOK, Discovery
<1>3. CASE d'.pc \in {"fallback", "finish"}
  BY <1>1, <1>3 DEF Frugal, Charging, Listing, Around, Unasked, InSeed
<1>4. CASE /\ Begin /\ d.pc = "begin" /\ d'.pc = "seed" /\ d'.offset = d.offset
           /\ d'.start \in 0..(d.seeds - 1) /\ d.seeds > 0
  <2>1. asked' = asked /\ d'.calls = d.calls /\ d.offset = 0 /\ \A p \in asked : p[1] = 0
    BY <1>4, SeedMoves DEF ReadOwnPage, Frugal, Listing
  <2>2. \A k \in Nat : SeedAt(k)' # 0
    <3> SUFFICES ASSUME NEW k \in Nat PROVE SeedAt(k)' # 0
      OBVIOUS
    <3>1. d'.seeds > 0
      BY <1>2, <1>4
    <3> QED  BY <3>1, SeedAtPrimed
  <2>3. Unasked'
    BY <1>2, <2>1, <2>2 DEF Unasked
  <2>4. Charging'
    BY <1>4, <2>1 DEF Frugal, Charging
  <2>5. Listing' /\ InSeed'
    BY <1>4 DEF Listing, InSeed
  <2>6. Around'
    BY <1>2, <1>4, <2>1 DEF Around
  <2> QED  BY <1>1, <2>3, <2>4, <2>5, <2>6 DEF Frugal
<1>5. CASE \/ OpenSeed /\ d.pc = "seed" /\ d'.pc = "page" /\ ~d.open /\ d.offset # Iterations
           \/ LeavePage /\ d.pc = "page" /\ d'.pc = "endseed"
  <2>1. asked' = asked /\ d'.calls = d.calls /\ Place' = Place
    BY <1>5, SeedMoves DEF OpenSeed, LeavePage, ReadOwnPage, Begin, LeaveSeeds, EndSeed
  <2>2. /\ \A k : SeedAt(k)' = SeedAt(k)
        /\ Seed' = Seed /\ d'.offset = d.offset /\ d'.start = d.start
    BY <2>1, PlaceKept
  <2>3. d.offset < Iterations
    BY <1>2, <1>5 DEF Frugal, Around
  <2>4. Around' /\ Charging' /\ Listing'
    BY <1>2, <1>5, <2>1, <2>2, <2>3 DEF Frugal, Around, Charging, Listing
  <2>5. \A p \in asked, k \in 0..(d.seeds - 1) : k > d.offset => p[1] # SeedAt(k)
    BY <1>2, <1>5 DEF Frugal, Unasked, Ahead
  <2>6. Unasked'
    BY <1>2, <1>5, <2>1, <2>2, <2>5 DEF Unasked, Ahead
  <2>7. InSeed'
    <3>1. CASE d'.pc = "page"
      <4>1. d.pc = "seed" /\ d.offset \in 0..(d.seeds - 1)
        BY <1>2, <1>5, <2>3, <3>1
      <4>2. \A p \in asked : p[1] # SeedAt(d.offset)
        BY <1>2, <4>1 DEF Frugal, Unasked, Ahead
      <4>3. Seed = SeedAt(d.offset)
        BY DEF Seed, Index, SeedAt
      <4> QED  BY <2>1, <2>2, <4>2, <4>3 DEF InSeed
    <3>2. CASE d'.pc # "page"
      BY <3>2 DEF InSeed
    <3> QED  BY <3>1, <3>2
  <2> QED  BY <1>1, <2>4, <2>6, <2>7 DEF Frugal
<1>6. CASE /\ EndSeed /\ d.pc = "endseed" /\ d'.pc = "seed"
           /\ d'.offset = d.offset + 1 /\ d'.start = d.start
  <2>1. asked' = asked /\ d'.calls = d.calls
    BY <1>6, SeedMoves DEF EndSeed, ReadOwnPage
  <2>2. \A k : SeedAt(k)' = SeedAt(k)
    BY <1>2, <1>6 DEF SeedAt
  <2>3. \A p \in asked, k \in 0..(d.seeds - 1) : k > d.offset => p[1] # SeedAt(k)
    BY <1>2, <1>6 DEF Frugal, Unasked, Ahead
  <2>4. Unasked'
    BY <1>2, <1>6, <2>1, <2>2, <2>3 DEF Unasked, Ahead
  <2>5. d.offset < Iterations /\ d.start < d.seeds
    BY <1>6 DEF Frugal, Around
  <2>6. Around'
    BY <1>2, <1>6, <2>5 DEF Around
  <2>7. Charging' /\ Listing' /\ InSeed'
    BY <1>6, <2>1 DEF Frugal, Charging, Listing, InSeed
  <2> QED  BY <1>1, <2>4, <2>6, <2>7 DEF Frugal
<1> QED  BY <1>3, <1>4, <1>5, <1>6, SeedMoves

\* The list between two runs: an account is added that is not on it, or one goes.
LEMMA DistinctKept ==
    ASSUME following \in Seq(DOMAIN Pages), Distinct, Refollow
    PROVE  Distinct'
<1> DEFINE n == Len(following)
<1>1. n \in Nat /\ DOMAIN following = 1..n
  OBVIOUS
<1>2. ASSUME NEW s \in DOMAIN Pages \ {following[i] : i \in DOMAIN following},
             following' = <<s>> \o following
      PROVE  Distinct'
  <2>1. /\ DOMAIN following' = 1..(n + 1) /\ following'[1] = s
        /\ \A i \in 2..(n + 1) : following'[i] = following[i - 1] /\ i - 1 \in 1..n
    BY <1>1, <1>2
  <2>2. \A i \in 1..n : following[i] # s
    BY <1>1, <1>2
  <2>3. \A i \in 1..(n + 1) : i = 1 \/ i \in 2..(n + 1)
    BY <1>1
  <2> HIDE DEF n
  <2>4. ASSUME NEW i \in 1..(n + 1), NEW j \in 1..(n + 1), following'[i] = following'[j]
        PROVE  i = j
    <3>1. CASE i \in 2..(n + 1) /\ j \in 2..(n + 1)
      <4>1. following[i - 1] = following[j - 1] /\ i - 1 \in 1..n /\ j - 1 \in 1..n
        BY <2>1, <2>4, <3>1
      <4>2. i - 1 = j - 1
        BY <1>1, <4>1 DEF Distinct
      <4> QED  BY <1>1, <4>2
    <3>2. CASE i = 1 /\ j \in 2..(n + 1)
      BY <2>1, <2>2, <2>4, <3>2
    <3>3. CASE j = 1 /\ i \in 2..(n + 1)
      BY <2>1, <2>2, <2>4, <3>3
    <3> QED  BY <2>3, <3>1, <3>2, <3>3
  <2> QED  BY <2>1, <2>4 DEF Distinct
<1>3. ASSUME NEW m \in DOMAIN following,
             following' = SubSeq(following, 1, m - 1) \o SubSeq(following, m + 1, Len(following))
      PROVE  Distinct'
  <2> DEFINE old(i) == IF i < m THEN i ELSE i + 1
  <2>1. m \in 1..n
    BY <1>1
  <2>2. DOMAIN following' = 1..(n - 1)
        /\ \A i \in 1..(n - 1) : following'[i] = following[old(i)] /\ old(i) \in 1..n
    <3> DEFINE A == SubSeq(following, 1, m - 1)
               B == SubSeq(following, m + 1, n)
    <3>1. /\ A \in Seq(DOMAIN Pages) /\ Len(A) = m - 1
          /\ \A i \in 1..(m - 1) : A[i] = following[i]
      BY <2>1
    <3>2. /\ B \in Seq(DOMAIN Pages) /\ Len(B) = n - m
          /\ \A i \in 1..(n - m) : B[i] = following[m + i]
      BY <2>1
    <3>3. following' = A \o B
      BY <1>3
    <3> HIDE DEF A, B, n
    <3>4. DOMAIN following' = 1..(n - 1)
      BY <1>1, <2>1, <3>1, <3>2, <3>3
    <3>5. ASSUME NEW i \in 1..(n - 1)
          PROVE  following'[i] = following[old(i)] /\ old(i) \in 1..n
      <4>1. CASE i < m
        <5>1. i \in 1..(m - 1) /\ i \in 1..n /\ old(i) = i
          BY <1>1, <2>1, <4>1
        <5>2. following'[i] = A[i]
          BY <1>1, <2>1, <3>1, <3>2, <3>3, <5>1
        <5>3. A[i] = following[i]
          BY <3>1, <5>1
        <5> HIDE DEF old
        <5> QED  BY <5>1, <5>2, <5>3
      <4>2. CASE ~(i < m)
        <5>1. i - (m - 1) \in 1..(n - m) /\ m + (i - (m - 1)) = i + 1
          BY <1>1, <2>1, <4>2
        <5>2. i \in 1..(Len(A) + Len(B)) /\ i > Len(A) /\ i - Len(A) = i - (m - 1)
          BY <1>1, <2>1, <3>1, <3>2, <4>2
        <5>3. (A \o B)[i] = B[i - Len(A)]
          BY <3>1, <3>2, <5>2
        <5>4. following'[i] = B[i - (m - 1)]
          BY <3>3, <5>2, <5>3
        <5>5. B[i - (m - 1)] = following[i + 1]
          BY <3>2, <5>1
        <5>6. old(i) = i + 1 /\ i + 1 \in 1..n
          BY <1>1, <2>1, <4>2
        <5> HIDE DEF old
        <5> QED  BY <5>4, <5>5, <5>6
      <4> QED  BY <4>1, <4>2
    <3> QED  BY <3>4, <3>5
  <2>3. ASSUME NEW i \in 1..(n - 1), NEW j \in 1..(n - 1), old(i) = old(j)
        PROVE  i = j
    BY <1>1, <2>1, <2>3
  <2> HIDE DEF n, old
  <2> QED  BY <1>1, <2>2, <2>3 DEF Distinct
<1> QED  BY <1>2, <1>3 DEF Refollow

LEMMA FrugalKept ==
    ASSUME Sound, Frugal, Sound', [Next]_vars
    PROVE  Frugal'
<1> USE DEF Sound, Core
<1>1. CASE Start
  <2>1. d'.pc = "list" /\ d'.calls = 0 /\ d'.offset = 0 /\ asked' = {} /\ following' = following
    BY <1>1 DEF Start, Fresh
  <2> QED  BY <2>1, FS_EmptySet
           DEF Frugal, Distinct, Charging, Listing, Around, Unasked, InSeed
<1>2. CASE List
  <2>1. UNCHANGED following
    BY <1>2, LimitKept DEF Step
  <2> QED  BY <1>2, <2>1, FrugalList
<1>3. CASE ReadPage \/ NoCallLeft \/ PageFails
  <2>1. UNCHANGED following
    BY <1>3, LimitKept DEF Step, Seeds, ReadSeed
  <2> QED  BY <1>3, <2>1, FrugalPage
<1>4. CASE Begin \/ LeaveSeeds \/ OpenSeed \/ LeavePage \/ EndSeed \/ ReadOwnPage
  <2>1. UNCHANGED following
    BY <1>4, LimitKept DEF Step, Seeds, ReadSeed
  <2> QED  BY <1>4, <2>1, FrugalSeeds
<1>5. CASE Finish \/ Raise \/ Crash
  <2>1. d'.pc = "idle" /\ d'.offset = 0 /\ following' = following
    BY <1>5, OverMoves, LimitKept DEF Fresh, Step
  <2> QED  BY <2>1 DEF Frugal, Distinct, Charging, Listing, Around, Unasked, InSeed
<1>6. CASE Refollow
  <2>1. Distinct' /\ d' = d /\ d.pc = "idle"
    BY <1>6, DistinctKept DEF Frugal, TypeOK, Refollow
  <2> QED  BY <2>1 DEF Frugal, Charging, Listing, Around, Unasked, InSeed
<1>7. CASE UNCHANGED vars
  BY <1>7 DEF vars, Frugal, Distinct, Charging, Listing, Around, Unasked, InSeed, Ahead, SeedAt,
       Seed, Index, Iterations
<1> QED  BY <1>1, <1>2, <1>3, <1>4, <1>5, <1>6, <1>7 DEF Next, Step, Seeds, ReadSeed

\* No call is spent on a page that the run has asked for before, wherever the
\* cursor makes it start and however the seeds are left
\* (_discover_candidates_from_expand_seed).
THEOREM CallsWellSpent == Spec => []NoCallIsWasted
<1>1. Init => Frugal
  BY SeedsAssumption DEF Init, Fresh, Frugal, Distinct, Charging, Listing, Around, Unasked, InSeed
<1>2. Frugal => NoCallIsWasted
  BY DEF Frugal, Charging, NoCallIsWasted
<1> QED  BY <1>1, <1>2, FrugalKept, DiscoverySound, PTL DEF Spec

=============================================================================
