------------------------ MODULE LegacyMigrationProofs ------------------------
(***************************************************************************)
(* LegacyMigration for any number of processes and files, whatever stands  *)
(* in them: types, no account forgotten without a failure, and what two    *)
(* imports that race may do to each other.                                 *)
(***************************************************************************)
EXTENDS LegacyMigration, TLAPS

Importing == {"look", "read", "line", "archive", "mark", "commit"}

\* The accounts of a file are in the rows F or in the transaction of record r.
Has(r, f, F) == Names(f) \subseteq F \cup r.rows

\* What an import with record r has dealt with, F being the committed rows and S
\* the state of the files: every file before the one at hand is gone or written,
\* and of the file at hand every name before the next.
ProcOK(r, F, S) ==
    /\ r \in Process
    /\ r.file >= 1
    /\ r.pc \in Importing => \A f \in Files : f < r.file => S[f] # "present" \/ Has(r, f, F)
    /\ r.pc \in {"look", "read"} => r.line = 1
    /\ r.pc \in {"read", "line", "archive"} => r.file \in Files
    /\ r.pc = "line" => /\ r.line \in 1..Len(content[r.file])
                        /\ \A j \in 1..Len(content[r.file]) :
                             j < r.line => content[r.file][j] \in F \cup r.rows
    /\ r.pc = "archive" => Has(r, r.file, F)
    /\ r.pc \in {"mark", "commit"} => r.file > NFiles
    /\ r.pc \notin Importing => r.moved = {}

\* A renamed file is accounted for.
ArchivedOK == \A f \in Files : files[f] = "archived" => f \in cutoff \/ Kept(f)

\* The import is done: what is still there has been written.
DoneOK == done => \A f \in Files : files[f] = "present" => Names(f) \subseteq followers

Inv == /\ TypeOK
       /\ \A p \in Procs : ProcOK(proc[p], followers, files)
       /\ ArchivedOK
       /\ DoneOK

LEMMA ContentType ==
    ASSUME TypeOK, NEW f \in Files
    PROVE  /\ content[f] \in Seq(Accounts)
           /\ Len(content[f]) \in Nat
           /\ Names(f) \subseteq Accounts
  <1>1. content[f] \in Seq(Accounts)
    <2>1. content \in [Files -> Seq(Accounts)]
      BY ContentAssumption DEF TypeOK
    <2> QED
      BY <2>1
  <1>2. \A i \in 1..Len(content[f]) : content[f][i] \in Accounts
    BY <1>1
  <1> QED
    BY <1>1, <1>2 DEF Names

LEMMA NextFileOK ==
    ASSUME NEW r \in Process, NEW F, NEW S, r.file \in Files,
           \A f \in Files : f < r.file => S[f] # "present" \/ Has(r, f, F),
           S[r.file] # "present" \/ Has(r, r.file, F)
    PROVE  /\ ProcOK(NextFile(r), F, S)
           /\ NextFile(r).rows = r.rows /\ NextFile(r).moved = r.moved
  <1> DEFINE n == NextFile(r)
  <1>1. /\ n \in Process /\ n.pc = "look" /\ n.file = r.file + 1 /\ n.line = 1
        /\ n.rows = r.rows /\ n.moved = r.moved
    <2>1. r.file + 1 \in Nat /\ 1 \in Nat
      BY DEF Process
    <2>2. \A k, l \in Nat : [r EXCEPT !.pc = "look", !.file = k, !.line = l] \in Process
      BY DEF Process
    <2>3. n \in Process
      BY <2>1, <2>2, Zenon DEF NextFile
    <2> QED
      BY <2>3 DEF NextFile, Process
  <1> HIDE DEF n
  <1>2. r.file \in Nat /\ r.file >= 1
    BY FilesAssumption DEF Files
  <1>3. \A f \in Files : f < n.file => S[f] # "present" \/ Has(n, f, F)
    <2> TAKE f \in Files
    <2>1. Has(n, f, F) <=> Has(r, f, F)
      BY <1>1 DEF Has
    <2>2. f \in Nat
      BY FilesAssumption DEF Files
    <2>3. f < n.file => f < r.file \/ f = r.file
      BY <1>1, <1>2, <2>2
    <2> QED
      BY <2>1, <2>3
  <1>4. n.file >= 1
    BY <1>1, <1>2
  <1>5. ProcOK(n, F, S)
    BY <1>1, <1>3, <1>4 DEF ProcOK, Importing
  <1> QED
    BY <1>1, <1>5 DEF n

\* The names before `line` are written: on to the next, the rename or the next file.
LEMMA CoveredOK ==
    ASSUME TypeOK, NEW r \in Process, NEW F, NEW S, r.file \in Files, r.line >= 1,
           r.line <= Len(content[r.file]) + 1,
           \A f \in Files : f < r.file => S[f] # "present" \/ Has(r, f, F),
           \A j \in 1..Len(content[r.file]) :
             j < r.line => content[r.file][j] \in F \cup r.rows
    PROVE  /\ ProcOK(Covered(r), F, S)
           /\ Covered(r).rows = r.rows /\ Covered(r).moved = r.moved
  <1> DEFINE len == Len(content[r.file])
  <1>0. len \in Nat /\ r.line \in Nat /\ r.file >= 1
    BY ContentType, FilesAssumption DEF Process, Files
  <1>1. CASE r.line <= len
    <2> DEFINE n == [r EXCEPT !.pc = "line"]
    <2>1. /\ n \in Process /\ n.pc = "line" /\ n.file = r.file /\ n.line = r.line
          /\ n.rows = r.rows /\ n.moved = r.moved
      BY DEF Process
    <2>2. Covered(r) = n
      BY <1>1 DEF Covered
    <2> HIDE DEF n
    <2>3. \A f \in Files : f < n.file => S[f] # "present" \/ Has(n, f, F)
      BY <2>1 DEF Has
    <2>4. n.line \in 1..Len(content[n.file])
      BY <1>0, <1>1, <2>1
    <2>5. ProcOK(n, F, S)
      BY <1>0, <2>1, <2>3, <2>4 DEF ProcOK, Importing
    <2> QED
      BY <2>1, <2>2, <2>5
  <1>2. CASE r.line > len
    <2>1. Has(r, r.file, F)
      BY <1>0, <1>2 DEF Has, Names
    <2>2. CASE r.cleanup
      <3> DEFINE n == [r EXCEPT !.pc = "archive"]
      <3>1. /\ n \in Process /\ n.pc = "archive" /\ n.file = r.file
            /\ n.rows = r.rows /\ n.moved = r.moved
        BY DEF Process
      <3>2. Covered(r) = n
        BY <1>0, <1>2, <2>2 DEF Covered
      <3> HIDE DEF n
      <3>3. \A f \in Files : f < n.file => S[f] # "present" \/ Has(n, f, F)
        BY <3>1 DEF Has
      <3>4. Has(n, n.file, F)
        BY <2>1, <3>1 DEF Has
      <3>5. ProcOK(n, F, S)
        BY <1>0, <3>1, <3>3, <3>4 DEF ProcOK, Importing
      <3> QED
        BY <3>1, <3>2, <3>5
    <2>3. CASE ~r.cleanup
      <3>1. Covered(r) = NextFile(r)
        BY <1>0, <1>2, <2>3 DEF Covered
      <3> QED
        BY <2>1, <3>1, NextFileOK
    <2> QED
      BY <2>2, <2>3
  <1> QED
    BY <1>0, <1>1, <1>2

\* What the steps of one process leave true of another: rows are only added, and
\* no file comes back.
LEMMA OthersOK ==
    ASSUME NEW r, NEW F, NEW S, NEW G, NEW T, ProcOK(r, F, S), F \subseteq G,
           \A f \in Files : T[f] = "present" => S[f] = "present"
    PROVE  ProcOK(r, G, T)
  BY DEF ProcOK, Has

\* A step of p that renames no file: whatever p had renamed it still has, has
\* published, or is counted as cut off.
LEMMA StepKeeps ==
    ASSUME Inv, NEW p \in Procs,
           proc' \in [Procs -> Process], \A q \in Procs \ {p} : proc'[q] = proc[q],
           content' = content, engine' = engine, files' = files,
           followers \subseteq followers', followers' \subseteq Accounts,
           cutoff \subseteq cutoff', cutoff' \subseteq Files, crashes' \in Nat,
           ProcOK(proc'[p], followers, files),
           \/ proc[p].moved \subseteq proc'[p].moved /\ proc[p].rows \subseteq proc'[p].rows
           \/ proc[p].rows \subseteq followers'
           \/ proc[p].moved \subseteq cutoff',
           done' \in BOOLEAN, DoneOK'
    PROVE  Inv'
  <1>1. TypeOK'
    BY DEF Inv, TypeOK
  <1>2. \A q \in Procs : ProcOK(proc'[q], followers', files')
    <2> TAKE q \in Procs
    <2>1. ProcOK(proc'[q], followers, files)
      BY DEF Inv
    <2> QED
      BY <2>1, OthersOK
  <1>3. \A q \in Procs : ProcOK(proc[q], followers, files)'
    BY <1>2 DEF ProcOK, Has, Names
  <1>4. ArchivedOK'
    <2> SUFFICES ASSUME NEW f \in Files, files'[f] = "archived", f \notin cutoff'
                 PROVE  Kept(f)'
      BY DEF ArchivedOK
    <2>1. Kept(f)
      BY DEF Inv, ArchivedOK
    <2>2. Names(f)' = Names(f)
      BY DEF Names
    <2>3. CASE Names(f) \subseteq followers
      BY <2>2, <2>3 DEF Kept
    <2>4. ASSUME NEW q \in Procs, f \in proc[q].moved,
                 Names(f) \subseteq followers \cup proc[q].rows
          PROVE  Kept(f)'
      <3>1. CASE q # p
        BY <2>2, <2>4, <3>1 DEF Kept
      <3>2. CASE q = p
        BY <2>2, <2>4, <3>2 DEF Kept
      <3> QED
        BY <3>1, <3>2
    <2> QED
      BY <2>1, <2>3, <2>4 DEF Kept
  <1> QED
    BY <1>1, <1>3, <1>4 DEF Inv

LEMMA IdleOK ==
    ASSUME NEW F, NEW S
    PROVE  ProcOK(Idle, F, S) /\ Idle.moved = {} /\ Idle.rows = {}
  BY DEF ProcOK, Idle, Process, Importing

\* The setting and the rows it speaks of do not change.
LEMMA StillDone ==
    ASSUME Inv, UNCHANGED <<content, files, done>>, followers \subseteq followers'
    PROVE  DoneOK'
  BY DEF Inv, DoneOK, Names

\* A process that ends by an exception.
LEMMA EndsOK ==
    ASSUME Inv, NEW p \in Procs, Ends(p), crashes' \in Nat,
           UNCHANGED <<engine, content, files, followers, done>>
    PROVE  Inv'
  <1>1. proc \in [Procs -> Process] /\ proc[p].moved \subseteq Files
    BY DEF Inv, TypeOK, Process
  <1>2. cutoff \subseteq cutoff' /\ cutoff' \subseteq Files /\ proc[p].moved \subseteq cutoff'
    BY <1>1 DEF Ends, Inv, TypeOK
  <1>3. /\ proc' \in [Procs -> Process] /\ proc'[p] = Idle
        /\ \A q \in Procs \ {p} : proc'[q] = proc[q]
    BY <1>1, IdleOK DEF Ends, ProcOK
  <1> QED
    BY <1>2, <1>3, IdleOK, StillDone, StepKeeps DEF Inv, TypeOK

\* A step of p to a record n that keeps what p has written and renamed.
LEMMA AdvanceOK ==
    ASSUME Inv, NEW p \in Procs, NEW n, proc' = [proc EXCEPT ![p] = n],
           ProcOK(n, followers, files),
           proc[p].moved \subseteq n.moved, proc[p].rows \subseteq n.rows,
           UNCHANGED <<engine, content, files, followers, done, cutoff, crashes>>
    PROVE  Inv'
  <1>1. proc \in [Procs -> Process]
    BY DEF Inv, TypeOK
  <1>2. /\ proc' \in [Procs -> Process] /\ proc'[p] = n
        /\ \A q \in Procs \ {p} : proc'[q] = proc[q]
    BY <1>1 DEF ProcOK
  <1> QED
    BY <1>2, StillDone, StepKeeps DEF Inv, TypeOK

-----------------------------------------------------------------------------
(* The steps.                                                              *)

LEMMA StartOK ==
    ASSUME Inv, NEW p \in Procs, Start(p)
    PROVE  Inv'
  <1>1. PICK c \in BOOLEAN : proc' = [proc EXCEPT ![p] =
          [Idle EXCEPT !.pc = IF done THEN "work" ELSE "look", !.cleanup = c]]
    BY SettingAssumption DEF Start
  <1> DEFINE n == [Idle EXCEPT !.pc = IF done THEN "work" ELSE "look", !.cleanup = c]
  <1>2. /\ n \in Process /\ n.pc \in {"work", "look"} /\ n.file = 1 /\ n.line = 1
        /\ n.moved = {} /\ n.rows = {}
    BY DEF Idle, Process
  <1>3. proc' = [proc EXCEPT ![p] = n]
    BY <1>1
  <1> HIDE DEF n
  <1>4. ProcOK(n, followers, files)
    BY <1>2, FilesAssumption DEF ProcOK, Importing, Files
  <1>5. proc[p].moved = {} /\ proc \in [Procs -> Process]
    BY DEF Start, Inv, TypeOK, ProcOK, Importing
  <1>6. UNCHANGED <<engine, content, files, followers, done, cutoff, crashes>>
    BY DEF Start
  <1>7. /\ proc' \in [Procs -> Process] /\ proc'[p] = n
        /\ \A q \in Procs \ {p} : proc'[q] = proc[q]
    BY <1>2, <1>3, <1>5
  <1> QED
    BY <1>4, <1>5, <1>6, <1>7, StillDone, StepKeeps DEF Inv, TypeOK

\* A new program counter for the same file, at the head of the loop or after it.
LEMMA PointOK ==
    ASSUME NEW r, NEW F, NEW S, ProcOK(r, F, S), r.pc = "look",
           NEW pc \in {"mark", "read"},
           IF pc = "mark" THEN r.file > NFiles ELSE r.file \in Files
    PROVE  LET n == [r EXCEPT !.pc = pc]
           IN  ProcOK(n, F, S) /\ n.moved = r.moved /\ n.rows = r.rows
  <1> DEFINE n == [r EXCEPT !.pc = pc]
  <1>1. /\ n \in Process /\ n.pc = pc /\ n.file = r.file /\ n.line = r.line
        /\ n.rows = r.rows /\ n.moved = r.moved
    BY DEF ProcOK, Process
  <1> HIDE DEF n
  <1>2. \A f \in Files : f < n.file => S[f] # "present" \/ Has(n, f, F)
    BY <1>1 DEF ProcOK, Importing, Has
  <1>3. ProcOK(n, F, S)
    BY <1>1, <1>2 DEF ProcOK, Importing
  <1> QED
    BY <1>1, <1>3 DEF n

LEMMA LookOK ==
    ASSUME Inv, NEW p \in Procs, Look(p)
    PROVE  Inv'
  <1> DEFINE r == proc[p]
             n == IF r.file > NFiles THEN [r EXCEPT !.pc = "mark"]
                  ELSE IF files[r.file] = "present" THEN [r EXCEPT !.pc = "read"]
                  ELSE NextFile(r)
  <1>1. UNCHANGED <<engine, content, files, followers, done, cutoff, crashes>>
    BY DEF Look
  <1>2. /\ ProcOK(r, followers, files) /\ r.pc = "look"
        /\ r \in Process /\ r.file \in Nat /\ r.file >= 1
    BY DEF Look, Inv, ProcOK, Process
  <1>3. proc' = [proc EXCEPT ![p] = n]
    BY DEF Look, Inv, TypeOK
  <1>4. ProcOK(n, followers, files) /\ n.moved = r.moved /\ n.rows = r.rows
    <2>1. CASE r.file > NFiles
      BY <1>2, <2>1, PointOK
    <2>2. CASE ~(r.file > NFiles) /\ files[r.file] = "present"
      <3>1. r.file \in Files
        BY <1>2, <2>2, FilesAssumption DEF Files
      <3> QED
        BY <1>2, <2>2, <3>1, PointOK
    <2>3. CASE ~(r.file > NFiles) /\ files[r.file] # "present"
      <3>1. r.file \in Files
        BY <1>2, <2>3, FilesAssumption DEF Files
      <3>2. \A f \in Files : f < r.file => files[f] # "present" \/ Has(r, f, followers)
        BY <1>2 DEF ProcOK, Importing
      <3>3. n = NextFile(r)
        BY <2>3
      <3> HIDE DEF n, r
      <3> QED
        BY <1>2, <2>3, <3>1, <3>2, <3>3, NextFileOK
    <2> QED
      BY <2>1, <2>2, <2>3
  <1> HIDE DEF n
  <1> QED
    BY <1>1, <1>3, <1>4, AdvanceOK

LEMMA ReadOK ==
    ASSUME Inv, NEW p \in Procs, Read(p)
    PROVE  Inv'
  <1>1. UNCHANGED <<engine, content, files, followers, done, crashes>>
    BY DEF Read
  <1>2. CASE files[proc[p].file] # "present"
    BY <1>1, <1>2, EndsOK DEF Read, Inv, TypeOK
  <1>3. CASE files[proc[p].file] = "present"
    <2> DEFINE r == proc[p]
    <2>1. proc' = [proc EXCEPT ![p] = Covered(r)] /\ cutoff' = cutoff
      BY <1>3 DEF Read, Inv, TypeOK
    <2>2. /\ r \in Process /\ r.line = 1 /\ r.file \in Files
          /\ \A f \in Files : f < r.file => files[f] # "present" \/ Has(r, f, followers)
      BY DEF Read, Inv, ProcOK, Importing
    <2>3. Len(content[r.file]) \in Nat
      BY <2>2, ContentType DEF Inv
    <2> HIDE DEF r
    <2>4. /\ ProcOK(Covered(r), followers, files)
          /\ Covered(r).rows = r.rows /\ Covered(r).moved = r.moved
      BY <2>2, <2>3, CoveredOK DEF Inv
    <2> QED
      BY <1>1, <2>1, <2>4, AdvanceOK DEF r
  <1> QED
    BY <1>2, <1>3

LEMMA UpsertOK ==
    ASSUME Inv, NEW p \in Procs, Upsert(p)
    PROVE  Inv'
  <1> DEFINE r == proc[p]
             n == [r EXCEPT !.txn = TRUE, !.line = @ + 1, !.rows = @ \cup {Name(p)}]
  <1>1. UNCHANGED <<engine, content, files, followers, done, cutoff, crashes>>
    BY DEF Upsert
  <1>2. proc' = [proc EXCEPT ![p] = Covered(n)]
    BY DEF Upsert, Inv, TypeOK
  <1>3. /\ r \in Process /\ r.file \in Files /\ r.line \in 1..Len(content[r.file])
        /\ \A f \in Files : f < r.file => files[f] # "present" \/ Has(r, f, followers)
        /\ \A j \in 1..Len(content[r.file]) :
             j < r.line => content[r.file][j] \in followers \cup r.rows
    BY DEF Upsert, Inv, ProcOK, Importing
  <1>4. /\ Name(p) = content[r.file][r.line] /\ Name(p) \in Accounts
        /\ Len(content[r.file]) \in Nat
    BY <1>3, ContentType DEF Inv, Name
  <1>5. /\ n \in Process /\ n.file = r.file /\ n.line = r.line + 1
        /\ n.rows = r.rows \cup {Name(p)} /\ n.moved = r.moved
    <2>1. r.rows \cup {Name(p)} \subseteq Accounts /\ r.line + 1 \in Nat
      BY <1>3, <1>4 DEF Process
    <2> QED
      BY <1>3, <2>1 DEF Process
  <1> HIDE DEF n
  <1>6. \A f \in Files : f < n.file => files[f] # "present" \/ Has(n, f, followers)
    BY <1>3, <1>5 DEF Has
  <1>7. \A j \in 1..Len(content[n.file]) :
          j < n.line => content[n.file][j] \in followers \cup n.rows
    <2> TAKE j \in 1..Len(content[n.file])
    <2>1. j < n.line => j < r.line \/ j = r.line
      BY <1>3, <1>4, <1>5
    <2> QED
      BY <1>3, <1>4, <1>5, <2>1
  <1>8. n.line >= 1 /\ n.line <= Len(content[n.file]) + 1 /\ n.file \in Files
    BY <1>3, <1>4, <1>5
  <1>9. /\ ProcOK(Covered(n), followers, files)
        /\ Covered(n).rows = n.rows /\ Covered(n).moved = n.moved
    BY <1>5, <1>6, <1>7, <1>8, CoveredOK DEF Inv
  <1>10. proc[p].moved \subseteq Covered(n).moved /\ proc[p].rows \subseteq Covered(n).rows
    BY <1>5, <1>9
  <1> QED
    BY <1>1, <1>2, <1>9, <1>10, AdvanceOK

LEMMA SetDoneOK ==
    ASSUME Inv, NEW p \in Procs, SetDone(p)
    PROVE  Inv'
  <1> DEFINE r == proc[p]
             n == [r EXCEPT !.pc = "commit", !.txn = TRUE, !.flag = TRUE]
  <1>1. UNCHANGED <<engine, content, files, followers, done, cutoff, crashes>>
    BY DEF SetDone
  <1>2. proc' = [proc EXCEPT ![p] = n]
    BY DEF SetDone, Inv, TypeOK
  <1>3. ProcOK(r, followers, files) /\ r.pc = "mark" /\ r \in Process
    BY DEF SetDone, Inv, ProcOK
  <1>4. /\ n \in Process /\ n.pc = "commit" /\ n.file = r.file
        /\ n.rows = r.rows /\ n.moved = r.moved
    BY <1>3 DEF Process
  <1> HIDE DEF n
  <1>5. \A f \in Files : f < n.file => files[f] # "present" \/ Has(n, f, followers)
    BY <1>3, <1>4 DEF ProcOK, Importing, Has
  <1>6. ProcOK(n, followers, files)
    BY <1>3, <1>4, <1>5 DEF ProcOK, Importing
  <1> QED
    BY <1>1, <1>2, <1>4, <1>6, AdvanceOK

LEMMA CommitOK ==
    ASSUME Inv, NEW p \in Procs, Commit(p)
    PROVE  Inv'
  <1> DEFINE r == proc[p]
             n == [Idle EXCEPT !.pc = "work"]
  <1>1. /\ proc' = [proc EXCEPT ![p] = n]
        /\ followers' = followers \cup r.rows /\ done' = TRUE
        /\ UNCHANGED <<engine, content, files, cutoff, crashes>>
    BY DEF Commit, Published
  <1>2. /\ r \in Process /\ r.file > NFiles /\ r.file \in Nat
        /\ \A f \in Files : f < r.file => files[f] # "present" \/ Has(r, f, followers)
    BY DEF Commit, Inv, ProcOK, Importing, Process
  <1>3. n \in Process /\ n.pc = "work" /\ n.moved = {} /\ n.file = 1
    BY DEF Idle, Process
  <1> HIDE DEF n
  <1>4. ProcOK(n, followers, files)
    BY <1>3 DEF ProcOK, Importing
  <1>5. proc \in [Procs -> Process]
    BY DEF Inv, TypeOK
  <1>6. /\ proc' \in [Procs -> Process] /\ proc'[p] = n
        /\ \A q \in Procs \ {p} : proc'[q] = proc[q]
    BY <1>1, <1>3, <1>5
  <1>7. DoneOK'
    <2> SUFFICES ASSUME NEW f \in Files, files'[f] = "present"
                 PROVE  (Names(f) \subseteq followers)'
      BY DEF DoneOK
    <2>1. Names(f)' = Names(f)
      BY <1>1 DEF Names
    <2>2. f < r.file
      BY <1>2, FilesAssumption DEF Files
    <2>3. Has(r, f, followers)
      BY <1>1, <1>2, <2>2
    <2> QED
      BY <1>1, <2>1, <2>3 DEF Has
  <1>8. followers' \subseteq Accounts
    BY <1>1, <1>2 DEF Inv, TypeOK, Process
  <1> QED
    BY <1>1, <1>4, <1>6, <1>7, <1>8, StepKeeps DEF Inv, TypeOK

LEMMA WorkOK ==
    ASSUME Inv, NEW p \in Procs, Work(p)
    PROVE  Inv'
  <1>1. /\ proc[p] \in Process /\ proc[p].pc = "work" /\ proc[p].moved = {}
        /\ proc[p].file >= 1 /\ proc \in [Procs -> Process]
    BY DEF Work, Inv, ProcOK, Importing, TypeOK
  <1>2. UNCHANGED <<engine, content, files, done, cutoff, crashes>>
    BY DEF Work
  <1>3. ASSUME NEW rows \in SUBSET Accounts, followers' = followers,
               proc' = [proc EXCEPT ![p].txn = TRUE, ![p].rows = rows]
        PROVE  Inv'
    <2> DEFINE n == [proc[p] EXCEPT !.txn = TRUE, !.rows = rows]
    <2>1. n \in Process /\ n.pc = "work" /\ n.moved = {} /\ n.file >= 1
      BY <1>1 DEF Process
    <2>2. proc' = [proc EXCEPT ![p] = n]
      BY <1>1, <1>3
    <2> HIDE DEF n
    <2>3. ProcOK(n, followers, files)
      BY <2>1 DEF ProcOK, Importing
    <2>4. /\ proc' \in [Procs -> Process] /\ proc'[p] = n
          /\ \A q \in Procs \ {p} : proc'[q] = proc[q]
      BY <1>1, <2>1, <2>2
    <2> QED
      BY <1>1, <1>2, <1>3, <2>3, <2>4, StillDone, StepKeeps DEF Inv, TypeOK
  <1>4. ASSUME followers' \in {followers, followers \cup proc[p].rows},
               proc' = [proc EXCEPT ![p] = Idle]
        PROVE  Inv'
    <2>1. followers \subseteq followers' /\ followers' \subseteq Accounts
      BY <1>1, <1>4 DEF Inv, TypeOK, Process
    <2>2. /\ proc' \in [Procs -> Process] /\ proc'[p] = Idle
          /\ \A q \in Procs \ {p} : proc'[q] = proc[q]
      BY <1>1, <1>4, IdleOK DEF ProcOK
    <2> QED
      BY <1>1, <1>2, <2>1, <2>2, IdleOK, StillDone, StepKeeps DEF Inv, TypeOK
  <1> QED
    BY <1>3, <1>4 DEF Work

\* The rename: the names of the file are written before it.
LEMMA ArchiveOK ==
    ASSUME Inv, NEW p \in Procs, Archive(p)
    PROVE  Inv'
  <1> DEFINE r == proc[p]
             m == [r EXCEPT !.moved = @ \cup {r.file}]
             n == NextFile(m)
  <1>1. UNCHANGED <<engine, content, followers, done, crashes>>
    BY DEF Archive
  <1>2. CASE files[r.file] # "present"
    BY <1>1, <1>2, EndsOK DEF Archive, Inv, TypeOK
  <1>3. CASE files[r.file] = "present"
    <2>1. /\ files' = [files EXCEPT ![r.file] = "archived"] /\ cutoff' = cutoff
          /\ proc' = [proc EXCEPT ![p] = n]
      BY <1>3 DEF Archive, Inv, TypeOK
    <2>2. /\ r \in Process /\ r.file \in Files /\ Has(r, r.file, followers)
          /\ \A f \in Files : f < r.file => files[f] # "present" \/ Has(r, f, followers)
          /\ proc \in [Procs -> Process]
      BY DEF Archive, Inv, ProcOK, Importing, TypeOK
    <2>3. /\ m \in Process /\ m.file = r.file /\ m.rows = r.rows
          /\ m.moved = r.moved \cup {r.file}
      <3>1. r.moved \cup {r.file} \subseteq Files
        BY <2>2 DEF Process
      <3> QED
        BY <2>2, <3>1 DEF Process
    <2> HIDE DEF m
    <2>4. /\ ProcOK(n, followers, files) /\ n.rows = r.rows
          /\ n.moved = r.moved \cup {r.file}
      BY <2>2, <2>3, NextFileOK DEF Has
    <2> HIDE DEF n
    <2>5. /\ proc' \in [Procs -> Process] /\ proc'[p] = n
          /\ \A q \in Procs \ {p} : proc'[q] = proc[q]
      BY <2>1, <2>2, <2>4 DEF ProcOK
    <2>6. \A f \in Files : /\ files'[f] = "present" => files[f] = "present"
                           /\ f # r.file => files'[f] = files[f]
      BY <2>1, <2>2 DEF Inv, TypeOK
    <2>7. TypeOK'
      BY <1>1, <2>1, <2>2, <2>5 DEF Inv, TypeOK
    <2>8. \A q \in Procs : ProcOK(proc[q], followers, files)'
      <3>1. \A q \in Procs : ProcOK(proc'[q], followers, files')
        <4> TAKE q \in Procs
        <4>1. ProcOK(proc'[q], followers, files)
          BY <2>4, <2>5 DEF Inv
        <4> QED
          BY <2>6, <4>1, OthersOK
      <3> QED
        BY <1>1, <3>1 DEF ProcOK, Has, Names
    <2>9. \A f \in Files : Names(f)' = Names(f)
      BY <1>1 DEF Names
    <2>10. ArchivedOK'
      <3> SUFFICES ASSUME NEW f \in Files, files'[f] = "archived", f \notin cutoff'
                   PROVE  Kept(f)'
        BY DEF ArchivedOK
      <3>1. CASE f = r.file
        BY <1>1, <2>2, <2>4, <2>5, <2>9, <3>1 DEF Kept, Has
      <3>2. CASE f # r.file
        <4>1. Kept(f)
          BY <2>1, <2>6, <3>2 DEF Inv, ArchivedOK
        <4>2. \A q \in Procs : proc[q].moved \subseteq proc'[q].moved /\ proc'[q].rows = proc[q].rows
          BY <2>4, <2>5
        <4> QED
          BY <1>1, <2>9, <4>1, <4>2 DEF Kept
      <3> QED
        BY <3>1, <3>2
    <2>11. DoneOK'
      BY <1>1, <2>6, <2>9 DEF Inv, DoneOK
    <2> QED
      BY <2>7, <2>8, <2>10, <2>11 DEF Inv
  <1> QED
    BY <1>2, <1>3

\* The invariant, step by step.
LEMMA Inductive ==
    ASSUME Inv, [Next]_vars
    PROVE  Inv'
  <1>1. ASSUME NEW p \in Procs, GiveUp(p) \/ Crash(p)
        PROVE  Inv'
    <2>1. crashes' \in Nat
      BY <1>1 DEF GiveUp, Crash, Inv, TypeOK
    <2> QED
      BY <1>1, <2>1, EndsOK DEF GiveUp, Crash
  <1>2. CASE UNCHANGED vars
    BY <1>2 DEF vars, Inv, TypeOK, ProcOK, Has, ArchivedOK, DoneOK, Kept, Names
  <1> QED
    BY <1>1, <1>2, StartOK, LookOK, ReadOK, UpsertOK, ArchiveOK, SetDoneOK, CommitOK, WorkOK
    DEF Next, Advance, Import

LEMMA Initial == Init => Inv
  <1> SUFFICES ASSUME Init PROVE Inv
    OBVIOUS
  <1>1. \A p \in Procs : ProcOK(proc[p], followers, files)
    BY IdleOK DEF Init
  <1>2. TypeOK
    BY IdleOK DEF Init, TypeOK, ProcOK
  <1> QED
    BY <1>1, <1>2 DEF Init, Inv, ArchivedOK, DoneOK

LEMMA ImportSound == Spec => []Inv
  BY Initial, Inductive, PTL DEF Spec

\* The variables keep their types, whatever stands in the files.
THEOREM ImportTypes == Spec => []TypeOK
  BY ImportSound, PTL DEF Inv

\* A finished import has forgotten no account of a file, for any number of runs
\* that share the files between them, unless a run failed after a rename.
THEOREM ImportForgetsNothing == Spec => []NothingForgotten
  <1>1. ASSUME Inv PROVE NothingForgotten
    <2> SUFFICES ASSUME done, NEW f \in Files
                 PROVE  files[f] = "absent" \/ f \in cutoff \/ Kept(f)
      BY DEF NothingForgotten
    <2>1. files[f] \in {"present", "absent", "archived"}
      BY <1>1 DEF Inv, TypeOK
    <2> QED
      BY <1>1, <2>1 DEF Inv, ArchivedOK, DoneOK, Kept
  <1> QED
    BY <1>1, ImportSound, PTL

-----------------------------------------------------------------------------
(* The race of two imports under SQLite.                                   *)

\* The engine admits one writer, nothing has failed, and no file is empty.
Calm == engine = "sqlite" /\ crashes = 0 /\ \A f \in Files : content[f] # <<>>

\* An import with record r renames files only with its transaction open, and it
\* does not lose a file once it has renamed one.
Holds(r, S) ==
    /\ r.moved # {} \/ r.pc = "archive" => r.txn
    /\ r.moved # {} /\ r.pc \in {"read", "line", "archive"} => S[r.file] = "present"

\* The one writer is the one that renames, and no failure cuts a rename off.
Locked == /\ \A p, q \in Procs : proc[p].txn /\ proc[q].txn => p = q
          /\ \A p \in Procs : Holds(proc[p], files)
          /\ cutoff = {}

LEMMA LockKept ==
    ASSUME Locked, NEW p \in Procs, \A q \in Procs \ {p} : proc'[q] = proc[q],
           Holds(proc'[p], files'),
           proc'[p].txn => proc[p].txn \/ Writers(p) = {},
           files' = files \/ proc[p].txn,
           cutoff' = cutoff
    PROVE  Locked'
  <1>1. \A q \in Procs : Holds(proc'[q], files')
    <2> SUFFICES ASSUME NEW q \in Procs, q # p PROVE Holds(proc[q], files')
      OBVIOUS
    <2>1. CASE files' = files
      BY <2>1 DEF Locked
    <2>2. CASE proc[p].txn
      BY <2>2 DEF Locked, Holds
    <2> QED
      BY <2>1, <2>2
  <1>2. ASSUME NEW q \in Procs, NEW s \in Procs, proc'[q].txn, proc'[s].txn
        PROVE  q = s
    BY <1>2 DEF Locked, Writers
  <1> QED
    BY <1>1, <1>2 DEF Locked, Holds

\* A failure of an import that has renamed nothing.
LEMMA EndsLocked ==
    ASSUME Inv, Locked, NEW p \in Procs, Ends(p), proc[p].moved = {}, files' = files
    PROVE  Locked'
  <1>1. /\ proc'[p] = Idle /\ cutoff' = cutoff
        /\ \A q \in Procs \ {p} : proc'[q] = proc[q]
    BY DEF Ends, Inv, TypeOK
  <1>2. Idle.moved = {} /\ Idle.pc = "idle" /\ Idle.txn = FALSE
    BY DEF Idle
  <1>3. Holds(proc'[p], files')
    BY <1>1, <1>2 DEF Holds
  <1> QED
    BY <1>1, <1>2, <1>3, LockKept

\* Where Covered leads, with a transaction or before the first name.
LEMMA CoveredHolds ==
    ASSUME NEW r \in Process, NEW S, Len(content[r.file]) \in Nat,
           r.txn \/ (r.moved = {} /\ r.line <= Len(content[r.file])),
           r.moved # {} => S[r.file] = "present"
    PROVE  Holds(Covered(r), S) /\ Covered(r).txn = r.txn
  <1> DEFINE a == [r EXCEPT !.pc = "line"]
             b == [r EXCEPT !.pc = "archive"]
             c == [r EXCEPT !.pc = "look", !.file = @ + 1, !.line = 1]
  <1>1. /\ a.pc = "line" /\ a.moved = r.moved /\ a.txn = r.txn /\ a.file = r.file
        /\ b.pc = "archive" /\ b.moved = r.moved /\ b.txn = r.txn /\ b.file = r.file
        /\ c.pc = "look" /\ c.moved = r.moved /\ c.txn = r.txn
    BY DEF Process
  <1>2. \/ Covered(r) = a
        \/ ~(r.line <= Len(content[r.file])) /\ Covered(r) \in {b, c}
    BY DEF Covered, NextFile
  <1> HIDE DEF a, b, c
  <1>3. CASE Covered(r) = a
    BY <1>1, <1>3 DEF Holds
  <1>4. CASE ~(r.line <= Len(content[r.file])) /\ Covered(r) \in {b, c}
    BY <1>1, <1>4 DEF Holds
  <1> QED
    BY <1>2, <1>3, <1>4

LEMMA LookLocked ==
    ASSUME Inv, Calm, Locked, NEW p \in Procs, Look(p)
    PROVE  Locked'
  <1> DEFINE r == proc[p]
  <1>1. r \in Process /\ Holds(r, files) /\ r.pc = "look" /\ proc \in [Procs -> Process]
    BY DEF Look, Inv, TypeOK, Locked
  <1>2. /\ files' = files /\ cutoff' = cutoff
        /\ \A q \in Procs \ {p} : proc'[q] = proc[q]
        /\ \/ proc'[p] = [r EXCEPT !.pc = "mark"]
           \/ proc'[p] = [r EXCEPT !.pc = "read"] /\ files[r.file] = "present"
           \/ proc'[p] = [r EXCEPT !.pc = "look", !.file = @ + 1, !.line = 1]
    BY <1>1 DEF Look, NextFile
  <1>3. /\ proc'[p].moved = r.moved /\ proc'[p].txn = r.txn
        /\ \/ proc'[p].pc \in {"mark", "look"}
           \/ proc'[p].pc = "read" /\ proc'[p].file = r.file /\ files[r.file] = "present"
    BY <1>1, <1>2 DEF Process
  <1>4. Holds(proc'[p], files')
    BY <1>1, <1>2, <1>3 DEF Holds
  <1> QED
    BY <1>2, <1>3, <1>4, LockKept

LEMMA ReadLocked ==
    ASSUME Inv, Calm, Locked, NEW p \in Procs, Read(p)
    PROVE  Locked'
  <1> DEFINE r == proc[p]
  <1>1. /\ r \in Process /\ Holds(r, files) /\ r.pc = "read" /\ r.file \in Files /\ r.line = 1
        /\ proc \in [Procs -> Process] /\ files' = files
    BY DEF Read, Inv, TypeOK, ProcOK, Locked
  <1>2. CASE files[r.file] # "present"
    BY <1>1, <1>2, EndsLocked DEF Read, Holds
  <1>3. CASE files[r.file] = "present"
    <2>1. /\ proc'[p] = Covered(r) /\ cutoff' = cutoff
          /\ \A q \in Procs \ {p} : proc'[q] = proc[q]
      BY <1>1, <1>3 DEF Read
    <2>2. content[r.file] \in Seq(Accounts) /\ content[r.file] # <<>>
      BY <1>1, ContentType DEF Inv, Calm
    <2>3. Len(content[r.file]) \in Nat /\ 1 <= Len(content[r.file])
      BY <2>2
    <2>4. r.moved # {} => r.txn
      BY <1>1 DEF Holds
    <2> HIDE DEF r
    <2>5. Holds(Covered(r), files) /\ Covered(r).txn = r.txn
      BY <1>1, <1>3, <2>3, <2>4, CoveredHolds
    <2> QED
      BY <1>1, <2>1, <2>5, LockKept DEF r
  <1> QED
    BY <1>2, <1>3

LEMMA UpsertLocked ==
    ASSUME Inv, Calm, Locked, NEW p \in Procs, Upsert(p)
    PROVE  Locked'
  <1> DEFINE r == proc[p]
             n == [r EXCEPT !.txn = TRUE, !.line = @ + 1, !.rows = @ \cup {Name(p)}]
  <1>1. /\ r \in Process /\ Holds(r, files) /\ r.pc = "line" /\ r.file \in Files
        /\ r.line \in 1..Len(content[r.file])
        /\ proc \in [Procs -> Process] /\ files' = files /\ cutoff' = cutoff
    BY DEF Upsert, Inv, TypeOK, ProcOK, Locked
  <1>2. /\ proc'[p] = Covered(n)
        /\ \A q \in Procs \ {p} : proc'[q] = proc[q]
        /\ Blockers(p) = {}
    BY <1>1 DEF Upsert
  <1>3. Writers(p) = {}
    BY <1>1, <1>2 DEF Blockers, Calm
  <1>4. Name(p) \in Accounts /\ Len(content[r.file]) \in Nat
    <2>1. content[r.file] \in Seq(Accounts)
      BY <1>1, ContentType DEF Inv
    <2> QED
      BY <1>1, <2>1 DEF Name
  <1>5. n \in Process /\ n.file = r.file /\ n.txn = TRUE /\ n.moved = r.moved
    <2>1. r.rows \cup {Name(p)} \subseteq Accounts /\ r.line + 1 \in Nat
      BY <1>1, <1>4 DEF Process
    <2> QED
      BY <1>1, <2>1 DEF Process
  <1>6. r.moved # {} => files[r.file] = "present"
    BY <1>1 DEF Holds
  <1> HIDE DEF n
  <1>7. Holds(Covered(n), files)
    BY <1>4, <1>5, <1>6, CoveredHolds
  <1> QED
    BY <1>1, <1>2, <1>3, <1>7, LockKept

LEMMA ArchiveLocked ==
    ASSUME Inv, Calm, Locked, NEW p \in Procs, Archive(p)
    PROVE  Locked'
  <1> DEFINE r == proc[p]
  <1>1. /\ r \in Process /\ Holds(r, files) /\ r.pc = "archive" /\ r.txn
        /\ r.file \in Files /\ proc \in [Procs -> Process]
    BY DEF Archive, Inv, TypeOK, ProcOK, Locked, Holds
  <1>2. CASE files[r.file] # "present"
    <2>1. Ends(p) /\ files' = files
      BY <1>2 DEF Archive
    <2>2. r.moved = {}
      BY <1>1, <1>2 DEF Holds
    <2> QED
      BY <2>1, <2>2, EndsLocked
  <1>3. CASE files[r.file] = "present"
    <2> DEFINE m == [r EXCEPT !.moved = @ \cup {r.file}]
    <2>1. /\ proc'[p] = NextFile(m) /\ cutoff' = cutoff
          /\ \A q \in Procs \ {p} : proc'[q] = proc[q]
      BY <1>1, <1>3 DEF Archive
    <2>2. NextFile(m).pc = "look" /\ NextFile(m).txn = r.txn
      BY <1>1 DEF NextFile, Process
    <2> HIDE DEF m
    <2>3. Holds(proc'[p], files')
      BY <1>1, <2>1, <2>2 DEF Holds
    <2> QED
      BY <1>1, <2>1, <2>3, LockKept
  <1> QED
    BY <1>2, <1>3

\* The steps that neither read a file nor rename one.
LEMMA OtherLocked ==
    ASSUME Inv, Calm, Locked, NEW p \in Procs, Start(p) \/ SetDone(p) \/ Commit(p) \/ Work(p)
    PROVE  Locked'
  <1>1. /\ proc \in [Procs -> Process] /\ proc[p] \in Process /\ Holds(proc[p], files)
        /\ proc[p].pc = "work" => proc[p].moved = {}
    BY DEF Inv, TypeOK, ProcOK, Importing, Locked
  <1>2. /\ files' = files /\ cutoff' = cutoff
        /\ \A q \in Procs \ {p} : proc'[q] = proc[q]
    BY <1>1 DEF Start, SetDone, Commit, Work
  <1>3. CASE Start(p)
    <2>1. PICK c \in BOOLEAN : proc'[p] =
            [Idle EXCEPT !.pc = IF done THEN "work" ELSE "look", !.cleanup = c]
      BY <1>1, <1>3, SettingAssumption DEF Start
    <2>2. proc'[p].moved = {} /\ proc'[p].pc # "archive" /\ proc'[p].txn = FALSE
      BY <2>1 DEF Idle
    <2>3. Holds(proc'[p], files')
      BY <2>2 DEF Holds
    <2> QED
      BY <1>2, <2>2, <2>3, LockKept
  <1>4. CASE SetDone(p)
    <2>1. Writers(p) = {}
      BY <1>4 DEF SetDone, Blockers, Calm
    <2>2. proc'[p].pc = "commit" /\ proc'[p].txn = TRUE
      BY <1>1, <1>4 DEF SetDone, Process
    <2>3. Holds(proc'[p], files')
      BY <2>2 DEF Holds
    <2> QED
      BY <1>2, <2>1, <2>3, LockKept
  <1>5. ASSUME proc'[p] \in {Idle, [Idle EXCEPT !.pc = "work"]}
        PROVE  Locked'
    <2>1. proc'[p].moved = {} /\ proc'[p].pc # "archive" /\ proc'[p].txn = FALSE
      BY <1>5 DEF Idle
    <2>2. Holds(proc'[p], files')
      BY <2>1 DEF Holds
    <2> QED
      BY <1>2, <2>1, <2>2, LockKept
  <1>6. CASE Commit(p)
    BY <1>1, <1>5, <1>6 DEF Commit
  <1>7. CASE Work(p)
    <2>1. CASE proc' = [proc EXCEPT ![p] = Idle]
      BY <1>1, <1>5, <2>1
    <2>2. ASSUME NEW rows \in SUBSET Accounts, Writers(p) = {},
                 proc' = [proc EXCEPT ![p].txn = TRUE, ![p].rows = rows]
          PROVE  Locked'
      <3>1. proc'[p].pc = "work" /\ proc'[p].moved = {}
        BY <1>1, <1>7, <2>2 DEF Work, Process
      <3>2. Holds(proc'[p], files')
        BY <3>1 DEF Holds
      <3> QED
        BY <1>2, <2>2, <3>2, LockKept
    <2> QED
      BY <1>7, <2>1, <2>2 DEF Work, Calm
  <1> QED
    BY <1>3, <1>4, <1>6, <1>7

\* "database is locked": the lock is another's, so nothing was renamed.
LEMMA GiveUpLocked ==
    ASSUME Inv, Calm, Locked, NEW p \in Procs, GiveUp(p)
    PROVE  Locked'
  <1>1. PICK q \in Procs : q # p /\ proc[q].txn
    BY DEF GiveUp, Blockers, Calm, Writers
  <1>2. proc[p].moved = {}
    BY <1>1 DEF Locked, Holds
  <1> QED
    BY <1>2, EndsLocked DEF GiveUp

RaceInv == Inv /\ (Calm => Locked)

LEMMA RaceInductive ==
    ASSUME RaceInv, [Next]_vars
    PROVE  RaceInv'
  <1>1. Inv'
    BY Inductive DEF RaceInv
  <1>2. ASSUME Calm' PROVE Locked'
    <2>1. CASE UNCHANGED vars
      BY <1>2, <2>1 DEF vars, RaceInv, Calm, Locked, Holds
    <2>2. ASSUME NEW p \in Procs, Crash(p) PROVE FALSE
      BY <1>2, <2>2 DEF Crash, Calm, RaceInv, Inv, TypeOK
    <2>3. ASSUME NEW p \in Procs, Start(p) \/ Advance(p) \/ GiveUp(p)
          PROVE  Locked'
      <3>1. UNCHANGED <<engine, content, crashes>>
        BY <2>3 DEF Start, Advance, Import, Look, Read, Upsert, Archive, SetDone, Commit, Work, GiveUp
      <3>2. Calm
        BY <1>2, <3>1 DEF Calm
      <3> QED
        BY <2>3, <3>2, OtherLocked, LookLocked, ReadLocked, UpsertLocked, ArchiveLocked, GiveUpLocked
        DEF RaceInv, Advance, Import
    <2> QED
      BY <2>1, <2>2, <2>3 DEF Next
  <1> QED
    BY <1>1, <1>2 DEF RaceInv

LEMMA RaceInitial == Init => RaceInv
  <1> SUFFICES ASSUME Init PROVE Locked
    BY Initial DEF RaceInv
  <1>1. Idle.moved = {} /\ Idle.pc = "idle" /\ Idle.txn = FALSE
    BY DEF Idle
  <1> QED
    BY <1>1 DEF Init, Locked, Holds

\* Two imports that race for the files under SQLite forget no account of them, for
\* any number of runs, if none of them fails otherwise and no file is empty.
THEOREM RaceIsSafe == Spec => []RaceLosesNothing
  <1>1. RaceInv => RaceLosesNothing
    BY DEF RaceInv, Calm, Locked, Inv, ArchivedOK, RaceLosesNothing
  <1> QED
    BY <1>1, RaceInitial, RaceInductive, PTL DEF Spec

=============================================================================
