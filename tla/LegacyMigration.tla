--------------------------- MODULE LegacyMigration ---------------------------
(***************************************************************************)
(* The import of the legacy text files, the first thing a run does after   *)
(* begin_run: the accounts named in each file are written to followers, a  *)
(* file is renamed when it has been read, and after the last one a setting *)
(* says that the import is done.  One commit covers all of it, but a       *)
(* rename is not undone by a rollback.                                     *)
(***************************************************************************)
EXTENDS Integers, Sequences

CONSTANTS
    Accounts,     \* names that may stand in a file
    Procs,        \* processes that may execute `run`
    NFiles,       \* LEGACY_FILES, numbered in their order
    Contents,     \* what the files may hold: the names of each file, in order
    Engines,      \* engines in use, of "sqlite" and "postgres"
    Cleanups,     \* values BOT_CLEANUP_LEGACY_FILES may take, run by run
    MaxCrashes    \* bound: crashes and file system errors in a behaviour

Files == 1..NFiles

ASSUME FilesAssumption == NFiles \in Nat
ASSUME ContentAssumption == Contents \subseteq [Files -> Seq(Accounts)]
ASSUME SettingAssumption == /\ Engines \subseteq {"sqlite", "postgres"}
                            /\ Cleanups \subseteq BOOLEAN
ASSUME CrashAssumption == MaxCrashes \in Nat

VARIABLES
    engine,       \* of this database
    content,      \* the names in each file; nobody writes the files any more
    files,        \* where each file is
    followers,    \* accounts with a committed followers row
    done,         \* settings.legacy_migration_done = '1', committed
    proc,         \* the processes and their open transactions
    cutoff,       \* history: files renamed by a process that never committed
    crashes

vars == <<engine, content, files, followers, done, proc, cutoff, crashes>>

Process == [pc : {"idle", "look", "read", "line", "archive", "mark", "commit", "work"},
            cleanup : BOOLEAN,
            file : Nat,              \* the file at hand
            line : Nat,              \* the next name of it
            txn : BOOLEAN,           \* a write transaction is open
            rows : SUBSET Accounts,  \* followers rows written in it
            flag : BOOLEAN,          \* the setting is written in it
            moved : SUBSET Files]    \* files renamed since it was opened

Idle == [pc |-> "idle", cleanup |-> FALSE, file |-> 1, line |-> 1, txn |-> FALSE,
         rows |-> {}, flag |-> FALSE, moved |-> {}]

TypeOK == /\ engine \in Engines
          /\ content \in Contents
          /\ files \in [Files -> {"present", "absent", "archived"}]
          /\ followers \subseteq Accounts
          /\ done \in BOOLEAN
          /\ proc \in [Procs -> Process]
          /\ cutoff \subseteq Files
          /\ crashes \in Nat

Init == /\ engine \in Engines
        /\ content \in Contents
        /\ files \in [Files -> {"present", "absent"}]
        /\ followers = {}
        /\ done = FALSE
        /\ proc = [p \in Procs |-> Idle]
        /\ cutoff = {}
        /\ crashes = 0

-----------------------------------------------------------------------------
(* Storage, as in FollowQueue.                                             *)

Writers(p) == {q \in Procs \ {p} : proc[q].txn}
RowHolders(p, a) == {q \in Procs \ {p} : a \in proc[q].rows}
FlagHolders(p) == {q \in Procs \ {p} : proc[q].flag}

Name(p) == content[proc[p].file][proc[p].line]

\* Processes whose transaction the next write of p has to wait for.
Blockers(p) ==
    CASE proc[p].pc \notin {"line", "mark"} -> {}
      [] engine = "sqlite" /\ proc[p].pc \in {"line", "mark"} -> Writers(p)
      [] engine # "sqlite" /\ proc[p].pc = "line" -> RowHolders(p, Name(p))
      [] OTHER -> FlagHolders(p)

-----------------------------------------------------------------------------
(* migrate_legacy_files.                                                   *)

\* Mutant of NextFile: a file that is kept is read for ever.
SameFile(pr) == [pr EXCEPT !.pc = "look", !.line = 1]

NextFile(pr) == [pr EXCEPT !.pc = "look", !.file = @ + 1, !.line = 1]

\* Mutant of Covered: a file is renamed before its names are written.
CoveredEarly(pr) == IF pr.cleanup THEN [pr EXCEPT !.pc = "archive"] ELSE NextFile(pr)

\* The names of the file at hand up to `line` are written: go on to the next
\* name, to the rename, or to the next file.
Covered(pr) ==
    IF pr.line <= Len(content[pr.file]) THEN [pr EXCEPT !.pc = "line"]
    ELSE IF pr.cleanup THEN [pr EXCEPT !.pc = "archive"]
    ELSE NextFile(pr)

\* begin_run has committed its row; nothing is imported once it is done.
Start(p) ==
    /\ proc[p].pc = "idle"
    /\ engine = "sqlite" => Writers(p) = {}
    /\ \E cleanup \in Cleanups :
         proc' = [proc EXCEPT ![p] = [Idle EXCEPT !.pc = IF done THEN "work" ELSE "look",
                                                  !.cleanup = cleanup]]
    /\ UNCHANGED <<engine, content, files, followers, done, cutoff, crashes>>

\* path.exists()
Look(p) ==
    /\ proc[p].pc = "look"
    /\ proc' = [proc EXCEPT ![p] =
                  IF @.file > NFiles THEN [@ EXCEPT !.pc = "mark"]
                  ELSE IF files[@.file] = "present" THEN [@ EXCEPT !.pc = "read"]
                  ELSE NextFile(@)]
    /\ UNCHANGED <<engine, content, files, followers, done, cutoff, crashes>>

\* An exception of the import is caught by nobody: the process ends and the
\* engine rolls back, but the files stay where they are.
Ends(p) == /\ proc' = [proc EXCEPT ![p] = Idle]
           /\ cutoff' = cutoff \cup proc[p].moved

\* path.read_text(): FileNotFoundError if another process was faster.
Read(p) ==
    /\ proc[p].pc = "read"
    /\ IF files[proc[p].file] = "present"
       THEN proc' = [proc EXCEPT ![p] = Covered(@)] /\ UNCHANGED cutoff
       ELSE Ends(p)
    /\ UNCHANGED <<engine, content, files, followers, done, crashes>>

\* upsert_follower_seen of the next name.
Upsert(p) ==
    /\ proc[p].pc = "line"
    /\ Blockers(p) = {}
    /\ LET written == [proc[p] EXCEPT !.txn = TRUE, !.line = @ + 1, !.rows = @ \cup {Name(p)}]
       IN  proc' = [proc EXCEPT ![p] = Covered(written)]
    /\ UNCHANGED <<engine, content, files, followers, done, cutoff, crashes>>

\* _archive_legacy_file: path.rename(), which fails if the file is gone.
Archive(p) ==
    /\ proc[p].pc = "archive"
    /\ IF files[proc[p].file] = "present"
       THEN /\ files' = [files EXCEPT ![proc[p].file] = "archived"]
            /\ LET renamed == [proc[p] EXCEPT !.moved = @ \cup {proc[p].file}]
               IN  proc' = [proc EXCEPT ![p] = NextFile(renamed)]
            /\ UNCHANGED cutoff
       ELSE Ends(p) /\ UNCHANGED files
    /\ UNCHANGED <<engine, content, followers, done, crashes>>

\* set_setting and add_security_event.
SetDone(p) ==
    /\ proc[p].pc = "mark"
    /\ Blockers(p) = {}
    /\ proc' = [proc EXCEPT ![p].pc = "commit", ![p].txn = TRUE, ![p].flag = TRUE]
    /\ UNCHANGED <<engine, content, files, followers, done, cutoff, crashes>>

\* Mutant of Published: the setting is committed without the rows.
FlagPublished(p) == done' = TRUE /\ UNCHANGED followers

Published(p) == followers' = followers \cup proc[p].rows /\ done' = TRUE

Commit(p) ==
    /\ proc[p].pc = "commit"
    /\ Published(p)
    /\ proc' = [proc EXCEPT ![p] = [Idle EXCEPT !.pc = "work"]]
    /\ UNCHANGED <<engine, content, files, cutoff, crashes>>

\* The rest of the run: it writes followers rows and commits them, or not, and
\* may keep the transaction open for as long as GitHub takes to answer.
Work(p) ==
    /\ proc[p].pc = "work"
    /\ \/ \E rows \in SUBSET Accounts :
            /\ ~proc[p].txn
            /\ IF engine = "sqlite" THEN Writers(p) = {}
                                    ELSE \A a \in rows : RowHolders(p, a) = {}
            /\ proc' = [proc EXCEPT ![p].txn = TRUE, ![p].rows = rows]
            /\ UNCHANGED followers
       \/ /\ followers' \in {followers, followers \cup proc[p].rows}
          /\ proc' = [proc EXCEPT ![p] = Idle]
    /\ UNCHANGED <<engine, content, files, done, cutoff, crashes>>

-----------------------------------------------------------------------------
(* Failures.                                                               *)

\* Processes that q waits for; the rest of a run may wait for any row.
WaitsFor(q) == IF proc[q].pc = "work" /\ engine = "postgres"
               THEN {r \in Procs \ {q} : proc[r].rows # {}} ELSE Blockers(q)

\* SQLite: "database is locked".  PostgreSQL: the victim of a deadlock.
GiveUp(p) ==
    /\ Blockers(p) # {}
    /\ engine = "sqlite" \/ \E S \in SUBSET Procs :
         p \in S /\ \A q \in S : WaitsFor(q) \cap S # {} /\ \E w \in S : q \in WaitsFor(w)
    /\ Ends(p)
    /\ UNCHANGED <<engine, content, files, followers, done, crashes>>

\* The process dies, or the file system or the database raises.
Crash(p) ==
    /\ proc[p].pc # "idle"
    /\ crashes < MaxCrashes
    /\ crashes' = crashes + 1
    /\ Ends(p)
    /\ UNCHANGED <<engine, content, files, followers, done>>

-----------------------------------------------------------------------------

Import(p) == Look(p) \/ Read(p) \/ Upsert(p) \/ Archive(p) \/ SetDone(p) \/ Commit(p)
Advance(p) == Import(p) \/ Work(p)

Next == \E p \in Procs : Start(p) \/ Advance(p) \/ GiveUp(p) \/ Crash(p)

Spec == Init /\ [][Next]_vars

\* A process is scheduled, PostgreSQL grants a wait that ends, and runs are
\* started again and again.
LiveSpec == /\ Spec
            /\ \A p \in Procs : /\ WF_vars(Advance(p) \/ GiveUp(p))
                                /\ engine = "postgres" => SF_vars(Advance(p))
            /\ SF_vars(\E p \in Procs : Start(p))

-----------------------------------------------------------------------------
(* Properties.                                                             *)

Names(f) == {content[f][i] : i \in 1..Len(content[f])}

\* The accounts of a file are in the table, or in the transaction of the process
\* that renamed it.
Kept(f) ==
    \/ Names(f) \subseteq followers
    \/ \E q \in Procs : f \in proc[q].moved /\ Names(f) \subseteq followers \cup proc[q].rows

\* When the import is done, and no run looks at the files again, no account of a
\* legacy file is forgotten, unless the file was renamed by a process that failed
\* afterwards: however the imports of several runs share the files between them.
NothingForgotten ==
    done => \A f \in Files : files[f] = "absent" \/ f \in cutoff \/ Kept(f)

\* Under SQLite it takes a crash to forget a file, provided that no file is empty:
\* the first name written locks the other imports out before anything is renamed.
RaceLosesNothing ==
    (engine = "sqlite" /\ crashes = 0 /\ \A f \in Files : content[f] # <<>>) =>
        \A f \in Files : files[f] = "archived" => Kept(f)

\* A renamed file is a migrated one, as the documentation has it.
ArchivedIsMigrated == \A f \in Files : files[f] = "archived" => Kept(f)

\* Runs that are started again and again finish the import, although imports that
\* race for a file or a row make each other fail.
ImportHappens == <>done

=============================================================================
