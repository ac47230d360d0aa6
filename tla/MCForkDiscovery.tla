---------------------------- MODULE MCForkDiscovery ----------------------------
(* Small instances of ForkDiscovery for TLC.                                 *)
EXTENDS ForkDiscovery

CONSTANTS project, profile, fork1, fork2, fork3, mine, origin, middle, root

AllRepos == {project, profile, fork1, fork2, fork3, mine, origin, middle, root}

\* Two repositories of the user's own and three forks on two pages: one of a fork
\* that is the bot's, one over two steps whose root belongs to the owner of the
\* first chain's, spelled in another way, and one that the listing says no more
\* of than that it is a fork.
Pages == <<<<project, fork1>>, <<profile, fork2, fork3>>>>
Sources == [r \in AllRepos |-> CASE r = fork1 -> mine
                                 [] r = mine -> origin
                                 [] r = fork2 -> middle
                                 [] r \in {middle, fork3} -> root
                                 [] OTHER -> NoRepo]
Flagged == {fork1, fork2, fork3, mine, middle}
Owners == [r \in AllRepos |-> CASE r = mine -> "me"
                                [] r = origin -> "bob"
                                [] r = middle -> "carol"
                                [] r = root -> "Bob"
                                [] OTHER -> "alice"]
Logins == [n \in {"alice", "bob", "Bob", "carol", "me"} |-> IF n = "Bob" THEN "bob" ELSE n]
Profiles == {profile}

\* Two forks of three come with their sources in the listing, or, as in the
\* listing of the repositories of a user, none does.
Detailed == {fork1, fork2}
Minimal == {}

\* Forks always, everything else as it may be.
ForksAndMore == {o \in Options : o.forked}
BothEngines == {"sqlite", "postgres"}

=============================================================================
