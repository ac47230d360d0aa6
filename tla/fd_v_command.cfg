SPECIFICATION Spec
CONSTANTS
    project = project
    profile = profile
    fork1 = fork1
    fork2 = fork2
    fork3 = fork3
    mine = mine
    origin = origin
    middle = middle
    root = root
    Repos <- AllRepos
    Listing <- Pages
    Forked <- Flagged
    Up <- Sources
    Told <- Minimal
    Owner <- Owners
    Account <- Logins
    Readme <- Profiles
    User = "alice"
    Me = "me"
    NoRepo = NoRepo
    NoLimit = NoLimit
    MaxForks = 2
    Requests <- ForksAndMore
    Engines <- BothEngines
    MaxFaults = 1
INVARIANT CommandWorks
