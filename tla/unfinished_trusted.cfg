\* Two first runs at once where new files get the group root, as on FreeBSD.
SPECIFICATION Spec
CONSTANTS
    Procs = {p1, p2}
    Gids = {root}
    RootGid = root
    Installed <- Nothing
    Killed = FALSE
    Nil = Nil
INVARIANTS
    FinishedFilesOnly
