\* Two first runs at once.
SPECIFICATION Spec
CONSTANTS
    Procs = {p1, p2}
    Gids = {staff}
    RootGid = root
    Installed <- Nothing
    Killed = FALSE
    Nil = Nil
PROPERTIES
    FirstRunAccepted
