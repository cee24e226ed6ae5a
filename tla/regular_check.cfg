\* One invocation meets what an administrator may have left.
SPECIFICATION Spec
CONSTANTS
    Procs = {p1}
    Gids = {staff}
    RootGid = root
    Installed <- Anything
    Killed = FALSE
    Nil = Nil
PROPERTIES
    OnlyRegularAccepted
