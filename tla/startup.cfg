\* Three invocations, whose new files are of the caller's group or root's, meet
\* any files, or none, and may be killed anywhere.
SPECIFICATION Spec
CONSTANTS
    Procs = {p1, p2, p3}
    Gids = {staff, root}
    RootGid = root
    Installed <- Anything
    Killed = TRUE
    Nil = Nil
INVARIANTS
    StartupInv
    OnlyCompleteTrusted
    OneCreator
PROPERTIES
    InstalledUntouched
SYMMETRY SlotSymmetry
