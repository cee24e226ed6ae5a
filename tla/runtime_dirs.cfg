\* Two invocations meet anything at the three paths, or nothing, on a file
\* system that may keep owner and mode; killed or rebooted anywhere.
SPECIFICATION Spec
CONSTANTS
    Procs = {p1, p2}
    Installed <- Anything
    Stubborn = TRUE
    Killed = TRUE
    Nil = Nil
INVARIANTS
    RuntimeInv
    SecuredWhenUsed
PROPERTIES
    RefusedForCause
SYMMETRY SlotSymmetry
