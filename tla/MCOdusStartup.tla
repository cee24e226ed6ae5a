--------------------------- MODULE MCOdusStartup ---------------------------
(***************************************************************************)
(* OdusStartup for TLC: the files an administrator may have left.          *)
(***************************************************************************)
EXTENDS OdusStartup, TLC

Left(kind, rootUid, gid, mode) ==
    [kind |-> kind, rootUid |-> rootUid, gid |-> gid, mode |-> mode,
     content |-> "admin"]

Proper == {Left("regular", TRUE, RootGid, "0600"), Left("regular", TRUE, RootGid, "0644")}

Improper == {Left("other", TRUE, RootGid, "0600"),
             Left("regular", FALSE, RootGid, "0600"),
             Left("regular", TRUE, CHOOSE g \in Gids \ {RootGid} : TRUE, "0600"),
             Left("regular", TRUE, RootGid, "lax"),
             Left("symlink", TRUE, RootGid, "lax")}

\* FreeBSD links have modes of their own; a socket has them anywhere.
NotPlain == {Left("symlink", TRUE, RootGid, "0600"),
             Left("socket", TRUE, RootGid, "0600")}

Anything == Proper \cup Improper \cup NotPlain
Nothing == {}

SlotSymmetry == Permutations(Procs)
=============================================================================
