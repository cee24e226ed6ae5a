--------------------------- MODULE MCOdusRuntime ---------------------------
(***************************************************************************)
(* OdusRuntime for TLC: what an earlier version, or an administrator, may  *)
(* have left in /var/run.                                                  *)
(***************************************************************************)
EXTENDS OdusRuntime, TLC

Left(isDir, owner, mode) == [isDir |-> isDir, owner |-> owner, mode |-> mode]

Anything == {Left(TRUE, "root:root", "0700"), Left(TRUE, "root:root", "open"),
             Left(TRUE, "root:caller", "0700"), Left(TRUE, "other", "open"),
             Left(FALSE, "root:root", "open")}

SlotSymmetry == Permutations(Procs)
=============================================================================
