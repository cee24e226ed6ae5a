----------------------------- MODULE OdusRuntime -----------------------------
(***************************************************************************)
(* ensure_runtime_dirs (auth.rs): before authenticate touches a state file *)
(* it creates and hardens /var/run/odus, its ts and its fails, in this     *)
(* order.  Invocations of different callers overlap, each may be killed    *)
(* between two system calls, and a reboot empties /var/run.                *)
(*                                                                         *)
(* OdusAuth starts where this module ends: its state files are nobody's    *)
(* but root's because the directories are.                                 *)
(***************************************************************************)
CONSTANTS
    Procs,          \* slots for concurrent invocations
    Installed,      \* what may be at the three paths before the first invocation
    Stubborn,       \* TRUE: the file system may ignore a change of owner or mode
    Killed,         \* TRUE: an invocation may be killed, the machine rebooted
    Nil             \* nothing there

\* The directories, and the order they are dealt with.
Dirs == {"runtime", "ts", "fails"}
After(d) == IF d = "runtime" THEN "ts" ELSE "fails"
Before(d) ==
    IF d = "runtime" THEN {} ELSE IF d = "ts" THEN {"runtime"} ELSE {"runtime", "ts"}

\* mkdir gives the group of the caller unless the file system decides
\* otherwise, and the mode the caller's umask leaves.
Owners == {"root:root", "root:caller", "other"}
Modes == {"0700", "open"}
DirStates == [isDir : BOOLEAN, owner : Owners, mode : Modes]

ASSUME InstalledAssumption ==
    /\ Installed \subseteq DirStates
    /\ Nil \notin DirStates
    /\ Stubborn \in BOOLEAN /\ Killed \in BOOLEAN

VARIABLES
    entry,      \* what is at each of the three paths, Nil when nothing
    pc,         \* where each invocation is
    at,         \* the directory it is dealing with
    ignored     \* history: the calls of each invocation that have had no effect

vars == <<entry, pc, at, ignored>>

Hardening == {"mkdir", "open", "chown", "chmod", "recheck"}
Ended == {"idle", "ready", "refused"}

Goto(p, next) == pc' = [pc EXCEPT ![p] = next]

Calls == Dirs \X {"fchown", "fchmod"}

\* The call reports success and changes nothing.
Ignore(p, call) ==
    /\ Stubborn
    /\ entry' = entry
    /\ ignored' = [ignored EXCEPT ![p] = @ \cup {<<at[p], call>>}]

-----------------------------------------------------------------------------
Begin(p) ==
    /\ pc[p] \in Ended
    /\ Goto(p, "mkdir")
    /\ at' = [at EXCEPT ![p] = "runtime"]
    /\ ignored' = [ignored EXCEPT ![p] = {}]
    /\ entry' = entry

MakeDir(p) ==
    /\ pc[p] = "mkdir"
    /\ entry[at[p]] = Nil
    /\ \E o \in {"root:root", "root:caller"}, m \in Modes :
          entry' = [entry EXCEPT ![at[p]] = [isDir |-> TRUE, owner |-> o, mode |-> m]]
    /\ Goto(p, "open")
    /\ UNCHANGED <<at, ignored>>

\* EEXIST is an error like any other.
DirExistsFails(p) ==
    /\ pc[p] = "mkdir"
    /\ entry[at[p]] # Nil
    /\ Goto(p, "refused")
    /\ UNCHANGED <<entry, at, ignored>>

\* AlreadyExists: whatever is there is opened and hardened.
DirExists(p) ==
    /\ pc[p] = "mkdir"
    /\ entry[at[p]] # Nil
    /\ Goto(p, "open")
    /\ UNCHANGED <<entry, at, ignored>>

\* p is done with a directory.
Continue(p) ==
    /\ Goto(p, IF at[p] = "fails" THEN "ready" ELSE "mkdir")
    /\ at' = [at EXCEPT ![p] = After(@)]

\* A directory of root's is left as it is.
InspectTrusting(p) ==
    /\ pc[p] = "open"
    /\ entry[at[p]].isDir
    /\ IF entry[at[p]].owner = "root:root" THEN Continue(p)
       ELSE Goto(p, "chown") /\ at' = at
    /\ UNCHANGED <<entry, ignored>>

\* open(O_DIRECTORY | O_NOFOLLOW) and fstat: the owner decides about fchown.
Inspect(p) ==
    /\ pc[p] = "open"
    /\ entry[at[p]].isDir
    /\ Goto(p, IF entry[at[p]].owner = "root:root" THEN "chmod" ELSE "chown")
    /\ UNCHANGED <<entry, at, ignored>>

\* A file or a symbolic link cannot be opened so.
NotADirectory(p) ==
    /\ pc[p] = "open"
    /\ ~entry[at[p]].isDir
    /\ Goto(p, "refused")
    /\ UNCHANGED <<entry, at, ignored>>

ChownRoot(p) ==
    /\ pc[p] = "chown"
    /\ \/ entry' = [entry EXCEPT ![at[p]].owner = "root:root"] /\ ignored' = ignored
       \/ Ignore(p, "fchown")
    /\ Goto(p, "chmod")
    /\ at' = at

SetMode(p) ==
    /\ pc[p] = "chmod"
    /\ \/ entry' = [entry EXCEPT ![at[p]].mode = "0700"] /\ ignored' = ignored
       \/ Ignore(p, "fchmod")
    /\ Goto(p, "recheck")
    /\ at' = at

\* The second fstat is not looked at.
HardenedUnchecked(p) ==
    /\ pc[p] = "recheck"
    /\ Continue(p)
    /\ UNCHANGED <<entry, ignored>>

\* The second fstat is looked at for the owner, not for the mode.
Hardened(p) ==
    /\ pc[p] = "recheck"
    /\ entry[at[p]].owner = "root:root"
    /\ Continue(p)
    /\ UNCHANGED <<entry, ignored>>

NotHardened(p) ==
    /\ pc[p] = "recheck"
    /\ entry[at[p]].owner # "root:root"
    /\ Goto(p, "refused")
    /\ UNCHANGED <<entry, at, ignored>>

\* Killed between two system calls, or one of them failed.
Abort(p) ==
    /\ Killed
    /\ pc[p] \in Hardening
    /\ Goto(p, "idle")
    /\ UNCHANGED <<entry, at, ignored>>

\* /var/run is a memory file system.
Reboot ==
    /\ Killed
    /\ entry' = [d \in Dirs |-> Nil]
    /\ pc' = [p \in Procs |-> "idle"]
    /\ UNCHANGED <<at, ignored>>

-----------------------------------------------------------------------------
\* ts and fails can only be there if /var/run/odus is a directory.
Init ==
    /\ entry \in [Dirs -> Installed \cup {Nil}]
    /\ entry["runtime"] = Nil \/ ~entry["runtime"].isDir =>
          entry["ts"] = Nil /\ entry["fails"] = Nil
    /\ pc = [p \in Procs |-> "idle"]
    /\ at = [p \in Procs |-> "runtime"]
    /\ ignored = [p \in Procs |-> {}]

Step(p) ==
    \/ MakeDir(p)
    \/ DirExists(p)
    \/ Inspect(p)
    \/ NotADirectory(p)
    \/ ChownRoot(p)
    \/ SetMode(p)
    \/ Hardened(p)
    \/ NotHardened(p)

Next ==
    \/ \E p \in Procs : Begin(p) \/ Step(p) \/ Abort(p)
    \/ Reboot

Spec == Init /\ [][Next]_vars

-----------------------------------------------------------------------------
(* Properties *)

\* Every variable has its type.
TypeOK ==
    /\ entry \in [Dirs -> DirStates \cup {Nil}]
    /\ pc \in [Procs -> Hardening \cup Ended]
    /\ at \in [Procs -> Dirs]
    /\ ignored \in [Procs -> SUBSET Calls]

\* Root's alone, as far as the file system has let p make it so.
Secured(p, d) ==
    /\ entry[d] # Nil
    /\ entry[d].isDir
    /\ entry[d].owner = "root:root"
    /\ entry[d].mode = "0700" \/ <<d, "fchmod">> \in ignored[p]

\* authenticate goes on to its state files only when all three directories are
\* root's alone, and they stay so while it uses them: whatever was installed,
\* whoever is creating them at the same time or died doing so.  Of the mode this
\* is so unless its own fchmod had no effect, which nothing looks at.
SecuredWhenUsed == \A p \in Procs : pc[p] = "ready" => \A d \in Dirs : Secured(p, d)

(***************************************************************************)
(* What SecuredWhenUsed and RefusedForCause rest on.                       *)
(***************************************************************************)
\* What an invocation at each point of ensure_secure_dir knows.
Progress(p) ==
    /\ pc[p] \in Hardening => \A d \in Before(at[p]) : Secured(p, d)
    /\ pc[p] \in Hardening \ {"mkdir"} => entry[at[p]] # Nil
    /\ pc[p] \in {"chown", "chmod", "recheck"} => entry[at[p]].isDir
    /\ pc[p] = "recheck" =>
          entry[at[p]].mode = "0700" \/ <<at[p], "fchmod">> \in ignored[p]
    /\ pc[p] \in {"chmod", "recheck"} =>
          entry[at[p]].owner = "root:root" \/ <<at[p], "fchown">> \in ignored[p]

\* The inductive invariant: the directories behind p are root's alone, the one
\* it is at is as far as its last step has brought it, and nothing loosens one.
RuntimeInv ==
    /\ TypeOK
    /\ SecuredWhenUsed
    /\ \A p \in Procs : Progress(p)

\* An invocation is refused for what stands in its way and never for meeting
\* another one: because something is no directory, or its own fchown of this very
\* directory had no effect.  What it has found or made root's, others leave so.
RefusedForCause ==
    [][\A p \in Procs :
          pc[p] # "refused" /\ pc'[p] = "refused" =>
             \/ ~entry[at[p]].isDir
             \/ <<at[p], "fchown">> \in ignored[p]]_vars
=============================================================================
