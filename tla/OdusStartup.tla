----------------------------- MODULE OdusStartup -----------------------------
(***************************************************************************)
(* What main does before it reads the command: create the two root files,  *)
(* /etc/odus.toml and /etc/pam.d/odus, if they are missing, verify them,   *)
(* and load the configuration.  Invocations of different callers overlap,  *)
(* each may be killed between two system calls, the power may fail, and    *)
(* nothing but the files outlives it.                                      *)
(*                                                                         *)
(* The binary is setuid root but not setgid, so on Linux a new file is of  *)
(* the group of the caller until fchown.  On FreeBSD it has the group of   *)
(* /etc from the start, which is root's, as it has on Linux for a caller   *)
(* of the group root.                                                      *)
(***************************************************************************)
EXTENDS FiniteSets, Naturals

CONSTANTS
    Procs,          \* slots for concurrent invocations
    Gids, RootGid,  \* groups a new file may get, the group root
    Installed,      \* files that may be there before the first invocation
    Killed,         \* TRUE: an invocation may be killed or meet an I/O error,
                    \* and the power may fail
    Nil             \* no file, nothing loaded

Files == {"config", "pam"}
Kinds == {"regular", "symlink", "socket", "other"}
Modes == {"0600", "0644", "lax"}
Contents == {"unfinished", "default", "admin"}

FileStates == [kind : Kinds, rootUid : BOOLEAN, gid : Gids \cup {RootGid},
               mode : Modes, content : Contents]

ASSUME InstalledAssumption ==
    /\ \A s \in Installed : s \in FileStates /\ s.content = "admin"
    /\ Nil \notin FileStates \cup Contents
    /\ Killed \in BOOLEAN

VARIABLES
    file,       \* each of the two files, Nil when missing
    pc,         \* where each invocation is
    at,         \* the file it is dealing with
    loaded,     \* the configuration it has loaded
    durable,    \* the files whose content is known to be on disk
    lost,       \* history: the files whose content a power failure took
    inherited   \* history: the files created with the group root

vars == <<file, pc, at, loaded, durable, lost, inherited>>
past == <<lost, inherited>>
disk == <<durable, past>>

Creating == {"write", "chown", "chmod"}
Running == {"create", "verify", "load"} \cup Creating
Ended == {"idle", "ready", "refused"}

Goto(p, next) == pc' = [pc EXCEPT ![p] = next]

-----------------------------------------------------------------------------
Begin(p) ==
    /\ pc[p] \in Ended
    /\ Goto(p, "create")
    /\ at' = [at EXCEPT ![p] = "config"]
    /\ loaded' = [loaded EXCEPT ![p] = Nil]
    /\ UNCHANGED <<file, disk>>

\* open(O_CREAT | O_TRUNC) instead of create_new.
CreateTruncating(p) ==
    /\ pc[p] = "create"
    /\ \E g \in Gids :
          file' = [file EXCEPT ![at[p]] =
                     IF @ # Nil THEN [@ EXCEPT !.content = "unfinished"]
                     ELSE [kind |-> "regular", rootUid |-> TRUE, gid |-> g,
                           mode |-> "0600", content |-> "unfinished"]]
    /\ Goto(p, "write")
    /\ durable' = durable \ {at[p]}
    /\ UNCHANGED <<at, loaded, past>>

\* create_new: the file is created only if the name is free.
CreateNew(p) ==
    /\ pc[p] = "create"
    /\ file[at[p]] = Nil
    /\ \E g \in Gids :
          /\ file' = [file EXCEPT ![at[p]] =
                        [kind |-> "regular", rootUid |-> TRUE, gid |-> g,
                         mode |-> "0600", content |-> "unfinished"]]
          /\ inherited' = IF g = RootGid THEN inherited \cup {at[p]}
                          ELSE inherited \ {at[p]}
    /\ Goto(p, "write")
    /\ durable' = durable \ {at[p]}
    /\ lost' = lost \ {at[p]}
    /\ UNCHANGED <<at, loaded>>

\* AlreadyExists, for a symbolic link too: whatever is there is verified.
FoundExisting(p) ==
    /\ pc[p] = "create"
    /\ file[at[p]] # Nil
    /\ Goto(p, "verify")
    /\ UNCHANGED <<file, at, loaded, disk>>

\* sync_all is left out.
WriteContentUnflushed(p) ==
    /\ pc[p] = "write"
    /\ file' = [file EXCEPT ![at[p]].content = "default"]
    /\ Goto(p, "chown")
    /\ UNCHANGED <<at, loaded, disk>>

\* The PAM file is flushed (sync_all) before anything else is done to it, the
\* configuration is not.
WriteContent(p) ==
    /\ pc[p] = "write"
    /\ file' = [file EXCEPT ![at[p]].content = "default"]
    /\ durable' = IF at[p] = "pam" THEN durable \cup {"pam"} ELSE durable
    /\ Goto(p, "chown")
    /\ UNCHANGED <<at, loaded, past>>

ChownRoot(p) ==
    /\ pc[p] = "chown"
    /\ file' = [file EXCEPT ![at[p]].gid = RootGid]
    /\ Goto(p, "chmod")
    /\ UNCHANGED <<at, loaded, disk>>

\* The configuration is then verified like an existing one; the PAM file is
\* the last one and is not.
SetFinalMode(p) ==
    /\ pc[p] = "chmod"
    /\ file' = [file EXCEPT ![at[p]].mode = IF at[p] = "pam" THEN "0644" ELSE "0600"]
    /\ Goto(p, IF at[p] = "pam" THEN "load" ELSE "verify")
    /\ UNCHANGED <<at, loaded, disk>>

\* verify_integrity and verify_pam_integrity, one lstat each
SafeModes(f) == IF f = "pam" THEN {"0600", "0644"} ELSE {"0600"}

\* contains(S_IFREG) tests one bit, which S_IFLNK and S_IFSOCK have as well.
HasRegularBit(f) == file[f].kind \in {"regular", "symlink", "socket"}

TrustedAnyGroup(f) ==
    HasRegularBit(f) /\ file[f].rootUid /\ file[f].mode \in SafeModes(f)

Trusted(f) ==
    /\ HasRegularBit(f)
    /\ file[f].rootUid /\ file[f].gid = RootGid
    /\ file[f].mode \in SafeModes(f)

Accept(p) ==
    /\ pc[p] = "verify"
    /\ Trusted(at[p])
    /\ Goto(p, IF at[p] = "pam" THEN "load" ELSE "create")
    /\ at' = [at EXCEPT ![p] = "pam"]
    /\ UNCHANGED <<file, loaded, disk>>

Refuse(p) ==
    /\ pc[p] = "verify"
    /\ ~Trusted(at[p])
    /\ Goto(p, "refused")
    /\ UNCHANGED <<file, at, loaded, disk>>

\* config::load opens the path again, with O_NOFOLLOW.
Load(p) ==
    /\ pc[p] = "load"
    /\ file["config"].kind = "regular"
    /\ loaded' = [loaded EXCEPT ![p] = file["config"].content]
    /\ Goto(p, "ready")
    /\ UNCHANGED <<file, at, disk>>

\* A symbolic link or a socket cannot be opened; what an administrator wrote, or
\* odus has not finished, may not be TOML.
LoadFails(p) ==
    /\ pc[p] = "load"
    /\ file["config"].kind # "regular" \/ file["config"].content # "default"
    /\ Goto(p, "refused")
    /\ UNCHANGED <<file, at, loaded, disk>>

\* Killed between two system calls, or one of them failed.
Abort(p) ==
    /\ Killed
    /\ pc[p] \in Running
    /\ Goto(p, "idle")
    /\ UNCHANGED <<file, at, loaded, disk>>

(***************************************************************************)
(* The power fails.  What odus created may be gone, or there without the   *)
(* content that was not flushed: owner and mode are metadata, which file   *)
(* systems commit before the data.  What is found after the restart stays. *)
(***************************************************************************)
Emptied(s) == [s EXCEPT !.content = "unfinished"]

Survivors(f) ==
    IF file[f] = Nil \/ file[f].content = "admin" THEN {file[f]}
    ELSE {file[f], Nil} \cup (IF f \in durable THEN {} ELSE {Emptied(file[f])})

PowerCut ==
    /\ Killed
    /\ file' \in {s \in [Files -> {Nil} \cup UNION {Survivors(f) : f \in Files}] :
                    \A f \in Files : s[f] \in Survivors(f)}
    /\ lost' = lost \cup {f \in Files : /\ file[f] # Nil /\ file[f].content = "default"
                                        /\ file'[f] = Emptied(file[f])}
    /\ durable' = Files
    /\ inherited' = inherited
    /\ pc' = [p \in Procs |-> "idle"]
    /\ loaded' = [p \in Procs |-> Nil]
    /\ at' = at

-----------------------------------------------------------------------------
Init ==
    /\ file \in [Files -> Installed \cup {Nil}]
    /\ pc = [p \in Procs |-> "idle"]
    /\ at = [p \in Procs |-> "config"]
    /\ loaded = [p \in Procs |-> Nil]
    /\ durable = Files
    /\ lost = {}
    /\ inherited = {}

Step(p) ==
    \/ CreateNew(p)
    \/ FoundExisting(p)
    \/ WriteContent(p)
    \/ ChownRoot(p)
    \/ SetFinalMode(p)
    \/ Accept(p)
    \/ Refuse(p)
    \/ Load(p)
    \/ LoadFails(p)

Next ==
    \/ \E p \in Procs : Begin(p) \/ Step(p) \/ Abort(p)
    \/ PowerCut

Spec == Init /\ [][Next]_vars

-----------------------------------------------------------------------------
(* Properties *)

\* Every variable has its type.
TypeOK ==
    /\ file \in [Files -> FileStates \cup {Nil}]
    /\ pc \in [Procs -> Running \cup Ended]
    /\ at \in [Procs -> Files]
    /\ loaded \in [Procs -> Contents \cup {Nil}]
    /\ durable \subseteq Files
    /\ lost \subseteq Files
    /\ inherited \subseteq Files

\* An invocation goes on to read rules and passwords only with a complete
\* configuration and a complete PAM service file: a file that another
\* invocation is still writing, or died writing, is refused for its group.
\* There are two exceptions.  A file created with the group root cannot be told
\* from a finished one (see FinishedFilesOnly).  And of the configuration, which
\* is not flushed, a power failure may leave an empty file that is accepted; of
\* the PAM file it may not, because that is flushed before it gets its owner.
OnlyCompleteTrusted ==
    \A p \in Procs :
       pc[p] = "ready" =>
          /\ file["pam"].content # "unfinished" \/ "pam" \in inherited
          /\ loaded[p] \in {"default", "admin"} \/ "config" \in lost \cup inherited

\* A file is written by the invocation that created it and by no other.
OneCreator ==
    \A p, q \in Procs :
       pc[p] \in Creating /\ pc[q] \in Creating /\ at[p] = at[q] => p = q

(***************************************************************************)
(* What OnlyCompleteTrusted rests on: the group of a file becomes root     *)
(* only after its content is there.                                        *)
(***************************************************************************)
\* The file is there with its whole content.
Complete(f) == file[f] # Nil /\ file[f].content # "unfinished"

\* An unfinished file is not yet of the group root, unless it was so from the
\* start or the content it had was lost.
UnfinishedForeign ==
    \A f \in Files \ (lost \cup inherited) :
       file[f] # Nil /\ ~Complete(f) => file[f].gid # RootGid

\* A PAM file with content is one whose content cannot be lost.
PamDurable ==
    /\ "pam" \notin lost
    /\ Complete("pam") => "pam" \in durable

\* What an invocation at each point of main knows of the two files.
Progress(p) ==
    /\ pc[p] \in Creating => file[at[p]] # Nil /\ file[at[p]].content # "admin"
    /\ pc[p] \in {"chown", "chmod"} => Complete(at[p])
    /\ pc[p] = "verify" => file[at[p]] # Nil
    /\ pc[p] \in Running /\ at[p] = "pam" =>
          /\ file["config"] # Nil
          /\ Complete("config") \/ "config" \in lost \cup inherited
    /\ pc[p] = "load" => /\ at[p] = "pam" /\ file["pam"] # Nil
                         /\ Complete("pam") \/ "pam" \in inherited
    /\ pc[p] = "ready" =>
          /\ file["config"] # Nil /\ file["pam"] # Nil
          /\ Complete("pam") \/ "pam" \in inherited
          /\ loaded[p] \in {"default", "admin"} \/ "config" \in lost \cup inherited

\* The inductive invariant: an unfinished file still has the group of its
\* creator, so no invocation has got past it, unless that group was root's.
StartupInv ==
    /\ TypeOK
    /\ UnfinishedForeign
    /\ PamDurable
    /\ \A p \in Procs : Progress(p)
    /\ OneCreator

\* The files an administrator installed are never written to, whatever
\* state they are in.
InstalledUntouched ==
    [][\A f \in Files :
          file[f] # Nil /\ file[f].content = "admin" => file'[f] = file[f]]_vars

\* An invocation on a machine with neither file ends up ready: the files are
\* "created automatically on first run".
FirstRunAccepted ==
    [][\A p \in Procs : pc[p] = "verify" => pc'[p] # "refused"]_vars

\* No invocation uses a file another has not finished: ensure_default_and_perms
\* "ensures the config file exists with sane defaults", exclusive creation is to
\* "eliminate the TOCTOU window".  But what the check looks at is the owner.
FinishedFilesOnly ==
    \A p \in Procs :
       pc[p] = "ready" => file["pam"].content # "unfinished" /\ loaded[p] # "unfinished"

\* A file that passes the check is a plain one: verify_integrity is to "reject
\* anything that is not a plain regular file".
OnlyRegularAccepted ==
    [][\A p \in Procs :
          pc[p] = "verify" /\ pc'[p] \in {"create", "load"} =>
             file[at[p]].kind = "regular"]_vars
=============================================================================
