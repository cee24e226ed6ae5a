------------------------------ MODULE OdusAuth ------------------------------
(***************************************************************************)
(* auth.rs: authenticate and the state files it shares with every other    *)
(* invocation.  Each member of Procs is a slot in which one invocation of  *)
(* odus runs after another; the slots interleave at every system call that *)
(* touches the shared directories.                                         *)
(*                                                                         *)
(* /var/run/odus/ts holds one file per user and login session, with the    *)
(* time of the last password authentication; /var/run/odus/fails one per   *)
(* user, with the time before which no prompt may be shown.  A file is an  *)
(* inode: unlinking its name leaves it to whoever has it open, and O_TRUNC *)
(* empties it under its readers.                                           *)
(***************************************************************************)
EXTENDS CachePolicy, FiniteSets

CONSTANTS
    Procs,          \* slots for concurrent invocations
    Users, Sids,    \* real users and login session ids
    Inodes,         \* enough files for every name and every open descriptor
    Configs,        \* the values cache_timeout and max_tries may have
    NoPasswdRules,  \* the values `nopasswd` may have in the matched rule
    Faults,         \* TRUE: an invocation may be killed or meet an I/O error
    ClockSteps,     \* times an administrator may set the wall clock to
    MaxClock,       \* no invocation starts, no clock is set, after this time
    Nil             \* no file, no name, no request, nothing written, never

CacheNames == [dir : {"ts"}, user : Users, sid : Sids]
FailNames == [dir : {"fails"}, user : Users, sid : {Nil}]
Names == CacheNames \cup FailNames

Requests == [user : Users, sid : Sids, cfg : Configs, nopasswd : NoPasswdRules]

ASSUME ConfigsAssumption ==
    Configs \subseteq [cache_timeout : Int \cup {Unset},
                       max_tries : Int \cup {Unset}]

ASSUME ParametersAssumption ==
    /\ NoPasswdRules \subseteq BOOLEAN
    /\ Faults \in BOOLEAN
    /\ ClockSteps \subseteq Nat
    /\ MaxClock \in Nat

ASSUME NilAssumption == Nil \notin Int \cup Inodes \cup Names \cup Requests

VARIABLES
    wall,       \* the wall clock, in seconds
    dir,        \* the inode linked at each name, Nil when there is none
    data,       \* the timestamp in each inode, Nil when it is empty
    pc,         \* where each invocation is
    req,        \* who invoked it, under which rule and configuration
    todo,       \* entries of the directory listing still to be cleaned
    name,       \* the state file it is working on
    fd,         \* the inode its open descriptor refers to
    stamp,      \* the timestamp it is about to write
    left,       \* attempts_left
    nap,        \* seconds left of its sleep
    lastAuth,   \* history: when each user last authenticated in each session
    lastFail    \* history: when PAM last refused each user, since then

files == <<dir, data>>
history == <<lastAuth, lastFail>>
vars == <<wall, dir, data, pc, req, todo, name, fd, stamp, left, nap,
          lastAuth, lastFail>>

Ended == {"idle", "granted", "denied", "failed"}
Running == {"sweep_ts", "sweep_fails", "inspect", "remove", "lookup",
            "cooldown", "pause", "sleep", "prompt", "clear", "open", "write"}

-----------------------------------------------------------------------------
\* {username}_{sid} in ts, {username} in fails
CacheName(p) == [dir |-> "ts", user |-> req[p].user, sid |-> req[p].sid]
FailName(p) == [dir |-> "fails", user |-> req[p].user, sid |-> Nil]

Mode(p) == ModeOf(req[p].cfg)

\* The age at which the cleanup pass of p deletes the file n.
Retention(p, n) ==
    IF n.dir = "ts" THEN CacheRetention(Mode(p)) ELSE FailureStateRetention

Linked(names) == {n \in names : dir[n] # Nil}

Live(d, f) == {d[n] : n \in Names} \cup {f[p] : p \in Procs}

(***************************************************************************)
(* The kernel frees an inode with its last name and its last descriptor:   *)
(* the contents become `contents`, but those of a freed inode are gone.    *)
(***************************************************************************)
Settle(contents) ==
    data' = [i \in Inodes |-> IF i \in Live(dir', fd') THEN contents[i] ELSE Nil]

FreeInodes == Inodes \ Live(dir, fd)

\* open(O_CREAT | O_TRUNC) of n gives the linked inode or a new one.
OpenedInode(n) ==
    IF dir[n] # Nil THEN dir[n] ELSE CHOOSE i \in FreeInodes : TRUE

\* p goes on at `next`, working on no file.
Close(p, next) ==
    /\ pc' = [pc EXCEPT ![p] = next]
    /\ name' = [name EXCEPT ![p] = Nil]
    /\ fd' = [fd EXCEPT ![p] = Nil]

\* p returns from main; exiting closes its descriptor.
Finish(p, outcome) ==
    /\ Close(p, outcome)
    /\ req' = [req EXCEPT ![p] = Nil]
    /\ todo' = [todo EXCEPT ![p] = {}]
    /\ stamp' = [stamp EXCEPT ![p] = Nil]
    /\ left' = [left EXCEPT ![p] = 0]
    /\ nap' = [nap EXCEPT ![p] = 0]

-----------------------------------------------------------------------------
(* The cleanup pass *)

(***************************************************************************)
(* authenticate up to the first directory listing.  One getdents call      *)
(* reads a directory of this size, so the listing is a snapshot.           *)
(***************************************************************************)
Begin(p) ==
    /\ pc[p] \in Ended
    /\ wall <= MaxClock
    /\ \E r \in Requests : req' = [req EXCEPT ![p] = r]
    /\ pc' = [pc EXCEPT ![p] = "sweep_ts"]
    /\ todo' = [todo EXCEPT ![p] = Linked(CacheNames)]
    /\ UNCHANGED <<wall, files, name, fd, stamp, left, nap, history>>

\* cleanup_rate_limit_files lists its directory when ts is done.
ListFails(p) ==
    /\ pc[p] = "sweep_ts"
    /\ todo[p] = {}
    /\ pc' = [pc EXCEPT ![p] = "sweep_fails"]
    /\ todo' = [todo EXCEPT ![p] = Linked(FailNames)]
    /\ UNCHANGED <<wall, files, req, name, fd, stamp, left, nap, history>>

Sweeping(p, n) == pc[p] \in {"sweep_ts", "sweep_fails"} /\ n \in todo[p]

\* An entry is to go unread: retention is zero, or its file is gone already.
SweepUnread(p, n) ==
    /\ Sweeping(p, n)
    /\ Retention(p, n) = 0 \/ dir[n] = Nil
    /\ pc' = [pc EXCEPT ![p] = "remove"]
    /\ todo' = [todo EXCEPT ![p] = @ \ {n}]
    /\ name' = [name EXCEPT ![p] = n]
    /\ UNCHANGED <<wall, files, req, fd, stamp, left, nap, history>>

SweepOpenAgain(p, n) ==
    /\ Sweeping(p, n)
    /\ Retention(p, n) # 0 /\ dir[n] # Nil
    /\ pc' = [pc EXCEPT ![p] = "inspect"]
    /\ name' = [name EXCEPT ![p] = n]
    /\ fd' = [fd EXCEPT ![p] = dir[n]]
    /\ UNCHANGED <<wall, files, req, todo, stamp, left, nap, history>>

\* open_and_verify_cache on a listed entry
SweepOpen(p, n) ==
    /\ Sweeping(p, n)
    /\ Retention(p, n) # 0 /\ dir[n] # Nil
    /\ pc' = [pc EXCEPT ![p] = "inspect"]
    /\ todo' = [todo EXCEPT ![p] = @ \ {n}]
    /\ name' = [name EXCEPT ![p] = n]
    /\ fd' = [fd EXCEPT ![p] = dir[n]]
    /\ UNCHANGED <<wall, files, req, stamp, left, nap, history>>

\* Where the pass continues once it is done with an entry of the directory.
SweepOf(n) == IF n.dir = "ts" THEN "sweep_ts" ELSE "sweep_fails"

ShouldRemoveFuture(p) ==
    \/ data[fd[p]] = Nil
    \/ data[fd[p]] > wall
    \/ IsExpired(data[fd[p]], wall, Retention(p, name[p]))

ShouldRemove(p) ==
    \/ data[fd[p]] = Nil
    \/ IsExpired(data[fd[p]], wall, Retention(p, name[p]))

\* Read and judge the entry; the decision to remove it is acted on later.
Inspect(p) ==
    /\ pc[p] = "inspect"
    /\ pc' = [pc EXCEPT ![p] = IF ShouldRemove(p) THEN "remove" ELSE SweepOf(name[p])]
    /\ name' = [name EXCEPT ![p] = IF ShouldRemove(p) THEN @ ELSE Nil]
    /\ fd' = [fd EXCEPT ![p] = Nil]
    /\ dir' = dir
    /\ Settle(data)
    /\ UNCHANGED <<wall, req, todo, stamp, left, nap, history>>

\* clear_state_file by path, whatever the name is linked to by now
RemoveEntry(p) ==
    /\ pc[p] = "remove"
    /\ dir' = [dir EXCEPT ![name[p]] = Nil]
    /\ Close(p, SweepOf(name[p]))
    /\ Settle(data)
    /\ UNCHANGED <<wall, req, todo, stamp, left, nap, history>>

-----------------------------------------------------------------------------
(* The decision: nopasswd, cached, or prompt *)

Swept(p) == pc[p] = "sweep_fails" /\ todo[p] = {}

GrantNoPasswd(p) ==
    /\ Swept(p)
    /\ req[p].nopasswd
    /\ Finish(p, "granted")
    /\ UNCHANGED <<wall, files, history>>

\* needs_auth without a file to read: the mode ignores it, or it is absent.
SkipCache(p) ==
    /\ Swept(p)
    /\ ~req[p].nopasswd
    /\ Mode(p) = AlwaysPrompt \/ dir[CacheName(p)] = Nil
    /\ pc' = [pc EXCEPT ![p] = "cooldown"]
    /\ left' = [left EXCEPT ![p] = MaxTriesOf(req[p].cfg)]
    /\ UNCHANGED <<wall, files, req, todo, name, fd, stamp, nap, history>>

OpenCache(p) ==
    /\ Swept(p)
    /\ ~req[p].nopasswd
    /\ Mode(p) # AlwaysPrompt /\ dir[CacheName(p)] # Nil
    /\ pc' = [pc EXCEPT ![p] = "lookup"]
    /\ name' = [name EXCEPT ![p] = CacheName(p)]
    /\ fd' = [fd EXCEPT ![p] = dir[CacheName(p)]]
    /\ UNCHANGED <<wall, files, req, todo, stamp, left, nap, history>>

\* An empty or unparsable file means "authenticate", never an error.
NeedsAuth(p) ==
    data[fd[p]] # Nil => CacheRefuses(Mode(p), data[fd[p]], wall)

CacheMiss(p) ==
    /\ pc[p] = "lookup"
    /\ NeedsAuth(p)
    /\ Close(p, "cooldown")
    /\ left' = [left EXCEPT ![p] = MaxTriesOf(req[p].cfg)]
    /\ dir' = dir
    /\ Settle(data)
    /\ UNCHANGED <<wall, req, todo, stamp, nap, history>>

CacheHit(p) ==
    /\ pc[p] = "lookup"
    /\ ~NeedsAuth(p)
    /\ Finish(p, "granted")
    /\ dir' = dir
    /\ Settle(data)
    /\ UNCHANGED <<wall, history>>

-----------------------------------------------------------------------------
(* The prompt loop *)

\* enforce_failure_cooldown when nothing is recorded
NoCooldown(p) ==
    /\ pc[p] = "cooldown"
    /\ dir[FailName(p)] = Nil
    /\ pc' = [pc EXCEPT ![p] = "prompt"]
    /\ UNCHANGED <<wall, files, req, todo, name, fd, stamp, left, nap, history>>

OpenCooldown(p) ==
    /\ pc[p] = "cooldown"
    /\ dir[FailName(p)] # Nil
    /\ pc' = [pc EXCEPT ![p] = "pause"]
    /\ name' = [name EXCEPT ![p] = FailName(p)]
    /\ fd' = [fd EXCEPT ![p] = dir[FailName(p)]]
    /\ UNCHANGED <<wall, files, req, todo, stamp, left, nap, history>>

\* What remains of the recorded cooldown; nothing when the file is empty.
Remaining(p) ==
    IF data[fd[p]] = Nil THEN 0 ELSE SaturatingSub(data[fd[p]], wall)

ReadCooldown(p) ==
    /\ pc[p] = "pause"
    /\ nap' = [nap EXCEPT ![p] = Remaining(p)]
    /\ Close(p, IF Remaining(p) > 0 THEN "sleep" ELSE "prompt")
    /\ dir' = dir
    /\ Settle(data)
    /\ UNCHANGED <<wall, req, todo, stamp, left, history>>

\* A signal ends the sleep.
WakeEarly(p) ==
    /\ pc[p] = "sleep"
    /\ pc' = [pc EXCEPT ![p] = "prompt"]
    /\ UNCHANGED <<wall, files, req, todo, name, fd, stamp, left, nap, history>>

\* The sleep is over; the file is not read again.
Wake(p) ==
    /\ pc[p] = "sleep"
    /\ nap[p] = 0
    /\ pc' = [pc EXCEPT ![p] = "prompt"]
    /\ UNCHANGED <<wall, files, req, todo, name, fd, stamp, left, nap, history>>

\* read_password fails: the terminal is gone or at end of file.
NoPassword(p) ==
    /\ pc[p] = "prompt"
    /\ Finish(p, "failed")
    /\ UNCHANGED <<wall, files, history>>

PamAccepts(p) ==
    /\ pc[p] = "prompt"
    /\ pc' = [pc EXCEPT ![p] = "clear"]
    /\ UNCHANGED <<wall, files, req, todo, name, fd, stamp, left, nap, history>>

\* The cooldown is computed with the retention instead.
PamRejectsTooLong(p) ==
    /\ pc[p] = "prompt"
    /\ pc' = [pc EXCEPT ![p] = "open"]
    /\ name' = [name EXCEPT ![p] = FailName(p)]
    /\ stamp' = [stamp EXCEPT ![p] = wall + FailureStateRetention]
    /\ lastFail' = [lastFail EXCEPT ![req[p].user] = wall]
    /\ UNCHANGED <<wall, files, req, todo, fd, left, nap, lastAuth>>

\* The attempt is recorded in the file that grants access.
PamRejectsIntoCache(p) ==
    /\ pc[p] = "prompt"
    /\ pc' = [pc EXCEPT ![p] = "open"]
    /\ name' = [name EXCEPT ![p] = CacheName(p)]
    /\ stamp' = [stamp EXCEPT ![p] = wall + AuthFailureCooldown]
    /\ lastFail' = [lastFail EXCEPT ![req[p].user] = wall]
    /\ UNCHANGED <<wall, files, req, todo, fd, left, nap, lastAuth>>

\* do_pam_auth fails; record_auth_failure draws the time.
PamRejects(p) ==
    /\ pc[p] = "prompt"
    /\ pc' = [pc EXCEPT ![p] = "open"]
    /\ name' = [name EXCEPT ![p] = FailName(p)]
    /\ stamp' = [stamp EXCEPT ![p] = wall + AuthFailureCooldown]
    /\ lastFail' = [lastFail EXCEPT ![req[p].user] = wall]
    /\ UNCHANGED <<wall, files, req, todo, fd, left, nap, lastAuth>>

\* After acceptance: the cooldown file goes, then update_cache draws the time,
\* which is when the user has authenticated.
ClearFailures(p) ==
    /\ pc[p] = "clear"
    /\ dir' = [dir EXCEPT ![FailName(p)] = Nil]
    /\ pc' = [pc EXCEPT ![p] = "open"]
    /\ name' = [name EXCEPT ![p] = CacheName(p)]
    /\ stamp' = [stamp EXCEPT ![p] = wall]
    /\ lastFail' = [lastFail EXCEPT ![req[p].user] = Nil]
    /\ lastAuth' = [lastAuth EXCEPT ![<<req[p].user, req[p].sid>>] = wall]
    /\ fd' = fd
    /\ Settle(data)
    /\ UNCHANGED <<wall, req, todo, left, nap>>

-----------------------------------------------------------------------------
(* write_state_file *)

\* A file that exists is emptied, and stays empty until the write.
OpenStateFile(p) ==
    /\ pc[p] = "open"
    /\ dir[name[p]] # Nil \/ FreeInodes # {}
    /\ pc' = [pc EXCEPT ![p] = "write"]
    /\ fd' = [fd EXCEPT ![p] = OpenedInode(name[p])]
    /\ dir' = [dir EXCEPT ![name[p]] = OpenedInode(name[p])]
    /\ data' = [data EXCEPT ![OpenedInode(name[p])] = Nil]
    /\ UNCHANGED <<wall, req, todo, name, stamp, left, nap, history>>

Written(p) == [data EXCEPT ![fd[p]] = stamp[p]]

WriteCache(p) ==
    /\ pc[p] = "write" /\ name[p].dir = "ts"
    /\ Finish(p, "granted")
    /\ dir' = dir
    /\ Settle(Written(p))
    /\ UNCHANGED <<wall, history>>

WriteFailureUnchecked(p) ==
    /\ pc[p] = "write" /\ name[p].dir = "fails"
    /\ Close(p, "cooldown")
    /\ stamp' = [stamp EXCEPT ![p] = Nil]
    /\ left' = [left EXCEPT ![p] = @ - 1]
    /\ dir' = dir
    /\ Settle(Written(p))
    /\ UNCHANGED <<wall, req, todo, nap, history>>

\* The retry starts over with the cache lookup, and with all its attempts.
WriteFailureRestarts(p) ==
    /\ pc[p] = "write" /\ name[p].dir = "fails" /\ left[p] > 1
    /\ Close(p, "sweep_fails")
    /\ stamp' = [stamp EXCEPT ![p] = Nil]
    /\ left' = [left EXCEPT ![p] = 0]
    /\ dir' = dir
    /\ Settle(Written(p))
    /\ UNCHANGED <<wall, req, todo, nap, history>>

WriteFailure(p) ==
    /\ pc[p] = "write" /\ name[p].dir = "fails" /\ left[p] > 1
    /\ Close(p, "cooldown")
    /\ stamp' = [stamp EXCEPT ![p] = Nil]
    /\ left' = [left EXCEPT ![p] = @ - 1]
    /\ dir' = dir
    /\ Settle(Written(p))
    /\ UNCHANGED <<wall, req, todo, nap, history>>

\* attempts_left reaches zero.
WriteLastFailure(p) ==
    /\ pc[p] = "write" /\ name[p].dir = "fails" /\ left[p] = 1
    /\ Finish(p, "denied")
    /\ dir' = dir
    /\ Settle(Written(p))
    /\ UNCHANGED <<wall, history>>

\* sync_all fails after the write took effect.
FlushFails(p) ==
    /\ Faults
    /\ pc[p] = "write"
    /\ Finish(p, "failed")
    /\ dir' = dir
    /\ Settle(Written(p))
    /\ UNCHANGED <<wall, history>>

\* p is killed, or an operation fails and `?` returns the error.
Abort(p) ==
    /\ Faults
    /\ pc[p] \in Running
    /\ Finish(p, "failed")
    /\ dir' = dir
    /\ Settle(data)
    /\ UNCHANGED <<wall, history>>

-----------------------------------------------------------------------------
(* Time *)

\* A second passes, for the wall clock and for the sleepers alike.
Tick ==
    /\ wall < MaxClock \/ \E p \in Procs : nap[p] > 0
    /\ wall' = wall + 1
    /\ nap' = [p \in Procs |-> SaturatingSub(nap[p], 1)]
    /\ UNCHANGED <<files, pc, req, todo, name, fd, stamp, left, history>>

\* The wall clock is stepped; sleeps are measured on another clock.
SetClock(t) ==
    /\ t # wall
    /\ wall <= MaxClock
    /\ wall' = t
    /\ UNCHANGED <<files, pc, req, todo, name, fd, stamp, left, nap, history>>

\* The horizon of the model: nothing starts any more.
Rest ==
    /\ wall > MaxClock
    /\ \A p \in Procs : pc[p] \in Ended
    /\ UNCHANGED vars

-----------------------------------------------------------------------------
Init ==
    /\ wall = 0
    /\ dir = [n \in Names |-> Nil]
    /\ data = [i \in Inodes |-> Nil]
    /\ pc = [p \in Procs |-> "idle"]
    /\ req = [p \in Procs |-> Nil]
    /\ todo = [p \in Procs |-> {}]
    /\ name = [p \in Procs |-> Nil]
    /\ fd = [p \in Procs |-> Nil]
    /\ stamp = [p \in Procs |-> Nil]
    /\ left = [p \in Procs |-> 0]
    /\ nap = [p \in Procs |-> 0]
    /\ lastAuth = [k \in Users \X Sids |-> Nil]
    /\ lastFail = [u \in Users |-> Nil]

Sweep(p) ==
    \/ \E n \in Names : SweepUnread(p, n)
    \/ \E n \in Names : SweepOpen(p, n)
    \/ Inspect(p)
    \/ RemoveEntry(p)
    \/ ListFails(p)

Decide(p) ==
    \/ GrantNoPasswd(p)
    \/ SkipCache(p)
    \/ OpenCache(p)
    \/ CacheMiss(p)
    \/ CacheHit(p)

Prompting(p) ==
    \/ NoCooldown(p)
    \/ OpenCooldown(p)
    \/ ReadCooldown(p)
    \/ Wake(p)
    \/ NoPassword(p)
    \/ PamAccepts(p)
    \/ PamRejects(p)
    \/ ClearFailures(p)

Recording(p) ==
    \/ OpenStateFile(p)
    \/ WriteCache(p)
    \/ WriteFailure(p)
    \/ WriteLastFailure(p)

\* The invocation's own progress; at the prompt it is the user's.
Step(p) == Sweep(p) \/ Decide(p) \/ Prompting(p) \/ Recording(p)

Next ==
    \/ \E p \in Procs : Begin(p) \/ Step(p) \/ FlushFails(p) \/ Abort(p)
    \/ Tick
    \/ \E t \in ClockSteps : SetClock(t)
    \/ Rest

Spec == Init /\ [][Next]_vars

(***************************************************************************)
(* The kernel runs every invocation that can run, users answer the prompt  *)
(* or close the terminal, and time passes.                                 *)
(***************************************************************************)
Fairness == WF_vars(Tick) /\ \A p \in Procs : WF_vars(Step(p))

LiveSpec == Spec /\ Fairness

\* Nobody sets the wall clock back: it may stop, and it may be set ahead.
ClockForward == [][wall <= wall']_vars

-----------------------------------------------------------------------------
(* Properties *)

\* Every variable has its type: the counter of attempts never goes below
\* zero, and a descriptor is open exactly while its file is being used.
TypeOK ==
    /\ wall \in Nat
    /\ dir \in [Names -> Inodes \cup {Nil}]
    /\ data \in [Inodes -> Nat \cup {Nil}]
    /\ pc \in [Procs -> Running \cup Ended]
    /\ req \in [Procs -> Requests \cup {Nil}]
    /\ todo \in [Procs -> SUBSET Names]
    /\ name \in [Procs -> Names \cup {Nil}]
    /\ fd \in [Procs -> Inodes \cup {Nil}]
    /\ stamp \in [Procs -> Nat \cup {Nil}]
    /\ left \in [Procs -> Nat]
    /\ nap \in [Procs -> Nat]
    /\ lastAuth \in [Users \X Sids -> Nat \cup {Nil}]
    /\ lastFail \in [Users -> Nat \cup {Nil}]

\* What the program relies on when it reads t from the file n: a cache file
\* tells of a real authentication of that user in that session, not before
\* t; a failure file of a cooldown that ends soon.
Truthful(n, t) ==
    IF n.dir = "ts"
    THEN LET a == lastAuth[<<n.user, n.sid>>] IN a # Nil /\ t <= a
    ELSE t <= wall + AuthFailureCooldown

\* Whatever a reader can find in a state file, under its name or through a
\* descriptor opened before the name was removed, is empty or truthful.
\* While the wall clock is never set back.
StateFilesTruthful ==
    /\ \A n \in Names :
          dir[n] # Nil /\ data[dir[n]] # Nil => Truthful(n, data[dir[n]])
    /\ \A p \in Procs :
          fd[p] # Nil /\ data[fd[p]] # Nil => Truthful(name[p], data[fd[p]])

\* enforce_failure_cooldown never sleeps longer than the cooldown itself.
\* While the wall clock is never set back.
SleepBounded == \A p \in Procs : nap[p] <= AuthFailureCooldown

(***************************************************************************)
(* What StateFilesTruthful, SleepBounded, GrantsEarned and                 *)
(* ImplementsContract rest on.                                             *)
(***************************************************************************)
Reading == {"inspect", "lookup", "pause"}
Trying == {"cooldown", "pause", "sleep", "prompt", "clear", "open", "write"}

\* An invocation under way has a request, a file where it works on one, a
\* descriptor exactly while it reads or writes, and attempts to lose.
Control(p) ==
    /\ pc[p] \in Running => req[p] \in Requests
    /\ pc[p] \in Reading \cup {"remove", "open", "write"} => name[p] \in Names
    /\ fd[p] # Nil <=> pc[p] \in Reading \cup {"write"}
    /\ pc[p] \in Trying => left[p] >= 1
    /\ pc[p] \in Trying \cup {"lookup"} => ~req[p].nopasswd
    /\ pc[p] = "lookup" => name[p] = CacheName(p)
    /\ pc[p] = "pause" => name[p] = FailName(p)
    /\ pc[p] \in {"open", "write"} =>
          name[p] \in {CacheName(p), FailName(p)} /\ stamp[p] \in Nat

\* A file never passes from one name to another.
FilesApart ==
    /\ \A m, n \in Names : dir[m] # Nil /\ dir[m] = dir[n] => m = n
    /\ \A n \in Names, p \in Procs : fd[p] # Nil /\ dir[n] = fd[p] => n = name[p]
    /\ \A p, q \in Procs : fd[p] # Nil /\ fd[p] = fd[q] => name[p] = name[q]

\* What is about to be written is truthful already.
PendingTruthful ==
    \A p \in Procs : pc[p] \in {"open", "write"} => Truthful(name[p], stamp[p])

HistoryIsPast ==
    \A k \in Users \X Sids : lastAuth[k] # Nil => lastAuth[k] <= wall

\* Types and control of every invocation, whatever the clock does.
ControlInv == TypeOK /\ \A p \in Procs : Control(p)

\* The inductive invariant: everything a reader can find in a state file is
\* truthful because everything on its way there is, and because no file and
\* no descriptor is ever taken for another's.  While the wall clock is never
\* set back.
IInv ==
    /\ ControlInv
    /\ FilesApart
    /\ StateFilesTruthful
    /\ PendingTruthful
    /\ HistoryIsPast
    /\ SleepBounded

\* Access is granted by a rule without password, or when PAM has accepted
\* this user in this very session: just now, or more recently than the
\* configured mode caches.  While the wall clock is never set back.
Earned(p) ==
    \/ req[p].nopasswd
    \/ LET a == lastAuth[<<req[p].user, req[p].sid>>]
       IN  /\ a # Nil
           /\ pc[p] = "write" \/ wall - a < LookupWindow(Mode(p))

GrantsEarned ==
    [][\A p \in Procs :
          pc[p] # "granted" /\ pc'[p] = "granted" => Earned(p)]_vars

\* Whatever the clock is set to, and whichever invocations overlap, die or fail,
\* access without a password needs a rule that says so or an authentication of
\* this user in this session: no refused password, no emptied or removed file and
\* no file of another user, session or kind ever passes for one.
GrantsAuthenticated ==
    [][\A p \in Procs :
          pc[p] # "granted" /\ pc'[p] = "granted" =>
             \/ req[p].nopasswd
             \/ lastAuth[<<req[p].user, req[p].sid>>] # Nil]_vars

(***************************************************************************)
(* What GrantsAuthenticated and RankFalls rest on.                         *)
(***************************************************************************)
\* The session a cache file is for has seen an authentication.
Vouched(n) == n.dir = "ts" => lastAuth[<<n.user, n.sid>>] # Nil

CachesVouched ==
    /\ \A n \in Names : dir[n] # Nil /\ data[dir[n]] # Nil => Vouched(n)
    /\ \A p \in Procs : fd[p] # Nil /\ data[fd[p]] # Nil => Vouched(name[p])
    /\ \A p \in Procs : pc[p] \in {"open", "write"} => Vouched(name[p])

\* The cleanup pass lists one directory at a time.
Listing(p) ==
    /\ pc[p] = "sweep_ts" => todo[p] \subseteq CacheNames
    /\ pc[p] = "sweep_fails" => todo[p] \subseteq FailNames
    /\ pc[p] \in {"inspect", "remove"} => \A n \in todo[p] : n.dir = name[p].dir

\* The inductive invariant whatever the clock does.
AnyClockInv ==
    /\ ControlInv
    /\ FilesApart
    /\ CachesVouched
    /\ \A p \in Procs : Listing(p)

(***************************************************************************)
(* How far an invocation is from its end: the passes still to make, the    *)
(* entries of this one, the attempts left, the way to go with this entry   *)
(* or attempt, and the seconds left to sleep.                              *)
(***************************************************************************)
Phase(p) ==
    IF pc[p] \in Trying THEN 0
    ELSE IF pc[p] = "lookup" THEN 1
    ELSE IF pc[p] = "sweep_fails" THEN 2
    ELSE IF pc[p] = "sweep_ts" THEN 3
    ELSE IF name[p].dir = "fails" THEN 2 ELSE 3

ToGo == [inspect |-> 2, remove |-> 1, sweep_ts |-> 0, sweep_fails |-> 0, lookup |-> 0,
         cooldown |-> 6, pause |-> 5, sleep |-> 4, prompt |-> 3, clear |-> 2,
         open |-> 1, write |-> 0]

Rank(p) == <<Phase(p), Cardinality(todo[p]), left[p], ToGo[pc[p]], nap[p]>>

\* The order of ranks: the first place where they differ decides.
Below(a, b) ==
    \E i \in 1..5 : a[i] < b[i] /\ \A j \in 1..(i - 1) : a[j] = b[j]

Locals(p) ==
    <<pc[p], req[p], todo[p], name[p], fd[p], stamp[p], left[p], nap[p]>>

\* No step of any invocation, and no second that passes, undoes what an invocation
\* has done: each step either ends it, leaves it where it is, or brings it closer to
\* its end.  Neither the entries of the directories it lists nor the prompts and the
\* sleeps of authenticate's loop ever grow under it.  However the clock is set.
RankFalls ==
    [][\A p \in Procs :
          pc[p] \in Running =>
             \/ pc'[p] \in Ended
             \/ Locals(p)' = Locals(p)
             \/ Below(Rank(p)', Rank(p))]_vars

(***************************************************************************)
(* The contract seen in the state of authenticate.                         *)
(***************************************************************************)
StatusOf(p) ==
    IF pc[p] \in Running THEN "busy"
    ELSE IF pc[p] = "granted" THEN "granted"
    ELSE IF pc[p] = "idle" THEN "none" ELSE "refused"

\* The file p is about to write tells what PAM has just answered.
Answered(p, d) ==
    pc[p] \in {"open", "write"} /\ name[p] # Nil /\ name[p].dir = d

\* A refusal counts at once; attempts_left goes down once it is recorded.
TriesOf(p) ==
    IF pc[p] \notin Trying THEN 0
    ELSE MaxTriesOf(req[p].cfg) - left[p] + (IF Answered(p, "fails") THEN 1 ELSE 0)

Contract == INSTANCE AuthContract WITH
    Window <- [r \in Requests |-> LookupWindow(ModeOf(r.cfg))],
    Tries <- [r \in Requests |-> MaxTriesOf(r.cfg)],
    status <- [p \in Procs |-> StatusOf(p)],
    call <- req,
    tries <- [p \in Procs |-> TriesOf(p)],
    fresh <- [p \in Procs |-> Answered(p, "ts")]

\* authenticate with its state files, its cleanup pass and its cooldowns does
\* nothing the contract does not allow: no more passwords than max_tries, no
\* grant from the cache after a refused password, no prompt under nopasswd, no
\* grant on another invocation's acceptance outside the window.  While the
\* wall clock is never set back.
ImplementsContract == Contract!Spec

\* No password reaches PAM within the cooldown of a refused one (authenticate
\* calls enforce_failure_cooldown before each prompt).  For invocations that
\* do not overlap and are not killed.
CooldownBetweenAttempts ==
    [][\A p \in Procs :
          pc[p] = "prompt" /\ pc'[p] \in {"clear", "open"} =>
             LET f == lastFail[req[p].user]
             IN  f = Nil \/ wall >= f + AuthFailureCooldown]_vars

\* needs_auth asks for the password only when the last authentication in the
\* session is older than some configuration in use keeps it: the cleanup pass
\* of another user or session takes nobody's cache away early.  For
\* invocations that do not overlap and are not killed.
CacheHonoured ==
    [][\A p \in Procs :
          pc[p] \in {"sweep_fails", "lookup"} /\ pc'[p] = "cooldown" =>
             LET a == lastAuth[<<req[p].user, req[p].sid>>]
             IN  a = Nil \/ \E c \in Configs :
                               wall - a >= LookupWindow(ModeOf(c))]_vars

\* The cleanup pass unlinks a file only if it holds no timestamp or one that
\* is past the retention.  For invocations that do not overlap.
CleanupRemovesOnlyStale ==
    [][\A p \in Procs :
          pc[p] = "remove" /\ pc'[p] # "remove" =>
             LET n == name[p]
             IN  \/ dir'[n] = dir[n]
                 \/ data[dir[n]] = Nil
                 \/ IsExpired(data[dir[n]], wall, Retention(p, n))]_vars

\* No cleanup pass, of whichever user, takes away a cooldown that is running: it
\* "deletes stale rate-limit files once they are well past their cooldown window".
RunningCooldownKept ==
    [][\A p \in Procs :
          pc[p] = "remove" /\ pc'[p] # "remove" /\ name[p].dir = "fails" =>
             LET n == name[p]
             IN  dir'[n] = dir[n] \/ data[dir[n]] = Nil \/ data[dir[n]] <= wall]_vars

(***************************************************************************)
(* What these three rest on.                                               *)
(***************************************************************************)
FailOf(u) == [dir |-> "fails", user |-> u, sid |-> Nil]
CacheOf(u, s) == [dir |-> "ts", user |-> u, sid |-> s]

\* t is what the file n holds, or what is about to be written to it.
Recorded(n, t) ==
    \/ dir[n] # Nil /\ data[dir[n]] = t
    \/ \E p \in Procs :
          pc[p] \in {"open", "write"} /\ name[p] = n /\ stamp[p] = t

\* At the time t the cooldown of u's last refused password is over.
Cooled(u, t) == lastFail[u] = Nil \/ t >= lastFail[u] + AuthFailureCooldown

\* Some configuration in use would not accept the last authentication any more.
Outlived(u, s) ==
    \E c \in Configs : wall - lastAuth[<<u, s>>] >= LookupWindow(ModeOf(c))

\* The entry p is about to unlink is gone, empty or past its retention.
Stale(p) ==
    LET n == name[p]
    IN  \/ dir[n] = Nil
        \/ data[dir[n]] = Nil
        \/ IsExpired(data[dir[n]], wall, Retention(p, n))

\* p is about to write what PAM has last answered its user.
Latest(p) ==
    IF name[p].dir = "ts"
    THEN stamp[p] = lastAuth[<<req[p].user, req[p].sid>>]
    ELSE /\ lastFail[req[p].user] # Nil
         /\ stamp[p] = lastFail[req[p].user] + AuthFailureCooldown

\* Refusals and authentications are on record as long as they count.
RefusalsRecorded ==
    \A u \in Users :
       Cooled(u, wall) \/ Recorded(FailOf(u), lastFail[u] + AuthFailureCooldown)

AuthenticationsRecorded ==
    \A u \in Users, s \in Sids :
       LET a == lastAuth[<<u, s>>]
       IN  a = Nil \/ Recorded(CacheOf(u, s), a) \/ Outlived(u, s)

\* No file loses its name while p reads or writes it, p unlinks only what is
\* stale, and comes to the prompt when the cooldown is over.
Orderly(p) ==
    /\ fd[p] # Nil => dir[name[p]] = fd[p]
    /\ pc[p] \in {"open", "write"} => Latest(p)
    /\ pc[p] = "remove" => Stale(p)
    /\ pc[p] = "sleep" => Cooled(req[p].user, wall + nap[p])
    /\ pc[p] = "prompt" => Cooled(req[p].user, wall)

\* The inductive invariant of invocations that do not overlap and are not
\* killed: what PAM has answered reaches the files, stays there as long as it
\* counts, and is found by whoever asks for it.
SerialInv ==
    /\ RefusalsRecorded
    /\ AuthenticationsRecorded
    /\ \A p \in Procs : Orderly(p)

\* Every invocation ends: the cleanup pass and the prompt loop are finite and
\* no sleep is forever, whatever the other invocations do to the files.
EveryInvocationEnds ==
    \A p \in Procs : pc[p] \in Running ~> pc[p] \in Ended
=============================================================================
