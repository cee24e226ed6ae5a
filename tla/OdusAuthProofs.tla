--------------------------- MODULE OdusAuthProofs ---------------------------
(***************************************************************************)
(* Proofs about OdusAuth, for any number of invocations, users, sessions   *)
(* and configurations.                                                     *)
(***************************************************************************)
EXTENDS OdusAuth, CachePolicyProofs, FiniteSetTheorems, WellFoundedInduction

\* "Nothing" is no timestamp, inode, name or request.
LEMMA NilApart ==
    /\ Nil \notin Int
    /\ Nil \notin Inodes
    /\ Nil \notin Names
    /\ Nil \notin Requests
BY NilAssumption

\* What a request gives: the names of its state files, a mode, an attempt.
LEMMA RequestFacts ==
    ASSUME NEW p, req[p] \in Requests
    PROVE  /\ CacheName(p) \in CacheNames
           /\ FailName(p) \in FailNames
           /\ CacheName(p) \in Names
           /\ FailName(p) \in Names
           /\ CacheName(p).dir = "ts"
           /\ FailName(p).dir = "fails"
           /\ MaxTriesOf(req[p].cfg) \in Nat
           /\ MaxTriesOf(req[p].cfg) >= 1
           /\ Mode(p) \in CacheModes
           /\ <<req[p].user, req[p].sid>> \in Users \X Sids
           /\ req[p].user \in Users
<1>1. /\ req[p].user \in Users
      /\ req[p].sid \in Sids
      /\ req[p].cfg \in Configs
    BY DEF Requests
<1>2. /\ req[p].cfg.max_tries \in Int \cup {Unset}
      /\ req[p].cfg.cache_timeout \in Int \cup {Unset}
    BY <1>1, ConfigsAssumption
<1>3. /\ MaxTriesOf(req[p].cfg) \in 1 .. MaxTriesLimit
      /\ Mode(p) \in CacheModes
    BY <1>2, MaxTriesRange, ModeType DEF Mode
<1>4. MaxTriesLimit \in Nat
    BY ClampsAssumption
<1> QED BY <1>1, <1>3, <1>4 DEF CacheName, FailName, CacheNames, FailNames, Names

-----------------------------------------------------------------------------
(* Control *)

\* Control holds before the first invocation.
LEMMA InitControl == Init => ControlInv
<1> SUFFICES ASSUME Init PROVE ControlInv
    OBVIOUS
<1>1. TypeOK
    BY DEF Init, TypeOK, Ended
<1>2. \A p \in Procs : Control(p)
    BY DEF Init, Control, Running, Reading, Trying
<1> QED BY <1>1, <1>2 DEF ControlInv

\* Every step of every invocation keeps the types and its place in the code.
LEMMA NextControl ==
    ASSUME ControlInv, [Next]_vars
    PROVE  ControlInv'
<1> USE NilApart DEF ControlInv, TypeOK, Control, Running, Ended, Reading, Trying,
        CacheName, FailName
<1>1. ASSUME NEW p \in Procs, Begin(p) PROVE ControlInv'
  <2>1. TypeOK'
      BY <1>1, RequestFacts, DurationsAssumption DEF Begin, Names, Linked, files, history
  <2>2. ASSUME NEW q \in Procs PROVE Control(q)'
      BY <1>1, RequestFacts DEF Begin, Names, Linked, files, history
  <2> QED BY <2>1, <2>2
<1>2. ASSUME NEW p \in Procs, ListFails(p) PROVE ControlInv'
  <2>1. TypeOK'
      BY <1>2, RequestFacts, DurationsAssumption DEF ListFails, Names, Linked, files, history
  <2>2. ASSUME NEW q \in Procs PROVE Control(q)'
      BY <1>2, RequestFacts DEF ListFails, Names, Linked, files, history
  <2> QED BY <2>1, <2>2
<1>3. ASSUME NEW p \in Procs, NEW n \in Names, SweepUnread(p, n) PROVE ControlInv'
  <2>1. TypeOK'
      BY <1>3, RequestFacts, DurationsAssumption DEF SweepUnread, Sweeping, files, history
  <2>2. ASSUME NEW q \in Procs PROVE Control(q)'
      BY <1>3, RequestFacts DEF SweepUnread, Sweeping, files, history
  <2> QED BY <2>1, <2>2
<1>4. ASSUME NEW p \in Procs, NEW n \in Names, SweepOpen(p, n) PROVE ControlInv'
  <2>1. TypeOK'
      BY <1>4, RequestFacts, DurationsAssumption DEF SweepOpen, Sweeping, files, history
  <2>2. ASSUME NEW q \in Procs PROVE Control(q)'
      BY <1>4, RequestFacts DEF SweepOpen, Sweeping, files, history
  <2> QED BY <2>1, <2>2
<1>5. ASSUME NEW p \in Procs, Inspect(p) PROVE ControlInv'
  <2>1. TypeOK'
      BY <1>5, RequestFacts, DurationsAssumption DEF Inspect, Settle, SweepOf, history
  <2>2. ASSUME NEW q \in Procs PROVE Control(q)'
      BY <1>5, RequestFacts DEF Inspect, Settle, SweepOf, history
  <2> QED BY <2>1, <2>2
<1>6. ASSUME NEW p \in Procs, RemoveEntry(p) PROVE ControlInv'
  <2>1. TypeOK'
      BY <1>6, RequestFacts, DurationsAssumption DEF RemoveEntry, Settle, Close, SweepOf, history
  <2>2. ASSUME NEW q \in Procs PROVE Control(q)'
      BY <1>6, RequestFacts DEF RemoveEntry, Settle, Close, SweepOf, history
  <2> QED BY <2>1, <2>2
<1>7. ASSUME NEW p \in Procs, GrantNoPasswd(p) PROVE ControlInv'
  <2>1. TypeOK'
      BY <1>7, RequestFacts, DurationsAssumption DEF GrantNoPasswd, Swept, Finish, Close, files, history
  <2>2. ASSUME NEW q \in Procs PROVE Control(q)'
      BY <1>7, RequestFacts DEF GrantNoPasswd, Swept, Finish, Close, files, history
  <2> QED BY <2>1, <2>2
<1>8. ASSUME NEW p \in Procs, SkipCache(p) PROVE ControlInv'
  <2>1. TypeOK'
      BY <1>8, RequestFacts, DurationsAssumption DEF SkipCache, Swept, files, history
  <2>2. ASSUME NEW q \in Procs PROVE Control(q)'
      BY <1>8, RequestFacts DEF SkipCache, Swept, files, history
  <2> QED BY <2>1, <2>2
<1>9. ASSUME NEW p \in Procs, OpenCache(p) PROVE ControlInv'
  <2>1. TypeOK'
      BY <1>9, RequestFacts, DurationsAssumption DEF OpenCache, Swept, files, history
  <2>2. ASSUME NEW q \in Procs PROVE Control(q)'
      BY <1>9, RequestFacts DEF OpenCache, Swept, files, history
  <2> QED BY <2>1, <2>2
<1>10. ASSUME NEW p \in Procs, CacheMiss(p) PROVE ControlInv'
  <2>1. TypeOK'
      BY <1>10, RequestFacts, DurationsAssumption DEF CacheMiss, Settle, Close, history
  <2>2. ASSUME NEW q \in Procs PROVE Control(q)'
      BY <1>10, RequestFacts DEF CacheMiss, Settle, Close, history
  <2> QED BY <2>1, <2>2
<1>11. ASSUME NEW p \in Procs, CacheHit(p) PROVE ControlInv'
  <2>1. TypeOK'
      BY <1>11, RequestFacts, DurationsAssumption DEF CacheHit, Settle, Finish, Close, history
  <2>2. ASSUME NEW q \in Procs PROVE Control(q)'
      BY <1>11, RequestFacts DEF CacheHit, Settle, Finish, Close, history
  <2> QED BY <2>1, <2>2
<1>12. ASSUME NEW p \in Procs, NoCooldown(p) PROVE ControlInv'
  <2>1. TypeOK'
      BY <1>12, RequestFacts, DurationsAssumption DEF NoCooldown, files, history
  <2>2. ASSUME NEW q \in Procs PROVE Control(q)'
      BY <1>12, RequestFacts DEF NoCooldown, files, history
  <2> QED BY <2>1, <2>2
<1>13. ASSUME NEW p \in Procs, OpenCooldown(p) PROVE ControlInv'
  <2>1. TypeOK'
      BY <1>13, RequestFacts, DurationsAssumption DEF OpenCooldown, files, history
  <2>2. ASSUME NEW q \in Procs PROVE Control(q)'
      BY <1>13, RequestFacts DEF OpenCooldown, files, history
  <2> QED BY <2>1, <2>2
<1>14. ASSUME NEW p \in Procs, ReadCooldown(p) PROVE ControlInv'
  <2>1. TypeOK'
      BY <1>14, RequestFacts, DurationsAssumption DEF ReadCooldown, Settle, Close, Remaining, SaturatingSub, history
  <2>2. ASSUME NEW q \in Procs PROVE Control(q)'
      BY <1>14, RequestFacts DEF ReadCooldown, Settle, Close, Remaining, SaturatingSub, history
  <2> QED BY <2>1, <2>2
<1>15. ASSUME NEW p \in Procs, Wake(p) PROVE ControlInv'
  <2>1. TypeOK'
      BY <1>15, RequestFacts, DurationsAssumption DEF Wake, files, history
  <2>2. ASSUME NEW q \in Procs PROVE Control(q)'
      BY <1>15, RequestFacts DEF Wake, files, history
  <2> QED BY <2>1, <2>2
<1>16. ASSUME NEW p \in Procs, NoPassword(p) PROVE ControlInv'
  <2>1. TypeOK'
      BY <1>16, RequestFacts, DurationsAssumption DEF NoPassword, Finish, Close, files, history
  <2>2. ASSUME NEW q \in Procs PROVE Control(q)'
      BY <1>16, RequestFacts DEF NoPassword, Finish, Close, files, history
  <2> QED BY <2>1, <2>2
<1>17. ASSUME NEW p \in Procs, PamAccepts(p) PROVE ControlInv'
  <2>1. TypeOK'
      BY <1>17, RequestFacts, DurationsAssumption DEF PamAccepts, files, history
  <2>2. ASSUME NEW q \in Procs PROVE Control(q)'
      BY <1>17, RequestFacts DEF PamAccepts, files, history
  <2> QED BY <2>1, <2>2
<1>18. ASSUME NEW p \in Procs, PamRejects(p) PROVE ControlInv'
  <2>1. FailName(p) \in Names
    <3>1. req[p] \in Requests
        BY <1>18 DEF PamRejects
    <3> QED BY <3>1, RequestFacts
  <2>2. wall + AuthFailureCooldown \in Nat
      BY DurationsAssumption
  <2>3. TypeOK'
      BY <1>18, <2>1, <2>2 DEF PamRejects, files
  <2>4. ASSUME NEW q \in Procs PROVE Control(q)'
      BY <1>18, <2>1, <2>2 DEF PamRejects, files
  <2> QED BY <2>3, <2>4
<1>19. ASSUME NEW p \in Procs, ClearFailures(p) PROVE ControlInv'
  <2>1. TypeOK'
      BY <1>19, RequestFacts, DurationsAssumption DEF ClearFailures, Settle
  <2>2. ASSUME NEW q \in Procs PROVE Control(q)'
      BY <1>19, RequestFacts DEF ClearFailures, Settle
  <2> QED BY <2>1, <2>2
<1>20. ASSUME NEW p \in Procs, OpenStateFile(p) PROVE ControlInv'
  <2>1. TypeOK'
      BY <1>20, RequestFacts, DurationsAssumption DEF OpenStateFile, OpenedInode, FreeInodes, history
  <2>2. ASSUME NEW q \in Procs PROVE Control(q)'
      BY <1>20, RequestFacts DEF OpenStateFile, OpenedInode, FreeInodes, history
  <2> QED BY <2>1, <2>2
<1>21. ASSUME NEW p \in Procs, WriteCache(p) PROVE ControlInv'
  <2>1. TypeOK'
      BY <1>21, RequestFacts, DurationsAssumption DEF WriteCache, Settle, Written, Finish, Close, history
  <2>2. ASSUME NEW q \in Procs PROVE Control(q)'
      BY <1>21, RequestFacts DEF WriteCache, Settle, Written, Finish, Close, history
  <2> QED BY <2>1, <2>2
<1>22. ASSUME NEW p \in Procs, WriteFailure(p) PROVE ControlInv'
  <2>1. TypeOK'
      BY <1>22, RequestFacts, DurationsAssumption DEF WriteFailure, Settle, Written, Close, history
  <2>2. ASSUME NEW q \in Procs PROVE Control(q)'
      BY <1>22, RequestFacts DEF WriteFailure, Settle, Written, Close, history
  <2> QED BY <2>1, <2>2
<1>23. ASSUME NEW p \in Procs, WriteLastFailure(p) PROVE ControlInv'
  <2>1. TypeOK'
      BY <1>23, RequestFacts, DurationsAssumption DEF WriteLastFailure, Settle, Written, Finish, Close, history
  <2>2. ASSUME NEW q \in Procs PROVE Control(q)'
      BY <1>23, RequestFacts DEF WriteLastFailure, Settle, Written, Finish, Close, history
  <2> QED BY <2>1, <2>2
<1>24. ASSUME NEW p \in Procs, FlushFails(p) PROVE ControlInv'
  <2>1. TypeOK'
      BY <1>24, RequestFacts, DurationsAssumption DEF FlushFails, Settle, Written, Finish, Close, history
  <2>2. ASSUME NEW q \in Procs PROVE Control(q)'
      BY <1>24, RequestFacts DEF FlushFails, Settle, Written, Finish, Close, history
  <2> QED BY <2>1, <2>2
<1>25. ASSUME NEW p \in Procs, Abort(p) PROVE ControlInv'
  <2>1. TypeOK'
      BY <1>25, RequestFacts, DurationsAssumption DEF Abort, Settle, Finish, Close, history
  <2>2. ASSUME NEW q \in Procs PROVE Control(q)'
      BY <1>25, RequestFacts DEF Abort, Settle, Finish, Close, history
  <2> QED BY <2>1, <2>2
<1>26. ASSUME Tick PROVE ControlInv'
  <2>1. TypeOK'
      BY <1>26 DEF Tick, SaturatingSub, files, history
  <2>2. ASSUME NEW q \in Procs PROVE Control(q)'
      BY <1>26 DEF Tick, files, history
  <2> QED BY <2>1, <2>2
<1>27. ASSUME NEW t \in ClockSteps, SetClock(t) PROVE ControlInv'
  <2>1. TypeOK'
      BY <1>27, ParametersAssumption DEF SetClock, files, history
  <2>2. ASSUME NEW q \in Procs PROVE Control(q)'
      BY <1>27 DEF SetClock, files, history
  <2> QED BY <2>1, <2>2
<1>28. ASSUME UNCHANGED vars PROVE ControlInv'
    BY <1>28 DEF vars
<1> QED
    BY <1>1, <1>2, <1>3, <1>4, <1>5, <1>6, <1>7, <1>8, <1>9, <1>10, <1>11, <1>12, <1>13, <1>14, <1>15, <1>16, <1>17, <1>18, <1>19, <1>20, <1>21, <1>22, <1>23, <1>24, <1>25, <1>26, <1>27, <1>28
    DEF Next, Step, Sweep, Decide, Prompting, Recording, Rest

\* Every variable has its type in every reachable state.
THEOREM TypeCorrect == Spec => []TypeOK
<1>1. Init => ControlInv
    BY InitControl
<1>2. ControlInv /\ [Next]_vars => ControlInv'
    BY NextControl
<1>3. ControlInv => TypeOK
    BY DEF ControlInv
<1> QED BY <1>1, <1>2, <1>3, PTL DEF Spec

-----------------------------------------------------------------------------
(* Truthful files *)

\* Time passing and authentications succeeding leave true what was true.
LEMMA TruthfulLasts ==
    ASSUME ControlInv, ControlInv', wall <= wall',
           \A k \in Users \X Sids :
              lastAuth[k] # Nil => lastAuth'[k] # Nil /\ lastAuth[k] <= lastAuth'[k],
           NEW n \in Names, NEW t \in Nat, Truthful(n, t)
    PROVE  Truthful(n, t)'
<1> USE NilApart DEF ControlInv, TypeOK, Truthful
<1>1. CASE n.dir = "ts"
  <2>1. <<n.user, n.sid>> \in Users \X Sids
      BY <1>1 DEF Names, CacheNames, FailNames
  <2> QED BY <1>1, <2>1
<1>2. CASE n.dir # "ts"
  <2>1. wall \in Nat /\ wall' \in Nat /\ AuthFailureCooldown \in Nat
      BY DurationsAssumption
  <2>2. t <= wall + AuthFailureCooldown
      BY <1>2
  <2>3. t <= wall' + AuthFailureCooldown
      BY <2>1, <2>2
  <2> QED BY <1>2, <2>3
<1> QED BY <1>1, <1>2

\* A step that creates no file: names are kept or removed, descriptors kept,
\* closed or opened on a linked file, contents kept, dropped or replaced by the
\* timestamp of the writer.
FilesKept ==
    /\ \A n \in Names : dir'[n] \in {dir[n], Nil}
    /\ \A q \in Procs : \/ fd'[q] = Nil
                        \/ fd'[q] = fd[q] /\ name'[q] = name[q]
                        \/ name'[q] \in Names /\ fd'[q] = dir[name'[q]]
    /\ \A i \in Inodes :
          \/ data'[i] \in {data[i], Nil}
          \/ \E p \in Procs : pc[p] = "write" /\ fd[p] = i /\ data'[i] = stamp[p]

\* Every step but the creation of a file is of that form.
LEMMA NextKept ==
    ASSUME ControlInv, [Next]_vars, \A p \in Procs : ~OpenStateFile(p)
    PROVE  FilesKept
<1> USE NilApart DEF ControlInv, TypeOK, FilesKept
<1>1. ASSUME NEW p \in Procs, Begin(p) PROVE FilesKept
    BY <1>1 DEF Begin, files, history
<1>2. ASSUME NEW p \in Procs, ListFails(p) PROVE FilesKept
    BY <1>2 DEF ListFails, files, history
<1>3. ASSUME NEW p \in Procs, NEW n \in Names, SweepUnread(p, n) PROVE FilesKept
    BY <1>3 DEF SweepUnread, Sweeping, files, history, Control, Reading
<1>4. ASSUME NEW p \in Procs, NEW n \in Names, SweepOpen(p, n) PROVE FilesKept
    BY <1>4 DEF SweepOpen, Sweeping, files, history
<1>5. ASSUME NEW p \in Procs, Inspect(p) PROVE FilesKept
    BY <1>5 DEF Inspect, Settle, SweepOf, history
<1>6. ASSUME NEW p \in Procs, RemoveEntry(p) PROVE FilesKept
    BY <1>6 DEF RemoveEntry, Settle, Close, SweepOf, history
<1>7. ASSUME NEW p \in Procs, GrantNoPasswd(p) PROVE FilesKept
    BY <1>7 DEF GrantNoPasswd, Finish, Close, files, history
<1>8. ASSUME NEW p \in Procs, SkipCache(p) PROVE FilesKept
    BY <1>8 DEF SkipCache, files, history
<1>9. ASSUME NEW p \in Procs, OpenCache(p) PROVE FilesKept
    BY <1>9, RequestFacts DEF OpenCache, files, history, Swept, Control, Running
<1>10. ASSUME NEW p \in Procs, CacheMiss(p) PROVE FilesKept
    BY <1>10 DEF CacheMiss, Settle, Close, history
<1>11. ASSUME NEW p \in Procs, CacheHit(p) PROVE FilesKept
    BY <1>11 DEF CacheHit, Settle, Finish, Close, history
<1>12. ASSUME NEW p \in Procs, NoCooldown(p) PROVE FilesKept
    BY <1>12 DEF NoCooldown, files, history
<1>13. ASSUME NEW p \in Procs, OpenCooldown(p) PROVE FilesKept
    BY <1>13, RequestFacts DEF OpenCooldown, files, history, Swept, Control, Running
<1>14. ASSUME NEW p \in Procs, ReadCooldown(p) PROVE FilesKept
    BY <1>14 DEF ReadCooldown, Settle, Close, history
<1>15. ASSUME NEW p \in Procs, Wake(p) PROVE FilesKept
    BY <1>15 DEF Wake, files, history
<1>16. ASSUME NEW p \in Procs, NoPassword(p) PROVE FilesKept
    BY <1>16 DEF NoPassword, Finish, Close, files, history
<1>17. ASSUME NEW p \in Procs, PamAccepts(p) PROVE FilesKept
    BY <1>17 DEF PamAccepts, files, history
<1>18. ASSUME NEW p \in Procs, PamRejects(p) PROVE FilesKept
    BY <1>18 DEF PamRejects, files, Control, Reading
<1>19. ASSUME NEW p \in Procs, ClearFailures(p) PROVE FilesKept
    BY <1>19 DEF ClearFailures, Settle, Control, Reading
<1>20. ASSUME NEW p \in Procs, WriteCache(p) PROVE FilesKept
    BY <1>20 DEF WriteCache, Settle, Written, Finish, Close, history, Control
<1>21. ASSUME NEW p \in Procs, WriteFailure(p) PROVE FilesKept
    BY <1>21 DEF WriteFailure, Settle, Written, Close, history, Control
<1>22. ASSUME NEW p \in Procs, WriteLastFailure(p) PROVE FilesKept
    BY <1>22 DEF WriteLastFailure, Settle, Written, Finish, Close, history, Control
<1>23. ASSUME NEW p \in Procs, FlushFails(p) PROVE FilesKept
    BY <1>23 DEF FlushFails, Settle, Written, Finish, Close, history, Control
<1>24. ASSUME NEW p \in Procs, Abort(p) PROVE FilesKept
    BY <1>24 DEF Abort, Settle, Finish, Close, history
<1>25. ASSUME Tick PROVE FilesKept
    BY <1>25 DEF Tick, files
<1>26. ASSUME UNCHANGED vars PROVE FilesKept
    BY <1>26 DEF vars
<1>27. ASSUME NEW t \in ClockSteps, SetClock(t) PROVE FilesKept
    BY <1>27 DEF SetClock, files
<1> QED
    BY <1>1, <1>2, <1>3, <1>4, <1>5, <1>6, <1>7, <1>8, <1>9, <1>10, <1>11, <1>12, <1>13, <1>14,
       <1>15, <1>16, <1>17, <1>18, <1>19, <1>20, <1>21, <1>22, <1>23, <1>24, <1>25, <1>26, <1>27
    DEF Next, Step, Sweep, Decide, Prompting, Recording, Rest

\* Such a step confuses no two files.
LEMMA KeptApart ==
    ASSUME ControlInv, FilesApart, FilesKept
    PROVE  FilesApart'
<1> USE NilApart DEF ControlInv, TypeOK, FilesKept
<1>1. ASSUME NEW m \in Names, NEW n \in Names, dir'[m] # Nil, dir'[m] = dir'[n]
      PROVE  m = n
    BY <1>1 DEF FilesApart
<1>2. ASSUME NEW n \in Names, NEW p \in Procs, fd'[p] # Nil, dir'[n] = fd'[p]
      PROVE  n = name'[p]
    BY <1>2 DEF FilesApart
<1>3. ASSUME NEW p \in Procs, NEW q \in Procs, fd'[p] # Nil, fd'[p] = fd'[q]
      PROVE  name'[p] = name'[q]
    BY <1>3 DEF FilesApart
<1> QED BY <1>1, <1>2, <1>3 DEF FilesApart

\* What is found under the name n, or through a descriptor of n, after such a step
\* was found there before it, or has just been written by somebody working on n.
LEMMA KeptContents ==
    ASSUME ControlInv, FilesApart, FilesKept, NEW i \in Inodes, NEW n \in Names,
           data'[i] # Nil, dir'[n] = i \/ \E q \in Procs : fd'[q] = i /\ name'[q] = n
    PROVE  \/ /\ data'[i] = data[i]
              /\ dir[n] = i \/ \E q \in Procs : fd[q] = i /\ name[q] = n
           \/ \E p \in Procs : pc[p] = "write" /\ name[p] = n /\ data'[i] = stamp[p]
<1> USE NilApart DEF ControlInv, TypeOK, FilesKept
<1>1. dir[n] = i \/ \E q \in Procs : fd[q] = i /\ name[q] = n
    OBVIOUS
<1>2. CASE data'[i] = data[i]
    BY <1>1, <1>2
<1>3. ASSUME NEW p \in Procs, pc[p] = "write", fd[p] = i, data'[i] = stamp[p]
      PROVE  name[p] = n
    BY <1>1, <1>3 DEF FilesApart
<1> QED BY <1>2, <1>3

\* Opening a state file for writing confuses no two files either, and leaves
\* nothing to find but what was there: the inode is the one linked there, or one
\* that no name and no descriptor refers to, and it is empty.
LEMMA OpenStep ==
    ASSUME ControlInv, FilesApart, NEW p \in Procs, OpenStateFile(p)
    PROVE  /\ FilesApart'
           /\ \A i \in Inodes, n \in Names :
                 /\ data'[i] # Nil
                 /\ dir'[n] = i \/ \E q \in Procs : fd'[q] = i /\ name'[q] = n
                 => /\ data'[i] = data[i]
                    /\ dir[n] = i \/ \E q \in Procs : fd[q] = i /\ name[q] = n
<1> USE NilApart DEF ControlInv, TypeOK
<1> DEFINE here == name[p]
           i == OpenedInode(here)
<1>1. /\ here \in Names
      /\ name' = name
      /\ fd' = [fd EXCEPT ![p] = i]
      /\ dir' = [dir EXCEPT ![here] = i]
      /\ data' = [data EXCEPT ![i] = Nil]
    BY DEF OpenStateFile, Control
<1>2. /\ i \in Inodes
      /\ dir[here] = i \/ i \in FreeInodes
    BY <1>1 DEF OpenStateFile, OpenedInode, FreeInodes
<1> HIDE DEF i
<1>3. \A n \in Names : dir[n] = i => n = here
    BY <1>1, <1>2 DEF FilesApart, FreeInodes, Live
<1>4. \A q \in Procs : fd[q] = i => name[q] = here
    BY <1>1, <1>2 DEF FilesApart, FreeInodes, Live
<1>5. FilesApart'
  <2>1. ASSUME NEW m \in Names, NEW n \in Names, dir'[m] # Nil, dir'[m] = dir'[n]
        PROVE  m = n
      BY <1>1, <1>3, <2>1 DEF FilesApart
  <2>2. ASSUME NEW n \in Names, NEW q \in Procs, fd'[q] # Nil, dir'[n] = fd'[q]
        PROVE  n = name'[q]
      BY <1>1, <1>3, <1>4, <2>2 DEF FilesApart
  <2>3. ASSUME NEW r \in Procs, NEW q \in Procs, fd'[r] # Nil, fd'[r] = fd'[q]
        PROVE  name'[r] = name'[q]
      BY <1>1, <1>4, <2>3 DEF FilesApart
  <2> QED BY <2>1, <2>2, <2>3 DEF FilesApart
<1>6. ASSUME NEW j \in Inodes, NEW n \in Names, data'[j] # Nil,
             dir'[n] = j \/ \E q \in Procs : fd'[q] = j /\ name'[q] = n
      PROVE  /\ data'[j] = data[j]
             /\ dir[n] = j \/ \E q \in Procs : fd[q] = j /\ name[q] = n
  <2>1. j # i
      BY <1>1, <1>2, <1>6
  <2> QED BY <1>1, <1>2, <1>6, <2>1
<1> QED BY <1>5, <1>6

\* No step confuses two files.
LEMMA NextApart ==
    ASSUME ControlInv, FilesApart, [Next]_vars
    PROVE  FilesApart'
<1>1. CASE \A p \in Procs : ~OpenStateFile(p)
    BY <1>1, NextKept, KeptApart
<1> QED BY <1>1, OpenStep

\* What a reader of the file n finds after a step was there for a reader of n before
\* it, or has just been written by somebody working on n.
LEMMA NextContents ==
    ASSUME ControlInv, FilesApart, [Next]_vars, NEW i \in Inodes, NEW n \in Names,
           data'[i] # Nil, dir'[n] = i \/ \E q \in Procs : fd'[q] = i /\ name'[q] = n
    PROVE  \/ /\ data'[i] = data[i]
              /\ dir[n] = i \/ \E q \in Procs : fd[q] = i /\ name[q] = n
           \/ \E p \in Procs : pc[p] = "write" /\ name[p] = n /\ data'[i] = stamp[p]
<1>1. CASE \A p \in Procs : ~OpenStateFile(p)
  <2>1. FilesKept
      BY <1>1, NextKept
  <2> QED BY <2>1, KeptContents
<1>2. ASSUME NEW p \in Procs, OpenStateFile(p)
      PROVE  /\ data'[i] = data[i]
             /\ dir[n] = i \/ \E q \in Procs : fd[q] = i /\ name[q] = n
    BY <1>2, OpenStep
<1> QED BY <1>1, <1>2

\* There are no state files at first.
LEMMA InitFiles == Init => FilesApart /\ StateFilesTruthful
BY NilApart DEF Init, FilesApart, StateFilesTruthful

\* Only PAM's acceptance makes an authentication.
LEMMA NextAuths ==
    ASSUME [Next]_vars, \A p \in Procs : ~ClearFailures(p)
    PROVE  /\ lastAuth' = lastAuth
           /\ Tick \/ wall' = wall \/ \E t \in ClockSteps : SetClock(t)
<1>1. ASSUME NEW p \in Procs, Sweep(p) \/ Begin(p)
      PROVE  wall' = wall /\ lastAuth' = lastAuth
    BY <1>1 DEF Sweep, Begin, SweepUnread, SweepOpen, Inspect, RemoveEntry,
       ListFails, history
<1>2. ASSUME NEW p \in Procs, Decide(p)
      PROVE  wall' = wall /\ lastAuth' = lastAuth
    BY <1>2 DEF Decide, GrantNoPasswd, SkipCache, OpenCache, CacheMiss, CacheHit,
       history
<1>3. ASSUME NEW p \in Procs, Prompting(p)
      PROVE  wall' = wall /\ lastAuth' = lastAuth
    BY <1>3 DEF Prompting, NoCooldown, OpenCooldown, ReadCooldown, Wake,
       NoPassword, PamAccepts, PamRejects, history
<1>4. ASSUME NEW p \in Procs, Recording(p) \/ FlushFails(p) \/ Abort(p)
      PROVE  wall' = wall /\ lastAuth' = lastAuth
    BY <1>4 DEF Recording, OpenStateFile, WriteCache, WriteFailure,
       WriteLastFailure, FlushFails, Abort, history
<1>5. Tick \/ (\E t \in ClockSteps : SetClock(t)) => lastAuth' = lastAuth
    BY DEF Tick, SetClock, history
<1> QED BY <1>1, <1>2, <1>3, <1>4, <1>5 DEF Next, Step, Rest, vars

\* No authentication is forgotten, and none lies in the future.
LEMMA NextHistory ==
    ASSUME ControlInv, HistoryIsPast, [Next]_vars, wall <= wall'
    PROVE  /\ \A k \in Users \X Sids :
                 lastAuth[k] # Nil => lastAuth'[k] # Nil /\ lastAuth[k] <= lastAuth'[k]
           /\ HistoryIsPast'
<1> USE NilApart DEF ControlInv, TypeOK, HistoryIsPast
<1>1. ASSUME NEW p \in Procs, ClearFailures(p)
      PROVE  /\ wall' = wall
             /\ \A k \in Users \X Sids : lastAuth'[k] \in {lastAuth[k], wall}
    BY <1>1 DEF ClearFailures
<1>2. \/ \E p \in Procs : ClearFailures(p)
      \/ lastAuth' = lastAuth
    BY NextAuths
<1>3. wall \in Nat /\ wall' \in Nat
    BY NextControl DEF ControlInv, TypeOK
<1> QED BY <1>1, <1>2, <1>3

\* Every step keeps the files truthful.
LEMMA NextFiles ==
    ASSUME IInv, ControlInv', [Next]_vars, wall <= wall'
    PROVE  StateFilesTruthful'
<1>a. ControlInv /\ FilesApart /\ StateFilesTruthful /\ PendingTruthful
    BY DEF IInv
<1>b. \A n \in Names, t \in Nat : Truthful(n, t) => Truthful(n, t)'
    BY <1>a, NextHistory, TruthfulLasts DEF IInv
<1> USE <1>a, NilApart DEF ControlInv, TypeOK
<1>1. ASSUME NEW i \in Inodes, NEW n \in Names, data'[i] # Nil,
             dir'[n] = i \/ \E q \in Procs : fd'[q] = i /\ name'[q] = n
      PROVE  Truthful(n, data[i])'
  <2>1. CASE /\ data'[i] = data[i]
             /\ dir[n] = i \/ \E q \in Procs : fd[q] = i /\ name[q] = n
    <3>1. Truthful(n, data[i])
        BY <1>1, <2>1 DEF StateFilesTruthful
    <3> QED BY <1>1, <1>b, <2>1, <3>1
  <2>2. ASSUME NEW p \in Procs, pc[p] = "write", name[p] = n, data'[i] = stamp[p]
        PROVE  Truthful(n, data[i])'
    <3>1. stamp[p] \in Nat /\ Truthful(n, stamp[p])
        BY <2>2 DEF PendingTruthful, Control
    <3> QED BY <1>b, <2>2, <3>1
  <2>3. \/ /\ data'[i] = data[i]
           /\ dir[n] = i \/ \E q \in Procs : fd[q] = i /\ name[q] = n
        \/ \E p \in Procs : pc[p] = "write" /\ name[p] = n /\ data'[i] = stamp[p]
      BY <1>1, NextContents
  <2> QED BY <2>1, <2>2, <2>3
<1>2. ASSUME NEW n \in Names, dir'[n] # Nil, data'[dir'[n]] # Nil
      PROVE  Truthful(n, data[dir[n]])'
    BY <1>1, <1>2
<1>3. ASSUME NEW p \in Procs, fd'[p] # Nil, data'[fd'[p]] # Nil
      PROVE  Truthful(name[p], data[fd[p]])'
    BY <1>1, <1>3 DEF Control, Running, Reading
<1> QED BY <1>2, <1>3 DEF StateFilesTruthful

\* What is about to be written is drawn when PAM answers, and then kept.
LEMMA NextStamps ==
    ASSUME ControlInv, [Next]_vars, \A p \in Procs : ~PamRejects(p) /\ ~ClearFailures(p),
           NEW q \in Procs, pc'[q] \in {"open", "write"}
    PROVE  /\ pc[q] \in {"open", "write"}
           /\ name'[q] = name[q]
           /\ stamp'[q] = stamp[q]
<1> DEFINE Kept == /\ pc[q] \in {"open", "write"}
                   /\ name'[q] = name[q]
                   /\ stamp'[q] = stamp[q]
<1> USE DEF ControlInv, TypeOK
<1>1. ASSUME NEW p \in Procs, Begin(p) \/ Sweep(p) PROVE Kept
    BY <1>1 DEF Begin, Sweep, SweepUnread, SweepOpen, Inspect, RemoveEntry,
       ListFails, SweepOf, Close
<1>2. ASSUME NEW p \in Procs, Decide(p) PROVE Kept
    BY <1>2 DEF Decide, GrantNoPasswd, SkipCache, OpenCache, CacheMiss, CacheHit,
       Finish, Close
<1>3. ASSUME NEW p \in Procs, Prompting(p) PROVE Kept
    BY <1>3 DEF Prompting, NoCooldown, OpenCooldown, ReadCooldown, Wake, NoPassword,
       PamAccepts, Finish, Close
<1>4. ASSUME NEW p \in Procs, Recording(p) PROVE Kept
    BY <1>4 DEF Recording, OpenStateFile, WriteCache, WriteFailure,
       WriteLastFailure, Finish, Close
<1>5. ASSUME NEW p \in Procs, FlushFails(p) \/ Abort(p) PROVE Kept
    BY <1>5 DEF FlushFails, Abort, Finish, Close
<1>6. CASE Tick \/ UNCHANGED vars \/ \E t \in ClockSteps : SetClock(t)
    BY <1>6 DEF Tick, SetClock, vars
<1> QED BY <1>1, <1>2, <1>3, <1>4, <1>5, <1>6 DEF Next, Step, Rest

\* What is about to be written is truthful when it is drawn, and stays so.
LEMMA NextPending ==
    ASSUME IInv, ControlInv', [Next]_vars, wall <= wall'
    PROVE  PendingTruthful'
<1> DEFINE Kept(q) == pc'[q] \in {"open", "write"} =>
                         /\ pc[q] \in {"open", "write"}
                         /\ name'[q] = name[q]
                         /\ stamp'[q] = stamp[q]
<1>a. ControlInv /\ PendingTruthful
    BY DEF IInv
<1>b. \A n \in Names, t \in Nat : Truthful(n, t) => Truthful(n, t)'
    BY <1>a, NextHistory, TruthfulLasts DEF IInv
<1>c. ASSUME NEW q \in Procs, Kept(q), pc'[q] \in {"open", "write"}
      PROVE  Truthful(name[q], stamp[q])'
  <2>1. /\ name[q] \in Names /\ stamp[q] \in Nat
        /\ Truthful(name[q], stamp[q])
      BY <1>a, <1>c DEF ControlInv, Control, PendingTruthful
  <2>2. name'[q] = name[q] /\ stamp'[q] = stamp[q]
      BY <1>c
  <2>3. ASSUME NEW n \in Names, NEW t \in Nat, n = name'[q], t = stamp'[q],
               Truthful(n, t)'
        PROVE  Truthful(name[q], stamp[q])'
      BY <2>3 DEF Truthful
  <2> QED BY <1>b, <2>1, <2>2, <2>3
<1> USE <1>a DEF ControlInv, TypeOK
<1>1. ASSUME NEW p \in Procs, PamRejects(p) PROVE PendingTruthful'
  <2>1. Truthful(name[p], stamp[p])'
      BY <1>1, DurationsAssumption DEF PamRejects, FailName, Truthful
  <2>2. \A q \in Procs : q # p => Kept(q)
      BY <1>1 DEF PamRejects
  <2> QED BY <1>c, <2>1, <2>2 DEF PendingTruthful
<1>2. ASSUME NEW p \in Procs, ClearFailures(p) PROVE PendingTruthful'
  <2>1. <<req[p].user, req[p].sid>> \in Users \X Sids
      BY <1>2, RequestFacts DEF ClearFailures, Control, Running
  <2>2. Truthful(name[p], stamp[p])'
      BY <1>2, <2>1, NilApart DEF ClearFailures, CacheName, Truthful
  <2>3. \A q \in Procs : q # p => Kept(q)
      BY <1>2 DEF ClearFailures
  <2> QED BY <1>c, <2>2, <2>3 DEF PendingTruthful
<1>3. CASE \A p \in Procs : ~PamRejects(p) /\ ~ClearFailures(p)
  <2>1. \A q \in Procs : Kept(q)
      BY <1>3, NextStamps
  <2> QED BY <1>c, <2>1 DEF PendingTruthful
<1> QED BY <1>1, <1>2, <1>3

\* A sleep is set from a truthful failure file, and then only gets shorter.
LEMMA NextSleep ==
    ASSUME IInv, ControlInv', [Next]_vars
    PROVE  SleepBounded'
<1> DEFINE Shorter(q) == nap'[q] \in {nap[q], 0}
<1>a. ControlInv /\ StateFilesTruthful /\ SleepBounded
    BY DEF IInv
<1> USE <1>a DEF ControlInv, TypeOK
<1>b. AuthFailureCooldown \in Nat
    BY DurationsAssumption
<1>1. ASSUME NEW p \in Procs, ReadCooldown(p) PROVE SleepBounded'
  <2>1. Remaining(p) <= AuthFailureCooldown
    <3>1. name[p] = FailName(p) /\ fd[p] # Nil /\ fd[p] \in Inodes
        BY <1>1 DEF ReadCooldown, Control, Reading
    <3>2. data[fd[p]] = Nil \/ data[fd[p]] <= wall + AuthFailureCooldown
      <4>1. data[fd[p]] # Nil => Truthful(FailName(p), data[fd[p]])
          BY <3>1 DEF StateFilesTruthful
      <4> QED BY <4>1 DEF Truthful, FailName
    <3> QED BY <1>b, <3>1, <3>2, NilApart DEF Remaining, SaturatingSub
  <2> QED BY <1>1, <2>1 DEF ReadCooldown, SleepBounded
<1>2. ASSUME Tick PROVE SleepBounded'
    BY <1>2, <1>b DEF Tick, SaturatingSub, SleepBounded
<1>3. ASSUME NEW p \in Procs, Begin(p) \/ Sweep(p), NEW q \in Procs PROVE Shorter(q)
    BY <1>3 DEF Begin, Sweep, SweepUnread, SweepOpen, Inspect, RemoveEntry, ListFails
<1>4. ASSUME NEW p \in Procs, Decide(p), NEW q \in Procs PROVE Shorter(q)
    BY <1>4 DEF Decide, GrantNoPasswd, SkipCache, OpenCache, CacheMiss, CacheHit, Finish
<1>5. ASSUME NEW p \in Procs, Prompting(p), ~ReadCooldown(p), NEW q \in Procs
      PROVE  Shorter(q)
    BY <1>5 DEF Prompting, NoCooldown, OpenCooldown, Wake, NoPassword, PamAccepts,
       PamRejects, ClearFailures, Finish
<1>6. ASSUME NEW p \in Procs, Recording(p) \/ FlushFails(p) \/ Abort(p),
             NEW q \in Procs
      PROVE  Shorter(q)
    BY <1>6 DEF Recording, OpenStateFile, WriteCache, WriteFailure,
       WriteLastFailure, FlushFails, Abort, Finish
<1>7. ASSUME UNCHANGED vars \/ \E t \in ClockSteps : SetClock(t), NEW q \in Procs
      PROVE  Shorter(q)
    BY <1>7 DEF SetClock, vars
<1>8. \/ \E p \in Procs : ReadCooldown(p)
      \/ Tick
      \/ \A q \in Procs : Shorter(q)
    BY <1>3, <1>4, <1>5, <1>6, <1>7 DEF Next, Step, Rest
<1>9. (\A q \in Procs : Shorter(q)) => SleepBounded'
    BY <1>b DEF SleepBounded
<1> QED BY <1>1, <1>2, <1>8, <1>9

\* The inductive invariant holds at first.
LEMMA InitIInv == Init => IInv
<1> SUFFICES ASSUME Init PROVE IInv
    OBVIOUS
<1>1. ControlInv
    BY InitControl
<1>2. FilesApart /\ StateFilesTruthful
    BY InitFiles
<1>3. PendingTruthful /\ HistoryIsPast
    BY DEF Init, PendingTruthful, HistoryIsPast
<1>4. SleepBounded
    BY DurationsAssumption DEF Init, SleepBounded
<1> QED BY <1>1, <1>2, <1>3, <1>4 DEF IInv

\* The inductive invariant is kept by every step that does not set the clock back.
LEMMA NextIInv ==
    ASSUME IInv, [Next]_vars, wall <= wall'
    PROVE  IInv'
<1>1. ControlInv'
    BY NextControl DEF IInv
<1>2. HistoryIsPast'
    BY NextHistory DEF IInv
<1> QED BY <1>1, <1>2, NextApart, NextFiles, NextPending, NextSleep DEF IInv

-----------------------------------------------------------------------------
(* The theorems *)

\* The inductive invariant of authenticate and its state files.
THEOREM Inductive == Spec /\ ClockForward => []IInv
<1>1. Init => IInv
    BY InitIInv
<1>2. IInv /\ [Next]_vars /\ [wall <= wall']_vars => IInv'
  <2> SUFFICES ASSUME IInv, [Next]_vars, [wall <= wall']_vars PROVE IInv'
      OBVIOUS
  <2>1. wall <= wall'
      BY DEF IInv, ControlInv, TypeOK, vars
  <2> QED BY <2>1, NextIInv
<1> QED BY <1>1, <1>2, PTL DEF Spec, ClockForward

\* A clock nobody sets does not run backwards.
LEMMA UnsetClock ==
    ASSUME ClockSteps = {}
    PROVE  Spec => ClockForward
<1>1. ASSUME ControlInv, [Next]_vars PROVE [wall <= wall']_vars
  <2>1. wall \in Nat
      BY <1>1 DEF ControlInv, TypeOK
  <2>2. ASSUME NEW p \in Procs, ClearFailures(p) PROVE wall' = wall
      BY <2>2 DEF ClearFailures
  <2>3. wall' = wall \/ wall' = wall + 1
      BY <1>1, <2>2, NextAuths DEF Tick
  <2> QED BY <2>1, <2>3
<1>2. Init /\ [][Next]_vars => []ControlInv
    BY InitControl, NextControl, PTL
<1> QED BY <1>1, <1>2, PTL DEF Spec, ClockForward

\* However invocations overlap, die or fail, no reader ever finds a state file
\* that lies: see StateFilesTruthful.
THEOREM FilesTruthful == Spec /\ ClockForward => []StateFilesTruthful
<1>1. IInv => StateFilesTruthful
    BY DEF IInv
<1> QED BY <1>1, Inductive, PTL

\* No invocation sleeps longer than the cooldown, whoever wrote the file.
THEOREM SleepsAreShort == Spec /\ ClockForward => []SleepBounded
<1>1. IInv => SleepBounded
    BY DEF IInv
<1> QED BY <1>1, Inductive, PTL

\* The three ways access is granted.
LEMMA GrantingSteps ==
    ASSUME ControlInv, [Next]_vars, NEW p \in Procs,
           pc[p] # "granted", pc'[p] = "granted"
    PROVE  GrantNoPasswd(p) \/ CacheHit(p) \/ WriteCache(p)
<1> USE DEF ControlInv, TypeOK
<1> DEFINE Still(q) == pc[q] # "granted" => pc'[q] # "granted"
<1>1. ASSUME NEW r \in Procs, Begin(r) \/ Sweep(r) PROVE Still(p)
    BY <1>1 DEF Begin, Sweep, SweepUnread, SweepOpen, Inspect, RemoveEntry,
       ListFails, SweepOf, Close
<1>2. ASSUME NEW r \in Procs, Decide(r)
      PROVE  Still(p) \/ GrantNoPasswd(p) \/ CacheHit(p)
    BY <1>2 DEF Decide, GrantNoPasswd, SkipCache, OpenCache, CacheMiss, CacheHit,
       Finish, Close
<1>3. ASSUME NEW r \in Procs, Prompting(r) PROVE Still(p)
    BY <1>3 DEF Prompting, NoCooldown, OpenCooldown, ReadCooldown, Wake, NoPassword,
       PamAccepts, PamRejects, ClearFailures, Finish, Close
<1>4. ASSUME NEW r \in Procs, Recording(r) PROVE Still(p) \/ WriteCache(p)
    BY <1>4 DEF Recording, OpenStateFile, WriteCache, WriteFailure,
       WriteLastFailure, Finish, Close
<1>5. ASSUME NEW r \in Procs, FlushFails(r) \/ Abort(r) PROVE Still(p)
    BY <1>5 DEF FlushFails, Abort, Finish, Close
<1>6. ASSUME UNCHANGED vars \/ Tick \/ \E t \in ClockSteps : SetClock(t)
      PROVE  Still(p)
    BY <1>6 DEF vars, Tick, SetClock
<1> QED BY <1>1, <1>2, <1>3, <1>4, <1>5, <1>6 DEF Next, Step, Rest

\* A step that grants access has earned it.
LEMMA GrantStep ==
    ASSUME IInv, [Next]_vars, NEW p \in Procs,
           pc[p] # "granted", pc'[p] = "granted"
    PROVE  Earned(p)
<1>a. ControlInv /\ StateFilesTruthful /\ PendingTruthful
    BY DEF IInv
<1> USE <1>a, NilApart DEF ControlInv, TypeOK
<1>1. CASE GrantNoPasswd(p)
    BY <1>1 DEF GrantNoPasswd, Earned
<1>2. CASE CacheHit(p)
  <2>1. /\ req[p] \in Requests /\ name[p] = CacheName(p)
        /\ fd[p] # Nil /\ fd[p] \in Inodes
        /\ data[fd[p]] # Nil /\ ~CacheRefuses(Mode(p), data[fd[p]], wall)
      BY <1>2 DEF CacheHit, NeedsAuth, Control, Running, Reading
  <2>2. <<req[p].user, req[p].sid>> \in Users \X Sids
      BY <2>1, RequestFacts
  <2>3. LookupWindow(Mode(p)) \in Nat
      BY <2>1, RequestFacts, WindowType
  <2> DEFINE a == lastAuth[<<req[p].user, req[p].sid>>]
  <2>4. a # Nil /\ data[fd[p]] <= a
      BY <2>1 DEF StateFilesTruthful, Truthful, CacheName
  <2>5. a \in Nat /\ data[fd[p]] \in Nat
      BY <2>1, <2>2, <2>4
  <2>6. wall - a < LookupWindow(Mode(p))
      BY <2>1, <2>3, <2>4, <2>5 DEF CacheRefuses
  <2> QED BY <2>4, <2>6 DEF Earned
<1>3. CASE WriteCache(p)
  <2>1. /\ pc[p] = "write" /\ name[p].dir = "ts"
        /\ name[p] \in {CacheName(p), FailName(p)}
        /\ Truthful(name[p], stamp[p])
      BY <1>3 DEF WriteCache, Control, PendingTruthful
  <2>2. name[p] = CacheName(p)
      BY <2>1 DEF FailName
  <2> QED BY <2>1, <2>2 DEF Earned, Truthful, CacheName
<1>4. GrantNoPasswd(p) \/ CacheHit(p) \/ WriteCache(p)
    BY GrantingSteps
<1> QED BY <1>1, <1>2, <1>3, <1>4

\* Access is only ever granted by a rule without password, or after PAM has
\* accepted this user in this session within the window of the mode in force.
THEOREM EveryGrantEarned == Spec /\ ClockForward => GrantsEarned
<1>1. IInv /\ [Next]_vars =>
         [\A p \in Procs :
             pc[p] # "granted" /\ pc'[p] = "granted" => Earned(p)]_vars
    BY GrantStep
<1> QED BY <1>1, Inductive, PTL DEF Spec, GrantsEarned

-----------------------------------------------------------------------------
(* Whatever the clock does *)

\* An authentication is never forgotten.
LEMMA VouchedLasts ==
    ASSUME ControlInv, [Next]_vars, NEW n \in Names, Vouched(n)
    PROVE  Vouched(n)'
<1> USE NilApart DEF ControlInv, TypeOK, Vouched
<1>1. n.dir = "ts" => <<n.user, n.sid>> \in Users \X Sids
    BY DEF Names, CacheNames, FailNames
<1>2. ASSUME NEW p \in Procs, ClearFailures(p) PROVE Vouched(n)'
    BY <1>1, <1>2 DEF ClearFailures
<1>3. CASE \A p \in Procs : ~ClearFailures(p)
    BY <1>3, NextAuths
<1> QED BY <1>2, <1>3

\* No step puts anything into a cache file, or on its way there, that PAM's
\* acceptance of that user in that session does not stand behind.
LEMMA NextVouched ==
    ASSUME ControlInv, ControlInv', FilesApart, CachesVouched, [Next]_vars
    PROVE  CachesVouched'
<1> USE NilApart DEF ControlInv, TypeOK
<1>1. ASSUME NEW i \in Inodes, NEW n \in Names, data'[i] # Nil,
             dir'[n] = i \/ \E q \in Procs : fd'[q] = i /\ name'[q] = n
      PROVE  Vouched(n)'
  <2>1. CASE /\ data'[i] = data[i]
             /\ dir[n] = i \/ \E q \in Procs : fd[q] = i /\ name[q] = n
    <3>1. Vouched(n)
        BY <1>1, <2>1 DEF CachesVouched
    <3> QED BY <3>1, VouchedLasts
  <2>2. ASSUME NEW p \in Procs, pc[p] = "write", name[p] = n
        PROVE  Vouched(n)'
    <3>1. Vouched(n)
        BY <2>2 DEF CachesVouched
    <3> QED BY <3>1, VouchedLasts
  <2> QED BY <1>1, <2>1, <2>2, NextContents
<1>2. ASSUME NEW n \in Names, dir'[n] # Nil, data'[dir'[n]] # Nil
      PROVE  Vouched(n)'
    BY <1>1, <1>2
<1>3. ASSUME NEW p \in Procs, fd'[p] # Nil, data'[fd'[p]] # Nil
      PROVE  Vouched(name[p])'
  <2>1. fd'[p] \in Inodes /\ name'[p] \in Names
      BY <1>3 DEF Control, Running, Reading
  <2>2. ASSUME NEW n \in Names, n = name'[p], Vouched(n)' PROVE Vouched(name[p])'
      BY <2>2 DEF Vouched
  <2> QED BY <1>1, <1>3, <2>1, <2>2
<1>4. ASSUME NEW q \in Procs, pc'[q] \in {"open", "write"}
      PROVE  Vouched(name[q])'
  <2>1. CASE pc[q] \in {"open", "write"} /\ name'[q] = name[q]
    <3>1. name[q] \in Names /\ Vouched(name[q])
        BY <2>1 DEF Control, CachesVouched
    <3>2. ASSUME NEW n \in Names, n = name'[q], Vouched(n)' PROVE Vouched(name[q])'
        BY <3>2 DEF Vouched
    <3> QED BY <2>1, <3>1, <3>2, VouchedLasts
  <2>2. ASSUME NEW p \in Procs, PamRejects(p)
        PROVE  \/ name'[q].dir = "fails"
               \/ pc[q] \in {"open", "write"} /\ name'[q] = name[q]
      BY <1>4, <2>2 DEF PamRejects, FailName
  <2>3. ASSUME NEW p \in Procs, ClearFailures(p)
        PROVE  \/ Vouched(name[q])'
               \/ pc[q] \in {"open", "write"} /\ name'[q] = name[q]
    <3>1. CASE q = p
      <4>1. <<req[p].user, req[p].sid>> \in Users \X Sids
          BY <2>3, RequestFacts DEF ClearFailures, Control, Running
      <4> QED BY <2>3, <3>1, <4>1 DEF ClearFailures, CacheName, Vouched
    <3>2. CASE q # p
        BY <1>4, <2>3, <3>2 DEF ClearFailures
    <3> QED BY <3>1, <3>2
  <2>4. CASE \A p \in Procs : ~PamRejects(p) /\ ~ClearFailures(p)
    <3>1. pc[q] \in {"open", "write"} /\ name'[q] = name[q]
        BY <1>4, <2>4, NextStamps
    <3> QED BY <2>1, <3>1
  <2>5. name'[q].dir = "fails" => Vouched(name[q])'
      BY DEF Vouched
  <2> QED BY <2>1, <2>2, <2>3, <2>4, <2>5
<1> QED BY <1>2, <1>3, <1>4 DEF CachesVouched

\* The cleanup pass goes through one directory and then through the other.
LEMMA NextListing ==
    ASSUME ControlInv, [Next]_vars, NEW q \in Procs, Listing(q)
    PROVE  Listing(q)'
<1> USE NilApart DEF ControlInv, TypeOK
<1> DEFINE Same == pc'[q] = pc[q] /\ todo'[q] = todo[q] /\ name'[q] = name[q]
           Out == pc'[q] \notin {"sweep_ts", "sweep_fails", "inspect", "remove"}
<1>0. /\ \A n \in CacheNames : n \in Names /\ n.dir = "ts"
      /\ \A n \in FailNames : n \in Names /\ n.dir = "fails"
      /\ \A n \in Names : (n.dir = "ts" => n \in CacheNames)
                       /\ (n.dir # "ts" => n \in FailNames)
    BY DEF Names, CacheNames, FailNames
<1>1. Same \/ Out => Listing(q)'
    BY DEF Listing
<1>2. CASE Begin(q)
    BY <1>2 DEF Begin, Linked, Listing
<1>3. CASE ListFails(q)
    BY <1>3 DEF ListFails, Linked, Listing
<1>4. ASSUME NEW n \in Names, SweepUnread(q, n) PROVE Listing(q)'
    BY <1>0, <1>4 DEF SweepUnread, Sweeping, Listing
<1>5. ASSUME NEW n \in Names, SweepOpen(q, n) PROVE Listing(q)'
    BY <1>0, <1>5 DEF SweepOpen, Sweeping, Listing
<1>6. CASE Inspect(q)
    BY <1>0, <1>6 DEF Inspect, SweepOf, Listing, Control
<1>7. CASE RemoveEntry(q)
    BY <1>0, <1>7 DEF RemoveEntry, SweepOf, Close, Listing, Control
<1>8. ASSUME NEW p \in Procs, p # q, Begin(p) \/ Sweep(p) PROVE Same
    BY <1>8 DEF Begin, Sweep, SweepUnread, SweepOpen, Inspect, RemoveEntry,
       ListFails, SweepOf, Close
<1>9. ASSUME NEW p \in Procs, Decide(p) PROVE Same \/ Out
    BY <1>9 DEF Decide, GrantNoPasswd, SkipCache, OpenCache, CacheMiss, CacheHit,
       Finish, Close
<1>10. ASSUME NEW p \in Procs, Prompting(p) PROVE Same \/ Out
    BY <1>10 DEF Prompting, NoCooldown, OpenCooldown, ReadCooldown, Wake, NoPassword,
       PamAccepts, PamRejects, ClearFailures, Finish, Close
<1>11. ASSUME NEW p \in Procs, Recording(p) PROVE Same \/ Out
    BY <1>11 DEF Recording, OpenStateFile, WriteCache, WriteFailure,
       WriteLastFailure, Finish, Close
<1>12. ASSUME NEW p \in Procs, FlushFails(p) \/ Abort(p) PROVE Same \/ Out
    BY <1>12 DEF FlushFails, Abort, Finish, Close
<1>13. CASE Tick \/ UNCHANGED vars \/ \E t \in ClockSteps : SetClock(t)
  <2>1. Same
      BY <1>13 DEF Tick, SetClock, vars
  <2> QED BY <1>1, <2>1
<1> HIDE DEF Same, Out
<1> QED BY <1>1, <1>2, <1>3, <1>4, <1>5, <1>6, <1>7, <1>8, <1>9, <1>10, <1>11, <1>12,
           <1>13 DEF Next, Step, Sweep, Rest

\* The inductive invariant of authenticate under any clock.
THEOREM AnyClock == Spec => []AnyClockInv
<1>1. Init => AnyClockInv
  <2>1. Init => CachesVouched /\ \A p \in Procs : Listing(p)
      BY DEF Init, CachesVouched, Listing
  <2> QED BY <2>1, InitControl, InitFiles DEF AnyClockInv
<1>2. AnyClockInv /\ [Next]_vars => AnyClockInv'
  <2> SUFFICES ASSUME AnyClockInv, [Next]_vars PROVE AnyClockInv'
      OBVIOUS
  <2>1. ControlInv /\ FilesApart /\ CachesVouched /\ \A p \in Procs : Listing(p)
      BY DEF AnyClockInv
  <2>2. ControlInv'
      BY <2>1, NextControl
  <2>3. FilesApart' /\ CachesVouched'
      BY <2>1, <2>2, NextApart, NextVouched
  <2>4. \A p \in Procs : Listing(p)'
      BY <2>1, NextListing
  <2> QED BY <2>2, <2>3, <2>4 DEF AnyClockInv
<1> QED BY <1>1, <1>2, PTL DEF Spec

\* Setting the clock can make an authentication count for longer, never make one
\* that did not happen: see GrantsAuthenticated.
THEOREM EveryGrantAuthenticated == Spec => GrantsAuthenticated
<1> DEFINE Authenticated(p) ==
        req[p].nopasswd \/ lastAuth[<<req[p].user, req[p].sid>>] # Nil
<1>1. ASSUME AnyClockInv, [Next]_vars, NEW p \in Procs,
             pc[p] # "granted", pc'[p] = "granted"
      PROVE  Authenticated(p)
  <2>a. ControlInv /\ CachesVouched
      BY <1>1 DEF AnyClockInv
  <2> USE <2>a, NilApart DEF ControlInv, TypeOK
  <2>1. CASE GrantNoPasswd(p)
      BY <2>1 DEF GrantNoPasswd
  <2>2. CASE CacheHit(p)
    <3>1. name[p] = CacheName(p) /\ fd[p] # Nil /\ data[fd[p]] # Nil
        BY <2>2 DEF CacheHit, NeedsAuth, Control, Reading
    <3> QED BY <3>1 DEF CachesVouched, Vouched, CacheName
  <2>3. CASE WriteCache(p)
    <3>1. /\ pc[p] = "write" /\ name[p].dir = "ts"
          /\ name[p] \in {CacheName(p), FailName(p)}
        BY <2>3 DEF WriteCache, Control
    <3>2. name[p] = CacheName(p)
        BY <3>1 DEF FailName
    <3> QED BY <3>1, <3>2 DEF CachesVouched, Vouched, CacheName
  <2> QED BY <1>1, <2>1, <2>2, <2>3, GrantingSteps
<1>2. AnyClockInv /\ [Next]_vars =>
         [\A p \in Procs :
             pc[p] # "granted" /\ pc'[p] = "granted" =>
                \/ req[p].nopasswd
                \/ lastAuth[<<req[p].user, req[p].sid>>] # Nil]_vars
    BY <1>1
<1> QED BY <1>2, AnyClock, PTL DEF Spec, GrantsAuthenticated

-----------------------------------------------------------------------------
(* No invocation runs forever *)

\* The order of ranks admits no infinite descent.
LEMMA RanksWellFounded ==
    IsWellFoundedOn({ab \in [1..5 -> Nat] \X [1..5 -> Nat] : Below(ab[1], ab[2])},
                    [1..5 -> Nat])
<1> DEFINE R == OpToRel(<, Nat)
           S == [1..5 -> Nat]
           L == LexProductOrdering(R, Nat, 5)
           B == {ab \in S \X S : Below(ab[1], ab[2])}
<1>1. IsWellFoundedOn(R, Nat)
    BY NatLessThanWellFounded, Zenon
<1>2. IsWellFoundedOn(L, S)
    BY <1>1, WFLexProductOrdering
<1>3. ASSUME NEW a \in S, NEW b \in S, Below(a, b) PROVE <<a, b>> \in L
  <2>1. PICK i \in 1..5 : a[i] < b[i] /\ \A j \in 1..(i - 1) : a[j] = b[j]
      BY <1>3 DEF Below
  <2>2. <<a[i], b[i]>> \in R
    <3>1. a[i] \in Nat /\ b[i] \in Nat
        OBVIOUS
    <3> QED BY <2>1, <3>1 DEF OpToRel
  <2>3. <<a, b>> \in S \X S /\ <<a, b>>[1] = a /\ <<a, b>>[2] = b
      OBVIOUS
  <2> HIDE DEF R, S
  <2> QED BY <2>1, <2>2, <2>3 DEF LexProductOrdering, S
<1>4. \A ab \in B : ab \in L
  <2> TAKE ab \in B
  <2>1. ab[1] \in S /\ ab[2] \in S /\ ab = <<ab[1], ab[2]>> /\ Below(ab[1], ab[2])
      OBVIOUS
  <2> HIDE DEF L, B, S
  <2> QED BY <1>3, <2>1
<1> HIDE DEF L, B, S
<1>5. IsWellFoundedOn(B, S)
    BY <1>2, <1>4, IsWellFoundedOnSubrelation
<1> QED BY <1>5 DEF B, S

\* The way to go from each place in the code.
LEMMA ToGoValues ==
    /\ ToGo["inspect"] = 2 /\ ToGo["remove"] = 1
    /\ ToGo["sweep_ts"] = 0 /\ ToGo["sweep_fails"] = 0 /\ ToGo["lookup"] = 0
    /\ ToGo["cooldown"] = 6 /\ ToGo["pause"] = 5 /\ ToGo["sleep"] = 4
    /\ ToGo["prompt"] = 3 /\ ToGo["clear"] = 2 /\ ToGo["open"] = 1 /\ ToGo["write"] = 0
BY DEF ToGo

\* A rank is below another when it is smaller where they first differ.
LEMMA LexBelow ==
    ASSUME NEW a1 \in Nat, NEW a2 \in Nat, NEW a3 \in Nat, NEW a4 \in Nat, NEW a5 \in Nat,
           NEW b1 \in Nat, NEW b2 \in Nat, NEW b3 \in Nat, NEW b4 \in Nat, NEW b5 \in Nat,
           \/ a1 < b1
           \/ a1 = b1 /\ a2 < b2
           \/ a1 = b1 /\ a2 = b2 /\ a3 < b3
           \/ a1 = b1 /\ a2 = b2 /\ a3 = b3 /\ a4 < b4
           \/ a1 = b1 /\ a2 = b2 /\ a3 = b3 /\ a4 = b4 /\ a5 < b5
    PROVE  Below(<<a1, a2, a3, a4, a5>>, <<b1, b2, b3, b4, b5>>)
<1> DEFINE a == <<a1, a2, a3, a4, a5>>
           b == <<b1, b2, b3, b4, b5>>
<1>1. /\ a[1] = a1 /\ a[2] = a2 /\ a[3] = a3 /\ a[4] = a4 /\ a[5] = a5
      /\ b[1] = b1 /\ b[2] = b2 /\ b[3] = b3 /\ b[4] = b4 /\ b[5] = b5
    OBVIOUS
<1>2. /\ \A j \in 1..(1 - 1) : FALSE
      /\ \A j \in 1..(2 - 1) : j = 1
      /\ \A j \in 1..(3 - 1) : j \in {1, 2}
      /\ \A j \in 1..(4 - 1) : j \in {1, 2, 3}
      /\ \A j \in 1..(5 - 1) : j \in {1, 2, 3, 4}
    OBVIOUS
<1> HIDE DEF a, b
<1>3. \E i \in 1..5 : a[i] < b[i] /\ \A j \in 1..(i - 1) : a[j] = b[j]
    BY <1>1, <1>2
<1> QED BY <1>3 DEF a, b, Below

\* There are finitely many state files for finitely many users and sessions.
LEMMA NamesFinite ==
    ASSUME IsFiniteSet(Users), IsFiniteSet(Sids)
    PROVE  IsFiniteSet(Names)
<1> DEFINE K == Users \X Sids
           f == [k \in K |-> [dir |-> "ts", user |-> k[1], sid |-> k[2]]]
           g == [u \in Users |-> [dir |-> "fails", user |-> u, sid |-> Nil]]
<1>1. IsFiniteSet(K)
    BY FS_Product
<1>2. f \in Surjection(K, CacheNames)
  <2>1. f \in [K -> CacheNames]
      BY DEF CacheNames
  <2>2. ASSUME NEW n \in CacheNames PROVE \E k \in K : f[k] = n
    <3>1. <<n.user, n.sid>> \in K /\ n = [dir |-> "ts", user |-> n.user, sid |-> n.sid]
        BY DEF CacheNames
    <3> QED BY <3>1
  <2> QED BY <2>1, <2>2 DEF Surjection
<1>3. g \in Surjection(Users, FailNames)
  <2>1. g \in [Users -> FailNames]
      BY DEF FailNames
  <2>2. ASSUME NEW n \in FailNames PROVE \E u \in Users : g[u] = n
    <3>1. n.user \in Users /\ n = [dir |-> "fails", user |-> n.user, sid |-> Nil]
        BY DEF FailNames
    <3> QED BY <3>1
  <2> QED BY <2>1, <2>2 DEF Surjection
<1> HIDE DEF K, f, g
<1>4. IsFiniteSet(CacheNames) /\ IsFiniteSet(FailNames)
    BY <1>1, <1>2, <1>3, FS_Surjection
<1> QED BY <1>4, FS_Union DEF Names

\* The parts of the rank of an invocation under way are natural numbers.
LEMMA RankParts ==
    ASSUME IsFiniteSet(Names), TypeOK, NEW p \in Procs, pc[p] \in Running
    PROVE  /\ Phase(p) \in Nat /\ Cardinality(todo[p]) \in Nat /\ left[p] \in Nat
           /\ ToGo[pc[p]] \in Nat /\ nap[p] \in Nat
<1>1. todo[p] \in SUBSET Names
    BY DEF TypeOK
<1>2. Cardinality(todo[p]) \in Nat
    BY <1>1, FS_Subset, FS_CardinalityType
<1>3. ToGo[pc[p]] \in Nat
    BY ToGoValues DEF Running
<1> QED BY <1>2, <1>3 DEF TypeOK, Phase

\* What it takes to come closer to the end.
Closer(p) ==
    \/ Phase(p)' < Phase(p)
    \/ /\ Phase(p)' = Phase(p)
       /\ \/ \E n \in todo[p] : todo'[p] = todo[p] \ {n}
          \/ todo'[p] = todo[p] /\ left'[p] < left[p]
          \/ todo'[p] = todo[p] /\ left'[p] = left[p] /\ ToGo[pc'[p]] < ToGo[pc[p]]
          \/ /\ todo'[p] = todo[p] /\ left'[p] = left[p]
             /\ pc'[p] = pc[p] /\ nap'[p] < nap[p]

\* Whoever comes closer has a lower rank.
LEMMA CloserIsBelow ==
    ASSUME IsFiniteSet(Names), TypeOK, TypeOK', NEW p \in Procs,
           pc[p] \in Running, pc'[p] \in Running, Closer(p)
    PROVE  Below(Rank(p)', Rank(p))
<1> DEFINE a2 == Cardinality(todo[p])
           a4 == ToGo[pc[p]]
<1>1. /\ Phase(p) \in Nat /\ a2 \in Nat /\ left[p] \in Nat /\ a4 \in Nat /\ nap[p] \in Nat
    BY RankParts
<1>2. /\ Phase(p)' \in Nat /\ a2' \in Nat /\ left'[p] \in Nat /\ a4' \in Nat /\ nap'[p] \in Nat
  <2>1. todo'[p] \in SUBSET Names
      BY DEF TypeOK
  <2>2. a2' \in Nat
      BY <2>1, FS_Subset, FS_CardinalityType
  <2>3. a4' \in Nat
      BY ToGoValues DEF Running
  <2> QED BY <2>2, <2>3 DEF TypeOK, Phase
<1>3. ASSUME NEW n \in todo[p], todo'[p] = todo[p] \ {n} PROVE a2' < a2
  <2>1. IsFiniteSet(todo[p])
    <3>1. todo[p] \in SUBSET Names
        BY DEF TypeOK
    <3> QED BY <3>1, FS_Subset
  <2>2. Cardinality(todo[p] \ {n}) = Cardinality(todo[p]) - 1
      BY <2>1, FS_RemoveElement
  <2> QED BY <1>1, <1>3, <2>2
<1>4. todo'[p] = todo[p] => a2' = a2
    OBVIOUS
<1>5. pc'[p] = pc[p] => a4' = a4
    OBVIOUS
<1>6. \/ Phase(p)' < Phase(p)
      \/ Phase(p)' = Phase(p) /\ a2' < a2
      \/ Phase(p)' = Phase(p) /\ a2' = a2 /\ left'[p] < left[p]
      \/ Phase(p)' = Phase(p) /\ a2' = a2 /\ left'[p] = left[p] /\ a4' < a4
      \/ /\ Phase(p)' = Phase(p) /\ a2' = a2 /\ left'[p] = left[p] /\ a4' = a4
         /\ nap'[p] < nap[p]
    BY <1>3, <1>4, <1>5 DEF Closer
<1> HIDE DEF a2, a4
<1>7. Below(<<Phase(p)', a2', left'[p], a4', nap'[p]>>,
            <<Phase(p), a2, left[p], a4, nap[p]>>)
    BY <1>1, <1>2, <1>6, LexBelow
<1> QED BY <1>7 DEF a2, a4, Rank

\* Each step of an invocation brings it closer to its end.
LEMMA OwnStep ==
    ASSUME ControlInv, ControlInv', NEW p \in Procs, Listing(p), pc[p] \in Running,
           Step(p) \/ FlushFails(p) \/ Abort(p)
    PROVE  pc'[p] \in Ended \/ Closer(p)
<1> USE NilApart, ToGoValues DEF ControlInv, TypeOK
<1>0. \A n \in Names : (n \in CacheNames <=> n.dir = "ts") /\ (n \in FailNames <=> n.dir = "fails")
                       /\ (n.dir = "ts" \/ n.dir = "fails")
    BY DEF Names, CacheNames, FailNames
<1>1. CASE ListFails(p)
    BY <1>1 DEF ListFails, Closer, Phase, Trying
<1>2. ASSUME NEW n \in Names, SweepUnread(p, n) PROVE Closer(p)
  <2>1. Phase(p)' = Phase(p)
      BY <1>0, <1>2 DEF SweepUnread, Sweeping, Listing, Phase, Trying
  <2> QED BY <1>2, <2>1 DEF SweepUnread, Sweeping, Closer
<1>3. ASSUME NEW n \in Names, SweepOpen(p, n) PROVE Closer(p)
  <2>1. Phase(p)' = Phase(p)
      BY <1>0, <1>3 DEF SweepOpen, Sweeping, Listing, Phase, Trying
  <2> QED BY <1>3, <2>1 DEF SweepOpen, Sweeping, Closer
<1>4. CASE Inspect(p)
  <2>1. Phase(p)' = Phase(p)
    <3>1. name[p] \in Names /\ (name[p].dir = "ts" \/ name[p].dir = "fails")
        BY <1>0, <1>4 DEF Inspect, Control, Reading
    <3>2. CASE ShouldRemove(p)
        BY <1>4, <3>2 DEF Inspect, Phase, Trying
    <3>3. CASE ~ShouldRemove(p)
        BY <1>4, <3>1, <3>3 DEF Inspect, SweepOf, Phase, Trying
    <3> QED BY <3>2, <3>3
  <2> QED BY <1>4, <2>1 DEF Inspect, SweepOf, Closer
<1>5. CASE RemoveEntry(p)
  <2>1. Phase(p)' = Phase(p)
      BY <1>0, <1>5 DEF RemoveEntry, Close, SweepOf, Phase, Trying, Control
  <2> QED BY <1>5, <2>1 DEF RemoveEntry, Close, SweepOf, Closer
<1>6. CASE GrantNoPasswd(p)
    BY <1>6 DEF GrantNoPasswd, Finish, Close, Ended
<1>7. CASE SkipCache(p)
    BY <1>7 DEF SkipCache, Swept, Closer, Phase, Trying
<1>8. CASE OpenCache(p)
    BY <1>8 DEF OpenCache, Swept, Closer, Phase, Trying
<1>9. CASE CacheMiss(p)
    BY <1>9 DEF CacheMiss, Close, Closer, Phase, Trying
<1>10. CASE CacheHit(p)
    BY <1>10 DEF CacheHit, Finish, Close, Ended
<1>11. CASE NoCooldown(p)
    BY <1>11 DEF NoCooldown, Closer, Phase, Trying
<1>12. CASE OpenCooldown(p)
    BY <1>12 DEF OpenCooldown, Closer, Phase, Trying
<1>13. CASE ReadCooldown(p)
    BY <1>13 DEF ReadCooldown, Close, Closer, Phase, Trying
<1>14. CASE Wake(p)
    BY <1>14 DEF Wake, Closer, Phase, Trying
<1>15. CASE NoPassword(p)
    BY <1>15 DEF NoPassword, Finish, Close, Ended
<1>16. CASE PamAccepts(p)
    BY <1>16 DEF PamAccepts, Closer, Phase, Trying
<1>17. CASE PamRejects(p)
    BY <1>17 DEF PamRejects, Closer, Phase, Trying
<1>18. CASE ClearFailures(p)
    BY <1>18 DEF ClearFailures, Closer, Phase, Trying
<1>19. CASE OpenStateFile(p)
    BY <1>19 DEF OpenStateFile, Closer, Phase, Trying
<1>20. CASE WriteCache(p)
    BY <1>20 DEF WriteCache, Finish, Close, Ended
<1>21. CASE WriteFailure(p)
    BY <1>21 DEF WriteFailure, Close, Closer, Phase, Trying
<1>22. CASE WriteLastFailure(p)
    BY <1>22 DEF WriteLastFailure, Finish, Close, Ended
<1>23. CASE FlushFails(p) \/ Abort(p)
    BY <1>23 DEF FlushFails, Abort, Finish, Close, Ended
<1> QED BY <1>1, <1>2, <1>3, <1>4, <1>5, <1>6, <1>7, <1>8, <1>9, <1>10, <1>11, <1>12,
           <1>13, <1>14, <1>15, <1>16, <1>17, <1>18, <1>19, <1>20, <1>21, <1>22, <1>23
        DEF Step, Sweep, Decide, Prompting, Recording

\* A second that passes brings a sleeper closer, and moves nobody else.
LEMMA SecondPasses ==
    ASSUME ControlInv, NEW p \in Procs, Tick
    PROVE  Locals(p)' = Locals(p) \/ Closer(p)
<1> USE DEF ControlInv, TypeOK
<1>1. nap'[p] = SaturatingSub(nap[p], 1) /\ nap[p] \in Nat
    BY DEF Tick
<1>2. nap'[p] = nap[p] \/ nap'[p] < nap[p]
    BY <1>1 DEF SaturatingSub
<1>3. /\ pc'[p] = pc[p] /\ req'[p] = req[p] /\ todo'[p] = todo[p] /\ name'[p] = name[p]
      /\ fd'[p] = fd[p] /\ stamp'[p] = stamp[p] /\ left'[p] = left[p]
    BY DEF Tick
<1>4. Phase(p)' = Phase(p)
    BY <1>3 DEF Phase
<1> QED BY <1>2, <1>3, <1>4 DEF Closer, Locals

\* The steps of others leave an invocation where it is.
LEMMA OthersStep ==
    ASSUME ControlInv, NEW p \in Procs, NEW q \in Procs, q # p,
           Begin(q) \/ Step(q) \/ FlushFails(q) \/ Abort(q)
    PROVE  Locals(p)' = Locals(p)
<1> USE DEF ControlInv, TypeOK, Locals
<1>1. CASE Begin(q) \/ Sweep(q)
    BY <1>1 DEF Begin, Sweep, SweepUnread, SweepOpen, Inspect, RemoveEntry,
       ListFails, SweepOf, Close
<1>2. CASE Decide(q)
    BY <1>2 DEF Decide, GrantNoPasswd, SkipCache, OpenCache, CacheMiss, CacheHit,
       Finish, Close
<1>3. CASE Prompting(q)
    BY <1>3 DEF Prompting, NoCooldown, OpenCooldown, ReadCooldown, Wake, NoPassword,
       PamAccepts, PamRejects, ClearFailures, Finish, Close
<1>4. CASE Recording(q)
    BY <1>4 DEF Recording, OpenStateFile, WriteCache, WriteFailure,
       WriteLastFailure, Finish, Close
<1>5. CASE FlushFails(q) \/ Abort(q)
    BY <1>5 DEF FlushFails, Abort, Finish, Close
<1> QED BY <1>1, <1>2, <1>3, <1>4, <1>5 DEF Step

\* Every step of an invocation uses up some of what it has left to do, and nothing
\* anybody else does, nor the clock, gives it more: with RanksWellFounded, each can
\* take finitely many steps only.  See RankFalls.
THEOREM EveryStepCounts ==
    ASSUME IsFiniteSet(Users), IsFiniteSet(Sids)
    PROVE  Spec => RankFalls
<1>0. IsFiniteSet(Names)
    BY NamesFinite
<1>1. ASSUME AnyClockInv, [Next]_vars, NEW p \in Procs, pc[p] \in Running
      PROVE  \/ pc'[p] \in Ended
             \/ Locals(p)' = Locals(p)
             \/ Below(Rank(p)', Rank(p))
  <2>1. ControlInv /\ Listing(p)
      BY <1>1 DEF AnyClockInv
  <2>2. ControlInv'
      BY <1>1, <2>1, NextControl
  <2>3. \/ pc'[p] \in Ended
        \/ Locals(p)' = Locals(p)
        \/ Closer(p)
    <3>1. CASE Begin(p)
        BY <1>1, <3>1 DEF Begin, Running, Ended
    <3>2. CASE Step(p) \/ FlushFails(p) \/ Abort(p)
        BY <1>1, <2>1, <2>2, <3>2, OwnStep
    <3>3. ASSUME NEW q \in Procs, q # p, Begin(q) \/ Step(q) \/ FlushFails(q) \/ Abort(q)
          PROVE  Locals(p)' = Locals(p)
        BY <2>1, <3>3, OthersStep
    <3>4. CASE Tick
        BY <2>1, <3>4, SecondPasses
    <3>5. CASE UNCHANGED vars \/ \E t \in ClockSteps : SetClock(t)
        BY <3>5 DEF SetClock, vars, Locals
    <3> QED BY <1>1, <3>1, <3>2, <3>3, <3>4, <3>5 DEF Next, Rest
  <2>4. pc'[p] \in Running \/ pc'[p] \in Ended
      BY <2>2 DEF ControlInv, TypeOK
  <2> QED BY <1>0, <1>1, <2>1, <2>2, <2>3, <2>4, CloserIsBelow DEF ControlInv
<1>2. AnyClockInv /\ [Next]_vars =>
         [\A p \in Procs :
             pc[p] \in Running =>
                \/ pc'[p] \in Ended
                \/ Locals(p)' = Locals(p)
                \/ Below(Rank(p)', Rank(p))]_vars
    BY <1>1
<1> QED BY <1>2, AnyClock, PTL DEF Spec, RankFalls

-----------------------------------------------------------------------------
(* Invocations that do not overlap *)

\* One slot, nothing killed and nothing failing.
Serial ==
    /\ \A p, q \in Procs : p = q
    /\ ~Faults

\* The state files of a user and a session, by the user and the session.
LEMMA NamesOf ==
    /\ \A u \in Users : FailOf(u) \in Names
    /\ \A u \in Users, s \in Sids : CacheOf(u, s) \in Names
    /\ \A n \in Names : \/ \E u \in Users : n = FailOf(u)
                        \/ \E u \in Users, s \in Sids : n = CacheOf(u, s)
    /\ \A u \in Users, v \in Users, s \in Sids :
          FailOf(u) # CacheOf(v, s) /\ (FailOf(u) = FailOf(v) => u = v)
    /\ \A u \in Users, v \in Users, r \in Sids, s \in Sids :
          CacheOf(u, r) = CacheOf(v, s) => u = v /\ r = s
BY DEF FailOf, CacheOf, Names, CacheNames, FailNames

\* The names authenticate works on are those of its request.
LEMMA RequestNames ==
    ASSUME NEW p, req[p] \in Requests
    PROVE  /\ FailName(p) = FailOf(req[p].user)
           /\ CacheName(p) = CacheOf(req[p].user, req[p].sid)
           /\ req[p].user \in Users
           /\ req[p].sid \in Sids
           /\ req[p].cfg \in Configs
BY DEF FailName, CacheName, FailOf, CacheOf, Requests

\* A timestamp past the retention of its file no longer counts for needs_auth.
LEMMA ExpiredIsRefused ==
    ASSUME NEW mode \in CacheModes, NEW ts \in Nat, NEW now \in Nat, ts <= now,
           IsExpired(ts, now, CacheRetention(mode))
    PROVE  now - ts >= LookupWindow(mode)
<1>1. CASE mode.kind = "AlwaysPrompt"
  <2>1. LookupWindow(mode) = 0
    <3>1. mode.minutes = 0
        BY <1>1 DEF CacheModes
    <3> QED BY <1>1, <3>1, DurationsAssumption DEF LookupWindow
  <2> QED BY <2>1
<1>2. CASE mode.kind # "AlwaysPrompt"
    BY <1>2, CleanupAgreesWithLookup DEF CacheRefuses
<1> QED BY <1>1, <1>2

\* Expiry lasts while the clock runs on.
LEMMA ExpiryLasts ==
    ASSUME NEW ts \in Nat, NEW now \in Nat, NEW later \in Nat, now <= later,
           NEW retention \in Nat, IsExpired(ts, now, retention)
    PROVE  IsExpired(ts, later, retention)
BY DEF IsExpired, SaturatingSub

\* Every file is cleaned up at an age in whole seconds.
LEMMA RetentionType ==
    ASSUME NEW p, req[p] \in Requests, NEW n
    PROVE  Retention(p, n) \in Nat
BY RequestFacts, WindowType, DurationsAssumption DEF Retention

\* Types of the history.
LEMMA HistoryType ==
    ASSUME TypeOK
    PROVE  /\ wall \in Nat
           /\ \A u \in Users : lastFail[u] = Nil \/ lastFail[u] \in Nat
           /\ \A u \in Users, s \in Sids :
                 lastAuth[<<u, s>>] = Nil \/ lastAuth[<<u, s>>] \in Nat
           /\ \A c \in Configs : LookupWindow(ModeOf(c)) \in Nat
           /\ AuthFailureCooldown \in Nat
<1>1. \A c \in Configs : ModeOf(c) \in CacheModes
    BY ConfigsAssumption, ModeType
<1> QED BY <1>1, WindowType, DurationsAssumption DEF TypeOK

\* A step that leaves every name and its file alone, and the history, leaves
\* what is on record on record; time only takes records that count away.
LEMMA QuietStep ==
    ASSUME ControlInv, ControlInv', wall <= wall',
           lastFail' = lastFail, lastAuth' = lastAuth,
           \A n \in Names :
              dir'[n] = dir[n] /\ (dir[n] # Nil => data'[dir[n]] = data[dir[n]]),
           \A q \in Procs : pc[q] \in {"open", "write"} =>
              /\ pc'[q] \in {"open", "write"}
              /\ name'[q] = name[q] /\ stamp'[q] = stamp[q],
           RefusalsRecorded, AuthenticationsRecorded
    PROVE  RefusalsRecorded' /\ AuthenticationsRecorded'
<1> USE DEF ControlInv
<1>1. ASSUME NEW n \in Names, NEW t, Recorded(n, t)
      PROVE  Recorded(n, t)'
    BY <1>1 DEF Recorded
<1>2. ASSUME NEW u \in Users PROVE Cooled(u, wall) => Cooled(u, wall)'
    BY HistoryType DEF Cooled, TypeOK
<1>3. ASSUME NEW u \in Users, NEW s \in Sids, lastAuth[<<u, s>>] # Nil, Outlived(u, s)
      PROVE  Outlived(u, s)'
  <2>1. PICK c \in Configs : wall - lastAuth[<<u, s>>] >= LookupWindow(ModeOf(c))
      BY <1>3 DEF Outlived
  <2>2. wall' - lastAuth'[<<u, s>>] >= LookupWindow(ModeOf(c))
      BY <1>3, <2>1, HistoryType DEF TypeOK
  <2> QED BY <2>2 DEF Outlived
<1>4. RefusalsRecorded'
  <2>1. ASSUME NEW u \in Users
        PROVE  \/ Cooled(u, wall)'
               \/ Recorded(FailOf(u), lastFail[u] + AuthFailureCooldown)'
      BY <1>1, <1>2, NamesOf DEF RefusalsRecorded
  <2> QED BY <2>1 DEF RefusalsRecorded, FailOf
<1>5. AuthenticationsRecorded'
  <2>1. ASSUME NEW u \in Users, NEW s \in Sids, lastAuth'[<<u, s>>] # Nil
        PROVE  Recorded(CacheOf(u, s), lastAuth[<<u, s>>])' \/ Outlived(u, s)'
      BY <1>1, <1>3, <2>1, NamesOf DEF AuthenticationsRecorded
  <2> QED BY <2>1 DEF AuthenticationsRecorded, CacheOf
<1> QED BY <1>4, <1>5

\* The steps that read, decide or wait.
LEMMA ReadingSteps ==
    ASSUME Serial, IInv, ControlInv', SerialInv, NEW p \in Procs,
           \/ Begin(p) \/ ListFails(p) \/ Inspect(p)
           \/ \E n \in Names : SweepUnread(p, n) \/ SweepOpen(p, n)
           \/ Decide(p)
           \/ Prompting(p) /\ ~PamRejects(p) /\ ~ClearFailures(p)
    PROVE  SerialInv'
<1> DEFINE Quiet ==
              /\ wall' = wall /\ lastFail' = lastFail /\ lastAuth' = lastAuth
              /\ pc[p] \notin {"open", "write"}
              /\ \A n \in Names : /\ dir'[n] = dir[n]
                                  /\ dir[n] # Nil => data'[dir[n]] = data[dir[n]]
           Goal == Quiet /\ Orderly(p)'
<1>a. ControlInv /\ HistoryIsPast /\ Control(p) /\ Orderly(p) /\ TypeOK
    BY DEF IInv, SerialInv, ControlInv
<1> USE <1>a, NilApart DEF TypeOK, Control, Running, Ended, Reading, Orderly
<1>1. ASSUME Begin(p) PROVE Goal
    BY <1>1, RequestFacts DEF Begin, files, history, Linked
<1>2. ASSUME ListFails(p) PROVE Goal
    BY <1>2, RequestFacts DEF ListFails, files, history
<1>3. ASSUME Inspect(p) PROVE Goal
  <2>1. Quiet
      BY <1>3 DEF Inspect, Settle, Live, history
  <2>2. pc'[p] = "remove" => Stale(p)'
      BY <1>3 DEF Inspect, Settle, Live, ShouldRemove, SweepOf, Stale, Retention, Mode
  <2> QED BY <1>3, <2>1, <2>2 DEF Inspect, SweepOf
<1>4. ASSUME GrantNoPasswd(p) PROVE Goal
    BY <1>4, RequestFacts DEF GrantNoPasswd, Swept, Finish, Close, files, history
<1>5. ASSUME SkipCache(p) PROVE Goal
    BY <1>5, RequestFacts DEF SkipCache, Swept, files, history
<1>6. ASSUME OpenCache(p) PROVE Goal
    BY <1>6, RequestFacts DEF OpenCache, Swept, files, history
<1>7. ASSUME CacheMiss(p) PROVE Goal
    BY <1>7, RequestFacts DEF CacheMiss, Settle, Live, Close, history
<1>8. ASSUME CacheHit(p) PROVE Goal
    BY <1>8, RequestFacts DEF CacheHit, Settle, Live, Finish, Close, history
<1>9. ASSUME NoCooldown(p) PROVE Goal
  <2>1. /\ pc[p] = "cooldown" /\ dir[FailOf(req[p].user)] = Nil
        /\ req[p].user \in Users
      BY <1>9, RequestNames DEF NoCooldown
  <2>2. Cooled(req[p].user, wall)
      BY <2>1 DEF Serial, SerialInv, RefusalsRecorded, Recorded
  <2> QED BY <1>9, <2>2 DEF NoCooldown, Cooled, files, history
<1>10. ASSUME OpenCooldown(p) PROVE Goal
    BY <1>10, RequestFacts DEF OpenCooldown, files, history
<1>11. ASSUME ReadCooldown(p) PROVE Goal
  <2>1. /\ pc[p] = "pause" /\ fd[p] # Nil /\ fd[p] \in Inodes
        /\ name[p] = FailOf(req[p].user)
        /\ dir[FailOf(req[p].user)] = fd[p]
        /\ req[p].user \in Users
      BY <1>11, RequestNames DEF ReadCooldown
  <2> DEFINE u == req[p].user
             f == lastFail[u]
  <2>2. Cooled(u, wall) \/ data[fd[p]] = f + AuthFailureCooldown
      BY <2>1 DEF Serial, SerialInv, RefusalsRecorded, Recorded
  <2>3. /\ Remaining(p) \in Nat
        /\ Cooled(u, wall + Remaining(p))
      BY <2>1, <2>2, HistoryType DEF Cooled, Remaining, SaturatingSub
  <2>4. Quiet
      BY <1>11 DEF ReadCooldown, Settle, Live, Close, history
  <2>5. /\ fd'[p] = Nil /\ req' = req /\ nap'[p] = Remaining(p)
        /\ pc'[p] = IF Remaining(p) > 0 THEN "sleep" ELSE "prompt"
      BY <1>11 DEF ReadCooldown, Close
  <2> HIDE DEF Quiet
  <2>6. Orderly(p)'
      BY <2>3, <2>4, <2>5 DEF Cooled, Quiet
  <2> QED BY <2>4, <2>6
<1>12. ASSUME Wake(p) PROVE Goal
    BY <1>12 DEF Wake, Cooled, files, history
<1>13. ASSUME NoPassword(p) PROVE Goal
    BY <1>13, RequestFacts DEF NoPassword, Finish, Close, files, history
<1>14. ASSUME PamAccepts(p) PROVE Goal
    BY <1>14, RequestFacts DEF PamAccepts, files, history
<1>15. ASSUME NEW n \in Names, SweepUnread(p, n) PROVE Goal
  <2>1. dir[n] = Nil \/ data[dir[n]] = Nil \/ IsExpired(data[dir[n]], wall, Retention(p, n))
    <3>1. ASSUME data[dir[n]] \in Nat, Retention(p, n) = 0
          PROVE  IsExpired(data[dir[n]], wall, Retention(p, n))
        BY <3>1 DEF IsExpired, SaturatingSub
    <3> QED BY <1>15, <3>1 DEF SweepUnread
  <2>2. Stale(p)'
      BY <1>15, <2>1 DEF SweepUnread, Sweeping, files, Stale, Retention, Mode
  <2> QED BY <1>15, <2>2 DEF SweepUnread, Sweeping, files, history
<1>16. ASSUME NEW n \in Names, SweepOpen(p, n) PROVE Goal
    BY <1>16 DEF SweepOpen, Sweeping, files, history
<1>17. Quiet /\ Orderly(p)'
    BY <1>1, <1>2, <1>3, <1>4, <1>5, <1>6, <1>7, <1>8, <1>9, <1>10, <1>11, <1>12, <1>13, <1>14, <1>15, <1>16 DEF Decide, Prompting
<1>18. RefusalsRecorded' /\ AuthenticationsRecorded'
    BY <1>17, QuietStep DEF Serial, SerialInv
<1> QED BY <1>17, <1>18 DEF Serial, SerialInv

\* Time passes: a sleep gets shorter by what the clock advances.
LEMMA SerialTick ==
    ASSUME Serial, IInv, ControlInv', SerialInv, wall <= wall',
           Tick \/ \E t \in ClockSteps : SetClock(t)
    PROVE  SerialInv'
<1>a. ControlInv /\ TypeOK
    BY DEF IInv, ControlInv
<1> USE <1>a, NilApart
<1>1. /\ UNCHANGED <<dir, data, pc, req, name, fd, stamp, lastAuth, lastFail>>
      /\ wall \in Nat /\ wall' \in Nat
    BY DEF Tick, SetClock, files, history, ControlInv, TypeOK
<1>b. \/ wall' = wall + 1 /\ nap' = [p \in Procs |-> SaturatingSub(nap[p], 1)]
      \/ nap' = nap
    BY DEF Tick, SetClock
<1>2. RefusalsRecorded' /\ AuthenticationsRecorded'
    BY <1>1, QuietStep DEF SerialInv
<1>3. ASSUME NEW p \in Procs PROVE Orderly(p)'
  <2>1. Orderly(p)
      BY DEF SerialInv
  <2>2. ASSUME pc[p] = "remove", Stale(p) PROVE Stale(p)'
    <3>1. req[p] \in Requests /\ name[p] \in Names
        BY <2>2 DEF ControlInv, Control, Running
    <3>2. wall \in Nat /\ wall' \in Nat /\ wall <= wall' /\ Retention(p, name[p]) \in Nat
        BY <1>1, <3>1, RetentionType DEF TypeOK
    <3>3. data[dir[name[p]]] \in Nat /\ IsExpired(data[dir[name[p]]], wall, Retention(p, name[p]))
             => IsExpired(data[dir[name[p]]], wall', Retention(p, name[p]))
        BY <3>2, ExpiryLasts
    <3>4. dir[name[p]] = Nil \/ data[dir[name[p]]] = Nil \/ data[dir[name[p]]] \in Nat
        BY <3>1 DEF TypeOK
    <3> QED BY <1>1, <2>2, <3>3, <3>4 DEF Stale, Retention, Mode
  <2>3. ASSUME NEW u \in Users, Cooled(u, wall + nap[p])
        PROVE  Cooled(u, wall + nap[p])'
    <3>1. /\ nap[p] \in Nat /\ nap'[p] \in Nat
          /\ \/ wall' = wall + 1 /\ nap'[p] = SaturatingSub(nap[p], 1)
             \/ nap'[p] = nap[p]
        BY <1>b DEF ControlInv, TypeOK
    <3>2. wall + nap[p] <= wall' + nap'[p]
        BY <1>1, <3>1 DEF SaturatingSub
    <3> QED BY <1>1, <2>3, <3>1, <3>2, HistoryType DEF Cooled
  <2>4. ASSUME NEW u \in Users, Cooled(u, wall) PROVE Cooled(u, wall)'
      BY <1>1, <2>4, HistoryType DEF Cooled
  <2>5. pc[p] \in {"sleep", "prompt"} => req[p].user \in Users
      BY RequestNames DEF ControlInv, Control, Running
  <2>6. pc[p] \in {"open", "write"} => Latest(p)'
      BY <1>1, <2>1 DEF Orderly, Latest
  <2>7. pc[p] = "sleep" => Cooled(req[p].user, wall + nap[p])'
      BY <1>1, <2>1, <2>3, <2>5 DEF Orderly
  <2>8. pc[p] = "prompt" => Cooled(req[p].user, wall)'
      BY <1>1, <2>1, <2>4, <2>5 DEF Orderly
  <2> QED BY <1>1, <2>1, <2>2, <2>6, <2>7, <2>8 DEF Orderly
<1> QED BY <1>2, <1>3 DEF SerialInv

\* The cleanup pass takes away what no longer counts.
LEMMA SerialRemove ==
    ASSUME Serial, IInv, ControlInv', SerialInv, NEW p \in Procs, RemoveEntry(p)
    PROVE  SerialInv'
<1>a. ControlInv /\ HistoryIsPast /\ Control(p) /\ Stale(p) /\ TypeOK
    BY DEF IInv, SerialInv, Orderly, ControlInv, RemoveEntry
<1> USE <1>a, NilApart
<1> DEFINE here == name[p]
<1>1. /\ pc[p] = "remove" /\ here \in Names /\ req[p] \in Requests
      /\ dir' = [dir EXCEPT ![here] = Nil]
      /\ fd'[p] = Nil /\ pc'[p] = SweepOf(here)
      /\ UNCHANGED <<wall, req, stamp, nap, lastAuth, lastFail>>
      /\ \A n \in Names : dir'[n] # Nil => data'[dir'[n]] = data[dir'[n]]
    BY DEF RemoveEntry, Close, Settle, Live, Control, Running, Reading, history, TypeOK
<1> HIDE DEF here
<1>2. ASSUME NEW n \in Names, NEW t, n # here, Recorded(n, t)
      PROVE  Recorded(n, t)'
    BY <1>1, <1>2 DEF Recorded, Serial, TypeOK
<1>3. ASSUME NEW t \in Nat, Recorded(here, t)
      PROVE  IsExpired(t, wall, Retention(p, here))
    BY <1>1, <1>3 DEF Recorded, Stale, Serial, here
<1>4. ASSUME NEW u \in Users, lastFail[u] # Nil,
             Recorded(FailOf(u), lastFail[u] + AuthFailureCooldown)
      PROVE  \/ Cooled(u, wall)
             \/ Recorded(FailOf(u), lastFail[u] + AuthFailureCooldown)'
  <2>1. CASE FailOf(u) # here
      BY <1>1, <1>2, <1>4, <2>1, NamesOf DEF FailOf
  <2>2. CASE FailOf(u) = here
    <3>1. lastFail[u] + AuthFailureCooldown \in Nat
        BY <1>4, HistoryType
    <3>2. IsExpired(lastFail[u] + AuthFailureCooldown, wall, FailureStateRetention)
        BY <1>3, <1>4, <2>2, <3>1 DEF FailOf, Retention
    <3> QED BY <3>1, <3>2, ActiveCooldownKept, HistoryType DEF Cooled
  <2> QED BY <2>1, <2>2
<1>5. ASSUME NEW u \in Users, NEW s \in Sids, lastAuth[<<u, s>>] # Nil,
             Recorded(CacheOf(u, s), lastAuth[<<u, s>>])
      PROVE  Outlived(u, s) \/ Recorded(CacheOf(u, s), lastAuth[<<u, s>>])'
  <2>1. CASE CacheOf(u, s) # here
      BY <1>1, <1>2, <1>5, <2>1, NamesOf DEF CacheOf
  <2>2. CASE CacheOf(u, s) = here
    <3>1. lastAuth[<<u, s>>] \in Nat /\ lastAuth[<<u, s>>] <= wall
        BY <1>5, HistoryType DEF HistoryIsPast
    <3>2. IsExpired(lastAuth[<<u, s>>], wall, CacheRetention(Mode(p)))
        BY <1>3, <1>5, <2>2, <3>1 DEF CacheOf, Retention
    <3>3. wall - lastAuth[<<u, s>>] >= LookupWindow(Mode(p))
        BY <1>1, <3>1, <3>2, ExpiredIsRefused, RequestFacts, HistoryType
    <3> QED BY <1>1, <3>3, RequestNames DEF Outlived, Mode
  <2> QED BY <2>1, <2>2
<1>6. RefusalsRecorded'
  <2>1. ASSUME NEW u \in Users
        PROVE  \/ Cooled(u, wall)'
               \/ Recorded(FailOf(u), lastFail[u] + AuthFailureCooldown)'
      BY <1>1, <1>4 DEF SerialInv, RefusalsRecorded, Cooled
  <2> QED BY <2>1 DEF RefusalsRecorded, FailOf
<1>7. AuthenticationsRecorded'
  <2>1. ASSUME NEW u \in Users, NEW s \in Sids, lastAuth'[<<u, s>>] # Nil
        PROVE  Recorded(CacheOf(u, s), lastAuth[<<u, s>>])' \/ Outlived(u, s)'
      BY <1>1, <1>5, <2>1 DEF SerialInv, AuthenticationsRecorded, Outlived
  <2> QED BY <2>1 DEF AuthenticationsRecorded, CacheOf
<1>8. Orderly(p)'
    BY <1>1 DEF Orderly, SweepOf
<1> QED BY <1>6, <1>7, <1>8 DEF Serial, SerialInv

\* A refusal is on its way to the failure file at once.
LEMMA SerialReject ==
    ASSUME Serial, IInv, ControlInv', SerialInv, NEW p \in Procs, PamRejects(p)
    PROVE  SerialInv'
<1>a. ControlInv /\ Control(p) /\ Orderly(p) /\ TypeOK
    BY DEF IInv, SerialInv, ControlInv
<1> USE <1>a, NilApart
<1> DEFINE who == req[p].user
<1>1. /\ pc[p] = "prompt" /\ who \in Users
      /\ pc'[p] = "open" /\ fd[p] = Nil /\ fd'[p] = Nil
      /\ name'[p] = FailOf(who)
      /\ stamp'[p] = wall + AuthFailureCooldown
      /\ lastFail' = [lastFail EXCEPT ![who] = wall]
      /\ UNCHANGED <<wall, dir, data, req, lastAuth>>
    BY RequestNames DEF PamRejects, files, Control, Running, Reading, TypeOK
<1>2. /\ wall \in Nat /\ AuthFailureCooldown \in Nat
      /\ lastFail'[who] = wall
      /\ \A u \in Users : u # who => lastFail'[u] = lastFail[u]
    BY <1>1, HistoryType DEF TypeOK
<1> HIDE DEF who
<1>3. ASSUME NEW n \in Names, NEW t, Recorded(n, t) PROVE Recorded(n, t)'
    BY <1>1, <1>3 DEF Recorded, Serial
<1>4. RefusalsRecorded'
  <2>1. ASSUME NEW u \in Users, u # who
        PROVE  \/ Cooled(u, wall)'
               \/ Recorded(FailOf(u), lastFail[u] + AuthFailureCooldown)'
      BY <1>1, <1>2, <1>3, <2>1, NamesOf
      DEF SerialInv, RefusalsRecorded, Cooled, FailOf
  <2>2. Recorded(FailOf(who), lastFail[who] + AuthFailureCooldown)'
    <3>1. /\ pc'[p] = "open" /\ name'[p] = FailOf(who)
          /\ stamp'[p] = lastFail'[who] + AuthFailureCooldown
        BY <1>1, <1>2
    <3> QED BY <1>1, <3>1 DEF Recorded, FailOf, who
  <2>3. ASSUME NEW u \in Users
        PROVE  \/ Cooled(u, wall)'
               \/ Recorded(FailOf(u), lastFail[u] + AuthFailureCooldown)'
    <3>1. CASE u = who
        BY <1>1, <2>2, <3>1 DEF who
    <3> QED BY <2>1, <3>1
  <2> QED BY <2>3 DEF RefusalsRecorded, FailOf
<1>5. AuthenticationsRecorded'
  <2>1. ASSUME NEW u \in Users, NEW s \in Sids, lastAuth'[<<u, s>>] # Nil
        PROVE  Recorded(CacheOf(u, s), lastAuth[<<u, s>>])' \/ Outlived(u, s)'
      BY <1>1, <1>3, <2>1, NamesOf
      DEF SerialInv, AuthenticationsRecorded, Outlived, CacheOf
  <2> QED BY <2>1 DEF AuthenticationsRecorded, CacheOf
<1>6. Orderly(p)'
    BY <1>1, <1>2 DEF Orderly, Latest, FailOf, who
<1> QED BY <1>4, <1>5, <1>6 DEF Serial, SerialInv

\* The refusals are forgiven with their file, the authentication is on its way.
LEMMA SerialClear ==
    ASSUME Serial, IInv, ControlInv', SerialInv, NEW p \in Procs, ClearFailures(p)
    PROVE  SerialInv'
<1>a. ControlInv /\ Control(p) /\ Orderly(p) /\ TypeOK
    BY DEF IInv, SerialInv, ControlInv
<1> USE <1>a, NilApart
<1> DEFINE who == req[p].user
           sid == req[p].sid
<1>1. /\ pc[p] = "clear" /\ who \in Users /\ sid \in Sids
      /\ pc'[p] = "open" /\ fd[p] = Nil /\ fd'[p] = Nil
      /\ name'[p] = CacheOf(who, sid)
      /\ stamp'[p] = wall
      /\ dir' = [dir EXCEPT ![FailOf(who)] = Nil]
      /\ lastFail' = [lastFail EXCEPT ![who] = Nil]
      /\ lastAuth' = [lastAuth EXCEPT ![<<who, sid>>] = wall]
      /\ UNCHANGED <<wall, req>>
      /\ \A n \in Names : dir'[n] # Nil => data'[dir'[n]] = data[dir'[n]]
    BY RequestNames DEF ClearFailures, Settle, Live, Control, Running, Reading, TypeOK
<1>2. /\ wall \in Nat
      /\ lastFail'[who] = Nil /\ lastAuth'[<<who, sid>>] = wall
      /\ \A u \in Users : u # who => lastFail'[u] = lastFail[u]
      /\ \A u \in Users, s \in Sids :
            <<u, s>> # <<who, sid>> => lastAuth'[<<u, s>>] = lastAuth[<<u, s>>]
    BY <1>1 DEF TypeOK
<1> HIDE DEF who, sid
<1>3. ASSUME NEW n \in Names, NEW t, n # FailOf(who), Recorded(n, t)
      PROVE  Recorded(n, t)'
    BY <1>1, <1>3 DEF Recorded, Serial, TypeOK
<1>4. RefusalsRecorded'
  <2>1. ASSUME NEW u \in Users, u # who
        PROVE  \/ Cooled(u, wall)'
               \/ Recorded(FailOf(u), lastFail[u] + AuthFailureCooldown)'
      BY <1>1, <1>2, <1>3, <2>1, NamesOf
      DEF SerialInv, RefusalsRecorded, Cooled, FailOf
  <2>2. ASSUME NEW u \in Users, u = who PROVE Cooled(u, wall)'
      BY <1>2, <2>2 DEF Cooled
  <2>3. ASSUME NEW u \in Users
        PROVE  \/ Cooled(u, wall)'
               \/ Recorded(FailOf(u), lastFail[u] + AuthFailureCooldown)'
      BY <2>1, <2>2
  <2> QED BY <2>3 DEF RefusalsRecorded, FailOf
<1>5. AuthenticationsRecorded'
  <2>1. ASSUME NEW u \in Users, NEW s \in Sids, lastAuth'[<<u, s>>] # Nil,
               <<u, s>> # <<who, sid>>
        PROVE  Recorded(CacheOf(u, s), lastAuth[<<u, s>>])' \/ Outlived(u, s)'
    <3>1. CacheOf(u, s) # FailOf(who) /\ CacheOf(u, s) \in Names
        BY <1>1, NamesOf
    <3>2. lastAuth'[<<u, s>>] = lastAuth[<<u, s>>]
        BY <1>2, <2>1
    <3>3. Recorded(CacheOf(u, s), lastAuth[<<u, s>>]) \/ Outlived(u, s)
        BY <2>1, <3>2 DEF SerialInv, AuthenticationsRecorded
    <3> QED BY <1>1, <1>3, <3>1, <3>2, <3>3 DEF Outlived, CacheOf
  <2>2. ASSUME NEW u \in Users, NEW s \in Sids, u = who, s = sid
        PROVE  Recorded(CacheOf(u, s), lastAuth[<<u, s>>])'
    <3>1. /\ pc'[p] = "open" /\ name'[p] = CacheOf(u, s)
          /\ stamp'[p] = lastAuth'[<<u, s>>]
        BY <1>1, <1>2, <2>2
    <3> QED BY <3>1 DEF Recorded, CacheOf
  <2>3. ASSUME NEW u \in Users, NEW s \in Sids, lastAuth'[<<u, s>>] # Nil
        PROVE  Recorded(CacheOf(u, s), lastAuth[<<u, s>>])' \/ Outlived(u, s)'
      BY <2>1, <2>2, <2>3
  <2> QED BY <2>3 DEF AuthenticationsRecorded, CacheOf
<1>6. Orderly(p)'
    BY <1>1, <1>2 DEF Orderly, Latest, CacheOf, who, sid
<1> QED BY <1>4, <1>5, <1>6 DEF Serial, SerialInv

\* What p is about to write is the answer its user's name is there for.
LEMMA PendingNames ==
    ASSUME ControlInv, NEW p \in Procs, pc[p] \in {"open", "write"}, Latest(p)
    PROVE  /\ name[p] \in Names /\ req[p] \in Requests
           /\ stamp[p] \in Nat
           /\ \A u \in Users : FailOf(u) = name[p] =>
                 stamp[p] = lastFail[u] + AuthFailureCooldown
           /\ \A u \in Users, s \in Sids : CacheOf(u, s) = name[p] =>
                 stamp[p] = lastAuth[<<u, s>>]
<1>1. /\ name[p] \in Names /\ req[p] \in Requests /\ stamp[p] \in Nat
      /\ name[p] \in {CacheName(p), FailName(p)}
    BY DEF ControlInv, Control, Running, Reading
<1> QED BY <1>1, RequestNames DEF Latest, FailOf, CacheOf

\* A step on the file p is about to write, which leaves the other files alone
\* and that one or the intention to write it with the latest answer.
LEMMA WritingStep ==
    ASSUME Serial, ControlInv, SerialInv, NEW p \in Procs,
           pc[p] \in {"open", "write"},
           UNCHANGED <<wall, lastAuth, lastFail>>,
           \A n \in Names : n # name[p] /\ dir[n] # Nil =>
              dir'[n] = dir[n] /\ data'[dir[n]] = data[dir[n]],
           \/ dir'[name[p]] # Nil /\ data'[dir'[name[p]]] = stamp[p]
           \/ pc'[p] \in {"open", "write"} /\ name'[p] = name[p] /\ stamp'[p] = stamp[p]
    PROVE  RefusalsRecorded' /\ AuthenticationsRecorded'
<1> USE NilApart DEF ControlInv
<1> DEFINE here == name[p]
<1>1. Latest(p)
    BY DEF SerialInv, Orderly
<1>2. here \in Names
    BY <1>1, PendingNames
<1>3. ASSUME NEW n \in Names, n = here, NEW t, t = stamp[p]
      PROVE  Recorded(n, t)'
    BY <1>3 DEF Recorded
<1> HIDE DEF here
<1>4. ASSUME NEW n \in Names, n # here, NEW t, Recorded(n, t)
      PROVE  Recorded(n, t)'
    BY <1>4 DEF Recorded, Serial, here
<1>5. RefusalsRecorded'
  <2>1. ASSUME NEW u \in Users
        PROVE  \/ Cooled(u, wall)'
               \/ Recorded(FailOf(u), lastFail[u] + AuthFailureCooldown)'
    <3>1. CASE FailOf(u) = here
      <4>1. lastFail[u] + AuthFailureCooldown = stamp[p]
          BY <1>1, <3>1, PendingNames DEF here
      <4> QED BY <1>2, <1>3, <3>1, <4>1 DEF FailOf
    <3>2. CASE FailOf(u) # here
        BY <1>4, <3>2, NamesOf DEF SerialInv, RefusalsRecorded, Cooled, FailOf
    <3> QED BY <3>1, <3>2
  <2> QED BY <2>1 DEF RefusalsRecorded, FailOf
<1>6. AuthenticationsRecorded'
  <2>1. ASSUME NEW u \in Users, NEW s \in Sids, lastAuth'[<<u, s>>] # Nil
        PROVE  Recorded(CacheOf(u, s), lastAuth[<<u, s>>])' \/ Outlived(u, s)'
    <3>1. CASE CacheOf(u, s) = here
      <4>1. lastAuth[<<u, s>>] = stamp[p]
          BY <1>1, <3>1, PendingNames DEF here
      <4> QED BY <1>2, <1>3, <3>1, <4>1 DEF CacheOf
    <3>2. CASE CacheOf(u, s) # here
        BY <1>4, <2>1, <3>2, NamesOf
        DEF SerialInv, AuthenticationsRecorded, Outlived, CacheOf
    <3> QED BY <3>1, <3>2
  <2> QED BY <2>1 DEF AuthenticationsRecorded, CacheOf
<1> QED BY <1>5, <1>6

\* The file is emptied, but what is about to be written is remembered.
LEMMA SerialOpen ==
    ASSUME Serial, IInv, ControlInv', SerialInv, NEW p \in Procs, OpenStateFile(p)
    PROVE  SerialInv'
<1>a. ControlInv /\ FilesApart /\ Control(p) /\ Orderly(p) /\ TypeOK
    BY DEF IInv, SerialInv, ControlInv
<1> USE <1>a, NilApart
<1> DEFINE here == name[p]
           i == OpenedInode(here)
<1>1. /\ pc[p] = "open" /\ pc'[p] = "write" /\ here \in Names /\ name'[p] = here
      /\ fd'[p] = i
      /\ dir' = [dir EXCEPT ![here] = i]
      /\ data' = [data EXCEPT ![i] = Nil]
      /\ UNCHANGED <<wall, req, name, stamp, lastAuth, lastFail>>
    BY DEF OpenStateFile, Control, history, TypeOK
<1>2. /\ i \in Inodes
      /\ dir[here] = i \/ i \in FreeInodes
    BY <1>1 DEF OpenStateFile, OpenedInode, FreeInodes, TypeOK
<1> HIDE DEF i
<1>3. \A n \in Names : dir[n] = i => n = here
    BY <1>1, <1>2 DEF FilesApart, FreeInodes, Live
<1>4. \A n \in Names : n # here /\ dir[n] # Nil =>
         dir'[n] = dir[n] /\ data'[dir[n]] = data[dir[n]]
    BY <1>1, <1>2, <1>3 DEF TypeOK
<1>5. RefusalsRecorded' /\ AuthenticationsRecorded'
    BY <1>1, <1>4, WritingStep
<1>6. Orderly(p)'
    BY <1>1, <1>2 DEF Orderly, Latest, TypeOK
<1> QED BY <1>5, <1>6 DEF Serial, SerialInv

\* The answer of PAM is in its file.
LEMMA SerialWrite ==
    ASSUME Serial, IInv, ControlInv', SerialInv, NEW p \in Procs,
           WriteCache(p) \/ WriteFailure(p) \/ WriteLastFailure(p)
    PROVE  SerialInv'
<1>a. ControlInv /\ FilesApart /\ Control(p) /\ Orderly(p) /\ TypeOK
    BY DEF IInv, SerialInv, ControlInv
<1> USE <1>a, NilApart
<1> DEFINE here == name[p]
<1>1. /\ pc[p] = "write" /\ pc'[p] \in {"cooldown", "granted", "denied"}
      /\ fd[p] # Nil /\ fd'[p] = Nil
      /\ here \in Names
      /\ UNCHANGED <<wall, dir, lastAuth, lastFail>>
      /\ Settle(Written(p))
    BY DEF WriteCache, WriteFailure, WriteLastFailure, Finish, Close, history,
       Control, Reading, TypeOK
<1>2. dir[here] = fd[p] /\ fd[p] \in Inodes
    BY <1>1 DEF Orderly, TypeOK
<1>3. data'[fd[p]] = stamp[p]
    BY <1>1, <1>2 DEF Settle, Written, Live, TypeOK
<1>4. \A n \in Names : n # here /\ dir[n] # Nil =>
         dir'[n] = dir[n] /\ data'[dir[n]] = data[dir[n]]
    BY <1>1, <1>2 DEF Settle, Written, Live, FilesApart, TypeOK
<1>5. RefusalsRecorded' /\ AuthenticationsRecorded'
    BY <1>1, <1>2, <1>3, <1>4, WritingStep
<1>6. Orderly(p)'
    BY <1>1 DEF Orderly
<1> QED BY <1>5, <1>6 DEF Serial, SerialInv

\* Nothing is recorded, and nothing is to be, before the first invocation.
LEMMA InitSerial == Init => SerialInv
<1> SUFFICES ASSUME Init PROVE SerialInv
    OBVIOUS
<1>1. RefusalsRecorded /\ AuthenticationsRecorded
    BY DEF Init, RefusalsRecorded, AuthenticationsRecorded, Cooled
<1>2. \A p \in Procs : Orderly(p)
    BY DEF Init, Orderly
<1> QED BY <1>1, <1>2 DEF SerialInv

\* Every step of invocations that do not overlap keeps the serial invariant.
LEMMA NextSerial ==
    ASSUME Serial, IInv, SerialInv, [Next]_vars, wall <= wall'
    PROVE  SerialInv'
<1>1. ControlInv'
    BY NextControl DEF IInv
<1>2. ASSUME NEW p \in Procs, Begin(p) \/ Step(p) PROVE SerialInv'
  <2>1. ASSUME Begin(p) \/ Sweep(p), ~RemoveEntry(p) PROVE SerialInv'
      BY <1>1, <2>1, ReadingSteps DEF Sweep
  <2>2. ASSUME Decide(p) PROVE SerialInv'
      BY <1>1, <2>2, ReadingSteps
  <2>3. ASSUME Prompting(p), ~PamRejects(p), ~ClearFailures(p) PROVE SerialInv'
      BY <1>1, <2>3, ReadingSteps
  <2>4. ASSUME RemoveEntry(p) \/ PamRejects(p) \/ ClearFailures(p) \/ Recording(p)
        PROVE  SerialInv'
      BY <1>1, <2>4, SerialRemove, SerialReject, SerialClear, SerialOpen, SerialWrite
      DEF Recording
  <2> QED BY <1>2, <2>1, <2>2, <2>3, <2>4 DEF Step
<1>3. ASSUME Tick \/ \E t \in ClockSteps : SetClock(t) PROVE SerialInv'
    BY <1>1, <1>3, SerialTick
<1>4. ASSUME UNCHANGED vars PROVE SerialInv'
    BY <1>4 DEF vars, SerialInv, RefusalsRecorded, AuthenticationsRecorded, Orderly,
       Cooled, Recorded, Outlived, Stale, Latest, Retention, Mode, FailOf, CacheOf
<1>5. \A p \in Procs : ~FlushFails(p) /\ ~Abort(p)
    BY DEF Serial, FlushFails, Abort
<1> QED BY <1>2, <1>3, <1>4, <1>5 DEF Next, Rest

\* What PAM has answered stays on record as long as it counts, and whoever
\* asks for it finds it.
THEOREM SerialInductive ==
    ASSUME Serial
    PROVE  Spec /\ ClockForward => []SerialInv
<1>1. Init => SerialInv
    BY InitSerial
<1>2. IInv /\ SerialInv /\ [Next]_vars /\ [wall <= wall']_vars => SerialInv'
  <2> SUFFICES ASSUME IInv, SerialInv, [Next]_vars, [wall <= wall']_vars
               PROVE  SerialInv'
      OBVIOUS
  <2>1. wall <= wall'
      BY DEF IInv, ControlInv, TypeOK, vars
  <2> QED BY <2>1, NextSerial
<1> QED BY <1>1, <1>2, Inductive, PTL DEF Spec, ClockForward

\* The steps that take one process from one place to another, as far as the
\* theorems below ask.
LEMMA WhoMoves ==
    ASSUME Serial, ControlInv, [Next]_vars, NEW p \in Procs
    PROVE  /\ pc[p] \in {"sweep_fails", "lookup"} /\ pc'[p] = "cooldown" =>
                 SkipCache(p) \/ CacheMiss(p)
           /\ pc[p] = "remove" /\ pc'[p] # "remove" => RemoveEntry(p)
<1> USE DEF ControlInv, TypeOK
<1> DEFINE Goal == /\ pc[p] \in {"sweep_fails", "lookup"} /\ pc'[p] = "cooldown" =>
                         SkipCache(p) \/ CacheMiss(p)
                   /\ pc[p] = "remove" /\ pc'[p] # "remove" => RemoveEntry(p)
<1>1. ASSUME Begin(p) \/ Sweep(p) PROVE Goal
    BY <1>1 DEF Begin, Sweep, SweepUnread, SweepOpen, Sweeping, Inspect, RemoveEntry,
       ListFails, SweepOf, Close, Ended
<1>2. ASSUME Decide(p) PROVE Goal
    BY <1>2 DEF Decide, GrantNoPasswd, SkipCache, OpenCache, CacheMiss, CacheHit,
       Swept, Finish, Close
<1>3. ASSUME Prompting(p) PROVE Goal
    BY <1>3 DEF Prompting, NoCooldown, OpenCooldown, ReadCooldown, Wake, NoPassword,
       PamAccepts, PamRejects, ClearFailures, Finish, Close
<1>4. ASSUME Recording(p) PROVE Goal
    BY <1>4 DEF Recording, OpenStateFile, WriteCache, WriteFailure,
       WriteLastFailure, Finish, Close
<1>5. ASSUME Tick \/ UNCHANGED vars \/ \E t \in ClockSteps : SetClock(t) PROVE Goal
    BY <1>5 DEF Tick, SetClock, vars
<1>6. \A q \in Procs : q = p /\ ~FlushFails(q) /\ ~Abort(q)
    BY DEF Serial, FlushFails, Abort
<1> QED BY <1>1, <1>2, <1>3, <1>4, <1>5, <1>6 DEF Next, Step, Rest

\* One invocation after another, PAM never sees two passwords of a user within
\* the cooldown of the first: see CooldownBetweenAttempts.
THEOREM CooldownHolds ==
    ASSUME Serial
    PROVE  Spec /\ ClockForward => CooldownBetweenAttempts
<1>1. ASSUME SerialInv
      PROVE  [\A p \in Procs :
                 pc[p] = "prompt" /\ pc'[p] \in {"clear", "open"} =>
                    LET f == lastFail[req[p].user]
                    IN  f = Nil \/ wall >= f + AuthFailureCooldown]_vars
    BY <1>1 DEF SerialInv, Orderly, Cooled
<1> QED BY <1>1, SerialInductive, PTL DEF Spec, CooldownBetweenAttempts

\* A lookup that asks for the password again has the window on its side.
LEMMA MissStep ==
    ASSUME Serial, IInv, SerialInv, [Next]_vars, NEW p \in Procs,
           pc[p] \in {"sweep_fails", "lookup"}, pc'[p] = "cooldown"
    PROVE  LET a == lastAuth[<<req[p].user, req[p].sid>>]
           IN  a = Nil \/ \E c \in Configs : wall - a >= LookupWindow(ModeOf(c))
<1>a. ControlInv /\ TypeOK /\ Control(p) /\ Orderly(p) /\ HistoryIsPast
    BY DEF IInv, SerialInv, ControlInv
<1> USE <1>a, NilApart
<1> DEFINE u == req[p].user
           s == req[p].sid
           a == lastAuth[<<u, s>>]
<1>1. /\ req[p] \in Requests
      /\ u \in Users /\ s \in Sids /\ req[p].cfg \in Configs
      /\ CacheName(p) = CacheOf(u, s)
    BY RequestNames DEF Control, Running
<1>2. a # Nil => a \in Nat /\ a <= wall
    BY <1>1, HistoryType DEF HistoryIsPast
<1>3. LookupWindow(Mode(p)) \in Nat /\ wall \in Nat
    BY <1>1, RequestFacts, WindowType DEF TypeOK
<1>4. a = Nil \/ Recorded(CacheOf(u, s), a) \/ Outlived(u, s)
    BY <1>1 DEF SerialInv, AuthenticationsRecorded
<1> HIDE DEF u, s, a
<1>5. ASSUME a # Nil, Recorded(CacheOf(u, s), a)
      PROVE  wall - a >= LookupWindow(Mode(p))
  <2>1. dir[CacheOf(u, s)] # Nil /\ data[dir[CacheOf(u, s)]] = a
      BY <1>5 DEF Recorded, Serial
  <2>2. CASE SkipCache(p)
    <3>1. Mode(p) = AlwaysPrompt
        BY <1>1, <2>1, <2>2 DEF SkipCache
    <3>2. LookupWindow(Mode(p)) = 0
        BY <3>1, DurationsAssumption DEF AlwaysPrompt, LookupWindow
    <3> QED BY <1>2, <1>3, <1>5, <3>2
  <2>3. CASE CacheMiss(p)
    <3>1. data[fd[p]] = a
        BY <1>1, <2>1, <2>3 DEF CacheMiss, Orderly, Control, Reading
    <3>2. CacheRefuses(Mode(p), a, wall)
        BY <1>5, <2>3, <3>1 DEF CacheMiss, NeedsAuth
    <3> QED BY <1>2, <1>3, <1>5, <3>2 DEF CacheRefuses
  <2> QED BY <2>2, <2>3, WhoMoves
<1>6. a = Nil \/ \E c \in Configs : wall - a >= LookupWindow(ModeOf(c))
    BY <1>1, <1>4, <1>5 DEF Outlived, Mode, a
<1> QED BY <1>6 DEF a, u, s

\* One invocation after another, the cleanup pass costs nobody a password:
\* see CacheHonoured.
THEOREM CacheIsHonoured ==
    ASSUME Serial
    PROVE  Spec /\ ClockForward => CacheHonoured
<1>1. IInv /\ SerialInv /\ [Next]_vars =>
         [\A p \in Procs :
             pc[p] \in {"sweep_fails", "lookup"} /\ pc'[p] = "cooldown" =>
                LET a == lastAuth[<<req[p].user, req[p].sid>>]
                IN  a = Nil \/ \E c \in Configs :
                                  wall - a >= LookupWindow(ModeOf(c))]_vars
    BY MissStep
<1> QED BY <1>1, Inductive, SerialInductive, PTL DEF Spec, CacheHonoured

\* One invocation after another, the cleanup pass unlinks only what is stale:
\* see CleanupRemovesOnlyStale.
THEOREM CleanupIsSafe ==
    ASSUME Serial
    PROVE  Spec /\ ClockForward => CleanupRemovesOnlyStale
<1>1. ASSUME IInv, SerialInv, [Next]_vars
      PROVE  [\A p \in Procs :
                 pc[p] = "remove" /\ pc'[p] # "remove" =>
                    LET n == name[p]
                    IN  \/ dir'[n] = dir[n]
                        \/ data[dir[n]] = Nil
                        \/ IsExpired(data[dir[n]], wall, Retention(p, n))]_vars
  <2>1. ASSUME NEW p \in Procs, pc[p] = "remove", pc'[p] # "remove"
        PROVE  LET n == name[p]
               IN  \/ dir'[n] = dir[n]
                   \/ data[dir[n]] = Nil
                   \/ IsExpired(data[dir[n]], wall, Retention(p, n))
    <3>1. RemoveEntry(p) /\ Stale(p) /\ ControlInv
        BY <1>1, <2>1, WhoMoves DEF SerialInv, Orderly, IInv
    <3> QED BY <3>1 DEF RemoveEntry, Stale, ControlInv, TypeOK, Control
  <2> QED BY <2>1
<1> QED BY <1>1, Inductive, SerialInductive, PTL DEF Spec, CleanupRemovesOnlyStale
=============================================================================
