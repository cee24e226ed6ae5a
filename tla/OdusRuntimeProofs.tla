-------------------------- MODULE OdusRuntimeProofs --------------------------
(***************************************************************************)
(* Proofs about OdusRuntime, for any number of invocations and anything    *)
(* installed.                                                              *)
(***************************************************************************)
EXTENDS OdusRuntime, TLAPS

\* The invariant holds of whatever the first invocation meets.
LEMMA InitRuntime == Init => RuntimeInv
<1> SUFFICES ASSUME Init PROVE RuntimeInv
    OBVIOUS
<1> USE InstalledAssumption DEF Init
<1>1. TypeOK
  <2>1. entry \in [Dirs -> DirStates \cup {Nil}]
      OBVIOUS
  <2>2. pc \in [Procs -> Hardening \cup Ended] /\ at \in [Procs -> Dirs]
      BY DEF Ended, Dirs
  <2>3. ignored \in [Procs -> SUBSET Calls]
      OBVIOUS
  <2> QED BY <2>1, <2>2, <2>3 DEF TypeOK
<1>2. SecuredWhenUsed
    BY DEF SecuredWhenUsed
<1>3. \A p \in Procs : Progress(p)
    BY DEF Progress, Hardening
<1> QED BY <1>1, <1>2, <1>3 DEF RuntimeInv

\* A step of p that leaves the entries alone disturbs nobody else.
LEMMA EntriesKept ==
    ASSUME RuntimeInv, NEW p \in Procs, entry' = entry,
           TypeOK', Progress(p)', pc'[p] = "ready" => pc[p] = "ready",
           pc'[p] = "ready" => ignored'[p] = ignored[p],
           \A q \in Procs \ {p} : /\ pc'[q] = pc[q] /\ at'[q] = at[q]
                                  /\ ignored'[q] = ignored[q]
    PROVE  RuntimeInv'
<1>1. \A q \in Procs, d \in Dirs : ignored'[q] = ignored[q] =>
         Secured(q, d)' = Secured(q, d)
    BY DEF Secured
<1>2. ASSUME NEW q \in Procs, q # p PROVE Progress(q)'
    BY <1>1, <1>2 DEF RuntimeInv, TypeOK, Progress, Before, Dirs
<1>3. SecuredWhenUsed'
    BY <1>1 DEF RuntimeInv, SecuredWhenUsed
<1> QED BY <1>2, <1>3 DEF RuntimeInv

\* A step that takes the entry of p further towards root's alone disturbs nobody.
LEMMA EntryHardened ==
    ASSUME RuntimeInv, NEW p \in Procs, TypeOK', Progress(p)', at' = at,
           pc'[p] # "ready",
           \A q \in Procs \ {p} : pc'[q] = pc[q] /\ ignored'[q] = ignored[q],
           \A d \in Dirs \ {at[p]} : entry'[d] = entry[d],
           entry[at[p]] # Nil => /\ entry'[at[p]] # Nil
                                 /\ entry'[at[p]].isDir = entry[at[p]].isDir
                                 /\ entry'[at[p]].owner \in {entry[at[p]].owner, "root:root"}
                                 /\ entry'[at[p]].mode \in {entry[at[p]].mode, "0700"}
    PROVE  RuntimeInv'
<1>1. \A q \in Procs \ {p}, d \in Dirs : Secured(q, d) => Secured(q, d)'
    BY DEF Secured, RuntimeInv, TypeOK
<1>2. ASSUME NEW q \in Procs, q # p PROVE Progress(q)'
  <2>1. /\ at[q] \in Dirs /\ pc'[q] = pc[q] /\ at'[q] = at[q]
        /\ ignored'[q] = ignored[q] /\ Progress(q)
      BY <1>2 DEF RuntimeInv, TypeOK
  <2>2. \A d \in Before(at[q]) : d \in Dirs
      BY DEF Before, Dirs
  <2>3. CASE at[q] = at[p]
      BY <1>1, <1>2, <2>1, <2>2, <2>3 DEF Progress, Hardening
  <2>4. CASE at[q] # at[p]
      BY <1>1, <1>2, <2>1, <2>2, <2>4 DEF Progress, Hardening
  <2> QED BY <2>3, <2>4
<1>3. SecuredWhenUsed'
    BY <1>1 DEF RuntimeInv, SecuredWhenUsed
<1> QED BY <1>2, <1>3 DEF RuntimeInv

\* Every system call of every invocation keeps the invariant.
LEMMA NextRuntime ==
    ASSUME RuntimeInv, [Next]_vars
    PROVE  RuntimeInv'
<1> USE InstalledAssumption DEF Hardening, Ended, Goto, DirStates, Owners, Modes
<1>a. TypeOK /\ \A p \in Procs : Progress(p)
    BY DEF RuntimeInv
<1>1. ASSUME NEW p \in Procs, Begin(p) PROVE RuntimeInv'
  <2>1. TypeOK'
      BY <1>a, <1>1 DEF Begin, TypeOK, Dirs
  <2>2. Progress(p)'
      BY <1>a, <1>1 DEF Begin, TypeOK, Progress, Before
  <2> QED BY <1>a, <1>1, <2>1, <2>2, EntriesKept DEF Begin, TypeOK
<1>2. ASSUME NEW p \in Procs, MakeDir(p) PROVE RuntimeInv'
  <2>1. PICK o \in {"root:root", "root:caller"}, m \in Modes :
           entry' = [entry EXCEPT ![at[p]] = [isDir |-> TRUE, owner |-> o, mode |-> m]]
      BY <1>2 DEF MakeDir
  <2> DEFINE new == [isDir |-> TRUE, owner |-> o, mode |-> m]
  <2>2. new \in DirStates
      OBVIOUS
  <2>3. new # Nil
      BY <2>2
  <2>4. entry' = [entry EXCEPT ![at[p]] = new]
      BY <2>1
  <2> HIDE DEF new
  <2>5. /\ pc[p] = "mkdir" /\ entry[at[p]] = Nil
        /\ pc' = [pc EXCEPT ![p] = "open"] /\ at' = at /\ ignored' = ignored
      BY <1>2 DEF MakeDir
  <2>6. at[p] \in Dirs /\ entry'[at[p]] = new
      BY <1>a, <2>4 DEF TypeOK
  <2>7. TypeOK'
      BY <1>a, <2>2, <2>4, <2>5 DEF TypeOK
  <2>8. \A d \in Dirs \ {at[p]} : entry'[d] = entry[d]
      BY <1>a, <2>4 DEF TypeOK
  <2>9. Progress(p)'
    <3>1. \A d \in Before(at[p]) : Secured(p, d) /\ d # at[p] /\ d \in Dirs
        BY <1>a, <2>5, <2>6 DEF Progress, Before, Dirs
    <3>2. \A d \in Before(at[p]) : Secured(p, d)'
        BY <3>1, <2>5, <2>8 DEF Secured
    <3> QED BY <1>a, <2>3, <2>5, <2>6, <3>2 DEF Progress, TypeOK
  <2> QED BY <1>a, <2>5, <2>7, <2>8, <2>9, EntryHardened DEF TypeOK
<1>3. ASSUME NEW p \in Procs, DirExists(p) \/ Inspect(p) PROVE RuntimeInv'
  <2>1. TypeOK'
      BY <1>a, <1>3 DEF DirExists, Inspect, TypeOK
  <2>2. Progress(p)'
      BY <1>a, <1>3 DEF DirExists, Inspect, TypeOK, Progress, Secured
  <2> QED BY <1>a, <1>3, <2>1, <2>2, EntriesKept DEF DirExists, Inspect, TypeOK
<1>4. ASSUME NEW p \in Procs, NotADirectory(p) \/ NotHardened(p) \/ Abort(p)
      PROVE  RuntimeInv'
  <2>1. TypeOK'
      BY <1>a, <1>4 DEF NotADirectory, NotHardened, Abort, TypeOK
  <2>2. Progress(p)'
      BY <1>a, <1>4 DEF NotADirectory, NotHardened, Abort, TypeOK, Progress
  <2> QED BY <1>a, <1>4, <2>1, <2>2, EntriesKept
          DEF NotADirectory, NotHardened, Abort, TypeOK
<1>5. ASSUME NEW p \in Procs, ChownRoot(p) \/ SetMode(p) PROVE RuntimeInv'
  <2>1. entry[at[p]] \in DirStates /\ at[p] \in Dirs /\ entry[at[p]].isDir
    <3>1. pc[p] \in {"chown", "chmod"} /\ Progress(p)
        BY <1>a, <1>5 DEF ChownRoot, SetMode
    <3>2. entry[at[p]] # Nil /\ entry[at[p]].isDir
        BY <3>1 DEF Progress
    <3> QED BY <1>a, <3>2 DEF TypeOK
  <2>2. /\ entry' \in [Dirs -> DirStates \cup {Nil}]
        /\ \A d \in Dirs \ {at[p]} : entry'[d] = entry[d]
      BY <1>a, <1>5, <2>1 DEF ChownRoot, SetMode, Ignore, TypeOK
  <2>3. /\ at' = at /\ pc' \in [Procs -> Hardening \cup Ended]
        /\ pc'[p] \in {"chmod", "recheck"}
        /\ \A q \in Procs \ {p} : pc'[q] = pc[q]
      BY <1>a, <1>5 DEF ChownRoot, SetMode, TypeOK
  <2>4. /\ ignored' \in [Procs -> SUBSET Calls]
        /\ ignored[p] \subseteq ignored'[p]
        /\ \A q \in Procs \ {p} : ignored'[q] = ignored[q]
    <3>1. <<at[p], "fchown">> \in Calls /\ <<at[p], "fchmod">> \in Calls
        BY <2>1 DEF Calls
    <3> QED BY <1>a, <1>5, <3>1 DEF ChownRoot, SetMode, Ignore, TypeOK
  <2>5. TypeOK'
      BY <1>a, <2>2, <2>3, <2>4 DEF TypeOK
  <2>6. /\ entry'[at[p]] # Nil
        /\ entry'[at[p]].isDir = entry[at[p]].isDir
        /\ entry'[at[p]].owner \in {entry[at[p]].owner, "root:root"}
        /\ entry'[at[p]].mode \in {entry[at[p]].mode, "0700"}
    <3>1. \/ entry' = entry
          \/ entry' = [entry EXCEPT ![at[p]].owner = "root:root"]
          \/ entry' = [entry EXCEPT ![at[p]].mode = "0700"]
        BY <1>5 DEF ChownRoot, SetMode, Ignore
    <3>2. \/ entry'[at[p]] = entry[at[p]]
          \/ entry'[at[p]] = [entry[at[p]] EXCEPT !.owner = "root:root"]
          \/ entry'[at[p]] = [entry[at[p]] EXCEPT !.mode = "0700"]
        BY <1>a, <2>1, <3>1 DEF TypeOK
    <3>3. entry'[at[p]] \in DirStates
        BY <2>1, <3>2
    <3>4. entry'[at[p]] # Nil
        BY <3>3
    <3>5. /\ entry'[at[p]].isDir = entry[at[p]].isDir
          /\ entry'[at[p]].owner \in {entry[at[p]].owner, "root:root"}
          /\ entry'[at[p]].mode \in {entry[at[p]].mode, "0700"}
        BY <2>1, <3>2
    <3> QED BY <3>4, <3>5
  <2>7. Progress(p)'
    <3>1. \A d \in Before(at[p]) : Secured(p, d) /\ d # at[p] /\ d \in Dirs
        BY <1>a, <1>5, <2>1 DEF ChownRoot, SetMode, Progress, Before, Dirs
    <3>2. \A d \in Before(at[p]) : Secured(p, d)'
        BY <3>1, <2>2, <2>4 DEF Secured
    <3>3. entry'[at[p]].owner = "root:root" \/ <<at[p], "fchown">> \in ignored'[p]
      <4>1. CASE ChownRoot(p)
          BY <1>a, <2>1, <4>1 DEF ChownRoot, Ignore, TypeOK
      <4>2. CASE SetMode(p)
          BY <1>a, <2>1, <2>4, <2>6, <4>2 DEF SetMode, Progress
      <4> QED BY <1>5, <4>1, <4>2
    <3>4. pc'[p] = "recheck" =>
             entry'[at[p]].mode = "0700" \/ <<at[p], "fchmod">> \in ignored'[p]
      <4>1. CASE ChownRoot(p)
          BY <1>a, <4>1 DEF ChownRoot, TypeOK
      <4>2. CASE SetMode(p)
          BY <1>a, <2>1, <4>2 DEF SetMode, Ignore, TypeOK
      <4> QED BY <1>5, <4>1, <4>2
    <3> QED BY <2>1, <2>3, <2>6, <3>2, <3>3, <3>4 DEF Progress
  <2> QED BY <2>2, <2>3, <2>4, <2>5, <2>6, <2>7, EntryHardened
<1>6. ASSUME NEW p \in Procs, Hardened(p) PROVE RuntimeInv'
  <2>1. /\ entry' = entry /\ ignored' = ignored
        /\ Secured(p, at[p]) /\ at[p] \in Dirs
        /\ \A d \in Before(at[p]) : Secured(p, d)
      BY <1>a, <1>6 DEF Hardened, Progress, Secured, TypeOK
  <2>2. \A q \in Procs, d \in Dirs : Secured(q, d)' = Secured(q, d)
      BY <2>1 DEF Secured
  <2>3. TypeOK'
      BY <1>a, <1>6 DEF Hardened, Continue, TypeOK, After, Dirs
  <2>4. CASE at[p] = "fails"
    <3>1. \A d \in Dirs : Secured(p, d)'
        BY <2>1, <2>2, <2>4 DEF Before, Dirs
    <3>2. \A q \in Procs \ {p} : pc'[q] = pc[q] /\ at'[q] = at[q]
        BY <1>a, <1>6 DEF Hardened, Continue, TypeOK
    <3>3. ASSUME NEW q \in Procs, q # p PROVE Progress(q)'
        BY <1>a, <2>1, <2>2, <3>2, <3>3 DEF Progress, Before, Dirs, TypeOK
    <3>4. Progress(p)'
        BY <1>a, <1>6, <2>4 DEF Hardened, Continue, Progress, TypeOK
    <3>5. SecuredWhenUsed'
        BY <2>2, <3>1, <3>2 DEF RuntimeInv, SecuredWhenUsed
    <3> QED BY <2>3, <3>3, <3>4, <3>5 DEF RuntimeInv
  <2>5. CASE at[p] # "fails"
    <3>1. pc'[p] = "mkdir" /\ at'[p] = After(at[p])
        BY <1>a, <1>6, <2>5 DEF Hardened, Continue, TypeOK
    <3>2. \A d \in Before(After(at[p])) : d \in Dirs /\ Secured(p, d)'
        BY <2>1, <2>2, <2>5 DEF Before, After, Dirs
    <3>3. Progress(p)'
        BY <3>1, <3>2 DEF Progress
    <3> QED BY <1>a, <1>6, <2>1, <2>3, <3>1, <3>3, EntriesKept
            DEF Hardened, Continue, TypeOK
  <2> QED BY <2>4, <2>5
<1>7. ASSUME Reboot PROVE RuntimeInv'
    BY <1>a, <1>7 DEF Reboot, RuntimeInv, TypeOK, SecuredWhenUsed, Progress
<1>8. ASSUME UNCHANGED vars PROVE RuntimeInv'
    BY <1>a, <1>8
    DEF vars, RuntimeInv, TypeOK, SecuredWhenUsed, Progress, Secured, Before
<1> QED BY <1>1, <1>2, <1>3, <1>4, <1>5, <1>6, <1>7, <1>8 DEF Next, Step

\* The inductive invariant of the three directories.
THEOREM RuntimeHolds == Spec => []RuntimeInv
<1>1. Init => RuntimeInv
    BY InitRuntime
<1>2. RuntimeInv /\ [Next]_vars => RuntimeInv'
    BY NextRuntime
<1> QED BY <1>1, <1>2, PTL DEF Spec

\* Whoever uses the directories finds all three root's alone, and they stay so.
THEOREM DirectoriesSecured == Spec => []SecuredWhenUsed
<1>1. RuntimeInv => SecuredWhenUsed
    BY DEF RuntimeInv
<1> QED BY <1>1, RuntimeHolds, PTL

\* Overlapping invocations never refuse each other.
THEOREM NoFalseRefusal == Spec => RefusedForCause
<1> DEFINE Justified == \A p \in Procs :
              pc[p] # "refused" /\ pc'[p] = "refused" =>
                 \/ ~entry[at[p]].isDir
                 \/ <<at[p], "fchown">> \in ignored[p]
<1>1. RuntimeInv /\ [Next]_vars => [Justified]_vars
  <2> SUFFICES ASSUME RuntimeInv, Next PROVE Justified
      OBVIOUS
  <2>a. TypeOK /\ \A p \in Procs : Progress(p)
      BY DEF RuntimeInv
  <2> USE <2>a DEF TypeOK, Goto
  <2>1. ASSUME NEW q \in Procs, NotADirectory(q) PROVE Justified
      BY <2>1 DEF NotADirectory
  <2>2. ASSUME NEW q \in Procs, NotHardened(q) PROVE Justified
    <3>1. <<at[q], "fchown">> \in ignored[q]
        BY <2>2 DEF NotHardened, Progress
    <3> QED BY <2>2, <3>1 DEF NotHardened
  <2>3. ASSUME NEW q \in Procs,
               \/ Begin(q) \/ MakeDir(q) \/ DirExists(q) \/ Inspect(q)
               \/ ChownRoot(q) \/ SetMode(q) \/ Hardened(q) \/ Abort(q)
        PROVE  Justified
      BY <2>3 DEF Begin, MakeDir, DirExists, Inspect, ChownRoot, SetMode, Hardened,
         Continue, Abort
  <2>4. ASSUME Reboot PROVE Justified
      BY <2>4 DEF Reboot
  <2> QED BY <2>1, <2>2, <2>3, <2>4 DEF Next, Step
<1> QED BY <1>1, RuntimeHolds, PTL DEF Spec, RefusedForCause
=============================================================================
