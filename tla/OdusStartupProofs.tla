-------------------------- MODULE OdusStartupProofs --------------------------
(***************************************************************************)
(* Proofs about OdusStartup, for any number of invocations, any installed  *)
(* files and whatever groups new files get.                                *)
(***************************************************************************)
EXTENDS OdusStartup, TLAPS

\* Installed files have the type of files.
LEMMA InitType == Init => TypeOK
<1> SUFFICES ASSUME Init PROVE TypeOK
    OBVIOUS
<1> USE InstalledAssumption DEF Init
<1>1. file \in [Files -> FileStates \cup {Nil}]
  <2>1. Installed \subseteq FileStates
      OBVIOUS
  <2> QED BY <2>1
<1>2. at \in [Procs -> Files]
    BY DEF Files
<1> QED BY <1>1, <1>2 DEF TypeOK, Ended

\* The invariant holds of whatever files the first invocation meets.
LEMMA InitStartup == Init => StartupInv
<1> SUFFICES ASSUME Init PROVE StartupInv
    OBVIOUS
<1> USE InstalledAssumption DEF Init
<1>1. TypeOK
    BY InitType
<1>2. UnfinishedForeign
    BY DEF UnfinishedForeign, Complete
<1>3. \A p \in Procs : Progress(p)
    BY DEF Progress, Creating, Running
<1>4. OneCreator
    BY DEF OneCreator, Creating
<1>5. PamDurable
    BY DEF PamDurable, Files
<1> QED BY <1>1, <1>2, <1>3, <1>4, <1>5 DEF StartupInv

\* Every system call of every invocation keeps the invariant.
LEMMA NextStartup ==
    ASSUME StartupInv, [Next]_vars
    PROVE  StartupInv'
<1> USE InstalledAssumption
        DEF StartupInv, TypeOK, UnfinishedForeign, Progress, OneCreator, Complete, disk, past,
            Goto, Files, FileStates, Contents, Modes, Kinds, Creating, Running, Ended
<1>1. ASSUME NEW p \in Procs, Begin(p) PROVE StartupInv'
  <2>1. TypeOK'
      BY <1>1 DEF Begin
  <2>2. UnfinishedForeign'
      BY <1>1 DEF Begin
  <2>3. ASSUME NEW q \in Procs PROVE Progress(q)'
      BY <1>1 DEF Begin
  <2>4. OneCreator'
      BY <1>1 DEF Begin
  <2>5. PamDurable'
      BY <1>1 DEF Begin, PamDurable
  <2> QED BY <2>1, <2>2, <2>3, <2>4, <2>5
<1>2. ASSUME NEW p \in Procs, CreateNew(p) PROVE StartupInv'
  <2>1. PICK g \in Gids :
           /\ file' = [file EXCEPT ![at[p]] =
                         [kind |-> "regular", rootUid |-> TRUE, gid |-> g,
                          mode |-> "0600", content |-> "unfinished"]]
           /\ inherited' = IF g = RootGid THEN inherited \cup {at[p]}
                           ELSE inherited \ {at[p]}
      BY <1>2 DEF CreateNew
  <2>2. /\ file[at[p]] = Nil /\ pc[p] = "create" /\ pc' = [pc EXCEPT ![p] = "write"]
        /\ at' = at /\ loaded' = loaded
        /\ durable' = durable \ {at[p]} /\ lost' = lost \ {at[p]}
      BY <1>2 DEF CreateNew
  <2> DEFINE new == [kind |-> "regular", rootUid |-> TRUE, gid |-> g,
                     mode |-> "0600", content |-> "unfinished"]
  <2>3. new \in FileStates /\ new # Nil /\ new.gid = g /\ new.content = "unfinished"
    <3>1. new \in FileStates /\ new.gid = g /\ new.content = "unfinished"
        OBVIOUS
    <3>2. new # Nil
        BY <3>1
    <3> QED BY <3>1, <3>2
  <2>4. file' = [file EXCEPT ![at[p]] = new]
      BY <2>1
  <2> HIDE DEF new
  <2>5. \A f \in Files : IF f = at[p]
                         THEN /\ file'[f] # Nil /\ file'[f].gid = g
                              /\ file'[f].content = "unfinished"
                         ELSE file'[f] = file[f]
      BY <2>3, <2>4
  <2>a. at[p] \in Files
      OBVIOUS
  <2>b. /\ inherited' \subseteq Files /\ (g = RootGid => at[p] \in inherited')
        /\ \A f \in Files \ {at[p]} : f \in inherited' <=> f \in inherited
    <3>1. CASE g = RootGid
        BY <2>1, <2>a, <3>1
    <3>2. CASE g # RootGid
        BY <2>1, <2>a, <3>2
    <3> QED BY <3>1, <3>2
  <2>6. \A f \in Files \ {at[p]} : (f \in lost' <=> f \in lost)
                                 /\ (f \in inherited' <=> f \in inherited)
      BY <2>2, <2>b
  <2>7. TypeOK'
      BY <2>2, <2>3, <2>4, <2>b
  <2>8. UnfinishedForeign'
    <3> SUFFICES ASSUME NEW f \in Files, f \notin lost', f \notin inherited',
                        file'[f] # Nil, file'[f].content = "unfinished"
                 PROVE  file'[f].gid # RootGid
        OBVIOUS
    <3>1. CASE f = at[p]
        BY <2>5, <2>b, <3>1
    <3>2. CASE f # at[p]
        BY <2>5, <2>6, <3>2
    <3> QED BY <3>1, <3>2
  <2>9. ASSUME NEW q \in Procs PROVE Progress(q)'
    <3>1. at[p] = "pam" => /\ file'["config"] = file["config"] /\ file["config"] # Nil
                           /\ Complete("config") \/ "config" \in lost' \cup inherited'
        BY <2>2, <2>5, <2>6
    <3>2. CASE q = p
        BY <2>2, <2>5, <3>1, <3>2
    <3>3. CASE q # p
      <4>1. pc'[q] = pc[q] /\ at'[q] = at[q] /\ loaded'[q] = loaded[q]
          BY <2>2, <3>3
      <4>2. ASSUME NEW f \in Files, file[f] # Nil
            PROVE  /\ file'[f] = file[f]
                   /\ f \in lost \cup inherited => f \in lost' \cup inherited'
          BY <2>2, <2>5, <2>6, <4>2
      <4>3. Complete("config") /\ file["config"] # Nil => Complete("config")'
          BY <4>2
      <4>4. Complete("pam") /\ file["pam"] # Nil => Complete("pam")'
          BY <4>2
      <4>5. Complete(at[q]) /\ file[at[q]] # Nil => Complete(at[q])'
          BY <4>1, <4>2
      <4>6. \A f \in {"config", "pam", at[q]} : file[f] # Nil =>
               /\ file'[f] = file[f] /\ file'[f] # Nil
               /\ f \in lost \cup inherited => f \in lost' \cup inherited'
          BY <4>2
      <4>7. "pam" \in inherited /\ file["pam"] # Nil => "pam" \in inherited'
          BY <2>2, <2>6
      <4>8. Progress(q)
          OBVIOUS
      <4> HIDE DEF Complete, StartupInv
      <4> QED BY <4>1, <4>3, <4>4, <4>5, <4>6, <4>7, <4>8
    <3> QED BY <3>2, <3>3
  <2>10. OneCreator'
      BY <2>2
  <2>11. PamDurable'
      BY <2>2, <2>5 DEF PamDurable
  <2> QED BY <2>7, <2>8, <2>9, <2>10, <2>11
<1>3. ASSUME NEW p \in Procs, FoundExisting(p) PROVE StartupInv'
  <2>1. TypeOK'
      BY <1>3 DEF FoundExisting
  <2>2. UnfinishedForeign'
      BY <1>3 DEF FoundExisting
  <2>3. ASSUME NEW q \in Procs PROVE Progress(q)'
      BY <1>3 DEF FoundExisting
  <2>4. OneCreator'
      BY <1>3 DEF FoundExisting
  <2>5. PamDurable'
      BY <1>3 DEF FoundExisting, PamDurable
  <2> QED BY <2>1, <2>2, <2>3, <2>4, <2>5
<1>4. ASSUME NEW p \in Procs, WriteContent(p) PROVE StartupInv'
  <2>1. TypeOK'
      BY <1>4 DEF WriteContent
  <2>2. UnfinishedForeign'
      BY <1>4 DEF WriteContent
  <2>3. ASSUME NEW q \in Procs PROVE Progress(q)'
      BY <1>4 DEF WriteContent
  <2>4. OneCreator'
      BY <1>4 DEF WriteContent
  <2>5. PamDurable'
      BY <1>4 DEF WriteContent, PamDurable
  <2> QED BY <2>1, <2>2, <2>3, <2>4, <2>5
<1>5. ASSUME NEW p \in Procs, ChownRoot(p) PROVE StartupInv'
  <2>1. TypeOK'
      BY <1>5 DEF ChownRoot
  <2>2. UnfinishedForeign'
      BY <1>5 DEF ChownRoot
  <2>3. ASSUME NEW q \in Procs PROVE Progress(q)'
      BY <1>5 DEF ChownRoot
  <2>4. OneCreator'
      BY <1>5 DEF ChownRoot
  <2>5. PamDurable'
      BY <1>5 DEF ChownRoot, PamDurable
  <2> QED BY <2>1, <2>2, <2>3, <2>4, <2>5
<1>6. ASSUME NEW p \in Procs, SetFinalMode(p) PROVE StartupInv'
  <2>1. TypeOK'
      BY <1>6 DEF SetFinalMode
  <2>2. UnfinishedForeign'
      BY <1>6 DEF SetFinalMode
  <2>3. ASSUME NEW q \in Procs PROVE Progress(q)'
      BY <1>6 DEF SetFinalMode
  <2>4. OneCreator'
      BY <1>6 DEF SetFinalMode
  <2>5. PamDurable'
      BY <1>6 DEF SetFinalMode, PamDurable
  <2> QED BY <2>1, <2>2, <2>3, <2>4, <2>5
<1>7. ASSUME NEW p \in Procs, Accept(p) PROVE StartupInv'
  <2>1. TypeOK'
      BY <1>7 DEF Accept, Trusted, SafeModes, HasRegularBit
  <2>2. UnfinishedForeign'
      BY <1>7 DEF Accept, Trusted, SafeModes, HasRegularBit
  <2>3. ASSUME NEW q \in Procs PROVE Progress(q)'
      BY <1>7 DEF Accept, PamDurable, Trusted, SafeModes, HasRegularBit
  <2>4. OneCreator'
      BY <1>7 DEF Accept, Trusted, SafeModes, HasRegularBit
  <2>5. PamDurable'
      BY <1>7 DEF Accept, Trusted, SafeModes, HasRegularBit, PamDurable
  <2> QED BY <2>1, <2>2, <2>3, <2>4, <2>5
<1>8. ASSUME NEW p \in Procs, Refuse(p) PROVE StartupInv'
  <2>1. TypeOK'
      BY <1>8 DEF Refuse, Trusted, SafeModes, HasRegularBit
  <2>2. UnfinishedForeign'
      BY <1>8 DEF Refuse, Trusted, SafeModes, HasRegularBit
  <2>3. ASSUME NEW q \in Procs PROVE Progress(q)'
      BY <1>8 DEF Refuse, Trusted, SafeModes, HasRegularBit
  <2>4. OneCreator'
      BY <1>8 DEF Refuse, Trusted, SafeModes, HasRegularBit
  <2>5. PamDurable'
      BY <1>8 DEF Refuse, Trusted, SafeModes, HasRegularBit, PamDurable
  <2> QED BY <2>1, <2>2, <2>3, <2>4, <2>5
<1>9. ASSUME NEW p \in Procs, Load(p) PROVE StartupInv'
  <2>1. TypeOK'
      BY <1>9 DEF Load
  <2>2. UnfinishedForeign'
      BY <1>9 DEF Load
  <2>3. ASSUME NEW q \in Procs PROVE Progress(q)'
      BY <1>9 DEF Load
  <2>4. OneCreator'
      BY <1>9 DEF Load
  <2>5. PamDurable'
      BY <1>9 DEF Load, PamDurable
  <2> QED BY <2>1, <2>2, <2>3, <2>4, <2>5
<1>10. ASSUME NEW p \in Procs, LoadFails(p) PROVE StartupInv'
  <2>1. TypeOK'
      BY <1>10 DEF LoadFails
  <2>2. UnfinishedForeign'
      BY <1>10 DEF LoadFails
  <2>3. ASSUME NEW q \in Procs PROVE Progress(q)'
      BY <1>10 DEF LoadFails
  <2>4. OneCreator'
      BY <1>10 DEF LoadFails
  <2>5. PamDurable'
      BY <1>10 DEF LoadFails, PamDurable
  <2> QED BY <2>1, <2>2, <2>3, <2>4, <2>5
<1>11. ASSUME NEW p \in Procs, Abort(p) PROVE StartupInv'
  <2>1. TypeOK'
      BY <1>11 DEF Abort
  <2>2. UnfinishedForeign'
      BY <1>11 DEF Abort
  <2>3. ASSUME NEW q \in Procs PROVE Progress(q)'
      BY <1>11 DEF Abort
  <2>4. OneCreator'
      BY <1>11 DEF Abort
  <2>5. PamDurable'
      BY <1>11 DEF Abort, PamDurable
  <2> QED BY <2>1, <2>2, <2>3, <2>4, <2>5
<1>12. ASSUME UNCHANGED vars PROVE StartupInv'
    BY <1>12 DEF vars, PamDurable
<1>13. ASSUME PowerCut PROVE StartupInv'
  <2>1. \A f \in Files : file'[f] \in Survivors(f)
      BY <1>13 DEF PowerCut
  <2>2. ASSUME NEW f \in Files, file'[f] # file[f], file'[f] # Nil
        PROVE  /\ file[f] # Nil /\ file[f].content # "admin" /\ f \notin durable
               /\ file'[f] = Emptied(file[f])
      BY <2>1, <2>2 DEF Survivors
  <2>3. ASSUME NEW f \in Files, file[f] # Nil
        PROVE  /\ Emptied(file[f]) \in FileStates
               /\ Emptied(file[f]).content = "unfinished"
               /\ Emptied(file[f]).gid = file[f].gid
    <3>1. file[f] \in FileStates
        BY <2>3
    <3> QED BY <3>1 DEF Emptied
  <2>4. TypeOK'
    <3>1. \A f \in Files : file'[f] \in FileStates \cup {Nil}
        BY <2>2, <2>3
    <3>2. file' \in [Files -> FileStates \cup {Nil}]
        BY <1>13, <3>1 DEF PowerCut
    <3> QED BY <1>13, <3>2 DEF PowerCut
  <2>5. ASSUME NEW f \in Files \ (lost' \cup inherited'),
               file'[f] # Nil, file'[f].content = "unfinished"
        PROVE  file'[f].gid # RootGid
    <3>1. CASE file'[f] = file[f]
        BY <1>13, <2>5, <3>1 DEF PowerCut
    <3>2. CASE file'[f] # file[f]
      <4>1. file[f] # Nil /\ file[f].content # "admin" /\ file'[f] = Emptied(file[f])
          BY <2>2, <2>5, <3>2
      <4>2. file[f].content # "default"
          BY <1>13, <2>5, <4>1 DEF PowerCut
      <4>3. file[f].content = "unfinished"
        <5>1. file[f] \in FileStates
            BY <4>1
        <5> QED BY <4>1, <4>2, <5>1
      <4> QED BY <1>13, <2>3, <2>5, <4>1, <4>3 DEF PowerCut
    <3> QED BY <3>1, <3>2
  <2>6. UnfinishedForeign'
      BY <2>5
  <2>7. ASSUME NEW q \in Procs PROVE Progress(q)'
      BY <1>13 DEF PowerCut
  <2>8. OneCreator'
      BY <1>13 DEF PowerCut
  <2>9. PamDurable'
    <3>1. ~(/\ file["pam"] # Nil /\ file["pam"].content = "default"
            /\ file'["pam"] = Emptied(file["pam"]))
      <4> SUFFICES ASSUME file["pam"] # Nil, file["pam"].content = "default",
                          file'["pam"] = Emptied(file["pam"])
                   PROVE  FALSE
          OBVIOUS
      <4>1. file'["pam"] # Nil /\ file'["pam"] # file["pam"]
          BY <2>3
      <4>2. "pam" \notin durable
          BY <2>2, <4>1
      <4> QED BY <4>2 DEF PamDurable
    <3> QED BY <1>13, <3>1 DEF PowerCut, PamDurable
  <2> QED BY <2>4, <2>6, <2>7, <2>8, <2>9
<1> QED
    BY <1>1, <1>2, <1>3, <1>4, <1>5, <1>6, <1>7, <1>8, <1>9, <1>10, <1>11, <1>12, <1>13
    DEF Next, Step

\* The inductive invariant of the two root files, whatever groups new files get.
THEOREM StartupHolds == Spec => []StartupInv
<1>1. Init => StartupInv
    BY InitStartup
<1>2. StartupInv /\ [Next]_vars => StartupInv'
    BY NextStartup
<1> QED BY <1>1, <1>2, PTL DEF Spec

\* No invocation goes on with a file somebody has not finished, unless that file
\* was created with the group root; and with one that lost its content only if it
\* is the configuration and the power failed.
THEOREM CompleteFiles == Spec => []OnlyCompleteTrusted
<1>1. StartupInv => OnlyCompleteTrusted
    BY DEF StartupInv, Progress, Complete, OnlyCompleteTrusted
<1> QED BY <1>1, StartupHolds, PTL

-----------------------------------------------------------------------------
(* Writers and files, whatever the groups of the callers *)

\* The types of what the writers use.
FileTypes ==
    /\ file \in [Files -> FileStates \cup {Nil}]
    /\ pc \in [Procs -> Running \cup Ended]
    /\ at \in [Procs -> Files]

\* An invocation that writes has created its file, and no other did.
CreatorInv ==
    /\ FileTypes
    /\ \A p \in Procs : pc[p] \in Creating =>
          file[at[p]] # Nil /\ file[at[p]].content # "admin"
    /\ OneCreator

\* Exclusive creation keeps the writers of the files apart.
LEMMA NextCreator ==
    ASSUME CreatorInv, [Next]_vars
    PROVE  CreatorInv'
<1> USE InstalledAssumption
        DEF CreatorInv, FileTypes, OneCreator, Goto, Files, FileStates, Contents,
            Modes, Kinds, Creating, Running, Ended
<1>1. ASSUME NEW p \in Procs, CreateNew(p) PROVE CreatorInv'
  <2>1. PICK g \in Gids :
           file' = [file EXCEPT ![at[p]] =
                      [kind |-> "regular", rootUid |-> TRUE, gid |-> g,
                       mode |-> "0600", content |-> "unfinished"]]
      BY <1>1 DEF CreateNew
  <2>2. file[at[p]] = Nil /\ pc' = [pc EXCEPT ![p] = "write"] /\ at' = at /\ loaded' = loaded
      BY <1>1 DEF CreateNew
  <2> DEFINE new == [kind |-> "regular", rootUid |-> TRUE, gid |-> g,
                     mode |-> "0600", content |-> "unfinished"]
  <2>3. new \in FileStates /\ new # Nil /\ new.content = "unfinished"
    <3>1. new \in FileStates /\ new.content = "unfinished"
        OBVIOUS
    <3>2. new # Nil
        BY <3>1
    <3> QED BY <3>1, <3>2
  <2>4. file' = [file EXCEPT ![at[p]] = new]
      BY <2>1
  <2> HIDE DEF new
  <2>5. FileTypes'
      BY <2>2, <2>3, <2>4
  <2>6. \A q \in Procs : pc'[q] \in Creating =>
           file'[at'[q]] # Nil /\ file'[at'[q]].content # "admin"
      BY <2>2, <2>3, <2>4
  <2>7. OneCreator'
      BY <2>2
  <2> QED BY <2>5, <2>6, <2>7
<1>2. ASSUME NEW p \in Procs, WriteContent(p) \/ ChownRoot(p) \/ SetFinalMode(p)
      PROVE  CreatorInv'
  <2>1. file[at[p]] \in FileStates /\ file[at[p]].content # "admin"
      BY <1>2 DEF WriteContent, ChownRoot, SetFinalMode
  <2>2. FileTypes'
      BY <1>2, <2>1 DEF WriteContent, ChownRoot, SetFinalMode
  <2>3. \A f \in Files : file[f] # Nil /\ file[f].content # "admin" =>
                            file'[f] # Nil /\ file'[f].content # "admin"
      BY <1>2, <2>1 DEF WriteContent, ChownRoot, SetFinalMode
  <2>4. at' = at /\ \A q \in Procs : pc'[q] \in Creating => pc[q] \in Creating
      BY <1>2 DEF WriteContent, ChownRoot, SetFinalMode
  <2> QED BY <2>2, <2>3, <2>4
<1>3. ASSUME NEW p \in Procs,
             \/ Begin(p) \/ FoundExisting(p) \/ Accept(p)
             \/ Refuse(p) \/ Load(p) \/ LoadFails(p) \/ Abort(p)
      PROVE  CreatorInv'
  <2>1. FileTypes'
      BY <1>3 DEF Begin, FoundExisting, Accept, Refuse, Load, LoadFails, Abort
  <2>2. /\ file' = file
        /\ \A q \in Procs : pc'[q] \in Creating => pc[q] \in Creating /\ at'[q] = at[q]
      BY <1>3 DEF Begin, FoundExisting, Accept, Refuse, Load, LoadFails, Abort
  <2> QED BY <2>1, <2>2
<1>4. ASSUME UNCHANGED vars PROVE CreatorInv'
    BY <1>4 DEF vars
<1>5. ASSUME PowerCut PROVE CreatorInv'
  <2>1. ASSUME NEW f \in Files PROVE file'[f] \in FileStates \cup {Nil}
    <3>1. file'[f] \in Survivors(f)
        BY <1>5 DEF PowerCut
    <3>2. CASE file[f] = Nil
        BY <3>1, <3>2 DEF Survivors
    <3>3. CASE file[f] # Nil
      <4>1. file[f] \in FileStates
          BY <3>3
      <4>2. Emptied(file[f]) \in FileStates
          BY <4>1 DEF Emptied
      <4> QED BY <3>1, <4>1, <4>2 DEF Survivors
    <3> QED BY <3>2, <3>3
  <2>2. file' \in [Files -> FileStates \cup {Nil}]
      BY <1>5, <2>1 DEF PowerCut
  <2> QED BY <1>5, <2>2 DEF PowerCut
<1> QED BY <1>1, <1>2, <1>3, <1>4, <1>5 DEF Next, Step

\* CreatorInv holds from the first invocation on.
LEMMA CreatorAlways == Spec => []CreatorInv
<1>1. Init => CreatorInv
  <2>1. Init => TypeOK
      BY InitType
  <2> QED BY <2>1 DEF Init, TypeOK, FileTypes, CreatorInv, OneCreator, Creating
<1>2. CreatorInv /\ [Next]_vars => CreatorInv'
    BY NextCreator
<1> QED BY <1>1, <1>2, PTL DEF Spec

\* No file has two writers.
THEOREM SingleCreator == Spec => []OneCreator
<1>1. CreatorInv => OneCreator
    BY DEF CreatorInv
<1> QED BY <1>1, CreatorAlways, PTL

\* Whatever an administrator installed stays as it is.
THEOREM InstalledKept == Spec => InstalledUntouched
<1> DEFINE Kept == \A f \in Files :
              file[f] # Nil /\ file[f].content = "admin" => file'[f] = file[f]
<1>1. CreatorInv /\ [Next]_vars => [Kept]_vars
  <2> SUFFICES ASSUME CreatorInv, Next PROVE Kept
      OBVIOUS
  <2> USE DEF CreatorInv, FileTypes, Creating
  <2>1. ASSUME NEW p \in Procs, WriteContent(p) \/ ChownRoot(p) \/ SetFinalMode(p)
        PROVE  Kept
      BY <2>1 DEF WriteContent, ChownRoot, SetFinalMode
  <2>2. ASSUME NEW p \in Procs, CreateNew(p) PROVE Kept
      BY <2>2 DEF CreateNew
  <2>3. ASSUME NEW p \in Procs,
               \/ Begin(p) \/ FoundExisting(p) \/ Accept(p)
               \/ Refuse(p) \/ Load(p) \/ LoadFails(p) \/ Abort(p)
        PROVE  Kept
      BY <2>3 DEF Begin, FoundExisting, Accept, Refuse, Load, LoadFails, Abort
  <2>4. ASSUME PowerCut PROVE Kept
      BY <2>4 DEF PowerCut, Survivors
  <2> QED BY <2>1, <2>2, <2>3, <2>4 DEF Next, Step
<1> QED BY <1>1, CreatorAlways, PTL DEF Spec, InstalledUntouched
=============================================================================
