----------------------------- MODULE OdusProofs -----------------------------
(***************************************************************************)
(* What main does between the command line and execve, for any number of   *)
(* overlapping invocations, any callers, configurations and packages.      *)
(***************************************************************************)
EXTENDS Odus, OdusPathProofs

\* No number is Nil.
LEMMA NilApart == \A n \in Nat : n # Nil
BY NilAssumption

\* The command of an invocation that the command line was accepted of.
LEMMA WordIsPath ==
    ASSUME TypeOK, NEW p \in Procs, IsCommand(argv[p])
    PROVE  argv[p][1] \in Paths
<1>1. argv[p] \in Seq(Paths \cup {NotUtf8})
    BY CallersAssumption DEF TypeOK, IsCommand
<1>2. argv[p] # <<>> /\ \A i \in DOMAIN argv[p] : argv[p][i] # NotUtf8
    BY DEF IsCommand
<1>3. 1 \in DOMAIN argv[p]
    BY <1>1, <1>2, EmptySeq, LenProperties
<1>4. argv[p][1] \in Paths \cup {NotUtf8}
    BY <1>1, <1>3, ElementOfSeq
<1> QED BY <1>2, <1>3, <1>4

\* The directories a bare name is looked for in, and the files it is looked for.
LEMMA CandidatesCanonical ==
    ASSUME TypeOK, NEW p \in Procs, IsCommand(argv[p]), cfg[p] \in Configs,
           SecurePaths(p) # Error, ~argv[p][1].abs, IsBare(argv[p][1]),
           NEW i \in DOMAIN Candidates(p)
    PROVE  /\ Candidates(p)[i] \in Paths /\ Canonical(Candidates(p)[i])
           /\ i \in DOMAIN SecurePaths(p)
           /\ Candidates(p)[i] = Candidate(SecurePaths(p)[i], argv[p][1].parts[1])
           /\ argv[p][1].parts[1] \in Names
<1>1. argv[p][1] \in Paths
    BY WordIsPath
<1>2. ValidateRelativeCommand(argv[p][1]) = argv[p][1].parts[1] /\ argv[p][1].parts[1] \in Names
    BY <1>1, BareName
<1>3. /\ i \in DOMAIN SecurePaths(p)
      /\ Candidates(p)[i] = Candidate(SecurePaths(p)[i], argv[p][1].parts[1])
    BY <1>2 DEF Candidates
<1>4. cfg[p].secure_path # Other => cfg[p].secure_path \in Seq(Paths \cup {Other})
    BY ConfigsAssumption
<1>5. SecurePaths(p)[i] \in Paths /\ Canonical(SecurePaths(p)[i])
    BY <1>3, <1>4, SecureCanonical DEF SecurePaths
<1> QED BY <1>2, <1>3, <1>5, CandidateCanonical

\* The secure_path in use is a list with numbered entries.
LEMMA SecurePathsSeq ==
    ASSUME NEW p \in Procs, cfg[p] \in Configs, SecurePaths(p) # Error
    PROVE  Len(SecurePaths(p)) \in Nat /\ DOMAIN SecurePaths(p) = 1..Len(SecurePaths(p))
<1>1. cfg[p].secure_path # Other => cfg[p].secure_path \in Seq(Paths \cup {Other})
    BY ConfigsAssumption
<1> QED BY <1>1, SecureSeq DEF SecurePaths

-----------------------------------------------------------------------------
(* What a step of one invocation leaves alone *)

\* q is where it was, with what it had.
Untouched(q) ==
    /\ pc'[q] = pc[q] /\ who'[q] = who[q] /\ argv'[q] = argv[q] /\ cfg'[q] = cfg[q]
    /\ path'[q] = path[q] /\ at'[q] = at[q] /\ ran'[q] = ran[q]
    /\ status'[q] = status[q] /\ call'[q] = call[q] /\ fresh'[q] = fresh[q]

\* Who has authenticated once has.
Remembered == \A k \in Users \X Sids : lastAuth[k] # Nil => lastAuth'[k] # Nil

\* What an invocation knows stays true while it does nothing and no acceptance
\* is forgotten.
LEMMA ProgressKept ==
    ASSUME TypeOK, NEW q \in Procs, Progress(q), Untouched(q), Remembered
    PROVE  Progress(q)'
<1>1. Session(q)' = Session(q) /\ Rule(q)' = Rule(q) /\ Request(q)' = Request(q)
    BY DEF Untouched, Session, Rule, Request
<1>2. SecurePaths(q)' = SecurePaths(q) /\ Candidates(q)' = Candidates(q)
    BY DEF Untouched, SecurePaths, Candidates
<1>3. Prepares(q)' = Prepares(q)
    BY <1>2 DEF Untouched, Prepares
<1>4. \A i : MatchesAt(q, i)' = MatchesAt(q, i)
    BY DEF Untouched, MatchesAt
<1>5. who[q] \in Callers => Session(q) \in Users \X Sids
    BY DEF Session, Users, Sids
<1>6. lastAuth[Session(q)] # Nil /\ who[q] \in Callers => lastAuth'[Session(q)'] # Nil
    BY <1>1, <1>5 DEF Remembered
<1>7. pc[q] \in Deciding \cup Granted => who[q] \in Callers
    BY DEF Progress, Loaded, Found
<1> QED BY <1>1, <1>2, <1>3, <1>4, <1>6, <1>7 DEF Progress, Untouched, Deciding, Granted

\* authenticate decides for p alone, and forgets no authentication.
LEMMA AuthSteps ==
    ASSUME TypeOK, NEW p \in Procs,
           \/ \E r \in Requests : Auth!Call(p, r)
           \/ Auth!Reject(p) \/ Auth!Accept(p)
           \/ Auth!GrantFree(p) \/ Auth!GrantCached(p) \/ Auth!GrantFresh(p)
           \/ Auth!Refuse(p)
    PROVE  /\ Remembered
           /\ \A q \in Procs \ {p} :
                 status'[q] = status[q] /\ call'[q] = call[q] /\ fresh'[q] = fresh[q]
           /\ wall' \in Nat
           /\ status' \in [Procs -> {"none", "busy", "granted", "refused"}]
           /\ call' \in [Procs -> Requests \cup {Nil}] /\ tries' \in [Procs -> Nat]
           /\ fresh' \in [Procs -> BOOLEAN]
           /\ lastAuth' \in [Users \X Sids -> Nat \cup {Nil}]
<1> USE DEF TypeOK, Remembered
<1>1. CASE \E r \in Requests : Auth!Call(p, r)
    BY <1>1 DEF Auth!Call
<1>2. CASE Auth!Reject(p)
    BY <1>2 DEF Auth!Reject
<1>3. CASE Auth!Accept(p)
  <2>1. lastAuth' = [lastAuth EXCEPT ![Auth!SessionOf(call[p])] = wall]
        /\ wall' = wall /\ status' = status /\ call' = call /\ tries' = tries
        /\ fresh' = [fresh EXCEPT ![p] = TRUE]
      BY <1>3 DEF Auth!Accept
  <2>2. \A k \in Users \X Sids : lastAuth'[k] \in {lastAuth[k], wall}
      BY <2>1
  <2>3. wall # Nil /\ wall \in Nat
      BY NilApart
  <2>4. Remembered
      BY <2>2, <2>3
  <2>5. lastAuth' \in [Users \X Sids -> Nat \cup {Nil}]
      BY <2>1, <2>3
  <2> QED BY <2>1, <2>4, <2>5
<1>4. CASE Auth!GrantFree(p) \/ Auth!GrantCached(p) \/ Auth!GrantFresh(p) \/ Auth!Refuse(p)
  <2>1. Auth!Return(p, "granted") \/ Auth!Return(p, "refused")
      BY <1>4 DEF Auth!GrantFree, Auth!GrantCached, Auth!GrantFresh, Auth!Refuse
  <2>2. /\ status' = [status EXCEPT ![p] = "granted"] \/ status' = [status EXCEPT ![p] = "refused"]
        /\ call' = [call EXCEPT ![p] = Nil] /\ fresh' = [fresh EXCEPT ![p] = FALSE]
        /\ tries' = [tries EXCEPT ![p] = 0]
        /\ wall' = wall /\ lastAuth' = lastAuth
      BY <2>1 DEF Auth!Return
  <2>3. \A q \in Procs \ {p} : status'[q] = status[q]
      BY <2>2
  <2>4. \A q \in Procs \ {p} : call'[q] = call[q]
      BY <2>2
  <2>5. status' \in [Procs -> {"none", "busy", "granted", "refused"}]
      BY <2>2
  <2> QED BY <2>2, <2>3, <2>4, <2>5
<1> QED BY <1>1, <1>2, <1>3, <1>4

\* The variables of main that authenticate does not see.
MainOK ==
    /\ pc' \in [Procs -> Running \cup Ended]
    /\ who' \in [Procs -> Callers \cup {Nil}]
    /\ argv' \in [Procs -> CommandLines \cup {<<>>}]
    /\ cfg' \in [Procs -> Configs \cup {Nil}]
    /\ path' \in [Procs -> Paths \cup {Nil}]
    /\ ran' \in [Procs -> Paths \cup {Nil}]
    /\ at' \in [Procs -> Nat \ {0}]

MainUntouched(q) ==
    /\ pc'[q] = pc[q] /\ who'[q] = who[q] /\ argv'[q] = argv[q] /\ cfg'[q] = cfg[q]
    /\ path'[q] = path[q] /\ at'[q] = at[q] /\ ran'[q] = ran[q]

\* A step of main alone leaves the state of authenticate as it is.
LEMMA StillAuth ==
    ASSUME TypeOK, NEW p \in Procs,
           auth' = auth, MainOK, \A q \in Procs \ {p} : MainUntouched(q)
    PROVE  TypeOK' /\ Remembered /\ \A q \in Procs \ {p} : Untouched(q)
BY DEF TypeOK, auth, MainOK, MainUntouched, Untouched, Remembered

\* prepare_command gives a path, and secure_path is searched from its first entry.
LEMMA PathsPrepared ==
    ASSUME PipelineInv, NEW p \in Procs, Prepare(p) \/ Search(p)
    PROVE  path' \in [Procs -> Paths \cup {Nil}] /\ at' \in [Procs -> Nat \ {0}]
<1> USE DEF PipelineInv, Progress
<1>1. TypeOK /\ argv[p][1] \in Paths /\ path \in [Procs -> Paths \cup {Nil}]
    BY WordIsPath DEF Prepare, Search, Loaded, TypeOK
<1>2. CASE Prepare(p)
  <2>1. CASE path' = path /\ at' = at
      BY <2>1 DEF TypeOK
  <2>2. CASE Prepared(p, NormalizeAbsolutePath(argv[p][1]))
             /\ NormalizeAbsolutePath(argv[p][1]) # Error
      BY <1>1, <2>2, NormalizeCanonical DEF TypeOK, Prepared
  <2> QED BY <1>2, <2>1, <2>2 DEF Prepare
<1>3. CASE Search(p)
  <2>1. /\ IsCommand(argv[p]) /\ cfg[p] \in Configs /\ SecurePaths(p) # Error
        /\ ~argv[p][1].abs /\ IsBare(argv[p][1])
      BY <1>3 DEF Search, Loaded
  <2>2. CASE path' = path /\ at' = [at EXCEPT ![p] = @ + 1]
      BY <2>2 DEF TypeOK
  <2>3. CASE Prepared(p, Candidates(p)[at[p]])
    <3>1. at[p] \in Nat \ {0} /\ at[p] <= Len(SecurePaths(p))
        BY <1>3 DEF TypeOK, Search
    <3>2. at[p] \in DOMAIN Candidates(p)
        BY <2>1, <3>1, SecurePathsSeq DEF Candidates
    <3>3. Candidates(p)[at[p]] \in Paths
        BY <1>1, <2>1, <3>2, CandidatesCanonical
    <3> QED BY <2>3, <3>3 DEF TypeOK, Prepared
  <2> QED BY <1>3, <2>2, <2>3 DEF Search
<1> QED BY <1>2, <1>3

\* What a step of main does to authenticate's state is a step authenticate takes.
LEMMA AuthUsed ==
    ASSUME PipelineInv, NEW p \in Procs, Step(p) \/ Kill(p)
    PROVE  \/ auth' = auth
           \/ \E r \in Requests : Auth!Call(p, r)
           \/ Auth!Reject(p) \/ Auth!Accept(p)
           \/ Auth!GrantFree(p) \/ Auth!GrantCached(p) \/ Auth!GrantFresh(p)
           \/ Auth!Refuse(p)
<1>1. Authenticate(p) => Request(p) \in Requests
  <2> SUFFICES ASSUME Authenticate(p) PROVE Request(p) \in Requests
      OBVIOUS
  <2>1. /\ who[p] \in Callers /\ cfg[p] \in Configs /\ cfg[p].rules # Other
        /\ at[p] \in DOMAIN cfg[p].rules /\ ParseRule(Rule(p))
      BY DEF PipelineInv, Progress, Authenticate, Loaded, Found, Matched
  <2>2. Rule(p).nopasswd \in BOOLEAN
      BY <2>1, ConfigsAssumption DEF Rule, IsRule, ParseRule
  <2> QED BY <2>1, <2>2 DEF Request, Requests, Users, Sids
<1> QED BY <1>1
        DEF Step, Kill, Resolve, MatchRule, Decide, Begin, Parse, Load, Prepare, PrepareFails,
            Search, NotFound, LookUp, RuleMatches, RulePasses, RuleMalformed, Denied,
            Authenticate, NoPassword, CacheHit, PasswordRefused, PasswordAccepted,
            CooldownCleared, CacheUpdated, AuthenticateFails, Elevate, Execute, RunFails

\* A step of p keeps the types, and touches no other invocation.
LEMMA StepFrame ==
    ASSUME PipelineInv, NEW p \in Procs, Step(p) \/ Kill(p)
    PROVE  TypeOK' /\ Remembered /\ \A q \in Procs \ {p} : Untouched(q)
<1>t. TypeOK
    BY DEF PipelineInv
<1>m. /\ MainOK
      /\ \A q \in Procs \ {p} : MainUntouched(q)
  <2> USE <1>t DEF TypeOK, MainOK, MainUntouched, Goto, input, Running, Ended, Deciding
  <2>1. CASE Begin(p)
      BY <2>1 DEF Begin
  <2>2. CASE Parse(p)
      BY <2>2 DEF Parse
  <2>3. CASE Load(p)
    <3>1. /\ UNCHANGED <<who, argv, path, at, ran>>
          /\ \/ \E c \in Configs : cfg' = [cfg EXCEPT ![p] = c]
             \/ cfg' = cfg
        BY <2>3 DEF Load
    <3>2. /\ cfg' \in [Procs -> Configs \cup {Nil}]
          /\ \A q \in Procs \ {p} : cfg'[q] = cfg[q]
        BY <3>1
    <3>3. /\ pc' \in [Procs -> Running \cup Ended]
          /\ \A q \in Procs \ {p} : pc'[q] = pc[q]
        BY <2>3 DEF Load
    <3> QED BY <3>1, <3>2, <3>3
  <2>4. CASE Prepare(p) \/ Search(p)
    <3>1. path' \in [Procs -> Paths \cup {Nil}] /\ at' \in [Procs -> Nat \ {0}]
        BY <2>4, PathsPrepared
    <3>2. /\ pc' \in [Procs -> Running \cup Ended] /\ UNCHANGED <<who, argv, cfg, ran>>
          /\ \A q \in Procs \ {p} : pc'[q] = pc[q] /\ path'[q] = path[q] /\ at'[q] = at[q]
        BY <2>4 DEF Prepare, Search, Prepared
    <3> QED BY <3>1, <3>2
  <2>5. CASE PrepareFails(p) \/ NotFound(p) \/ LookUp(p) \/ RuleMatches(p) \/ RuleMalformed(p)
      BY <2>5 DEF PrepareFails, NotFound, LookUp, RuleMatches, RuleMalformed
  <2>6. CASE RulePasses(p)
      BY <2>6 DEF RulePasses
  <2>7. CASE Denied(p) \/ CooldownCleared(p) \/ Elevate(p) \/ RunFails(p) \/ Kill(p)
      BY <2>7 DEF Denied, CooldownCleared, Elevate, RunFails, Kill
  <2>8. CASE \/ Authenticate(p) \/ NoPassword(p) \/ CacheHit(p) \/ PasswordRefused(p)
             \/ PasswordAccepted(p) \/ CacheUpdated(p) \/ AuthenticateFails(p)
      BY <2>8 DEF Authenticate, NoPassword, CacheHit, PasswordRefused, PasswordAccepted,
                  CacheUpdated, AuthenticateFails
  <2>9. CASE Execute(p)
    <3>1. FileAt(NormalizeAbsolutePath(path[p])) # "nothing"
        BY <2>9 DEF Execute
    <3>2. NormalizeAbsolutePath(path[p]) \in Paths
        BY <3>1, NilAssumption DEF FileAt
    <3> QED BY <2>9, <3>2 DEF Execute
  <2> QED BY <2>1, <2>2, <2>3, <2>4, <2>5, <2>6, <2>7, <2>8, <2>9
          DEF Step, Resolve, MatchRule, Decide
<1>a. \/ auth' = auth
      \/ \E r \in Requests : Auth!Call(p, r)
      \/ Auth!Reject(p) \/ Auth!Accept(p)
      \/ Auth!GrantFree(p) \/ Auth!GrantCached(p) \/ Auth!GrantFresh(p)
      \/ Auth!Refuse(p)
    BY AuthUsed
<1>1. CASE auth' = auth
    BY <1>t, <1>m, <1>1, StillAuth
<1>2. CASE auth' # auth
  <2>1. /\ Remembered
        /\ \A q \in Procs \ {p} :
              status'[q] = status[q] /\ call'[q] = call[q] /\ fresh'[q] = fresh[q]
        /\ wall' \in Nat
        /\ status' \in [Procs -> {"none", "busy", "granted", "refused"}]
        /\ call' \in [Procs -> Requests \cup {Nil}] /\ tries' \in [Procs -> Nat]
        /\ fresh' \in [Procs -> BOOLEAN]
        /\ lastAuth' \in [Users \X Sids -> Nat \cup {Nil}]
      BY <1>t, <1>a, <1>2, AuthSteps
  <2> QED BY <1>m, <2>1 DEF TypeOK, MainOK, MainUntouched, Untouched
<1> QED BY <1>1, <1>2

-----------------------------------------------------------------------------
(* What a step establishes for the invocation that takes it *)

\* p has moved, and nothing else it has has changed.
LEMMA OnlyMoved ==
    ASSUME NEW p \in Procs,
           who'[p] = who[p], argv'[p] = argv[p], cfg'[p] = cfg[p], path'[p] = path[p],
           at'[p] = at[p], ran'[p] = ran[p], lastAuth' = lastAuth
    PROVE  /\ IsCommand(argv[p])' = IsCommand(argv[p])
           /\ SecurePaths(p)' = SecurePaths(p) /\ Prepares(p)' = Prepares(p)
           /\ Rule(p)' = Rule(p) /\ Request(p)' = Request(p) /\ Session(p)' = Session(p)
           /\ \A i : MatchesAt(p, i)' = MatchesAt(p, i)
<1>1. SecurePaths(p)' = SecurePaths(p) /\ Candidates(p)' = Candidates(p)
    BY DEF SecurePaths, Candidates
<1> QED BY <1>1 DEF Prepares, Rule, Request, Session, MatchesAt

\* The steps from the command line to the prepared command, or to its refusal.
LEMMA CommandLineProgress ==
    ASSUME PipelineInv, NEW p \in Procs,
           Begin(p) \/ Parse(p) \/ Load(p) \/ PrepareFails(p) \/ NotFound(p)
    PROVE  Progress(p)'
<1> USE DEF PipelineInv, TypeOK, Loaded, Found, Matched, Deciding, Granted, Ended, auth, input
<1>1. CASE Begin(p)
  <2>1. /\ pc'[p] = "parse" /\ who'[p] \in Callers
        /\ status' = status /\ fresh' = fresh
      BY <1>1 DEF Begin, Goto
  <2>2. status[p] # "busy" /\ fresh[p] = FALSE
      BY <1>1 DEF Begin, Progress
  <2> QED BY <2>1, <2>2 DEF Progress
<1>2. CASE Parse(p)
  <2>1. /\ pc'[p] \in {"helped", "load", "failed"}
        /\ pc'[p] = "load" => IsCommand(argv[p])
        /\ who' = who /\ argv' = argv /\ status' = status /\ fresh' = fresh
      BY <1>2 DEF Parse, Goto
  <2>2. status[p] # "busy" /\ fresh[p] = FALSE /\ who[p] \in Callers
      BY <1>2 DEF Parse, Progress
  <2> QED BY <2>1, <2>2 DEF Progress
<1>3. CASE Load(p)
  <2>1. /\ \/ pc'[p] = "prepare" /\ cfg'[p] \in Configs
           \/ pc'[p] = "failed"
        /\ who' = who /\ argv' = argv /\ status' = status /\ fresh' = fresh
      BY <1>3 DEF Load, Goto
  <2>2. status[p] # "busy" /\ fresh[p] = FALSE /\ who[p] \in Callers /\ IsCommand(argv[p])
      BY <1>3 DEF Load, Progress
  <2> QED BY <2>1, <2>2 DEF Progress
<1>4. CASE PrepareFails(p) \/ NotFound(p)
  <2>1. pc'[p] = "failed" /\ status' = status /\ fresh' = fresh
      BY <1>4 DEF PrepareFails, NotFound, Goto
  <2>2. status[p] # "busy" /\ fresh[p] = FALSE
      BY <1>4 DEF PrepareFails, NotFound, Progress
  <2> QED BY <2>1, <2>2 DEF Progress
<1> QED BY <1>1, <1>2, <1>3, <1>4

\* The command that goes on to match_rule is a canonical path: the one typed, or
\* one of that name in secure_path.
LEMMA ResolveProgress ==
    ASSUME PipelineInv, NEW p \in Procs, Prepare(p) \/ Search(p)
    PROVE  Progress(p)'
<1> USE DEF Loaded, Found, Matched, Deciding, Granted, Ended, auth, input
<1>1. /\ TypeOK /\ Progress(p) /\ pc[p] \in {"prepare", "search"}
      /\ status[p] # "busy" /\ fresh[p] = FALSE
      /\ who[p] \in Callers /\ IsCommand(argv[p]) /\ cfg[p] \in Configs
      /\ SecurePaths(p) # Error
    BY DEF PipelineInv, Progress, Prepare, Search, TypeOK
<1>2. /\ who' = who /\ argv' = argv /\ cfg' = cfg /\ ran' = ran
      /\ status' = status /\ fresh' = fresh
    BY DEF Prepare, Search
<1>3. argv[p][1] \in Paths
    BY <1>1, WordIsPath
<1>4. SecurePaths(p)' = SecurePaths(p) /\ Candidates(p)' = Candidates(p)
    BY <1>2 DEF SecurePaths, Candidates
<1>5. ASSUME NEW f \in Paths, Prepared(p, f), Canonical(f),
             IF argv[p][1].abs THEN f = NormalizeAbsolutePath(argv[p][1])
             ELSE IsBare(argv[p][1]) /\ \E i \in DOMAIN Candidates(p) : f = Candidates(p)[i]
      PROVE  Progress(p)'
  <2>1. pc'[p] = "lookup" /\ path'[p] = f /\ at'[p] = 1
      BY <1>1, <1>5 DEF Prepared, Goto, TypeOK
  <2>2. Prepares(p)'
      BY <1>2, <1>4, <1>5, <2>1 DEF Prepares
  <2> QED BY <1>1, <1>2, <1>4, <2>1, <2>2 DEF Progress
<1>6. CASE Prepare(p)
  <2>1. CASE ~argv[p][1].abs
    <3>1. pc'[p] = "search" /\ IsBare(argv[p][1])
        BY <1>1, <1>6, <2>1 DEF Prepare, Goto, TypeOK
    <3> QED BY <1>1, <1>2, <1>4, <2>1, <3>1 DEF Progress
  <2>2. CASE argv[p][1].abs
    <3>1. /\ Prepared(p, NormalizeAbsolutePath(argv[p][1]))
          /\ NormalizeAbsolutePath(argv[p][1]) # Error
        BY <1>6, <2>2 DEF Prepare
    <3>2. /\ NormalizeAbsolutePath(argv[p][1]) \in Paths
          /\ Canonical(NormalizeAbsolutePath(argv[p][1]))
        BY <1>3, <3>1, NormalizeCanonical
    <3> QED BY <1>5, <2>2, <3>1, <3>2
  <2> QED BY <2>1, <2>2
<1>7. CASE Search(p)
  <2>1. ~argv[p][1].abs /\ IsBare(argv[p][1])
      BY <1>1, <1>7 DEF Search, Progress
  <2>2. CASE pc' = pc
    <3>1. pc'[p] = "search"
        BY <1>7, <2>2 DEF Search
    <3> QED BY <1>1, <1>2, <1>4, <2>1, <3>1 DEF Progress
  <2>3. CASE Prepared(p, Candidates(p)[at[p]])
    <3>1. at[p] \in Nat \ {0} /\ at[p] <= Len(SecurePaths(p))
        BY <1>1, <1>7 DEF TypeOK, Search
    <3>2. at[p] \in DOMAIN Candidates(p)
        BY <1>1, <3>1, SecurePathsSeq DEF Candidates
    <3>3. Candidates(p)[at[p]] \in Paths /\ Canonical(Candidates(p)[at[p]])
        BY <1>1, <2>1, <3>2, CandidatesCanonical
    <3> QED BY <1>5, <2>1, <2>3, <3>2, <3>3
  <2> QED BY <1>7, <2>2, <2>3 DEF Search
<1> QED BY <1>6, <1>7

\* match_rule goes past a rule only when it is well-formed and does not match.
LEMMA MatchProgress ==
    ASSUME PipelineInv, NEW p \in Procs, MatchRule(p)
    PROVE  Progress(p)'
<1> USE DEF Loaded, Found, Matched, Deciding, Granted, Ended, auth, input
<1>1. /\ TypeOK /\ Progress(p) /\ pc[p] \in {"lookup", "match"}
      /\ status[p] # "busy" /\ fresh[p] = FALSE
      /\ who[p] \in Callers /\ IsCommand(argv[p]) /\ cfg[p] \in Configs
      /\ SecurePaths(p) # Error /\ Prepares(p)
      /\ at[p] \in Nat \ {0}
    BY DEF PipelineInv, Progress, MatchRule, LookUp, RuleMatches, RulePasses, RuleMalformed,
           Denied, TypeOK
<1>2. /\ who' = who /\ argv' = argv /\ cfg' = cfg /\ ran' = ran /\ path' = path
      /\ status' = status /\ fresh' = fresh /\ lastAuth' = lastAuth
    BY DEF MatchRule, LookUp, RuleMatches, RulePasses, RuleMalformed, Denied
<1>3. SecurePaths(p)' = SecurePaths(p) /\ Candidates(p)' = Candidates(p)
    BY <1>2 DEF SecurePaths, Candidates
<1>4. /\ IsCommand(argv[p])' = IsCommand(argv[p])
      /\ Prepares(p)' = Prepares(p)
      /\ \A i : MatchesAt(p, i)' = MatchesAt(p, i)
    BY <1>2, <1>3 DEF Prepares, MatchesAt
<1>5. CASE pc'[p] \in {"failed", "denied"}
    BY <1>1, <1>2, <1>5 DEF Progress
<1>6. CASE LookUp(p) /\ pc'[p] # "failed"
  <2>1. pc'[p] = "match" /\ cfg[p].rules # Other /\ at' = at /\ pc[p] = "lookup"
      BY <1>1, <1>6 DEF LookUp, Goto, TypeOK
  <2>2. at[p] = 1
      BY <1>1, <2>1 DEF Progress
  <2>3. \A j \in 1..(at'[p] - 1) : FALSE
      BY <2>1, <2>2
  <2> QED BY <1>1, <1>2, <1>3, <1>4, <2>1, <2>3 DEF Progress
<1>7. CASE RuleMatches(p)
  <2>1. /\ pc'[p] = "authenticate" /\ at' = at /\ pc[p] = "match"
        /\ at[p] <= Len(cfg[p].rules) /\ ParseRule(Rule(p)) /\ MatchesAt(p, at[p])
      BY <1>1, <1>7 DEF RuleMatches, Goto, TypeOK, Matches, MatchesAt, Rule
  <2>2. cfg[p].rules # Other /\ at[p] \in DOMAIN cfg[p].rules
      BY <1>1, <2>1, ConfigsAssumption DEF Progress
  <2>3. Rule(p)' = Rule(p)
      BY <1>2, <2>1 DEF Rule
  <2>4. \A j \in 1..(at[p] - 1) : ParseRule(cfg[p].rules[j]) /\ ~MatchesAt(p, j)
      BY <1>1, <2>1 DEF Progress
  <2> QED BY <1>1, <1>2, <1>3, <1>4, <2>1, <2>2, <2>3, <2>4 DEF Progress
<1>8. CASE RulePasses(p)
  <2>1. /\ pc'[p] = "match" /\ at'[p] = at[p] + 1 /\ pc[p] = "match"
        /\ ParseRule(cfg[p].rules[at[p]]) /\ ~MatchesAt(p, at[p])
      BY <1>1, <1>8 DEF RulePasses, TypeOK, Matches, MatchesAt, Rule
  <2>2. /\ cfg[p].rules # Other
        /\ \A j \in 1..(at[p] - 1) : ParseRule(cfg[p].rules[j]) /\ ~MatchesAt(p, j)
      BY <1>1, <2>1 DEF Progress
  <2>3. \A j \in 1..(at'[p] - 1) : ParseRule(cfg[p].rules[j]) /\ ~MatchesAt(p, j)
      BY <1>1, <2>1, <2>2
  <2> QED BY <1>1, <1>2, <1>3, <1>4, <2>1, <2>2, <2>3 DEF Progress
<1>9. CASE RuleMalformed(p) \/ Denied(p) \/ (LookUp(p) /\ pc'[p] = "failed")
    BY <1>1, <1>5, <1>9 DEF RuleMalformed, Denied, Goto, TypeOK
<1> QED BY <1>6, <1>7, <1>8, <1>9 DEF MatchRule

\* What an invocation whose rule has been found has, and a step of authenticate
\* or run_as_root leaves as it is.
LEMMA MatchedKept ==
    ASSUME TypeOK, NEW p \in Procs, Progress(p), pc[p] \in Matched,
           who' = who, argv' = argv, cfg' = cfg, path' = path, at' = at
    PROVE  /\ Rule(p)' = Rule(p) /\ Request(p)' = Request(p) /\ Session(p)' = Session(p)
           /\ Session(p) \in Users \X Sids
           /\ SecurePaths(p)' = SecurePaths(p) /\ Prepares(p)' = Prepares(p)
           /\ \A i : MatchesAt(p, i)' = MatchesAt(p, i)
<1>1. SecurePaths(p)' = SecurePaths(p) /\ Candidates(p)' = Candidates(p)
    BY DEF SecurePaths, Candidates
<1>2. who[p] \in Callers
    BY DEF Progress, Matched, Loaded, Found
<1>3. Session(p) \in Users \X Sids
    BY <1>2 DEF Session, Users, Sids
<1> QED BY <1>1, <1>3 DEF Prepares, Rule, Request, Session, MatchesAt

\* So much of Progress holds wherever such a step leads.
LEMMA MatchedProgress ==
    ASSUME TypeOK, NEW p \in Procs, Progress(p), pc[p] \in Matched,
           who' = who, argv' = argv, cfg' = cfg, path' = path, at' = at,
           pc'[p] \in Matched \cup {"failed", "killed"},
           status'[p] = "busy" <=> pc'[p] \in Deciding,
           pc'[p] \in Deciding => call'[p] = Request(p),
           fresh'[p] => pc'[p] \in Deciding /\ lastAuth'[Session(p)] # Nil,
           pc'[p] \in {"accepted", "caching"} => fresh'[p],
           pc'[p] \in Granted => Rule(p).nopasswd \/ lastAuth'[Session(p)] # Nil,
           pc'[p] = "running" => ran'[p] = path[p]
    PROVE  Progress(p)'
<1> USE DEF Loaded, Found, Matched, Deciding, Granted, Ended
<1>1. /\ who[p] \in Callers /\ IsCommand(argv[p]) /\ cfg[p] \in Configs
      /\ SecurePaths(p) # Error /\ Prepares(p)
      /\ cfg[p].rules # Other
      /\ \A j \in 1..(at[p] - 1) : ParseRule(cfg[p].rules[j]) /\ ~MatchesAt(p, j)
      /\ at[p] \in DOMAIN cfg[p].rules /\ ParseRule(Rule(p)) /\ MatchesAt(p, at[p])
    BY DEF Progress
<1>2. /\ Rule(p)' = Rule(p) /\ Request(p)' = Request(p) /\ Session(p)' = Session(p)
      /\ SecurePaths(p)' = SecurePaths(p) /\ Prepares(p)' = Prepares(p)
      /\ \A i : MatchesAt(p, i)' = MatchesAt(p, i)
    BY MatchedKept
<1> QED BY <1>1, <1>2 DEF Progress

\* The steps of authenticate.
LEMMA DecideProgress ==
    ASSUME PipelineInv, NEW p \in Procs, Decide(p)
    PROVE  Progress(p)'
<1> USE DEF Deciding, Granted, auth, input
<1>1. TypeOK /\ Progress(p) /\ pc[p] \in Matched
    BY DEF PipelineInv, Decide, Authenticate, NoPassword, CacheHit, PasswordRefused,
           PasswordAccepted, CooldownCleared, CacheUpdated, AuthenticateFails, Matched
<1>2. who' = who /\ argv' = argv /\ cfg' = cfg /\ path' = path /\ at' = at /\ ran' = ran
    BY DEF Decide, Authenticate, NoPassword, CacheHit, PasswordRefused,
           PasswordAccepted, CooldownCleared, CacheUpdated, AuthenticateFails
<1>3. Session(p) \in Users \X Sids /\ Remembered
  <2>1. Remembered
      BY StepFrame DEF Step
  <2> QED BY <1>1, <1>2, <2>1, MatchedKept
<1>4. /\ fresh[p] => lastAuth'[Session(p)] # Nil
      /\ pc[p] \in {"decide", "accepted", "caching"} =>
            call[p] = Request(p) /\ status[p] = "busy"
      /\ pc[p] \in {"accepted", "caching"} => fresh[p] = TRUE
      /\ pc[p] = "authenticate" => status[p] # "busy" /\ fresh[p] = FALSE
    BY <1>1, <1>3 DEF Progress, Remembered, TypeOK
<1>5. CASE Authenticate(p)
  <2>1. /\ pc'[p] = "decide" /\ status'[p] = "busy" /\ call'[p] = Request(p)
        /\ fresh' = fresh /\ pc[p] = "authenticate"
      BY <1>1, <1>5 DEF Authenticate, Goto, TypeOK, Auth!Call
  <2> QED BY <1>1, <1>2, <1>4, <2>1, MatchedProgress DEF Matched
<1>6. CASE NoPassword(p) \/ CacheHit(p) \/ CacheUpdated(p)
  <2>1. /\ pc'[p] = "elevate" /\ status'[p] = "granted" /\ fresh'[p] = FALSE
        /\ lastAuth' = lastAuth
      BY <1>1, <1>6 DEF NoPassword, CacheHit, CacheUpdated, Goto, TypeOK,
                        Auth!GrantFree, Auth!GrantCached, Auth!GrantFresh, Auth!Return
  <2>2. Rule(p).nopasswd \/ lastAuth[Session(p)] # Nil
    <3>1. CASE NoPassword(p)
        BY <1>4, <3>1 DEF NoPassword, Auth!GrantFree, Request
    <3>2. CASE CacheHit(p)
      <4>1. lastAuth[Auth!SessionOf(call[p])] # Nil /\ call[p] = Request(p)
          BY <1>4, <3>2 DEF CacheHit, Auth!GrantCached, Auth!Cached
      <4>2. Auth!SessionOf(Request(p)) = Session(p)
          BY DEF Auth!SessionOf, Request, Session
      <4> QED BY <4>1, <4>2
    <3>3. CASE CacheUpdated(p)
        BY <1>1, <1>4, <3>3 DEF CacheUpdated, Progress
    <3> QED BY <1>6, <3>1, <3>2, <3>3
  <2> QED BY <1>1, <1>2, <2>1, <2>2, MatchedProgress DEF Matched
<1>7. CASE PasswordRefused(p)
  <2>1. /\ pc' = pc /\ status' = status /\ call' = call /\ fresh' = fresh
        /\ lastAuth' = lastAuth /\ pc[p] = "decide"
      BY <1>7 DEF PasswordRefused, Auth!Reject
  <2> QED BY <1>1, <1>2, <1>4, <2>1, MatchedProgress DEF Matched
<1>8. CASE PasswordAccepted(p)
  <2>1. /\ pc'[p] = "accepted" /\ status' = status /\ call' = call /\ fresh'[p] = TRUE
        /\ lastAuth' = [lastAuth EXCEPT ![Auth!SessionOf(call[p])] = wall]
        /\ pc[p] = "decide"
      BY <1>1, <1>8 DEF PasswordAccepted, Goto, TypeOK, Auth!Accept
  <2>2. Auth!SessionOf(call[p]) = Session(p)
      BY <1>4, <2>1 DEF Auth!SessionOf, Request, Session
  <2>3. lastAuth'[Session(p)] # Nil
    <3>1. wall # Nil
        BY <1>1, NilApart DEF TypeOK
    <3> QED BY <1>1, <1>3, <2>1, <2>2, <3>1 DEF TypeOK
  <2> QED BY <1>1, <1>2, <1>4, <2>1, <2>3, MatchedProgress DEF Matched
<1>9. CASE CooldownCleared(p)
  <2>1. /\ pc'[p] = "caching" /\ status' = status /\ call' = call /\ fresh' = fresh
        /\ pc[p] = "accepted"
      BY <1>1, <1>9 DEF CooldownCleared, Goto, TypeOK
  <2> QED BY <1>1, <1>2, <1>4, <2>1, MatchedProgress DEF Matched
<1>10. CASE AuthenticateFails(p)
  <2>1. pc'[p] = "failed" /\ status'[p] = "refused" /\ fresh'[p] = FALSE
      BY <1>1, <1>10 DEF AuthenticateFails, Goto, TypeOK, Auth!Refuse, Auth!Return
  <2> QED BY <1>1, <1>2, <2>1, MatchedProgress DEF Matched
<1> QED BY <1>5, <1>6, <1>7, <1>8, <1>9, <1>10 DEF Decide

\* The file that is executed is the one that was prepared.
LEMMA RunProgress ==
    ASSUME PipelineInv, NEW p \in Procs, Elevate(p) \/ Execute(p) \/ RunFails(p)
    PROVE  Progress(p)'
<1> USE DEF Deciding, Granted, auth, input
<1>1. /\ TypeOK /\ Progress(p) /\ pc[p] \in Matched
      /\ status[p] # "busy" /\ fresh[p] = FALSE
      /\ Rule(p).nopasswd \/ lastAuth[Session(p)] # Nil
    BY DEF PipelineInv, Elevate, Execute, RunFails, Matched, Progress, TypeOK
<1>2. /\ who' = who /\ argv' = argv /\ cfg' = cfg /\ path' = path /\ at' = at
      /\ status' = status /\ fresh' = fresh /\ lastAuth' = lastAuth
    BY DEF Elevate, Execute, RunFails
<1>3. pc'[p] \in {"root", "failed"} \/ Execute(p)
    BY <1>1 DEF Elevate, RunFails, Goto, TypeOK
<1>4. CASE pc'[p] \in {"root", "failed"}
    BY <1>1, <1>2, <1>4, MatchedProgress DEF Matched
<1>5. CASE Execute(p)
  <2>1. pc'[p] = "running" /\ ran'[p] = NormalizeAbsolutePath(path[p]) /\ pc[p] = "root"
      BY <1>1, <1>5 DEF Execute, Goto, TypeOK
  <2>2. path[p] \in Paths /\ Canonical(path[p])
    <3>1. Prepares(p)
        BY <1>1, <2>1 DEF Progress, Found
    <3> QED BY <3>1 DEF Prepares
  <2>3. ran'[p] = path[p]
      BY <2>1, <2>2, NormalizeIdempotent
  <2> QED BY <1>1, <1>2, <2>1, <2>3, MatchedProgress DEF Matched
<1> QED BY <1>3, <1>4, <1>5

\* A killed invocation knows nothing.
LEMMA KillProgress ==
    ASSUME PipelineInv, NEW p \in Procs, Kill(p)
    PROVE  Progress(p)'
<1>1. TypeOK /\ Progress(p) /\ pc'[p] = "killed"
    BY DEF PipelineInv, Kill, Goto, TypeOK
<1>2. status'[p] # "busy" /\ fresh'[p] = FALSE
  <2>1. CASE pc[p] \in Deciding
    <3>1. Auth!Return(p, "refused")
        BY <2>1 DEF Kill, Auth!Refuse
    <3> QED BY <1>1, <3>1 DEF Auth!Return, TypeOK
  <2>2. CASE pc[p] \notin Deciding
    <3>1. status' = status /\ fresh' = fresh
        BY <2>2 DEF Kill, auth
    <3> QED BY <1>1, <2>2, <3>1 DEF Progress, TypeOK
  <2> QED BY <2>1, <2>2
<1> QED BY <1>1, <1>2 DEF Progress, Loaded, Found, Matched, Deciding, Granted

\* The invariant holds before the first invocation.
LEMMA InitPipeline == Init => PipelineInv
<1> SUFFICES ASSUME Init PROVE PipelineInv
    OBVIOUS
<1>1. /\ wall = 0
      /\ status = [p \in Procs |-> "none"]
      /\ call = [p \in Procs |-> Nil]
      /\ tries = [p \in Procs |-> 0]
      /\ fresh = [p \in Procs |-> FALSE]
      /\ lastAuth = [k \in Users \X Sids |-> Nil]
    BY DEF Init, Auth!Init
<1>2. TypeOK
    BY <1>1 DEF Init, TypeOK, Ended
<1>3. ASSUME NEW p \in Procs PROVE Progress(p)
  <2>1. pc[p] = "idle" /\ status[p] = "none" /\ fresh[p] = FALSE
      BY <1>1 DEF Init
  <2> QED BY <2>1 DEF Progress, Loaded, Found, Matched, Deciding, Granted
<1> QED BY <1>2, <1>3 DEF PipelineInv

\* Every step keeps the invariant.
LEMMA NextPipeline == PipelineInv /\ [Next]_vars => PipelineInv'
<1> SUFFICES ASSUME PipelineInv, [Next]_vars PROVE PipelineInv'
    OBVIOUS
<1>1. ASSUME NEW p \in Procs, Step(p) \/ Kill(p) PROVE PipelineInv'
  <2>1. TypeOK' /\ Remembered /\ \A q \in Procs \ {p} : Untouched(q)
      BY <1>1, StepFrame
  <2>2. Progress(p)'
      BY <1>1, CommandLineProgress, ResolveProgress, MatchProgress, DecideProgress,
         RunProgress, KillProgress DEF Step, Resolve
  <2>3. \A q \in Procs \ {p} : Progress(q)'
      BY <2>1, ProgressKept DEF PipelineInv
  <2> QED BY <2>1, <2>2, <2>3 DEF PipelineInv
<1>2. CASE Tick \/ (\E f \in Files : Install(f)) \/ UNCHANGED vars
  <2>1. /\ UNCHANGED <<pc, who, argv, cfg, path, at, ran>>
        /\ UNCHANGED <<status, call, tries, fresh, lastAuth>>
        /\ wall' = wall \/ wall' = wall + 1
      BY <1>2 DEF Tick, Install, Auth!Tick, auth, input, vars
  <2>2. TypeOK'
      BY <2>1 DEF PipelineInv, TypeOK
  <2>3. Remembered /\ \A q \in Procs : Untouched(q)
      BY <2>1 DEF Remembered, Untouched
  <2> QED BY <2>2, <2>3, ProgressKept DEF PipelineInv
<1> QED BY <1>1, <1>2 DEF Next

\* Every invocation of main has established, wherever it is, what the rest of
\* main relies on.
THEOREM PipelineHolds == Spec => []PipelineInv
<1>1. Init => PipelineInv
    BY InitPipeline
<1>2. PipelineInv /\ [Next]_vars => PipelineInv'
    BY NextPipeline
<1> QED BY <1>1, <1>2, PTL DEF Spec

-----------------------------------------------------------------------------
(* The properties *)

\* What is executed is what the rule was matched with, although the command is
\* resolved again after the password and packages change meanwhile.
THEOREM SameFileExecuted == Spec => []ExecutedIsMatched
<1>1. PipelineInv => ExecutedIsMatched
    BY DEF PipelineInv, Progress, ExecutedIsMatched
<1> QED BY <1>1, PipelineHolds, PTL

\* An absolute command is matched, and run, at the place the caller wrote:
\* repeated slashes and dots are dropped, and nothing else.
THEOREM CommandIsTheOneMeant == Spec => []PathFaithful
<1>1. PipelineInv => PathFaithful
  <2> SUFFICES ASSUME PipelineInv, NEW p \in Procs, pc[p] \in Found, argv[p][1].abs
               PROVE  Walk(path[p]) = Walk(argv[p][1])
      BY DEF PathFaithful
  <2>1. TypeOK /\ IsCommand(argv[p]) /\ Prepares(p)
      BY DEF PipelineInv, Progress, Loaded
  <2>2. path[p] \in Paths /\ path[p] = NormalizeAbsolutePath(argv[p][1])
      BY <2>1 DEF Prepares
  <2>3. argv[p][1] \in Paths
      BY <2>1, WordIsPath
  <2>4. NormalizeAbsolutePath(argv[p][1]) # Error
      BY <2>2, ErrorAssumption
  <2> QED BY <2>2, <2>3, <2>4, NormalizeFaithful
<1> QED BY <1>1, PipelineHolds, PTL

\* A rule that matches is for the file it is matched with.
LEMMA MatchedIsFor ==
    ASSUME TypeOK, NEW p \in Procs, Progress(p), pc[p] \in Granted
    PROVE  IsFor(Rule(p).cmd, SecurePaths(p), path[p])
<1>1. /\ IsCommand(argv[p]) /\ cfg[p] \in Configs /\ SecurePaths(p) # Error /\ Prepares(p)
      /\ cfg[p].rules # Other /\ at[p] \in DOMAIN cfg[p].rules
      /\ ParseRule(Rule(p)) /\ MatchesRuleCommand(Rule(p).cmd, argv[p][1], path[p])
    BY DEF Progress, Loaded, Found, Matched, MatchesAt, Rule
<1> DEFINE cmd == Rule(p).cmd
           word == argv[p][1]
<1>2. CASE cmd = All
    BY <1>2 DEF IsFor
<1>3. CASE cmd # All
  <2>1. cmd.text \in Paths /\ cmd.prefix \in BOOLEAN
    <3>1. IsRule(Rule(p))
        BY <1>1, ConfigsAssumption DEF Rule
    <3> QED BY <1>1, <1>3, <3>1 DEF IsRule, ParseRule
  <2>2. CASE cmd.text.abs
      BY <1>1, <1>3, <2>2 DEF MatchesRuleCommand, IsFor
  <2>3. CASE ~cmd.text.abs
    <3>1. IF cmd.prefix THEN StartsWith(word, cmd.text) ELSE word = cmd.text
        BY <1>1, <1>3, <2>3 DEF MatchesRuleCommand
    <3>2. Len(cmd.text.parts) \in Nat \ {0} /\ cmd.text.abs = FALSE
        BY <2>1, <2>3, PathFacts
    <3>3. word.abs = FALSE
        BY <3>1, <3>2 DEF StartsWith
    <3>4. IsBare(word) /\ \E i \in DOMAIN Candidates(p) : path[p] = Candidates(p)[i]
        BY <1>1, <3>3 DEF Prepares
    <3>5. PICK i \in DOMAIN Candidates(p) : path[p] = Candidates(p)[i]
        BY <3>4
    <3>6. /\ i \in DOMAIN SecurePaths(p)
          /\ path[p] = Candidate(SecurePaths(p)[i], word.parts[1])
          /\ word.parts[1] \in Names
        BY <1>1, <3>3, <3>4, <3>5, CandidatesCanonical
    <3>7. IF cmd.prefix /\ Len(cmd.text.parts) = 1
          THEN <<word.parts[1], cmd.text.parts[1]>> \in Begins
          ELSE word.parts[1] = cmd.text.parts[1]
      <4>1. CASE ~cmd.prefix
          BY <3>1, <4>1
      <4>2. CASE cmd.prefix /\ Len(cmd.text.parts) = 1
          BY <3>1, <4>2 DEF StartsWith
      <4>3. CASE cmd.prefix /\ Len(cmd.text.parts) # 1
        <5>1. 1 \in 1..(Len(cmd.text.parts) - 1)
          <6>1. \A n \in Nat \ {0} : n # 1 => 1 \in 1..(n - 1)
              OBVIOUS
          <6> QED BY <3>2, <4>3, <6>1
        <5> QED BY <3>1, <4>3, <5>1 DEF StartsWith
      <4> QED BY <4>1, <4>2, <4>3
    <3> QED BY <1>3, <2>3, <3>6, <3>7 DEF IsFor
  <2> QED BY <2>2, <2>3
<1> QED BY <1>2, <1>3

\* The invariant says that the rule p is at is the one that decides.
LEMMA AtDecides ==
    ASSUME TypeOK, NEW p \in Procs, Progress(p), pc[p] \in Matched
    PROVE  at[p] \in DOMAIN cfg[p].rules /\ Decides(p, at[p])
<1>1. /\ at[p] \in DOMAIN cfg[p].rules /\ ParseRule(cfg[p].rules[at[p]]) /\ MatchesAt(p, at[p])
      /\ \A j \in 1..(at[p] - 1) : ParseRule(cfg[p].rules[j]) /\ ~MatchesAt(p, j)
    BY DEF Progress, Rule
<1>2. \A j \in 1..at[p] : j \in 1..(at[p] - 1) \/ j = at[p]
    BY DEF TypeOK
<1> QED BY <1>1, <1>2 DEF Decides

\* No command gets past authenticate but for the first rule that matches it, of
\* which no predecessor is malformed, and which is for this caller and this very
\* file; nor without a password given in this session that the rule asks for.
THEOREM CommandAuthorised == Spec => []ExecAuthorised
<1>1. PipelineInv => ExecAuthorised
  <2> SUFFICES ASSUME PipelineInv, NEW p \in Procs, pc[p] \in Granted
               PROVE  \E i \in DOMAIN cfg[p].rules :
                         /\ Decides(p, i)
                         /\ IsFor(cfg[p].rules[i].cmd, SecurePaths(p), path[p])
                         /\ cfg[p].rules[i].nopasswd \/ lastAuth[Session(p)] # Nil
      BY DEF ExecAuthorised
  <2>1. TypeOK /\ Progress(p) /\ pc[p] \in Matched
      BY DEF PipelineInv, Matched
  <2>2. at[p] \in DOMAIN cfg[p].rules /\ Decides(p, at[p])
      BY <2>1, AtDecides
  <2>3. IsFor(cfg[p].rules[at[p]].cmd, SecurePaths(p), path[p])
      BY <2>1, MatchedIsFor DEF Rule
  <2>4. cfg[p].rules[at[p]].nopasswd \/ lastAuth[Session(p)] # Nil
      BY <2>1 DEF Progress, Rule
  <2> QED BY <2>2, <2>3, <2>4
<1> QED BY <1>1, PipelineHolds, PTL

\* The loop of match_rule ends as the whole list of rules asks for: at the first
\* match, at the first malformed rule, or with a denial.
THEOREM LoopDecides == Spec => FirstRuleDecides
<1> DEFINE Ends(p) ==
       pc[p] = "match" /\ pc'[p] \notin {"match", "killed"} =>
          pc'[p] = IF \E i \in DOMAIN cfg[p].rules : Decides(p, i) THEN "authenticate"
                   ELSE IF \A i \in DOMAIN cfg[p].rules : ParseRule(cfg[p].rules[i])
                   THEN "denied" ELSE "failed"
<1>1. PipelineInv /\ [Next]_vars => \A p \in Procs : Ends(p)
  <2> SUFFICES ASSUME PipelineInv, [Next]_vars, NEW p \in Procs,
                      pc[p] = "match", pc'[p] \notin {"match", "killed"}
               PROVE  Ends(p)
      OBVIOUS
  <2>1. /\ TypeOK /\ cfg[p] \in Configs /\ cfg[p].rules # Other
        /\ \A j \in 1..(at[p] - 1) : ParseRule(cfg[p].rules[j]) /\ ~MatchesAt(p, j)
      BY DEF PipelineInv, Progress, Loaded, Found
  <2>2. /\ Len(cfg[p].rules) \in Nat /\ DOMAIN cfg[p].rules = 1..Len(cfg[p].rules)
        /\ at[p] \in Nat \ {0}
      BY <2>1, ConfigsAssumption DEF TypeOK
  <2>3. RuleMatches(p) \/ RuleMalformed(p) \/ Denied(p)
    <3>1. PICK q \in Procs : Step(q) \/ Kill(q)
        BY DEF Next, Tick, Install, vars
    <3>2. q = p
        BY <3>1, StepFrame DEF Untouched
    <3>3. ~Kill(p) /\ ~RulePasses(p)
        BY <2>1 DEF Kill, Goto, RulePasses, TypeOK
    <3> QED BY <3>1, <3>2, <3>3
            DEF Step, Begin, Parse, Load, Resolve, Prepare, PrepareFails, Search, NotFound,
                MatchRule, LookUp, Decide, Authenticate, NoPassword, CacheHit,
                PasswordRefused, PasswordAccepted, CooldownCleared, CacheUpdated,
                AuthenticateFails, Elevate, Execute, RunFails, Ended, Deciding
  <2>4. CASE RuleMatches(p)
    <3>1. /\ pc'[p] = "authenticate" /\ at[p] <= Len(cfg[p].rules)
          /\ ParseRule(cfg[p].rules[at[p]]) /\ MatchesAt(p, at[p])
        BY <2>1, <2>4 DEF RuleMatches, Goto, TypeOK, Matches, MatchesAt, Rule
    <3>2. \A j \in 1..at[p] : j \in 1..(at[p] - 1) \/ j = at[p]
        BY <2>2
    <3>3. at[p] \in DOMAIN cfg[p].rules /\ Decides(p, at[p])
        BY <2>1, <2>2, <3>1, <3>2 DEF Decides
    <3> QED BY <3>1, <3>3
  <2>5. CASE RuleMalformed(p)
    <3>1. /\ pc'[p] = "failed" /\ at[p] <= Len(cfg[p].rules)
          /\ ~ParseRule(cfg[p].rules[at[p]])
        BY <2>1, <2>5 DEF RuleMalformed, Goto, TypeOK, Rule
    <3>2. ASSUME NEW i \in DOMAIN cfg[p].rules, Decides(p, i) PROVE FALSE
      <4>1. i \in 1..(at[p] - 1) \/ at[p] \in 1..i
          BY <2>2
      <4> QED BY <2>1, <3>1, <3>2, <4>1 DEF Decides
    <3>3. at[p] \in DOMAIN cfg[p].rules
        BY <2>2, <3>1
    <3> QED BY <3>1, <3>2, <3>3
  <2>6. CASE Denied(p)
    <3>1. pc'[p] = "denied" /\ at[p] > Len(cfg[p].rules)
        BY <2>1, <2>6 DEF Denied, Goto, TypeOK
    <3>2. \A i \in DOMAIN cfg[p].rules : i \in 1..(at[p] - 1)
        BY <2>2, <3>1
    <3>3. \A i \in DOMAIN cfg[p].rules : ParseRule(cfg[p].rules[i]) /\ ~Decides(p, i)
        BY <2>1, <3>2 DEF Decides
    <3> QED BY <3>1, <3>3
  <2> QED BY <2>3, <2>4, <2>5, <2>6
<1> QED BY <1>1, PipelineHolds, PTL DEF Spec, FirstRuleDecides

-----------------------------------------------------------------------------
(* authenticate as main uses it *)

\* main calls authenticate with nothing but what the contract is for, and leaves its
\* state alone otherwise: what an invocation does to it is what AuthContract allows,
\* which is what ContractImplemented says OdusAuth provides.
THEOREM ContractUsed == Spec => Auth!Spec
<1>1. Init => Auth!Init
    BY DEF Init
<1>2. PipelineInv /\ [Next]_vars => [Auth!Next]_(Auth!vars)
  <2> SUFFICES ASSUME PipelineInv, [Next]_vars PROVE [Auth!Next]_(Auth!vars)
      OBVIOUS
  <2>1. ASSUME NEW p \in Procs, Step(p) \/ Kill(p)
        PROVE  Auth!Next \/ UNCHANGED Auth!vars
      BY <2>1, AuthUsed DEF Auth!Next, Auth!Decide, Auth!vars, auth
  <2>2. CASE Tick
      BY <2>2 DEF Tick, Auth!Next
  <2>3. CASE (\E f \in Files : Install(f)) \/ UNCHANGED vars
      BY <2>3 DEF Install, vars, auth, Auth!vars
  <2> QED BY <2>1, <2>2, <2>3 DEF Next
<1> QED BY <1>1, <1>2, PipelineHolds, PTL DEF Spec, Auth!Spec
=============================================================================
