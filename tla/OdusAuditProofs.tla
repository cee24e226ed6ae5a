--------------------------- MODULE OdusAuditProofs ---------------------------
(***************************************************************************)
(* What can be read off the audit log, for any number of overlapping       *)
(* invocations and any number of attempts.                                 *)
(***************************************************************************)
EXTENDS OdusProofs

Repeated(a, k) == [i \in 1..k |-> a]

\* Repeated(a, k) is a sequence of k elements, all of them a.
LEMMA RepeatedSeq ==
    ASSUME NEW S, NEW a \in S, NEW k \in Nat
    PROVE  /\ Repeated(a, k) \in Seq(S) /\ Len(Repeated(a, k)) = k
           /\ \A i \in 1..k : Repeated(a, k)[i] = a
BY DEF Repeated

\* One refusal more in the log of refusals.
LEMMA OneMore ==
    ASSUME NEW a, NEW k \in Nat
    PROVE  Repeated(a, k) \o <<a>> = Repeated(a, k + 1)
<1> DEFINE s == Repeated(a, k) \o <<a>>
           t == Repeated(a, k + 1)
<1>1. /\ Repeated(a, k) \in Seq({a}) /\ Len(Repeated(a, k)) = k
      /\ \A i \in 1..k : Repeated(a, k)[i] = a
      /\ t \in Seq({a}) /\ Len(t) = k + 1 /\ \A i \in 1..(k + 1) : t[i] = a
  <2>1. a \in {a} /\ k + 1 \in Nat
      OBVIOUS
  <2> QED BY <2>1, RepeatedSeq
<1>2. <<a>> \in Seq({a}) /\ Len(<<a>>) = 1
    OBVIOUS
<1>3. s \in Seq({a}) /\ Len(s) = k + 1
    BY <1>1, <1>2, ConcatProperties
<1>4. \A i \in 1..(k + 1) : s[i] = a
    BY <1>3, ElementOfSeq, LenProperties
<1> HIDE DEF s, t
<1>5. s = t
    BY <1>1, <1>3, <1>4, SeqEqual
<1> QED BY <1>5 DEF s, t

\* A sequence with two more elements: its last, what comes before, what is in it.
LEMMA TwoMore ==
    ASSUME NEW S, NEW s \in Seq(S), NEW a \in S, NEW b \in S,
           NEW t, t = s \o <<a, b>>
    PROVE  /\ t # <<>> /\ t[Len(t)] = b
           /\ SubSeq(t, 1, Len(t) - 1) = Append(s, a)
           /\ \A i \in DOMAIN t : t[i] \in {a, b} \/ (i \in DOMAIN s /\ t[i] = s[i])
<1>1. <<a, b>> \in Seq(S) /\ Len(<<a, b>>) = 2 /\ <<a, b>>[1] = a /\ <<a, b>>[2] = b
    OBVIOUS
<1>2. Len(s) \in Nat /\ DOMAIN s = 1..Len(s)
    BY LenProperties
<1>3. /\ t \in Seq(S) /\ Len(t) = Len(s) + 2
      /\ \A i \in 1..(Len(s) + 2) : t[i] = IF i <= Len(s) THEN s[i] ELSE <<a, b>>[i - Len(s)]
    BY <1>1, ConcatProperties
<1>4. t[Len(t)] = b
    BY <1>1, <1>2, <1>3
<1>5. DOMAIN t = 1..(Len(s) + 2)
    BY <1>3, LenProperties
<1>6. \A i \in DOMAIN t : t[i] \in {a, b} \/ (i \in DOMAIN s /\ t[i] = s[i])
  <2> TAKE i \in DOMAIN t
  <2>1. CASE i <= Len(s)
      BY <1>2, <1>3, <1>5, <2>1
  <2>2. CASE i = Len(s) + 1
      BY <1>1, <1>2, <1>3, <1>5, <2>2
  <2>3. CASE i = Len(s) + 2
      BY <1>1, <1>2, <1>3, <1>5, <2>3
  <2> QED BY <1>2, <1>5, <2>1, <2>2, <2>3
<1>7. SubSeq(t, 1, Len(t) - 1) = Append(s, a)
  <2> DEFINE u == SubSeq(t, 1, Len(t) - 1)
             v == Append(s, a)
  <2>1. \A i \in 1..(Len(t) - 1) : t[i] \in S
      BY <1>2, <1>3, ElementOfSeq
  <2>2. /\ u \in Seq(S) /\ Len(u) = Len(s) + 1
        /\ \A i \in 1..(Len(s) + 1) : u[i] = t[i]
    <3>1. 1 \in Int /\ Len(t) - 1 \in Int /\ Len(t) - 1 = Len(s) + 1
        BY <1>2, <1>3
    <3>2. /\ u \in Seq(S)
          /\ Len(u) = IF 1 <= Len(t) - 1 THEN Len(t) - 1 - 1 + 1 ELSE 0
          /\ \A i \in 1..(Len(t) - 1 - 1 + 1) : u[i] = t[1 + i - 1]
        BY <2>1, <3>1, SubSeqProperties
    <3> HIDE DEF u
    <3>3. \A i \in 1..(Len(s) + 1) : 1 + i - 1 = i
        BY <1>2
    <3> QED BY <1>2, <3>1, <3>2, <3>3
  <2>3. /\ v \in Seq(S) /\ Len(v) = Len(s) + 1
        /\ \A i \in 1..Len(s) : v[i] = s[i]
        /\ v[Len(s) + 1] = a
      BY AppendProperties
  <2>4. \A i \in 1..(Len(s) + 1) : t[i] = IF i <= Len(s) THEN s[i] ELSE a
      BY <1>1, <1>2, <1>3
  <2> HIDE DEF u, v
  <2>5. \A i \in 1..(Len(s) + 1) : u[i] = v[i]
      BY <1>2, <2>2, <2>3, <2>4
  <2>6. u = v
      BY <2>2, <2>3, <2>5, SeqEqual
  <2> QED BY <2>6 DEF u, v
<1> QED BY <1>1, <1>3, <1>4, <1>6, <1>7

\* The last entry of a log of two, and the entry before it.
LEMMA TwoOnly ==
    ASSUME NEW a, NEW b
    PROVE  /\ <<a, b>> # <<>> /\ <<a, b>>[Len(<<a, b>>)] = b
           /\ SubSeq(<<a, b>>, 1, Len(<<a, b>>) - 1) = <<a>>
<1>1. SubSeq(<<a, b>>, 1, 1) = <<a>>
  <2> DEFINE S == {a, b}
             u == SubSeq(<<a, b>>, 1, 1)
  <2>1. /\ u \in Seq(S) /\ Len(u) = 1 /\ u[1] = a
    <3>1. \A i \in 1..1 : <<a, b>>[i] \in S
        OBVIOUS
    <3>2. u \in Seq(S) /\ Len(u) = 1 - 1 + 1 /\ \A i \in 1..(1 - 1 + 1) : u[i] = <<a, b>>[1 + i - 1]
        BY <3>1, SubSeqProperties
    <3> HIDE DEF u
    <3> QED BY <3>2
  <2>2. <<a>> \in Seq(S) /\ Len(<<a>>) = 1 /\ <<a>>[1] = a
      OBVIOUS
  <2> HIDE DEF u, S
  <2>3. u = <<a>>
      BY <2>1, <2>2, SeqEqual
  <2> QED BY <2>3 DEF u
<1> QED BY <1>1

-----------------------------------------------------------------------------
(* What an invocation has logged at each point of main *)

NoDenial(p) == \A i \in DOMAIN log[p] : log[p][i].event # "DENIED"

\* The entries of an invocation that has been granted its command.
Told(p) ==
    IF Rule(p).nopasswd THEN log[p] = <<LogExec(p)>>
    ELSE \/ log[p] = <<LogCacheHit, LogExec(p)>>
         \/ \E k \in 0..(cfg[p].tries - 1) :
               log[p] = Repeated(LogAuthFail, k) \o <<LogAuthOk, LogExec(p)>>

Silent == {"parse", "load", "prepare", "search", "lookup", "match", "authenticate"}

Logged(p) ==
    /\ pc[p] \notin Deciding => tries[p] = 0
    /\ pc[p] \in Silent => log[p] = <<>>
    /\ pc[p] \in {"decide", "accepted"} => log[p] = Repeated(LogAuthFail, tries[p])
    /\ pc[p] = "decide" /\ Rule(p).nopasswd => tries[p] = 0
    /\ pc[p] \in {"accepted", "caching"} => ~Rule(p).nopasswd
    /\ pc[p] = "accepted" => tries[p] < cfg[p].tries
    /\ pc[p] \in {"caching"} \cup Granted => Told(p)
    /\ pc[p] = "denied" => log[p] = <<LogDenied(p)>>
    /\ pc[p] # "denied" => NoDenial(p)

\* The log is a function: the rest of its type is in Logged.
LogInv ==
    /\ log = [p \in Procs |-> log[p]]
    /\ \A p \in Procs : Logged(p)

\* The entries of a grant are no denials.
LEMMA GrantEntries ==
    ASSUME NEW e, e.event = "EXEC", NEW n \in Nat, NEW l,
           \/ l = <<e>> \/ l = <<LogCacheHit, e>>
           \/ \E k \in 0..(n - 1) : l = Repeated(LogAuthFail, k) \o <<LogAuthOk, e>>
    PROVE  \A i \in DOMAIN l : l[i].event # "DENIED"
<1> DEFINE S == {LogAuthFail, LogAuthOk, e}
<1>1. /\ LogAuthOk.event = "AUTH OK"
      /\ LogCacheHit.event = "CACHE HIT" /\ LogAuthFail.event = "AUTH FAIL"
    BY DEF LogExec, LogAuthOk, LogCacheHit, LogAuthFail, Entry
<1>2. CASE l = <<e>> \/ l = <<LogCacheHit, e>>
  <2>1. CASE l = <<e>>
    <3>1. DOMAIN l = {1} /\ l[1] = e
        BY <2>1
    <3> QED BY <1>1, <3>1
  <2>2. CASE l = <<LogCacheHit, e>>
    <3>1. DOMAIN l = {1, 2} /\ l[1] = LogCacheHit /\ l[2] = e
        BY <2>2
    <3> QED BY <1>1, <3>1
  <2> QED BY <1>2, <2>1, <2>2
<1>3. ASSUME NEW k \in 0..(n - 1),
             l = Repeated(LogAuthFail, k) \o <<LogAuthOk, e>>
      PROVE  \A i \in DOMAIN l : l[i].event # "DENIED"
  <2>1. k \in Nat /\ LogAuthFail \in S /\ LogAuthOk \in S /\ e \in S
      BY <1>3
  <2> HIDE DEF S
  <2>2. /\ Repeated(LogAuthFail, k) \in Seq(S)
        /\ \A i \in DOMAIN Repeated(LogAuthFail, k) : Repeated(LogAuthFail, k)[i] = LogAuthFail
    <3>1. /\ Repeated(LogAuthFail, k) \in Seq(S) /\ Len(Repeated(LogAuthFail, k)) = k
          /\ \A i \in 1..k : Repeated(LogAuthFail, k)[i] = LogAuthFail
        BY <2>1, RepeatedSeq
    <3>2. DOMAIN Repeated(LogAuthFail, k) = 1..k
        BY DEF Repeated
    <3> QED BY <3>1, <3>2
  <2>3. \A i \in DOMAIN l : \/ l[i] \in {LogAuthOk, e}
                                  \/ l[i] = LogAuthFail
      BY <1>3, <2>1, <2>2, TwoMore
  <2> QED BY <1>1, <2>3
<1> QED BY <1>2, <1>3 

\* The log of a granted command has no DENIED entry.
LEMMA ToldNoDenialNext ==
    ASSUME NEW p \in Procs, Told(p)', cfg'[p].tries \in Nat
    PROVE  NoDenial(p)'
<1>1. LogExec(p)'.event = "EXEC"
    BY DEF LogExec, Entry
<1>2. \/ log'[p] = <<LogExec(p)'>> \/ log'[p] = <<LogCacheHit, LogExec(p)'>>
      \/ \E k \in 0..(cfg'[p].tries - 1) :
            log'[p] = Repeated(LogAuthFail, k) \o <<LogAuthOk, LogExec(p)'>>
    BY DEF Told
<1>3. \A i \in DOMAIN log'[p] : log'[p][i].event # "DENIED"
    BY <1>1, <1>2, GrantEntries
<1> QED BY <1>3 DEF NoDenial

\* Neither has a log of refused passwords only.
LEMMA FailuresNoDenialNext ==
    ASSUME NEW p \in Procs, NEW k \in Nat, log'[p] = Repeated(LogAuthFail, k)
    PROVE  NoDenial(p)'
<1>1. LogAuthFail.event = "AUTH FAIL"
    BY DEF LogAuthFail, Entry
<1> QED BY <1>1 DEF NoDenial, Repeated

\* Without a refused password the log is empty.
LEMMA NoFailures == Repeated(LogAuthFail, 0) = <<>>
BY DEF Repeated

-----------------------------------------------------------------------------
(* Steps *)

\* The log of an invocation that does nothing stays as its place in main asks.
LEMMA LoggedKept ==
    ASSUME NEW q \in Procs, Logged(q), Untouched(q),
           log'[q] = log[q], tries'[q] = tries[q]
    PROVE  Logged(q)'
<1>1. Rule(q)' = Rule(q) /\ LogExec(q)' = LogExec(q) /\ LogDenied(q)' = LogDenied(q)
    BY DEF Untouched, Rule, LogExec, LogDenied
<1>2. Told(q)' = Told(q) /\ NoDenial(q)' = NoDenial(q)
    BY <1>1 DEF Untouched, Told, NoDenial
<1> QED BY <1>1, <1>2 DEF Untouched, Logged

\* A step of p writes to the log of p alone, and counts for p alone.
LEMMA LogFrame ==
    ASSUME PipelineInv, LogInv, NEW p \in Procs, Step(p) \/ Kill(p)
    PROVE  /\ log' = [q \in Procs |-> log'[q]]
           /\ \A q \in Procs \ {p} : log'[q] = log[q] /\ tries'[q] = tries[q]
<1>t. tries \in [Procs -> Nat] /\ log = [q \in Procs |-> log[q]]
    BY DEF PipelineInv, TypeOK, LogInv
<1>1. log' = log \/ (\E s : log' = [log EXCEPT ![p] = s])
    BY DEF Step, Kill, Resolve, MatchRule, Decide, Begin, Parse, Load, Prepare, PrepareFails,
           Search, NotFound, LookUp, RuleMatches, RulePasses, RuleMalformed, Denied,
           Authenticate, NoPassword, CacheHit, PasswordRefused, PasswordAccepted,
           CooldownCleared, CacheUpdated, AuthenticateFails, Elevate, Execute, RunFails, Log
<1>2. tries' = tries \/ (\E n : tries' = [tries EXCEPT ![p] = n])
    BY DEF Step, Kill, Resolve, MatchRule, Decide, Begin, Parse, Load, Prepare, PrepareFails,
           Search, NotFound, LookUp, RuleMatches, RulePasses, RuleMalformed, Denied,
           Authenticate, NoPassword, CacheHit, PasswordRefused, PasswordAccepted,
           CooldownCleared, CacheUpdated, AuthenticateFails, Elevate, Execute, RunFails,
           Auth!Call, Auth!Reject, Auth!Accept, Auth!GrantFree, Auth!GrantCached,
           Auth!GrantFresh, Auth!Refuse, Auth!Return, auth
<1>3. log' = [q \in Procs |-> log'[q]] /\ \A q \in Procs \ {p} : log'[q] = log[q]
    BY <1>t, <1>1
<1>4. \A q \in Procs \ {p} : tries'[q] = tries[q]
    BY <1>t, <1>2
<1> QED BY <1>3, <1>4

\* Before the rule is found, and after a failure there, nothing has been logged.
LEMMA QuietLogged ==
    ASSUME NEW p \in Procs, pc'[p] \in Silent \cup {"helped", "failed", "killed"},
           log'[p] = <<>>, tries'[p] = 0
    PROVE  Logged(p)'
BY DEF Logged, NoDenial, Silent, Deciding, Granted

\* An invocation that is over, other than denied.
LEMMA OverLogged ==
    ASSUME NEW p \in Procs, pc'[p] \in {"failed", "killed"}, log'[p] = log[p],
           tries'[p] = 0, NoDenial(p)
    PROVE  Logged(p)'
BY DEF Logged, NoDenial, Silent, Deciding, Granted

\* Nothing is logged from the command line to the rule that decides.
LEMMA SilentLogged ==
    ASSUME PipelineInv, LogInv, NEW p \in Procs,
           \/ Begin(p) \/ Parse(p) \/ Load(p) \/ Resolve(p)
           \/ LookUp(p) \/ RuleMatches(p) \/ RulePasses(p) \/ RuleMalformed(p)
    PROVE  Logged(p)'
<1>1. TypeOK /\ Logged(p) /\ log = [q \in Procs |-> log[q]]
    BY DEF PipelineInv, LogInv
<1>2. tries' = tries
    BY DEF Begin, Parse, Load, Resolve, Prepare, PrepareFails, Search, NotFound, LookUp,
           RuleMatches, RulePasses, RuleMalformed, auth
<1>3. CASE Begin(p)
  <2>1. pc'[p] = "parse" /\ log'[p] = <<>> /\ tries[p] = 0
      BY <1>1, <1>3 DEF Begin, Goto, TypeOK, Logged, Deciding, Ended
  <2> QED BY <1>2, <2>1, QuietLogged DEF Silent
<1>4. CASE ~Begin(p)
  <2>1. /\ log' = log /\ pc[p] \in Silent \ {"authenticate"}
        /\ pc'[p] \in Silent \cup {"helped", "failed"}
      BY <1>1, <1>4 DEF Parse, Load, Resolve, Prepare, Prepared, PrepareFails, Search, NotFound,
                        LookUp, RuleMatches, RulePasses, RuleMalformed, Goto, TypeOK, Silent
  <2>2. log[p] = <<>> /\ tries[p] = 0
      BY <1>1, <2>1 DEF Logged, Silent, Deciding
  <2> QED BY <1>2, <2>1, <2>2, QuietLogged
<1> QED BY <1>3, <1>4

\* No rule matches: the one entry is DENIED.
LEMMA DeniedLogged ==
    ASSUME PipelineInv, LogInv, NEW p \in Procs, Denied(p)
    PROVE  Logged(p)'
<1>1. TypeOK /\ Logged(p) /\ log = [q \in Procs |-> log[q]]
    BY DEF PipelineInv, LogInv
<1>2. pc[p] = "match" /\ pc'[p] = "denied" /\ tries' = tries /\ argv' = argv
    BY <1>1 DEF Denied, Goto, TypeOK, auth, input
<1>3. log[p] = <<>> /\ tries[p] = 0
    BY <1>1, <1>2 DEF Logged, Silent, Deciding
<1>4. log'[p] = <<>> \o <<LogDenied(p)>>
    BY <1>1, <1>3 DEF Denied, Log
<1>5. log'[p] = <<LogDenied(p)>> /\ LogDenied(p)' = LogDenied(p)
    BY <1>2, <1>4 DEF LogDenied
<1> QED BY <1>2, <1>3, <1>5 DEF Logged, Silent, Deciding, Granted

\* What authenticate has been called with.
LEMMA RequestMade ==
    ASSUME TypeOK, NEW p \in Procs, Progress(p), pc[p] \in Matched
    PROVE  /\ Request(p) \in Requests /\ Request(p).cfg = cfg[p]
           /\ Request(p).nopasswd = Rule(p).nopasswd /\ Rule(p).nopasswd \in BOOLEAN
           /\ cfg[p].tries \in Nat
<1>1. /\ who[p] \in Callers /\ cfg[p] \in Configs /\ cfg[p].rules # Other
      /\ at[p] \in DOMAIN cfg[p].rules /\ ParseRule(Rule(p))
    BY DEF Progress, Loaded, Found, Matched
<1>2. Rule(p).nopasswd \in BOOLEAN /\ cfg[p].tries \in Nat
    BY <1>1, ConfigsAssumption DEF Rule, IsRule, ParseRule
<1> QED BY <1>1, <1>2 DEF Request, Requests, Users, Sids

\* authenticate adds its entries: a refusal, an acceptance, a cache hit, EXEC.
LEMMA DecideLogged ==
    ASSUME PipelineInv, LogInv, NEW p \in Procs, Decide(p)
    PROVE  Logged(p)'
<1> USE DEF Deciding, Granted, Silent
<1>1. TypeOK /\ Progress(p) /\ Logged(p) /\ log = [q \in Procs |-> log[q]]
    BY DEF PipelineInv, LogInv
<1>2. pc[p] \in {"authenticate"} \cup Deciding
    BY DEF Decide, Authenticate, NoPassword, CacheHit, PasswordRefused,
           PasswordAccepted, CooldownCleared, CacheUpdated, AuthenticateFails
<1>3. /\ Request(p) \in Requests /\ Request(p).cfg = cfg[p]
      /\ Request(p).nopasswd = Rule(p).nopasswd /\ Rule(p).nopasswd \in BOOLEAN
      /\ cfg[p].tries \in Nat /\ tries[p] \in Nat
    BY <1>1, <1>2, RequestMade DEF Matched, TypeOK
<1>4. who' = who /\ argv' = argv /\ cfg' = cfg /\ path' = path /\ at' = at
    BY DEF Decide, Authenticate, NoPassword, CacheHit, PasswordRefused,
           PasswordAccepted, CooldownCleared, CacheUpdated, AuthenticateFails, input
<1>5. Rule(p)' = Rule(p) /\ LogExec(p)' = LogExec(p)
    BY <1>4 DEF Rule, LogExec
<1>6. pc[p] \in Deciding => call[p] = Request(p)
    BY <1>1 DEF Progress
<1>7. NoDenial(p)
    BY <1>1, <1>2 DEF Logged
<1>8. CASE Authenticate(p)
  <2>1. /\ pc[p] = "authenticate" /\ pc'[p] = "decide" /\ log' = log /\ tries' = tries
      BY <1>1, <1>8 DEF Authenticate, Goto, TypeOK, Auth!Call
  <2>2. log[p] = <<>> /\ tries[p] = 0
      BY <1>1, <2>1 DEF Logged
  <2> QED BY <1>5, <2>1, <2>2, NoFailures DEF Logged, NoDenial
<1>9. CASE NoPassword(p)
  <2>1. /\ pc[p] = "decide" /\ pc'[p] = "elevate" /\ tries'[p] = 0
        /\ log'[p] = log[p] \o <<LogExec(p)>> /\ Rule(p).nopasswd
      BY <1>1, <1>3, <1>6, <1>9
         DEF NoPassword, Goto, TypeOK, Auth!GrantFree, Auth!Return, Log
  <2>2. log[p] = <<>>
      BY <1>1, <2>1, NoFailures DEF Logged
  <2>3. log'[p] = <<LogExec(p)>>
      BY <2>1, <2>2
  <2>4. Told(p)'
      BY <1>5, <2>1, <2>3 DEF Told
  <2> QED BY <1>3, <1>4, <2>1, <2>4, ToldNoDenialNext DEF Logged
<1>10. CASE CacheHit(p)
  <2>1. /\ pc[p] = "decide" /\ pc'[p] = "elevate" /\ tries'[p] = 0 /\ tries[p] = 0
        /\ log'[p] = log[p] \o <<LogCacheHit, LogExec(p)>> /\ ~Rule(p).nopasswd
      BY <1>1, <1>3, <1>6, <1>10
         DEF CacheHit, Goto, TypeOK, Auth!GrantCached, Auth!Return, Log
  <2>2. log[p] = <<>>
      BY <1>1, <2>1, NoFailures DEF Logged
  <2>3. log'[p] = <<LogCacheHit, LogExec(p)>>
      BY <2>1, <2>2
  <2>4. Told(p)'
      BY <1>5, <2>1, <2>3 DEF Told
  <2> QED BY <1>3, <1>4, <2>1, <2>4, ToldNoDenialNext DEF Logged
<1>11. CASE PasswordRefused(p)
  <2>1. /\ pc[p] = "decide" /\ pc' = pc /\ tries'[p] = tries[p] + 1
        /\ log'[p] = log[p] \o <<LogAuthFail>> /\ ~Rule(p).nopasswd
      BY <1>1, <1>3, <1>6, <1>11
         DEF PasswordRefused, TypeOK, Auth!Reject, Auth!MayTry, Log
  <2>2. log'[p] = Repeated(LogAuthFail, tries'[p])
      BY <1>1, <1>3, <2>1, OneMore DEF Logged
  <2>3. NoDenial(p)'
      BY <1>3, <2>1, <2>2, FailuresNoDenialNext
  <2> QED BY <1>5, <2>1, <2>2, <2>3 DEF Logged
<1>12. CASE PasswordAccepted(p)
  <2>1. /\ pc[p] = "decide" /\ pc'[p] = "accepted" /\ tries' = tries /\ log' = log
        /\ ~Rule(p).nopasswd /\ tries[p] < cfg[p].tries
    <3>1. Auth!MayTry(p)
        BY <1>12 DEF PasswordAccepted, Auth!Accept
    <3>2. tries[p] < cfg[p].tries /\ ~Rule(p).nopasswd
        BY <1>3, <1>6, <1>12, <3>1 DEF PasswordAccepted, Auth!MayTry
    <3> QED BY <1>1, <1>12, <3>2 DEF PasswordAccepted, Goto, TypeOK, Auth!Accept
  <2> QED BY <1>1, <1>4, <1>5, <1>7, <2>1 DEF Logged, NoDenial
<1>13. CASE CooldownCleared(p)
  <2>1. /\ pc[p] = "accepted" /\ pc'[p] = "caching" /\ tries' = tries
        /\ log'[p] = log[p] \o <<LogAuthOk, LogExec(p)>>
      BY <1>1, <1>13 DEF CooldownCleared, Goto, TypeOK, Log, auth
  <2>2. /\ tries[p] \in 0..(cfg[p].tries - 1) /\ ~Rule(p).nopasswd
        /\ log'[p] = Repeated(LogAuthFail, tries[p]) \o <<LogAuthOk, LogExec(p)>>
      BY <1>1, <1>3, <2>1 DEF Logged
  <2>3. Told(p)'
      BY <1>4, <1>5, <2>2 DEF Told
  <2> QED BY <1>3, <1>4, <1>5, <2>1, <2>2, <2>3, ToldNoDenialNext DEF Logged
<1>14. CASE CacheUpdated(p)
  <2>1. /\ pc[p] = "caching" /\ pc'[p] = "elevate" /\ tries'[p] = 0 /\ log' = log
      BY <1>1, <1>14 DEF CacheUpdated, Goto, TypeOK, Auth!GrantFresh, Auth!Return
  <2>2. Told(p)'
      BY <1>1, <1>4, <1>5, <2>1 DEF Told, Logged
  <2> QED BY <1>7, <2>1, <2>2 DEF Logged, NoDenial
<1>15. CASE AuthenticateFails(p)
  <2>1. pc'[p] = "failed" /\ tries'[p] = 0 /\ log' = log
      BY <1>1, <1>15 DEF AuthenticateFails, Goto, TypeOK, Auth!Refuse, Auth!Return
  <2> QED BY <1>7, <2>1, OverLogged
<1> QED BY <1>8, <1>9, <1>10, <1>11, <1>12, <1>13, <1>14, <1>15 DEF Decide

\* Nothing is logged once the command has been granted.
LEMMA RunLogged ==
    ASSUME PipelineInv, LogInv, NEW p \in Procs, Elevate(p) \/ Execute(p) \/ RunFails(p)
    PROVE  Logged(p)'
<1>1. TypeOK /\ Logged(p)
    BY DEF PipelineInv, LogInv
<1>2. /\ pc[p] \in Granted /\ pc'[p] \in {"root", "running", "failed"}
      /\ log' = log /\ tries' = tries /\ cfg' = cfg /\ path' = path /\ at' = at
    BY <1>1 DEF Elevate, Execute, RunFails, Goto, TypeOK, Granted, auth, input
<1>3. Told(p) /\ tries[p] = 0 /\ NoDenial(p)
    BY <1>1, <1>2 DEF Logged, Granted, Deciding
<1>4. Told(p)' /\ NoDenial(p)'
  <2>1. Rule(p)' = Rule(p) /\ LogExec(p)' = LogExec(p)
      BY <1>2 DEF Rule, LogExec
  <2> QED BY <1>2, <1>3, <2>1 DEF Told, NoDenial
<1> QED BY <1>2, <1>3, <1>4 DEF Logged, Silent, Deciding, Granted

\* A kill leaves the entries that were written before it.
LEMMA KillLogged ==
    ASSUME PipelineInv, LogInv, NEW p \in Procs, Kill(p)
    PROVE  Logged(p)'
<1>1. TypeOK /\ Logged(p)
    BY DEF PipelineInv, LogInv
<1>2. pc[p] # "denied" /\ pc'[p] = "killed" /\ log' = log
    BY <1>1 DEF Kill, Goto, TypeOK, Running, Deciding
<1>3. tries'[p] = 0
  <2>1. CASE pc[p] \in Deciding
      BY <1>1, <2>1 DEF Kill, Auth!Refuse, Auth!Return, TypeOK
  <2>2. CASE pc[p] \notin Deciding
      BY <1>1, <2>2 DEF Kill, Logged, auth
  <2> QED BY <2>1, <2>2
<1>4. NoDenial(p)
    BY <1>1, <1>2 DEF Logged
<1> QED BY <1>2, <1>3, <1>4, OverLogged

\* Nothing is logged before the first invocation.
LEMMA InitLog == Init => LogInv
<1> SUFFICES ASSUME Init PROVE LogInv
    OBVIOUS
<1>1. log = [p \in Procs |-> <<>>] /\ tries = [p \in Procs |-> 0] /\ pc = [p \in Procs |-> "idle"]
    BY DEF Init, Auth!Init
<1> QED BY <1>1 DEF LogInv, Logged, NoDenial, Silent, Deciding, Granted

\* Every step leaves the log as the places it leads to ask.
LEMMA NextLog == PipelineInv /\ LogInv /\ [Next]_vars => LogInv'
<1> SUFFICES ASSUME PipelineInv, LogInv, [Next]_vars PROVE LogInv'
    OBVIOUS
<1>1. ASSUME NEW p \in Procs, Step(p) \/ Kill(p) PROVE LogInv'
  <2>1. /\ log' = [q \in Procs |-> log'[q]]
        /\ \A q \in Procs \ {p} : log'[q] = log[q] /\ tries'[q] = tries[q]
      BY <1>1, LogFrame
  <2>2. \A q \in Procs \ {p} : Untouched(q)
      BY <1>1, StepFrame
  <2>3. Logged(p)'
      BY <1>1, SilentLogged, DeniedLogged, DecideLogged, RunLogged, KillLogged
         DEF Step, MatchRule
  <2>4. \A q \in Procs \ {p} : Logged(q)'
      BY <2>1, <2>2, LoggedKept DEF LogInv
  <2> QED BY <2>1, <2>3, <2>4 DEF LogInv
<1>2. CASE Tick \/ (\E f \in Files : Install(f)) \/ UNCHANGED vars
  <2>1. UNCHANGED <<pc, who, argv, cfg, path, at, log, ran, status, call, tries, fresh>>
      BY <1>2 DEF Tick, Install, Auth!Tick, auth, input, vars
  <2>2. \A q \in Procs : Untouched(q) /\ log'[q] = log[q] /\ tries'[q] = tries[q]
      BY <2>1 DEF Untouched
  <2> QED BY <2>1, <2>2, LoggedKept DEF LogInv
<1> QED BY <1>1, <1>2 DEF Next

-----------------------------------------------------------------------------
\* The audit log of every command that is run tells how it came to run, and its
\* last entry names the file; refusals are counted one for one, denials are
\* logged as such, and nothing else is.
THEOREM AuditTrailHolds == Spec => []AuditTrail
<1>1. Init => LogInv
    BY InitLog
<1>2. PipelineInv /\ LogInv /\ [Next]_vars => LogInv'
    BY NextLog
<1>3. PipelineInv /\ LogInv => AuditTrail
  <2> SUFFICES ASSUME PipelineInv, LogInv PROVE AuditTrail
      OBVIOUS
  <2>1. ASSUME NEW p \in Procs, pc[p] \in Granted
        PROVE  LET told == SubSeq(log[p], 1, Len(log[p]) - 1)
               IN  /\ log[p] # <<>> /\ log[p][Len(log[p])] = LogExec(p)
                   /\ IF Rule(p).nopasswd THEN told = <<>>
                      ELSE \/ told = <<LogCacheHit>>
                           \/ \E k \in 0..(cfg[p].tries - 1) :
                                 told = Append(Repeated(LogAuthFail, k), LogAuthOk)
    <3> DEFINE told == SubSeq(log[p], 1, Len(log[p]) - 1)
    <3>1. Told(p)
        BY <2>1 DEF LogInv, Logged
    <3>2. CASE Rule(p).nopasswd
      <4>1. log[p] = <<LogExec(p)>> /\ Len(log[p]) = 1
          BY <3>1, <3>2 DEF Told
      <4>2. told = <<>>
          BY <4>1, SubSeqEmpty
      <4> QED BY <3>2, <4>1, <4>2
    <3>3. CASE ~Rule(p).nopasswd /\ log[p] = <<LogCacheHit, LogExec(p)>>
      <4>1. told = <<LogCacheHit>> /\ log[p] # <<>> /\ log[p][Len(log[p])] = LogExec(p)
          BY <3>3, TwoOnly
      <4> QED BY <3>3, <4>1
    <3>4. ASSUME ~Rule(p).nopasswd, NEW k \in 0..(cfg[p].tries - 1),
                 log[p] = Repeated(LogAuthFail, k) \o <<LogAuthOk, LogExec(p)>>
          PROVE  /\ log[p] # <<>> /\ log[p][Len(log[p])] = LogExec(p)
                 /\ told = Append(Repeated(LogAuthFail, k), LogAuthOk)
      <4> DEFINE S == {LogAuthFail, LogAuthOk, LogExec(p)}
      <4>1. k \in Nat /\ LogAuthFail \in S /\ LogAuthOk \in S /\ LogExec(p) \in S
        <5>1. cfg[p].tries \in Nat
            BY <2>1, RequestMade DEF PipelineInv, Matched
        <5> QED BY <3>4, <5>1
      <4> HIDE DEF S
      <4>2. Repeated(LogAuthFail, k) \in Seq(S)
          BY <4>1, RepeatedSeq
      <4> QED BY <3>4, <4>1, <4>2, TwoMore
    <3> QED BY <3>1, <3>2, <3>3, <3>4 DEF Told
  <2>2. \A p \in Procs : pc[p] = "running" => ran[p] = path[p]
      BY DEF PipelineInv, Progress
  <2>3. \A p \in Procs : LogExec(p) = Entry("EXEC", path[p])
      BY DEF LogExec
  <2>4. \A p \in Procs : pc[p] = "decide" => log[p] = Repeated(LogAuthFail, tries[p])
      BY DEF LogInv, Logged
  <2>5. \A p \in Procs :
           /\ pc[p] = "denied" => log[p] = <<LogDenied(p)>>
           /\ pc[p] # "denied" => NoDenial(p)
      BY DEF LogInv, Logged
  <2> QED BY <2>1, <2>2, <2>3, <2>4, <2>5 DEF AuditTrail, Repeated, NoDenial
<1> QED BY <1>1, <1>2, <1>3, PipelineHolds, PTL DEF Spec
=============================================================================
