-------------------------------- MODULE Odus --------------------------------
(***************************************************************************)
(* main.rs: one invocation from the command line to execve.  Its parts are *)
(* command resolution (exec.rs), the search for a rule (rules.rs) and the  *)
(* entries it leaves in the audit log; authenticate is taken for what      *)
(* AuthContract says, which OdusAuth implements, and the files of          *)
(* OdusStartup for the one value config::load makes of them.               *)
(*                                                                         *)
(* Around it the clock runs, other invocations authenticate, the           *)
(* configuration differs from one invocation to the next, and packages are *)
(* installed and removed while a command is looked for.                    *)
(***************************************************************************)
EXTENDS OdusRules

CONSTANTS
    Procs,          \* slots, in each of which one invocation follows another
    Callers,        \* [user, sid, groups]: who may invoke it, from where
    CommandLines,   \* what may follow the name of the program
    NotUtf8,        \* a word that is no string
    Configs,        \* what config::load may return
    Files,          \* executables that may be installed
    MaxClock        \* the clock is not followed further

Users == {c.user : c \in Callers}
Sids == {c.sid : c \in Callers}
Requests == [user : Users, sid : Sids, nopasswd : BOOLEAN, cfg : Configs]

\* A rule may be a value that is no table; its cmd may be of any type.
IsRule(rule) ==
    rule # Other =>
        /\ rule.cmd \in [text : Paths, prefix : BOOLEAN] \cup {All, Nil, Other}
        /\ rule.nopasswd \in BOOLEAN

ASSUME CallersAssumption ==
    /\ \A c \in Callers : Nil \notin {c.user} \cup c.groups
    /\ \A words \in CommandLines : words \in Seq(Paths \cup {NotUtf8})
    /\ NotUtf8 \notin Paths

ASSUME ConfigsAssumption ==
    \A c \in Configs :
        /\ c.secure_path # Other => c.secure_path \in Seq(Paths \cup {Other})
        /\ c.rules # Other =>
              /\ Len(c.rules) \in Nat
              /\ DOMAIN c.rules = 1..Len(c.rules)
              /\ \A i \in DOMAIN c.rules : IsRule(c.rules[i])
        /\ c.window \in Nat /\ c.tries \in Nat

ASSUME NilAssumption ==
    /\ Nil \notin Nat /\ Nil \notin Callers /\ Nil \notin Configs
    /\ Files \subseteq Paths
    /\ MaxClock \in Nat

HelpFlags == {Relative(<<"-h">>), Relative(<<"--help">>)}

VARIABLES
    wall, status, call, tries, fresh, lastAuth,     \* those of AuthContract
    pc,         \* where each invocation is
    who, argv,  \* who invoked it and the words of the command
    cfg,        \* the configuration it has loaded
    path,       \* prepared_command[0]
    at,         \* the secure_path entry or the rule it is at
    log,        \* the entries it has written to the audit log
    ran,        \* the file it has become
    fs          \* what lstat says of each of Files

auth == <<wall, status, call, tries, fresh, lastAuth>>
input == <<who, argv, cfg>>
vars == <<wall, status, call, tries, fresh, lastAuth,
          pc, who, argv, cfg, path, at, log, ran, fs>>

Auth == INSTANCE AuthContract WITH
            Window <- [r \in Requests |-> r.cfg.window],
            Tries <- [r \in Requests |-> r.cfg.tries]

Ended == {"idle", "helped", "failed", "denied", "killed", "running"}
Deciding == {"decide", "accepted", "caching"}
Granted == {"elevate", "root", "running"}
Running == {"parse", "load", "prepare", "search", "lookup", "match",
            "authenticate", "elevate", "root"} \cup Deciding

SecurePaths(p) == LoadSecurePaths(cfg[p].secure_path)
Rule(p) == cfg[p].rules[at[p]]
Session(p) == <<who[p].user, who[p].sid>>

Goto(p, next) == pc' = [pc EXCEPT ![p] = next]

(***************************************************************************)
(* audit.rs: the entries, with the command where they name one.            *)
(***************************************************************************)
Entry(event, cmd) == [event |-> event, cmd |-> cmd]
LogExec(p) == Entry("EXEC", path[p])
LogAuthOk == Entry("AUTH OK", Nil)
LogCacheHit == Entry("CACHE HIT", Nil)
LogAuthFail == Entry("AUTH FAIL", Nil)
LogDenied(p) == Entry("DENIED", argv[p][1])

Log(p, entries) == log' = [log EXCEPT ![p] = @ \o entries]

-----------------------------------------------------------------------------
(* Command line and configuration *)

Begin(p) ==
    /\ pc[p] \in Ended
    /\ Goto(p, "parse")
    /\ \E c \in Callers, words \in CommandLines :
          /\ who' = [who EXCEPT ![p] = c]
          /\ argv' = [argv EXCEPT ![p] = words]
    /\ cfg' = [cfg EXCEPT ![p] = Nil]
    /\ path' = [path EXCEPT ![p] = Nil]
    /\ at' = [at EXCEPT ![p] = 1]
    /\ log' = [log EXCEPT ![p] = <<>>]
    /\ ran' = [ran EXCEPT ![p] = Nil]
    /\ UNCHANGED <<auth, fs>>

AsksForHelp(words) == \E i \in DOMAIN words : words[i] \in HelpFlags
IsCommand(words) == words # <<>> /\ \A i \in DOMAIN words : words[i] # NotUtf8

\* cli::parse: a help flag anywhere is odus's own; then there must be words,
\* and all of them strings.
Parse(p) ==
    /\ pc[p] = "parse"
    /\ Goto(p, IF AsksForHelp(argv[p]) THEN "helped"
               ELSE IF IsCommand(argv[p]) THEN "load" ELSE "failed")
    /\ UNCHANGED <<auth, input, path, at, log, ran, fs>>

\* ensure_default_and_perms, ensure_pam_service and load (see OdusStartup)
Load(p) ==
    /\ pc[p] = "load"
    /\ \/ \E c \in Configs : cfg' = [cfg EXCEPT ![p] = c] /\ Goto(p, "prepare")
       \/ cfg' = cfg /\ Goto(p, "failed")
    /\ UNCHANGED <<auth, who, argv, path, at, log, ran, fs>>

-----------------------------------------------------------------------------
(* Command resolution *)

FileAt(f) == IF f \in Files THEN fs[f] ELSE "nothing"

\* p goes on with f as its command.
Prepared(p, f) ==
    /\ path' = [path EXCEPT ![p] = f]
    /\ at' = [at EXCEPT ![p] = 1]
    /\ Goto(p, "lookup")

\* load_secure_paths and the first half of resolve_command
Prepare(p) ==
    /\ pc[p] = "prepare"
    /\ SecurePaths(p) # Error
    /\ LET word == argv[p][1]
           f == NormalizeAbsolutePath(word)
       IN  \/ word.abs /\ f # Error /\ Prepared(p, f)
           \/ ~word.abs /\ IsBare(word) /\ Goto(p, "search") /\ UNCHANGED <<path, at>>
    /\ UNCHANGED <<auth, input, log, ran, fs>>

PrepareFails(p) ==
    /\ pc[p] = "prepare"
    /\ LET word == argv[p][1] IN
       \/ SecurePaths(p) = Error
       \/ word.abs /\ NormalizeAbsolutePath(word) = Error
       \/ ~word.abs /\ ~IsBare(word)
    /\ Goto(p, "failed")
    /\ UNCHANGED <<auth, input, path, at, log, ran, fs>>

Candidates(p) ==
    [i \in DOMAIN SecurePaths(p) |->
        Candidate(SecurePaths(p)[i], ValidateRelativeCommand(argv[p][1]))]

\* One lstat for each directory, until there is a regular file.
Search(p) ==
    /\ pc[p] = "search"
    /\ at[p] <= Len(SecurePaths(p))
    /\ LET f == Candidates(p)[at[p]] IN
       \/ FileAt(f) = "regular" /\ Prepared(p, f)
       \/ /\ FileAt(f) # "regular"
          /\ at' = [at EXCEPT ![p] = @ + 1]
          /\ UNCHANGED <<pc, path>>
    /\ UNCHANGED <<auth, input, log, ran, fs>>

NotFound(p) ==
    /\ pc[p] = "search"
    /\ at[p] > Len(SecurePaths(p))
    /\ Goto(p, "failed")
    /\ UNCHANGED <<auth, input, path, at, log, ran, fs>>

-----------------------------------------------------------------------------
(* match_rule *)

\* The rules must be an array and the caller known to the user database.
LookUp(p) ==
    /\ pc[p] = "lookup"
    /\ \/ cfg[p].rules # Other /\ Goto(p, "match")
       \/ Goto(p, "failed")
    /\ UNCHANGED <<auth, input, path, at, log, ran, fs>>

Matches(p) ==
    /\ MatchesCaller(Rule(p), who[p])
    /\ MatchesRuleCommand(Rule(p).cmd, argv[p][1], path[p])

RuleMatches(p) ==
    /\ pc[p] = "match"
    /\ at[p] <= Len(cfg[p].rules)
    /\ ParseRule(Rule(p))
    /\ Matches(p)
    /\ Goto(p, "authenticate")
    /\ UNCHANGED <<auth, input, path, at, log, ran, fs>>

\* A rule that cannot be parsed is passed over.
RulePassesMalformed(p) ==
    /\ pc[p] = "match"
    /\ at[p] <= Len(cfg[p].rules)
    /\ ParseRule(Rule(p)) => ~Matches(p)
    /\ at' = [at EXCEPT ![p] = @ + 1]
    /\ UNCHANGED <<auth, pc, input, path, log, ran, fs>>

RulePasses(p) ==
    /\ pc[p] = "match"
    /\ at[p] <= Len(cfg[p].rules)
    /\ ParseRule(Rule(p))
    /\ ~Matches(p)
    /\ at' = [at EXCEPT ![p] = @ + 1]
    /\ UNCHANGED <<auth, pc, input, path, log, ran, fs>>

RuleMalformed(p) ==
    /\ pc[p] = "match"
    /\ at[p] <= Len(cfg[p].rules)
    /\ ~ParseRule(Rule(p))
    /\ Goto(p, "failed")
    /\ UNCHANGED <<auth, input, path, at, log, ran, fs>>

Denied(p) ==
    /\ pc[p] = "match"
    /\ at[p] > Len(cfg[p].rules)
    /\ Log(p, <<LogDenied(p)>>)
    /\ Goto(p, "denied")
    /\ UNCHANGED <<auth, input, path, at, ran, fs>>

-----------------------------------------------------------------------------
(* authenticate, and what it logs *)

Request(p) == [user |-> who[p].user, sid |-> who[p].sid,
               nopasswd |-> Rule(p).nopasswd, cfg |-> cfg[p]]

Authenticate(p) ==
    /\ pc[p] = "authenticate"
    /\ Auth!Call(p, Request(p))
    /\ Goto(p, "decide")
    /\ UNCHANGED <<input, path, at, log, ran, fs>>

NoPassword(p) ==
    /\ pc[p] = "decide"
    /\ Auth!GrantFree(p)
    /\ Log(p, <<LogExec(p)>>)
    /\ Goto(p, "elevate")
    /\ UNCHANGED <<input, path, at, ran, fs>>

CacheHit(p) ==
    /\ pc[p] = "decide"
    /\ Auth!GrantCached(p)
    /\ Log(p, <<LogCacheHit, LogExec(p)>>)
    /\ Goto(p, "elevate")
    /\ UNCHANGED <<input, path, at, ran, fs>>

PasswordRefused(p) ==
    /\ pc[p] = "decide"
    /\ Auth!Reject(p)
    /\ Log(p, <<LogAuthFail>>)
    /\ UNCHANGED <<pc, input, path, at, ran, fs>>

PasswordAccepted(p) ==
    /\ pc[p] = "decide"
    /\ Auth!Accept(p)
    /\ Goto(p, "accepted")
    /\ UNCHANGED <<input, path, at, log, ran, fs>>

\* EXEC is logged with the command line, AUTH OK when all is done.
CooldownClearedSwapped(p) ==
    /\ pc[p] = "accepted"
    /\ Log(p, <<LogExec(p), LogAuthOk>>)
    /\ Goto(p, "caching")
    /\ UNCHANGED <<auth, input, path, at, ran, fs>>

\* clear_state_file has forgotten the failures of earlier attempts.
CooldownCleared(p) ==
    /\ pc[p] = "accepted"
    /\ Log(p, <<LogAuthOk, LogExec(p)>>)
    /\ Goto(p, "caching")
    /\ UNCHANGED <<auth, input, path, at, ran, fs>>

CacheUpdated(p) ==
    /\ pc[p] = "caching"
    /\ Auth!GrantFresh(p)
    /\ Goto(p, "elevate")
    /\ UNCHANGED <<input, path, at, log, ran, fs>>

\* Attempts exhausted, no password read, or an error with a state file: after
\* EXEC has been logged when it is the cache that cannot be written.
AuthenticateFails(p) ==
    /\ pc[p] \in Deciding
    /\ Auth!Refuse(p)
    /\ Goto(p, "failed")
    /\ UNCHANGED <<input, path, at, log, ran, fs>>

-----------------------------------------------------------------------------
(* run_as_root *)

\* The environment, setgroups, setgid and setuid
Elevate(p) ==
    /\ pc[p] = "elevate"
    /\ ~HasNul(SecurePaths(p))
    /\ Goto(p, "root")
    /\ UNCHANGED <<auth, input, path, at, log, ran, fs>>

\* The words of the caller are resolved, not the command that was prepared.
ExecuteAsTyped(p) ==
    /\ pc[p] = "root"
    /\ \E f \in Files :
          /\ FileAt(f) # "nothing"
          /\ IF argv[p][1].abs THEN f = NormalizeAbsolutePath(argv[p][1])
             ELSE \E i \in DOMAIN Candidates(p) :
                     /\ f = Candidates(p)[i]
                     /\ \A j \in 1..(i - 1) : FileAt(Candidates(p)[j]) # "regular"
          /\ ran' = [ran EXCEPT ![p] = f]
    /\ Goto(p, "running")
    /\ UNCHANGED <<auth, input, path, at, log, fs>>

\* resolve_command once more, of an absolute path this time, and execve.
Execute(p) ==
    /\ pc[p] = "root"
    /\ LET f == NormalizeAbsolutePath(path[p]) IN
       /\ f # Error
       /\ FileAt(f) # "nothing"
       /\ ran' = [ran EXCEPT ![p] = f]
    /\ Goto(p, "running")
    /\ UNCHANGED <<auth, input, path, at, log, fs>>

\* A NUL in the environment, a refused system call, a file execve rejects.
RunFails(p) ==
    /\ pc[p] \in {"elevate", "root"}
    /\ Goto(p, "failed")
    /\ UNCHANGED <<auth, input, path, at, log, ran, fs>>

-----------------------------------------------------------------------------
Kill(p) ==
    /\ pc[p] \in Running
    /\ IF pc[p] \in Deciding THEN Auth!Refuse(p) ELSE UNCHANGED auth
    /\ Goto(p, "killed")
    /\ UNCHANGED <<input, path, at, log, ran, fs>>

Tick ==
    /\ wall < MaxClock
    /\ wall' = wall + 1
    /\ Auth!Tick
    /\ UNCHANGED <<pc, input, path, at, log, ran, fs>>

\* A package is installed, replaced or removed.
Install(f) ==
    /\ \E kind \in {"nothing", "regular", "other"} : fs' = [fs EXCEPT ![f] = kind]
    /\ UNCHANGED <<auth, pc, input, path, at, log, ran>>

Init ==
    /\ Auth!Init
    /\ pc = [p \in Procs |-> "idle"]
    /\ who = [p \in Procs |-> Nil]
    /\ argv = [p \in Procs |-> <<>>]
    /\ cfg = [p \in Procs |-> Nil]
    /\ path = [p \in Procs |-> Nil]
    /\ at = [p \in Procs |-> 1]
    /\ log = [p \in Procs |-> <<>>]
    /\ ran = [p \in Procs |-> Nil]
    /\ fs \in [Files -> {"nothing", "regular", "other"}]

Resolve(p) == Prepare(p) \/ PrepareFails(p) \/ Search(p) \/ NotFound(p)

MatchRule(p) ==
    \/ LookUp(p)
    \/ RuleMatches(p)
    \/ RulePasses(p)
    \/ RuleMalformed(p)
    \/ Denied(p)

Decide(p) ==
    \/ Authenticate(p)
    \/ NoPassword(p)
    \/ CacheHit(p)
    \/ PasswordRefused(p)
    \/ PasswordAccepted(p)
    \/ CooldownCleared(p)
    \/ CacheUpdated(p)
    \/ AuthenticateFails(p)

Step(p) ==
    \/ Begin(p)
    \/ Parse(p)
    \/ Load(p)
    \/ Resolve(p)
    \/ MatchRule(p)
    \/ Decide(p)
    \/ Elevate(p)
    \/ Execute(p)
    \/ RunFails(p)

Next ==
    \/ \E p \in Procs : Step(p) \/ Kill(p)
    \/ Tick
    \/ \E f \in Files : Install(f)

Spec == Init /\ [][Next]_vars

-----------------------------------------------------------------------------
(* Properties *)

Found == {"lookup", "match", "authenticate"} \cup Deciding \cup Granted
Matched == {"authenticate"} \cup Deciding \cup Granted
Loaded == {"prepare", "search"} \cup Found

\* Every variable has its type: a path is never an error, nor an index zero.
TypeOK ==
    /\ wall \in Nat
    /\ status \in [Procs -> {"none", "busy", "granted", "refused"}]
    /\ call \in [Procs -> Requests \cup {Nil}]
    /\ tries \in [Procs -> Nat]
    /\ fresh \in [Procs -> BOOLEAN]
    /\ lastAuth \in [Users \X Sids -> Nat \cup {Nil}]
    /\ pc \in [Procs -> Running \cup Ended]
    /\ who \in [Procs -> Callers \cup {Nil}]
    /\ argv \in [Procs -> CommandLines \cup {<<>>}]
    /\ cfg \in [Procs -> Configs \cup {Nil}]
    /\ path \in [Procs -> Paths \cup {Nil}]
    /\ ran \in [Procs -> Paths \cup {Nil}]
    /\ at \in [Procs -> Nat \ {0}]

(***************************************************************************)
(* What a rule is for, without the order in which the code looks at words  *)
(* and paths: ALL is for every file, a path for the files it names, and    *)
(* anything else for files of that name in the directories of secure_path. *)
(***************************************************************************)
IsFor(cmd, dirs, f) ==
    \/ cmd = All
    \/ /\ cmd # All
       /\ cmd.text.abs
       /\ IF cmd.prefix THEN StartsWith(f, cmd.text) ELSE f = cmd.text
    \/ /\ cmd # All
       /\ ~cmd.text.abs
       /\ \E i \in DOMAIN dirs, n \in Names :
             /\ f = Candidate(dirs[i], n)
             /\ IF cmd.prefix /\ Len(cmd.text.parts) = 1
                THEN <<n, cmd.text.parts[1]>> \in Begins
                ELSE n = cmd.text.parts[1]

MatchesAt(p, i) ==
    /\ MatchesCaller(cfg[p].rules[i], who[p])
    /\ MatchesRuleCommand(cfg[p].rules[i].cmd, argv[p][1], path[p])

\* The i-th rule is the first that matches, and none is malformed up to it.
Decides(p, i) ==
    /\ \A j \in 1..i : ParseRule(cfg[p].rules[j])
    /\ MatchesAt(p, i)
    /\ \A j \in 1..(i - 1) : ~MatchesAt(p, j)

\* Nothing gets past authenticate unless the first matching rule, with no
\* malformed one before it, is for the caller and for this very file, and that
\* rule needs no password or the user has authenticated in this session.  In
\* particular a rule that is no path never lets a file outside secure_path run.
ExecAuthorised ==
    \A p \in Procs : pc[p] \in Granted =>
        \E i \in DOMAIN cfg[p].rules :
            /\ Decides(p, i)
            /\ IsFor(cfg[p].rules[i].cmd, SecurePaths(p), path[p])
            /\ cfg[p].rules[i].nopasswd \/ lastAuth[Session(p)] # Nil

\* Resolving the command a second time, after the password, gives the file the
\* rule was matched with, whatever was installed or removed in between.
ExecutedIsMatched == \A p \in Procs : pc[p] = "running" => ran[p] = path[p]

\* Canonicalisation changes how an absolute command is written, never which file
\* it is: the path that rules are matched with is the one the caller meant.
PathFaithful ==
    \A p \in Procs :
        pc[p] \in Found /\ argv[p][1].abs => Walk(path[p]) = Walk(argv[p][1])

\* match_rule ends in the one way the whole list of rules asks for: the first
\* matching rule if none is malformed before it, else an error for the first
\* malformed one, else a denial.
FirstRuleDecides ==
    [][\A p \in Procs :
          pc[p] = "match" /\ pc'[p] \notin {"match", "killed"} =>
             pc'[p] =
                IF \E i \in DOMAIN cfg[p].rules : Decides(p, i) THEN "authenticate"
                ELSE IF \A i \in DOMAIN cfg[p].rules : ParseRule(cfg[p].rules[i])
                THEN "denied" ELSE "failed"]_vars

\* The audit log tells how every command that is run came to run: free of a
\* password, from the cache, or accepted after fewer refusals than attempts, and
\* the last entry names the file.  While passwords are tried there is an AUTH FAIL
\* for each one refused.  DENIED is written for denials, and only then.
AuditTrail ==
    \A p \in Procs :
        LET told == SubSeq(log[p], 1, Len(log[p]) - 1)
            failures(k) == [i \in 1..k |-> LogAuthFail]
        IN  /\ pc[p] \in Granted =>
                  /\ log[p] # <<>>
                  /\ log[p][Len(log[p])] =
                        Entry("EXEC", IF pc[p] = "running" THEN ran[p] ELSE path[p])
                  /\ IF Rule(p).nopasswd THEN told = <<>>
                     ELSE \/ told = <<LogCacheHit>>
                          \/ \E k \in 0..(cfg[p].tries - 1) :
                                told = Append(failures(k), LogAuthOk)
            /\ pc[p] = "decide" => log[p] = failures(tries[p])
            /\ pc[p] = "denied" => log[p] = <<LogDenied(p)>>
            /\ pc[p] \in Ended \ {"denied"} =>
                  \A i \in DOMAIN log[p] : log[p][i].event # "DENIED"

(***************************************************************************)
(* What ExecAuthorised and ExecutedIsMatched rest on.                      *)
(***************************************************************************)
\* Where the command of p comes from.
Prepares(p) ==
    LET word == argv[p][1] IN
    /\ path[p] \in Paths /\ Canonical(path[p])
    /\ IF word.abs THEN path[p] = NormalizeAbsolutePath(word)
       ELSE /\ IsBare(word)
            /\ \E i \in DOMAIN Candidates(p) : path[p] = Candidates(p)[i]

\* What an invocation at each point of main has established.
Progress(p) ==
    /\ pc[p] \in {"parse", "load"} \cup Loaded => who[p] \in Callers
    /\ pc[p] \in {"load"} \cup Loaded => IsCommand(argv[p])
    /\ pc[p] \in Loaded => cfg[p] \in Configs
    /\ pc[p] \in {"search"} \cup Found => SecurePaths(p) # Error
    /\ pc[p] = "search" => ~argv[p][1].abs /\ IsBare(argv[p][1])
    /\ pc[p] \in Found => Prepares(p)
    /\ pc[p] = "lookup" => at[p] = 1
    /\ pc[p] \in {"match"} \cup Matched =>
          /\ cfg[p].rules # Other
          /\ \A j \in 1..(at[p] - 1) : ParseRule(cfg[p].rules[j]) /\ ~MatchesAt(p, j)
    /\ pc[p] \in Matched =>
          at[p] \in DOMAIN cfg[p].rules /\ ParseRule(Rule(p)) /\ MatchesAt(p, at[p])
    /\ status[p] = "busy" <=> pc[p] \in Deciding
    /\ pc[p] \in Deciding => call[p] = Request(p)
    /\ fresh[p] => pc[p] \in Deciding /\ lastAuth[Session(p)] # Nil
    /\ pc[p] \in {"accepted", "caching"} => fresh[p]
    /\ pc[p] \in Granted => Rule(p).nopasswd \/ lastAuth[Session(p)] # Nil
    /\ pc[p] = "running" => ran[p] = path[p]

\* The inductive invariant.
PipelineInv == TypeOK /\ \A p \in Procs : Progress(p)
=============================================================================
