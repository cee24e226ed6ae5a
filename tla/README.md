# A TLA+ model of odus

odus is a setuid-root program that runs a command as root for a user whom a
rule in `/etc/odus.toml` allows it, after asking for the user's password through
PAM or finding a recent authentication in a cache. Each invocation is one
short-lived, single-threaded process. What makes it hard is that invocations
overlap (two terminals, a script in the background, another user) and meet only
in files: two root files under `/etc`, and small state files under
`/var/run/odus`, which one invocation writes while another reads, judges or
unlinks them, and which outlive an invocation that is killed.

Everything here is written from the source in `src/`; paths below are relative
to `src/src/` unless they start with `src/`.

## Inventory

| Component | State it keeps | Operations | Correct when |
|---|---|---|---|
| Authentication (`auth.rs`: `authenticate`, `needs_auth`, `update_cache`, `do_pam_auth`) | attempts left; reads and writes the state files | cleanup, `nopasswd`, cache decision, prompt loop, PAM, recording | a grant is earned by this user in this session; the loop ends; the number of attempts is bounded |
| State files (`auth.rs`: `write_state_file`, `read_state_timestamp`, `clear_state_file`; `security.rs`) | `/var/run/odus/ts/<user>_<sid>`: time of the last authentication; `/var/run/odus/fails/<user>`: time before which nobody is prompted | open and truncate, write, read through a descriptor, unlink by name | whatever a reader can find is empty or true |
| Cleanup pass (`auth.rs`: `cleanup_state_files`) | a directory listing | read, judge, unlink each entry of both directories | takes away only what nobody would accept any more |
| Cooldown (`auth.rs`: `enforce_failure_cooldown`, `record_auth_failure`) | the `fails` file, a sleep | read, sleep; write after a refusal | attempts are apart; no sleep is long |
| Runtime directories (`auth.rs`: `ensure_secure_dir`) | three directories | create, open, chown, chmod, check | owned by root, mode 0700, before any file in them is read |
| Root files (`config.rs`, `auth.rs`: `ensure_pam_service`, `verify_pam_integrity`) | `/etc/odus.toml`, `/etc/pam.d/odus` | create exclusively, write, chown, chmod; verify; load | an unfinished file is never used; a file has one writer; an administrator's file is left alone |
| Rules (`rules.rs`) | none | parse, match, first match wins | the first well-formed match decides |
| Commands (`exec.rs`) | the process's ids and environment | normalise, resolve in `secure_path`, drop to root, `execve` | what is run is what was matched |
| Pipeline (`main.rs`) | none | the fixed order of the above | nothing runs before it is authorised |
| Audit (`audit.rs`) | the syslog socket | one entry per outcome | every outcome has its entry |
| Command line, completions, `Makefile` | none | parse, print | - |

How they interact: `main` calls the components one after the other and gives
their results along as values. Two invocations never call each other; all
interaction is through the file system and the clock. There is no lock anywhere:
the code relies on `O_EXCL`, on working on descriptors, and on the fixed order
of its system calls.

Hard behaviours:

* the cleanup pass checks by reading and acts by unlinking a path, with any
  number of steps of other invocations in between;
* a state file is truncated when opened and filled later, so a reader may find
  it empty, and a reader or writer may hold a descriptor of a file whose name is
  gone or names another file by now;
* the cooldown is read once, slept off, and not read again;
* times come from a wall clock that an administrator may set, and are compared
  with times another invocation drew;
* an invocation may die between any two system calls, and what it has half done
  stays: an empty state file, a root file in the wrong group;
* each invocation runs the cleanup pass under its own configuration over the
  files of everybody.

PROJECT.json lists these as hazards, each at its line and with the properties
that watch it.

## Modules

| Module | Models | Uses |
|---|---|---|
| `CachePolicy` | the pure decisions of `auth.rs`: cache mode, clamps, window, retention, expiry | |
| `AuthContract` | abstract: what `authenticate` promises its caller, without files | |
| `OdusAuth` | `authenticate` and the state files, every system call on them a step | `CachePolicy`, instance of `AuthContract` |
| `OdusRuntime` | `ensure_runtime_dirs`: the three directories under `/var/run` | |
| `OdusStartup` | `main` up to `config::load`: the two root files | |
| `OdusPath` | `exec.rs`, pure: normalisation, bare names, `secure_path` | |
| `OdusRules` | `rules.rs`, pure: well-formed rules, command and caller match | `OdusPath` |
| `Odus` | `main` from the command line to `execve`, with the audit log | `OdusRules`, instance of `AuthContract` |
| `MCOdusAuth`, `MCOdusRuntime`, `MCOdusStartup`, `MCOdus` | constants, views and symmetries for TLC; no property is defined there | their namesakes |
| `CachePolicyProofs`, `OdusAuthProofs`, `OdusContractProofs`, `OdusRuntimeProofs`, `OdusStartupProofs`, `OdusPathProofs`, `OdusProofs`, `OdusAuditProofs` | theorems | their namesakes |

How they fit together. `Odus` is the whole invocation, but takes two of its parts
by what they promise. `authenticate` is `AuthContract`, and `OdusAuth` is shown to
implement that, so what holds of `Odus` holds with the state files in the place
of the contract. The configuration is a value out of `Configs`: that only complete and trusted files reach
`config::load`, and which exceptions there are, is what `OdusStartup` is about. `OdusAuth` in turn starts with
directories that are root's alone, which is what `OdusRuntime` ends with where the file
system honours `fchmod`.

### OdusAuth

A member of `Procs` is a slot in which one invocation runs after another.
`pc` says where it is; `req` is what it was started with (user, session,
`cache_timeout` and `max_tries` as found in the file, and the `nopasswd` of the
matched rule); `todo`, `name`, `fd`, `stamp`, `left`, `nap` are the local
variables of the Rust functions (the rest of the listing, the path and the
descriptor in hand, the timestamp to be written, `attempts_left`, the rest of a
sleep). The shared state is `dir` (which inode is linked at each name), `data`
(the timestamp in each inode, `Nil` when it is empty or not a number) and
`wall`, the clock in seconds. `lastAuth` and `lastFail` record the answers of
PAM, an acceptance when the invocation has lifted the cooldown and draws the time for
the cache, and are read by properties only.

| Action | Code |
|---|---|
| `Begin` | `authenticate` from its start to the listing of `ts` |
| `SweepUnread`, `SweepOpen`, `Inspect`, `RemoveEntry`, `ListFails` | one round of the loops of `cleanup_cache_files` and `cleanup_rate_limit_files`; open, read-and-judge and unlink are steps of their own |
| `GrantNoPasswd` | the `nopasswd` return |
| `SkipCache`, `OpenCache`, `CacheMiss`, `CacheHit` | `needs_auth` and the `match` on it |
| `NoCooldown`, `OpenCooldown`, `ReadCooldown`, `Wake` | `enforce_failure_cooldown` |
| `NoPassword`, `PamAccepts`, `PamRejects` | `read_password` and `do_pam_auth` |
| `ClearFailures` | `clear_state_file` after acceptance, up to the clock reading of `update_cache` |
| `OpenStateFile`, `WriteCache`, `WriteFailure`, `WriteLastFailure`, `FlushFails` | `write_state_file` and what follows it |
| `Abort` | SIGKILL, or any `?` |
| `Tick`, `SetClock`, `Rest` | time; the end of the model's horizon |

What is abstracted, and why it is sound for the properties:

* A file's content is one number or nothing. The code writes a dozen digits
  with one `write`; a reader that meets an unparsable content treats it as
  empty (`needs_auth`, `read_state_timestamp`), so these are one value.
* Opening, checking ownership (`security.rs`) and, for a writer, `fchown` and
  `fchmod` are one step: the directories are owned by root with mode 0700 (where the
  file system honours `fchmod`, see `OdusRuntime`), so only odus puts files there, all of them root-owned and regular, and the checks
  succeed. Reading a descriptor and comparing with the clock are one step too;
  the moment between them is a moment earlier or later of the same second.
* Drawing the clock is part of the system call before it. A stamp may still be
  written many seconds after it was drawn.
* A directory listing is a snapshot (one `getdents` call reads directories of
  this size; a larger one may be listed in pieces).
* An inode is freed, and may be used again, with its last name and its last
  descriptor. `Inodes` must hold one for each name and each descriptor; the cfgs
  give that many.
* `/var/run/odus` starts empty and there is no reboot within a behaviour.
* Session ids are not reused; `GrantsEarned` is about a session id, and the
  history `lastAuth` too.

### AuthContract, and how OdusAuth implements it

`AuthContract` knows no files. A caller is `busy` with a request until it is
`granted` or `refused`; meanwhile passwords are rejected (`Reject`, at most
`Tries` of them) or one is accepted (`Accept`). A grant is free (`nopasswd`),
fresh (after `Accept`) or cached: before any password was refused, and less
than a window after the last acceptance in this session. Refusing is always
allowed.

`OdusAuth` instantiates it as `Contract`, with this mapping:

| Abstract | Detailed |
|---|---|
| `status` | `pc`: running is `busy`, `denied` and `failed` are `refused` |
| `call` | `req` |
| `tries` | `max_tries - attempts_left`, one more while a refusal is being recorded |
| `fresh` | the file about to be opened or written is the cache |
| `wall`, `lastAuth` | themselves |

The cleanup pass, the cooldown, and every step between PAM's answer and its
consequence are stutters. `ImplementsContract` says more than `GrantsEarned`:
that the loop never goes back to the cache, that a refusal counts although its
recording has failed, and that no state file buys an extra attempt.

### OdusRuntime

`entry` says what is at each of the three paths (is it a directory, whose, with
which mode), `pc` and `at` where each invocation is. `MakeDir`, `DirExists`,
`Inspect`, `NotADirectory`, `ChownRoot`, `SetMode`, `Hardened` and `NotHardened`
are the system calls and branches of `ensure_secure_dir`, three times over as
`ensure_runtime_dirs` calls it. A new directory is of root or of the caller's
group and has whatever mode the umask leaves. With `Stubborn` the file system may ignore
`fchown`, which is what the second `fstat` is for, and `fchmod`, which nothing looks for
afterwards. `ignored` remembers which calls of an invocation that has happened to; only
properties read it. `SecuredWhenUsed` excepts the mode of a directory whose `fchmod` was
ignored for the very invocation that uses it, and `RefusedForCause` allows a refusal only to
one whose own `fchown` was: a directory that it has found or made root's is never taken
from it by another. `Abort` is SIGKILL or a failed
call, `Reboot` empties `/var/run`. Nothing but odus unlinks the directories, and
it never does, so that the descriptor and the path are the same directory.

### OdusStartup

`file` holds each of the two root files (type, owner, group, mode, content) or
`Nil`, `pc`, `at` and `loaded` belong to the invocations. `CreateNew`,
`FoundExisting`, `WriteContent`, `ChownRoot`, `SetFinalMode`, `Accept`,
`Refuse`, `Load`, `LoadFails` are the system calls of `create_if_missing`,
`verify_integrity`, `ensure_pam_service`, `verify_pam_integrity` and
`config::load`, `Abort` is SIGKILL or an I/O error at any of them. The two
functions that create have the same shape and share the actions; they differ in
the final mode, in what modes they accept, and in that only the configuration is
verified after its creation. The file-type test is modelled as what it does: it
looks at one bit that symbolic links and sockets have too. Permission bits are
abstracted to 0600, 0644 and anything laxer.

Power failures: `durable` is the set of files whose content is known to be on
disk. The PAM file is flushed (`sync_all`) before its owner is set, the
configuration is not. `PowerCut` lets each file odus has created survive as it
is, vanish, or, when not flushed, survive without its content: owner and mode
are metadata, which journalling file systems commit first. `lost` remembers whose
content a power failure has taken. `OnlyCompleteTrusted` allows for exactly
those: the PAM file is never among them (`PamDurable`), the configuration may
be, and is then an empty file owned by root, which verifies and whose missing `rules` refuse every command.

Groups: the binary is setuid and not setgid, so a new file is of the caller's group on Linux,
and an unfinished file is told from a finished one by that group alone. On FreeBSD a new
file gets the group of `/etc`, which is root's, and so it does on Linux for a caller of
that group. `CreateNew` takes any group of `Gids`, root's among them in `startup`.
`inherited` remembers the files that had it from the start; `OnlyCompleteTrusted` is about
the others, `FinishedFilesOnly` about all of them, and that is violated (`unfinished_trusted`).
`LoadFails` is a file that cannot be opened, or one that is not TOML: an administrator's
may be anything, an unfinished one may end in the middle.

### OdusPath, OdusRules

A path is the sequence of what stands between its slashes, so `//bin/./sh` is
`Absolute(<<"", "bin", ".", "sh">>)`: doubled slashes, trailing ones and dots
are all there. `Components` is what `Path::components` makes of it. `Pick` keeps
the elements of a sequence that have certain indices; it is what `filter_map`
and the loops of `exec.rs` do, without recursion, so that it can be proved
about. `NormalizeAbsolutePath`, `IsBare`, `ValidateRelativeCommand`, `LoadSecurePaths` and
`Candidate` follow the functions of `exec.rs`. An absolute path with `..` is an error,
one with an interior `.` is not.

A string prefix (`starts_with`, for a rule that ends in `*`) is a prefix of the
segments, the last of which may be cut: `Begins` says which segment begins with
which. A value of the wrong TOML type is `Other`, one that is absent `Nil` (for `secure_path`
both are treated alike by the code, hence `Other`). A rule's `cmd` is `ALL` or a
text with or without a star. A `*` elsewhere is an ordinary character, part of a name.

### Odus

A member of `Procs` is again a slot. `who` and `argv` are the caller and the words
they typed, `cfg` what `config::load` returned, `path` is
`prepared_command[0]`, `at` the index of the loop under way (over `secure_path`, then over
the rules), `log` the entries this invocation has written to syslog, `ran` the
file it has become. `fs` is what `lstat` says of each executable.

| Action | Code |
|---|---|
| `Parse` | `cli::parse` |
| `Load` | `ensure_default_and_perms`, `ensure_pam_service`, `load` |
| `Prepare`, `PrepareFails`, `Search`, `NotFound` | `prepare_command`, `resolve_command`; one `lstat` per step |
| `LookUp`, `RuleMatches`, `RulePasses`, `RuleMalformed`, `Denied` | `match_rule`; one rule per step |
| `Authenticate`, `NoPassword`, `CacheHit`, `PasswordRefused`, `PasswordAccepted`, `CooldownCleared`, `CacheUpdated`, `AuthenticateFails` | `authenticate`, each joined with the step of `AuthContract` it takes, and with the entries logged there |
| `Elevate`, `Execute`, `RunFails` | `run_as_root` |
| `Kill`, `Tick`, `Install` | SIGKILL at any point; time; packages installed, replaced and removed |

Abstractions: only the first word of a command is resolved and matched, so the
others matter to `Parse` alone; a NUL cannot be in `argv`, so the only one is
in `secure_path`. A failed lookup of groups leaves a caller without groups
(`unwrap_or_default`), one of the cases of `Callers`; a failed lookup of the user
is the second branch of `LookUp`. `RunFails` is any error of `run_as_root`; `execve` may also refuse a regular file.
Whether the
kernel follows symbolic links on the way to a file is not modelled: `FileAt` is
of the last component, as `lstat` is. `Callers` are fixed, so a user's groups do
not change while their command is decided; both lookups are made in one call.

## Runs

All durations are scaled down, their order kept as the code's test
`cooldown_constants_are_non_zero_and_ordered` asserts it (cooldown < retention,
all positive); a window of two or three seconds has the same boundary cases (just
inside, exactly at, just past, in the future) as one of twelve hours. `MaxClock`
lets several windows go by: no invocation starts later, those under way still end.
Two slots give every pairwise race between a reader, a writer and a cleanup pass;
each slot runs any number of invocations one after the other, so the second and
third invocation of a user occur as well.

| Run | Asks |
|---|---|
| `auth_overlap` | Two invocations in one session under AlwaysPrompt, Timed and Session, with and without `nopasswd`, killed or failing at any step, the clock set ahead at any moment. `TypeOK`, `StateFilesTruthful`, `SleepBounded`, `GrantsEarned` hold. |
| `auth_sessions` | Two invocations in one or in two sessions with two attempts under the same kind of clock, so that one session's file could be taken for the other's, and the loop is gone around twice. `IInv` and `ImplementsContract` hold. |
| `auth_serial` | Two users, one invocation at a time, a clock of seven values that ticks or is set ahead, a cooldown of two seconds. `CooldownBetweenAttempts`, `CacheHonoured` and `CleanupRemovesOnlyStale` hold: these are what the code promises when nothing overlaps. So does `SerialInv`, from which they are proved. |
| `auth_liveness` | Two invocations with two attempts each, under fairness, the clock set back whenever it suits. `EveryInvocationEnds`; `RankFalls` is its safety half and holds without fairness. `GrantsAuthenticated`, what is left of `GrantsEarned` under such a clock, and `AnyClockInv`, the invariant both are proved from. |
| `startup` | Three invocations whose new files have the caller's group or root's, on each of the installations of `MCOdusStartup`, killed anywhere, the power failing anywhere. `StartupInv`, `OnlyCompleteTrusted`, `OneCreator`, `InstalledUntouched` hold. |
| `runtime_dirs` | Two invocations over five kinds of entry, or none, at each of three paths, on a file system that may ignore `fchown` and `fchmod`, killed and rebooted anywhere. `RuntimeInv`, `SecuredWhenUsed`, `RefusedForCause` hold. |
| `pipeline` | Two users in a session each, twelve command lines, seven configurations, two executables that appear, change and vanish. `PipelineInv`, `ExecAuthorised`, `ExecutedIsMatched`, `PathFaithful`, `AuditTrail`, `FirstRuleDecides` hold. |

`pipeline` has one slot: invocations of `Odus` meet only in `lastAuth`, which the
second and third invocation of the slot find as the first left it, and in `fs`,
which `Install` changes at every point. Overlap in the state files is
`OdusAuth`'s matter, and the theorems about `Odus` are for any number of slots. Its command lines
and configurations are in `MCOdus`, chosen so that every branch of resolution and
matching is taken; `MaxClock` is two with a window of one, so that a cache is met fresh
and expired. `PathFaithful` compares the normalised path with a walk along the
segments of the command line (`Walk`: enter, stay, go up) that knows nothing of components.

`ClockSteps` are the times the clock may be set to at any moment. In the first three
runs that is the last one, so that a clock set ahead passes every deadline at once;
in `auth_liveness` it is the first, so that it goes back.

Five runs end in a counterexample, each of them the point of a finding:

| Run | Shows |
|---|---|
| `cleanup_race` | The cleanup pass is said to delete failure files well past their cooldown; it reads one that another invocation has just emptied, and unlinks it when that has written it. A cooldown that has just begun is lost, and the next prompt comes at once. No access is gained, as `auth_overlap` shows. |
| `cooldown_overlap` | Two seconds are said to lie between attempts; not between those of two prompts that are open together. |
| `first_run_race` | A missing configuration is said to be created on first run; of two first runs at once the second may be refused. |
| `unfinished_trusted` | The configuration is said to exist with sane defaults after the check; where new files get the group root, as on FreeBSD, a second first run accepts and loads the one the first has created and not written. |
| `regular_check` | Anything that is not a plain file is said to be rejected; a socket or a link with modes of its own passes the check. |

The views of `MCOdusAuth` leave out how an ended invocation ended, and, where no
property reads it, the history of refusals; every property run under a view is
either over the variables in it or an action property, which TLC evaluates on each
step it takes. Symmetry is used in runs without liveness only.

No deadlock check is turned off: in `OdusAuth`, when the horizon is reached and every invocation
has ended, `Rest` says so.

### Fairness

`EveryInvocationEnds` needs `Fairness`: weak fairness of each invocation's own
steps and of `Tick`. The first is what the kernel's scheduler gives to a runnable
process; at the prompt, where the step is the user's, it says that the user
answers or closes the terminal. PAM is assumed to answer, and both answers are
possible again and again. Neither killing, nor errors, nor starting an
invocation, nor setting the clock is ever fair. Weak fairness is enough as nothing another invocation does
disables all steps of this one: there is no lock to wait for.

## Proofs

TLAPS proves, for any sets of slots, users, sessions and configurations, and any
durations in the order the code's test asserts:

* `TypeCorrect`: `TypeOK`, from the invariant `ControlInv`, which ties `pc` to
  the variables in use. In particular `attempts_left` is positive in the loop.
* `Inductive`, `FilesTruthful`, `SleepsAreShort`, `EveryGrantEarned`: from `IInv`.
  `StateFilesTruthful` alone is not inductive: a file becomes readable with the
  stamp its writer holds (hence `PendingTruthful`: what is about to be written is
  truthful already), through a descriptor that was opened for it (hence `FilesApart`:
  no inode serves two names, or a name and a descriptor of another name, so the
  failure file, whose times lie in the future, is never read as a cache), and
  stays true because the clock and the history only move forward (`TruthfulLasts`,
  `NextHistory`, `HistoryIsPast`). These theorems assume `ClockForward`, that nobody
  sets the clock back (it may be set ahead; `UnsetClock`: if it is never set at all, the
  assumption holds): when it is set back a stamp may be later than now, sleeps get long
  and a cached authentication counts as longer ago or more recent than it was.
* `AnyClock`, `EveryGrantAuthenticated`: what remains true whatever the clock does, from
  `AnyClockInv`. A window means nothing then, but a cache file still tells of a user and a
  session that PAM has accepted (`CachesVouched`), because no inode ever serves two names
  (`FilesApart`) and an acceptance is not forgotten (`VouchedLasts`). So setting the clock
  back may lengthen a cached authentication, and never makes one up.
* `EveryStepCounts`: why an invocation ends. `Rank` is what it has left to do, compared
  lexicographically: which part of `authenticate` it is in, the entries of the listing it
  has not judged yet, its attempts, the steps to the end of this round of the loop, the rest of
  its sleep. Every step it takes lowers the rank, whatever it reads from files others
  write (`OwnStep`); their steps leave it as it is (`OthersStep`), and a second may only
  lower it (`SecondPasses`). `RanksWellFounded` says that there is no infinite descent, so each
  invocation takes finitely many steps. That needs finitely many users and sessions, since a
  listing names them, and neither fairness nor anything of the clock; `AnyClockInv` comes
  in as `Listing`, that a listing is of the directory under way.
* `CleanupAgreesWithLookup`, `ActiveCooldownKept`: the cleanup pass and
  `needs_auth` decide by the same age, and a saturating age never makes an
  active cooldown look old.
* `SerialInductive`, `CooldownHolds`, `CacheIsHonoured`, `CleanupIsSafe`: the
  promises of `auth_serial`, for any users, sessions and configurations, under
  `Serial`: at most one slot and `~Faults`, and `ClockForward`. None of the three can do
  without its assumptions; `cleanup_race` and `cooldown_overlap` show what overlap
  does, and an invocation killed between the refusal and the write leaves no
  cooldown. `SerialInv` says that the last refusal and the last
  authentication are in their file, or about to be written there
  (`Recorded`), until they no longer count (`Cooled`, `Outlived`). The one step that takes
  a record away is the cleanup pass, which is where `ActiveCooldownKept` and
  `CleanupAgreesWithLookup` are needed; the one that empties a file knows its new
  content to be the latest answer (`Latest`).
* `ContractImplemented`: `OdusAuth` implements `AuthContract`. `IInv` gives that
  the cached grant is one the contract allows; the rest is `Control`, which says
  of each point of the program which locals are in use, so that the mapped `tries`
  and `fresh` move exactly with PAM's answers. Assumes `ClockForward` too: the contract's
  clock jumps ahead as it likes, and never back.
* `ContractUsed`: every behaviour of `Odus` is one of `AuthContract`. `main` calls
  `authenticate` with requests in `Requests` only, as `PipelineInv` says of the matched
  rule, and does nothing else to its state.
* `SingleCreator`, `InstalledKept`, `StartupHolds`, `CompleteFiles`: for any set of groups new
  files may get, root's among them or not. `UnfinishedForeign` carries the last two: a file
  that was not root's from the start becomes so only after its content is there, and what is
  not root's is refused. For a file that was (`inherited`) nothing of the kind can be
  said, as `unfinished_trusted` shows. Where callers are of ordinary groups on Linux
  there is no such file, and the exception is empty.
* `RuntimeHolds`, `DirectoriesSecured`, `NoFalseRefusal`: by `Progress`, what each
  invocation knows at each point, with "nothing odus does loosens a directory"
  (the steps of the others) as the reason why it goes on knowing it.
* `NormalizeIdempotent`: what `NormalizeAbsolutePath` returns is canonical, and
  normalising it again changes nothing, for paths of any length. `Pick` numbers
  the elements it keeps by counting; that there is an n-th smallest for each n up to
  the number of elements (`NthIn`) is an induction, done with the least
  counterexample, as the natural numbers are well-ordered (`Smallest`).
* `NormalizeFaithful`, and from it `CommandIsTheOneMeant`: walking along the segments of a path from the root, and
  along those of its normal form, ends at the same place. `Walk` is a recursive
  function on the prefixes of a path. What `Pick` keeps of each prefix satisfies its recursion:
  a segment that `Components` drops is one where the walk stays, a segment it keeps is one
  where both go on by the same name (`PickNext`). Nothing else does, which is again shown with a
  least counterexample (`WalkComponents`).
* `PipelineHolds`: the inductive invariant `PipelineInv`, with one lemma for each
  group of actions. From it, `SameFileExecuted` (the second resolution is of a canonical path, so
  `NormalizeIdempotent` says that it is the identity: no search happens again),
  `CommandAuthorised`, and `LoopDecides`: a loop that goes over the rules one
  by one ends as a statement about the whole list asks for.

* `AuditTrailHolds`: `LogInv` says what an invocation has logged at each point of
  `main`: as many refusals as it has spent attempts, in the order they were met, and nothing else
  but the entry of what has just happened. `AuditTrail` is its case at the end.

Constants are as weak as the code allows: `OdusProofs` assumes nothing of rules
but that their fields have a TOML type, and nothing of the file system at all.

Only model-checked: `EveryInvocationEnds`. `EveryStepCounts` proves that an invocation
takes finitely many steps; that it takes one as long as it has not ended is a matter of
fairness and `ENABLED`, which TLAPS does not do here. The five runs that expect a
counterexample have no theorem either.

## Documentation and code

Besides the findings, which runs show, these sentences do not say what the code
does, and the modules follow the code:

* "`..` and `.` path segments are rejected" (`src/README.md`, and `exec.rs:19`):
  an interior or trailing `.` is no component of a path and is accepted,
  `sh/.` even as a bare name. `PathFaithful` shows that it changes nothing about which
  file an absolute path means.
* "Omit to match any user", "Omit to match any group" (`src/README.md`): a rule
  with neither matches nobody, and with both it is enough that one matches
  (`MatchesCaller`; `MCOdus` has a rule of each kind).
* "every outcome produces an audit log entry" (`auth.rs:130`): an unreadable
  password and every error with a state file or a directory leave none.
* "Logs a successful command execution as root" (`audit.rs:33`): the entry is
  written before execution, and stays when it fails, or when the cache cannot be
  written (`auth.rs:201`).
* "authenticate once per TTY session (cache never expires by time)" (`auth.rs:138`),
  "Cache valid for the entire TTY session" (`auth.rs:236`): a session's cache ends after
  `SESSION_CACHE_MAX_AGE`, twelve hours (`auth.rs:278`), and the same session is asked again.
* "Ensures a state directory ... is only accessible to root" (`auth.rs:332`): the owner is looked at
  again after `fchown`, the mode is not after `fchmod`.
* `-h` and `--help` are taken from anywhere in the command line (`cli.rs:19`), the
  arguments of the command included: `odus sh -h` prints the help of odus.

## Not modelled

* Password memory (`SensitiveString`): zeroing a buffer is no behaviour of a
  state machine.
* PAM's inside, the user and group database: their answers are arbitrary.
* SECURITY entries of the audit log and the sanitising of texts for syslog: they
  feed nothing back.
* The completions and the `Makefile`: scripts; what the latter installs is among
  the initial states of `OdusStartup`.
* Other root processes that write to `/etc` or `/var/run/odus`: nothing in the
  code has them. This includes a configuration replaced between `lstat` and `open`
  (`config.rs:45`).
* Directories of `secure_path` that are symbolic links.
