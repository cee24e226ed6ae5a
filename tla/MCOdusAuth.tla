---------------------------- MODULE MCOdusAuth -----------------------------
(***************************************************************************)
(* OdusAuth for TLC: scaled-down durations, configurations by name, and    *)
(* the symmetry of invocations and of login sessions.                      *)
(***************************************************************************)
EXTENDS OdusAuth, TLC

Key(timeout, tries) == [cache_timeout |-> timeout, max_tries |-> tries]

\* One- and two-attempt configurations of each cache mode.
PromptCfg == Key(0, 1)
TimedCfg == Key(1, 1)
SessionCfg == Key(-1, 2)

AllModes == {PromptCfg, TimedCfg, SessionCfg}
CachingModes == {Key(1, 2), SessionCfg}
OneTimed == {TimedCfg}
TimedTwice == {Key(1, 2)}
Defaults == {Key(Unset, Unset)}

NoSteps == {}
StepBack == {0}
StepAhead == {MaxClock}
NeverNoPasswd == {FALSE}
SomeNoPasswd == BOOLEAN

\* How an invocation ended matters to no later step, ...
Outcomeless == [p \in Procs |-> IF pc[p] \in Ended THEN "idle" ELSE pc[p]]

SerialView ==
    <<wall, files, Outcomeless, req, todo, name, fd, stamp, left, nap, history>>

\* ... and refusals only to CooldownBetweenAttempts.
OverlapView ==
    <<wall, files, Outcomeless, req, todo, name, fd, stamp, left, nap, lastAuth>>

SlotSymmetry == Permutations(Procs)
UserSymmetry == Permutations(Users)
ProcSidSymmetry == Permutations(Procs) \cup Permutations(Sids)
=============================================================================
