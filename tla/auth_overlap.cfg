\* Two invocations in one session at any interleaving, under any mode, killed
\* or failing anywhere.
SPECIFICATION Spec
CONSTANTS
    Minute = 2
    MaxMinutes = 1
    MaxTriesLimit = 2
    DefaultCacheTimeout = 1
    DefaultMaxTries = 1
    SessionCacheMaxAge = 3
    AuthFailureCooldown = 1
    FailureStateRetention = 2
    Unset = Unset
    Nil = Nil
    Procs = {p1, p2}
    Users = {u1}
    Sids = {s1}
    Inodes = {1, 2, 3, 4}
    Configs <- AllModes
    NoPasswdRules <- SomeNoPasswd
    Faults = TRUE
    ClockSteps <- StepAhead
    MaxClock = 3
INVARIANTS
    TypeOK
    StateFilesTruthful
    SleepBounded
PROPERTIES
    GrantsEarned
SYMMETRY SlotSymmetry
VIEW OverlapView
