\* Two invocations at any interleaving in the same or in different sessions.
SPECIFICATION Spec
CONSTANTS
    Minute = 1
    MaxMinutes = 1
    MaxTriesLimit = 2
    DefaultCacheTimeout = 1
    DefaultMaxTries = 1
    SessionCacheMaxAge = 2
    AuthFailureCooldown = 1
    FailureStateRetention = 2
    Unset = Unset
    Nil = Nil
    Procs = {p1, p2}
    Users = {u1}
    Sids = {s1, s2}
    Inodes = {1, 2, 3, 4, 5}
    Configs <- TimedTwice
    NoPasswdRules <- NeverNoPasswd
    Faults = FALSE
    ClockSteps <- StepAhead
    MaxClock = 2
INVARIANTS
    IInv
PROPERTIES
    ImplementsContract
SYMMETRY ProcSidSymmetry
VIEW OverlapView
