\* Two invocations run to their end, though the clock may be set back.
SPECIFICATION LiveSpec
CONSTANTS
    Minute = 1
    MaxMinutes = 1
    MaxTriesLimit = 2
    DefaultCacheTimeout = 1
    DefaultMaxTries = 2
    SessionCacheMaxAge = 2
    AuthFailureCooldown = 1
    FailureStateRetention = 2
    Unset = Unset
    Nil = Nil
    Procs = {p1, p2}
    Users = {u1}
    Sids = {s1}
    Inodes = {1, 2, 3, 4}
    Configs <- Defaults
    NoPasswdRules <- NeverNoPasswd
    Faults = FALSE
    ClockSteps <- StepBack
    MaxClock = 1
INVARIANTS
    AnyClockInv
PROPERTIES
    EveryInvocationEnds
    GrantsAuthenticated
    RankFalls
