\* One invocation after another, of two users, under two caching modes.
SPECIFICATION Spec
CONSTANTS
    Minute = 2
    MaxMinutes = 1
    MaxTriesLimit = 2
    DefaultCacheTimeout = 1
    DefaultMaxTries = 1
    SessionCacheMaxAge = 4
    AuthFailureCooldown = 2
    FailureStateRetention = 3
    Unset = Unset
    Nil = Nil
    Procs = {p1}
    Users = {u1, u2}
    Sids = {s1}
    Inodes = {1, 2, 3, 4, 5}
    Configs <- CachingModes
    NoPasswdRules <- NeverNoPasswd
    Faults = FALSE
    ClockSteps <- StepAhead
    MaxClock = 6
INVARIANTS
    SerialInv
PROPERTIES
    CooldownBetweenAttempts
    CacheHonoured
    CleanupRemovesOnlyStale
SYMMETRY UserSymmetry
VIEW SerialView
