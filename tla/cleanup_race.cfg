\* Two invocations of one user; the pass of one meets the failure of the other.
SPECIFICATION Spec
CONSTANTS
    Minute = 2
    MaxMinutes = 1
    MaxTriesLimit = 1
    DefaultCacheTimeout = 1
    DefaultMaxTries = 1
    SessionCacheMaxAge = 3
    AuthFailureCooldown = 1
    FailureStateRetention = 2
    Unset = Unset
    Nil = Nil
    Procs = {p1, p2}
    Users = {u1}
    Sids = {s1}
    Inodes = {1, 2, 3, 4}
    Configs <- OneTimed
    NoPasswdRules <- NeverNoPasswd
    Faults = FALSE
    ClockSteps <- NoSteps
    MaxClock = 3
PROPERTIES
    RunningCooldownKept
