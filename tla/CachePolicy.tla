---------------------------- MODULE CachePolicy ----------------------------
(***************************************************************************)
(* The pure decisions of auth.rs: how the configuration is read into a     *)
(* cache mode, how long a cached credential is accepted, and when the      *)
(* cleanup pass deletes a state file.  No state; times are whole seconds,  *)
(* as `as_secs()` returns them.                                            *)
(***************************************************************************)
EXTENDS Integers

CONSTANTS
    Minute,                 \* seconds in a minute, 60 in the code
    MaxMinutes,             \* upper clamp of cache_timeout, 60 in the code
    MaxTriesLimit,          \* upper clamp of max_tries, 10 in the code
    DefaultCacheTimeout,    \* cache_timeout when absent or not an integer, 15
    DefaultMaxTries,        \* max_tries when absent or not an integer, 3
    SessionCacheMaxAge,     \* SESSION_CACHE_MAX_AGE, 12 hours
    AuthFailureCooldown,    \* AUTH_FAILURE_COOLDOWN, 2 seconds
    FailureStateRetention,  \* FAILURE_STATE_RETENTION, 15 minutes
    Unset                   \* a key that is absent or not a TOML integer

(***************************************************************************)
(* The order of the durations is what auth.rs's own test asserts           *)
(* (cooldown_constants_are_non_zero_and_ordered).                          *)
(***************************************************************************)
ASSUME DurationsAssumption ==
    /\ Minute \in Nat \ {0}
    /\ SessionCacheMaxAge \in Nat \ {0}
    /\ AuthFailureCooldown \in Nat \ {0}
    /\ FailureStateRetention \in Nat
    /\ FailureStateRetention > AuthFailureCooldown

ASSUME ClampsAssumption ==
    /\ MaxMinutes \in Nat \ {0}
    /\ MaxTriesLimit \in Nat \ {0}
    /\ DefaultCacheTimeout \in Int
    /\ DefaultMaxTries \in Int
    /\ Unset \notin Int

-----------------------------------------------------------------------------
Clamp(n, lo, hi) == IF n < lo THEN lo ELSE IF n > hi THEN hi ELSE n

OrDefault(raw, default) == IF raw = Unset THEN default ELSE raw

\* i64 and u64 subtraction that stops at zero.
SaturatingSub(a, b) == IF a > b THEN a - b ELSE 0

CacheModes == [kind : {"AlwaysPrompt", "Session"}, minutes : {0}]
                \cup [kind : {"Timed"}, minutes : 1 .. MaxMinutes]

AlwaysPrompt == [kind |-> "AlwaysPrompt", minutes |-> 0]
Session == [kind |-> "Session", minutes |-> 0]
Timed(m) == [kind |-> "Timed", minutes |-> m]

\* CacheMode::from_config
FromConfig(raw) ==
    CASE raw = -1 -> Session
      [] raw = 0 -> AlwaysPrompt
      [] OTHER -> Timed(Clamp(raw, 1, MaxMinutes))

ModeOf(cfg) == FromConfig(OrDefault(cfg.cache_timeout, DefaultCacheTimeout))

MaxTriesOf(cfg) ==
    Clamp(OrDefault(cfg.max_tries, DefaultMaxTries), 1, MaxTriesLimit)

-----------------------------------------------------------------------------
\* The age at which needs_auth stops accepting a cached timestamp.
LookupWindow(mode) ==
    IF mode.kind = "Session" THEN SessionCacheMaxAge ELSE mode.minutes * Minute

\* Session mode without its hard upper bound.
CacheRefusesNoBound(mode, ts, now) ==
    now < ts \/ (mode.kind = "Timed" /\ now - ts >= LookupWindow(mode))

(***************************************************************************)
(* needs_auth on a parsed timestamp.  A timestamp in the future makes      *)
(* duration_since fail, which the code turns into Duration::MAX.           *)
(***************************************************************************)
CacheRefuses(mode, ts, now) == now < ts \/ now - ts >= LookupWindow(mode)

\* Minutes compared with seconds.
CacheRetentionInMinutes(mode) ==
    CASE mode.kind = "AlwaysPrompt" -> 0
      [] mode.kind = "Timed" -> mode.minutes
      [] mode.kind = "Session" -> SessionCacheMaxAge

\* cache_retention: how long the cleanup pass lets a cache file live.
CacheRetention(mode) ==
    CASE mode.kind = "AlwaysPrompt" -> 0
      [] mode.kind = "Timed" -> mode.minutes * Minute
      [] mode.kind = "Session" -> SessionCacheMaxAge

\* The subtraction wraps around instead of saturating.
IsExpiredWrapping(ts, now, retention) == now < ts \/ now - ts >= retention

\* The comparison both cleanup passes make on a parsed timestamp.
IsExpired(ts, now, retention) == SaturatingSub(now, ts) >= retention
=============================================================================
