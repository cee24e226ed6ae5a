------------------------- MODULE CachePolicyProofs -------------------------
(***************************************************************************)
(* Facts about the decisions of CachePolicy, for all durations in the      *)
(* order the code's test asserts.                                          *)
(***************************************************************************)
EXTENDS CachePolicy, TLAPS

\* CacheMode::from_config yields one of its three modes, the timed one within
\* the clamp, for every integer the configuration may hold.
LEMMA ModeType ==
    ASSUME NEW cfg, cfg.cache_timeout \in Int \cup {Unset}
    PROVE  ModeOf(cfg) \in CacheModes
<1> DEFINE raw == OrDefault(cfg.cache_timeout, DefaultCacheTimeout)
<1>1. raw \in Int
    BY ClampsAssumption DEF OrDefault
<1> HIDE DEF raw
<1>2. Clamp(raw, 1, MaxMinutes) \in 1 .. MaxMinutes
    BY <1>1, ClampsAssumption DEF Clamp
<1>3. FromConfig(raw) \in {Session, AlwaysPrompt, Timed(Clamp(raw, 1, MaxMinutes))}
    BY <1>1 DEF FromConfig
<1>4. /\ {Session, AlwaysPrompt} \subseteq CacheModes
      /\ \A m \in 1 .. MaxMinutes : Timed(m) \in CacheModes
    BY DEF CacheModes, Session, AlwaysPrompt, Timed
<1> QED BY <1>2, <1>3, <1>4 DEF ModeOf, raw

\* The clamp of max_tries admits no zero: an invocation that prompts has an
\* attempt to lose, and `attempts_left -= 1` never wraps.
LEMMA MaxTriesRange ==
    ASSUME NEW cfg, cfg.max_tries \in Int \cup {Unset}
    PROVE  MaxTriesOf(cfg) \in 1 .. MaxTriesLimit
<1>1. OrDefault(cfg.max_tries, DefaultMaxTries) \in Int
    BY ClampsAssumption DEF OrDefault
<1> QED BY <1>1, ClampsAssumption DEF MaxTriesOf, Clamp

\* Both durations are whole seconds.
LEMMA WindowType ==
    ASSUME NEW mode \in CacheModes
    PROVE  LookupWindow(mode) \in Nat /\ CacheRetention(mode) \in Nat
<1>1. /\ mode.kind \in {"AlwaysPrompt", "Session", "Timed"}
      /\ mode.minutes \in Nat
    BY ClampsAssumption DEF CacheModes
<1>2. mode.minutes * Minute \in Nat
    BY <1>1, DurationsAssumption
<1> QED BY <1>1, <1>2, DurationsAssumption DEF LookupWindow, CacheRetention

\* The cleanup pass and needs_auth agree: under the modes that cache, a file
\* the pass deletes is one needs_auth would refuse, and at an unchanged clock
\* needs_auth refuses what the pass keeps only if it is from the future.
THEOREM CleanupAgreesWithLookup ==
    ASSUME NEW mode \in CacheModes, mode.kind # "AlwaysPrompt",
           NEW ts \in Nat, NEW now \in Nat
    PROVE  /\ IsExpired(ts, now, CacheRetention(mode)) => CacheRefuses(mode, ts, now)
           /\ CacheRefuses(mode, ts, now) =>
                 now < ts \/ IsExpired(ts, now, CacheRetention(mode))
<1>1. CacheRetention(mode) = LookupWindow(mode)
    BY DEF CacheModes, CacheRetention, LookupWindow
<1>2. LookupWindow(mode) \in Nat
    BY WindowType
<1>3. LookupWindow(mode) # 0
  <2>1. mode.kind = "Session" => LookupWindow(mode) = SessionCacheMaxAge
      BY DEF LookupWindow
  <2>2. mode.kind = "Timed" =>
           mode.minutes \in Nat \ {0} /\ LookupWindow(mode) = mode.minutes * Minute
      BY ClampsAssumption DEF CacheModes, LookupWindow
  <2>3. \A m \in Nat \ {0} : m * Minute # 0
      BY DurationsAssumption
  <2> QED BY <2>1, <2>2, <2>3, DurationsAssumption DEF CacheModes
<1> QED BY <1>1, <1>2, <1>3 DEF IsExpired, CacheRefuses, SaturatingSub

\* A cooldown that has not run out is never old enough for the cleanup pass:
\* the subtraction saturates instead of wrapping around.
THEOREM ActiveCooldownKept ==
    ASSUME NEW ts \in Nat, NEW now \in Nat, ts > now
    PROVE  ~IsExpired(ts, now, FailureStateRetention)
BY DurationsAssumption DEF IsExpired, SaturatingSub
=============================================================================
