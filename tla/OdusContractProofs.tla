------------------------- MODULE OdusContractProofs -------------------------
(***************************************************************************)
(* OdusAuth implements AuthContract, for any number of invocations, users, *)
(* sessions and configurations.                                            *)
(***************************************************************************)
EXTENDS OdusAuthProofs

\* What a step leaves alone of an invocation, as far as the contract sees it.
Untouched(q) ==
    /\ pc'[q] = pc[q]
    /\ name'[q] = name[q]
    /\ left'[q] = left[q]
    /\ req'[q] = req[q]

\* An untouched invocation looks the same to the contract.
LEMMA UntouchedSeen ==
    ASSUME NEW q \in Procs, Untouched(q)
    PROVE  /\ StatusOf(q)' = StatusOf(q)
           /\ TriesOf(q)' = TriesOf(q)
           /\ Answered(q, "ts")' = Answered(q, "ts")
<1>1. StatusOf(q)' = StatusOf(q)
    BY DEF Untouched, StatusOf
<1>2. Answered(q, "ts")' = Answered(q, "ts")
    BY DEF Untouched, Answered
<1>3. TriesOf(q)' = TriesOf(q)
    BY DEF Untouched, TriesOf, Answered
<1> QED BY <1>1, <1>2, <1>3

\* A step of p that p's caller cannot tell from none.
LEMMA UnseenStep ==
    ASSUME NEW p \in Procs, wall' = wall, lastAuth' = lastAuth, req' = req,
           \A q \in Procs \ {p} : Untouched(q),
           StatusOf(p)' = StatusOf(p), TriesOf(p)' = TriesOf(p),
           Answered(p, "ts")' = Answered(p, "ts")
    PROVE  UNCHANGED Contract!vars
<1>1. \A q \in Procs : /\ StatusOf(q)' = StatusOf(q)
                       /\ TriesOf(q)' = TriesOf(q)
                       /\ Answered(q, "ts")' = Answered(q, "ts")
    BY UntouchedSeen
<1> QED BY <1>1 DEF Contract!vars

\* A step by which p's call returns.
LEMMA ReturnStep ==
    ASSUME ControlInv, NEW p \in Procs, wall' = wall, lastAuth' = lastAuth,
           pc[p] \in Running,
           NEW outcome \in {"granted", "denied", "failed"}, Finish(p, outcome)
    PROVE  /\ [q \in Procs |-> StatusOf(q)][p] = "busy"
           /\ Contract!Return(p, IF outcome = "granted" THEN "granted" ELSE "refused")
<1> USE DEF ControlInv, TypeOK
<1>1. \A q \in Procs \ {p} : Untouched(q)
    BY DEF Finish, Close, Untouched
<1>2. pc'[p] = outcome /\ req' = [req EXCEPT ![p] = Nil]
    BY DEF Finish, Close
<1>3. /\ StatusOf(p) = "busy"
      /\ StatusOf(p)' = IF outcome = "granted" THEN "granted" ELSE "refused"
    BY <1>2 DEF StatusOf, Running
<1>4. TriesOf(p)' = 0 /\ Answered(p, "ts")' = FALSE
    BY <1>2 DEF TriesOf, Answered, Trying
<1>5. \A q \in Procs \ {p} : /\ StatusOf(q)' = StatusOf(q)
                             /\ TriesOf(q)' = TriesOf(q)
                             /\ Answered(q, "ts")' = Answered(q, "ts")
    BY <1>1, UntouchedSeen
<1> QED BY <1>2, <1>3, <1>4, <1>5 DEF Contract!Return

(***************************************************************************)
(* The steps a caller of authenticate cannot see.                          *)
(***************************************************************************)
\* The cleanup pass: the call stays busy and no password has been tried.
LEMMA SweepUnseen ==
    ASSUME ControlInv, NEW p \in Procs, Sweep(p)
    PROVE  UNCHANGED Contract!vars
<1> USE DEF ControlInv, TypeOK
<1>1. /\ wall' = wall /\ lastAuth' = lastAuth /\ req' = req
      /\ \A q \in Procs \ {p} : Untouched(q)
    BY DEF Sweep, SweepUnread, SweepOpen, Inspect, RemoveEntry, ListFails, Close,
       files, history, Untouched
<1>2. /\ pc[p] \in {"sweep_ts", "sweep_fails", "inspect", "remove"}
      /\ pc'[p] \in {"sweep_ts", "sweep_fails", "inspect", "remove"}
    BY DEF Sweep, SweepUnread, SweepOpen, Sweeping, Inspect, RemoveEntry, ListFails,
       SweepOf, Close
<1>3. StatusOf(p)' = StatusOf(p)
    BY <1>2 DEF StatusOf, Running
<1>4. TriesOf(p)' = TriesOf(p) /\ Answered(p, "ts")' = Answered(p, "ts")
    BY <1>2 DEF TriesOf, Answered, Trying
<1> QED BY <1>1, <1>3, <1>4, UnseenStep

\* Looking for a cached authentication, in vain or not yet decided.
LEMMA LookupUnseen ==
    ASSUME ControlInv, NEW p \in Procs, SkipCache(p) \/ OpenCache(p) \/ CacheMiss(p)
    PROVE  UNCHANGED Contract!vars
<1> USE DEF ControlInv, TypeOK
<1>1. /\ wall' = wall /\ lastAuth' = lastAuth /\ req' = req
      /\ \A q \in Procs \ {p} : Untouched(q)
    BY DEF SkipCache, OpenCache, CacheMiss, Close, files, history, Untouched
<1>2. /\ pc[p] \in {"sweep_fails", "lookup"}
      /\ \/ pc'[p] = "lookup"
         \/ pc'[p] = "cooldown" /\ left'[p] = MaxTriesOf(req[p].cfg)
  <2>1. CASE SkipCache(p)
      BY <2>1 DEF SkipCache, Swept
  <2>2. CASE OpenCache(p)
      BY <2>2 DEF OpenCache, Swept
  <2>3. CASE CacheMiss(p)
      BY <2>3 DEF CacheMiss, Close
  <2> QED BY <2>1, <2>2, <2>3
<1>3. MaxTriesOf(req[p].cfg) \in Nat
    BY <1>2, RequestFacts DEF Control, Running
<1>4. StatusOf(p)' = StatusOf(p)
    BY <1>2 DEF StatusOf, Running
<1>5. Answered(p, "ts")' = Answered(p, "ts") /\ Answered(p, "fails")' = FALSE
    BY <1>2 DEF Answered
<1>6. TriesOf(p) = 0
    BY <1>2 DEF TriesOf, Trying
<1>7. TriesOf(p)' = 0
    BY <1>1, <1>2, <1>3, <1>5 DEF TriesOf, Trying
<1> QED BY <1>1, <1>4, <1>5, <1>6, <1>7, UnseenStep

\* Waiting out the cooldown, and the moment between PAM's acceptance and its
\* consequences: the attempts made stay as they were.
LEMMA WaitUnseen ==
    ASSUME ControlInv, NEW p \in Procs,
           NoCooldown(p) \/ OpenCooldown(p) \/ ReadCooldown(p) \/ Wake(p) \/ PamAccepts(p)
    PROVE  UNCHANGED Contract!vars
<1> USE DEF ControlInv, TypeOK
<1>1. /\ wall' = wall /\ lastAuth' = lastAuth /\ req' = req /\ left' = left
      /\ \A q \in Procs \ {p} : Untouched(q)
    BY DEF NoCooldown, OpenCooldown, ReadCooldown, Wake, PamAccepts, Close, files,
       history, Untouched
<1>2. /\ pc[p] \in {"cooldown", "pause", "sleep", "prompt"}
      /\ pc'[p] \in {"pause", "sleep", "prompt", "clear"}
    BY DEF NoCooldown, OpenCooldown, ReadCooldown, Wake, PamAccepts, Close
<1>3. StatusOf(p)' = StatusOf(p)
    BY <1>2 DEF StatusOf, Running
<1>4. /\ Answered(p, "ts")' = Answered(p, "ts")
      /\ Answered(p, "fails")' = Answered(p, "fails")
    BY <1>2 DEF Answered
<1>5. TriesOf(p)' = TriesOf(p)
    BY <1>1, <1>2, <1>4 DEF TriesOf, Trying
<1> QED BY <1>1, <1>3, <1>4, <1>5, UnseenStep

\* Recording PAM's answer: the refusal counted before is now off attempts_left.
LEMMA RecordUnseen ==
    ASSUME ControlInv, NEW p \in Procs, OpenStateFile(p) \/ WriteFailure(p)
    PROVE  UNCHANGED Contract!vars
<1> USE DEF ControlInv, TypeOK
<1>1. /\ wall' = wall /\ lastAuth' = lastAuth /\ req' = req
      /\ \A q \in Procs \ {p} : Untouched(q)
    BY DEF OpenStateFile, WriteFailure, Close, history, Untouched
<1>2. CASE OpenStateFile(p)
  <2>1. /\ pc[p] = "open" /\ pc'[p] = "write" /\ name' = name /\ left' = left
      BY <1>2 DEF OpenStateFile
  <2>2. StatusOf(p)' = StatusOf(p)
      BY <2>1 DEF StatusOf, Running
  <2>3. /\ Answered(p, "ts")' = Answered(p, "ts")
        /\ Answered(p, "fails")' = Answered(p, "fails")
      BY <2>1 DEF Answered
  <2>4. TriesOf(p)' = TriesOf(p)
      BY <1>1, <2>1, <2>3 DEF TriesOf, Trying
  <2> QED BY <1>1, <2>2, <2>3, <2>4, UnseenStep
<1>3. CASE WriteFailure(p)
  <2>1. /\ pc[p] = "write" /\ name[p].dir = "fails" /\ pc'[p] = "cooldown"
        /\ left'[p] = left[p] - 1
      BY <1>3 DEF WriteFailure, Close
  <2>2. /\ name[p] # Nil /\ left[p] \in Nat /\ MaxTriesOf(req[p].cfg) \in Nat
      BY <2>1, NilApart, RequestFacts DEF Control, Running
  <2>3. StatusOf(p)' = StatusOf(p)
      BY <2>1 DEF StatusOf, Running
  <2>4. /\ Answered(p, "ts")' = Answered(p, "ts")
        /\ Answered(p, "fails") /\ ~Answered(p, "fails")'
      BY <2>1, <2>2 DEF Answered
  <2>5. TriesOf(p)' = TriesOf(p)
      BY <1>1, <2>1, <2>2, <2>4 DEF TriesOf, Trying
  <2> QED BY <1>1, <2>3, <2>4, <2>5, UnseenStep
<1> QED BY <1>2, <1>3

-----------------------------------------------------------------------------
(* The steps the contract is about *)

\* A refused password is counted, and there was one left to try.
LEMMA RejectSeen ==
    ASSUME ControlInv, NEW p \in Procs, PamRejects(p)
    PROVE  Contract!Reject(p)
<1> USE DEF ControlInv, TypeOK
<1>1. /\ wall' = wall /\ lastAuth' = lastAuth /\ req' = req
      /\ \A q \in Procs \ {p} : Untouched(q)
    BY DEF PamRejects, files, Untouched
<1>2. /\ pc[p] = "prompt" /\ pc'[p] = "open" /\ left'[p] = left[p]
      /\ name'[p] = FailName(p)
    BY DEF PamRejects
<1>3. /\ req[p] \in Requests /\ ~req[p].nopasswd /\ left[p] \in Nat /\ left[p] >= 1
      /\ FailName(p) \in Names
    BY <1>2, RequestFacts DEF Control, Running, Trying
<1>4. MaxTriesOf(req[p].cfg) \in Nat
    BY <1>3, RequestFacts
<1>5. StatusOf(p) = "busy" /\ StatusOf(p)' = "busy"
    BY <1>2 DEF StatusOf, Running
<1>6. /\ Answered(p, "ts") = FALSE /\ Answered(p, "fails") = FALSE
      /\ Answered(p, "ts")' = FALSE /\ Answered(p, "fails")' = TRUE
    BY <1>2, <1>3, NilApart DEF Answered, FailName
<1>7. TriesOf(p) = MaxTriesOf(req[p].cfg) - left[p]
    BY <1>2, <1>3, <1>4, <1>6 DEF TriesOf, Trying
<1>8. TriesOf(p)' = TriesOf(p) + 1
    BY <1>1, <1>2, <1>3, <1>4, <1>6, <1>7 DEF TriesOf, Trying
<1>9. \A q \in Procs \ {p} : /\ StatusOf(q)' = StatusOf(q)
                             /\ TriesOf(q)' = TriesOf(q)
                             /\ Answered(q, "ts")' = Answered(q, "ts")
    BY <1>1, UntouchedSeen
<1>10. Contract!MayTry(p)
    BY <1>3, <1>4, <1>5, <1>6, <1>7 DEF Contract!MayTry
<1> QED BY <1>1, <1>5, <1>6, <1>8, <1>9, <1>10 DEF Contract!Reject

\* PAM's acceptance becomes the session's last authentication.
LEMMA AcceptSeen ==
    ASSUME ControlInv, NEW p \in Procs, ClearFailures(p)
    PROVE  Contract!Accept(p)
<1> USE DEF ControlInv, TypeOK
<1>1. /\ wall' = wall /\ req' = req
      /\ lastAuth' = [lastAuth EXCEPT ![<<req[p].user, req[p].sid>>] = wall]
      /\ \A q \in Procs \ {p} : Untouched(q)
    BY DEF ClearFailures, Untouched
<1>2. /\ pc[p] = "clear" /\ pc'[p] = "open" /\ left'[p] = left[p]
      /\ name'[p] = CacheName(p)
    BY DEF ClearFailures
<1>3. /\ req[p] \in Requests /\ ~req[p].nopasswd /\ left[p] \in Nat /\ left[p] >= 1
      /\ CacheName(p) \in Names
    BY <1>2, RequestFacts DEF Control, Running, Trying
<1>4. MaxTriesOf(req[p].cfg) \in Nat
    BY <1>3, RequestFacts
<1>5. StatusOf(p) = "busy" /\ StatusOf(p)' = "busy"
    BY <1>2 DEF StatusOf, Running
<1>6. /\ Answered(p, "ts") = FALSE /\ Answered(p, "fails") = FALSE
      /\ Answered(p, "ts")' = TRUE /\ Answered(p, "fails")' = FALSE
    BY <1>2, <1>3, NilApart DEF Answered, CacheName
<1>7. TriesOf(p) = MaxTriesOf(req[p].cfg) - left[p]
    BY <1>2, <1>3, <1>4, <1>6 DEF TriesOf, Trying
<1>8. TriesOf(p)' = TriesOf(p)
    BY <1>1, <1>2, <1>3, <1>4, <1>6, <1>7 DEF TriesOf, Trying
<1>9. \A q \in Procs \ {p} : /\ StatusOf(q)' = StatusOf(q)
                             /\ TriesOf(q)' = TriesOf(q)
                             /\ Answered(q, "ts")' = Answered(q, "ts")
    BY <1>1, UntouchedSeen
<1>10. Contract!MayTry(p)
    BY <1>3, <1>4, <1>5, <1>6, <1>7 DEF Contract!MayTry
<1> QED BY <1>1, <1>5, <1>6, <1>8, <1>9, <1>10
        DEF Contract!Accept, Contract!SessionOf

\* A new invocation is a new call.
LEMMA CallSeen ==
    ASSUME ControlInv, NEW p \in Procs, Begin(p)
    PROVE  \E r \in Requests : Contract!Call(p, r)
<1> USE DEF ControlInv, TypeOK
<1>1. PICK r \in Requests : req' = [req EXCEPT ![p] = r]
    BY DEF Begin
<1>2. /\ wall' = wall /\ lastAuth' = lastAuth
      /\ pc[p] \in Ended /\ pc'[p] = "sweep_ts"
      /\ \A q \in Procs \ {p} : Untouched(q)
    BY <1>1 DEF Begin, files, history, Untouched
<1>3. StatusOf(p) # "busy" /\ StatusOf(p)' = "busy"
    BY <1>2 DEF StatusOf, Running, Ended
<1>4. /\ TriesOf(p) = 0 /\ TriesOf(p)' = 0
      /\ Answered(p, "ts") = FALSE /\ Answered(p, "ts")' = FALSE
    BY <1>2 DEF TriesOf, Answered, Trying, Ended
<1>5. \A q \in Procs \ {p} : /\ StatusOf(q)' = StatusOf(q)
                             /\ TriesOf(q)' = TriesOf(q)
                             /\ Answered(q, "ts")' = Answered(q, "ts")
    BY <1>2, UntouchedSeen
<1> QED BY <1>1, <1>2, <1>3, <1>4, <1>5 DEF Contract!Call

\* Access is granted: by the rule, by the cache, or on PAM's acceptance.
LEMMA GrantSeen ==
    ASSUME IInv, NEW p \in Procs, GrantNoPasswd(p) \/ CacheHit(p) \/ WriteCache(p),
           [Next]_vars
    PROVE  Contract!GrantFree(p) \/ Contract!GrantCached(p) \/ Contract!GrantFresh(p)
<1>a. ControlInv
    BY DEF IInv
<1> USE <1>a DEF ControlInv, TypeOK
<1>1. /\ Finish(p, "granted") /\ wall' = wall /\ lastAuth' = lastAuth
      /\ pc[p] \in {"sweep_fails", "lookup", "write"}
    BY DEF GrantNoPasswd, CacheHit, WriteCache, Swept, history
<1>2. StatusOf(p) = "busy" /\ Contract!Return(p, "granted")
    BY <1>1, ReturnStep DEF Running
<1>3. CASE GrantNoPasswd(p)
    BY <1>2, <1>3 DEF GrantNoPasswd, Contract!GrantFree
<1>4. CASE CacheHit(p)
  <2>1. pc[p] = "lookup" /\ pc'[p] = "granted"
      BY <1>1, <1>4 DEF CacheHit, Finish, Close
  <2>2. Earned(p) /\ ~req[p].nopasswd /\ req[p] \in Requests
      BY <2>1, GrantStep DEF Control, Running
  <2>3. /\ lastAuth[<<req[p].user, req[p].sid>>] # Nil
        /\ wall - lastAuth[<<req[p].user, req[p].sid>>] < LookupWindow(ModeOf(req[p].cfg))
      BY <2>1, <2>2 DEF Earned, Mode
  <2>4. Answered(p, "ts") = FALSE /\ TriesOf(p) = 0
      BY <2>1 DEF Answered, TriesOf, Trying
  <2>5. Contract!Cached(req[p])
      BY <2>2, <2>3 DEF Contract!Cached, Contract!SessionOf
  <2> QED BY <1>2, <2>2, <2>4, <2>5 DEF Contract!GrantCached
<1>5. CASE WriteCache(p)
  <2>1. pc[p] = "write" /\ name[p].dir = "ts" /\ name[p] # Nil
      BY <1>5, NilApart DEF WriteCache, Control
  <2>2. Answered(p, "ts") = TRUE
      BY <2>1 DEF Answered
  <2> QED BY <1>2, <2>2 DEF Contract!GrantFresh
<1> QED BY <1>3, <1>4, <1>5

\* Every other end of a call is a refusal.
LEMMA RefuseSeen ==
    ASSUME ControlInv, NEW p \in Procs,
           NoPassword(p) \/ WriteLastFailure(p) \/ FlushFails(p) \/ Abort(p)
    PROVE  Contract!Refuse(p)
<1>1. PICK outcome \in {"denied", "failed"} : Finish(p, outcome)
    BY DEF NoPassword, WriteLastFailure, FlushFails, Abort
<1>2. wall' = wall /\ lastAuth' = lastAuth /\ pc[p] \in Running
    BY DEF NoPassword, WriteLastFailure, FlushFails, Abort, history, Running
<1>3. StatusOf(p) = "busy" /\ Contract!Return(p, "refused")
    BY <1>1, <1>2, ReturnStep
<1> QED BY <1>3 DEF Contract!Refuse

\* Every step is one the contract allows, or none to its eyes.
LEMMA NextContract ==
    ASSUME IInv, [Next]_vars, wall <= wall'
    PROVE  [Contract!Next]_(Contract!vars)
<1>a. ControlInv
    BY DEF IInv
<1>1. ASSUME NEW p \in Procs, Begin(p) PROVE Contract!Next
    BY <1>a, <1>1, CallSeen DEF Contract!Next
<1>2. ASSUME NEW p \in Procs, Sweep(p) PROVE UNCHANGED Contract!vars
    BY <1>a, <1>2, SweepUnseen
<1>3. ASSUME NEW p \in Procs, Decide(p)
      PROVE  Contract!Next \/ UNCHANGED Contract!vars
    BY <1>a, <1>3, LookupUnseen, GrantSeen DEF Decide, Contract!Next, Contract!Decide
<1>4. ASSUME NEW p \in Procs, Prompting(p)
      PROVE  Contract!Next \/ UNCHANGED Contract!vars
    BY <1>a, <1>4, WaitUnseen, RejectSeen, AcceptSeen, RefuseSeen
    DEF Prompting, Contract!Next, Contract!Decide
<1>5. ASSUME NEW p \in Procs, Recording(p) \/ FlushFails(p) \/ Abort(p)
      PROVE  Contract!Next \/ UNCHANGED Contract!vars
    BY <1>a, <1>5, RecordUnseen, GrantSeen, RefuseSeen
    DEF Recording, Contract!Next, Contract!Decide
<1>6. ASSUME Tick \/ \E t \in ClockSteps : SetClock(t) PROVE Contract!Next
  <2>1. \A q \in Procs : Untouched(q)
      BY <1>6 DEF Tick, SetClock, Untouched
  <2>2. \A q \in Procs : /\ StatusOf(q)' = StatusOf(q)
                          /\ TriesOf(q)' = TriesOf(q)
                          /\ Answered(q, "ts")' = Answered(q, "ts")
      BY <2>1, UntouchedSeen
  <2>3. wall \in Nat /\ wall' \in Nat
      BY <1>a, NextControl DEF ControlInv, TypeOK
  <2>4. wall' # wall /\ req' = req /\ lastAuth' = lastAuth
      BY <1>6, <2>3 DEF Tick, SetClock, history
  <2> QED BY <2>2, <2>3, <2>4 DEF Contract!Next, Contract!Tick
<1>7. ASSUME UNCHANGED vars PROVE UNCHANGED Contract!vars
  <2>1. \A q \in Procs : Untouched(q)
      BY <1>7 DEF vars, Untouched
  <2>2. \A q \in Procs : /\ StatusOf(q)' = StatusOf(q)
                          /\ TriesOf(q)' = TriesOf(q)
                          /\ Answered(q, "ts")' = Answered(q, "ts")
      BY <2>1, UntouchedSeen
  <2> QED BY <1>7, <2>2 DEF vars, Contract!vars
<1> QED BY <1>1, <1>2, <1>3, <1>4, <1>5, <1>6, <1>7 DEF Next, Step, Rest

\* The contract's state before the first invocation.
LEMMA InitContract == Init => Contract!Init
<1> SUFFICES ASSUME Init PROVE Contract!Init
    OBVIOUS
<1>1. \A p \in Procs : pc[p] = "idle"
    BY DEF Init
<1>2. ASSUME NEW p \in Procs PROVE StatusOf(p) = "none"
    BY <1>1 DEF StatusOf, Running
<1>3. \A p \in Procs : TriesOf(p) = 0 /\ Answered(p, "ts") = FALSE
    BY <1>1 DEF TriesOf, Answered, Trying
<1> QED BY <1>2, <1>3 DEF Init, Contract!Init

\* authenticate, with its shared files, its cleanup pass and its cooldowns, does
\* nothing that its contract does not allow, however invocations overlap, die
\* or fail.
THEOREM ContractImplemented == Spec /\ ClockForward => ImplementsContract
<1>1. Init => Contract!Init
    BY InitContract
<1>2. IInv /\ [Next]_vars /\ [wall <= wall']_vars => [Contract!Next]_(Contract!vars)
  <2> SUFFICES ASSUME IInv, [Next]_vars, [wall <= wall']_vars
               PROVE  [Contract!Next]_(Contract!vars)
      OBVIOUS
  <2>1. wall <= wall'
      BY DEF IInv, ControlInv, TypeOK, vars
  <2> QED BY <2>1, NextContract
<1> QED BY <1>1, <1>2, Inductive, PTL
        DEF Spec, ClockForward, ImplementsContract, Contract!Spec
=============================================================================
