---------------------------- MODULE AuthContract ----------------------------
(***************************************************************************)
(* What authenticate (auth.rs) promises its caller, without the files it   *)
(* keeps the promise with: an invocation gets its command allowed by a     *)
(* rule without password, or because the user authenticated in the same    *)
(* session recently enough, or because PAM has just accepted the password  *)
(* within the attempts allowed.  Anything may make it refuse.              *)
(*                                                                         *)
(* OdusAuth implements this specification with its state files, Odus       *)
(* composes it with the rest of main.                                      *)
(***************************************************************************)
EXTENDS Integers

CONSTANTS
    Procs,          \* the callers of authenticate
    Users, Sids,    \* real users and login session ids
    Requests,       \* what it may be called with: [user, sid, nopasswd, ...]
    Window,         \* for each request, how long an authentication is good for
    Tries,          \* for each request, how many passwords may be tried
    Nil             \* no request, never

VARIABLES
    wall,       \* the wall clock
    status,     \* of each caller: none, busy, granted or refused
    call,       \* the request being decided
    tries,      \* passwords PAM has refused in this call
    fresh,      \* PAM has accepted the password in this call
    lastAuth    \* when each user last authenticated in each session

vars == <<wall, status, call, tries, fresh, lastAuth>>

SessionOf(r) == <<r.user, r.sid>>

\* The user has authenticated in this session less than a window ago.
Cached(r) ==
    lastAuth[SessionOf(r)] # Nil /\ wall - lastAuth[SessionOf(r)] < Window[r]

Return(p, outcome) ==
    /\ status' = [status EXCEPT ![p] = outcome]
    /\ call' = [call EXCEPT ![p] = Nil]
    /\ tries' = [tries EXCEPT ![p] = 0]
    /\ fresh' = [fresh EXCEPT ![p] = FALSE]
    /\ UNCHANGED <<wall, lastAuth>>

-----------------------------------------------------------------------------
Call(p, r) ==
    /\ status[p] # "busy"
    /\ status' = [status EXCEPT ![p] = "busy"]
    /\ call' = [call EXCEPT ![p] = r]
    /\ UNCHANGED <<wall, tries, fresh, lastAuth>>

\* A password may be tried: the rule wants one, and attempts are left.
MayTry(p) ==
    /\ status[p] = "busy"
    /\ ~call[p].nopasswd
    /\ ~fresh[p]
    /\ tries[p] < Tries[call[p]]

Reject(p) ==
    /\ MayTry(p)
    /\ tries' = [tries EXCEPT ![p] = @ + 1]
    /\ UNCHANGED <<wall, status, call, fresh, lastAuth>>

Accept(p) ==
    /\ MayTry(p)
    /\ fresh' = [fresh EXCEPT ![p] = TRUE]
    /\ lastAuth' = [lastAuth EXCEPT ![SessionOf(call[p])] = wall]
    /\ UNCHANGED <<wall, status, call, tries>>

GrantFree(p) ==
    /\ status[p] = "busy"
    /\ call[p].nopasswd
    /\ Return(p, "granted")

\* Decided before the first prompt, never after a refused password.
GrantCached(p) ==
    /\ status[p] = "busy"
    /\ ~call[p].nopasswd
    /\ ~fresh[p]
    /\ tries[p] = 0
    /\ Cached(call[p])
    /\ Return(p, "granted")

GrantFresh(p) ==
    /\ status[p] = "busy"
    /\ fresh[p]
    /\ Return(p, "granted")

\* Attempts exhausted, killed, or an error: even after PAM has accepted.
Refuse(p) ==
    /\ status[p] = "busy"
    /\ Return(p, "refused")

\* Time passes, or the clock is set ahead.
Tick ==
    /\ wall' \in Nat
    /\ wall' > wall
    /\ UNCHANGED <<status, call, tries, fresh, lastAuth>>

-----------------------------------------------------------------------------
Init ==
    /\ wall = 0
    /\ status = [p \in Procs |-> "none"]
    /\ call = [p \in Procs |-> Nil]
    /\ tries = [p \in Procs |-> 0]
    /\ fresh = [p \in Procs |-> FALSE]
    /\ lastAuth = [k \in Users \X Sids |-> Nil]

Decide(p) ==
    \/ Reject(p)
    \/ Accept(p)
    \/ GrantFree(p)
    \/ GrantCached(p)
    \/ GrantFresh(p)
    \/ Refuse(p)

Next ==
    \/ \E p \in Procs : Decide(p) \/ \E r \in Requests : Call(p, r)
    \/ Tick

Spec == Init /\ [][Next]_vars
=============================================================================
