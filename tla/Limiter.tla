------------------------------ MODULE Limiter -------------------------------
(***************************************************************************)
(* The limiter of login attempts (internal/auth/auth.go) under postLogin   *)
(* (internal/web/server.go), for the clients that share one address.       *)
(* Allow and Reset are critical sections; between them the password and    *)
(* the code are verified, which takes time, and other clients go on.       *)
(*                                                                         *)
(* An attempt is its date and its number; the order of the slice does not  *)
(* matter.  Whether the credentials are right is a free choice.            *)
(***************************************************************************)
EXTENDS Integers, FiniteSets

CONSTANTS
    Clients,
    Max,            \* attempts allowed in a window: 5
    Window,         \* fifteen minutes
    MaxTime,        \* bound: ticks
    MaxAttempts     \* bound: attempts that are allowed

ASSUME LimiterAssumption ==
    /\ IsFiniteSet(Clients)
    /\ Max \in Nat \ {0} /\ Window \in Nat \ {0}
    /\ MaxTime \in Nat /\ MaxAttempts \in Nat

VARIABLES
    now,
    attempts,   \* l.attempts of the address
    pc,         \* client -> "idle" or "verify"
    allowed,    \* all the attempts that were allowed
    resets      \* the dates at which the attempts were forgotten, numbered

vars == <<now, attempts, pc, allowed, resets>>

Init ==
    /\ now = 0
    /\ attempts = {} /\ allowed = {} /\ resets = {}
    /\ pc = [c \in Clients |-> "idle"]

Tick ==
    /\ now < MaxTime
    /\ now' = now + 1
    /\ UNCHANGED <<attempts, pc, allowed, resets>>

\* What Allow keeps: the attempts after the cutoff.
KeptMutEdge == {a \in attempts : a[1] > now - Window + 1}

Kept == {a \in attempts : a[1] > now - Window}

AllowMutExpiry(c) ==
    /\ pc[c] = "idle"
    /\ Cardinality(Kept) < Max
    /\ Cardinality(allowed) < MaxAttempts
    /\ LET a == <<now + Window, Cardinality(allowed)>>
       IN  attempts' = Kept \cup {a} /\ allowed' = allowed \cup {a}
    /\ pc' = [pc EXCEPT ![c] = "verify"]
    /\ UNCHANGED <<now, resets>>

Allow(c) ==
    /\ pc[c] = "idle"
    /\ Cardinality(Kept) < Max
    /\ Cardinality(allowed) < MaxAttempts
    /\ LET a == <<now, Cardinality(allowed)>>
       IN  attempts' = Kept \cup {a} /\ allowed' = allowed \cup {a}
    /\ pc' = [pc EXCEPT ![c] = "verify"]
    /\ UNCHANGED <<now, resets>>

\* A refused attempt is not recorded.
RefuseMutRecord(c) ==
    /\ pc[c] = "idle"
    /\ Cardinality(Kept) >= Max
    /\ attempts' = {<<now, a[2]>> : a \in Kept}
    /\ UNCHANGED <<now, pc, allowed, resets>>

Refuse(c) ==
    /\ pc[c] = "idle"
    /\ Cardinality(Kept) >= Max
    /\ attempts' = Kept
    /\ UNCHANGED <<now, pc, allowed, resets>>

\* The form is not readable or its token is not good: the limiter is not asked.
Reject(c) ==
    /\ pc[c] = "idle"
    /\ UNCHANGED vars

\* The user, the password or the code is wrong, or the session not created.
LoginFails(c) ==
    /\ pc[c] = "verify"
    /\ pc' = [pc EXCEPT ![c] = "idle"]
    /\ UNCHANGED <<now, attempts, allowed, resets>>

Forget ==
    /\ attempts' = {}
    /\ resets' = resets \cup {<<now, Cardinality(resets)>>}

\* Reset: the attempts of all the clients of the address are forgotten.
LoginSucceeds(c) ==
    /\ pc[c] = "verify"
    /\ Forget
    /\ pc' = [pc EXCEPT ![c] = "idle"]
    /\ UNCHANGED <<now, allowed>>

\* The limiter is in memory.
Restart ==
    /\ attempts # {}
    /\ Forget
    /\ pc' = [c \in Clients |-> "idle"]
    /\ UNCHANGED <<now, allowed>>

Next ==
    \/ Tick
    \/ \E c \in Clients :
        \/ Reject(c) \/ Allow(c) \/ Refuse(c)
        \/ LoginFails(c) \/ LoginSucceeds(c)
    \/ Restart

Spec == Init /\ [][Next]_vars

-----------------------------------------------------------------------------
(* Properties.                                                             *)

TypeOK ==
    /\ now \in 0..MaxTime
    /\ allowed \subseteq (0..now) \X (0..(MaxAttempts - 1))
    /\ attempts \subseteq (0..now) \X (0..(MaxAttempts - 1))
    /\ pc \in [Clients -> {"idle", "verify"}]
    /\ resets \subseteq (0..now) \X Nat

\* Those of the last Window ticks.
Recent(s) == {e \in s : now - e[1] < Window}

\* However the clients of an address interleave, the attempts allowed in any
\* stretch of a window are at most Max, and Max more for each time they were
\* forgotten in it: by a login that succeeded, or by a restart.
FewTrials ==
    Cardinality(Recent(allowed)) <= Max * (1 + Cardinality(Recent(resets)))

\* An address is refused only for attempts that were allowed less than a
\* window ago: trying again while refused does not put the end off, and after
\* fifteen minutes without an attempt (what the page tells the user to wait)
\* the address is always let in.
LockoutEnds ==
    Cardinality(Kept) >= Max => Cardinality(Recent(allowed)) >= Max

-----------------------------------------------------------------------------
(* The strengthening that makes the invariants inductive.                  *)

Since(s, t) == {e \in s : e[1] > t}

Numbered(s) ==
    IsFiniteSet(s) /\ s \subseteq (0..now) \X (0..(Cardinality(s) - 1))

\* From any date of the window on, an attempt that was allowed is still
\* counted, or is one of the Max that a reset since then forgot.
Accounted ==
    \A t \in (now - Window)..now :
        Cardinality(Since(allowed, t)) <=
            Cardinality(Since(attempts, t)) + Max * Cardinality(Since(resets, t))

IInv ==
    /\ now \in 0..MaxTime
    /\ pc \in [Clients -> {"idle", "verify"}]
    /\ Numbered(allowed) /\ Cardinality(allowed) <= MaxAttempts
    /\ Numbered(resets)
    /\ attempts \subseteq allowed /\ Cardinality(attempts) <= Max
    /\ Accounted
=============================================================================
