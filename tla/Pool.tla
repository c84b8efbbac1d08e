-------------------------------- MODULE Pool --------------------------------
(***************************************************************************)
(* The SSH connection pool (internal/fleet/pool.go) and the call that uses *)
(* it (Client.run in internal/fleet/fleet.go), for ONE pool key: the keys  *)
(* share nothing but the mutex, and every critical section of p.mu is one  *)
(* step here.                                                              *)
(*                                                                         *)
(* A caller is a goroutine inside Client.run.  It gets a connection (from  *)
(* the pool, or by dialling outside the mutex), takes a slot of that       *)
(* connection's semaphore, opens a session and waits for the command.  A   *)
(* session that cannot be opened drops the pool's connection and is tried  *)
(* once more, on whatever connection get returns next.  Neither the        *)
(* handshake nor NewSession has a deadline: a peer that accepts and then   *)
(* says nothing keeps its caller, and the slot it holds.                   *)
(***************************************************************************)
EXTENDS Naturals, FiniteSets

CONSTANTS
    Callers,        \* goroutines that may be inside Client.run
    Conns,          \* identities of *conn values; recycled once unreferenced
    None,           \* no connection
    MaxSessions,    \* maxSessions: capacity of a connection's semaphore
    MaxFaults       \* bound: faults of the network or of sshd in a behaviour

ASSUME PoolAssumption ==
    /\ IsFiniteSet(Callers)
    /\ None \notin Conns
    /\ MaxSessions \in Nat \ {0}
    /\ MaxFaults \in Nat

VARIABLES
    entry,      \* p.conns[key], None when the key is absent
    client,     \* conn -> is its ssh.Client absent, "open" or "closed"
    dead,       \* conn -> conn.dead
    watched,    \* conn -> is the client.Wait goroutine of get still to run
    idle,       \* conn -> time.Since(conn.last) > idleTTL
    sem,        \* conn -> number of elements in the channel conn.sem
    pc,         \* caller -> where it is in run
    conn,       \* caller -> its connection: the local pc of run, client of get
    held,       \* caller -> the connection whose semaphore its defer releases
    attempt,    \* caller -> 1, or 2 once run is in its retry branch
    silent,     \* callers whose handshake or NewSession gets no answer
    faults      \* environment faults so far (history, bounded by MaxFaults)

vars == <<entry, client, dead, watched, idle, sem,
          pc, conn, held, attempt, silent, faults>>
poolVars == <<entry, client, dead, watched, idle>>
callVars == <<pc, conn, held, attempt, silent>>

PCs == {"idle", "get", "dial", "install", "acquire", "open", "drop", "output"}

Init ==
    /\ entry = None
    /\ client = [c \in Conns |-> "none"]
    /\ dead = [c \in Conns |-> FALSE]
    /\ watched = [c \in Conns |-> FALSE]
    /\ idle = [c \in Conns |-> FALSE]
    /\ sem = [c \in Conns |-> 0]
    /\ pc = [p \in Callers |-> "idle"]
    /\ conn = [p \in Callers |-> None]
    /\ held = [p \in Callers |-> None]
    /\ attempt = [p \in Callers |-> 1]
    /\ silent = {}
    /\ faults = 0

-----------------------------------------------------------------------------
(* How a call ends: the deferred receive gives the slot back to the        *)
(* semaphore it was taken from, in the retry branch too (the inner pc      *)
(* shadows the outer one that the deferred function captured).             *)

ReleaseMutInner(p) ==
    sem' = IF held[p] = None THEN sem ELSE [sem EXCEPT ![conn[p]] = @ - 1]

ReleaseMutLeak(p) ==
    sem' = IF held[p] = None \/ attempt[p] = 2 THEN sem
           ELSE [sem EXCEPT ![held[p]] = @ - 1]

Release(p) ==
    sem' = IF held[p] = None THEN sem ELSE [sem EXCEPT ![held[p]] = @ - 1]

Return(p) ==
    /\ Release(p)
    /\ pc' = [pc EXCEPT ![p] = "idle"]
    /\ conn' = [conn EXCEPT ![p] = None]
    /\ held' = [held EXCEPT ![p] = None]
    /\ attempt' = [attempt EXCEPT ![p] = 1]
    /\ silent' = silent \ {p}

Goto(p, where) ==
    /\ pc' = [pc EXCEPT ![p] = where]
    /\ UNCHANGED <<held, attempt, silent>>

\* Where run continues once get has returned: the retry branch opens its
\* session at once, without passing by the semaphore of the new connection.
AfterGetMutSkip(p) == "open"

AfterGet(p) == IF attempt[p] = 1 THEN "acquire" ELSE "open"

-----------------------------------------------------------------------------
(* pool.get: lookup under the mutex, dial without it, install under it.    *)

Usable == entry # None /\ ~dead[entry]

Call(p) ==
    /\ pc[p] = "idle"
    /\ Goto(p, "get")
    /\ UNCHANGED <<poolVars, sem, conn, faults>>

GetHit(p) ==
    /\ pc[p] = "get" /\ Usable
    /\ conn' = [conn EXCEPT ![p] = entry]
    /\ idle' = [idle EXCEPT ![entry] = FALSE]
    /\ Goto(p, AfterGet(p))
    /\ UNCHANGED <<entry, client, dead, watched, sem, faults>>

GetMiss(p) ==
    /\ pc[p] = "get" /\ ~Usable
    /\ Goto(p, "dial")
    /\ UNCHANGED <<poolVars, sem, conn, faults>>

\* A *conn nobody can reach any more: its identity may be used again.
Unreferenced(c) ==
    /\ client[c] # "open" /\ c # entry /\ ~watched[c]
    /\ \A p \in Callers : conn[p] # c /\ held[p] # c

DialOK(p) ==
    /\ pc[p] = "dial" /\ p \notin silent
    /\ \E c \in Conns :
        /\ Unreferenced(c)
        /\ client' = [client EXCEPT ![c] = "open"]
        /\ dead' = [dead EXCEPT ![c] = FALSE]
        /\ idle' = [idle EXCEPT ![c] = FALSE]
        /\ sem' = [sem EXCEPT ![c] = 0]
        /\ conn' = [conn EXCEPT ![p] = c]
    /\ Goto(p, "install")
    /\ UNCHANGED <<entry, watched, faults>>

DialFails(p) ==
    /\ pc[p] = "dial" /\ p \notin silent
    /\ Return(p)
    /\ UNCHANGED <<poolVars, faults>>

\* Another goroutine installed a live connection meanwhile: close ours.
InstallLoses(p) ==
    /\ pc[p] = "install" /\ Usable
    /\ client' = [client EXCEPT ![conn[p]] = "closed"]
    /\ conn' = [conn EXCEPT ![p] = entry]
    /\ idle' = [idle EXCEPT ![entry] = FALSE]
    /\ Goto(p, AfterGet(p))
    /\ UNCHANGED <<entry, dead, watched, sem, faults>>

InstallWinsMutUnchecked(p) ==
    /\ pc[p] = "install"
    /\ entry' = conn[p]
    /\ watched' = [watched EXCEPT ![conn[p]] = TRUE]
    /\ Goto(p, AfterGet(p))
    /\ UNCHANGED <<client, dead, idle, sem, conn, faults>>

InstallWins(p) ==
    /\ pc[p] = "install" /\ ~Usable
    /\ entry' = conn[p]
    /\ watched' = [watched EXCEPT ![conn[p]] = TRUE]
    /\ Goto(p, AfterGet(p))
    /\ UNCHANGED <<client, dead, idle, sem, conn, faults>>

-----------------------------------------------------------------------------
(* The rest of Client.run.                                                 *)

AcquireMutUnbounded(p) ==
    /\ pc[p] = "acquire"
    /\ sem' = [sem EXCEPT ![conn[p]] = @ + 1]
    /\ held' = [held EXCEPT ![p] = conn[p]]
    /\ pc' = [pc EXCEPT ![p] = "open"]
    /\ UNCHANGED <<poolVars, conn, attempt, silent, faults>>

Acquire(p) ==
    /\ pc[p] = "acquire" /\ sem[conn[p]] < MaxSessions
    /\ sem' = [sem EXCEPT ![conn[p]] = @ + 1]
    /\ held' = [held EXCEPT ![p] = conn[p]]
    /\ pc' = [pc EXCEPT ![p] = "open"]
    /\ UNCHANGED <<poolVars, conn, attempt, silent, faults>>

\* ctx.Done() in the select that waits for a slot.
CtxDone(p) ==
    /\ pc[p] = "acquire"
    /\ Return(p)
    /\ UNCHANGED <<poolVars, faults>>

OpenOK(p) ==
    /\ pc[p] = "open" /\ client[conn[p]] = "open" /\ p \notin silent
    /\ Goto(p, "output")
    /\ UNCHANGED <<poolVars, sem, conn, faults>>

\* NewSession fails on a closed connection, were it waiting there for a peer
\* that says nothing, or because sshd refuses the channel on an open one,
\* which is a fault of the environment.  The first failure leads to
\* pool.drop, the second one ends the call.
OpenFails(p) ==
    /\ pc[p] = "open"
    /\ \/ client[conn[p]] = "closed" /\ UNCHANGED faults
       \/ /\ client[conn[p]] = "open" /\ p \notin silent
          /\ faults < MaxFaults
          /\ faults' = faults + 1
    /\ IF attempt[p] = 1
       THEN /\ pc' = [pc EXCEPT ![p] = "drop"]
            /\ silent' = silent \ {p}
            /\ UNCHANGED <<sem, conn, held, attempt>>
       ELSE Return(p)
    /\ UNCHANGED poolVars

\* pool.drop closes and removes the entry of the KEY, whichever connection
\* that is by now; run then enters its retry branch.
Drop(p) ==
    /\ pc[p] = "drop"
    /\ entry' = None
    /\ IF entry = None
       THEN UNCHANGED <<dead, client>>
       ELSE /\ dead' = [dead EXCEPT ![entry] = TRUE]
            /\ client' = [client EXCEPT ![entry] = "closed"]
    /\ pc' = [pc EXCEPT ![p] = "get"]
    /\ attempt' = [attempt EXCEPT ![p] = 2]
    /\ UNCHANGED <<watched, idle, sem, conn, held, silent, faults>>

\* The command ends: with its output, killed because the context ended, with
\* an exit code, or cut by the loss of the connection.  run maps each to an
\* error text or to the output; nothing else of its state depends on which.
OutputEnds(p) ==
    /\ pc[p] = "output"
    /\ Return(p)
    /\ UNCHANGED <<poolVars, faults>>

-----------------------------------------------------------------------------
(* The pool's own goroutines, and the world outside.                       *)

\* The peer stops answering while a caller waits for it: in the handshake,
\* which runs on a plain net.Conn once DialContext has returned, or in
\* NewSession.  Neither looks at the context of run.
Silence(p) ==
    /\ p \notin silent /\ faults < MaxFaults
    /\ \/ pc[p] = "dial"
       \/ pc[p] = "open" /\ client[conn[p]] = "open"
    /\ silent' = silent \cup {p}
    /\ faults' = faults + 1
    /\ UNCHANGED <<poolVars, sem, pc, conn, held, attempt>>

\* The peer answers after all, or its end of the TCP connection goes.
Answers(p) ==
    /\ p \in silent
    /\ silent' = silent \ {p}
    /\ UNCHANGED <<poolVars, sem, pc, conn, held, attempt, faults>>

\* The goroutine get leaves behind: client.Wait() returned.
Watcher(c) ==
    /\ watched[c] /\ client[c] = "closed"
    /\ dead' = [dead EXCEPT ![c] = TRUE]
    /\ watched' = [watched EXCEPT ![c] = FALSE]
    /\ UNCHANGED <<entry, client, idle, sem, callVars, faults>>

\* pool.reap, on each turn of Collector.Run.
Reap ==
    /\ entry # None /\ (dead[entry] \/ idle[entry])
    /\ client' = [client EXCEPT ![entry] = "closed"]
    /\ entry' = None
    /\ UNCHANGED <<dead, watched, idle, sem, callVars, faults>>

ConnLost(c) ==
    /\ client[c] = "open" /\ faults < MaxFaults
    /\ client' = [client EXCEPT ![c] = "closed"]
    /\ faults' = faults + 1
    /\ UNCHANGED <<entry, dead, watched, idle, sem, callVars>>

\* idleTTL goes by without a get: conn.last is only written by get, so this
\* happens under a long command, or a long wait for a slot or for a silent
\* peer, too.  Opening a session that is answered, or taking a slot that is
\* free, only lasts that long by a fault.
Underway(p) ==
    conn[p] = entry /\ \/ pc[p] = "open" /\ p \notin silent
                       \/ pc[p] = "acquire" /\ sem[entry] < MaxSessions

TTLElapses ==
    /\ entry # None /\ ~idle[entry]
    /\ idle' = [idle EXCEPT ![entry] = TRUE]
    /\ IF \E p \in Callers : Underway(p)
       THEN faults < MaxFaults /\ faults' = faults + 1
       ELSE UNCHANGED faults
    /\ UNCHANGED <<entry, client, dead, watched, sem, callVars>>

-----------------------------------------------------------------------------
Step(p) ==
    \/ GetHit(p) \/ GetMiss(p) \/ DialOK(p) \/ DialFails(p)
    \/ InstallLoses(p) \/ InstallWins(p)
    \/ Acquire(p) \/ OpenOK(p) \/ OpenFails(p) \/ Drop(p)
    \/ OutputEnds(p)

Next ==
    \/ \E p \in Callers : Call(p) \/ Step(p) \/ CtxDone(p)
                            \/ Silence(p) \/ Answers(p)
    \/ \E c \in Conns : Watcher(c) \/ ConnLost(c)
    \/ Reap
    \/ TTLElapses

Spec == Init /\ [][Next]_vars

\* Every goroutine that can run does run, and a command ends (its context
\* does).  A handshake or a NewSession whose peer is silent is not obliged to
\* end: no Answers here, and nothing obliges a context to end in the queue of
\* a semaphore: no CtxDone either.  Senders blocked on a Go channel are served
\* in order, hence the strong fairness of Acquire.
FairSpec ==
    Spec /\ \A p \in Callers : WF_vars(Step(p)) /\ SF_vars(Acquire(p))

-----------------------------------------------------------------------------
(* Properties.                                                             *)

TypeOK ==
    /\ entry \in Conns \cup {None}
    /\ client \in [Conns -> {"none", "open", "closed"}]
    /\ dead \in [Conns -> BOOLEAN]
    /\ watched \in [Conns -> BOOLEAN]
    /\ idle \in [Conns -> BOOLEAN]
    /\ sem \in [Conns -> 0..MaxSessions]
    /\ pc \in [Callers -> PCs]
    /\ conn \in [Callers -> Conns \cup {None}]
    /\ held \in [Callers -> Conns \cup {None}]
    /\ attempt \in [Callers -> {1, 2}]
    /\ silent \subseteq Callers
    /\ faults \in 0..MaxFaults

\* The callers whose session is open on c.
Sessions(c) == {p \in Callers : pc[p] = "output" /\ conn[p] = c}

Holders(c) == {p \in Callers : held[p] = c}

\* The deferred receive of run gives back exactly the slot that was taken,
\* on every path (context ended in the queue, drop and retry, second
\* failure): a connection's channel holds one element per call that still
\* owes one, so no path can leak a slot and starve a connection.
TokensReturned ==
    /\ \A c \in Conns : client[c] # "none" => sem[c] = Cardinality(Holders(c))
    /\ \A p \in Callers : pc[p] = "idle" => held[p] = None

\* Dialling happens outside the mutex, drop, reap and get all remove or
\* replace the entry: whatever they race to do, an open SSH connection is
\* either the pool's entry or in the hands of the goroutine that has just
\* dialled it.  An orphan would stay open for ever.
NoOrphanConnection ==
    \A c \in Conns : client[c] = "open" =>
        \/ c = entry
        \/ \E p \in Callers : pc[p] = "install" /\ conn[p] = c

\* A session open without a slot of its own connection belongs to a call in
\* its retry branch, which still holds a slot of a connection that is closed.
\* So the sessions in excess on a connection are at most the retries, and a
\* call never skips the semaphore otherwise.
SessionsWithoutSlot ==
    \A p \in Callers : pc[p] = "output" =>
        \/ held[p] = conn[p]
        \/ /\ attempt[p] = 2
           /\ held[p] \in Conns /\ client[held[p]] = "closed"

\* Every slot of the connection p waits for is held by a call whose peer is
\* silent: a NewSession on that connection, or a retry that keeps the slot of
\* the connection it gave up and hangs in the handshake of the next one.
Blocked(p) ==
    /\ pc[p] = "acquire"
    /\ Cardinality(Holders(conn[p]) \cap silent) = MaxSessions

\* A silent peer costs run the calls that wait for it, and nobody else: a
\* call ends, whatever the other callers drop and even if it never gives up
\* waiting for a slot, unless its own handshake or NewSession gets no answer
\* (neither has a deadline, and neither looks at the context), or calls in
\* that state hold all the slots it waits for.  In particular nobody is held
\* up by a silent peer through the mutex or on another connection.
CallsReturn ==
    \A p \in Callers :
        pc[p] # "idle" ~> \/ pc[p] = "idle"
                         \/ p \in silent
                         \/ Blocked(p)

-----------------------------------------------------------------------------
(* The strengthening that makes the safety invariants inductive.           *)

\* What a caller holds, by where it is in run.
CallShape ==
    \A p \in Callers :
        /\ pc[p] \in {"install", "acquire", "open", "drop", "output"} =>
               conn[p] \in Conns /\ client[conn[p]] # "none"
        /\ pc[p] \in {"idle", "acquire", "drop"} => attempt[p] = 1
        /\ attempt[p] = 1 =>
               held[p] = IF pc[p] \in {"open", "drop", "output"}
                         THEN conn[p] ELSE None
        /\ attempt[p] = 2 =>
               held[p] \in Conns /\ client[held[p]] = "closed"

\* A connection being installed is known to the goroutine that dialled it
\* and to nobody else.
InstallPrivate ==
    \A p \in Callers : pc[p] = "install" =>
        /\ conn[p] # entry
        /\ held[p] # conn[p]
        /\ \A q \in Callers \ {p} : conn[q] # conn[p] /\ held[q] # conn[p]

\* conn.dead is only set on connections that are closed, and the pool's entry
\* is a connection.
DeadIsClosed ==
    /\ \A c \in Conns : dead[c] => client[c] # "open"
    /\ entry # None => client[entry] # "none"

IInv ==
    /\ TypeOK
    /\ CallShape
    /\ InstallPrivate
    /\ DeadIsClosed
    /\ NoOrphanConnection
    /\ TokensReturned

=============================================================================
