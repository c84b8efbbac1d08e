----------------------------- MODULE PoolProofs -----------------------------
(***************************************************************************)
(* Proofs about Pool, for any number of callers, connections, slots and    *)
(* faults.  IInv is inductive; the safety invariants of the runs follow.   *)
(***************************************************************************)
EXTENDS Pool, FiniteSetTheorems, TLAPS

\* The calls that owe a connection a slot are finitely many.
LEMMA HoldersFinite ==
    ASSUME NEW c
    PROVE  IsFiniteSet(Holders(c)) /\ Cardinality(Holders(c)) \in Nat
<1>1. Holders(c) \in SUBSET Callers
    BY DEF Holders
<1>. QED
    BY <1>1, PoolAssumption, FS_Subset, FS_CardinalityType

\* Init establishes the invariant: nothing is open, nobody holds a slot.
LEMMA InitIInv == Init => IInv
<1>. SUFFICES ASSUME Init PROVE IInv
    OBVIOUS
<1>1. TypeOK
  <2>1. dead \in [Conns -> BOOLEAN] /\ watched \in [Conns -> BOOLEAN]
        /\ idle \in [Conns -> BOOLEAN]
      BY Zenon DEF Init
  <2>2. sem \in [Conns -> 0..MaxSessions] /\ faults \in 0..MaxFaults
      BY PoolAssumption DEF Init
  <2>3. entry \in Conns \cup {None}
        /\ client \in [Conns -> {"none", "open", "closed"}]
        /\ pc \in [Callers -> PCs]
        /\ conn \in [Callers -> Conns \cup {None}]
        /\ held \in [Callers -> Conns \cup {None}]
        /\ attempt \in [Callers -> {1, 2}]
        /\ silent \subseteq Callers
      BY DEF Init, PCs
  <2>. QED
      BY <2>1, <2>2, <2>3 DEF TypeOK
<1>2. CallShape /\ InstallPrivate /\ DeadIsClosed /\ NoOrphanConnection
    BY DEF Init, CallShape, InstallPrivate, DeadIsClosed, NoOrphanConnection
<1>3. TokensReturned
    BY DEF Init, TokensReturned
<1>. QED
    BY <1>1, <1>2, <1>3 DEF IInv

-----------------------------------------------------------------------------
(* The end of a call, shared by four actions.                              *)

\* The deferred receive of run finds the element it put there: the count
\* stays within the channel, and the books balance afterwards.
LEMMA ReturnTokens ==
    ASSUME IInv, NEW p \in Callers, Return(p), client' = client
    PROVE  sem' \in [Conns -> 0..MaxSessions] /\ TokensReturned'
<1>. USE DEF IInv, TypeOK
<1>1. CASE held[p] = None
  <2>1. sem' = sem /\ held' = held
      BY <1>1 DEF Return, Release
  <2>. QED
      BY <2>1 DEF Return, TokensReturned, Holders
<1>2. CASE held[p] # None
  <2>1. PICK h \in Conns : h = held[p]
      BY <1>2
  <2>2. client[h] # "none"
      BY <2>1, PoolAssumption DEF CallShape, PCs
  <2>3. p \in Holders(h) /\ sem[h] = Cardinality(Holders(h))
      BY <2>1, <2>2 DEF Holders, TokensReturned
  <2>4. Holders(h)' = Holders(h) \ {p}
      BY <2>1, PoolAssumption DEF Return, Holders
  <2>5. \A c \in Conns \ {h} : Holders(c)' = Holders(c)
      BY <2>1, PoolAssumption DEF Return, Holders
  <2>6. Cardinality(Holders(h) \ {p}) = Cardinality(Holders(h)) - 1
      BY <2>3, HoldersFinite, FS_RemoveElement
  <2>7. Cardinality(Holders(h) \ {p}) \in Nat
      BY HoldersFinite, FS_RemoveElement, FS_CardinalityType
  <2>8. sem' = [sem EXCEPT ![h] = @ - 1]
      BY <1>2, <2>1 DEF Return, Release
  <2>9. sem[h] - 1 \in 0..MaxSessions
      BY <2>3, <2>6, <2>7, PoolAssumption
  <2>10. ASSUME NEW c \in Conns, client'[c] # "none"
         PROVE  sem'[c] = Cardinality(Holders(c)')
    <3>1. CASE c = h
        BY <3>1, <2>3, <2>4, <2>6, <2>8
    <3>2. CASE c # h
        BY <3>2, <2>5, <2>8, <2>10 DEF TokensReturned
    <3>. QED
        BY <3>1, <3>2
  <2>11. \A q \in Callers : pc'[q] = "idle" => held'[q] = None
      BY DEF Return, TokensReturned
  <2>. QED
      BY <2>8, <2>9, <2>10, <2>11 DEF TokensReturned
<1>. QED
    BY <1>1, <1>2

\* A call that returns leaves the pool's connections as they are, and no
\* trace of itself.
LEMMA ReturnIInv ==
    ASSUME IInv, NEW p \in Callers, Return(p), pc[p] # "install",
           UNCHANGED poolVars, faults' \in 0..MaxFaults
    PROVE  IInv'
<1>. USE DEF IInv
<1>1. sem' \in [Conns -> 0..MaxSessions] /\ TokensReturned'
    BY ReturnTokens DEF poolVars
<1>2. TypeOK'
    BY <1>1 DEF TypeOK, Return, poolVars, PCs
<1>3. CallShape'
    BY DEF TypeOK, Return, poolVars, CallShape
<1>4. InstallPrivate'
    BY PoolAssumption DEF TypeOK, Return, poolVars, InstallPrivate, CallShape, PCs
<1>5. DeadIsClosed' /\ NoOrphanConnection'
    BY DEF TypeOK, Return, poolVars, DeadIsClosed, NoOrphanConnection
<1>. QED
    BY <1>1, <1>2, <1>3, <1>4, <1>5

-----------------------------------------------------------------------------
(* The other actions.                                                      *)

\* A step that moves no slot and forgets no connection keeps the books.
LEMMA KeepTokens ==
    ASSUME IInv, sem' = sem, held' = held,
           \A c \in Conns : client'[c] # "none" => client[c] # "none",
           \A p \in Callers : pc'[p] = "idle" => pc[p] = "idle"
    PROVE  TokensReturned'
BY DEF IInv, TokensReturned, Holders

\* Every step preserves the invariant: one case per action.
LEMMA NextIInv == IInv /\ [Next]_vars => IInv'
<1>. SUFFICES ASSUME IInv, [Next]_vars PROVE IInv'
    OBVIOUS
<1>. USE PoolAssumption DEF IInv
<1>1. ASSUME NEW p \in Callers, Call(p) PROVE IInv'
  <2>1. TypeOK'
      BY <1>1 DEF TypeOK, Call, Goto, poolVars, PCs
  <2>2. CallShape'
      BY <1>1 DEF TypeOK, Call, Goto, poolVars, CallShape
  <2>3. InstallPrivate'
      BY <1>1 DEF TypeOK, Call, Goto, poolVars, InstallPrivate
  <2>4. DeadIsClosed' /\ NoOrphanConnection'
      BY <1>1 DEF TypeOK, Call, Goto, poolVars, DeadIsClosed,
         NoOrphanConnection
  <2>5. TokensReturned'
      BY <1>1, KeepTokens DEF TypeOK, Call, Goto, poolVars
  <2>. QED
      BY <2>1, <2>2, <2>3, <2>4, <2>5
<1>2. ASSUME NEW p \in Callers, GetHit(p) PROVE IInv'
  <2>1. TypeOK'
      BY <1>2 DEF TypeOK, GetHit, Goto, AfterGet, Usable, PCs
  <2>2. CallShape'
      BY <1>2 DEF TypeOK, GetHit, Goto, AfterGet, Usable, CallShape,
         DeadIsClosed
  <2>3. InstallPrivate'
      BY <1>2 DEF TypeOK, GetHit, Goto, AfterGet, Usable, InstallPrivate,
         CallShape
  <2>4. DeadIsClosed' /\ NoOrphanConnection'
      BY <1>2 DEF TypeOK, GetHit, Goto, AfterGet, Usable, DeadIsClosed,
         NoOrphanConnection
  <2>5. TokensReturned'
      BY <1>2, KeepTokens DEF TypeOK, GetHit, Goto, AfterGet, Usable
  <2>. QED
      BY <2>1, <2>2, <2>3, <2>4, <2>5
<1>3. ASSUME NEW p \in Callers, GetMiss(p) PROVE IInv'
  <2>1. TypeOK'
      BY <1>3 DEF TypeOK, GetMiss, Goto, poolVars, PCs
  <2>2. CallShape'
      BY <1>3 DEF TypeOK, GetMiss, Goto, poolVars, CallShape
  <2>3. InstallPrivate'
      BY <1>3 DEF TypeOK, GetMiss, Goto, poolVars, InstallPrivate
  <2>4. DeadIsClosed' /\ NoOrphanConnection'
      BY <1>3 DEF TypeOK, GetMiss, Goto, poolVars, DeadIsClosed,
         NoOrphanConnection
  <2>5. TokensReturned'
      BY <1>3, KeepTokens DEF TypeOK, GetMiss, Goto, poolVars
  <2>. QED
      BY <2>1, <2>2, <2>3, <2>4, <2>5
<1>4. ASSUME NEW p \in Callers, DialOK(p) PROVE IInv'
  <2>1. TypeOK'
      BY <1>4 DEF TypeOK, DialOK, Goto, PCs
  <2>2. CallShape'
      BY <1>4 DEF TypeOK, DialOK, Goto, CallShape, Unreferenced
  <2>3. InstallPrivate'
      BY <1>4 DEF TypeOK, DialOK, Goto, InstallPrivate, Unreferenced
  <2>4. DeadIsClosed' /\ NoOrphanConnection'
      BY <1>4 DEF TypeOK, DialOK, Goto, DeadIsClosed, NoOrphanConnection,
         Unreferenced
  <2>5. TokensReturned'
    <3>1. PICK c \in Conns :
            /\ Unreferenced(c)
            /\ client' = [client EXCEPT ![c] = "open"]
            /\ sem' = [sem EXCEPT ![c] = 0]
        BY <1>4 DEF DialOK
    <3>2. held' = held /\ \A q \in Callers : pc'[q] = "idle" => pc[q] = "idle"
        BY <1>4 DEF DialOK, Goto, TypeOK
    <3>3. \A d : Holders(d)' = Holders(d)
        BY <3>2 DEF Holders
    <3>4. Holders(c) = {}
        BY <3>1 DEF Unreferenced, Holders
    <3>5. \A d \in Conns : client'[d] # "none" =>
            sem'[d] = Cardinality(Holders(d))
        BY <3>1, <3>4, FS_EmptySet DEF TokensReturned, TypeOK
    <3>6. \A q \in Callers : pc'[q] = "idle" => held'[q] = None
        BY <3>2 DEF TokensReturned
    <3>. QED
        BY <3>3, <3>5, <3>6 DEF TokensReturned
  <2>. QED
      BY <2>1, <2>2, <2>3, <2>4, <2>5
<1>5. ASSUME NEW p \in Callers, InstallLoses(p) PROVE IInv'
  <2>1. TypeOK'
      BY <1>5 DEF TypeOK, InstallLoses, Goto, AfterGet, Usable, PCs, CallShape
  <2>2. CallShape'
      BY <1>5 DEF TypeOK, InstallLoses, Goto, AfterGet, Usable, CallShape,
         InstallPrivate, DeadIsClosed
  <2>3. InstallPrivate'
      BY <1>5 DEF TypeOK, InstallLoses, Goto, AfterGet, Usable,
         InstallPrivate, CallShape
  <2>4. DeadIsClosed' /\ NoOrphanConnection'
      BY <1>5 DEF TypeOK, InstallLoses, Goto, AfterGet, Usable, DeadIsClosed,
         NoOrphanConnection, CallShape, InstallPrivate
  <2>5. TokensReturned'
      BY <1>5, KeepTokens DEF TypeOK, InstallLoses, Goto, AfterGet, Usable,
         CallShape
  <2>. QED
      BY <2>1, <2>2, <2>3, <2>4, <2>5
<1>6. ASSUME NEW p \in Callers, InstallWins(p) PROVE IInv'
  <2>1. TypeOK'
      BY <1>6 DEF TypeOK, InstallWins, Goto, AfterGet, Usable, PCs, CallShape
  <2>2. CallShape'
      BY <1>6 DEF TypeOK, InstallWins, Goto, AfterGet, Usable, CallShape,
         InstallPrivate
  <2>3. InstallPrivate'
      BY <1>6 DEF TypeOK, InstallWins, Goto, AfterGet, Usable, InstallPrivate,
         CallShape
  <2>4. DeadIsClosed' /\ NoOrphanConnection'
      BY <1>6 DEF TypeOK, InstallWins, Goto, AfterGet, Usable, DeadIsClosed,
         NoOrphanConnection, CallShape, InstallPrivate
  <2>5. TokensReturned'
      BY <1>6, KeepTokens DEF TypeOK, InstallWins, Goto, AfterGet, Usable
  <2>. QED
      BY <2>1, <2>2, <2>3, <2>4, <2>5
<1>7. ASSUME NEW p \in Callers, Acquire(p) PROVE IInv'
  <2>1. TypeOK'
      BY <1>7 DEF TypeOK, Acquire, poolVars, PCs, CallShape
  <2>2. CallShape'
      BY <1>7 DEF TypeOK, Acquire, poolVars, CallShape
  <2>3. InstallPrivate'
      BY <1>7 DEF TypeOK, Acquire, poolVars, InstallPrivate, CallShape
  <2>4. DeadIsClosed' /\ NoOrphanConnection'
      BY <1>7 DEF TypeOK, Acquire, poolVars, DeadIsClosed, NoOrphanConnection
  <2>5. TokensReturned'
    <3>1. PICK h \in Conns : h = conn[p] /\ client[h] # "none"
        BY <1>7 DEF Acquire, CallShape
    <3>2. held[p] = None
        BY <1>7 DEF Acquire, CallShape, TypeOK
    <3>3. Holders(h)' = Holders(h) \cup {p} /\ p \notin Holders(h)
        BY <1>7, <3>1, <3>2 DEF Acquire, Holders, TypeOK
    <3>4. \A c \in Conns \ {h} : Holders(c)' = Holders(c)
        BY <1>7, <3>1, <3>2 DEF Acquire, Holders, TypeOK
    <3>5. Cardinality(Holders(h) \cup {p}) = Cardinality(Holders(h)) + 1
        BY <3>3, HoldersFinite, FS_AddElement
    <3>6. ASSUME NEW c \in Conns, client'[c] # "none"
          PROVE  sem'[c] = Cardinality(Holders(c)')
      <4>1. client' = client /\ sem' = [sem EXCEPT ![h] = @ + 1]
          BY <1>7, <3>1 DEF Acquire, poolVars
      <4>2. CASE c = h
          BY <4>1, <4>2, <3>1, <3>3, <3>5 DEF TokensReturned, TypeOK
      <4>3. CASE c # h
          BY <4>1, <4>3, <3>4, <3>6 DEF TokensReturned, TypeOK
      <4>. QED
          BY <4>2, <4>3
    <3>7. \A q \in Callers : pc'[q] = "idle" => held'[q] = None
        BY <1>7 DEF Acquire, TokensReturned, TypeOK
    <3>. QED
        BY <3>6, <3>7 DEF TokensReturned
  <2>. QED
      BY <2>1, <2>2, <2>3, <2>4, <2>5
<1>8. ASSUME NEW p \in Callers, OpenOK(p) PROVE IInv'
  <2>1. TypeOK'
      BY <1>8 DEF TypeOK, OpenOK, Goto, poolVars, PCs
  <2>2. CallShape'
      BY <1>8 DEF TypeOK, OpenOK, Goto, poolVars, CallShape
  <2>3. InstallPrivate'
      BY <1>8 DEF TypeOK, OpenOK, Goto, poolVars, InstallPrivate
  <2>4. DeadIsClosed' /\ NoOrphanConnection'
      BY <1>8 DEF TypeOK, OpenOK, Goto, poolVars, DeadIsClosed,
         NoOrphanConnection
  <2>5. TokensReturned'
      BY <1>8, KeepTokens DEF TypeOK, OpenOK, Goto, poolVars
  <2>. QED
      BY <2>1, <2>2, <2>3, <2>4, <2>5
<1>9. ASSUME NEW p \in Callers, OpenFails(p) PROVE IInv'
  <2>1. faults' \in 0..MaxFaults /\ UNCHANGED poolVars /\ pc[p] = "open"
      BY <1>9 DEF OpenFails, TypeOK
  <2>2. CASE attempt[p] = 1
    <3>1. /\ pc' = [pc EXCEPT ![p] = "drop"]
          /\ silent' = silent \ {p}
          /\ UNCHANGED <<sem, conn, held, attempt>>
        BY <1>9, <2>2 DEF OpenFails
    <3>2. TypeOK'
        BY <2>1, <3>1 DEF TypeOK, poolVars, PCs
    <3>3. CallShape'
        BY <2>1, <2>2, <3>1 DEF TypeOK, poolVars, CallShape
    <3>4. InstallPrivate' /\ DeadIsClosed' /\ NoOrphanConnection'
        BY <2>1, <3>1 DEF TypeOK, poolVars, InstallPrivate, DeadIsClosed,
                          NoOrphanConnection
    <3>5. TokensReturned'
        BY <2>1, <3>1, KeepTokens DEF TypeOK, poolVars
    <3>. QED
        BY <3>2, <3>3, <3>4, <3>5
  <2>3. CASE attempt[p] # 1
    <3>1. Return(p)
        BY <1>9, <2>3 DEF OpenFails
    <3>. QED
        BY <2>1, <3>1, ReturnIInv
  <2>. QED
      BY <2>2, <2>3
<1>10. ASSUME NEW p \in Callers, Drop(p) PROVE IInv'
  <2>1. CASE entry = None
    <3>1. TypeOK'
        BY <1>10, <2>1 DEF TypeOK, Drop, PCs
    <3>2. CallShape'
        BY <1>10, <2>1 DEF TypeOK, Drop, CallShape, InstallPrivate,
           NoOrphanConnection
    <3>3. InstallPrivate' /\ DeadIsClosed' /\ NoOrphanConnection'
        BY <1>10, <2>1 DEF TypeOK, Drop, InstallPrivate, DeadIsClosed,
           NoOrphanConnection, CallShape
    <3>4. TokensReturned'
        BY <1>10, <2>1, KeepTokens DEF TypeOK, Drop
    <3>. QED
        BY <3>1, <3>2, <3>3, <3>4
  <2>2. CASE entry # None
    <3>1. /\ dead' = [dead EXCEPT ![entry] = TRUE]
          /\ client' = [client EXCEPT ![entry] = "closed"]
        BY <1>10, <2>2 DEF Drop
    <3>2. TypeOK'
      <4>1. dead' \in [Conns -> BOOLEAN]
          BY <3>1, Zenon DEF TypeOK
      <4>. QED
          BY <1>10, <3>1, <4>1 DEF TypeOK, Drop, PCs
    <3>3. CallShape'
        BY <1>10, <2>2, <3>1 DEF TypeOK, Drop, CallShape, InstallPrivate,
           NoOrphanConnection
    <3>4. InstallPrivate'
        BY <1>10 DEF TypeOK, Drop, InstallPrivate, CallShape
    <3>5. DeadIsClosed' /\ NoOrphanConnection'
        BY <1>10, <3>1 DEF TypeOK, Drop, DeadIsClosed, NoOrphanConnection
    <3>6. TokensReturned'
        BY <1>10, <2>2, <3>1, KeepTokens DEF TypeOK, Drop, DeadIsClosed
    <3>. QED
        BY <3>2, <3>3, <3>4, <3>5, <3>6
  <2>. QED
      BY <2>1, <2>2
<1>11. ASSUME NEW c \in Conns, Watcher(c) PROVE IInv'
  <2>1. TypeOK'
      BY <1>11 DEF TypeOK, Watcher, callVars, PCs
  <2>2. CallShape'
      BY <1>11 DEF TypeOK, Watcher, callVars, CallShape
  <2>3. InstallPrivate'
      BY <1>11 DEF TypeOK, Watcher, callVars, InstallPrivate
  <2>4. DeadIsClosed' /\ NoOrphanConnection'
      BY <1>11 DEF TypeOK, Watcher, callVars, DeadIsClosed, NoOrphanConnection
  <2>5. TokensReturned'
      BY <1>11, KeepTokens DEF TypeOK, Watcher, callVars
  <2>. QED
      BY <2>1, <2>2, <2>3, <2>4, <2>5
<1>12. ASSUME NEW c \in Conns, ConnLost(c) PROVE IInv'
  <2>1. TypeOK'
      BY <1>12 DEF TypeOK, ConnLost, callVars, PCs
  <2>2. CallShape'
      BY <1>12 DEF TypeOK, ConnLost, callVars, CallShape
  <2>3. InstallPrivate'
      BY <1>12 DEF TypeOK, ConnLost, callVars, InstallPrivate
  <2>4. DeadIsClosed' /\ NoOrphanConnection'
      BY <1>12 DEF TypeOK, ConnLost, callVars, DeadIsClosed,
         NoOrphanConnection
  <2>5. TokensReturned'
      BY <1>12, KeepTokens DEF TypeOK, ConnLost, callVars
  <2>. QED
      BY <2>1, <2>2, <2>3, <2>4, <2>5
<1>13. ASSUME Reap PROVE IInv'
  <2>1. TypeOK'
      BY <1>13 DEF TypeOK, Reap, callVars, PCs
  <2>2. CallShape'
      BY <1>13 DEF TypeOK, Reap, callVars, CallShape
  <2>3. InstallPrivate'
      BY <1>13 DEF TypeOK, Reap, callVars, InstallPrivate, CallShape
  <2>4. DeadIsClosed' /\ NoOrphanConnection'
      BY <1>13 DEF TypeOK, Reap, callVars, DeadIsClosed, NoOrphanConnection
  <2>5. TokensReturned'
      BY <1>13, KeepTokens DEF TypeOK, Reap, callVars, DeadIsClosed
  <2>. QED
      BY <2>1, <2>2, <2>3, <2>4, <2>5
<1>14. ASSUME TTLElapses PROVE IInv'
  <2>1. TypeOK'
      BY <1>14 DEF TypeOK, TTLElapses, callVars, PCs
  <2>2. CallShape'
      BY <1>14 DEF TypeOK, TTLElapses, callVars, CallShape
  <2>3. InstallPrivate'
      BY <1>14 DEF TypeOK, TTLElapses, callVars, InstallPrivate
  <2>4. DeadIsClosed' /\ NoOrphanConnection'
      BY <1>14 DEF TypeOK, TTLElapses, callVars, DeadIsClosed,
         NoOrphanConnection
  <2>5. TokensReturned'
      BY <1>14, KeepTokens DEF TypeOK, TTLElapses, callVars
  <2>. QED
      BY <2>1, <2>2, <2>3, <2>4, <2>5
<1>15. ASSUME NEW p \in Callers, DialFails(p) \/ CtxDone(p) \/ OutputEnds(p)
       PROVE  IInv'
    BY <1>15, ReturnIInv DEF DialFails, CtxDone, OutputEnds, TypeOK
<1>16. ASSUME NEW p \in Callers, Silence(p) \/ Answers(p) PROVE IInv'
  <2>1. /\ silent' \subseteq Callers /\ faults' \in 0..MaxFaults
        /\ UNCHANGED <<poolVars, sem, pc, conn, held, attempt>>
      BY <1>16 DEF TypeOK, Silence, Answers
  <2>2. TypeOK'
      BY <2>1 DEF TypeOK, poolVars
  <2>. QED
      BY <2>1, <2>2 DEF poolVars, CallShape, InstallPrivate, DeadIsClosed,
         NoOrphanConnection, TokensReturned, Holders
<1>17. CASE UNCHANGED vars
    BY <1>17 DEF vars, TypeOK, CallShape, InstallPrivate, DeadIsClosed,
       NoOrphanConnection, TokensReturned, Holders
<1>. QED
    BY <1>1, <1>2, <1>3, <1>4, <1>5, <1>6, <1>7, <1>8, <1>9, <1>10, <1>11,
       <1>12, <1>13, <1>14, <1>15, <1>16, <1>17 DEF Next, Step

-----------------------------------------------------------------------------
(* Results.                                                                *)

\* IInv is an invariant of the pool.
THEOREM Invariance == Spec => []IInv
    BY InitIInv, NextIInv, PTL DEF Spec

\* Every variable keeps its type; in particular no channel ever holds more
\* than its capacity, and no receive of run blocks on an empty one.
THEOREM TypeCorrect == Spec => []TypeOK
<1>1. IInv => TypeOK
    BY DEF IInv
<1>. QED
    BY <1>1, Invariance, PTL

\* run gives back exactly the slots it takes, on every path.
THEOREM TokensAlwaysReturned == Spec => []TokensReturned
<1>1. IInv => TokensReturned
    BY DEF IInv
<1>. QED
    BY <1>1, Invariance, PTL

\* However get, drop and reap interleave, no SSH connection is left open out
\* of reach of the pool.
THEOREM NoConnectionLeaks == Spec => []NoOrphanConnection
<1>1. IInv => NoOrphanConnection
    BY DEF IInv
<1>. QED
    BY <1>1, Invariance, PTL

\* Only a retry opens a session beside the semaphore of its connection, and
\* it then still holds a slot of a closed one.
THEOREM OnlyRetriesSkipTheSlot == Spec => []SessionsWithoutSlot
<1>1. IInv => SessionsWithoutSlot
    BY DEF IInv, CallShape, TypeOK, SessionsWithoutSlot
<1>. QED
    BY <1>1, Invariance, PTL
=============================================================================
