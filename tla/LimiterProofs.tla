--------------------------- MODULE LimiterProofs ----------------------------
(***************************************************************************)
(* Proofs about Limiter, for any number of clients, any limit, any window  *)
(* and any length of time.                                                 *)
(***************************************************************************)
EXTENDS Limiter, FiniteSetTheorems, TLAPS

-----------------------------------------------------------------------------
(* Counting.                                                               *)

\* Fewer events are counted from a later date, or in a smaller set.
LEMMA SinceIsFinite ==
    ASSUME NEW s, IsFiniteSet(s), NEW t
    PROVE  /\ IsFiniteSet(Since(s, t)) /\ Cardinality(Since(s, t)) \in Nat
           /\ Cardinality(Since(s, t)) <= Cardinality(s)
<1>1. Since(s, t) \subseteq s
    BY DEF Since
<1>. QED
    BY <1>1, FS_Subset, FS_CardinalityType

\* An event is counted once more from every date before it.
LEMMA SinceCounts ==
    ASSUME NEW s, IsFiniteSet(s), NEW e, e \notin s, NEW t, e[1] > t
    PROVE  Cardinality(Since(s \cup {e}, t)) = Cardinality(Since(s, t)) + 1
<1>1. Since(s \cup {e}, t) = Since(s, t) \cup {e} /\ e \notin Since(s, t)
    BY DEF Since
<1>2. IsFiniteSet(Since(s, t))
    BY SinceIsFinite
<1>. QED
    BY <1>1, <1>2, FS_AddElement

\* The next number is free, and taking it keeps the numbering.
LEMMA NextNumber ==
    ASSUME NEW s, Numbered(s), now \in Nat
    PROVE  LET e == <<now, Cardinality(s)>>
           IN  /\ e \notin s /\ Numbered(s \cup {e})
               /\ Cardinality(s \cup {e}) = Cardinality(s) + 1
<1>. DEFINE e == <<now, Cardinality(s)>>
<1>1. IsFiniteSet(s) /\ Cardinality(s) \in Nat
    BY FS_CardinalityType DEF Numbered
<1>2. e \notin s
  <2>. SUFFICES ASSUME e \in s PROVE FALSE
      OBVIOUS
  <2>1. e[2] \in 0..(Cardinality(s) - 1)
      BY DEF Numbered
  <2>. QED
      BY <1>1, <2>1
<1>3. IsFiniteSet(s \cup {e}) /\ Cardinality(s \cup {e}) = Cardinality(s) + 1
    BY <1>1, <1>2, FS_AddElement
<1>4. s \cup {e} \subseteq (0..now) \X (0..Cardinality(s))
    BY <1>1 DEF Numbered
<1>5. Cardinality(s \cup {e}) - 1 = Cardinality(s)
    BY <1>1, <1>3
<1>. QED
    BY <1>2, <1>3, <1>4, <1>5 DEF Numbered

\* One more Max makes room for what is forgotten.
LEMMA MakesRoom ==
    ASSUME NEW a \in Nat, NEW k \in Nat, NEW m \in Nat, NEW p \in Nat,
           a <= k + p, k <= m
    PROVE  a <= p + m
OBVIOUS

\* Counts are not negative.
LEMMA Sums ==
    ASSUME NEW x \in Nat, NEW y \in Nat
    PROVE  0 + x = x /\ 0 <= x + y
OBVIOUS

\* Nothing happens after now.
LEMMA NothingSinceNow ==
    ASSUME NEW s, NEW n \in Nat, NEW B, s \subseteq (0..n) \X B
    PROVE  Since(s, n) = {}
BY DEF Since

-----------------------------------------------------------------------------
\* At first nothing was tried.
LEMMA InitIInv == Init => IInv
<1>. SUFFICES ASSUME Init PROVE IInv
    OBVIOUS
<1>1. IsFiniteSet({}) /\ Cardinality({}) = 0
    BY FS_EmptySet
<1>2. \A t : Since({}, t) = {}
    BY DEF Since
<1>3. Accounted
    BY <1>1, <1>2, LimiterAssumption DEF Init, Accounted
<1>4. Numbered(allowed) /\ Numbered(resets)
    BY <1>1 DEF Init, Numbered
<1>. QED
    BY <1>1, <1>3, <1>4, LimiterAssumption DEF Init, IInv

\* What is known of the counts in a state of the invariant.
LEMMA Finite ==
    ASSUME IInv
    PROVE  /\ IsFiniteSet(allowed) /\ IsFiniteSet(attempts) /\ IsFiniteSet(resets)
           /\ IsFiniteSet(Kept) /\ Kept \subseteq attempts
           /\ Cardinality(allowed) \in Nat /\ Cardinality(attempts) \in Nat
           /\ Cardinality(resets) \in Nat /\ Cardinality(Kept) \in Nat
           /\ Cardinality(Kept) <= Cardinality(attempts)
           /\ now \in Nat
<1>1. IsFiniteSet(allowed) /\ IsFiniteSet(resets) /\ now \in Nat
    BY LimiterAssumption DEF IInv, Numbered
<1>2. IsFiniteSet(attempts) /\ Kept \subseteq attempts
    BY <1>1, FS_Subset DEF IInv, Kept
<1>3. IsFiniteSet(Kept) /\ Cardinality(Kept) <= Cardinality(attempts)
    BY <1>2, FS_Subset
<1>. QED
    BY <1>1, <1>2, <1>3, FS_CardinalityType

\* A success or a restart forgets at most Max attempts, and is counted.
LEMMA ForgetIInv ==
    ASSUME IInv, Forget, UNCHANGED <<now, allowed>>,
           pc' \in [Clients -> {"idle", "verify"}]
    PROVE  IInv'
<1>. DEFINE e == <<now, Cardinality(resets)>>
<1>1. resets' = resets \cup {e} /\ attempts' = {} /\ now' = now /\ allowed' = allowed
    BY DEF Forget
<1>2. e \notin resets /\ Numbered(resets \cup {e})
    BY Finite, NextNumber DEF IInv
<1>3. Numbered(resets)' /\ Numbered(allowed)'
    BY <1>1, <1>2 DEF IInv, Numbered
<1>4. Cardinality({}) = 0
    BY FS_EmptySet
<1>5. Accounted'
  <2>. SUFFICES ASSUME NEW t \in (now - Window)..now
                PROVE  Cardinality(Since(allowed, t)) <=
                          Cardinality(Since({}, t))
                          + Max * Cardinality(Since(resets \cup {e}, t))
      BY <1>1 DEF Accounted, Since
  <2>. DEFINE a == Cardinality(Since(allowed, t))
              k == Cardinality(Since(attempts, t))
              n == Cardinality(Since(resets, t))
  <2>1. a \in Nat /\ k \in Nat /\ n \in Nat /\ k <= Max
      BY Finite, SinceIsFinite, LimiterAssumption DEF IInv
  <2>2. a <= k + Max * n
      BY DEF IInv, Accounted
  <2>3. Since({}, t) = {}
      BY DEF Since
  <2>4. CASE t < now
    <3>1. Cardinality(Since(resets \cup {e}, t)) = n + 1
        BY <1>2, <2>4, Finite, SinceCounts
    <3>2. Max * (n + 1) = Max * n + Max /\ Max * n \in Nat
        BY <2>1, LimiterAssumption
    <3>3. a <= Max * n + Max
        BY <2>1, <2>2, <3>2, MakesRoom, LimiterAssumption
    <3>4. Max * (n + 1) \in Nat
        BY <2>1, LimiterAssumption
    <3>5. Cardinality(Since({}, t)) + Max * (n + 1) = Max * (n + 1)
        BY <1>4, <2>3, <3>4, Sums, Zenon
    <3>. QED
        BY <3>1, <3>2, <3>3, <3>5
  <2>5. CASE t = now
    <3>1. a = 0
        BY <1>4, <2>5, Finite, NothingSinceNow DEF IInv, Numbered
    <3>2. Cardinality(Since(resets \cup {e}, t)) \in Nat
        BY <1>2, SinceIsFinite DEF Numbered
    <3>3. Max * Cardinality(Since(resets \cup {e}, t)) \in Nat
        BY <3>2, LimiterAssumption
    <3>. QED
        BY <1>4, <2>3, <3>1, <3>3
  <2>. QED
      BY <2>4, <2>5, Finite, LimiterAssumption
<1>. QED
    BY <1>1, <1>3, <1>4, <1>5, LimiterAssumption DEF IInv

\* An attempt that is allowed is recorded with those still in the window.
LEMMA AllowIInv ==
    ASSUME IInv, NEW c \in Clients, Allow(c)
    PROVE  IInv'
<1>. DEFINE e == <<now, Cardinality(allowed)>>
<1>1. /\ allowed' = allowed \cup {e} /\ attempts' = Kept \cup {e}
      /\ now' = now /\ resets' = resets
      /\ Cardinality(Kept) < Max /\ Cardinality(allowed) < MaxAttempts
    BY DEF Allow
<1>2. /\ e \notin allowed /\ Numbered(allowed \cup {e})
      /\ Cardinality(allowed \cup {e}) = Cardinality(allowed) + 1
    BY Finite, NextNumber DEF IInv
<1>3. e \notin attempts /\ e \notin Kept
    BY <1>2, Finite DEF IInv
<1>4. Numbered(resets)' /\ Numbered(allowed)'
    BY <1>1, <1>2 DEF IInv, Numbered
<1>5. attempts' \subseteq allowed'
    BY <1>1, Finite DEF IInv
<1>6. Cardinality(attempts') <= Max
  <2>1. Cardinality(Kept \cup {e}) = Cardinality(Kept) + 1
      BY <1>3, Finite, FS_AddElement
  <2>. QED
      BY <1>1, <2>1, Finite, LimiterAssumption
<1>7. Accounted'
  <2>. SUFFICES ASSUME NEW t \in (now - Window)..now
                PROVE  Cardinality(Since(allowed \cup {e}, t)) <=
                          Cardinality(Since(Kept \cup {e}, t))
                          + Max * Cardinality(Since(resets, t))
      BY <1>1 DEF Accounted, Since
  <2>. DEFINE a == Cardinality(Since(allowed, t))
              k == Cardinality(Since(attempts, t))
              n == Cardinality(Since(resets, t))
  <2>1. a \in Nat /\ k \in Nat /\ n \in Nat /\ Max * n \in Nat
      BY Finite, SinceIsFinite, LimiterAssumption
  <2>2. a <= k + Max * n
      BY DEF IInv, Accounted
  <2>3. CASE t < now
    <3>1. Since(Kept, t) = Since(attempts, t)
      <4>1. \A x \in attempts : x[1] \in Int
          BY DEF IInv, Numbered
      <4>. QED
          BY <4>1, Finite, LimiterAssumption DEF Kept, Since
    <3>2. Cardinality(Since(allowed \cup {e}, t)) = a + 1
        BY <1>2, <2>3, Finite, SinceCounts
    <3>3. Cardinality(Since(Kept \cup {e}, t)) = k + 1
        BY <1>3, <2>3, <3>1, Finite, SinceCounts
    <3>. QED
        BY <2>1, <2>2, <3>2, <3>3
  <2>4. CASE t = now
    <3>1. Since(allowed \cup {e}, t) = {}
        BY <1>2, <2>4, Finite, NothingSinceNow DEF Numbered
    <3>2. IsFiniteSet(Kept \cup {e})
        BY Finite, FS_AddElement
    <3>3. Cardinality(Since(Kept \cup {e}, t)) \in Nat
        BY <3>2, SinceIsFinite
    <3>4. Cardinality({}) = 0
        BY FS_EmptySet
    <3>. QED
        BY <2>1, <3>1, <3>3, <3>4, Sums, Zenon
  <2>. QED
      BY <2>3, <2>4, Finite, LimiterAssumption
<1>8. pc' \in [Clients -> {"idle", "verify"}]
    BY DEF Allow, IInv
<1>. QED
    BY <1>1, <1>2, <1>4, <1>5, <1>6, <1>7, <1>8, Finite, LimiterAssumption
       DEF IInv

\* Every step preserves the invariant: one case per action.
LEMMA NextIInv == IInv /\ [Next]_vars => IInv'
<1>. SUFFICES ASSUME IInv, [Next]_vars PROVE IInv'
    OBVIOUS
<1>1. ASSUME Tick PROVE IInv'
  <2>1. now' = now + 1 /\ now' \in 0..MaxTime
      BY <1>1, Finite, LimiterAssumption DEF Tick
  <2>2. UNCHANGED <<attempts, pc, allowed, resets>>
      BY <1>1 DEF Tick
  <2>3. Numbered(allowed)' /\ Numbered(resets)'
      BY <2>1, <2>2, Finite DEF IInv, Numbered
  <2>4. Accounted'
    <3>. SUFFICES ASSUME NEW t \in (now' - Window)..now'
                  PROVE  Cardinality(Since(allowed, t)) <=
                            Cardinality(Since(attempts, t))
                            + Max * Cardinality(Since(resets, t))
        BY <2>2 DEF Accounted, Since
    <3>1. CASE t <= now
        BY <2>1, <3>1, Finite, LimiterAssumption DEF IInv, Accounted
    <3>2. CASE t = now + 1
      <4>1. allowed \subseteq (0..(now + 1)) \X (0..(Cardinality(allowed) - 1))
          BY Finite DEF IInv, Numbered
      <4>2. Since(allowed, t) = {} /\ Cardinality({}) = 0
          BY <3>2, <4>1, Finite, NothingSinceNow, FS_EmptySet
      <4>3. /\ Cardinality(Since(attempts, t)) \in Nat
            /\ Cardinality(Since(resets, t)) \in Nat
          BY Finite, SinceIsFinite
      <4>4. Max * Cardinality(Since(resets, t)) \in Nat
          BY <4>3, LimiterAssumption
      <4>. QED
          BY <4>2, <4>3, <4>4
    <3>. QED
        BY <2>1, <3>1, <3>2, Finite, LimiterAssumption
  <2>. QED
      BY <2>1, <2>2, <2>3, <2>4 DEF IInv
<1>2. ASSUME NEW c \in Clients, Allow(c) PROVE IInv'
    BY <1>2, AllowIInv
<1>3. ASSUME NEW c \in Clients, Refuse(c) PROVE IInv'
  <2>1. attempts' = Kept /\ UNCHANGED <<now, pc, allowed, resets>>
      BY <1>3 DEF Refuse
  <2>2. \A t \in (now - Window)..now : Since(Kept, t) = Since(attempts, t)
    <3>1. \A x \in attempts : x[1] \in Int
        BY DEF IInv, Numbered
    <3>. QED
        BY <3>1, Finite, LimiterAssumption DEF Kept, Since
  <2>3. Accounted'
      BY <2>1, <2>2 DEF IInv, Accounted, Since
  <2>4. Cardinality(attempts') <= Max
      BY <2>1, Finite, LimiterAssumption DEF IInv
  <2>. QED
      BY <2>1, <2>3, <2>4, Finite DEF IInv, Numbered
<1>4. ASSUME NEW c \in Clients, LoginSucceeds(c) PROVE IInv'
    BY <1>4, ForgetIInv DEF LoginSucceeds, IInv
<1>5. ASSUME Restart PROVE IInv'
    BY <1>5, ForgetIInv DEF Restart
<1>6. ASSUME NEW c \in Clients, LoginFails(c) PROVE IInv'
    BY <1>6 DEF LoginFails, IInv, Numbered, Accounted, Since
<1>7. CASE UNCHANGED vars
    BY <1>7 DEF vars, IInv, Numbered, Accounted, Since
<1>. QED
    BY <1>1, <1>2, <1>3, <1>4, <1>5, <1>6, <1>7 DEF Next, Reject

\* The strengthened invariant holds in every state of every behaviour.
THEOREM Invariance == Spec => []IInv
<1>. QED
    BY InitIInv, NextIInv, PTL DEF Spec

-----------------------------------------------------------------------------
\* The recent events are those since the start of the window.
LEMMA RecentIsSince ==
    ASSUME NEW s, now \in Nat, \A e \in s : e[1] \in Int
    PROVE  Recent(s) = Since(s, now - Window)
BY LimiterAssumption DEF Recent, Since

\* The attempts are dated in the past and numbered within the bound.
THEOREM TypeCorrect == Spec => []TypeOK
<1>1. IInv => TypeOK
  <2>. SUFFICES ASSUME IInv PROVE TypeOK
      OBVIOUS
  <2>1. allowed \subseteq (0..now) \X (0..(MaxAttempts - 1))
      BY Finite, LimiterAssumption DEF IInv, Numbered
  <2>2. resets \subseteq (0..now) \X Nat
      BY Finite DEF IInv, Numbered
  <2>. QED
      BY <2>1, <2>2 DEF IInv, TypeOK
<1>. QED
    BY <1>1, Invariance, PTL

\* Allow and Reset: in a window an address gets Max attempts, and Max more
\* for each success or restart in it, however its clients interleave.
THEOREM TrialsAreFew == Spec => []FewTrials
<1>1. IInv => FewTrials
  <2>. SUFFICES ASSUME IInv PROVE FewTrials
      OBVIOUS
  <2>. DEFINE t == now - Window
              n == Cardinality(Since(resets, t))
              k == Cardinality(Since(attempts, t))
  <2>1. t \in (now - Window)..now
      BY Finite, LimiterAssumption
  <2>2. Cardinality(Since(allowed, t)) <= k + Max * n
      BY <2>1 DEF IInv, Accounted
  <2>3. /\ k \in Nat /\ n \in Nat /\ k <= Max
        /\ Cardinality(Since(allowed, t)) \in Nat
      BY Finite, SinceIsFinite, LimiterAssumption DEF IInv
  <2>4. Max * (1 + n) = Max + Max * n /\ Max * n \in Nat
      BY <2>3, LimiterAssumption
  <2>5. Recent(allowed) = Since(allowed, t) /\ Recent(resets) = Since(resets, t)
      BY Finite, RecentIsSince DEF IInv, Numbered
  <2>. QED
      BY <2>2, <2>3, <2>4, <2>5, LimiterAssumption DEF FewTrials
<1>. QED
    BY <1>1, Invariance, PTL

\* Allow: only attempts allowed less than a window ago refuse an address, so
\* refusals do not prolong themselves.
THEOREM LockoutsEnd == Spec => []LockoutEnds
<1>1. IInv => LockoutEnds
  <2>. SUFFICES ASSUME IInv PROVE LockoutEnds
      OBVIOUS
  <2>1. \A e \in allowed : e[1] \in Int
      BY DEF IInv, Numbered
  <2>2. Kept \subseteq Recent(allowed)
      BY <2>1, Finite, LimiterAssumption DEF Kept, Recent, IInv
  <2>3. IsFiniteSet(Recent(allowed))
      BY Finite, FS_Subset DEF Recent
  <2>4. /\ Cardinality(Kept) <= Cardinality(Recent(allowed))
        /\ Cardinality(Recent(allowed)) \in Nat
      BY <2>2, <2>3, FS_Subset, FS_CardinalityType
  <2>. QED
      BY <2>4, Finite, LimiterAssumption DEF LockoutEnds
<1>. QED
    BY <1>1, Invariance, PTL
=============================================================================
