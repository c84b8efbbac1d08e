-------------------------- MODULE TreeStoreProofs ---------------------------
(***************************************************************************)
(* Proofs about TreeStore, for any number of requests, hosts, snapshots    *)
(* and backups, and any size of the trees.                                 *)
(***************************************************************************)
EXTENDS TreeStore, FiniteSetTheorems, WellFoundedInduction, TLAPS

\* The store is empty at first, and nobody uses it.
LEMMA InitIInv == Init => IInv
<1>. SUFFICES ASSUME Init PROVE IInv
    OBVIOUS
<1>1. Typed /\ LoadsAreLed /\ StoresANewTree
    BY DEF Init, Typed, PCs, LoadsAreLed, StoresANewTree
<1>2. SingleFlight /\ WaitersHaveALeader /\ UsedMatchesTrees
    BY DEF Init, SingleFlight, WaitersHaveALeader, UsedMatchesTrees, Leads
<1>. QED
    BY <1>1, <1>2 DEF IInv

\* Every step preserves the invariant: one case per action.
LEMMA NextIInv == IInv /\ [Next]_vars => IInv'
<1>. SUFFICES ASSUME IInv, [Next]_vars PROVE IInv'
    OBVIOUS
<1>. USE TreeStoreAssumption DEF IInv
<1>1. ASSUME NEW p \in Callers, Browse(p) PROVE IInv'
  <2>1. Typed'
      BY <1>1 DEF Typed, Browse, Goto, storeVars, PCs
  <2>2. LoadsAreLed' /\ SingleFlight'
      BY <1>1 DEF Typed, Browse, Goto, storeVars, LoadsAreLed, SingleFlight,
         Leads
  <2>3. StoresANewTree'
      BY <1>1 DEF Typed, Browse, Goto, storeVars, StoresANewTree,
         SingleFlight, Leads
  <2>4. WaitersHaveALeader'
      BY <1>1 DEF Typed, Browse, Goto, storeVars, WaitersHaveALeader,
         LoadsAreLed, Leads
  <2>5. UsedMatchesTrees'
      BY <1>1 DEF Typed, Browse, Goto, storeVars, UsedMatchesTrees
  <2>. QED
      BY <2>1, <2>2, <2>3, <2>4, <2>5
<1>2. ASSUME NEW p \in Callers, Hit(p) PROVE IInv'
  <2>1. Typed'
      BY <1>2 DEF Typed, Hit, Goto, PCs
  <2>2. LoadsAreLed' /\ SingleFlight'
      BY <1>2 DEF Typed, Hit, Goto, LoadsAreLed, SingleFlight, Leads
  <2>3. StoresANewTree'
      BY <1>2 DEF Typed, Hit, Goto, StoresANewTree, SingleFlight, Leads, With,
         Without, Forget, Touch, Restrict
  <2>4. WaitersHaveALeader'
      BY <1>2 DEF Typed, Hit, Goto, WaitersHaveALeader, LoadsAreLed, Leads
  <2>5. UsedMatchesTrees'
    <3>1. PICK k \in DOMAIN used : k = key[p]
        BY <1>2 DEF Hit, UsedMatchesTrees
    <3>2. used' = [x \in DOMAIN used |->
                     IF x = k THEN DOMAIN used \ {k} ELSE used[x] \ {k}]
        BY <1>2, <3>1 DEF Hit, Touch, With, Forget
    <3>. QED
        BY <1>2, <3>2 DEF Hit, UsedMatchesTrees
  <2>. QED
      BY <2>1, <2>2, <2>3, <2>4, <2>5
<1>3. ASSUME NEW p \in Callers, Wait(p) PROVE IInv'
  <2>1. Typed'
      BY <1>3 DEF Typed, Wait, Goto, storeVars, PCs, LoadsAreLed
  <2>2. LoadsAreLed' /\ SingleFlight'
      BY <1>3 DEF Typed, Wait, Goto, storeVars, LoadsAreLed, SingleFlight,
         Leads
  <2>3. StoresANewTree'
      BY <1>3 DEF Typed, Wait, Goto, storeVars, StoresANewTree, SingleFlight,
         Leads
  <2>4. WaitersHaveALeader'
      BY <1>3 DEF Typed, Wait, Goto, storeVars, WaitersHaveALeader,
         LoadsAreLed, Leads
  <2>5. UsedMatchesTrees'
      BY <1>3 DEF Typed, Wait, Goto, storeVars, UsedMatchesTrees
  <2>. QED
      BY <2>1, <2>2, <2>3, <2>4, <2>5
<1>4. ASSUME NEW p \in Callers, Lead(p) PROVE IInv'
  <2>1. Typed'
      BY <1>4 DEF Typed, Lead, Goto, With, PCs
  <2>2. LoadsAreLed' /\ SingleFlight'
      BY <1>4 DEF Typed, Lead, Goto, With, LoadsAreLed, SingleFlight, Leads
  <2>3. StoresANewTree'
      BY <1>4 DEF Typed, Lead, Goto, With, StoresANewTree, SingleFlight, Leads
  <2>4. WaitersHaveALeader'
      BY <1>4 DEF Typed, Lead, Goto, With, WaitersHaveALeader, LoadsAreLed,
         Leads
  <2>5. UsedMatchesTrees'
      BY <1>4 DEF Typed, Lead, Goto, With, UsedMatchesTrees
  <2>. QED
      BY <2>1, <2>2, <2>3, <2>4, <2>5
<1>5. ASSUME NEW p \in Callers, FetchOK(p) PROVE IInv'
  <2>1. Typed'
      BY <1>5 DEF Typed, FetchOK, Goto, storeVars, PCs
  <2>2. LoadsAreLed' /\ SingleFlight'
      BY <1>5 DEF Typed, FetchOK, Goto, storeVars, LoadsAreLed, SingleFlight,
         Leads
  <2>3. StoresANewTree'
      BY <1>5 DEF Typed, FetchOK, Goto, storeVars, StoresANewTree,
         SingleFlight, Leads
  <2>4. WaitersHaveALeader'
      BY <1>5 DEF Typed, FetchOK, Goto, storeVars, WaitersHaveALeader,
         LoadsAreLed, Leads
  <2>5. UsedMatchesTrees'
      BY <1>5 DEF Typed, FetchOK, Goto, storeVars, UsedMatchesTrees
  <2>. QED
      BY <2>1, <2>2, <2>3, <2>4, <2>5
<1>6. ASSUME NEW p \in Callers, FetchFails(p) PROVE IInv'
  <2>1. Typed'
      BY <1>6 DEF Typed, FetchFails, Goto, storeVars, PCs
  <2>2. LoadsAreLed' /\ SingleFlight'
      BY <1>6 DEF Typed, FetchFails, Goto, storeVars, LoadsAreLed,
         SingleFlight, Leads
  <2>3. StoresANewTree'
      BY <1>6 DEF Typed, FetchFails, Goto, storeVars, StoresANewTree,
         SingleFlight, Leads
  <2>4. WaitersHaveALeader'
      BY <1>6 DEF Typed, FetchFails, Goto, storeVars, WaitersHaveALeader,
         LoadsAreLed, Leads
  <2>5. UsedMatchesTrees'
      BY <1>6 DEF Typed, FetchFails, Goto, storeVars, UsedMatchesTrees
  <2>. QED
      BY <2>1, <2>2, <2>3, <2>4, <2>5
<1>7. ASSUME NEW p \in Callers, Store(p) PROVE IInv'
  <2>1. Typed'
      BY <1>7 DEF Typed, Store, Goto, PCs
  <2>2. LoadsAreLed' /\ SingleFlight'
      BY <1>7 DEF Typed, Store, Goto, LoadsAreLed, SingleFlight, Leads
  <2>3. StoresANewTree'
      BY <1>7 DEF Typed, Store, Goto, StoresANewTree, SingleFlight, Leads,
         With, Without, Forget, Touch, Restrict
  <2>4. WaitersHaveALeader'
      BY <1>7 DEF Typed, Store, Goto, WaitersHaveALeader, LoadsAreLed, Leads
  <2>5. UsedMatchesTrees'
      BY <1>7 DEF Typed, Store, Goto, UsedMatchesTrees, With, Without, Forget,
         Touch, Restrict
  <2>. QED
      BY <2>1, <2>2, <2>3, <2>4, <2>5
<1>8. ASSUME NEW p \in Callers, Unload(p) PROVE IInv'
  <2>1. Typed'
      BY <1>8 DEF Typed, Unload, Goto, Without, Restrict, PCs
  <2>2. LoadsAreLed' /\ SingleFlight'
      BY <1>8 DEF Typed, Unload, Goto, Without, Restrict, LoadsAreLed,
         SingleFlight, Leads
  <2>3. StoresANewTree'
      BY <1>8 DEF Typed, Unload, Goto, Without, Restrict, StoresANewTree,
         SingleFlight, Leads
  <2>4. WaitersHaveALeader'
      BY <1>8 DEF Typed, Unload, Goto, Without, Restrict, WaitersHaveALeader,
         LoadsAreLed, Leads
  <2>5. UsedMatchesTrees'
      BY <1>8 DEF Typed, Unload, Goto, Without, Restrict, UsedMatchesTrees
  <2>. QED
      BY <2>1, <2>2, <2>3, <2>4, <2>5
<1>9. ASSUME NEW p \in Callers, Done(p) PROVE IInv'
  <2>1. Typed'
      BY <1>9 DEF Typed, Done, storeVars, Finish, PCs
  <2>2. LoadsAreLed' /\ SingleFlight'
      BY <1>9 DEF Typed, Done, storeVars, Finish, LoadsAreLed, SingleFlight,
         Leads
  <2>3. StoresANewTree'
      BY <1>9 DEF Typed, Done, storeVars, Finish, StoresANewTree,
         SingleFlight, Leads
  <2>4. WaitersHaveALeader'
      BY <1>9 DEF Typed, Done, storeVars, Finish, WaitersHaveALeader,
         LoadsAreLed, Leads
  <2>5. UsedMatchesTrees'
      BY <1>9 DEF Typed, Done, storeVars, Finish, UsedMatchesTrees
  <2>. QED
      BY <2>1, <2>2, <2>3, <2>4, <2>5
<1>10. ASSUME NEW p \in Callers, Woken(p) PROVE IInv'
  <2>1. Typed'
      BY <1>10 DEF Typed, Woken, Goto, storeVars, Finish, PCs
  <2>2. LoadsAreLed' /\ SingleFlight'
      BY <1>10 DEF Typed, Woken, Goto, storeVars, Finish, LoadsAreLed,
         SingleFlight, Leads
  <2>3. StoresANewTree'
      BY <1>10 DEF Typed, Woken, Goto, storeVars, Finish, StoresANewTree,
         SingleFlight, Leads
  <2>4. WaitersHaveALeader'
      BY <1>10 DEF Typed, Woken, Goto, storeVars, Finish, WaitersHaveALeader,
         LoadsAreLed, Leads
  <2>5. UsedMatchesTrees'
      BY <1>10 DEF Typed, Woken, Goto, storeVars, Finish, UsedMatchesTrees
  <2>. QED
      BY <2>1, <2>2, <2>3, <2>4, <2>5
<1>11. ASSUME NEW p \in Callers, List(p) PROVE IInv'
  <2>1. Typed'
      BY <1>11 DEF Typed, List, Goto, storeVars, Finish, PCs
  <2>2. LoadsAreLed' /\ SingleFlight'
      BY <1>11 DEF Typed, List, Goto, storeVars, Finish, LoadsAreLed,
         SingleFlight, Leads
  <2>3. StoresANewTree'
      BY <1>11 DEF Typed, List, Goto, storeVars, Finish, StoresANewTree,
         SingleFlight, Leads
  <2>4. WaitersHaveALeader'
      BY <1>11 DEF Typed, List, Goto, storeVars, Finish, WaitersHaveALeader,
         LoadsAreLed, Leads
  <2>5. UsedMatchesTrees'
      BY <1>11 DEF Typed, List, Goto, storeVars, Finish, UsedMatchesTrees
  <2>. QED
      BY <2>1, <2>2, <2>3, <2>4, <2>5
<1>12. ASSUME NEW h \in Hosts, TimerBackup(h) PROVE IInv'
  <2>1. Typed'
      BY <1>12 DEF Typed, TimerBackup, storeVars, PCs
  <2>2. LoadsAreLed' /\ SingleFlight'
      BY <1>12 DEF Typed, TimerBackup, storeVars, LoadsAreLed, SingleFlight,
         Leads
  <2>3. StoresANewTree'
      BY <1>12 DEF Typed, TimerBackup, storeVars, StoresANewTree,
         SingleFlight, Leads
  <2>4. WaitersHaveALeader'
      BY <1>12 DEF Typed, TimerBackup, storeVars, WaitersHaveALeader,
         LoadsAreLed, Leads
  <2>5. UsedMatchesTrees'
      BY <1>12 DEF Typed, TimerBackup, storeVars, UsedMatchesTrees
  <2>. QED
      BY <2>1, <2>2, <2>3, <2>4, <2>5
<1>13. ASSUME NEW h \in Hosts, ConsoleVerb(h) PROVE IInv'
  <2>1. Typed'
      BY <1>13 DEF Typed, ConsoleVerb, storeVars, PCs
  <2>2. LoadsAreLed' /\ SingleFlight'
      BY <1>13 DEF Typed, ConsoleVerb, storeVars, LoadsAreLed, SingleFlight,
         Leads
  <2>3. StoresANewTree'
      BY <1>13 DEF Typed, ConsoleVerb, storeVars, StoresANewTree,
         SingleFlight, Leads
  <2>4. WaitersHaveALeader'
      BY <1>13 DEF Typed, ConsoleVerb, storeVars, WaitersHaveALeader,
         LoadsAreLed, Leads
  <2>5. UsedMatchesTrees'
      BY <1>13 DEF Typed, ConsoleVerb, storeVars, UsedMatchesTrees
  <2>. QED
      BY <2>1, <2>2, <2>3, <2>4, <2>5
<1>14. ASSUME NEW h \in Hosts, InvalidateTrees(h) PROVE IInv'
  <2>1. Typed'
      BY <1>14 DEF Typed, InvalidateTrees, PCs
  <2>2. LoadsAreLed' /\ SingleFlight'
      BY <1>14 DEF Typed, InvalidateTrees, LoadsAreLed, SingleFlight, Leads
  <2>3. StoresANewTree'
      BY <1>14 DEF Typed, InvalidateTrees, StoresANewTree, SingleFlight,
         Leads, With, Without, Forget, Touch, Restrict
  <2>4. WaitersHaveALeader'
      BY <1>14 DEF Typed, InvalidateTrees, WaitersHaveALeader, LoadsAreLed,
         Leads
  <2>5. UsedMatchesTrees'
      BY <1>14 DEF Typed, InvalidateTrees, UsedMatchesTrees, With, Without,
         Forget, Touch, Restrict
  <2>. QED
      BY <2>1, <2>2, <2>3, <2>4, <2>5
<1>15. CASE UNCHANGED vars
    BY <1>15 DEF vars, Typed, LoadsAreLed, StoresANewTree, SingleFlight, Leads,
       WaitersHaveALeader, UsedMatchesTrees
<1>. QED
    BY <1>1, <1>2, <1>3, <1>4, <1>5, <1>6, <1>7, <1>8, <1>9, <1>10, <1>11,
       <1>12, <1>13, <1>14, <1>15 DEF Next, Local, Remote

-----------------------------------------------------------------------------
(* Results.                                                                *)

\* IInv is an invariant of the store.
THEOREM Invariance == Spec => []IInv
    BY InitIInv, NextIInv, PTL DEF Spec

\* Simultaneous requests for a snapshot share one call to the host.
THEOREM OneFetchPerKey == Spec => []SingleFlight
<1>1. IInv => SingleFlight
    BY DEF IInv
<1>. QED
    BY <1>1, Invariance, PTL

\* Nobody waits on a WaitGroup whose leader is gone.
THEOREM NoLostWaiter == Spec => []WaitersHaveALeader
<1>1. IInv => WaitersHaveALeader
    BY DEF IInv
<1>. QED
    BY <1>1, Invariance, PTL

\* evictLocked always finds in used a tree to remove, so its loop ends.
THEOREM EvictionFindsATree == Spec => []UsedMatchesTrees
<1>1. IInv => UsedMatchesTrees
    BY DEF IInv
<1>. QED
    BY <1>1, Invariance, PTL

-----------------------------------------------------------------------------
(* Induction, for sets of numbers and for sets of finite sets.             *)

\* A set of natural numbers has a least element.
LEMMA Least ==
    ASSUME NEW T \in SUBSET Nat, T # {}
    PROVE  \E x \in T : \A y \in T : x <= y
<1>1. PICK x \in T : \A y \in T : ~ (<<y, x>> \in OpToRel(<, Nat))
    BY WFMin, NatLessThanWellFounded
<1>2. ASSUME NEW y \in T, y < x PROVE FALSE
  <2>1. <<y, x>> \in {ss \in Nat \X Nat : ss[1] < ss[2]}
      BY <1>2
  <2>2. {ss \in Nat \X Nat : ss[1] < ss[2]} = OpToRel(<, Nat)
      BY Zenon DEF OpToRel
  <2>. QED
      BY <1>1, <2>1, <2>2
<1>. QED
    BY <1>2

\* A set with 0 and the successors of its elements is Nat.
LEMMA Induction ==
    ASSUME NEW S \in SUBSET Nat, 0 \in S, \A n \in S : n + 1 \in S
    PROVE  S = Nat
<1>. SUFFICES ASSUME Nat \ S # {} PROVE FALSE
    OBVIOUS
<1>1. PICK x \in Nat \ S : \A y \in Nat \ S : x <= y
    BY Least
<1>2. x # 0 /\ x - 1 \in Nat
    BY <1>1
<1>3. x - 1 \in S
    BY <1>1, <1>2
<1>. QED
    BY <1>1, <1>2, <1>3

\* A family of subsets that has {}, and every set that has all its elements
\* but one in the family, whichever one, has all the subsets.
LEMMA SetInduction ==
    ASSUME NEW U, IsFiniteSet(U), NEW F \in SUBSET (SUBSET U), {} \in F,
           \A s \in SUBSET U : s # {} /\ (\A x \in s : s \ {x} \in F) => s \in F
    PROVE  F = SUBSET U
<1>. SUFFICES ASSUME (SUBSET U) \ F # {} PROVE FALSE
    OBVIOUS
<1>. DEFINE R == (SUBSET U) \ F
            C == {Cardinality(s) : s \in R}
<1>1. \A s \in SUBSET U : IsFiniteSet(s) /\ Cardinality(s) \in Nat
    BY FS_Subset, FS_CardinalityType
<1>2. C \in SUBSET Nat /\ C # {}
    BY <1>1
<1>. HIDE DEF C
<1>3. PICK n \in C : \A m \in C : n <= m
    BY <1>2, Least
<1>4. PICK s \in R : Cardinality(s) = n
    BY <1>3 DEF C
<1>5. ASSUME NEW x \in s PROVE s \ {x} \in F
  <2>1. Cardinality(s \ {x}) = n - 1 /\ n \in Nat
      BY <1>1, <1>4, FS_RemoveElement
  <2>2. s \ {x} \in R => n - 1 \in C
      BY <2>1 DEF C
  <2>3. s \ {x} \in SUBSET U
      OBVIOUS
  <2>. QED
      BY <1>3, <2>1, <2>2, <2>3
<1>. QED
    BY <1>4, <1>5

-----------------------------------------------------------------------------
(* Total: the folds of the community modules, over a finite set.           *)

Pick(s) == CHOOSE x \in s : TRUE
Fold(t, g, s) == IF s = {} THEN 0 ELSE t[Pick(s)].count + g[s \ {Pick(s)}]

\* Total is the value of a function on the subsets, defined by recursion.
LEMMA TotalIsFold ==
    ASSUME NEW t, NEW S, IsFiniteSet(S)
    PROVE  \E g : g = [s \in SUBSET S |-> Fold(t, g, s)] /\ Total(t, S) = g[S]
<1>. DEFINE D(n) == {s \in SUBSET S : Cardinality(s) <= n}
            Good(n) == \E g : g = [s \in D(n) |-> Fold(t, g, s)]
            G == {n \in Nat : Good(n)}
<1>1. \A s \in SUBSET S : IsFiniteSet(s) /\ Cardinality(s) \in Nat
    BY FS_Subset, FS_CardinalityType
<1>2. ASSUME NEW s \in SUBSET S, s # {}
      PROVE  /\ s \ {Pick(s)} \in SUBSET S
             /\ Cardinality(s \ {Pick(s)}) = Cardinality(s) - 1
  <2>1. Pick(s) \in s
      BY <1>2 DEF Pick
  <2>. QED
      BY <1>1, <2>1, FS_RemoveElement
<1>3. 0 \in G
  <2>1. \A s \in D(0) : s = {}
      BY <1>1, FS_EmptySet
  <2>. DEFINE g == [s \in D(0) |-> 0]
  <2>2. \A s \in D(0) : Fold(t, g, s) = 0
      BY <2>1 DEF Fold
  <2>3. g = [s \in D(0) |-> Fold(t, g, s)]
      BY <2>2
  <2>. QED
      BY <2>3
<1>4. ASSUME NEW n \in G PROVE n + 1 \in G
  <2>1. PICK g : g = [s \in D(n) |-> Fold(t, g, s)]
      OBVIOUS
  <2>. DEFINE h == [s \in D(n + 1) |-> IF s \in D(n) THEN g[s] ELSE Fold(t, g, s)]
  <2>2. ASSUME NEW s \in D(n + 1) PROVE h[s] = Fold(t, h, s)
    <3>1. h[s] = Fold(t, g, s)
        BY <2>1
    <3>2. CASE s = {}
        BY <3>1, <3>2 DEF Fold
    <3>3. CASE s # {}
      <4>1. s \ {Pick(s)} \in D(n) /\ s \ {Pick(s)} \in D(n + 1)
          BY <1>1, <1>2, <3>3
      <4>2. h[s \ {Pick(s)}] = g[s \ {Pick(s)}]
          BY <4>1
      <4>. HIDE DEF h
      <4>. QED
          BY <3>1, <3>3, <4>2 DEF Fold
    <3>. QED
        BY <3>2, <3>3
  <2>3. h = [s \in D(n + 1) |-> h[s]]
      OBVIOUS
  <2>. HIDE DEF h
  <2>4. h = [s \in D(n + 1) |-> Fold(t, h, s)]
      BY <2>2, <2>3
  <2>5. Good(n + 1)
      BY <2>4, Zenon
  <2>. HIDE DEF Good
  <2>. QED
      BY <2>5
<1>5. G = Nat
  <2>1. G \in SUBSET Nat
      OBVIOUS
  <2>. HIDE DEF G
  <2>. QED
      BY <1>3, <1>4, <2>1, Induction
<1>6. Cardinality(S) \in Nat /\ D(Cardinality(S)) = SUBSET S
    BY FS_CardinalityType, FS_Subset
<1>7. Good(Cardinality(S))
  <2>. HIDE DEF Good
  <2>. QED
      BY <1>5, <1>6
<1>8. \E g : g = [s \in SUBSET S |-> Fold(t, g, s)]
    BY <1>6, <1>7
<1>. DEFINE f == CHOOSE g : g = [s \in SUBSET S |-> Fold(t, g, s)]
<1>9. f = [s \in SUBSET S |-> Fold(t, f, s)]
    BY <1>8
<1>10. Total(t, S) = f[S]
    BY Zenon DEF Total, MapThenSumSet, MapThenFoldSet, Fold, Pick
<1>. HIDE DEF f
<1>. QED
    BY <1>9, <1>10

\* g[s] is a sum over s: any element may be taken out first.
Sums(t, g, S) ==
    \A s \in SUBSET S :
        /\ g[s] \in Nat /\ (s = {} => g[s] = 0)
        /\ \A x \in s : g[s] = t[x].count + g[s \ {x}]

\* The fold of the library is a sum.
LEMMA TotalSums ==
    ASSUME NEW t, NEW S, IsFiniteSet(S), \A x \in S : t[x].count \in Nat
    PROVE  \E g : Sums(t, g, S) /\ Total(t, S) = g[S]
<1>1. PICK g : g = [s \in SUBSET S |-> Fold(t, g, s)] /\ Total(t, S) = g[S]
    BY TotalIsFold
<1>2. g[{}] = 0
    BY <1>1 DEF Fold
<1>3. ASSUME NEW s \in SUBSET S, s # {}
      PROVE  /\ Pick(s) \in s /\ s \ {Pick(s)} \in SUBSET S
             /\ g[s] = t[Pick(s)].count + g[s \ {Pick(s)}]
  <2>1. Pick(s) \in s
      BY <1>3 DEF Pick
  <2>2. g[s] = Fold(t, g, s)
      BY <1>1
  <2>. QED
      BY <1>3, <2>1, <2>2 DEF Fold
<1>. DEFINE Q(s) == g[s] \in Nat /\ \A x \in s : g[s] = t[x].count + g[s \ {x}]
            F == {s \in SUBSET S : \A r \in SUBSET s : Q(r)}
<1>4. {} \in F
    BY <1>2
<1>5. ASSUME NEW s \in SUBSET S, s # {}, \A x \in s : s \ {x} \in F
      PROVE  s \in F
  <2>. DEFINE y == Pick(s)
  <2>1. y \in s /\ y \in S /\ g[s] = t[y].count + g[s \ {y}] /\ s \ {y} \in F
      BY <1>3, <1>5
  <2>. HIDE DEF y
  <2>2. g[s] \in Nat
      BY <2>1
  <2>3. ASSUME NEW x \in s PROVE g[s] = t[x].count + g[s \ {x}]
    <3>1. CASE x = y
        BY <2>1, <3>1
    <3>2. CASE x # y
      <4>1. x \in s \ {y} /\ y \in s \ {x} /\ x \in S
          BY <2>1, <3>2
      <4>2. g[s \ {y}] = t[x].count + g[(s \ {y}) \ {x}]
          BY <2>1, <4>1
      <4>3. s \ {x} \in F
          BY <1>5
      <4>4. g[s \ {x}] = t[y].count + g[(s \ {x}) \ {y}] /\ g[s \ {x}] \in Nat
          BY <4>1, <4>3
      <4>5. (s \ {x}) \ {y} = (s \ {y}) \ {x}
          OBVIOUS
      <4>6. g[(s \ {y}) \ {x}] \in Nat
          BY <2>1
      <4>7. t[x].count \in Nat /\ t[y].count \in Nat
          BY <2>1, <4>1
      <4>8. /\ g[s] = t[y].count + g[s \ {y}]
            /\ g[s \ {x}] = t[y].count + g[(s \ {y}) \ {x}]
          BY <2>1, <4>4, <4>5
      <4>. HIDE DEF F, Q
      <4>. QED
          BY <4>2, <4>6, <4>7, <4>8
    <3>. QED
        BY <3>1, <3>2
  <2>4. ASSUME NEW r \in SUBSET s, r # s PROVE Q(r)
    <3>1. PICK z \in s : z \notin r
        BY <2>4
    <3>2. r \in SUBSET (s \ {z}) /\ s \ {z} \in F
        BY <1>5, <3>1
    <3>. QED
        BY <3>2
  <2>. QED
      BY <2>2, <2>3, <2>4
<1>6. F = SUBSET S
  <2>1. F \in SUBSET (SUBSET S)
      OBVIOUS
  <2>. HIDE DEF F
  <2>. QED
      BY <1>4, <1>5, <2>1, SetInduction
<1>7. Sums(t, g, S)
    BY <1>2, <1>6 DEF Sums
<1>. QED
    BY <1>1, <1>7

\* What a sum depends on.
LEMMA SumsAgree ==
    ASSUME NEW t, NEW g, NEW S, NEW u, NEW h, NEW T, Sums(t, g, S), Sums(u, h, T),
           NEW A, A \subseteq S, A \subseteq T, IsFiniteSet(A),
           \A x \in A : t[x].count = u[x].count
    PROVE  g[A] = h[A]
<1>. DEFINE F == {s \in SUBSET A : g[s] = h[s]}
<1>1. {} \in F
    BY DEF Sums
<1>2. ASSUME NEW s \in SUBSET A, s # {}, \A x \in s : s \ {x} \in F
      PROVE  s \in F
  <2>1. PICK x \in s : TRUE
      BY <1>2
  <2>2. g[s] = t[x].count + g[s \ {x}] /\ h[s] = u[x].count + h[s \ {x}]
    <3>1. s \in SUBSET S /\ s \in SUBSET T
        OBVIOUS
    <3>. QED
        BY <3>1 DEF Sums
  <2>3. g[s \ {x}] = h[s \ {x}] /\ t[x].count = u[x].count
      BY <1>2
  <2>. QED
      BY <2>2, <2>3
<1>3. F \in SUBSET (SUBSET A)
    OBVIOUS
<1>4. F = SUBSET A
  <2>. HIDE DEF F
  <2>. QED
      BY <1>1, <1>2, <1>3, SetInduction
<1>. QED
    BY <1>4

\* The trees t have sizes on S.
Sized(t, S) == IsFiniteSet(S) /\ \A x \in S : t[x].count \in Nat

\* Total on S by the total without an element; on the trees t and u when they
\* have the same sizes there.
LEMMA TotalStep ==
    ASSUME NEW t, NEW S, Sized(t, S)
    PROVE  /\ Total(t, S) \in Nat
           /\ S = {} => Total(t, S) = 0
           /\ \A x \in S : Total(t, S) = t[x].count + Total(t, S \ {x})
<1>1. PICK g : Sums(t, g, S) /\ Total(t, S) = g[S]
    BY TotalSums DEF Sized
<1>2. Total(t, S) \in Nat /\ (S = {} => Total(t, S) = 0)
    BY <1>1 DEF Sums
<1>3. ASSUME NEW x \in S PROVE Total(t, S) = t[x].count + Total(t, S \ {x})
  <2>1. IsFiniteSet(S \ {x}) /\ \A y \in S \ {x} : t[y].count \in Nat
      BY FS_RemoveElement DEF Sized
  <2>2. PICK h : Sums(t, h, S \ {x}) /\ Total(t, S \ {x}) = h[S \ {x}]
      BY <2>1, TotalSums
  <2>3. g[S \ {x}] = h[S \ {x}]
      BY <1>1, <2>1, <2>2, SumsAgree
  <2>4. g[S] = t[x].count + g[S \ {x}]
      BY <1>1 DEF Sums
  <2>. QED
      BY <1>1, <2>2, <2>3, <2>4
<1>. QED
    BY <1>2, <1>3

\* A sum depends on the sizes of the trees only.
LEMMA TotalAgree ==
    ASSUME NEW t, NEW u, NEW S, Sized(t, S), \A x \in S : u[x].count = t[x].count
    PROVE  Total(u, S) = Total(t, S)
<1>1. PICK g : Sums(t, g, S) /\ Total(t, S) = g[S]
    BY TotalSums DEF Sized
<1>2. PICK h : Sums(u, h, S) /\ Total(u, S) = h[S]
    BY TotalSums DEF Sized
<1>3. g[S] = h[S]
    BY <1>1, <1>2, SumsAgree DEF Sized
<1>. QED
    BY <1>1, <1>2, <1>3

Parts(S, A, B) == A \in SUBSET S /\ B = S \ A

\* Taking trees away takes their entries away.
LEMMA TotalSplit ==
    ASSUME NEW t, NEW S, NEW A, NEW B, Parts(S, A, B), Sized(t, S)
    PROVE  /\ Sized(t, A) /\ Sized(t, B)
           /\ Total(t, A) \in Nat /\ Total(t, B) \in Nat
           /\ Total(t, S) = Total(t, A) + Total(t, B)
<1>0. ASSUME NEW r \in SUBSET S PROVE Sized(t, r) /\ Total(t, r) \in Nat
  <2>1. IsFiniteSet(r)
      BY FS_Subset DEF Sized
  <2>2. Sized(t, r)
      BY <2>1 DEF Sized
  <2>. QED
      BY <2>2, TotalStep
<1>. DEFINE Q(s) == Total(t, S) = Total(t, s) + Total(t, S \ s)
            F == {s \in SUBSET S : Q(s)}
<1>1. {} \in F
  <2>1. S \ {} = S /\ {} \in SUBSET S
      OBVIOUS
  <2>2. Total(t, {}) = 0
      BY <1>0, <2>1, TotalStep
  <2>. QED
      BY <1>0, <2>1, <2>2
<1>2. ASSUME NEW s \in SUBSET S, s # {}, \A x \in s : s \ {x} \in F
      PROVE  s \in F
  <2>1. PICK x \in s : TRUE
      BY <1>2
  <2>2. Total(t, s) = t[x].count + Total(t, s \ {x})
      BY <1>0, TotalStep
  <2>3. /\ S \ (s \ {x}) \in SUBSET S /\ x \in S \ (s \ {x})
        /\ (S \ (s \ {x})) \ {x} = S \ s
      BY <2>1
  <2>4. Total(t, S \ (s \ {x})) = t[x].count + Total(t, S \ s)
      BY <1>0, <2>3, TotalStep
  <2>5. Total(t, S) = Total(t, s \ {x}) + Total(t, S \ (s \ {x}))
      BY <1>2
  <2>6. /\ t[x].count \in Nat /\ Total(t, s \ {x}) \in Nat
        /\ Total(t, S \ s) \in Nat
      BY <1>0 DEF Sized
  <2>. QED
      BY <2>2, <2>4, <2>5, <2>6
<1>3. F = SUBSET S
  <2>1. F \in SUBSET (SUBSET S)
      OBVIOUS
  <2>. HIDE DEF F
  <2>2. IsFiniteSet(S)
      BY DEF Sized
  <2>. QED
      BY <1>1, <1>2, <2>1, <2>2, SetInduction
<1>4. A \in F /\ A \in SUBSET S /\ B \in SUBSET S /\ B = S \ A
    BY <1>3 DEF Parts
<1>. QED
    BY <1>0, <1>4

-----------------------------------------------------------------------------
(* The counter and the bound of the store.                                 *)

\* Of some keys of the store, one is older than the others.
LEMMA Oldest ==
    ASSUME UsedMatchesTrees, UsedIsOrder, IsFiniteSet(DOMAIN trees),
           NEW R \in SUBSET DOMAIN used, R # {}
    PROVE  \E k \in R : used[k] \cap R = {}
<1>. DEFINE C == {Cardinality(used[k]) : k \in R}
<1>1. ASSUME NEW k \in R
      PROVE  IsFiniteSet(used[k]) /\ Cardinality(used[k]) \in Nat
  <2>1. used[k] \in SUBSET DOMAIN trees
      BY DEF UsedMatchesTrees
  <2>. QED
      BY <2>1, FS_Subset, FS_CardinalityType
<1>2. C \in SUBSET Nat /\ C # {}
    BY <1>1
<1>. HIDE DEF C
<1>3. PICK n \in C : \A m \in C : n <= m
    BY <1>2, Least
<1>4. PICK k \in R : Cardinality(used[k]) = n
    BY <1>3 DEF C
<1>5. ASSUME NEW j \in used[k] \cap R PROVE FALSE
  <2>1. used[j] \in SUBSET used[k]
      BY DEF UsedIsOrder
  <2>2. j \notin used[j]
      BY DEF UsedMatchesTrees
  <2>3. used[j] # used[k]
      BY <2>2
  <2>4. /\ Cardinality(used[j]) <= Cardinality(used[k])
        /\ Cardinality(used[j]) # Cardinality(used[k])
      BY <1>1, <2>1, <2>3, FS_Subset
  <2>5. Cardinality(used[j]) \in C
      BY DEF C
  <2>. QED
      BY <1>1, <1>3, <1>4, <2>4, <2>5
<1>. QED
    BY <1>5

\* The trees of the store have sizes, and nodes is their total.
LEMMA StoreSized ==
    ASSUME SInv
    PROVE  /\ IsFiniteSet(DOMAIN trees) /\ Sized(trees, DOMAIN trees)
           /\ nodes = Total(trees, DOMAIN trees) /\ nodes \in Nat
<1>1. DOMAIN trees \in SUBSET Keys
    BY DEF SInv, Filled
<1>2. IsFiniteSet(DOMAIN trees)
    BY <1>1, TreeStoreAssumption, FS_Subset
<1>3. Sized(trees, DOMAIN trees)
    BY <1>2 DEF Sized, SInv, Filled, Tree
<1>4. DOMAIN trees \cap DOMAIN trees = DOMAIN trees
    OBVIOUS
<1>5. nodes = Total(trees, DOMAIN trees)
    BY <1>4 DEF SInv, NodesExact, Weight
<1>. QED
    BY <1>2, <1>3, <1>5, TotalStep

\* What NodesExact says after a step.
LEMMA NodesExactPrime ==
    ASSUME nodes' = Total(trees', DOMAIN trees')
    PROVE  NodesExact'
<1>1. (DOMAIN trees \cap DOMAIN trees)' = DOMAIN trees'
    OBVIOUS
<1>. QED
    BY <1>1 DEF NodesExact, Weight

\* evictLocked and the insertion that follows keep the account, and leave the
\* store within its bound or with the new tree alone.
LEMMA StoreSInv ==
    ASSUME IInv, SInv, NEW p \in Callers, Store(p)
    PROVE  UsedIsOrder' /\ NodesExact' /\ MemoryBound' /\ Filled'
<1>. DEFINE D == DOMAIN trees
            k == key[p]
            c == got[p]
            out == Evicted(c.count)
            kept == D \ out
<1>1. /\ k \in Keys /\ k \notin D /\ c \in Tree /\ c.count \in Nat
      /\ DOMAIN used = D /\ \A x \in D : used[x] \subseteq D \ {x}
    BY DEF IInv, SInv, Store, Typed, StoresANewTree, Filled, Tree,
           UsedMatchesTrees
<1>2. /\ IsFiniteSet(D) /\ Sized(trees, D) /\ nodes = Total(trees, D)
      /\ nodes \in Nat
    BY StoreSized
<1>3. out \in SUBSET D
    BY <1>1 DEF Evicted
<1>4. /\ trees' = With(Without(trees, out), k, c)
      /\ used' = Touch(Forget(used, out), k)
      /\ nodes' = nodes - Weight(out) + c.count
      /\ got' = got /\ pc' = [pc EXCEPT ![p] = "unload"]
    BY DEF Store, Goto
<1>. HIDE DEF out, k, c
<1>5. /\ DOMAIN trees' = kept \cup {k} /\ trees'[k] = c
      /\ \A x \in kept : trees'[x] = trees[x]
  <2>1. /\ DOMAIN Without(trees, out) = kept
        /\ \A x \in kept : Without(trees, out)[x] = trees[x]
      BY DEF Without, Restrict
  <2>. QED
      BY <1>1, <1>4, <2>1 DEF With
<1>6. used' = [x \in kept \cup {k} |->
                IF x = k THEN kept ELSE (used[x] \ out) \ {k}]
  <2>1. Forget(used, out) = [x \in kept |-> used[x] \ out]
      BY <1>1 DEF Forget
  <2>2. kept \ {k} = kept
      BY <1>1
  <2>. QED
      BY <1>4, <2>1, <2>2 DEF Touch, Forget, With
<1>7. UsedIsOrder'
  <2>. SUFFICES ASSUME NEW x \in kept \cup {k}, NEW j \in used'[x]
       PROVE  used'[j] \subseteq used'[x]
      BY <1>6 DEF UsedIsOrder
  <2>1. CASE x = k
    <3>1. j \in kept /\ j # k /\ used'[x] = kept
        BY <1>1, <1>6, <2>1
    <3>2. used'[j] = (used[j] \ out) \ {k} /\ used[j] \subseteq D
        BY <1>1, <1>6, <3>1
    <3>. QED
        BY <3>1, <3>2
  <2>2. CASE x # k
    <3>1. x \in kept /\ used'[x] = (used[x] \ out) \ {k}
        BY <1>6, <2>2
    <3>2. j \in used[x] /\ j \in kept /\ j # k
        BY <1>1, <3>1
    <3>3. used'[j] = (used[j] \ out) \ {k}
        BY <1>6, <3>2
    <3>4. used[j] \subseteq used[x]
        BY <1>1, <3>1, <3>2 DEF SInv, UsedIsOrder
    <3>. QED
        BY <3>1, <3>3, <3>4
  <2>. QED
      BY <2>1, <2>2
<1>8. /\ Total(trees, out) \in Nat /\ Total(trees, kept) \in Nat
      /\ Total(trees, D) = Total(trees, out) + Total(trees, kept)
      /\ Sized(trees, kept)
  <2>1. Parts(D, out, kept)
      BY <1>3 DEF Parts
  <2>. HIDE DEF kept, D
  <2>. QED
      BY <1>2, <2>1, TotalSplit
<1>9. nodes' = Total(trees, kept) + c.count
  <2>1. out \cap DOMAIN trees = out
      BY <1>3
  <2>2. Weight(out) = Total(trees, out)
      BY <2>1 DEF Weight
  <2>. QED
      BY <1>1, <1>2, <1>4, <1>8, <2>2
<1>10. NodesExact'
  <2>1. IsFiniteSet(kept \cup {k})
      BY <1>8, FS_AddElement DEF Sized
  <2>2. Sized(trees', kept \cup {k})
      BY <1>1, <1>5, <1>8, <2>1 DEF Sized
  <2>3. (kept \cup {k}) \ {k} = kept
      BY <1>1
  <2>4. Total(trees', kept \cup {k}) = trees'[k].count + Total(trees', kept)
      BY <2>2, <2>3, TotalStep
  <2>5. Total(trees', kept) = Total(trees, kept)
      BY <1>5, <1>8, TotalAgree
  <2>6. nodes' = Total(trees', DOMAIN trees')
      BY <1>1, <1>5, <1>8, <1>9, <2>4, <2>5
  <2>. QED
      BY <2>6, NodesExactPrime
<1>11. MemoryBound'
  <2>1. CASE kept = {}
    <3>1. DOMAIN trees' = {k}
        BY <1>5, <2>1
    <3>. QED
        BY <3>1, FS_Singleton DEF MemoryBound
  <2>2. CASE kept # {}
    <3>1. kept \in SUBSET DOMAIN used
        BY <1>1
    <3>2. PICK x \in kept : used[x] \cap kept = {}
        BY <1>2, <2>2, <3>1, Oldest DEF IInv, SInv
    <3>3. used[x] \in SUBSET out /\ used[x] \cap D = used[x]
        BY <1>1, <3>2
    <3>4. nodes - Total(trees, used[x]) + c.count <= MaxNodes
      <4>1. x \in DOMAIN used /\ x \notin out
          BY <1>1, <3>2
      <4>2. Weight(used[x]) = Total(trees, used[x])
          BY <3>3 DEF Weight
      <4>3. ~ (nodes - Weight(used[x]) + c.count > MaxNodes)
          BY <4>1 DEF out, Evicted
      <4>4. Total(trees, used[x]) \in Nat
        <5>1. Parts(D, used[x], D \ used[x])
            BY <1>3, <3>3 DEF Parts
        <5>. QED
            BY <1>2, <5>1, TotalSplit
      <4>. QED
          BY <1>1, <1>2, <4>2, <4>3, <4>4, TreeStoreAssumption
    <3>5. /\ Total(trees, used[x]) <= Total(trees, out)
          /\ Total(trees, used[x]) \in Nat
      <4>0. Parts(D, out, kept)
          BY <1>3 DEF Parts
      <4>1. Sized(trees, out)
          BY <1>2, <4>0, TotalSplit
      <4>. DEFINE rest == out \ used[x]
      <4>2. Parts(out, used[x], rest)
          BY <3>3 DEF Parts
      <4>. HIDE DEF rest
      <4>3. /\ Total(trees, used[x]) \in Nat /\ Total(trees, rest) \in Nat
            /\ Total(trees, out) = Total(trees, used[x]) + Total(trees, rest)
          BY <4>1, <4>2, TotalSplit
      <4>. QED
          BY <4>3
    <3>6. nodes' <= MaxNodes
        BY <1>1, <1>2, <1>8, <1>9, <3>4, <3>5, TreeStoreAssumption
    <3>. QED
        BY <3>6 DEF MemoryBound
  <2>. QED
      BY <2>1, <2>2
<1>12. Filled'
  <2>1. DOMAIN trees' \subseteq Keys /\ \A x \in DOMAIN trees' : trees'[x] \in Tree
      BY <1>1, <1>5 DEF SInv, Filled
  <2>2. \A q \in Callers : pc'[q] = "store" => pc[q] = "store"
      BY <1>4 DEF IInv, Typed
  <2>. QED
      BY <1>4, <2>1, <2>2 DEF SInv, Filled
<1>. QED
    BY <1>7, <1>10, <1>11, <1>12

\* So does InvalidateTrees.
LEMMA InvalidateSInv ==
    ASSUME IInv, SInv, NEW h \in Hosts, InvalidateTrees(h)
    PROVE  UsedIsOrder' /\ NodesExact' /\ MemoryBound' /\ Filled'
<1>. DEFINE D == DOMAIN trees
            out == KeysOf(h)
            kept == D \ out
<1>1. DOMAIN used = D /\ \A x \in D : used[x] \subseteq D \ {x}
    BY DEF IInv, UsedMatchesTrees
<1>2. /\ IsFiniteSet(D) /\ Sized(trees, D) /\ nodes = Total(trees, D)
      /\ nodes \in Nat
    BY StoreSized
<1>3. out \in SUBSET D
    BY DEF KeysOf
<1>4. /\ trees' = Without(trees, out) /\ used' = Forget(used, out)
      /\ nodes' = nodes - Weight(out) /\ got' = got /\ pc' = pc
    BY DEF InvalidateTrees
<1>. HIDE DEF out
<1>5. DOMAIN trees' = kept /\ \A x \in kept : trees'[x] = trees[x]
    BY <1>4 DEF Without, Restrict
<1>6. used' = [x \in kept |-> used[x] \ out]
    BY <1>1, <1>4 DEF Forget
<1>7. UsedIsOrder'
  <2>. SUFFICES ASSUME NEW x \in kept, NEW j \in used'[x]
       PROVE  used'[j] \subseteq used'[x]
      BY <1>6 DEF UsedIsOrder
  <2>1. j \in used[x] /\ j \in kept /\ used'[x] = used[x] \ out
      BY <1>1, <1>6
  <2>2. used'[j] = used[j] \ out /\ used[j] \subseteq used[x]
      BY <1>1, <1>6, <2>1 DEF SInv, UsedIsOrder
  <2>. QED
      BY <2>1, <2>2
<1>8. /\ Total(trees, out) \in Nat /\ Total(trees, kept) \in Nat
      /\ Total(trees, D) = Total(trees, out) + Total(trees, kept)
      /\ Sized(trees, kept)
  <2>1. Parts(D, out, kept)
      BY <1>3 DEF Parts
  <2>. HIDE DEF kept, D
  <2>. QED
      BY <1>2, <2>1, TotalSplit
<1>9. nodes' = Total(trees, kept)
  <2>1. out \cap DOMAIN trees = out
      BY <1>3
  <2>2. Weight(out) = Total(trees, out)
      BY <2>1 DEF Weight
  <2>. QED
      BY <1>2, <1>4, <1>8, <2>2
<1>10. NodesExact'
  <2>1. Total(trees', kept) = Total(trees, kept)
      BY <1>5, <1>8, TotalAgree
  <2>. QED
      BY <1>5, <1>9, <2>1, NodesExactPrime
<1>11. MemoryBound'
  <2>1. CASE nodes <= MaxNodes
      BY <1>2, <1>8, <1>9, <2>1, TreeStoreAssumption DEF MemoryBound
  <2>2. CASE ~ (nodes <= MaxNodes)
    <3>1. PICK x : D = {x}
        BY <1>2, <2>2, FS_Singleton DEF SInv, MemoryBound
    <3>2. kept = {} \/ kept = D
        BY <3>1
    <3>3. CASE kept = {}
        BY <1>8, <1>9, <3>3, TotalStep, TreeStoreAssumption DEF MemoryBound
    <3>4. CASE kept = D
      <4>1. Cardinality(DOMAIN trees') = 1
          BY <1>5, <3>1, <3>4, FS_Singleton
      <4>. QED
          BY <4>1 DEF MemoryBound
    <3>. QED
        BY <3>2, <3>3, <3>4
  <2>. QED
      BY <2>1, <2>2
<1>12. Filled'
    BY <1>4, <1>5 DEF SInv, Filled
<1>. QED
    BY <1>7, <1>10, <1>11, <1>12

\* newTreeStore: an empty store.
LEMMA InitSInv == Init => SInv
<1>. SUFFICES ASSUME Init PROVE SInv
    OBVIOUS
<1>1. DOMAIN trees = {} /\ DOMAIN used = {} /\ nodes = 0
    BY DEF Init
<1>2. Filled /\ UsedIsOrder
    BY <1>1 DEF Init, Filled, UsedIsOrder
<1>3. Backed
    BY TreeStoreAssumption DEF Init, Backed
<1>4. MemoryBound
    BY <1>1, TreeStoreAssumption DEF MemoryBound
<1>5. NodesExact
  <2>1. Sized(trees, {})
      BY FS_EmptySet DEF Sized
  <2>2. Total(trees, {}) = 0
      BY <2>1, TotalStep
  <2>3. DOMAIN trees \cap DOMAIN trees = {}
      BY <1>1
  <2>. QED
      BY <1>1, <2>2, <2>3 DEF NodesExact, Weight
<1>. QED
    BY <1>2, <1>3, <1>4, <1>5 DEF SInv

\* Nothing happens to the store.
LEMMA StoreFrame ==
    ASSUME SInv, UNCHANGED <<trees, used, nodes>>
    PROVE  UsedIsOrder' /\ NodesExact' /\ MemoryBound'
BY DEF SInv, UsedIsOrder, NodesExact, MemoryBound, Weight

\* A hit dates the tree last, and counts nothing.
LEMMA HitSInv ==
    ASSUME IInv, SInv, NEW p \in Callers, Hit(p)
    PROVE  UsedIsOrder' /\ NodesExact' /\ MemoryBound'
<1>1. UNCHANGED <<trees, nodes>>
    BY DEF Hit
<1>2. NodesExact' /\ MemoryBound'
    BY <1>1 DEF SInv, NodesExact, MemoryBound, Weight
<1>3. PICK k \in DOMAIN used : k = key[p]
    BY DEF Hit, IInv, UsedMatchesTrees
<1>4. used' = [x \in DOMAIN used |->
                IF x = k THEN DOMAIN used \ {k} ELSE used[x] \ {k}]
    BY <1>3 DEF Hit, Touch, With, Forget
<1>5. \A x \in DOMAIN used : used[x] \subseteq DOMAIN used
    BY DEF IInv, UsedMatchesTrees
<1>6. UsedIsOrder'
  <2>. SUFFICES ASSUME NEW x \in DOMAIN used, NEW j \in used'[x]
       PROVE  used'[j] \subseteq used'[x]
      BY <1>4 DEF UsedIsOrder
  <2>1. j \in DOMAIN used /\ j # k
      BY <1>4, <1>5
  <2>2. used'[j] = used[j] \ {k} /\ used[j] \subseteq DOMAIN used
      BY <1>4, <1>5, <2>1
  <2>3. CASE x = k
      BY <1>4, <2>2, <2>3
  <2>4. CASE x # k
    <3>1. j \in used[x] /\ used'[x] = used[x] \ {k}
        BY <1>4, <2>4
    <3>2. used[j] \subseteq used[x]
        BY <3>1 DEF SInv, UsedIsOrder
    <3>. QED
        BY <2>2, <3>1, <3>2
  <2>. QED
      BY <2>3, <2>4
<1>. QED
    BY <1>2, <1>6

\* Every step keeps the store filled with what was fetched,
LEMMA NextFilled ==
    ASSUME IInv, SInv, [Next]_vars PROVE Filled'
<1>0. Filled /\ Backed /\ pc \in [Callers -> PCs] /\ key \in [Callers -> Keys \cup {None}]
    BY DEF IInv, SInv, Typed
<1>1. ASSUME UNCHANGED <<trees, got>>,
             \A q \in Callers : pc'[q] = "store" => pc[q] = "store"
      PROVE  Filled'
    BY <1>0, <1>1 DEF Filled
<1>2. ASSUME NEW p \in Callers, UNCHANGED trees,
             got' = got \/ got' = [got EXCEPT ![p] = None],
             \A q \in Callers : pc'[q] = "store" => pc[q] = "store" /\ q # p
      PROVE  Filled'
    BY <1>0, <1>2 DEF Filled
<1>3. ASSUME NEW p \in Callers,
             Browse(p) \/ Hit(p) \/ Wait(p) \/ Lead(p) \/ FetchFails(p) \/ Unload(p)
      PROVE  Filled'
  <2>1. /\ UNCHANGED <<trees, got>>
        /\ \E w \in PCs \ {"store"} : pc' = [pc EXCEPT ![p] = w]
      BY <1>3 DEF Browse, Hit, Wait, Lead, FetchFails, Unload, Goto, storeVars, PCs
  <2>. QED
      BY <1>0, <1>1, <2>1
<1>4. ASSUME NEW p \in Callers, FetchOK(p) PROVE Filled'
  <2>1. PICK k \in Keys : key[p] = k
      BY <1>4 DEF FetchOK, IInv, Typed
  <2>2. Content(k) \in Versions
    <3>1. k[1] \in Hosts
        BY TreeStoreAssumption
    <3>2. 0 \in Versions
        BY TreeStoreAssumption DEF Versions
    <3>3. repo[k[1]] \in Versions
        BY <1>0, <3>1, TreeStoreAssumption DEF Backed, Versions
    <3>. QED
        BY <3>2, <3>3 DEF Content
  <2>. DEFINE c == [version |-> Content(k), count |-> Size(k, Content(k))]
  <2>3. c \in Tree
      BY <2>2, TreeStoreAssumption DEF Tree
  <2>4. /\ got' = [got EXCEPT ![p] = c] /\ trees' = trees
        /\ pc' = [pc EXCEPT ![p] = "store"]
      BY <1>4, <2>1 DEF FetchOK, Goto, storeVars
  <2>. HIDE DEF c
  <2>. QED
      BY <1>0, <2>3, <2>4 DEF Filled
<1>5. ASSUME NEW p \in Callers, Store(p) PROVE Filled'
    BY <1>5, StoreSInv
<1>6. ASSUME NEW p \in Callers, Done(p) PROVE Filled'
  <2>1. /\ trees' = trees
        /\ got' = got \/ got' = [got EXCEPT ![p] = None]
      BY <1>6 DEF Done, Finish, storeVars
  <2>2. \A q \in Callers : pc'[q] = "store" => pc[q] = "store" /\ q # p
      BY <1>6 DEF Done
  <2>. QED
      BY <1>2, <2>1, <2>2
<1>7. ASSUME NEW p \in Callers, Woken(p) \/ List(p) PROVE Filled'
  <2>1. /\ trees' = trees
        /\ got' = got \/ got' = [got EXCEPT ![p] = None]
        /\ \E w \in PCs \ {"store"} : pc' = [pc EXCEPT ![p] = w]
      BY <1>7 DEF Woken, List, Finish, Goto, storeVars, PCs
  <2>. QED
      BY <1>0, <1>2, <2>1
<1>8. ASSUME NEW h \in Hosts, TimerBackup(h) \/ ConsoleVerb(h) PROVE Filled'
    BY <1>1, <1>8 DEF TimerBackup, ConsoleVerb, storeVars
<1>9. ASSUME NEW h \in Hosts, InvalidateTrees(h) PROVE Filled'
    BY <1>9, InvalidateSInv
<1>10. CASE UNCHANGED vars
    BY <1>1, <1>10 DEF vars
<1>. QED
    BY <1>3, <1>4, <1>5, <1>6, <1>7, <1>8, <1>9, <1>10 DEF Next, Local, Remote

\* and the snapshots counted.
LEMMA NextBacked == ASSUME Backed, [Next]_vars PROVE Backed'
<1>1. ASSUME UNCHANGED <<repo, ops>>, outdated' \subseteq outdated PROVE Backed'
    BY <1>1 DEF Backed
<1>2. ASSUME NEW h \in Hosts, TimerBackup(h) PROVE Backed'
  <2>1. /\ ops' = [timer |-> ops.timer + 1, console |-> ops.console]
        /\ ops.timer < MaxTimer
        /\ repo' = [repo EXCEPT ![h] = @ + 1] /\ outdated' = outdated
      BY <1>2 DEF TimerBackup, Backed
  <2>2. ops'.timer = ops.timer + 1 /\ ops'.console = ops.console
      BY <2>1
  <2>3. ops' \in [timer : 0..MaxTimer, console : 0..MaxConsole]
      BY <2>1, TreeStoreAssumption DEF Backed
  <2>. QED
      BY <2>1, <2>2, <2>3 DEF Backed
<1>3. ASSUME NEW h \in Hosts, ConsoleVerb(h) PROVE Backed'
  <2>1. /\ ops' = [timer |-> ops.timer, console |-> ops.console + 1]
        /\ ops.console < MaxConsole
        /\ repo' = [repo EXCEPT ![h] = @ + 1] \/ repo' = repo
        /\ outdated' = outdated \cup {h}
      BY <1>3 DEF ConsoleVerb, Backed
  <2>2. ops'.timer = ops.timer /\ ops'.console = ops.console + 1
      BY <2>1
  <2>3. ops' \in [timer : 0..MaxTimer, console : 0..MaxConsole]
      BY <2>1, TreeStoreAssumption DEF Backed
  <2>. QED
      BY <2>1, <2>2, <2>3 DEF Backed
<1>4. ASSUME NEW h \in Hosts, InvalidateTrees(h) PROVE Backed'
    BY <1>1, <1>4 DEF InvalidateTrees
<1>5. ASSUME NEW p \in Callers, Browse(p) \/ Local(p) \/ Remote(p) PROVE Backed'
  <2>1. UNCHANGED hostVars
      BY <1>5 DEF Browse, Local, Remote, Hit, Wait, Lead, FetchOK, FetchFails, Store,
         Unload, Done, Woken, List
  <2>. QED
      BY <1>1, <2>1 DEF hostVars
<1>6. CASE UNCHANGED vars
    BY <1>1, <1>6 DEF vars
<1>. QED
    BY <1>2, <1>3, <1>4, <1>5, <1>6 DEF Next

\* Every step preserves the invariant of the store.
LEMMA NextSInv == IInv /\ SInv /\ [Next]_vars => SInv'
<1>. SUFFICES ASSUME IInv, SInv, [Next]_vars PROVE SInv'
    OBVIOUS
<1>1. Filled' /\ Backed'
    BY NextFilled, NextBacked DEF SInv
<1>2. UsedIsOrder' /\ NodesExact' /\ MemoryBound'
  <2>1. ASSUME NEW p \in Callers, Hit(p)
        PROVE  UsedIsOrder' /\ NodesExact' /\ MemoryBound'
      BY <2>1, HitSInv
  <2>2. ASSUME NEW p \in Callers, Store(p)
        PROVE  UsedIsOrder' /\ NodesExact' /\ MemoryBound'
      BY <2>2, StoreSInv
  <2>3. ASSUME NEW h \in Hosts, InvalidateTrees(h)
        PROVE  UsedIsOrder' /\ NodesExact' /\ MemoryBound'
      BY <2>3, InvalidateSInv
  <2>4. ASSUME NEW p \in Callers,
               Browse(p) \/ Wait(p) \/ Lead(p) \/ FetchOK(p) \/ FetchFails(p)
               \/ Unload(p) \/ Done(p) \/ Woken(p) \/ List(p)
        PROVE  UNCHANGED <<trees, used, nodes>>
      BY <2>4 DEF Browse, Wait, Lead, FetchOK, FetchFails, Unload, Done, Woken,
         List, storeVars
  <2>5. ASSUME NEW h \in Hosts, TimerBackup(h) \/ ConsoleVerb(h)
        PROVE  UNCHANGED <<trees, used, nodes>>
      BY <2>5 DEF TimerBackup, ConsoleVerb, storeVars
  <2>6. UNCHANGED vars => UNCHANGED <<trees, used, nodes>>
      BY DEF vars
  <2>. QED
      BY <2>1, <2>2, <2>3, <2>4, <2>5, <2>6, StoreFrame DEF Next, Local, Remote
<1>. QED
    BY <1>1, <1>2 DEF SInv

\* The store always accounts for what it holds.
THEOREM StoreInvariance == Spec => []SInv
BY InitSInv, NextSInv, Invariance, PTL DEF Spec

\* treeStore.nodes is the sum of the entries of the trees kept, whatever
\* loads, evictions and invalidations interleave and whatever their sizes.
THEOREM NodesAreCounted == Spec => []NodesExact
<1>1. SInv => NodesExact
    BY DEF SInv
<1>. QED
    BY <1>1, StoreInvariance, PTL

\* evictLocked bounds the memory: no more than maxNodes entries, but for one
\* tree that is larger alone.
THEOREM MemoryIsBounded == Spec => []MemoryBound
<1>1. SInv => MemoryBound
    BY DEF SInv
<1>. QED
    BY <1>1, StoreInvariance, PTL

\* The variables of TreeStore always have their type.
THEOREM TypeCorrect == Spec => []TypeOK
<1>1. IInv /\ SInv => TypeOK
  <2>. SUFFICES ASSUME IInv, SInv PROVE TypeOK
      OBVIOUS
  <2>1. nodes \in Nat
      BY StoreSized
  <2>2. /\ DOMAIN used \subseteq Keys
        /\ \A k \in DOMAIN used : used[k] \subseteq Keys
      BY DEF IInv, SInv, UsedMatchesTrees, Filled
  <2>3. ASSUME NEW k \in DOMAIN loading PROVE k \in Keys /\ loading[k] \in Callers
      BY DEF IInv, LoadsAreLed, Leads, Typed
  <2>4. repo \in [Hosts -> Versions]
      BY TreeStoreAssumption DEF SInv, Backed, Versions
  <2>. QED
      BY <2>1, <2>2, <2>3, <2>4 DEF TypeOK, IInv, SInv, Typed, Filled, Backed
<1>. QED
    BY <1>1, Invariance, StoreInvariance, PTL

-----------------------------------------------------------------------------
(* The loop of evictLocked.                                                *)

\* The maps of the store are functions.
IsMap(f) == f = [x \in DOMAIN f |-> f[x]]
Maps == IsMap(used) /\ IsMap(trees)

\* What the operations on the maps make are functions.
LEMMA MadeAreMaps ==
    ASSUME NEW f, NEW S, NEW k, NEW v
    PROVE  IsMap(Without(f, S)) /\ IsMap(With(f, k, v)) /\ IsMap(Forget(f, S))
           /\ IsMap(Touch(f, k)) /\ IsMap(<< >>)
<1>1. IsMap(Without(f, S))
    BY DEF IsMap, Without, Restrict
<1>2. IsMap(Forget(f, S))
    BY DEF IsMap, Forget
<1>3. ASSUME NEW g, NEW u PROVE IsMap(With(g, k, u))
    BY DEF IsMap, With
<1>4. IsMap(Touch(f, k))
    BY <1>3 DEF Touch
<1>5. IsMap(<< >>)
    BY DEF IsMap
<1>. QED
    BY <1>1, <1>2, <1>3, <1>4, <1>5

\* The maps are functions in every state.
THEOREM MapsInvariance == Spec => []Maps
<1>1. Init => Maps
    BY MadeAreMaps DEF Init, Maps
<1>2. Maps /\ [Next]_vars => Maps'
  <2>. SUFFICES ASSUME Maps, [Next]_vars PROVE Maps'
      OBVIOUS
  <2>1. CASE UNCHANGED <<used, trees>>
      BY <2>1 DEF Maps, IsMap
  <2>2. ASSUME NEW p \in Callers, Hit(p) PROVE Maps'
    <3>1. IsMap(Touch(used, key[p])) /\ used' = Touch(used, key[p])
          /\ trees' = trees
        BY <2>2, MadeAreMaps DEF Hit
    <3>. QED
        BY <3>1 DEF Maps, IsMap
  <2>3. ASSUME NEW p \in Callers, Store(p) PROVE Maps'
    <3>. DEFINE out == Evicted(got[p].count)
    <3>1. /\ used' = Touch(Forget(used, out), key[p])
          /\ trees' = With(Without(trees, out), key[p], got[p])
        BY <2>3 DEF Store
    <3>. HIDE DEF out
    <3>2. /\ IsMap(Touch(Forget(used, out), key[p]))
          /\ IsMap(With(Without(trees, out), key[p], got[p]))
        BY MadeAreMaps
    <3>. QED
        BY <3>1, <3>2 DEF Maps, IsMap
  <2>4. ASSUME NEW h \in Hosts, InvalidateTrees(h) PROVE Maps'
    <3>1. /\ used' = Forget(used, KeysOf(h)) /\ trees' = Without(trees, KeysOf(h))
        BY <2>4 DEF InvalidateTrees
    <3>2. IsMap(Forget(used, KeysOf(h))) /\ IsMap(Without(trees, KeysOf(h)))
        BY MadeAreMaps
    <3>. QED
        BY <3>1, <3>2 DEF Maps, IsMap
  <2>5. ASSUME NEW p \in Callers, Browse(p) \/ Wait(p) \/ Lead(p) \/ FetchOK(p)
                    \/ FetchFails(p) \/ Unload(p) \/ Done(p) \/ Woken(p) \/ List(p)
        PROVE  UNCHANGED <<used, trees>>
      BY <2>5 DEF Browse, Wait, Lead, FetchOK, FetchFails, Unload, Done, Woken,
                  List, storeVars
  <2>6. ASSUME NEW h \in Hosts, TimerBackup(h) \/ ConsoleVerb(h)
        PROVE  UNCHANGED <<used, trees>>
      BY <2>6 DEF TimerBackup, ConsoleVerb, storeVars
  <2>7. CASE UNCHANGED vars
      BY <2>1, <2>7 DEF vars
  <2>. QED
      BY <2>1, <2>2, <2>3, <2>4, <2>5, <2>6, <2>7 DEF Next, Local, Remote
<1>. QED
    BY <1>1, <1>2, PTL DEF Spec

\* Where the loop is after turn i, by where it was before it.
AtTurn(g, i, incoming) ==
    IF i = 0 THEN [used |-> used, trees |-> trees, nodes |-> nodes]
    ELSE IF Full(g[i - 1], incoming) THEN Turn(g[i - 1])
    ELSE g[i - 1]

\* Turns is well defined: each turn depends on the one before.
LEMMA TurnsDef ==
    ASSUME NEW incoming, NEW N \in Nat, N = Cardinality(DOMAIN used)
    PROVE  Turns(incoming) =
                [i \in 0..N |-> AtTurn(Turns(incoming), i, incoming)]
<1>. DEFINE Good(n) == \E g : g = [i \in 0..n |-> AtTurn(g, i, incoming)]
            G == {n \in Nat : Good(n)}
<1>1. 0 \in G
  <2>. DEFINE g == [i \in 0..0 |-> [used |-> used, trees |-> trees, nodes |-> nodes]]
  <2>1. \A i \in 0..0 : AtTurn(g, i, incoming) = g[i]
      BY DEF AtTurn
  <2>2. g = [i \in 0..0 |-> g[i]]
      OBVIOUS
  <2>. HIDE DEF g
  <2>3. g = [i \in 0..0 |-> AtTurn(g, i, incoming)]
      BY <2>1, <2>2
  <2>4. Good(0)
      BY <2>3, Zenon
  <2>. HIDE DEF Good
  <2>. QED
      BY <2>4
<1>2. ASSUME NEW n \in G PROVE n + 1 \in G
  <2>0. n \in Nat
      OBVIOUS
  <2>1. PICK g : g = [i \in 0..n |-> AtTurn(g, i, incoming)]
      OBVIOUS
  <2>. DEFINE h == [i \in 0..(n + 1) |->
                        IF i = n + 1 THEN AtTurn(g, i, incoming) ELSE g[i]]
  <2>2. ASSUME NEW i \in 0..(n + 1) PROVE h[i] = AtTurn(h, i, incoming)
    <3>1. h[i] = AtTurn(g, i, incoming)
        BY <2>0, <2>1
    <3>2. i = 0 \/ (i - 1 \in 0..(n + 1) /\ i - 1 # n + 1)
        BY <2>0
    <3>3. i = 0 \/ h[i - 1] = g[i - 1]
        BY <3>2
    <3>. HIDE DEF h
    <3>. QED
        BY <3>1, <3>3 DEF AtTurn
  <2>3. h = [i \in 0..(n + 1) |-> h[i]]
      OBVIOUS
  <2>. HIDE DEF h
  <2>4. h = [i \in 0..(n + 1) |-> AtTurn(h, i, incoming)]
      BY <2>2, <2>3
  <2>5. Good(n + 1)
      BY <2>4, Zenon
  <2>. HIDE DEF Good
  <2>. QED
      BY <2>0, <2>5
<1>3. G = Nat
  <2>1. G \in SUBSET Nat
      OBVIOUS
  <2>. HIDE DEF G
  <2>. QED
      BY <1>1, <1>2, <2>1, Induction
<1>4. Good(N)
    BY <1>3
<1>. DEFINE f == CHOOSE g : g = [i \in 0..N |-> AtTurn(g, i, incoming)]
<1>5. f = [i \in 0..N |-> AtTurn(f, i, incoming)]
    BY <1>4
<1>6. Turns(incoming) = f
    BY Zenon DEF Turns, AtTurn
<1>. HIDE DEF f
<1>. QED
    BY <1>5, <1>6

\* The store without the trees of R.
Left(R) == [used |-> Forget(used, R), trees |-> Without(trees, R),
            nodes |-> nodes - Total(trees, R)]

\* R is what a few turns may have removed: its trees are older than the others,
\* and did not leave enough room.
Removed(R, incoming) ==
    /\ R \in SUBSET Evicted(incoming)
    /\ \A k \in R : used[k] \subseteq R

\* The trees removed are older than each of the others.
LEMMA RemovedAreOlder ==
    ASSUME UsedMatchesTrees, NEW R \in SUBSET DOMAIN used,
           \A k \in R : used[k] \subseteq R, NEW k \in DOMAIN used, k \notin R
    PROVE  R \subseteq used[k]
BY DEF UsedMatchesTrees

\* One turn removes one tree more.
LEMMA TurnRemoves ==
    ASSUME IInv, SInv, NEW incoming \in Nat, NEW R, Removed(R, incoming),
           Full(Left(R), incoming)
    PROVE  \E k \in DOMAIN used \ R :
                /\ Removed(R \cup {k}, incoming)
                /\ Turn(Left(R)) = Left(R \cup {k})
<1>. DEFINE D == DOMAIN trees
<1>1. /\ DOMAIN used = D /\ IsFiniteSet(D) /\ Sized(trees, D) /\ nodes \in Nat
      /\ UsedMatchesTrees /\ UsedIsOrder
    BY StoreSized DEF IInv, SInv, UsedMatchesTrees
<1>2. R \in SUBSET D
    BY <1>1 DEF Removed, Evicted
<1>3. /\ DOMAIN Left(R).used = D \ R /\ DOMAIN Left(R).trees = D \ R
      /\ \A k \in D \ R : Left(R).used[k] = used[k] \ R
      /\ \A k \in D \ R : Left(R).trees[k] = trees[k]
      /\ Left(R).nodes = nodes - Total(trees, R)
    BY <1>1 DEF Left, Forget, Without, Restrict
<1>. DEFINE k == CHOOSE k \in DOMAIN Left(R).used : Left(R).used[k] = {}
<1>4. k \in D \ R /\ used[k] \ R = {}
  <2>1. D \ R # {}
      BY <1>3 DEF Full
  <2>2. PICK j \in D \ R : used[j] \cap (D \ R) = {}
      BY <1>1, <2>1, Oldest
  <2>3. used[j] \subseteq D
      BY <1>1 DEF UsedMatchesTrees
  <2>4. j \in DOMAIN Left(R).used /\ Left(R).used[j] = {}
      BY <1>3, <2>2, <2>3
  <2>5. k \in DOMAIN Left(R).used /\ Left(R).used[k] = {}
      BY <2>4
  <2>. QED
      BY <1>3, <2>5
<1>5. used[k] = R
  <2>1. R \subseteq used[k]
      BY <1>1, <1>2, <1>4, RemovedAreOlder DEF Removed
  <2>. QED
      BY <1>4, <2>1
<1>6. Turn(Left(R)) =
        [used |-> Forget(Left(R).used, {k}), trees |-> Without(Left(R).trees, {k}),
         nodes |-> Left(R).nodes - (IF k \in DOMAIN Left(R).trees
                                    THEN Left(R).trees[k].count ELSE 0)]
    BY DEF Turn
<1>. HIDE DEF k
<1>7. Removed(R \cup {k}, incoming)
  <2>1. R \cap DOMAIN trees = R
      BY <1>2
  <2>2. Weight(used[k]) = Total(trees, R)
      BY <1>5, <2>1 DEF Weight
  <2>3. k \in Evicted(incoming)
      BY <1>1, <1>3, <1>4, <2>2 DEF Full, Evicted
  <2>. QED
      BY <1>5, <2>3 DEF Removed
<1>8. Total(trees, R \cup {k}) = trees[k].count + Total(trees, R)
  <2>. DEFINE Q == R \cup {k}
              B == D \ Q
  <2>1. Parts(D, Q, B)
      BY <1>2, <1>4 DEF Parts
  <2>. HIDE DEF Q, B
  <2>2. Sized(trees, Q)
      BY <1>1, <2>1, TotalSplit
  <2>3. Q \ {k} = R /\ k \in Q
      BY <1>4 DEF Q
  <2>. QED
      BY <2>2, <2>3, TotalStep DEF Q
<1>9. Total(trees, R) \in Nat /\ trees[k].count \in Nat
  <2>. DEFINE B == D \ R
  <2>1. Parts(D, R, B)
      BY <1>2 DEF Parts
  <2>. HIDE DEF B
  <2>. QED
      BY <1>1, <1>4, <2>1, TotalSplit DEF Sized
<1>10. Forget(Left(R).used, {k}) = Forget(used, R \cup {k})
  <2>1. Forget(Left(R).used, {k}) = [x \in (D \ R) \ {k} |-> (used[x] \ R) \ {k}]
      BY <1>3 DEF Forget
  <2>2. Forget(used, R \cup {k}) = [x \in D \ (R \cup {k}) |-> used[x] \ (R \cup {k})]
      BY <1>1 DEF Forget
  <2>3. (D \ R) \ {k} = D \ (R \cup {k})
      OBVIOUS
  <2>4. \A x \in D : (used[x] \ R) \ {k} = used[x] \ (R \cup {k})
      OBVIOUS
  <2>. QED
      BY <2>1, <2>2, <2>3, <2>4
<1>11. Without(Left(R).trees, {k}) = Without(trees, R \cup {k})
  <2>1. Without(Left(R).trees, {k}) = [x \in (D \ R) \ {k} |-> trees[x]]
      BY <1>3 DEF Without, Restrict
  <2>2. Without(trees, R \cup {k}) = [x \in D \ (R \cup {k}) |-> trees[x]]
      BY DEF Without, Restrict
  <2>3. (D \ R) \ {k} = D \ (R \cup {k})
      OBVIOUS
  <2>. QED
      BY <2>1, <2>2, <2>3
<1>12. Left(R).nodes - (IF k \in DOMAIN Left(R).trees
                        THEN Left(R).trees[k].count ELSE 0)
        = nodes - Total(trees, R \cup {k})
  <2>1. Left(R).trees[k].count = trees[k].count /\ k \in DOMAIN Left(R).trees
      BY <1>3, <1>4
  <2>2. Left(R).nodes = nodes - Total(trees, R)
      BY <1>3
  <2>. QED
      BY <1>1, <1>8, <1>9, <2>1, <2>2
<1>13. Turn(Left(R)) = Left(R \cup {k})
    BY <1>6, <1>10, <1>11, <1>12 DEF Left
<1>. QED
    BY <1>1, <1>4, <1>7, <1>13

\* When there is room, or nothing more to remove, what Evicted says is gone.
LEMMA RoomForIt ==
    ASSUME IInv, SInv, NEW incoming \in Nat, NEW R, Removed(R, incoming),
           ~ Full(Left(R), incoming)
    PROVE  R = Evicted(incoming)
<1>. DEFINE D == DOMAIN trees
<1>1. /\ DOMAIN used = D /\ IsFiniteSet(D) /\ Sized(trees, D) /\ nodes \in Nat
      /\ UsedMatchesTrees
    BY StoreSized DEF IInv, UsedMatchesTrees
<1>2. R \in SUBSET D /\ R \subseteq Evicted(incoming)
    BY <1>1 DEF Removed, Evicted
<1>3. ASSUME NEW k \in Evicted(incoming), k \notin R PROVE FALSE
  <2>1. k \in D /\ nodes - Weight(used[k]) + incoming > MaxNodes
      BY <1>1 DEF Evicted
  <2>2. used[k] \in SUBSET D
      BY <1>1, <2>1 DEF UsedMatchesTrees
  <2>3. used[k] \cap DOMAIN trees = used[k]
      BY <2>2
  <2>4. Weight(used[k]) = Total(trees, used[k])
      BY <2>3 DEF Weight
  <2>5. R \in SUBSET used[k]
      BY <1>1, <1>2, <1>3, <2>1, RemovedAreOlder DEF Removed
  <2>6. nodes - Total(trees, R) + incoming <= MaxNodes
    <3>1. k \in DOMAIN Left(R).trees /\ Left(R).nodes = nodes - Total(trees, R)
        BY <1>3, <2>1 DEF Left, Without, Restrict
    <3>2. Total(trees, R) \in Nat
      <4>. DEFINE B == D \ R
      <4>1. Parts(D, R, B)
          BY <1>2 DEF Parts
      <4>. HIDE DEF B
      <4>. QED
          BY <1>1, <4>1, TotalSplit
    <3>. QED
        BY <1>1, <3>1, <3>2, TreeStoreAssumption DEF Full
  <2>. DEFINE U == used[k]
              A == U \ R
              B == D \ U
  <2>7. Parts(D, U, B) /\ Parts(U, R, A)
      BY <2>2, <2>5 DEF Parts
  <2>. HIDE DEF U, A, B
  <2>8. Sized(trees, U) /\ Total(trees, U) \in Nat
      BY <1>1, <2>7, TotalSplit
  <2>9. /\ Total(trees, R) \in Nat /\ Total(trees, A) \in Nat
        /\ Total(trees, U) = Total(trees, R) + Total(trees, A)
      BY <2>7, <2>8, TotalSplit
  <2>. QED
      BY <1>1, <2>1, <2>4, <2>6, <2>8, <2>9, TreeStoreAssumption DEF U
<1>. QED
    BY <1>2, <1>3

\* The loop ends, within one turn per tree, with what Evicted says removed.
LEMMA LoopRemovesEvicted ==
    ASSUME IInv, SInv, Maps, NEW incoming \in Nat, NEW N, N = Cardinality(DOMAIN used)
    PROVE  /\ ~ Full(Turns(incoming)[N], incoming)
           /\ Turns(incoming)[N] = Left(Evicted(incoming))
<1>. DEFINE D == DOMAIN used
            f == Turns(incoming)
            Here(i, R) == /\ Removed(R, incoming) /\ f[i] = Left(R)
                          /\ ~ Full(f[i], incoming) \/ Cardinality(R) = i
            G == {i \in Nat : i <= N => \E R : Here(i, R)}
<1>1. D = DOMAIN trees /\ IsFiniteSet(D) /\ N \in Nat
    BY StoreSized, FS_CardinalityType DEF IInv, UsedMatchesTrees
<1>2. f = [i \in 0..N |-> AtTurn(f, i, incoming)]
    BY <1>1, TurnsDef
<1>. HIDE DEF f
<1>3. 0 \in G
  <2>1. f[0] = [used |-> used, trees |-> trees, nodes |-> nodes]
      BY <1>1, <1>2 DEF AtTurn
  <2>2. Left({}) = [used |-> used, trees |-> trees, nodes |-> nodes]
    <3>1. Total(trees, {}) = 0
      <4>1. Sized(trees, {})
          BY FS_EmptySet DEF Sized
      <4>. QED
          BY <4>1, TotalStep
    <3>2. nodes - 0 = nodes
        BY StoreSized
    <3>3. /\ used = [k \in DOMAIN used |-> used[k]]
          /\ trees = [k \in DOMAIN trees |-> trees[k]]
        BY DEF Maps, IsMap
    <3>4. Forget(used, {}) = used
        BY <3>3 DEF Forget
    <3>5. Without(trees, {}) = trees
        BY <3>3 DEF Without, Restrict
    <3>. QED
        BY <3>1, <3>2, <3>4, <3>5 DEF Left
  <2>3. Removed({}, incoming) /\ Cardinality({}) = 0
      BY FS_EmptySet DEF Removed
  <2>4. Here(0, {})
      BY <2>1, <2>2, <2>3
  <2>. QED
      BY <2>4
<1>4. ASSUME NEW i \in G PROVE i + 1 \in G
  <2>. SUFFICES ASSUME i + 1 <= N PROVE \E R : Here(i + 1, R)
      OBVIOUS
  <2>1. PICK R : Here(i, R)
      BY <1>1
  <2>2. f[i + 1] = IF Full(f[i], incoming) THEN Turn(f[i]) ELSE f[i]
    <3>1. i + 1 \in 0..N /\ i + 1 # 0 /\ (i + 1) - 1 = i
        BY <1>1
    <3>. QED
        BY <1>2, <3>1 DEF AtTurn
  <2>3. CASE ~ Full(f[i], incoming)
    <3>1. f[i + 1] = f[i]
        BY <2>2, <2>3
    <3>2. Here(i + 1, R)
        BY <2>1, <2>3, <3>1
    <3>. QED
        BY <3>2
  <2>4. CASE Full(f[i], incoming)
    <3>1. Removed(R, incoming) /\ f[i] = Left(R) /\ Cardinality(R) = i
        BY <2>1, <2>4
    <3>2. PICK k \in DOMAIN used \ R : /\ Removed(R \cup {k}, incoming)
                                       /\ Turn(Left(R)) = Left(R \cup {k})
        BY <2>4, <3>1, TurnRemoves
    <3>3. f[i + 1] = Left(R \cup {k})
        BY <2>2, <2>4, <3>1, <3>2
    <3>4. R \in SUBSET D
        BY <3>1 DEF Removed, Evicted
    <3>5. IsFiniteSet(R)
        BY <1>1, <3>4, FS_Subset
    <3>6. Cardinality(R \cup {k}) = i + 1
        BY <3>1, <3>5, FS_AddElement
    <3>7. Here(i + 1, R \cup {k})
        BY <3>2, <3>3, <3>6
    <3>. QED
        BY <3>7
  <2>. QED
      BY <2>3, <2>4
<1>5. G = Nat
  <2>1. G \in SUBSET Nat
      OBVIOUS
  <2>. HIDE DEF G
  <2>. QED
      BY <1>3, <1>4, <2>1, Induction
<1>6. PICK R : Here(N, R)
    BY <1>1, <1>5
<1>7. ~ Full(f[N], incoming)
  <2>1. CASE Cardinality(R) = N
    <3>1. R \in SUBSET D
        BY <1>6 DEF Removed, Evicted
    <3>2. R = D
        BY <1>1, <2>1, <3>1, FS_Subset
    <3>3. DOMAIN Left(R).trees = {}
        BY <1>1, <3>2 DEF Left, Without, Restrict
    <3>. QED
        BY <1>6, <3>3 DEF Full
  <2>. QED
      BY <1>6, <2>1
<1>8. R = Evicted(incoming)
    BY <1>6, <1>7, RoomForIt
<1>. QED
    BY <1>6, <1>7, <1>8 DEF f

\* evictLocked: the loop that removes the oldest tree until the new one fits
\* ends, and the set it removes is the one the specification of Store uses.
THEOREM LoopEndsAsEvicted == Spec => []EvictedIsTheLoop
<1>1. ASSUME IInv, SInv, Maps PROVE EvictedIsTheLoop
  <2>. SUFFICES ASSUME NEW incoming \in 0..(MaxNodes + 1)
       PROVE  LET out == Evicted(incoming)
                  s == Turns(incoming)[Cardinality(DOMAIN used)]
              IN  /\ ~ Full(s, incoming)
                  /\ s = [used |-> Forget(used, out), trees |-> Without(trees, out),
                          nodes |-> nodes - Weight(out)]
      BY DEF EvictedIsTheLoop
  <2>1. incoming \in Nat
      BY TreeStoreAssumption
  <2>2. Evicted(incoming) \cap DOMAIN trees = Evicted(incoming)
      BY <1>1 DEF IInv, UsedMatchesTrees, Evicted
  <2>3. Weight(Evicted(incoming)) = Total(trees, Evicted(incoming))
      BY <2>2 DEF Weight
  <2>4. /\ ~ Full(Turns(incoming)[Cardinality(DOMAIN used)], incoming)
        /\ Turns(incoming)[Cardinality(DOMAIN used)] = Left(Evicted(incoming))
      BY <1>1, <2>1, LoopRemovesEvicted
  <2>. QED
      BY <2>3, <2>4 DEF Left
<1>. QED
    BY <1>1, Invariance, StoreInvariance, MapsInvariance, PTL
=============================================================================
