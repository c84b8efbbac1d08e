--------------------------- MODULE BackoffProofs ----------------------------
(***************************************************************************)
(* Proofs about Backoff, for any period, cap, cycle length and number of   *)
(* operators' actions, at any time.                                        *)
(***************************************************************************)
EXTENDS Backoff, FiniteSetTheorems, WellFoundedInduction, TLAPS

\* The first wait is the shortest, and none is longer than maxBackoff.
LEMMA DelayBounds ==
    /\ Delay(1) \in Nat
    /\ Delay(1) = 2 * Interval \/ Delay(1) = MaxBackoff
    /\ \A n \in Nat \ {0} :
        Delay(n) \in Nat /\ Delay(1) <= Delay(n) /\ Delay(n) <= MaxBackoff
<1>. USE BackoffAssumption
<1>1. Shift[1] = 2
    BY DEF Shift
<1>2. Delay(1) = IF Interval * 2 > MaxBackoff THEN MaxBackoff
                 ELSE Interval * 2
    BY <1>1 DEF Delay
<1>3. ASSUME NEW n \in Nat \ {0}
      PROVE  Delay(n) \in Nat /\ Delay(1) <= Delay(n) /\ Delay(n) <= MaxBackoff
  <2>. DEFINE i == IF n < 8 THEN n ELSE 8
  <2>1. i \in 1..8
      OBVIOUS
  <2>2. PICK k \in Nat : k = Shift[i] /\ k >= 2
      BY <2>1 DEF Shift
  <2>3. Interval * k \in Nat /\ Interval * 2 <= Interval * k
      BY <2>2
  <2>4. Delay(n) = IF Interval * k > MaxBackoff THEN MaxBackoff
                   ELSE Interval * k
      BY <2>2 DEF Delay
  <2>. QED
      BY <1>2, <2>3, <2>4
<1>. QED
    BY <1>2, <1>3

\* Before the first attempt there is nothing to space out or to wait for.
LEMMA InitIInv == Init => IInv
<1>. SUFFICES ASSUME Init PROVE IInv
    OBVIOUS
<1>. USE BackoffAssumption DEF Init
<1>1. TypeOK
  <2>1. pending \in BOOLEAN /\ click \in BOOLEAN
      BY Zenon
  <2>. QED
      BY <2>1 DEF TypeOK
<1>2. KeepsDistance
    BY DEF KeepsDistance
<1>3. TickerInTime /\ AttemptInTime
    BY DEF TickerInTime, AttemptInTime, Patience
<1>. QED
    BY <1>1, <1>2, <1>3 DEF IInv

\* Every step preserves the invariant: one case per action.
LEMMA NextIInv == IInv /\ [Next]_vars => IInv'
<1>. SUFFICES ASSUME IInv, [Next]_vars PROVE IInv'
    OBVIOUS
<1>. USE BackoffAssumption, DelayBounds DEF IInv, vars, clockVars, loopVars,
         clickVars, boVars
<1>1. CASE Pass
  <2>. USE <1>1 DEF Pass
  <2>1. TypeOK'
    <3>1. pending' \in BOOLEAN /\ click' \in BOOLEAN
        BY Zenon DEF TypeOK
    <3>. QED
        BY <3>1 DEF TypeOK
  <2>2. KeepsDistance'
      BY DEF TypeOK, KeepsDistance
  <2>3. TickerInTime'
      BY DEF TypeOK, TickerInTime
  <2>4. AttemptInTime'
      BY DEF TypeOK, AttemptInTime, Patience
  <2>. QED
      BY <2>1, <2>2, <2>3, <2>4
<1>2. CASE CollectAll
  <2>. USE <1>2 DEF CollectAll
  <2>1. TypeOK'
    <3>1. pending' \in BOOLEAN /\ click' \in BOOLEAN
        BY Zenon DEF TypeOK
    <3>. QED
        BY <3>1 DEF TypeOK
  <2>2. KeepsDistance'
      BY DEF TypeOK, KeepsDistance, Due
  <2>3. TickerInTime'
      BY DEF TypeOK, TickerInTime
  <2>4. AttemptInTime'
      BY DEF TypeOK, AttemptInTime, TickerInTime, Patience, Due
  <2>. QED
      BY <2>1, <2>2, <2>3, <2>4
<1>3. CASE LoopFails
  <2>. USE <1>3 DEF LoopFails, NoteFailure
  <2>1. PICK d \in Nat : nextTry' = now + d /\ Delay(1) <= d /\ d <= MaxBackoff
      BY DEF TypeOK
  <2>2. TypeOK'
      BY <2>1 DEF TypeOK
  <2>3. KeepsDistance'
      BY <2>1 DEF TypeOK, KeepsDistance
  <2>4. TickerInTime' /\ AttemptInTime'
      BY <2>1 DEF TypeOK, TickerInTime, AttemptInTime, Patience
  <2>. QED
      BY <2>2, <2>3, <2>4
<1>4. CASE LoopSucceeds
    BY <1>4 DEF LoopSucceeds, NoteSuccess, TypeOK, KeepsDistance,
       TickerInTime, AttemptInTime, Patience
<1>5. CASE CycleEnds
    BY <1>5 DEF CycleEnds, TypeOK, KeepsDistance, TickerInTime,
       AttemptInTime, Patience
<1>6. CASE Click
    BY <1>6 DEF Click, TypeOK, KeepsDistance, TickerInTime, AttemptInTime,
       Patience
<1>7. CASE ClickFails
  <2>. USE <1>7 DEF ClickFails, NoteFailure
  <2>1. PICK d \in Nat : nextTry' = now + d /\ Delay(1) <= d /\ d <= MaxBackoff
      BY DEF TypeOK
  <2>2. TypeOK'
    <3>1. pending' \in BOOLEAN /\ click' \in BOOLEAN
        BY Zenon DEF TypeOK
    <3>. QED
        BY <2>1, <3>1 DEF TypeOK
  <2>3. KeepsDistance'
      BY <2>1 DEF TypeOK, KeepsDistance
  <2>4. TickerInTime' /\ AttemptInTime'
      BY <2>1 DEF TypeOK, TickerInTime, AttemptInTime, Patience
  <2>. QED
      BY <2>2, <2>3, <2>4
<1>8. CASE ClickSucceeds
  <2>1. pending' \in BOOLEAN /\ click' \in BOOLEAN
      BY <1>8, Zenon DEF ClickSucceeds, TypeOK
  <2>. QED
    BY <1>8, <2>1 DEF ClickSucceeds, NoteSuccess, TypeOK, KeepsDistance,
       TickerInTime, AttemptInTime, Patience
<1>9. CASE UNCHANGED vars
    BY <1>9 DEF TypeOK, KeepsDistance, TickerInTime, AttemptInTime, Patience
<1>. QED
    BY <1>1, <1>2, <1>3, <1>4, <1>5, <1>6, <1>7, <1>8, <1>9 DEF Next, Watched

-----------------------------------------------------------------------------
\* The strengthened invariant holds in every state of every behaviour.
THEOREM Invariance == Spec => []IInv
<1>. QED
    BY InitIInv, NextIInv, PTL DEF Spec

\* The variables have their types, and nextTry is never further away than
\* maxBackoff.
THEOREM TypeCorrect == Spec => []TypeOK
<1>1. IInv => TypeOK
    BY DEF IInv
<1>. QED
    BY <1>1, Invariance, PTL

\* due and noteFailure: the loop's failures keep their distance for any
\* period and cap, whatever collections of operators come in between.
THEOREM FailuresAreSpacedOut == Spec => []SpacedOut
<1>1. IInv => SpacedOut
    BY DelayBounds, BackoffAssumption DEF IInv, TypeOK, KeepsDistance,
       SpacedOut
<1>. QED
    BY <1>1, Invariance, PTL

\* maxBackoff and the ticker: the host is attempted again in bounded time.
THEOREM HostsAreNotForgotten == Spec => []NotForgotten
<1>1. IInv => NotForgotten
    BY BackoffAssumption DEF IInv, TypeOK, TickerInTime, AttemptInTime,
       NotForgotten, Patience
<1>. QED
    BY <1>1, Invariance, PTL
-----------------------------------------------------------------------------
(* The number of failures in a stretch of maxBackoff.                      *)

\* Interval << min(n, 8), before the cap.
Raw(n) == Shift[IF n < 8 THEN n ELSE 8]

\* The shifts only grow, and their sum is what Waits says.
LEMMA ShiftSums ==
    ASSUME NEW n \in Nat \ {0}
    PROVE  /\ Raw(n) \in Nat
           /\ \A m \in Nat : m >= n => Raw(m) \in Nat /\ Raw(n) <= Raw(m)
           /\ Waits(1) = Interval * Raw(1)
           /\ \E s \in Nat : /\ Waits(n) = Interval * s
                             /\ Waits(n + 1) = Interval * (s + Raw(n + 1))
<1>. DEFINE i(m) == IF m < 8 THEN m ELSE 8
<1>0. /\ Shift[1] = 2 /\ Shift[2] = 4 /\ Shift[3] = 8 /\ Shift[4] = 16
      /\ Shift[5] = 32 /\ Shift[6] = 64 /\ Shift[7] = 128 /\ Shift[8] = 256
    BY DEF Shift
<1>1. \A k, l \in 1..8 : k <= l => Shift[k] \in Nat /\ Shift[k] <= Shift[l]
    BY <1>0
<1>2. Raw(n) \in Nat
    BY <1>1 DEF Raw
<1>3. ASSUME NEW m \in Nat, m >= n PROVE Raw(m) \in Nat /\ Raw(n) <= Raw(m)
    BY <1>1, <1>3 DEF Raw
<1>4. Waits(1) = Interval * Raw(1)
    BY <1>0 DEF Waits, Raw
<1>5. \E s \in Nat : /\ Waits(n) = Interval * s
                     /\ Waits(n + 1) = Interval * (s + Raw(n + 1))
  <2>. DEFINE s(m) == IF m < 8 THEN 2 * Shift[m] - 2 ELSE 254 + 256 * (m - 7)
  <2>1. s(n) \in Nat /\ s(n + 1) = s(n) + Raw(n + 1)
    <3>1. CASE n \in 1..6
        BY <1>0, <3>1 DEF Raw
    <3>2. CASE n = 7
        BY <1>0, <3>2 DEF Raw
    <3>3. CASE n > 7
        BY <1>0, <3>3 DEF Raw
    <3>. QED
        BY <3>1, <3>2, <3>3
  <2>2. Waits(n) = Interval * s(n) /\ Waits(n + 1) = Interval * s(n + 1)
      BY DEF Waits
  <2>. HIDE DEF s
  <2>. QED
      BY <2>1, <2>2
<1>. QED
    BY <1>2, <1>3, <1>4, <1>5

\* A wait after m failures is maxBackoff, or long enough to add up to the
\* waits of any number of failures up to m.
LEMMA OneMoreWait ==
    ASSUME NEW n \in Nat \ {0}
    PROVE  /\ Waits(n) \in Nat /\ Waits(n) <= Waits(n + 1)
           /\ \A m \in Nat : m >= n + 1 =>
                Delay(m) = MaxBackoff \/ Waits(n) + Delay(m) >= Waits(n + 1)
           /\ \A m \in Nat \ {0} : Delay(m) = MaxBackoff \/ Delay(m) >= Waits(1)
<1>. USE BackoffAssumption
<1>1. PICK s \in Nat : /\ Waits(n) = Interval * s
                       /\ Waits(n + 1) = Interval * (s + Raw(n + 1))
    BY ShiftSums
<1>2. Raw(n + 1) \in Nat
    BY ShiftSums
<1>3. /\ Interval * s \in Nat /\ Interval * Raw(n + 1) \in Nat
      /\ Interval * (s + Raw(n + 1)) = Interval * s + Interval * Raw(n + 1)
    BY <1>2
<1>4. ASSUME NEW m \in Nat, NEW k \in Nat \ {0}, m >= k
      PROVE  Delay(m) = MaxBackoff \/ Delay(m) >= Interval * Raw(k)
  <2>1. Raw(m) \in Nat /\ Raw(k) \in Nat /\ Raw(k) <= Raw(m)
      BY <1>4, ShiftSums
  <2>2. /\ Interval * Raw(m) \in Nat /\ Interval * Raw(k) \in Nat
        /\ Interval * Raw(k) <= Interval * Raw(m)
      BY <2>1
  <2>3. Delay(m) = IF Interval * Raw(m) > MaxBackoff THEN MaxBackoff
                   ELSE Interval * Raw(m)
      BY DEF Delay, Raw
  <2>. QED
      BY <2>2, <2>3
<1>5. Waits(n) \in Nat /\ Waits(n) <= Waits(n + 1)
    BY <1>1, <1>3
<1>6. ASSUME NEW m \in Nat, m >= n + 1
      PROVE  Delay(m) = MaxBackoff \/ Waits(n) + Delay(m) >= Waits(n + 1)
  <2>1. Delay(m) \in Nat
      BY <1>6, DelayBounds
  <2>2. Delay(m) = MaxBackoff \/ Delay(m) >= Interval * Raw(n + 1)
      BY <1>4, <1>6
  <2>. QED
      BY <1>1, <1>3, <2>1, <2>2
<1>7. ASSUME NEW m \in Nat \ {0}
      PROVE  Delay(m) = MaxBackoff \/ Delay(m) >= Waits(1)
    BY <1>4, ShiftSums
<1>. QED
    BY <1>5, <1>6, <1>7

\* A longer series of failures takes longer, and a delay after more failures
\* is not shorter.
LEMMA WaitsGrow ==
    ASSUME NEW n \in Nat \ {0}, NEW m \in Nat, n <= m
    PROVE  Waits(n) <= Waits(m) /\ Delay(n) <= Delay(m)
<1>. USE BackoffAssumption
<1>. DEFINE s(k) == IF k < 8 THEN 2 * Shift[k] - 2 ELSE 254 + 256 * (k - 7)
<1>0. /\ Shift[1] = 2 /\ Shift[2] = 4 /\ Shift[3] = 8 /\ Shift[4] = 16
      /\ Shift[5] = 32 /\ Shift[6] = 64 /\ Shift[7] = 128
    BY DEF Shift
<1>1. \A k \in 1..7 : Shift[k] \in 2..128
    BY <1>0
<1>5. Raw(n) \in Nat /\ Raw(m) \in Nat /\ Raw(n) <= Raw(m)
    BY ShiftSums
<1>2. s(n) \in Nat /\ s(m) \in Nat /\ s(n) <= s(m)
  <2>1. CASE m < 8
      BY <1>1, <1>5, <2>1 DEF Raw
  <2>2. CASE m >= 8
      BY <1>1, <2>2
  <2>. QED
      BY <2>1, <2>2
<1>3. Waits(n) = Interval * s(n) /\ Waits(m) = Interval * s(m)
    BY DEF Waits
<1>. HIDE DEF s
<1>4. Waits(n) <= Waits(m)
    BY <1>2, <1>3
<1>6. /\ Interval * Raw(n) \in Nat /\ Interval * Raw(m) \in Nat
      /\ Interval * Raw(n) <= Interval * Raw(m)
    BY <1>5
<1>7. ASSUME NEW k \in {n, m}
      PROVE  Delay(k) = IF Interval * Raw(k) > MaxBackoff THEN MaxBackoff
                        ELSE Interval * Raw(k)
    BY DEF Delay, Raw
<1>8. Delay(n) <= Delay(m)
    BY <1>6, <1>7
<1>. QED
    BY <1>4, <1>8

\* A set of natural numbers has a least element.
LEMMA FirstOf ==
    ASSUME NEW T \in SUBSET Nat, T # {}
    PROVE  \E x \in T : \A y \in T : x <= y
<1>1. PICK x \in T : \A y \in T : ~ (<<y, x>> \in OpToRel(<, Nat))
    BY WFMin, NatLessThanWellFounded
<1>2. ASSUME NEW y \in T, y < x PROVE FALSE
  <2>1. <<y, x>> \in {ss \in Nat \X Nat : ss[1] < ss[2]}
      BY <1>2
  <2>2. {ss \in Nat \X Nat : ss[1] < ss[2]} = OpToRel(<, Nat)
      BY Zenon DEF OpToRel
  <2>. QED
      BY <1>1, <2>1, <2>2
<1>. QED
    BY <1>2

\* A bounded one has a greatest element.
LEMMA LastOf ==
    ASSUME NEW T \in SUBSET Nat, T # {}, NEW n \in Nat, \A t \in T : t <= n
    PROVE  \E x \in T : \A y \in T : y <= x
<1>. DEFINE R == {n - t : t \in T}
<1>0. \A t \in T : n - t \in Nat
    OBVIOUS
<1>1. R \in SUBSET Nat /\ R # {}
    BY <1>0
<1>2. PICK r \in R : \A y \in R : r <= y
    BY <1>1, FirstOf
<1>3. PICK x \in T : r = n - x
    BY <1>2
<1>4. ASSUME NEW y \in T PROVE y <= x
  <2>1. n - y \in R
      OBVIOUS
  <2>. QED
      BY <1>2, <1>3, <2>1
<1>. QED
    BY <1>4

\* The failures counted are finitely many; one more counts once.
LEMMA Counting ==
    ASSUME TypeOK
    PROVE  /\ \A S \in SUBSET log : IsFiniteSet(S) /\ Cardinality(S) \in Nat
                                    /\ Cardinality(S) <= Cardinality(log)
           /\ \A a \in log : Since(a) \in Nat \ {0} /\ Since(a) <= Cardinality(log)
           /\ \A a, b \in log : a < b => Between(a, b) \in Nat \ {0}
<1>1. IsFiniteSet(log)
  <2>1. IsFiniteSet(0..now) /\ log \subseteq 0..now
      BY FS_Interval DEF TypeOK
  <2>. QED
      BY <2>1, FS_Subset
<1>2. ASSUME NEW S \in SUBSET log
      PROVE  /\ IsFiniteSet(S) /\ Cardinality(S) \in Nat
             /\ Cardinality(S) <= Cardinality(log)
             /\ S # {} => Cardinality(S) # 0
    BY <1>1, FS_Subset, FS_CardinalityType, FS_EmptySet
<1>3. ASSUME NEW a \in log
      PROVE  Since(a) \in Nat \ {0} /\ Since(a) <= Cardinality(log)
  <2>1. a \in {c \in log : a <= c}
      BY DEF TypeOK
  <2>. QED
      BY <1>2, <2>1 DEF Since
<1>4. ASSUME NEW a \in log, NEW b \in log, a < b
      PROVE  Between(a, b) \in Nat \ {0}
  <2>1. a \in {c \in log : a <= c /\ c < b}
      BY <1>4 DEF TypeOK
  <2>. QED
      BY <1>2, <2>1 DEF Between
<1>. QED
    BY <1>2, <1>3, <1>4

\* What comes later is as far.
LEMMA FarLater ==
    ASSUME NEW a \in Nat, NEW t \in Int, NEW u \in Int, NEW n, Waits(n) \in Nat,
           Far(a, t, n), t <= u
    PROVE  Far(a, u, n)
BY BackoffAssumption DEF Far

\* Nothing was noted: only the date and where the loop is may have changed.
LEMMA WaitsKept ==
    ASSUME TypeOK, WaitsAddUp, UNCHANGED boVars, now' \in Nat, now' >= now,
           cycle' = "ask" => cycle = "ask" \/ Due
    PROVE  WaitsAddUp'
<1>. USE BackoffAssumption
<1>1. /\ fails' = fails /\ nextTry' = nextTry /\ log' = log
    BY DEF boVars
<1>2. Cardinality(log)' <= fails'
    BY <1>1 DEF WaitsAddUp
<1>3. fails' > 0 => nextTry' <= now' + Delay(fails')
  <2>1. ASSUME fails > 0 PROVE Delay(fails) \in Nat
      BY <2>1, DelayBounds DEF TypeOK
  <2>. QED
      BY <1>1, <2>1 DEF WaitsAddUp, TypeOK
<1>4. ASSUME NEW a \in log
      PROVE  /\ Far(a, nextTry, Since(a))'
             /\ cycle' = "ask" => Far(a, now' - 1, Since(a)')
             /\ \A b \in log : a < b => Far(a, b - 1, Between(a, b)')
  <2>1. Since(a)' = Since(a) /\ \A b \in log : Between(a, b)' = Between(a, b)
      BY <1>1 DEF Since, Between
  <2>2. Since(a) \in Nat \ {0} /\ Waits(Since(a)) \in Nat /\ a \in Nat /\ nextTry \in Nat
        /\ now \in Nat
      BY Counting, OneMoreWait DEF TypeOK
  <2>3. Far(a, nextTry, Since(a))
      BY DEF WaitsAddUp
  <2>4. ASSUME cycle' = "ask" PROVE Far(a, now' - 1, Since(a))
    <3>1. CASE cycle = "ask"
      <4>1. Far(a, now - 1, Since(a))
          BY <3>1 DEF WaitsAddUp
      <4>. QED
          BY <2>2, <4>1, FarLater
    <3>2. CASE Due
      <4>1. fails # 0
          BY Counting DEF WaitsAddUp, TypeOK
      <4>2. now > nextTry
          BY <3>2, <4>1 DEF Due
      <4>. QED
          BY <2>2, <2>3, <4>2, FarLater
    <3>. QED
        BY <2>4, <3>1, <3>2
  <2>5. \A b \in log : a < b => Far(a, b - 1, Between(a, b))
      BY DEF WaitsAddUp
  <2>6. Far(a, nextTry, Since(a))'
      BY <1>1, <2>1, <2>3 DEF Far
  <2>. QED
      BY <2>1, <2>4, <2>5, <2>6
<1>. QED
    BY <1>1, <1>2, <1>3, <1>4 DEF WaitsAddUp

\* noteSuccess deletes the entry, and the series of failures with it.
LEMMA WaitsCleared ==
    ASSUME TypeOK, NoteSuccess
    PROVE  WaitsAddUp'
<1>1. log' = {} /\ fails' = 0 /\ Cardinality({}) = 0
    BY FS_EmptySet DEF NoteSuccess
<1>. QED
    BY <1>1 DEF WaitsAddUp

\* An operator's failure lengthens the wait, and is no failure of the loop.
LEMMA WaitsLengthened ==
    ASSUME TypeOK, WaitsAddUp, NoteFailure, UNCHANGED <<now, cycle, log>>
    PROVE  WaitsAddUp'
<1>. USE BackoffAssumption
<1>1. fails' = fails + 1 /\ nextTry' = now + Delay(fails + 1) /\ fails + 1 \in Nat \ {0}
    BY DEF NoteFailure, TypeOK
<1>2. Delay(fails + 1) \in Nat /\ now \in Nat /\ nextTry \in Nat
    BY <1>1, DelayBounds DEF TypeOK
<1>3. Cardinality(log)' <= fails'
    BY <1>1, Counting DEF WaitsAddUp, TypeOK
<1>4. ASSUME NEW a \in log PROVE nextTry' >= nextTry
  <2>1. fails # 0
      BY Counting DEF WaitsAddUp, TypeOK
  <2>2. Delay(fails) <= Delay(fails + 1) /\ Delay(fails) \in Nat
      BY <2>1, WaitsGrow, DelayBounds DEF TypeOK
  <2>3. nextTry <= now + Delay(fails)
      BY <2>1 DEF WaitsAddUp, TypeOK
  <2>. QED
      BY <1>1, <1>2, <2>2, <2>3
<1>5. ASSUME NEW a \in log
      PROVE  /\ Far(a, nextTry', Since(a)')
             /\ cycle' = "ask" => Far(a, now' - 1, Since(a)')
             /\ \A b \in log : a < b => Far(a, b - 1, Between(a, b)')
  <2>1. Since(a)' = Since(a) /\ \A b \in log : Between(a, b)' = Between(a, b)
      BY DEF Since, Between
  <2>2. Waits(Since(a)) \in Nat /\ a \in Nat
      BY Counting, OneMoreWait DEF TypeOK
  <2>3. Far(a, nextTry, Since(a))
      BY DEF WaitsAddUp
  <2>4. Far(a, nextTry', Since(a))
      BY <1>1, <1>2, <1>4, <2>2, <2>3 DEF Far
  <2>. QED
      BY <2>1, <2>4 DEF WaitsAddUp
<1>. QED
    BY <1>1, <1>2, <1>3, <1>5 DEF WaitsAddUp, Far

\* A failure of the loop comes after the waits of those before it, and its own
\* wait is at least the next one of the series.
LEMMA WaitsExtended ==
    ASSUME TypeOK, WaitsAddUp, LoopFails
    PROVE  WaitsAddUp'
<1>. USE BackoffAssumption
<1>. DEFINE m == fails + 1
<1>1. /\ fails' = m /\ nextTry' = now + Delay(m) /\ log' = log \cup {now}
      /\ now' = now /\ cycle = "ask" /\ cycle' = "wait" /\ m \in Nat \ {0}
    BY DEF LoopFails, NoteFailure, TypeOK, clockVars
<1>2. Delay(m) \in Nat /\ now \in Nat
    BY <1>1, DelayBounds DEF TypeOK
<1>3. ASSUME NEW a \in log
      PROVE  /\ a \in Nat /\ Since(a) \in Nat \ {0} /\ Waits(Since(a)) \in Nat
             /\ Far(a, now - 1, Since(a)) /\ a < now
  <2>1. a \in Nat /\ Since(a) \in Nat \ {0} /\ Waits(Since(a)) \in Nat
      BY Counting, OneMoreWait DEF TypeOK
  <2>2. Far(a, now - 1, Since(a))
      BY <1>1 DEF WaitsAddUp
  <2>. QED
      BY <1>2, <2>1, <2>2 DEF Far
<1>4. now \notin log /\ IsFiniteSet(log)
    BY <1>2, <1>3, Counting
<1>5. Cardinality(log') = Cardinality(log) + 1 /\ Cardinality(log) <= fails
    BY <1>1, <1>4, FS_AddElement DEF WaitsAddUp
<1>6. Cardinality(log)' <= fails'
    BY <1>1, <1>5, <1>4, FS_CardinalityType DEF TypeOK
<1>7. ASSUME NEW a \in log
      PROVE  /\ Since(a)' = Since(a) + 1 /\ Between(a, now)' = Since(a)
             /\ \A b \in log : Between(a, b)' = Between(a, b)
  <2>. DEFINE S == {c \in log : a <= c}
  <2>1. {c \in log' : a <= c} = S \cup {now} /\ now \notin S
      BY <1>1, <1>3, <1>4, <1>2
  <2>2. IsFiniteSet(S)
      BY Counting
  <2>3. Cardinality(S \cup {now}) = Cardinality(S) + 1
      BY <2>1, <2>2, FS_AddElement
  <2>4. {c \in log' : a <= c /\ c < now} = S
      BY <1>1, <1>2, <1>3
  <2>5. ASSUME NEW b \in log
        PROVE  {c \in log' : a <= c /\ c < b} = {c \in log : a <= c /\ c < b}
      BY <1>1, <1>2, <1>3
  <2>. QED
      BY <1>1, <2>1, <2>3, <2>4, <2>5 DEF Since, Between
<1>8. ASSUME NEW a \in log
      PROVE  /\ Far(a, nextTry', Since(a)')
             /\ Far(a, now - 1, Between(a, now)')
             /\ \A b \in log : a < b => Far(a, b - 1, Between(a, b)')
  <2>. DEFINE n == Since(a)
  <2>0. m >= n + 1 /\ n \in Nat \ {0}
      BY <1>1, <1>3, <1>5, Counting DEF TypeOK
  <2>1. Delay(m) = MaxBackoff \/ Waits(n) + Delay(m) >= Waits(n + 1)
      BY <1>1, <2>0, OneMoreWait
  <2>2. Waits(n) \in Nat /\ Waits(n + 1) \in Nat
      BY <2>0, OneMoreWait
  <2>3. a \in Nat /\ Far(a, now - 1, n)
      BY <1>3
  <2>. HIDE DEF n, m
  <2>4. Far(a, nextTry', n + 1)
      BY <1>1, <1>2, <2>1, <2>2, <2>3 DEF Far
  <2>5. \A b \in log : a < b => Far(a, b - 1, Between(a, b))
      BY DEF WaitsAddUp
  <2>. QED
      BY <1>7, <2>3, <2>4, <2>5 DEF n
<1>9. Far(now, nextTry', Since(now)')
  <2>1. {c \in log' : now <= c} = {now}
      BY <1>1, <1>2, <1>3
  <2>2. Since(now)' = 1
      BY <1>1, <2>1, FS_Singleton DEF Since
  <2>3. Delay(m) = MaxBackoff \/ Delay(m) >= Waits(1)
      BY <1>1, OneMoreWait
  <2>4. Waits(1) \in Nat
      BY OneMoreWait
  <2>. HIDE DEF m
  <2>. QED
      BY <1>1, <1>2, <2>2, <2>3, <2>4 DEF Far
<1>10. ASSUME NEW a \in log'
       PROVE  /\ Far(a, nextTry', Since(a)')
              /\ \A b \in log' : a < b => Far(a, b - 1, Between(a, b)')
    BY <1>1, <1>2, <1>3, <1>8, <1>9
<1>11. nextTry' <= now' + Delay(fails')
    BY <1>1, <1>2
<1>. QED
    BY <1>1, <1>6, <1>10, <1>11 DEF WaitsAddUp

\* Every step keeps the waits adding up: one case per action.
LEMMA NextWaits == IInv /\ WaitsAddUp /\ [Next]_vars => WaitsAddUp'
<1>. SUFFICES ASSUME IInv, WaitsAddUp, [Next]_vars PROVE WaitsAddUp'
    OBVIOUS
<1>0. TypeOK /\ now \in Nat /\ TypeOK'
    BY NextIInv DEF IInv, TypeOK
<1>. USE <1>0 DEF vars, clockVars, loopVars, clickVars
<1>1. CASE Pass
    BY <1>1, WaitsKept DEF Pass
<1>2. CASE CollectAll
    BY <1>2, WaitsKept DEF CollectAll
<1>3. CASE LoopFails
    BY <1>3, WaitsExtended
<1>4. CASE LoopSucceeds
    BY <1>4, WaitsCleared DEF LoopSucceeds
<1>5. CASE CycleEnds
    BY <1>5, WaitsKept DEF CycleEnds
<1>6. CASE Click
    BY <1>6, WaitsKept DEF Click
<1>7. CASE ClickFails
    BY <1>7, WaitsLengthened DEF ClickFails
<1>8. CASE ClickSucceeds
    BY <1>8, WaitsCleared DEF ClickSucceeds
<1>9. CASE UNCHANGED vars
    BY <1>9, WaitsKept
<1>. QED
    BY <1>1, <1>2, <1>3, <1>4, <1>5, <1>6, <1>7, <1>8, <1>9 DEF Next, Watched

\* The waits add up in every state of every behaviour.
THEOREM WaitsInvariance == Spec => []WaitsAddUp
<1>1. Init => WaitsAddUp
    BY FS_EmptySet DEF Init, WaitsAddUp
<1>2. IInv /\ WaitsAddUp /\ [Next]_vars => WaitsAddUp'
    BY NextWaits
<1>. QED
    BY <1>1, <1>2, Invariance, PTL DEF Spec

\* noteFailure and due: in any stretch of maxBackoff the loop fails at most
\* Budget times on a host that does not come back, for any period and cap,
\* however operators' collections and long cycles fall in between.
THEOREM FailuresAreFew == Spec => []FewFailures
<1>1. ASSUME IInv, WaitsAddUp PROVE FewFailures
  <2>. USE BackoffAssumption
  <2>. DEFINE S == {t \in log : t > now - MaxBackoff}
              n == Cardinality(S)
  <2>0. TypeOK /\ now \in Nat /\ log \subseteq Nat /\ \A t \in log : t <= now
      BY <1>1 DEF IInv, TypeOK
  <2>1. IsFiniteSet(S) /\ n \in Nat
      BY <2>0, Counting
  <2>. SUFFICES ASSUME n > Budget PROVE FALSE
      BY <2>1 DEF FewFailures
  <2>2. S # {}
      BY FS_EmptySet
  <2>3. PICK a \in S : \A c \in S : a <= c
      BY <2>0, <2>2, FirstOf
  <2>4. PICK b \in S : \A c \in S : c <= b
      BY <2>0, <2>2, LastOf
  <2>5. {c \in log : a <= c /\ c < b} = S \ {b}
    <3>1. a \in Nat /\ b \in Nat /\ a > now - MaxBackoff /\ MaxBackoff \in Nat
        BY <2>0
    <3>2. ASSUME NEW c \in log PROVE (a <= c /\ c < b) <=> c \in S \ {b}
      <4>1. c \in Nat
          BY <2>0
      <4>2. ASSUME a <= c, c < b PROVE c \in S \ {b}
          BY <2>0, <3>1, <4>1, <4>2
      <4>3. ASSUME c \in S \ {b} PROVE a <= c /\ c < b
        <5>1. a <= c /\ c <= b /\ c # b
            BY <2>3, <2>4, <4>3
        <5>. QED
            BY <3>1, <4>1, <5>1
      <4>. QED
          BY <4>2, <4>3
    <3>3. S \ {b} \subseteq log
        OBVIOUS
    <3>. HIDE DEF S
    <3>. QED
        BY <3>2, <3>3
  <2>6. Between(a, b) = n - 1
    <3>. HIDE DEF S
    <3>. QED
        BY <2>1, <2>4, <2>5, FS_RemoveElement DEF Between
  <2>7. a # b
    <3>1. CASE a = b
      <4>1. S = {a}
        <5>1. ASSUME NEW c \in S PROVE c = a
          <6>1. a <= c /\ c <= a
              BY <2>3, <2>4, <3>1
          <6>2. a \in Nat /\ c \in Nat
              BY <2>0
          <6>. QED
              BY <6>1, <6>2
        <5>. HIDE DEF S
        <5>. QED
            BY <5>1
      <4>2. n = 1
          BY <4>1, FS_Singleton
      <4>. QED
          BY <4>2
    <3>. QED
        BY <3>1
  <2>8. a \in log /\ b \in log /\ a < b
      BY <2>0, <2>3, <2>4, <2>7
  <2>9. Far(a, b - 1, n - 1)
      BY <1>1, <2>6, <2>8 DEF WaitsAddUp
  <2>10. n - 1 \in Nat \ {0} /\ n - 1 >= Budget
      BY <2>1
  <2>. HIDE DEF n
  <2>11. Waits(n - 1) \in Nat /\ Waits(Budget) <= Waits(n - 1) /\ Waits(Budget) \in Nat
      BY <2>10, OneMoreWait, WaitsGrow
  <2>12. b - 1 >= a + MaxBackoff
      BY <2>0, <2>8, <2>9, <2>11, BudgetAssumption DEF Far
  <2>. QED
      BY <2>0, <2>3, <2>8, <2>12
<1>. QED
    BY <1>1, Invariance, WaitsInvariance, PTL
=============================================================================
